------------------------------ MODULE DspParams ------------------------------
(***************************************************************************)
(* The DSP's parameters (src/Spi_Code.c, src/EQ.c, src/Volume.c, main.c)   *)
(* and what the host makes of them at the next start.                      *)
(*                                                                         *)
(* The host stores every command that has an identifier, whatever the DSP  *)
(* does with it, in the slot of its first occurrence, and replays the      *)
(* tables in that order, group after group (send_data_to_dsp of            *)
(* drivers/inc.c).  The decoders refuse words by the parameters in force,  *)
(* compute from one another's parameters and overwrite one another's, so   *)
(* the replay need not lead to the parameters that were in force.          *)
(*                                                                         *)
(* A command is the record of its fields, see Protocol; the DSP takes the  *)
(* same fields from the word.  Channels, bands and rows are the ones of    *)
(* the constants; the decoders of the parameters left out have the form of *)
(* InputXtype_Set: a test of the range and an assignment.  Words lost on   *)
(* the link are the subject of HostControl and DspInput.                   *)
(***************************************************************************)
EXTENDS Protocol, Sequences, FiniteSets

CONSTANTS
  Channels,     \* output channels; the crossover's rows have the same numbers
  Bands,        \* bands of the equaliser
  Sessions,     \* what the PC program, the knob and the keys do between two
                \* starts, by name: [words, clicks, keys]
  Count,        \* Count[k]: the number of slots of group k's table
  MaxEvents,    \* bound: words, clicks and keys
  MaxRestarts   \* bound

ASSUME ParamAssumption ==
  /\ Channels \subseteq 1..14 /\ Bands \subseteq 1..31
  /\ \A n \in DOMAIN Sessions : LET s == Sessions[n] IN
       /\ s.words \subseteq Msg /\ s.clicks \subseteq -1..1 /\ s.keys \subseteq 1..6
       /\ \A m \in s.words : /\ m.key = 11 => m.param1 \in Channels
                             /\ m.key = 11 /\ m.type = 8 =>   \* or it is no array element
                                  m.param2 \in Bands \/ (m.param2 = 0 /\ m.param3 = 0)
                             /\ m.key = 15 => m.type \in Channels /\ m.param1 \in 1..6
  /\ MaxEvents \in Nat /\ MaxRestarts \in Nat

VARIABLES
  dsp,          \* the DSP's parameters, see Default
  setting,      \* the steps of KnobVolume_Set that are left
  upload,       \* the volume in the DSP's transmit register, -1 for none
  stored,       \* stored[k]: the words of group k's table in the order of its slots
  g_input_type, \* the input chosen on the front panel
  session, events, restarts,
  refused,      \* history: identifiers whose stored word the DSP did not take
  realigned,    \* history: ALIGNMENT was entered from itself
  volume_by     \* history: "pc" or "knob", whose gain is in force, "start" if
                \* neither's; "torn" if the knob came between the first write of
                \* KnobVolume_Set and its last

vars == <<dsp, setting, upload, stored, g_input_type, session, events, restarts,
          refused, realigned, volume_by>>

-----------------------------------------------------------------------------
(***************************************************************************)
(* The parameters and their decoders                                       *)
(***************************************************************************)
ALIGNMENT == 2
TEST == 6
USE_VOLUME_STEP == 96
FFTSIZE == 256              \* NUM_SAMPLES*NUM_TX_SLOTS
DelayBufSIZE == FFTSIZE * 20
LIMIT == DelayBufSIZE - FFTSIZE \div 2   \* the samples that a delay may have

\* main.c up to the loop; the globals it does not set are zero.
Default ==
  [InputXtype |-> 0, LastInputXtype |-> 0, SystemState |-> 1,
   SamplingRate |-> [i \in 0..7 |-> 48000],
   PlaybackSF |-> 0,
   FadeTime |-> [t \in {10, 11} |-> [time |-> 5, rate |-> 0]],  \* rate 0: 0.001 a frame
   Delay |-> [c \in Channels |-> 0],                \* in 1/100 ms
   samples |-> [c \in Channels |-> 0],              \* Delaytime_samplenums
   HighCutFreq |-> [c \in Channels |-> 20000],
   LowCutFreq |-> [c \in Channels |-> 20],
   EQBandGain |-> [c \in Channels |-> [b \in Bands |-> 0]],
   FreqDivVal |-> [c \in Channels |-> <<1, 20, 20000>>],
   route |-> [c \in Channels |-> <<-1, -1, -1>>],   \* outsignalchannel_book24m3
   count |-> 48,                                    \* g_volume_count_value
   knobvolume |-> 50,
   gain |-> -20]                                    \* knobvolumegainvalue, in dB

Para23(m) == m.param2 * 256 + m.param3
Signed(b) == IF b < 128 THEN b ELSE b - 256

\* C's division, towards zero.
Tenth(n) == IF n >= 0 THEN n \div 10 ELSE -((-n) \div 10)

Rate(n) == CASE n = 1 -> 44100 [] n = 3 -> 88200 [] n = 4 -> 96000 [] OTHER -> 48000

Samples(rate, delay) == (rate * delay) \div 100000

InputXtype_Set(d, m) == [d EXCEPT !.InputXtype = m.param1, !.LastInputXtype = m.param1]

FadeTime_Set(d, m) ==
  [d EXCEPT !.FadeTime[m.type] =
     [time |-> m.param1, rate |-> d.SamplingRate[d.InputXtype]]]

Input_SamplingRate_Set(d, m) == [d EXCEPT !.SamplingRate[m.key - 1] = Rate(m.param1)]

\* All groups write the parameter of the first one.
Input_PlaybackSF_Set(d, m) == [d EXCEPT !.PlaybackSF = m.param1]

\* The delay is kept even when its samples do not fit into the buffer.
Output_TimeDelay_Set(d, m) ==
  LET delay == m.param2 * 100 + m.param3
      val == Samples(d.SamplingRate[d.InputXtype], delay)
  IN [d EXCEPT !.Delay[m.param1] = delay,
               !.samples[m.param1] = IF val > LIMIT THEN @ ELSE val]

Output_HighCutFreq_Set(d, m) == [d EXCEPT !.HighCutFreq[m.param1] = Para23(m)]
Output_LowCutFreq_Set(d, m) == [d EXCEPT !.LowCutFreq[m.param1] = Para23(m)]

\* Mutant: a gain is added to the one in force.
MutantOutput_EQBandGain_Set(d, m) ==
  IF m.param2 = 0 /\ m.param3 = 0
  THEN [d EXCEPT !.EQBandGain[m.param1] = [b \in Bands |-> 0]]
  ELSE [d EXCEPT !.EQBandGain[m.param1][m.param2] = @ + Tenth(Signed(m.param3))]

\* Band 0 with gain 0 clears all bands.
Output_EQBandGain_Set(d, m) ==
  IF m.param2 = 0 /\ m.param3 = 0
  THEN [d EXCEPT !.EQBandGain[m.param1] = [b \in Bands |-> 0]]
  ELSE [d EXCEPT !.EQBandGain[m.param1][m.param2] = Tenth(Signed(m.param3))]

\* Mutant: the input type comes back in NORMAL only.
MutantSystemState_Set(d, m) ==
  [d EXCEPT !.SystemState = m.param1,
            !.InputXtype = CASE m.param1 = ALIGNMENT -> TEST
                             [] m.param1 = 1 -> d.LastInputXtype
                             [] OTHER -> @,
            !.LastInputXtype = IF m.param1 = ALIGNMENT THEN d.InputXtype ELSE @]

SystemState_Set(d, m) ==
  [d EXCEPT !.SystemState = m.param1,
            !.InputXtype = IF m.param1 = ALIGNMENT THEN TEST ELSE d.LastInputXtype,
            !.LastInputXtype = IF m.param1 = ALIGNMENT THEN d.InputXtype ELSE @]

\* The crossover of a row: how many bands, the frequencies between them, and
\* the output of each band.  A band above the number has no output.
setdivisionpointnum(route, number) == [b \in 1..3 |-> IF number < b THEN -1 ELSE route[b]]

DivisionComplete(v) ==
  LET audible(f) == f >= 20 /\ f <= 20000
  IN \/ v[1] = 1
     \/ v[1] = 2 /\ audible(v[2])
     \/ v[1] = 3 /\ audible(v[2]) /\ audible(v[3])

FreqDiv_Set(d, m) ==
  LET r == m.type
      val == IF m.param1 <= 3
             THEN [d.FreqDivVal[r] EXCEPT ![m.param1] = Para23(m)]
             ELSE d.FreqDivVal[r]
      out == IF m.param1 <= 3
             THEN d.route[r]
             ELSE [d.route[r] EXCEPT ![m.param1 - 3] = Para23(m) - 1]
  IN [d EXCEPT !.FreqDivVal[r] = val,
               !.route[r] = IF DivisionComplete(val)
                            THEN setdivisionpointnum(out, val[1])
                            ELSE out]

\* KnobVolume_Set is three writes; see SetVolume for what may come between.  The
\* gain is computed from a knobvolume x that was read before.
KnobCount(d, v) == [d EXCEPT !.count = v]
KnobValue(d, v) == [d EXCEPT !.knobvolume = v]
KnobGain(d, x) == [d EXCEPT !.gain = x - 90]
KnobVolume_Set(d, v) == KnobGain(KnobValue(KnobCount(d, v), v), v)

Freqs == 20..20000

\* Mutant: a low cut is not compared with the high cut.
MutantCutTaken(d, m) ==
  /\ Para23(m) \in Freqs
  /\ m.type = 4 => d.LowCutFreq[m.param1] <= Para23(m)

\* A cut frequency is tested against the other one of its channel.
CutTaken(d, m) ==
  /\ Para23(m) \in Freqs
  /\ m.type = 4 => d.LowCutFreq[m.param1] <= Para23(m)
  /\ m.type = 5 => d.HighCutFreq[m.param1] >= Para23(m)

\* The tests before a decoder's first write.
Taken(d, m) ==
  /\ m.op = 0 \/ m.key = 15
  /\ CASE m.key = 1 /\ m.type = 8           -> m.param2 <= 96
       [] m.key = 1 /\ m.type = 9           -> m.param1 \in 1..7
       [] m.key = 1 /\ m.type \in {10, 11}  -> m.param1 \in 2..10
       [] m.key \in 2..8 /\ m.type = 1      -> TRUE
       [] m.key \in 2..8 /\ m.type = 6      -> m.param1 <= 24
       [] m.key = 11 /\ m.type = 3 -> m.param2 <= 200 /\ m.param3 <= 99
       [] m.key = 11 /\ m.type \in {4, 5} -> CutTaken(d, m)
       [] m.key = 11 /\ m.type = 8 -> m.param2 <= 31 /\ Signed(m.param3) \in -120..120
       [] m.key = 13 /\ m.type = 11 -> m.param1 \in 1..3
       [] m.key = 15 -> m.type <= 16
       [] OTHER -> FALSE

\* handle_spi_raw_data: the decoder of the group and the index.
Decode(d, m) ==
  IF ~Taken(d, m) THEN d
  ELSE CASE m.key = 1 /\ m.type = 8          -> KnobVolume_Set(d, m.param2)
         [] m.key = 1 /\ m.type = 9          -> InputXtype_Set(d, m)
         [] m.key = 1 /\ m.type \in {10, 11} -> FadeTime_Set(d, m)
         [] m.key \in 2..8 /\ m.type = 1     -> Input_SamplingRate_Set(d, m)
         [] m.key \in 2..8 /\ m.type = 6     -> Input_PlaybackSF_Set(d, m)
         [] m.key = 11 /\ m.type = 3         -> Output_TimeDelay_Set(d, m)
         [] m.key = 11 /\ m.type = 4         -> Output_HighCutFreq_Set(d, m)
         [] m.key = 11 /\ m.type = 5         -> Output_LowCutFreq_Set(d, m)
         [] m.key = 11 /\ m.type = 8         -> Output_EQBandGain_Set(d, m)
         [] m.key = 13                       -> SystemState_Set(d, m)
         [] m.key = 15                       -> FreqDiv_Set(d, m)

-----------------------------------------------------------------------------
(***************************************************************************)
(* The host: the tables and their replay                                   *)
(***************************************************************************)
\* Mutant: the outputs are sent before the inputs.
MutantGroupOrder == <<11, 13, 14, 15, 1, 2, 3, 4, 5, 6, 7, 8>>

\* The order of group_table.
GroupOrder == <<1, 2, 3, 4, 5, 6, 7, 8, 11, 13, 14, 15>>

Command(key, type, p1, val) ==
  [op |-> 0, key |-> key, type |-> type, param1 |-> p1,
   param2 |-> val \div 256, param3 |-> val % 256]

InputWord(n) == Command(1, 9, n, 0)
VolumeWord(v) == Command(1, 8, 0, v * 256)

Recorded(m) == KeyValid(m) /\ m.key \in TableKeys /\ get_cmd_id(m) >= 0

\* The identifiers that the table of group k may get in a session: those of the
\* PC's words, of the knob's volume and of the front panel's input.
Ids(n, k) ==
  LET words == Sessions[n].words \cup {VolumeWord(0), InputWord(1)}
  IN {get_cmd_id(m) : m \in {w \in words : Recorded(w) /\ w.key = k}}

\* The tables have a slot for every command of the PC program (the PARA_SIZEs of
\* rtconfig.h); what becomes of a command without one is shown in CmdTable.
ASSUME TablesAssumption ==
  /\ Count \in [TableKeys -> Nat]
  /\ \A n \in DOMAIN Sessions, k \in TableKeys : Cardinality(Ids(n, k)) <= Count[k]

\* do_add_cmd for a table t of so many slots: the slot of a known command is
\* written again.
Write(t, m, count) ==
  LET slots == {i \in 1..Len(t) : get_cmd_id(t[i]) = get_cmd_id(m)}
  IN IF slots # {} THEN [i \in 1..Len(t) |-> IF i \in slots THEN m ELSE t[i]]
     ELSE IF Len(t) < count THEN Append(t, m)
     ELSE t

Put(s, m) == IF Recorded(m) THEN [s EXCEPT ![m.key] = Write(@, m, Count[m.key])] ELSE s

\* All words of the tables.
Contents(s) == UNION {{s[k][i] : i \in 1..Len(s[k])} : k \in TableKeys}

Note(r, d, m) == IF Taken(d, m) THEN r \ {get_cmd_id(m)} ELSE r \cup {get_cmd_id(m)}

\* Mutant: the routes are set up for one band less.
MutantInitDone(d) ==
  [d EXCEPT !.route = [c \in Channels |->
     setdivisionpointnum(d.route[c], d.FreqDivVal[c][1] - 1)]]

\* What the main loop does once after INITDONE; the filters' coefficients are
\* left out.
InitDone(d) ==
  [d EXCEPT !.route = [c \in Channels |->
     setdivisionpointnum(d.route[c], d.FreqDivVal[c][1])]]

\* A word of send_data_to_dsp: x.d are the parameters of the DSP, x.r the
\* identifiers it did not take.
SendWord(x, m) == [d |-> Decode(x.d, m), r |-> Note(x.r, x.d, m)]

\* Its inner loop, over the slots of a table,
SendTable(x, t) ==
  LET f[i \in 0..Len(t)] == IF i = 0 THEN x ELSE SendWord(f[i - 1], t[i])
  IN f[Len(t)]

\* and its outer loop, over the tables, to a DSP that has just started.
Replay(s) ==
  LET g[n \in 0..Len(GroupOrder)] ==
        IF n = 0 THEN [d |-> Default, r |-> {}] ELSE SendTable(g[n - 1], s[GroupOrder[n]])
      end == g[Len(GroupOrder)]
  IN [d |-> InitDone(end.d), r |-> end.r]

\* read_w25q16 after a save: the tables, and then the input of the front panel.
TablesAtStart == Put(stored, InputWord(g_input_type))

-----------------------------------------------------------------------------
Init ==
  /\ dsp = InitDone(Default)
  /\ setting = <<>>
  /\ upload = -1
  /\ stored = [k \in TableKeys |-> <<>>]
  /\ g_input_type = 1
  /\ session \in DOMAIN Sessions
  /\ events = 0 /\ restarts = 0
  /\ refused = {}
  /\ realigned = FALSE
  /\ volume_by = "start"

\* A word of the PC reaches the tables and the DSP; on its way it takes the
\* word in the DSP's transmit register off the link.
Exchange(m) ==
  /\ stored' = Put(stored, m)
  /\ refused' = IF Recorded(m) THEN Note(refused, dsp, m) ELSE refused
  /\ upload' = -1

Receive(m) ==
  /\ setting = <<>>
  /\ events < MaxEvents /\ events' = events + 1
  /\ ~(m.key = 1 /\ m.type = 8)
  /\ Exchange(m)
  /\ dsp' = Decode(dsp, m)
  /\ realigned' = CASE m.key = 13 /\ m.param1 = ALIGNMENT -> realigned \/ dsp.InputXtype = TEST
                    [] m.key = 1 /\ m.type = 9 /\ Taken(dsp, m) -> FALSE
                    [] OTHER -> realigned
  /\ UNCHANGED <<setting, g_input_type, session, restarts, volume_by>>

ReceiveVolume(m) ==
  /\ setting = <<>>
  /\ events < MaxEvents /\ events' = events + 1
  /\ m.key = 1 /\ m.type = 8
  /\ Exchange(m)
  /\ setting' = IF Taken(dsp, m)
                THEN LET v == m.param2
                     IN << <<"count", v>>, <<"value", v>>, <<"power", v>>, <<"gain", v>> >>
                ELSE <<>>
  /\ UNCHANGED <<dsp, g_input_type, session, restarts, realigned, volume_by>>

\* The steps of KnobVolume_Set, between which the knob's interrupt may come.  What
\* powf gets is the knobvolume in memory, or v when the compiler has kept it.
SetVolume ==
  /\ setting # <<>>
  /\ LET step == Head(setting)[1]
         v == Head(setting)[2]
     IN /\ \/ step = "count" /\ dsp' = KnobCount(dsp, v) /\ setting' = Tail(setting)
           \/ step = "value" /\ dsp' = KnobValue(dsp, v) /\ setting' = Tail(setting)
           \/ /\ step = "power"
              /\ \E x \in {v, dsp.knobvolume} : setting' = << <<"gain", x>> >>
              /\ UNCHANGED dsp
           \/ step = "gain" /\ dsp' = KnobGain(dsp, v) /\ setting' = <<>>
        /\ volume_by' = IF step = "count" THEN "pc" ELSE volume_by
  /\ UNCHANGED <<upload, stored, g_input_type, session, events, restarts, refused, realigned>>

\* Mutant: the interrupt leaves the gain alone.
MutantTurned(d, by) ==
  LET n == d.count + by
      v == IF n > USE_VOLUME_STEP THEN USE_VOLUME_STEP ELSE IF n < 0 THEN 0 ELSE n
  IN [d EXCEPT !.count = v, !.knobvolume = v]

\* knobvolume_SIGIRQ2; by is 0 when the second flag is up.
Turned(d, by) ==
  LET n == d.count + by
      v == IF n > USE_VOLUME_STEP THEN USE_VOLUME_STEP ELSE IF n < 0 THEN 0 ELSE n
  IN [d EXCEPT !.count = v, !.knobvolume = v, !.gain = v - USE_VOLUME_STEP]

Click(by) ==
  /\ events < MaxEvents /\ events' = events + 1
  /\ dsp' = Turned(dsp, by)
  /\ upload' = dsp'.count
  /\ volume_by' = IF Len(setting) \in 1..3 THEN "torn" ELSE "knob"
  /\ UNCHANGED <<setting, stored, g_input_type, session, restarts, refused, realigned>>

\* SPI_DSP polls the DSP and stores what it reads.
Poll ==
  /\ upload # -1
  /\ stored' = Put(stored, VolumeWord(upload))
  /\ refused' = Note(refused, dsp, VolumeWord(upload))
  /\ upload' = -1
  /\ UNCHANGED <<dsp, setting, g_input_type, session, events, restarts, realigned, volume_by>>

\* A key selects an input; its word to the DSP has no group, see DspInput.
KeySelect(n) ==
  /\ events < MaxEvents /\ events' = events + 1
  /\ g_input_type' = n
  /\ UNCHANGED <<dsp, setting, upload, stored, session, restarts, refused, realigned, volume_by>>

\* The PC program is closed, which saves the tables, and the device is turned
\* off and on.
Restart ==
  /\ setting = <<>>
  /\ restarts < MaxRestarts /\ restarts' = restarts + 1
  /\ stored' = TablesAtStart
  /\ LET start == Replay(stored')
     IN dsp' = start.d /\ refused' = start.r
  /\ upload' = -1
  /\ realigned' = FALSE
  /\ volume_by' = IF VolumeWord(dsp'.count) \in Contents(stored') THEN "pc" ELSE "start"
  /\ UNCHANGED <<setting, g_input_type, session, events>>

Next ==
  \/ \E m \in Sessions[session].words : Receive(m) \/ ReceiveVolume(m)
  \/ SetVolume
  \/ \E by \in Sessions[session].clicks : Click(by)
  \/ Poll
  \/ \E n \in Sessions[session].keys : KeySelect(n)
  \/ Restart

Spec == Init /\ [][Next]_vars

-----------------------------------------------------------------------------
(***************************************************************************)
(* Properties: what a restart would bring back from any state              *)
(***************************************************************************)
AtStart == Replay(TablesAtStart).d

WordId(key, type, p1) == get_cmd_id(Command(key, type, p1, 0))

\* The parameters stay in the ranges that the audio code indexes and divides
\* with; in particular a high cut is never below the low cut of its channel,
\* in whatever order the two are changed.
TypeOK ==
  /\ dsp.InputXtype \in 0..7 /\ dsp.LastInputXtype \in 0..7 /\ dsp.SystemState \in 1..3
  /\ dsp.count \in 0..96 /\ dsp.knobvolume \in 0..96 /\ dsp.gain \in -96..6
  /\ \A c \in Channels :
       /\ dsp.samples[c] \in 0..LIMIT
       /\ dsp.LowCutFreq[c] \in Freqs /\ dsp.HighCutFreq[c] \in Freqs
       /\ dsp.LowCutFreq[c] <= dsp.HighCutFreq[c]
  /\ upload \in -1..96
  /\ g_input_type \in 1..6

\* The cut frequencies come back after a restart although each is tested
\* against the other and the replay sends them in the order in which they were
\* first set, unless the word stored for one of them was refused.
CutsRestored ==
  LET start == AtStart IN
  \A c \in Channels :
    (\A t \in {4, 5} : WordId(11, t, c) \notin refused) =>
      /\ start.LowCutFreq[c] = dsp.LowCutFreq[c]
      /\ start.HighCutFreq[c] = dsp.HighCutFreq[c]

\* The equaliser comes back after a restart, except for a channel with a
\* stored word that clears all bands or a stored word that was refused.
EqRestored ==
  LET start == AtStart IN
  \A c \in Channels :
    (\A m \in Contents(stored) :
       m.key = 11 /\ m.type = 8 /\ m.param1 = c =>
         m.param2 # 0 /\ get_cmd_id(m) \notin refused) =>
      start.EQBandGain[c] = dsp.EQBandGain[c]

\* After a restart a delay has the samples of the rate of the input on the
\* front panel, whichever rate it was set at, or none when they do not fit;
\* a fade has its time at the rate of 48 kHz.  The word for the delay, the rate
\* or the fade must not have been refused.
TimingRestored ==
  LET start == AtStart IN
  /\ \A c \in Channels :
       WordId(11, 3, c) \notin refused /\ WordId(g_input_type + 1, 1, 0) \notin refused =>
         LET n == Samples(dsp.SamplingRate[g_input_type], dsp.Delay[c])
         IN start.samples[c] = IF n > LIMIT THEN 0 ELSE n
  /\ \A t \in {10, 11} :
       WordId(1, t, 0) \notin refused =>
         /\ start.FadeTime[t].time = dsp.FadeTime[t].time
         /\ start.FadeTime[t].rate \in {0, 48000}

\* A band of the crossover that has an output keeps it over a restart, unless
\* the number of bands was first set after the band's output.
RoutesRestored ==
  LET start == AtStart IN
  \A c \in Channels, b \in 1..3 :
    LET at(p1) == {i \in 1..Len(stored[15]) : get_cmd_id(stored[15][i]) = WordId(15, c, p1)}
    IN /\ dsp.route[c][b] # -1
       /\ b <= dsp.FreqDivVal[c][1]
       /\ \A i \in at(1), j \in at(b + 3) : i < j
       => start.route[c][b] = dsp.route[c][b]

\* Outside ALIGNMENT the input type is the one that was set last, also when it
\* was set during an alignment, unless ALIGNMENT was entered from itself; and
\* a restart takes the type from the front panel.
TypeReturns ==
  /\ dsp.SystemState # ALIGNMENT /\ ~realigned /\ WordId(1, 9, 0) \notin refused =>
       dsp.InputXtype \in
         LET set == {m \in Contents(stored) : get_cmd_id(m) = WordId(1, 9, 0)}
         IN IF set = {} THEN {0} ELSE {m.param1 : m \in set}
  /\ AtStart.InputXtype = g_input_type

\* When the host's volume is the DSP's, and is the only word stored for the
\* volume (the identifier has a parameter in it that the DSP does not look at),
\* a restart brings back the gain that the PC set, and 6 dB more than the gain
\* that the knob set.  (When the knob is turned while KnobVolume_Set writes, count,
\* volume and gain may differ until the next command or click.)
VolumeRestored ==
  /\ setting = <<>> /\ volume_by \in {"pc", "knob"} => dsp.count = dsp.knobvolume
  /\ /\ setting = <<>> /\ VolumeWord(dsp.count) \in Contents(stored)
     /\ \A m \in Contents(stored) : m.key = 1 /\ m.type = 8 => m.param1 = 0
     =>
       /\ volume_by = "pc" => AtStart.gain = dsp.gain
       /\ volume_by = "knob" => AtStart.gain = dsp.gain + 6
=============================================================================
