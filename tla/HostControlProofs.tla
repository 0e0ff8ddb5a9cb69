-------------------------- MODULE HostControlProofs --------------------------
(***************************************************************************)
(* Proofs about the host's threads around the DSP link (HostControl): what *)
(* the DSP has been told agrees with what the keys, the PC and the tables  *)
(* asked for, however the threads interleave.                              *)
(***************************************************************************)
EXTENDS HostControl, Induction, SequenceTheorems, TLAPS

Words == {"pc", "input", "mute", "volume", "read"}
Steps == {"take", "instruction", "mic_led", "mic_input", "mic_flag", "mute", "mute_value",
          "volume", "volume_flag", "volume_value", "lo", "hi", "upload"}

\* What g_i_instruction may hold: nothing before the PC's first command.
Ids == {c.id : c \in Commands} \cup {"none"}
Instructions == [id : Ids, val : Nat]

\* SPI_DSP is sending a word of kind src.
Sending(src) == InsideWord /\ spi.src = src

Link == [pc : Steps, src : Words, val : Nat, cut : BOOLEAN]

\* The words of the link: a whole word, or the first half of one, carries what
\* the DSP may be told.
LinkInv ==
  /\ spi \in Link
  /\ spi.pc = "hi" /\ spi.src = "input" => spi.val \in InputType
  /\ Sending("mute") => spi.val \in {0, 1}
  /\ spi.pc = "upload" => spi.val \in Volumes
  /\ cuts \in Nat
  /\ cuts = 0 => ~spi.cut

\* SPI_DSP has found the microphone in g_i_instruction, and is at it.
AtMic == spi.pc \in {"mic_led", "mic_input", "mic_flag"} \/ Sending("input")

\* With no command waiting, SPI_DSP is at the one that g_i_instruction still
\* holds, or the DSP has been given it.
CommandInv ==
  /\ g_i_instruction \in Instructions /\ missing \subseteq Commands
  /\ cuts = 0 /\ tcp_dsp_sem = 0 =>
       /\ AtMic => g_i_instruction = Mic
       /\ spi.pc = "hi" /\ spi.src = "pc" => spi.val = g_i_instruction.val
       /\ \/ AtMic \/ Sending("pc") \/ spi.pc = "instruction"
          \/ delivered = g_i_instruction

\* With no mute asked for, SPI_DSP is at the mute, or the DSP has it.
MuteInv ==
  ~mute_select /\ cuts = 0 =>
    /\ Sending("mute") => spi.val = g_mute
    /\ Sending("mute") \/ spi.pc = "mute_value" \/ dsp.mute = g_mute

\* As long as nobody turns the knob, the last volume of the PC is the one in
\* the tables; with no volume asked for since the PC program closed, SPI_DSP is
\* at it or the DSP has it, and no half of another volume is on the link.
VolumeInv ==
  /\ volume_by \in {"pc", "close", "knob"}
  /\ volume_by # "knob" =>
       /\ upload = 0 /\ spi.pc # "upload"
       /\ g_i_instruction.id = "volume" => g_i_instruction.val = volume
  /\ volume_by = "close" /\ ~g_set_volume_to_dsp_flag /\ cuts = 0 =>
       /\ Sending("volume") => spi.val = volume
       /\ spi.pc = "hi" /\ spi.src = "pc" /\ g_i_instruction.id = "volume"
            => spi.val = volume
       /\ Sending("volume") \/ spi.pc = "volume_value" \/ dsp.volume = volume

IndInv == TypeOK /\ LinkInv /\ CommandInv /\ MuteInv /\ VolumeInv

-----------------------------------------------------------------------------
(***************************************************************************)
(* A received chunk                                                        *)
(***************************************************************************)
\* What handle_net_data writes.
Handled ==
  [volume : Volumes, instruction : Instructions, sem : Nat, flag : BOOLEAN,
   stored : [input : InputType, volume : Volumes], missing : SUBSET Commands,
   by : {"pc", "close", "knob"}]

\* What holds after each command of a chunk: a command that is not the close
\* leaves a token behind; the PC's last volume is in the tables; without a new
\* request for the volume nothing about the volume has changed; and a save is
\* one of the selected input.
Reached ==
  {h \in Handled :
     /\ h.stored.input \in {stored.input, g_input_type}
     /\ h.sem >= tcp_dsp_sem
     /\ h.sem = tcp_dsp_sem => h.instruction = g_i_instruction
     /\ h.by = "knob" <=> volume_by = "knob"
     /\ h.by # "knob" /\ h.instruction.id = "volume" => h.instruction.val = h.volume
     /\ h.by = "close" /\ ~h.flag =>
          /\ volume_by = "close" /\ ~g_set_volume_to_dsp_flag
          /\ h.volume = volume
          /\ h.instruction.id = "volume" => g_i_instruction.id = "volume"}

Arrived ==
  [volume |-> volume, instruction |-> g_i_instruction,
   sem |-> tcp_dsp_sem, flag |-> g_set_volume_to_dsp_flag,
   stored |-> stored, missing |-> missing, by |-> volume_by]

\* One command keeps to it.
LEMMA CommandReaches ==
  ASSUME TypeOK, NEW h \in Reached, NEW c \in Commands
  PROVE HandleCommand(h, c) \in Reached
<1>1. h \in Handled
  BY DEF Reached
<1>2. CASE c = Close
  <2> DEFINE r == HandleCommand(h, c)
  <2>1. r = [h EXCEPT !.flag = TRUE,
                      !.stored = [input |-> g_input_type, volume |-> h.volume],
                      !.by = IF h.by = "knob" THEN h.by ELSE "close"]
    BY <1>2 DEF HandleCommand
  <2>2. r \in Handled
    <3>1. [input |-> g_input_type, volume |-> h.volume] \in [input : InputType, volume : Volumes]
      BY <1>1 DEF Handled, TypeOK
    <3>2. (IF h.by = "knob" THEN h.by ELSE "close") \in {"pc", "close", "knob"}
      BY <1>1 DEF Handled
    <3> QED BY <1>1, <2>1, <3>1, <3>2 DEF Handled
  <2>3. /\ r.sem = h.sem /\ r.instruction = h.instruction /\ r.volume = h.volume
        /\ r.flag = TRUE /\ r.by = IF h.by = "knob" THEN "knob" ELSE "close"
        /\ r.stored.input = g_input_type
    BY <1>1, <2>1 DEF Handled
  <2>4. /\ h.sem >= tcp_dsp_sem
        /\ h.sem = tcp_dsp_sem => h.instruction = g_i_instruction
        /\ h.by = "knob" <=> volume_by = "knob"
        /\ h.by # "knob" /\ h.instruction.id = "volume" => h.instruction.val = h.volume
    BY DEF Reached
  <2> HIDE DEF r
  <2>5. /\ r.by = "knob" <=> volume_by = "knob"
        /\ r.by # "knob" /\ r.instruction.id = "volume" => r.instruction.val = r.volume
    BY <2>3, <2>4
  <2>6. ~(r.by = "close" /\ ~r.flag)
    BY <2>3
  <2>7. r \in Reached
    BY <2>2, <2>3, <2>4, <2>5, <2>6 DEF Reached
  <2> QED BY <2>7 DEF r
<1>3. CASE c # Close
  <2> DEFINE r == HandleCommand(h, c)
  <2>1. r = [h EXCEPT !.volume = IF c.id = "volume" THEN c.val ELSE h.volume,
                      !.by = IF c.id = "volume" /\ h.by # "knob" THEN "pc" ELSE h.by,
                      !.instruction = c,
                      !.sem = h.sem + 1,
                      !.missing = h.missing \cup {c}]
    BY <1>3 DEF HandleCommand
  <2>2. c \in Instructions /\ (c.id = "volume" => c.val \in Volumes)
    BY CommandAssumption DEF Instructions, Ids
  <2>3. r \in Handled
    <3>1. (IF c.id = "volume" THEN c.val ELSE h.volume) \in Volumes
      BY <1>1, <2>2 DEF Handled
    <3>2. (IF c.id = "volume" /\ h.by # "knob" THEN "pc" ELSE h.by) \in {"pc", "close", "knob"}
      BY <1>1 DEF Handled
    <3>3. h.sem + 1 \in Nat /\ h.missing \cup {c} \in SUBSET Commands
      BY <1>1 DEF Handled
    <3> QED BY <1>1, <2>1, <2>2, <3>1, <3>2, <3>3 DEF Handled
  <2>4. /\ r.sem = h.sem + 1 /\ r.instruction = c
        /\ r.volume = IF c.id = "volume" THEN c.val ELSE h.volume
        /\ r.by = IF c.id = "volume" /\ h.by # "knob" THEN "pc" ELSE h.by
        /\ r.flag = h.flag /\ r.stored = h.stored
    BY <1>1, <2>1 DEF Handled
  <2>5. h.sem \in Nat /\ tcp_dsp_sem \in Nat
    BY <1>1 DEF Handled, TypeOK
  <2>6. /\ h.sem >= tcp_dsp_sem /\ h.stored.input \in {stored.input, g_input_type}
        /\ h.by = "knob" <=> volume_by = "knob"
        /\ h.by = "close" /\ ~h.flag =>
             /\ volume_by = "close" /\ ~g_set_volume_to_dsp_flag
             /\ h.volume = volume
    BY DEF Reached
  <2> HIDE DEF r
  <2>7. r.sem >= tcp_dsp_sem /\ r.sem # tcp_dsp_sem
    BY <2>4, <2>5, <2>6
  <2>8. /\ r.by = "knob" <=> volume_by = "knob"
        /\ r.by # "knob" /\ r.instruction.id = "volume" => r.instruction.val = r.volume
    BY <2>4, <2>6
  <2>9. r.by = "close" /\ ~r.flag =>
          /\ volume_by = "close" /\ ~g_set_volume_to_dsp_flag
          /\ r.volume = volume
          /\ r.instruction.id # "volume"
    BY <2>4, <2>6
  <2>10. r \in Reached
    BY <2>3, <2>4, <2>6, <2>7, <2>8, <2>9 DEF Reached
  <2> QED BY <2>10 DEF r
<1> QED BY <1>2, <1>3

\* And so does a chunk, whatever its length.
LEMMA ChunkReaches ==
  ASSUME TypeOK, Arrived \in Reached, NEW q \in Chunks
  PROVE HandleChunk(Arrived, q) \in Reached
<1> DEFINE n == Len(q)
           G == [i \in 1..n |-> [h \in Reached |-> HandleCommand(h, q[i])]]
           F(f) == [i \in 0..n |-> IF i = 0 THEN Arrived ELSE HandleCommand(f[i - 1], q[i])]
           f0 == CHOOSE f : f = F(f)
<1>1. n \in Nat /\ \A i \in 1..n : q[i] \in Commands
  BY CommandAssumption, LenProperties, ElementOfSeq
<1>2. G \in [1..n -> [Reached -> Reached]]
  BY <1>1, CommandReaches
<1>3. \A i \in 1..n : \A h \in Reached : G[i][h] = HandleCommand(h, q[i])
  OBVIOUS
<1>4. HandleChunk(Arrived, q) = f0[n]
  BY DEF HandleChunk
<1> HIDE DEF G
<1>5. \E f : f = F(f)
  <2> HIDE DEF n
  <2>0. \E f \in [0..n -> Reached] :
          \A i \in 0..n : f[i] = IF i = 0 THEN Arrived ELSE G[i][f[i - 1]]
    <3>1. Solvable(n, Reached, Arrived, G)
      BY <1>1, <1>2, Recursion
    <3> QED BY <3>1 DEF Solvable
  <2>1. PICK f \in [0..n -> Reached] :
          \A i \in 0..n : f[i] = IF i = 0 THEN Arrived ELSE G[i][f[i - 1]]
    BY <2>0
  <2>2. \A i \in 0..n : f[i] = IF i = 0 THEN Arrived ELSE HandleCommand(f[i - 1], q[i])
    <3> SUFFICES ASSUME NEW i \in 0..n, i # 0
                 PROVE f[i] = HandleCommand(f[i - 1], q[i])
      BY <2>1
    <3>1. i \in 1..n /\ i - 1 \in 0..n
      BY <1>1
    <3> QED BY <1>3, <2>1, <3>1
  <2>3. f = F(f)
    BY <2>2
  <2> QED BY <2>3
<1>6. f0 = F(f0)
  BY <1>5
<1> HIDE DEF f0
<1> DEFINE S == {i \in 0..n : f0[i] \in Reached}
<1>7. 0 \in S
  BY <1>1, <1>6
<1>8. ASSUME NEW i \in 1..n, i - 1 \in S PROVE i \in S
  <2>1. f0[i] = HandleCommand(f0[i - 1], q[i])
    BY <1>1, <1>6
  <2> QED BY <1>1, <1>8, <2>1, CommandReaches
<1> HIDE DEF S
<1>9. \A i \in 0..n : i \in S
  BY <1>1, <1>7, <1>8, Upwards
<1> QED BY <1>1, <1>4, <1>9 DEF S

\* tcpserv starts with what holds between two chunks.
LEMMA ChunkArrives ==
  ASSUME IndInv
  PROVE Arrived \in Reached
<1> USE DEF IndInv
<1>1. Arrived \in Handled
  BY DEF Arrived, Handled, TypeOK, CommandInv, VolumeInv, Instructions
<1>2. /\ Arrived.sem = tcp_dsp_sem /\ Arrived.instruction = g_i_instruction
      /\ Arrived.by = volume_by /\ Arrived.volume = volume
      /\ Arrived.flag = g_set_volume_to_dsp_flag /\ Arrived.stored = stored
  BY DEF Arrived
<1>3. tcp_dsp_sem \in Nat
  BY DEF TypeOK
<1>4. volume_by # "knob" /\ g_i_instruction.id = "volume" => g_i_instruction.val = volume
  BY DEF VolumeInv
<1> QED BY <1>1, <1>2, <1>3, <1>4 DEF Reached

\* A chunk keeps the invariant: handle_net_data runs above the other threads,
\* but between any two of SPI_DSP's steps.
LEMMA NetDataStep ==
  ASSUME IndInv, NEW q \in Chunks, handle_net_data(q)
  PROVE IndInv'
<1> USE DEF IndInv
<1>1. Arrived \in Reached
  BY ChunkArrives
<1> DEFINE h == HandleChunk(Arrived, q)
<1>2. h \in Reached
  BY <1>1, ChunkReaches
<1>3. /\ volume' = h.volume /\ g_i_instruction' = h.instruction
      /\ tcp_dsp_sem' = h.sem /\ g_set_volume_to_dsp_flag' = h.flag
      /\ stored' = h.stored /\ missing' = h.missing /\ volume_by' = h.by
  BY DEF handle_net_data, Arrived
<1> HIDE DEF h
<1>4. /\ volume' \in Volumes /\ g_i_instruction' \in Instructions
      /\ tcp_dsp_sem' \in Nat /\ g_set_volume_to_dsp_flag' \in BOOLEAN
      /\ stored' \in [input : InputType, volume : Volumes] /\ missing' \subseteq Commands
      /\ volume_by' \in {"pc", "close", "knob"}
  BY <1>2, <1>3 DEF Reached, Handled, Instructions
<1>5. /\ tcp_dsp_sem' >= tcp_dsp_sem
      /\ tcp_dsp_sem' = tcp_dsp_sem => g_i_instruction' = g_i_instruction
      /\ volume_by' = "knob" <=> volume_by = "knob"
      /\ volume_by' # "knob" /\ g_i_instruction'.id = "volume" => g_i_instruction'.val = volume'
  BY <1>2, <1>3 DEF Reached
<1>6. volume_by' = "close" /\ ~g_set_volume_to_dsp_flag' =>
        /\ volume_by = "close" /\ ~g_set_volume_to_dsp_flag
        /\ volume' = volume
        /\ g_i_instruction'.id = "volume" => g_i_instruction.id = "volume"
  BY <1>2, <1>3 DEF Reached
<1>7. UNCHANGED <<g_input_type, g_i_key_led_handle_count, g_key_input_pressed_flag, key_pc,
                  idle, g_mute, mute_select, spi, upload, dsp, cuts, delivered>>
  BY DEF handle_net_data, selection
<1>8. TypeOK'
  BY <1>4, <1>7 DEF TypeOK
<1>9. LinkInv' /\ MuteInv'
  BY <1>7 DEF LinkInv, MuteInv, Sending, InsideWord
<1>10. CommandInv'
  <2>1. tcp_dsp_sem \in Nat
    BY DEF TypeOK
  <2>2. tcp_dsp_sem' = 0 => tcp_dsp_sem = 0 /\ g_i_instruction' = g_i_instruction
    BY <1>4, <1>5, <2>1
  <2> QED BY <1>4, <1>7, <2>2 DEF CommandInv, AtMic, Sending, InsideWord
<1>11. VolumeInv'
  BY <1>4, <1>5, <1>6, <1>7 DEF VolumeInv, Sending, InsideWord
<1> QED BY <1>8, <1>9, <1>10, <1>11

-----------------------------------------------------------------------------
(***************************************************************************)
(* The key thread, the idle timer and the knob                             *)
(***************************************************************************)
\* The next input of the front panel is one of the inputs.
LEMMA NextInputType ==
  ASSUME NEW n \in InputType
  PROVE NextInput(n) \in InputType
  BY DEF NextInput, InputType, INIT_INPUT, MIC_INPUT

\* Key 1 selects the next input.
LEMMA KeySelectStep ==
  ASSUME IndInv, KeySelect
  PROVE IndInv'
<1> USE DEF IndInv
<1>1. UNCHANGED <<g_key_input_pressed_flag, idle, g_mute, mute_select, g_i_instruction,
                  tcp_dsp_sem, g_set_volume_to_dsp_flag, volume, spi, upload, dsp, stored,
                  cuts, missing, delivered, volume_by>>
  BY DEF KeySelect, pcvars, history
<1>2. g_i_key_led_handle_count' \in InputType /\ g_input_type' \in InputType
      /\ key_pc' = "flag"
  BY NextInputType DEF KeySelect, TypeOK
<1>3. TypeOK'
  BY <1>1, <1>2 DEF TypeOK
<1>4. LinkInv' /\ MuteInv' /\ CommandInv' /\ VolumeInv'
  BY <1>1 DEF LinkInv, MuteInv, CommandInv, VolumeInv, AtMic, Sending, InsideWord
<1> QED BY <1>3, <1>4

\* The flag for the idle timer is set in a step of its own.
LEMMA KeyFlagStep ==
  ASSUME IndInv, KeyFlag
  PROVE IndInv'
<1> USE DEF IndInv
<1>1. UNCHANGED <<g_input_type, g_i_key_led_handle_count, idle, g_mute, mute_select,
                  g_i_instruction, tcp_dsp_sem, g_set_volume_to_dsp_flag, volume, spi,
                  upload, dsp, stored, cuts, missing, delivered, volume_by>>
  BY DEF KeyFlag, selection, pcvars, history
<1>2. g_key_input_pressed_flag' = TRUE /\ key_pc' = "poll"
  BY DEF KeyFlag
<1>3. TypeOK'
  BY <1>1, <1>2 DEF TypeOK
<1>4. LinkInv' /\ MuteInv' /\ CommandInv' /\ VolumeInv'
  BY <1>1 DEF LinkInv, MuteInv, CommandInv, VolumeInv, AtMic, Sending, InsideWord
<1> QED BY <1>3, <1>4

\* Key 2 turns the mute over.
LEMMA KeyMuteStep ==
  ASSUME IndInv, KeyMute
  PROVE IndInv'
<1> USE DEF IndInv
<1>1. UNCHANGED <<g_input_type, g_i_key_led_handle_count, g_key_input_pressed_flag, key_pc,
                  idle, g_i_instruction, tcp_dsp_sem, g_set_volume_to_dsp_flag, volume, spi,
                  upload, dsp, stored, cuts, missing, delivered, volume_by>>
  BY DEF KeyMute, selection, pcvars, history
<1>2. g_mute' \in {0, 1} /\ mute_select' = TRUE
  BY DEF KeyMute, TypeOK
<1>3. TypeOK'
  BY <1>1, <1>2 DEF TypeOK
<1>4. LinkInv' /\ CommandInv' /\ VolumeInv'
  BY <1>1 DEF LinkInv, CommandInv, VolumeInv, AtMic, Sending, InsideWord
<1>5. MuteInv'
  BY <1>2 DEF MuteInv
<1> QED BY <1>3, <1>4, <1>5

\* The idle timer's word changes the DSP's input, and at most cuts SPI_DSP's.
LEMMA IdleSendEffect ==
  ASSUME IndInv, IdleSend
  PROVE /\ spi' \in Link
        /\ spi'.pc = spi.pc /\ spi'.src = spi.src /\ spi'.val = spi.val
        /\ cuts' \in Nat
        /\ cuts' = 0 => cuts = 0 /\ spi'.cut = spi.cut
        /\ dsp' \in [input : InputType, mute : {0, 1}, volume : Nat]
        /\ dsp'.mute = dsp.mute /\ dsp'.volume = dsp.volume
        /\ upload' = 0
<1> USE DEF IndInv
<1>1. /\ spi \in Link /\ cuts \in Nat
      /\ dsp \in [input : InputType, mute : {0, 1}, volume : Nat]
      /\ g_input_type \in InputType
  BY DEF LinkInv, TypeOK
<1>2. /\ dsp' \in [input : InputType, mute : {0, 1}, volume : Nat]
      /\ dsp'.mute = dsp.mute /\ dsp'.volume = dsp.volume
  BY <1>1 DEF IdleSend
<1>3. CASE UNCHANGED <<spi, cuts>>
  BY <1>1, <1>2, <1>3 DEF IdleSend
<1>4. CASE cuts' = cuts + 1 /\ spi' = [spi EXCEPT !.cut = TRUE]
  <2>1. /\ spi' \in Link
        /\ spi'.pc = spi.pc /\ spi'.src = spi.src /\ spi'.val = spi.val
    BY <1>1, <1>4 DEF Link
  <2>2. cuts' \in Nat /\ cuts' # 0
    BY <1>1, <1>4
  <2>3. upload' = 0
    BY DEF IdleSend
  <2> QED BY <1>2, <2>1, <2>2, <2>3
<1> QED BY <1>3, <1>4 DEF IdleSend

\* A round of the idle timer.
LEMMA IdleTickStep ==
  ASSUME IndInv, IdleTick
  PROVE IndInv'
<1> USE DEF IndInv
<1>1. UNCHANGED <<g_input_type, g_i_key_led_handle_count, key_pc, g_mute, mute_select,
                  g_i_instruction, tcp_dsp_sem, g_set_volume_to_dsp_flag, volume, events,
                  missing, delivered, volume_by>>
  BY DEF IdleTick, selection, pcvars, history
<1>2. /\ idle \in [event : BOOLEAN, count : 0..(STORE_TICKS - 1)]
      /\ STORE_TICKS \in Nat \ {0}
  BY BoundsAssumption DEF TypeOK
<1>3. CASE IdleNotice
  <2>1. UNCHANGED <<spi, cuts, dsp, upload, stored>> /\ g_key_input_pressed_flag' = FALSE
        /\ idle' \in [event : BOOLEAN, count : 0..(STORE_TICKS - 1)]
    BY <1>2, <1>3 DEF IdleNotice
  <2>2. TypeOK'
    BY <1>1, <2>1 DEF TypeOK
  <2>3. LinkInv' /\ MuteInv' /\ CommandInv' /\ VolumeInv'
    BY <1>1, <2>1 DEF LinkInv, MuteInv, CommandInv, VolumeInv, AtMic, Sending, InsideWord
  <2> QED BY <2>2, <2>3
<1>4. CASE IdleCount
  <2>1. /\ spi' \in Link
        /\ spi'.pc = spi.pc /\ spi'.src = spi.src /\ spi'.val = spi.val
        /\ cuts' \in Nat
        /\ cuts' = 0 => cuts = 0 /\ spi'.cut = spi.cut
        /\ dsp' \in [input : InputType, mute : {0, 1}, volume : Nat]
        /\ dsp'.mute = dsp.mute /\ dsp'.volume = dsp.volume
        /\ upload' = 0
    BY <1>4, IdleSendEffect DEF IdleCount
  <2>2. idle' \in [event : BOOLEAN, count : 0..(STORE_TICKS - 1)]
    <3>1. CASE idle.count + 1 >= STORE_TICKS
      <4>1. idle' = [event |-> FALSE, count |-> 0]
        BY <1>4, <3>1 DEF IdleCount
      <4>2. 0 \in 0..(STORE_TICKS - 1)
        BY <1>2
      <4> QED BY <4>1, <4>2
    <3>2. CASE ~(idle.count + 1 >= STORE_TICKS)
      <4>1. idle' = [idle EXCEPT !.count = @ + 1]
        BY <1>4, <3>2 DEF IdleCount
      <4>2. idle.count + 1 \in 0..(STORE_TICKS - 1)
        BY <1>2, <3>2
      <4> QED BY <1>2, <4>1, <4>2
    <3> QED BY <3>1, <3>2
  <2>3. stored' \in [input : InputType, volume : Volumes]
    BY <1>4 DEF IdleCount, TypeOK
  <2>4. g_key_input_pressed_flag' = g_key_input_pressed_flag
    BY <1>4 DEF IdleCount
  <2>5. TypeOK'
    BY <1>1, <2>1, <2>2, <2>3, <2>4 DEF TypeOK
  <2>6. LinkInv'
    BY <1>1, <2>1 DEF LinkInv, Sending, InsideWord
  <2>7. MuteInv' /\ CommandInv' /\ VolumeInv'
    BY <1>1, <2>1 DEF MuteInv, CommandInv, VolumeInv, AtMic, Sending, InsideWord
  <2> QED BY <2>5, <2>6, <2>7
<1> QED BY <1>3, <1>4 DEF IdleTick

\* A turn of the knob.
LEMMA KnobStep ==
  ASSUME IndInv, NEW v \in Volumes, Knob(v)
  PROVE IndInv'
<1> USE DEF IndInv
<1>1. UNCHANGED <<g_input_type, g_i_key_led_handle_count, g_key_input_pressed_flag, key_pc,
                  idle, g_mute, mute_select, g_i_instruction, tcp_dsp_sem,
                  g_set_volume_to_dsp_flag, volume, spi, stored, cuts, missing, delivered>>
  BY DEF Knob, selection, pcvars, history
<1>2. /\ dsp' = [dsp EXCEPT !.volume = v] /\ upload' = v /\ volume_by' = "knob"
      /\ v \in Nat
  BY CommandAssumption DEF Knob
<1>3. TypeOK'
  BY <1>1, <1>2 DEF TypeOK
<1>4. dsp'.mute = dsp.mute
  BY <1>2 DEF TypeOK
<1>5. LinkInv' /\ MuteInv' /\ CommandInv'
  BY <1>1, <1>4 DEF LinkInv, MuteInv, CommandInv, AtMic, Sending, InsideWord
<1>6. VolumeInv'
  BY <1>2 DEF VolumeInv
<1> QED BY <1>3, <1>5, <1>6

-----------------------------------------------------------------------------
(***************************************************************************)
(* SPI_DSP                                                                 *)
(***************************************************************************)
\* The choices by the kind of word, one by one.
LEMMA LowHalves ==
  /\ spi.src = "pc" => LowHalf = g_i_instruction.val
  /\ spi.src = "input" => LowHalf = g_input_type
  /\ spi.src \notin {"pc", "input"} => LowHalf = spi.val
<1>1. spi.src = "pc" => LowHalf = g_i_instruction.val
  BY Zenon DEF LowHalf
<1>2. spi.src = "input" => LowHalf = g_input_type
  <2>1. "pc" # "input"
    OBVIOUS
  <2> QED BY <2>1, Zenon DEF LowHalf
<1>3. spi.src \notin {"pc", "input"} => LowHalf = spi.val
  BY Zenon DEF LowHalf
<1> QED BY <1>1, <1>2, <1>3

\* So for what the DSP does with a word,
LEMMA DspTaking ==
  ASSUME spi.src \in Words
  PROVE /\ spi.src = "pc" /\ g_i_instruction.id = "volume"
             => DspTakes = [dsp EXCEPT !.volume = spi.val]
        /\ spi.src = "pc" /\ g_i_instruction.id # "volume" => DspTakes = dsp
        /\ spi.src = "input" => DspTakes = [dsp EXCEPT !.input = spi.val]
        /\ spi.src = "mute" => DspTakes = [dsp EXCEPT !.mute = spi.val]
        /\ spi.src = "volume" => DspTakes = [dsp EXCEPT !.volume = spi.val]
        /\ spi.src = "read" => DspTakes = dsp
<1>1. CASE spi.src = "pc"
  BY <1>1, Zenon DEF DspTakes
<1>2. CASE spi.src = "input"
  BY <1>2, Zenon DEF DspTakes
<1>3. CASE spi.src = "mute"
  BY <1>3, Zenon DEF DspTakes
<1>4. CASE spi.src = "volume"
  BY <1>4, Zenon DEF DspTakes
<1>5. CASE spi.src = "read"
  BY <1>5, Zenon DEF DspTakes
<1> QED BY <1>1, <1>2, <1>3, <1>4, <1>5 DEF Words

\* and for where SPI_DSP goes after it.
LEMMA Afterwards ==
  ASSUME spi.src \in Words
  PROVE /\ spi.src \in {"pc", "input"} => After = [spi EXCEPT !.pc = "mute"]
        /\ spi.src = "mute" => After = [spi EXCEPT !.pc = "volume"]
        /\ spi.src = "volume" => After = Send("read", 0)
        /\ spi.src = "read" /\ upload # 0
             => After = [spi EXCEPT !.pc = "upload", !.val = upload]
        /\ spi.src = "read" /\ upload = 0 => After = [spi EXCEPT !.pc = "take"]
<1>1. CASE spi.src = "pc"
  BY <1>1, Zenon DEF After
<1>2. CASE spi.src = "input"
  BY <1>2, Zenon DEF After
<1>3. CASE spi.src = "mute"
  BY <1>3, Zenon DEF After
<1>4. CASE spi.src = "volume"
  BY <1>4, Zenon DEF After
<1>5. CASE spi.src = "read"
  BY <1>5, Zenon DEF After
<1> QED BY <1>1, <1>2, <1>3, <1>4, <1>5 DEF Words

\* Moving on to another step, and starting a word.
LEMMA GotoResult ==
  ASSUME spi \in Link, NEW pc \in Steps
  PROVE /\ Goto(pc) \in Link /\ Goto(pc).pc = pc /\ Goto(pc).src = spi.src
        /\ Goto(pc).val = spi.val /\ Goto(pc).cut = spi.cut
  BY DEF Goto, Link

\* A word that is handed to the link.
LEMMA SendResult ==
  ASSUME spi \in Link, NEW src \in Words, NEW val \in Nat
  PROVE /\ Send(src, val) \in Link /\ Send(src, val).pc = "lo" /\ Send(src, val).src = src
        /\ Send(src, val).val = val /\ Send(src, val).cut = spi.cut
<1>1. "lo" \in Steps
  BY DEF Steps
<1> QED BY <1>1 DEF Send, Link

\* What a step of SPI_DSP leaves alone besides its own action.
Around == UNCHANGED <<key_pc, idle, stored, cuts, volume_by>>

\* rt_sem_take: a token, or the timeout.
LEMMA SpiTakeStep ==
  ASSUME IndInv, SpiTake, Around
  PROVE IndInv'
<1> USE DEF IndInv
<1>1. UNCHANGED <<g_input_type, g_i_key_led_handle_count, g_key_input_pressed_flag,
                  g_mute, mute_select, g_i_instruction, g_set_volume_to_dsp_flag,
                  volume, upload, dsp, missing, delivered, key_pc, idle, stored, cuts,
                  volume_by>>
  BY DEF SpiTake, Around, beside_spi, selection, pcvars, history
<1>2. spi \in Link
  BY DEF LinkInv
<1>3. /\ spi.pc = "take" /\ spi' \in Link
      /\ spi'.pc = IF tcp_dsp_sem > 0 THEN "instruction" ELSE "mute"
      /\ spi'.src = spi.src /\ spi'.val = spi.val /\ spi'.cut = spi.cut
      /\ tcp_dsp_sem \in Nat /\ tcp_dsp_sem' \in Nat
      /\ tcp_dsp_sem = 0 => tcp_dsp_sem' = 0
  BY <1>2, GotoResult DEF SpiTake, Steps, TypeOK
<1>4. TypeOK'
  BY <1>1, <1>3 DEF TypeOK, SpiTake
<1>5. LinkInv'
  BY <1>1, <1>3 DEF LinkInv, Sending, InsideWord, SpiTake
<1>6. CommandInv'
  BY <1>1, <1>2, <1>3 DEF CommandInv, AtMic, Sending, InsideWord, SpiTake
<1>7. MuteInv'
  BY <1>1, <1>2, <1>3 DEF MuteInv, Sending, InsideWord, SpiTake
<1>8. VolumeInv'
  BY <1>1, <1>2, <1>3 DEF VolumeInv, Sending, InsideWord, SpiTake
<1> QED BY <1>4, <1>5, <1>6, <1>7, <1>8

\* tcp_send_instruction_to_dsp finds what g_i_instruction holds.
LEMMA SpiInstructionStep ==
  ASSUME IndInv, SpiInstruction, Around
  PROVE IndInv'
<1> USE DEF IndInv
<1>1. UNCHANGED <<g_input_type, g_i_key_led_handle_count, g_key_input_pressed_flag,
                  g_mute, mute_select, g_i_instruction, tcp_dsp_sem,
                  g_set_volume_to_dsp_flag, volume, upload, dsp, missing, delivered,
                  key_pc, idle, stored, cuts, volume_by>>
  BY DEF SpiInstruction, Around, beside_spi, selection, pcvars, history
<1>2. spi \in Link
  BY DEF LinkInv
<1>3. /\ spi.pc = "instruction" /\ spi' \in Link /\ spi'.cut = spi.cut
      /\ g_i_instruction = Mic => spi'.pc = "mic_led" /\ spi'.src = spi.src
      /\ g_i_instruction # Mic => spi'.pc = "lo" /\ spi'.src = "pc"
  <2>1. "pc" \in Words /\ "mic_led" \in Steps
    BY DEF Words, Steps
  <2> QED BY <1>2, <2>1, GotoResult, SendResult DEF SpiInstruction
<1>4. TypeOK'
  BY <1>1 DEF TypeOK
<1>5. LinkInv'
  BY <1>1, <1>3 DEF LinkInv, Sending, InsideWord, SpiInstruction
<1>6. CommandInv'
  BY <1>1, <1>2, <1>3 DEF CommandInv, AtMic, Sending, InsideWord, SpiInstruction
<1>7. MuteInv'
  BY <1>1, <1>2, <1>3 DEF MuteInv, Sending, InsideWord, SpiInstruction
<1>8. VolumeInv'
  BY <1>1, <1>2, <1>3 DEF VolumeInv, Sending, InsideWord, SpiInstruction
<1> QED BY <1>4, <1>5, <1>6, <1>7, <1>8

\* code_to_dsp(6) for the microphone: the LED,
LEMMA SpiMicLedStep ==
  ASSUME IndInv, SpiMicLed, Around
  PROVE IndInv'
<1> USE DEF IndInv
<1>1. UNCHANGED <<g_input_type, g_key_input_pressed_flag, g_mute, mute_select,
                  g_i_instruction, tcp_dsp_sem, g_set_volume_to_dsp_flag, volume,
                  upload, dsp, missing, delivered, key_pc, idle, stored, cuts,
                  volume_by>>
  BY DEF SpiMicLed, Around, beside_spi, selection, pcvars, history
<1>2. spi \in Link
  BY DEF LinkInv
<1>3. /\ spi.pc = "mic_led" /\ spi' \in Link /\ spi'.pc = "mic_input"
      /\ spi'.src = spi.src /\ spi'.val = spi.val /\ spi'.cut = spi.cut
  BY <1>2, GotoResult DEF SpiMicLed, Steps
<1>4. TypeOK'
  BY <1>1 DEF TypeOK, SpiMicLed, InputType, INIT_INPUT, MIC_INPUT
<1>5. LinkInv'
  BY <1>1, <1>3 DEF LinkInv, Sending, InsideWord, SpiMicLed
<1>6. CommandInv'
  BY <1>1, <1>2, <1>3 DEF CommandInv, AtMic, Sending, InsideWord, SpiMicLed
<1>7. MuteInv'
  BY <1>1, <1>2, <1>3 DEF MuteInv, Sending, InsideWord, SpiMicLed
<1>8. VolumeInv'
  BY <1>1, <1>2, <1>3 DEF VolumeInv, Sending, InsideWord, SpiMicLed
<1> QED BY <1>4, <1>5, <1>6, <1>7, <1>8

\* the input type,
LEMMA SpiMicInputStep ==
  ASSUME IndInv, SpiMicInput, Around
  PROVE IndInv'
<1> USE DEF IndInv
<1>1. UNCHANGED <<g_i_key_led_handle_count, g_key_input_pressed_flag, g_mute,
                  mute_select, g_i_instruction, tcp_dsp_sem, g_set_volume_to_dsp_flag,
                  volume, upload, dsp, missing, delivered, key_pc, idle, stored, cuts,
                  volume_by>>
  BY DEF SpiMicInput, Around, beside_spi, selection, pcvars, history
<1>2. spi \in Link
  BY DEF LinkInv
<1>3. /\ spi.pc = "mic_input" /\ spi' \in Link /\ spi'.pc = "mic_flag"
      /\ spi'.src = spi.src /\ spi'.val = spi.val /\ spi'.cut = spi.cut
  BY <1>2, GotoResult DEF SpiMicInput, Steps
<1>4. TypeOK'
  BY <1>1 DEF TypeOK, SpiMicInput, InputType, INIT_INPUT, MIC_INPUT
<1>5. LinkInv'
  BY <1>1, <1>3 DEF LinkInv, Sending, InsideWord, SpiMicInput
<1>6. CommandInv'
  BY <1>1, <1>2, <1>3 DEF CommandInv, AtMic, Sending, InsideWord, SpiMicInput
<1>7. MuteInv'
  BY <1>1, <1>2, <1>3 DEF MuteInv, Sending, InsideWord, SpiMicInput
<1>8. VolumeInv'
  BY <1>1, <1>2, <1>3 DEF VolumeInv, Sending, InsideWord, SpiMicInput
<1> QED BY <1>4, <1>5, <1>6, <1>7, <1>8

\* and the flag, after which its word starts.
LEMMA SpiMicFlagStep ==
  ASSUME IndInv, SpiMicFlag, Around
  PROVE IndInv'
<1> USE DEF IndInv
<1>1. UNCHANGED <<g_input_type, g_i_key_led_handle_count, g_mute, mute_select,
                  g_i_instruction, tcp_dsp_sem, g_set_volume_to_dsp_flag, volume,
                  upload, dsp, missing, delivered, key_pc, idle, stored, cuts,
                  volume_by>>
  BY DEF SpiMicFlag, Around, beside_spi, selection, pcvars, history
<1>2. spi \in Link
  BY DEF LinkInv
<1>3. /\ spi.pc = "mic_flag" /\ spi' \in Link /\ spi'.pc = "lo"
      /\ spi'.src = "input" /\ spi'.val = 0 /\ spi'.cut = spi.cut
  <2>1. 0 \in Nat
    BY DEF TypeOK
  <2>2. "input" \in Words
    BY DEF Words
  <2> QED BY <1>2, <2>1, <2>2, SendResult DEF SpiMicFlag
<1>4. TypeOK'
  BY <1>1 DEF TypeOK, SpiMicFlag
<1>5. LinkInv'
  BY <1>1, <1>3 DEF LinkInv, Sending, InsideWord, SpiMicFlag
<1>6. CommandInv'
  BY <1>1, <1>2, <1>3 DEF CommandInv, AtMic, Sending, InsideWord, SpiMicFlag
<1>7. MuteInv'
  BY <1>1, <1>2, <1>3 DEF MuteInv, Sending, InsideWord, SpiMicFlag
<1>8. VolumeInv'
  BY <1>1, <1>2, <1>3 DEF VolumeInv, Sending, InsideWord, SpiMicFlag
<1> QED BY <1>4, <1>5, <1>6, <1>7, <1>8

\* The request for the mute is taken back,
LEMMA SpiMuteStep ==
  ASSUME IndInv, SpiMute, Around
  PROVE IndInv'
<1> USE DEF IndInv
<1>1. UNCHANGED <<g_input_type, g_i_key_led_handle_count, g_key_input_pressed_flag,
                  g_mute, g_i_instruction, tcp_dsp_sem, g_set_volume_to_dsp_flag,
                  volume, upload, dsp, missing, delivered, key_pc, idle, stored, cuts,
                  volume_by>>
  BY DEF SpiMute, Around, beside_spi, selection, pcvars, history
<1>2. spi \in Link
  BY DEF LinkInv
<1>3. /\ spi.pc = "mute" /\ spi' \in Link
      /\ spi'.pc = IF mute_select THEN "mute_value" ELSE "volume"
      /\ spi'.src = spi.src /\ spi'.val = spi.val /\ spi'.cut = spi.cut
  BY <1>2, GotoResult DEF SpiMute, Steps
<1>4. TypeOK'
  BY <1>1 DEF TypeOK, SpiMute
<1>5. LinkInv'
  BY <1>1, <1>3 DEF LinkInv, Sending, InsideWord, SpiMute
<1>6. CommandInv'
  BY <1>1, <1>2, <1>3 DEF CommandInv, AtMic, Sending, InsideWord, SpiMute
<1>7. MuteInv'
  BY <1>1, <1>2, <1>3 DEF MuteInv, Sending, InsideWord, SpiMute
<1>8. VolumeInv'
  BY <1>1, <1>2, <1>3 DEF VolumeInv, Sending, InsideWord, SpiMute
<1> QED BY <1>4, <1>5, <1>6, <1>7, <1>8

\* and g_mute is read after that.
LEMMA SpiMuteValueStep ==
  ASSUME IndInv, SpiMuteValue, Around
  PROVE IndInv'
<1> USE DEF IndInv
<1>1. UNCHANGED <<g_input_type, g_i_key_led_handle_count, g_key_input_pressed_flag,
                  g_mute, mute_select, g_i_instruction, tcp_dsp_sem,
                  g_set_volume_to_dsp_flag, volume, upload, dsp, missing, delivered,
                  key_pc, idle, stored, cuts, volume_by>>
  BY DEF SpiMuteValue, Around, beside_spi, selection, pcvars, history
<1>2. spi \in Link
  BY DEF LinkInv
<1>3. /\ spi.pc = "mute_value" /\ spi' \in Link /\ spi'.pc = "lo"
      /\ spi'.src = "mute" /\ spi'.val = g_mute /\ spi'.cut = spi.cut
  <2>1. g_mute \in Nat
    BY DEF TypeOK
  <2>2. "mute" \in Words
    BY DEF Words
  <2> QED BY <1>2, <2>1, <2>2, SendResult DEF SpiMuteValue
<1>4. TypeOK'
  BY <1>1 DEF TypeOK
<1>5. LinkInv'
  BY <1>1, <1>3 DEF LinkInv, TypeOK, Sending, InsideWord, SpiMuteValue
<1>6. CommandInv'
  BY <1>1, <1>2, <1>3 DEF CommandInv, AtMic, Sending, InsideWord, SpiMuteValue
<1>7. MuteInv'
  BY <1>1, <1>2, <1>3 DEF MuteInv, Sending, InsideWord, SpiMuteValue
<1>8. VolumeInv'
  BY <1>1, <1>2, <1>3 DEF VolumeInv, Sending, InsideWord, SpiMuteValue
<1> QED BY <1>4, <1>5, <1>6, <1>7, <1>8

\* The request for the volume is seen,
LEMMA SpiVolumeStep ==
  ASSUME IndInv, SpiVolume, Around
  PROVE IndInv'
<1> USE DEF IndInv
<1>1. UNCHANGED <<g_input_type, g_i_key_led_handle_count, g_key_input_pressed_flag,
                  g_mute, mute_select, g_i_instruction, tcp_dsp_sem,
                  g_set_volume_to_dsp_flag, volume, upload, dsp, missing, delivered,
                  key_pc, idle, stored, cuts, volume_by>>
  BY DEF SpiVolume, Around, beside_spi, selection, pcvars, history
<1>2. spi \in Link
  BY DEF LinkInv
<1>3. /\ spi.pc = "volume" /\ spi' \in Link /\ spi'.cut = spi.cut
      /\ g_set_volume_to_dsp_flag => spi'.pc = "volume_flag"
      /\ ~g_set_volume_to_dsp_flag => spi'.pc = "lo" /\ spi'.src = "read"
  <2>1. "read" \in Words /\ "volume_flag" \in Steps
    BY DEF Words, Steps
  <2> QED BY <1>2, <2>1, GotoResult, SendResult DEF SpiVolume
<1>4. TypeOK'
  BY <1>1 DEF TypeOK
<1>5. LinkInv'
  BY <1>1, <1>3 DEF LinkInv, Sending, InsideWord, SpiVolume
<1>6. CommandInv'
  BY <1>1, <1>2, <1>3 DEF CommandInv, AtMic, Sending, InsideWord, SpiVolume
<1>7. MuteInv'
  BY <1>1, <1>2, <1>3 DEF MuteInv, Sending, InsideWord, SpiVolume
<1>8. VolumeInv'
  BY <1>1, <1>2, <1>3 DEF VolumeInv, Sending, InsideWord, SpiVolume
<1> QED BY <1>4, <1>5, <1>6, <1>7, <1>8

\* taken back,
LEMMA SpiVolumeFlagStep ==
  ASSUME IndInv, SpiVolumeFlag, Around
  PROVE IndInv'
<1> USE DEF IndInv
<1>1. UNCHANGED <<g_input_type, g_i_key_led_handle_count, g_key_input_pressed_flag,
                  g_mute, mute_select, g_i_instruction, tcp_dsp_sem, volume, upload,
                  dsp, missing, delivered, key_pc, idle, stored, cuts, volume_by>>
  BY DEF SpiVolumeFlag, Around, beside_spi, selection, pcvars, history
<1>2. spi \in Link
  BY DEF LinkInv
<1>3. /\ spi.pc = "volume_flag" /\ spi' \in Link /\ spi'.pc = "volume_value"
      /\ spi'.src = spi.src /\ spi'.val = spi.val /\ spi'.cut = spi.cut
  BY <1>2, GotoResult DEF SpiVolumeFlag, Steps
<1>4. TypeOK'
  BY <1>1 DEF TypeOK, SpiVolumeFlag
<1>5. LinkInv'
  BY <1>1, <1>3 DEF LinkInv, Sending, InsideWord, SpiVolumeFlag
<1>6. CommandInv'
  BY <1>1, <1>2, <1>3 DEF CommandInv, AtMic, Sending, InsideWord, SpiVolumeFlag
<1>7. MuteInv'
  BY <1>1, <1>2, <1>3 DEF MuteInv, Sending, InsideWord, SpiVolumeFlag
<1>8. VolumeInv'
  BY <1>1, <1>2, <1>3 DEF VolumeInv, Sending, InsideWord, SpiVolumeFlag
<1> QED BY <1>4, <1>5, <1>6, <1>7, <1>8

\* and the table is read after that.
LEMMA SpiVolumeValueStep ==
  ASSUME IndInv, SpiVolumeValue, Around
  PROVE IndInv'
<1> USE DEF IndInv
<1>1. UNCHANGED <<g_input_type, g_i_key_led_handle_count, g_key_input_pressed_flag,
                  g_mute, mute_select, g_i_instruction, tcp_dsp_sem,
                  g_set_volume_to_dsp_flag, volume, upload, dsp, missing, delivered,
                  key_pc, idle, stored, cuts, volume_by>>
  BY DEF SpiVolumeValue, Around, beside_spi, selection, pcvars, history
<1>2. spi \in Link
  BY DEF LinkInv
<1>3. /\ spi.pc = "volume_value" /\ spi' \in Link /\ spi'.pc = "lo"
      /\ spi'.src = "volume" /\ spi'.val = volume /\ spi'.cut = spi.cut
  <2>1. volume \in Nat
    BY CommandAssumption DEF TypeOK
  <2>2. "volume" \in Words
    BY DEF Words
  <2> QED BY <1>2, <2>1, <2>2, SendResult DEF SpiVolumeValue
<1>4. TypeOK'
  BY <1>1 DEF TypeOK
<1>5. LinkInv'
  BY <1>1, <1>3 DEF LinkInv, Sending, InsideWord, SpiVolumeValue
<1>6. CommandInv'
  BY <1>1, <1>2, <1>3 DEF CommandInv, AtMic, Sending, InsideWord, SpiVolumeValue
<1>7. MuteInv'
  BY <1>1, <1>2, <1>3 DEF MuteInv, Sending, InsideWord, SpiVolumeValue
<1>8. VolumeInv'
  BY <1>1, <1>2, <1>3 DEF VolumeInv, Sending, InsideWord, SpiVolumeValue
<1> QED BY <1>4, <1>5, <1>6, <1>7, <1>8

\* The volume of the knob goes into the tables.
LEMMA SpiUploadStep ==
  ASSUME IndInv, SpiUpload, Around
  PROVE IndInv'
<1> USE DEF IndInv
<1>1. UNCHANGED <<g_input_type, g_i_key_led_handle_count, g_mute, mute_select,
                  g_i_instruction, tcp_dsp_sem, g_set_volume_to_dsp_flag, upload, dsp,
                  missing, delivered, key_pc, idle, stored, cuts, volume_by>>
  BY DEF SpiUpload, Around, beside_spi, selection, pcvars, history
<1>2. spi \in Link
  BY DEF LinkInv
<1>3. /\ spi.pc = "upload" /\ spi' \in Link /\ spi'.pc = "take"
      /\ spi'.src = spi.src /\ spi'.val = spi.val /\ spi'.cut = spi.cut
  BY <1>2, GotoResult DEF SpiUpload, Steps
<1>4. TypeOK'
  BY <1>1 DEF TypeOK, LinkInv, SpiUpload
<1>5. LinkInv'
  BY <1>1, <1>3 DEF LinkInv, Sending, InsideWord, SpiUpload
<1>6. CommandInv'
  BY <1>1, <1>2, <1>3 DEF CommandInv, AtMic, Sending, InsideWord, SpiUpload
<1>7. MuteInv'
  BY <1>1, <1>2, <1>3 DEF MuteInv, Sending, InsideWord, SpiUpload
<1>8. VolumeInv'
  BY <1>1, <1>2, <1>3 DEF VolumeInv, Sending, InsideWord, SpiUpload
<1> QED BY <1>4, <1>5, <1>6, <1>7, <1>8

\* The first half of a word.  Of a command it is the parameters of the one that
\* g_i_instruction holds now, which need not be the one that was waiting.
LEMMA SpiLowStep ==
  ASSUME IndInv, SpiLow, Around
  PROVE IndInv'
<1> USE DEF IndInv
<1>1. UNCHANGED <<g_input_type, g_i_key_led_handle_count, g_key_input_pressed_flag, g_mute,
                  mute_select, g_i_instruction, tcp_dsp_sem, g_set_volume_to_dsp_flag,
                  volume, upload, dsp, missing, delivered, key_pc, idle, stored, cuts,
                  volume_by>>
  BY DEF SpiLow, Around, beside_spi, selection, pcvars, history
<1>2. spi \in Link
  BY DEF LinkInv
<1>3. /\ spi.src = "pc" => LowHalf = g_i_instruction.val
      /\ spi.src = "input" => LowHalf = g_input_type
      /\ spi.src \notin {"pc", "input"} => LowHalf = spi.val
  BY LowHalves
<1>4. LowHalf \in Nat
  <2>1. spi.val \in Nat /\ g_i_instruction.val \in Nat /\ g_input_type \in Nat
    BY <1>2 DEF Link, CommandInv, Instructions, TypeOK, InputType, INIT_INPUT, MIC_INPUT
  <2> QED BY <1>3, <2>1
<1>5. /\ spi.pc = "lo" /\ spi' \in Link /\ spi'.pc = "hi" /\ spi'.src = spi.src
      /\ spi'.val = LowHalf /\ spi'.cut = spi.cut
  <2>1. "hi" \in Steps
    BY DEF Steps
  <2> QED BY <1>2, <1>4, <2>1 DEF SpiLow, Link
<1>6. TypeOK'
  BY <1>1 DEF TypeOK
<1>7. LinkInv'
  BY <1>1, <1>3, <1>5 DEF LinkInv, TypeOK, Sending, InsideWord
<1>8. CommandInv'
  BY <1>1, <1>3, <1>5 DEF CommandInv, AtMic, Sending, InsideWord
<1>9. MuteInv'
  BY <1>1, <1>3, <1>5 DEF MuteInv, Sending, InsideWord
<1>10. VolumeInv'
  BY <1>1, <1>3, <1>5 DEF VolumeInv, Sending, InsideWord
<1> QED BY <1>6, <1>7, <1>8, <1>9, <1>10

\* The second half: what the DSP is told, and where SPI_DSP goes.
LEMMA HighHalf ==
  ASSUME IndInv, SpiHigh
  PROVE /\ spi' \in Link
        /\ spi'.pc \in {"mute", "volume", "lo", "upload", "take"}
        /\ spi'.pc = "lo" => spi'.src = "read"
        /\ spi'.pc = "upload" => spi'.val = upload /\ upload # 0
        /\ ~spi'.cut
<1> USE DEF IndInv
<1>1. spi \in Link /\ spi.src \in Words /\ spi.pc = "hi"
  BY DEF LinkInv, Link, SpiHigh
<1>2. spi' = [After EXCEPT !.cut = FALSE]
  BY DEF SpiHigh
<1>3. \A a \in Link :
        /\ [a EXCEPT !.cut = FALSE] \in Link /\ [a EXCEPT !.cut = FALSE].pc = a.pc
        /\ [a EXCEPT !.cut = FALSE].src = a.src /\ [a EXCEPT !.cut = FALSE].val = a.val
        /\ [a EXCEPT !.cut = FALSE].cut = FALSE
  BY DEF Link
<1> DEFINE Place(a) ==
      /\ a \in Link
      /\ a.pc \in {"mute", "volume", "lo", "upload", "take"}
      /\ a.pc = "lo" => a.src = "read"
      /\ a.pc = "upload" => a.val = upload /\ upload # 0
<1>4. Place(After)
  <2>1. /\ "mute" \in Steps /\ "volume" \in Steps /\ "upload" \in Steps /\ "take" \in Steps
        /\ "read" \in Words /\ 0 \in Nat
    BY DEF Steps, Words
  <2>2. CASE spi.src \in {"pc", "input"}
    <3>1. After = [spi EXCEPT !.pc = "mute"]
      BY <1>1, <2>2, Afterwards
    <3> QED BY <1>1, <2>1, <3>1 DEF Link
  <2>3. CASE spi.src = "mute"
    <3>1. After = [spi EXCEPT !.pc = "volume"]
      BY <1>1, <2>3, Afterwards
    <3> QED BY <1>1, <2>1, <3>1 DEF Link
  <2>4. CASE spi.src = "volume"
    <3>1. After = Send("read", 0)
      BY <1>1, <2>4, Afterwards
    <3> QED BY <1>1, <2>1, <3>1, SendResult
  <2>5. CASE spi.src = "read" /\ upload # 0
    <3>1. After = [spi EXCEPT !.pc = "upload", !.val = upload]
      BY <1>1, <2>5, Afterwards
    <3>2. upload \in Nat
      BY CommandAssumption DEF TypeOK
    <3> QED BY <1>1, <2>1, <2>5, <3>1, <3>2 DEF Link
  <2>6. CASE spi.src = "read" /\ upload = 0
    <3>1. After = [spi EXCEPT !.pc = "take"]
      BY <1>1, <2>6, Afterwards
    <3> QED BY <1>1, <2>1, <3>1 DEF Link
  <2> QED BY <1>1, <2>2, <2>3, <2>4, <2>5, <2>6 DEF Words
<1> QED BY <1>2, <1>3, <1>4

\* The DSP takes a whole word, and SPI_DSP goes on.
LEMMA SpiHighStep ==
  ASSUME IndInv, SpiHigh, Around
  PROVE IndInv'
<1> USE DEF IndInv
<1>1. UNCHANGED <<g_input_type, g_i_key_led_handle_count, g_key_input_pressed_flag, g_mute,
                  mute_select, g_i_instruction, tcp_dsp_sem, g_set_volume_to_dsp_flag,
                  volume, key_pc, idle, stored, cuts, volume_by>>
  BY DEF SpiHigh, Around, selection
<1>2. spi \in Link /\ spi.src \in Words /\ spi.pc = "hi" /\ spi.val \in Nat
      /\ spi.cut \in BOOLEAN
  BY DEF LinkInv, Link, SpiHigh
<1>3. /\ spi' \in Link
      /\ spi'.pc \in {"mute", "volume", "lo", "upload", "take"}
      /\ spi'.pc = "lo" => spi'.src = "read"
      /\ spi'.pc = "upload" => spi'.val = upload /\ upload # 0
      /\ ~spi'.cut
  BY HighHalf
<1>4. upload' = 0
  BY DEF SpiHigh
<1>5. dsp \in [input : InputType, mute : {0, 1}, volume : Nat]
  BY DEF TypeOK
<1>6. /\ spi.cut => dsp' = dsp
      /\ ~spi.cut =>
           /\ spi.src = "pc" /\ g_i_instruction.id = "volume"
                => dsp' = [dsp EXCEPT !.volume = spi.val]
           /\ spi.src = "pc" /\ g_i_instruction.id # "volume" => dsp' = dsp
           /\ spi.src = "input" => dsp' = [dsp EXCEPT !.input = spi.val]
           /\ spi.src = "mute" => dsp' = [dsp EXCEPT !.mute = spi.val]
           /\ spi.src = "volume" => dsp' = [dsp EXCEPT !.volume = spi.val]
           /\ spi.src = "read" => dsp' = dsp
  <2>1. dsp' = IF spi.cut THEN dsp ELSE DspTakes
    BY DEF SpiHigh
  <2>2. CASE spi.cut
    BY <2>1, <2>2
  <2>3. CASE ~spi.cut
    <3>1. dsp' = DspTakes
      BY <2>1, <2>3
    <3> QED BY <1>2, <2>3, <3>1, DspTaking
  <2> QED BY <2>2, <2>3
<1>7. dsp' \in [input : InputType, mute : {0, 1}, volume : Nat]
  <2>1. /\ spi.src = "input" => spi.val \in InputType
        /\ spi.src = "mute" => spi.val \in {0, 1}
    BY <1>2 DEF LinkInv, Sending, InsideWord
  <2>2. CASE spi.cut \/ spi.src = "read"
    BY <1>5, <1>6, <2>2
  <2>3. CASE ~spi.cut /\ spi.src = "pc"
    BY <1>2, <1>5, <1>6, <2>3
  <2>4. CASE ~spi.cut /\ spi.src = "input"
    BY <1>5, <1>6, <2>1, <2>4
  <2>5. CASE ~spi.cut /\ spi.src = "mute"
    BY <1>5, <1>6, <2>1, <2>5
  <2>6. CASE ~spi.cut /\ spi.src = "volume"
    BY <1>2, <1>5, <1>6, <2>6
  <2> QED BY <1>2, <2>2, <2>3, <2>4, <2>5, <2>6 DEF Words
<1>8. TypeOK'
  BY <1>1, <1>4, <1>7 DEF TypeOK
<1>9. LinkInv'
  <2>1. upload \in Volumes \cup {0}
    BY DEF TypeOK
  <2> QED BY <1>1, <1>3, <2>1 DEF LinkInv, Sending, InsideWord
<1>10. CommandInv'
  <2>1. missing' \subseteq Commands
    BY DEF SpiHigh, CommandInv, history
  <2>2. ASSUME cuts = 0, tcp_dsp_sem = 0 PROVE delivered' = g_i_instruction
    <3>1. ~spi.cut
      BY <2>2 DEF LinkInv
    <3>2. CASE spi.src = "pc"
      <4>1. delivered' = [id |-> g_i_instruction.id, val |-> spi.val]
        BY <3>1, <3>2 DEF SpiHigh, Carried
      <4>2. spi.val = g_i_instruction.val
        BY <1>2, <2>2, <3>2 DEF CommandInv
      <4>3. g_i_instruction \in Instructions
        BY DEF CommandInv
      <4> QED BY <4>1, <4>2, <4>3 DEF Instructions
    <3>3. CASE spi.src = "input"
      <4>1. delivered' = Mic
        BY <3>1, <3>3 DEF SpiHigh, Carried
      <4>2. AtMic
        BY <1>2, <3>3 DEF AtMic, Sending, InsideWord
      <4> QED BY <2>2, <4>1, <4>2 DEF CommandInv
    <3>4. CASE spi.src \notin {"pc", "input"}
      <4>1. delivered' = delivered
        BY <3>4 DEF SpiHigh, history
      <4>2. ~AtMic /\ ~Sending("pc") /\ spi.pc # "instruction"
        BY <1>2, <3>4 DEF AtMic, Sending, InsideWord
      <4> QED BY <2>2, <4>1, <4>2 DEF CommandInv
    <3> QED BY <3>2, <3>3, <3>4
  <2>3. ~AtMic' /\ spi'.pc # "hi"
    BY <1>3 DEF AtMic, Sending, InsideWord
  <2>4. g_i_instruction' \in Instructions
    BY <1>1 DEF CommandInv
  <2> QED BY <1>1, <2>1, <2>2, <2>3, <2>4 DEF CommandInv
<1>11. MuteInv'
  <2> SUFFICES ASSUME ~mute_select, cuts = 0 PROVE dsp'.mute = g_mute
    BY <1>1, <1>3 DEF MuteInv, Sending, InsideWord
  <2>1. ~spi.cut
    BY DEF LinkInv
  <2>2. CASE spi.src = "mute"
    <3>1. spi.val = g_mute
      BY <1>2, <2>2 DEF MuteInv, Sending, InsideWord
    <3> QED BY <1>5, <1>6, <2>1, <2>2, <3>1
  <2>3. CASE spi.src # "mute"
    <3>1. dsp.mute = g_mute
      BY <1>2, <2>3 DEF MuteInv, Sending, InsideWord
    <3>2. dsp'.mute = dsp.mute
      BY <1>2, <1>5, <1>6, <2>1, <2>3 DEF Words
    <3> QED BY <3>1, <3>2
  <2> QED BY <2>2, <2>3
<1>12. VolumeInv'
  <2>1. volume_by # "knob" =>
          /\ upload = 0
          /\ g_i_instruction.id = "volume" => g_i_instruction.val = volume
    BY DEF VolumeInv
  <2>2. ASSUME volume_by = "close", ~g_set_volume_to_dsp_flag, cuts = 0
        PROVE dsp'.volume = volume
    <3>1. ~spi.cut
      BY <2>2 DEF LinkInv
    <3>2. CASE spi.src = "volume"
      <4>1. spi.val = volume
        BY <1>2, <2>2, <3>2 DEF VolumeInv, Sending, InsideWord
      <4> QED BY <1>5, <1>6, <3>1, <3>2, <4>1
    <3>3. CASE spi.src # "volume"
      <4>1. dsp.volume = volume
        BY <1>2, <2>2, <3>3 DEF VolumeInv, Sending, InsideWord
      <4>2. CASE spi.src = "pc" /\ g_i_instruction.id = "volume"
        <5>1. spi.val = volume
          BY <1>2, <2>2, <4>2 DEF VolumeInv
        <5> QED BY <1>5, <1>6, <3>1, <4>2, <5>1
      <4>3. CASE ~(spi.src = "pc" /\ g_i_instruction.id = "volume")
        <5>1. dsp'.volume = dsp.volume
          BY <1>2, <1>5, <1>6, <3>1, <3>3, <4>3 DEF Words
        <5> QED BY <4>1, <5>1
      <4> QED BY <4>2, <4>3
    <3> QED BY <3>2, <3>3
  <2>3. volume_by \in {"pc", "close", "knob"}
    BY DEF VolumeInv
  <2> QED BY <1>1, <1>3, <1>4, <2>1, <2>2, <2>3 DEF VolumeInv, Sending, InsideWord
<1> QED BY <1>8, <1>9, <1>10, <1>11, <1>12

-----------------------------------------------------------------------------
(***************************************************************************)
(* The theorems                                                            *)
(***************************************************************************)
\* The device is up.
LEMMA InitInv == Init => IndInv
<1> SUFFICES ASSUME Init PROVE IndInv
  OBVIOUS
<1>1. stored \in [input : InputType, volume : Volumes]
  BY CommandAssumption DEF Init
<1>2. stored.input \in InputType /\ stored.volume \in Volumes /\ stored.volume \in Nat
  BY <1>1, CommandAssumption
<1>3. TypeOK
  <2>1. idle \in [event : BOOLEAN, count : 0..(STORE_TICKS - 1)]
    <3>1. 0 \in 0..(STORE_TICKS - 1)
      BY BoundsAssumption
    <3> QED BY <3>1 DEF Init
  <2>2. dsp \in [input : InputType, mute : {0, 1}, volume : Nat]
    BY <1>2 DEF Init
  <2> QED BY <1>1, <1>2, <2>1, <2>2 DEF Init, TypeOK
<1>4. LinkInv
  BY DEF Init, LinkInv, Link, Steps, Words, Sending, InsideWord
<1>5. CommandInv
  <2>2. g_i_instruction \in Instructions
    BY DEF Init, Instructions, Ids
  <2>3. missing \subseteq Commands
    BY DEF Init
  <2>4. ~AtMic /\ spi.pc # "hi"
    BY DEF Init, AtMic, Sending, InsideWord
  <2>5. delivered = g_i_instruction
    BY DEF Init
  <2> QED BY <2>2, <2>3, <2>4, <2>5 DEF CommandInv
<1>6. MuteInv
  <2>1. dsp.mute = 1 /\ g_mute = 1 /\ spi.pc = "take"
    BY DEF Init
  <2> QED BY <2>1 DEF MuteInv, Sending, InsideWord
<1>7. VolumeInv
  BY DEF Init, VolumeInv, Sending, InsideWord
<1> QED BY <1>3, <1>4, <1>5, <1>6, <1>7 DEF IndInv

\* In every reachable state of the host's threads what the link carries, what
\* has been asked for and what the DSP has been told fit together.
THEOREM Invariance == Spec => []IndInv
<1>1. IndInv /\ [Next]_vars => IndInv'
  <2> SUFFICES ASSUME IndInv, [Next]_vars PROVE IndInv'
    OBVIOUS
  <2>1. ASSUME NEW q \in Chunks, handle_net_data(q) PROVE IndInv'
    BY <2>1, NetDataStep
  <2>2. CASE KeySelect \/ KeyFlag \/ KeyMute
    BY <2>2, KeySelectStep, KeyFlagStep, KeyMuteStep
  <2>3. CASE IdleTick
    BY <2>3, IdleTickStep
  <2>4. CASE SpiStep
    <3>1. Around
      BY <2>4 DEF SpiStep, Around
    <3>2. CASE SpiTake \/ SpiInstruction \/ SpiMicLed \/ SpiMicInput \/ SpiMicFlag
      BY <3>1, <3>2, SpiTakeStep, SpiInstructionStep, SpiMicLedStep, SpiMicInputStep,
         SpiMicFlagStep
    <3>3. CASE SpiMute \/ SpiMuteValue \/ SpiVolume \/ SpiVolumeFlag \/ SpiVolumeValue
      BY <3>1, <3>3, SpiMuteStep, SpiMuteValueStep, SpiVolumeStep, SpiVolumeFlagStep,
         SpiVolumeValueStep
    <3>4. CASE SpiLow \/ SpiHigh \/ SpiUpload
      BY <3>1, <3>4, SpiLowStep, SpiHighStep, SpiUploadStep
    <3> QED BY <2>4, <3>2, <3>3, <3>4 DEF SpiStep
  <2>5. ASSUME NEW v \in Volumes, Knob(v) PROVE IndInv'
    BY <2>5, KnobStep
  <2>6. CASE UNCHANGED vars
    <3>1. TypeOK'
      BY <2>6 DEF vars, IndInv, TypeOK
    <3>2. LinkInv' /\ CommandInv' /\ MuteInv' /\ VolumeInv'
      BY <2>6 DEF vars, IndInv, LinkInv, CommandInv, MuteInv, VolumeInv, AtMic, Sending,
                  InsideWord
    <3> QED BY <3>1, <3>2 DEF IndInv
  <2> QED BY <2>1, <2>2, <2>3, <2>4, <2>5, <2>6 DEF Next
<1> QED BY InitInv, <1>1, PTL DEF Spec

\* The globals that the threads share keep their shape, though no lock guards
\* them.
THEOREM TypeCorrect == Spec => []TypeOK
<1>1. IndInv => TypeOK
  BY DEF IndInv
<1> QED BY Invariance, <1>1, PTL

\* SPI_DSP_thread_entry gives the DSP the PC's last command, whole, once no
\* token is left, for chunks of any length and any number of them, though
\* handle_net_data may write g_i_instruction while it is being sent.
THEOREM LastCommand == Spec => []LastCommandDelivered
<1>1. IndInv => LastCommandDelivered
  BY DEF IndInv, CommandInv, LastCommandDelivered, AtRest, AtMic, Sending, InsideWord
<1> QED BY Invariance, <1>1, PTL

\* The mute that key 2 chose last reaches the DSP, though the key thread may
\* choose again between any two steps of SPI_DSP_thread_entry.
THEOREM Mute == Spec => []MuteFollows
<1>1. IndInv => MuteFollows
  BY DEF IndInv, MuteInv, MuteFollows, Sending, InsideWord
<1> QED BY Invariance, <1>1, PTL

\* The close command of the PC program brings the volume of the tables to the
\* DSP, whatever commands went before it or were torn on the link.
THEOREM CloseSyncs == Spec => []CloseSyncsVolume
<1>1. IndInv => CloseSyncsVolume
  BY DEF IndInv, VolumeInv, CloseSyncsVolume, AtRest, Sending, InsideWord
<1> QED BY Invariance, <1>1, PTL

(***************************************************************************)
(* Selections                                                              *)
(***************************************************************************)
Pending ==
  key_pc = "flag" \/ spi.pc = "mic_flag" \/ g_key_input_pressed_flag \/ idle.event

\* Besides, half a word of SPI_DSP may hold the selection before the last.
PendInv ==
  /\ stored.input # g_input_type => Pending
  /\ cuts = 0 /\ dsp.input # g_input_type => Pending
  /\ cuts = 0 /\ spi.pc = "hi" /\ spi.src = "input" /\ spi.val # g_input_type => Pending

\* tcpserv saves no other input than the selected one.
LEMMA NetDataPends ==
  ASSUME IndInv, PendInv, NEW q \in Chunks, handle_net_data(q)
  PROVE PendInv'
<1>1. Arrived \in Reached
  BY ChunkArrives
<1> DEFINE h == HandleChunk(Arrived, q)
<1>2. h \in Reached
  BY <1>1, ChunkReaches DEF IndInv
<1>3. stored' = h.stored
  BY DEF handle_net_data, Arrived
<1> HIDE DEF h
<1>4. stored'.input \in {stored.input, g_input_type}
  BY <1>2, <1>3 DEF Reached
<1>5. UNCHANGED <<g_input_type, g_key_input_pressed_flag, key_pc, idle, spi, dsp, cuts>>
  BY DEF handle_net_data, selection
<1> QED BY <1>4, <1>5 DEF PendInv, Pending

\* The idle timer gives the DSP and the flash the selection before it forgets.
LEMMA IdleTickPends ==
  ASSUME IndInv, PendInv, IdleTick
  PROVE PendInv'
<1>1. g_input_type' = g_input_type /\ key_pc' = key_pc
  BY DEF IdleTick, selection
<1>2. /\ spi \in Link /\ cuts \in Nat /\ idle \in [event : BOOLEAN, count : 0..(STORE_TICKS - 1)]
      /\ dsp \in [input : InputType, mute : {0, 1}, volume : Nat]
  BY DEF IndInv, LinkInv, TypeOK
<1>3. CASE IdleNotice
  <2>1. idle'.event
    BY <1>2, <1>3 DEF IdleNotice
  <2> QED BY <2>1 DEF PendInv, Pending
<1>4. CASE IdleCount
  <2>1. /\ spi'.pc = spi.pc /\ spi'.src = spi.src /\ spi'.val = spi.val
        /\ cuts' = 0 => cuts = 0
    BY <1>4, IdleSendEffect DEF IdleCount
  <2>2. cuts' = 0 => spi.pc # "hi" /\ dsp'.input = g_input_type
    BY <1>2, <1>4 DEF IdleCount, IdleSend
  <2>3. stored'.input = g_input_type \/ (stored' = stored /\ idle'.event)
    BY <1>2, <1>4 DEF IdleCount
  <2> QED BY <1>1, <2>1, <2>2, <2>3 DEF PendInv, Pending
<1> QED BY <1>3, <1>4 DEF IdleTick

\* SPI_DSP tells the DSP an older selection only while the last one is pending.
LEMMA SpiPends ==
  ASSUME IndInv, PendInv, SpiStep
  PROVE PendInv'
<1>1. key_pc = "poll" /\ UNCHANGED <<key_pc, idle, stored, cuts>>
  BY DEF SpiStep
<1>2. spi \in Link /\ dsp \in [input : InputType, mute : {0, 1}, volume : Nat]
  BY DEF IndInv, LinkInv, TypeOK
<1>3. CASE SpiMicFlag \/ SpiUpload
  <2>1. g_key_input_pressed_flag'
    BY <1>3 DEF SpiMicFlag, SpiUpload
  <2> QED BY <2>1 DEF PendInv, Pending
<1>4. CASE SpiMicInput
  <2>1. spi'.pc = "mic_flag"
    BY <1>2, <1>4 DEF SpiMicInput, Goto, Link
  <2> QED BY <2>1 DEF PendInv, Pending
<1>5. CASE SpiHigh
  <2>1. spi.pc = "hi" /\ spi'.pc # "hi"
    BY <1>5, HighHalf DEF SpiHigh
  <2>2. UNCHANGED <<g_input_type, g_key_input_pressed_flag>>
    BY <1>5 DEF SpiHigh, selection
  <2>3. dsp'.input = dsp.input \/ (spi.src = "input" /\ dsp'.input = spi.val)
    <3>1. spi.src \in Words
      BY <1>2 DEF Link
    <3>2. DspTakes.input = dsp.input \/ (spi.src = "input" /\ DspTakes.input = spi.val)
      BY <1>2, <3>1, DspTaking DEF Words
    <3> QED BY <1>5, <3>2 DEF SpiHigh
  <2> QED BY <1>1, <2>1, <2>2, <2>3 DEF PendInv, Pending
<1>6. CASE SpiLow
  <2>1. spi.pc = "lo" /\ spi'.pc = "hi" /\ spi'.src = spi.src /\ spi'.val = LowHalf
    BY <1>2, <1>6 DEF SpiLow, Link
  <2>2. UNCHANGED <<g_input_type, g_key_input_pressed_flag, dsp>>
    BY <1>6 DEF SpiLow, beside_spi, selection
  <2> QED BY <1>1, <2>1, <2>2, LowHalves DEF PendInv, Pending
<1>7. CASE SpiTake \/ SpiInstruction \/ SpiMicLed \/ SpiMute \/ SpiMuteValue \/ SpiVolume
           \/ SpiVolumeFlag \/ SpiVolumeValue
  <2>1. UNCHANGED <<g_input_type, g_key_input_pressed_flag, dsp>>
    BY <1>7 DEF SpiTake, SpiInstruction, SpiMicLed, SpiMute, SpiMuteValue, SpiVolume,
       SpiVolumeFlag, SpiVolumeValue, beside_spi, selection
  <2>2. spi.pc # "mic_flag"
    BY <1>7 DEF SpiTake, SpiInstruction, SpiMicLed, SpiMute, SpiMuteValue, SpiVolume,
       SpiVolumeFlag, SpiVolumeValue
  <2>3. spi'.pc # "hi"
    BY <1>2, <1>7 DEF SpiTake, SpiInstruction, SpiMicLed, SpiMute, SpiMuteValue, SpiVolume,
       SpiVolumeFlag, SpiVolumeValue, Goto, Send, Link
  <2> QED BY <1>1, <2>1, <2>2, <2>3 DEF PendInv, Pending
<1> QED BY <1>3, <1>4, <1>5, <1>6, <1>7 DEF SpiStep

\* A selection that is neither in the flash nor at the DSP is pending in every
\* reachable state, for any number of keys, commands and rounds: the safety part
\* of InputIsStored and DspFollowsUncut.
THEOREM SelectionNotForgotten == Spec => []SelectionPending
<1>1. Init => PendInv
  BY DEF Init, PendInv
<1>2. IndInv /\ PendInv /\ [Next]_vars => PendInv'
  <2> SUFFICES ASSUME IndInv, PendInv, [Next]_vars PROVE PendInv'
    OBVIOUS
  <2>1. ASSUME NEW q \in Chunks, handle_net_data(q) PROVE PendInv'
    BY <2>1, NetDataPends
  <2>2. CASE KeySelect
    BY <2>2 DEF KeySelect, PendInv, Pending
  <2>3. CASE KeyFlag
    BY <2>3 DEF KeyFlag, PendInv, Pending
  <2>4. CASE KeyMute
    BY <2>4 DEF KeyMute, selection, PendInv, Pending
  <2>5. ASSUME NEW v \in Volumes, Knob(v) PROVE PendInv'
    <3>1. UNCHANGED <<g_input_type, g_key_input_pressed_flag, key_pc, idle, spi, stored, cuts>>
      BY <2>5 DEF Knob, selection
    <3>2. dsp'.input = dsp.input
      BY <2>5 DEF Knob, IndInv, TypeOK
    <3> QED BY <3>1, <3>2 DEF PendInv, Pending
  <2>6. CASE UNCHANGED vars
    BY <2>6 DEF vars, PendInv, Pending
  <2> QED BY <2>1, <2>2, <2>3, <2>4, <2>5, <2>6, IdleTickPends, SpiPends DEF Next
<1>3. PendInv => SelectionPending
  BY DEF PendInv, Pending, SelectionPending
<1> QED BY <1>1, <1>2, <1>3, Invariance, PTL DEF Spec
=============================================================================

