--------------------------- MODULE DspParamsProofs ---------------------------
(***************************************************************************)
(* Proofs about the DSP's parameters and their replay, for any channels,   *)
(* bands, words of the PC, number of events and of restarts.               *)
(***************************************************************************)
EXTENDS DspParams, Induction, FiniteSetTheorems, TLAPS

(***************************************************************************)
(* Words and identifiers                                                   *)
(***************************************************************************)
\* What the PC, the knob and the front panel send.
Word ==
  {m \in Msg : /\ m.key = 11 => m.param1 \in Channels
               /\ m.key = 11 /\ m.type = 8 =>
                    m.param2 \in Bands \/ (m.param2 = 0 /\ m.param3 = 0)
               /\ m.key = 15 => m.type \in Channels /\ m.param1 \in 1..6}

\* m is the word for key.type, with the first parameter p for Is1.
Is(m, key, type) == m.key = key /\ m.type = type
Is1(m, key, type, p) == Is(m, key, type) /\ m.param1 = p

\* What the positions of values make of two words: they share a slot.
SameSlot(m, w) ==
  /\ m.key = w.key /\ m.type = w.type
  /\ get_cmd_index(m.key, m.type) \in {1, 2} => m.param1 = w.param1
  /\ get_cmd_index(m.key, m.type) = 2 => m.param2 = w.param2

\* The fields of a word are numbers.
LEMMA MsgFields ==
  ASSUME NEW m \in Msg
  PROVE  /\ m.op \in 0..3 /\ m.key \in 0..15 /\ m.type \in 0..31 /\ m.param1 \in 0..31
         /\ m.param2 \in 0..255 /\ m.param3 \in 0..255
         /\ m = [op |-> m.op, key |-> m.key, type |-> m.type, param1 |-> m.param1,
                 param2 |-> m.param2, param3 |-> m.param3]
BY DEF Msg, Byte

\* The position of a value is one of the four of get_cmd_index.
LEMMA IndexType ==
  ASSUME NEW key \in 0..15, NEW type \in 0..31
  PROVE  get_cmd_index(key, type) \in 0..3
BY DEF get_cmd_index, CMD_DATA_INDEX_INVALID

\* A recorded word has a valid position.
LEMMA RecordedIndex ==
  ASSUME NEW m \in Msg, Recorded(m)
  PROVE  get_cmd_index(m.key, m.type) \in 0..2
<1>1. get_cmd_index(m.key, m.type) \in 0..3
  BY MsgFields, IndexType
<1>2. get_cmd_index(m.key, m.type) # 3
  BY DEF Recorded, get_cmd_id, CMD_DATA_INDEX_INVALID
<1> QED
  BY <1>1, <1>2

\* The parameters in an identifier.
Part1(m) == IF get_cmd_index(m.key, m.type) \in {1, 2} THEN m.param1 ELSE 0
Part2(m) == IF get_cmd_index(m.key, m.type) = 2 THEN m.param2 ELSE 0

LEMMA IdParts ==
  ASSUME NEW m \in Msg, Recorded(m)
  PROVE  /\ get_cmd_id(m) = m.key * 262144 + m.type * 8192 + Part1(m) * 256 + Part2(m)
         /\ Part1(m) \in 0..31 /\ Part2(m) \in 0..255
<1>1. PICK ix \in 0..2 : ix = get_cmd_index(m.key, m.type)
  BY RecordedIndex
<1>2. PICK k \in 0..15, t \in 0..31, p \in 0..31, q \in 0..255 :
        m.key = k /\ m.type = t /\ m.param1 = p /\ m.param2 = q
  BY DEF Msg, Byte
<1>3. \/ ix = 0 /\ get_cmd_id(m) = k * 262144 + t * 8192 + 0 + 0
      \/ ix = 1 /\ get_cmd_id(m) = k * 262144 + t * 8192 + p * 256 + 0
      \/ ix = 2 /\ get_cmd_id(m) = k * 262144 + t * 8192 + p * 256 + q
  BY <1>1, <1>2, SMT DEF get_cmd_id, CMD_DATA_INDEX_INVALID
<1>4. \/ ix = 0 /\ Part1(m) = 0 /\ Part2(m) = 0
      \/ ix = 1 /\ Part1(m) = p /\ Part2(m) = 0
      \/ ix = 2 /\ Part1(m) = p /\ Part2(m) = q
  BY <1>1, <1>2, SMT DEF Part1, Part2
<1> QED
  BY <1>2, <1>3, <1>4, SMT

\* Two recorded words have the same identifier when they share a slot.
LEMMA IdSlot ==
  ASSUME NEW m \in Msg, NEW w \in Msg, Recorded(m), Recorded(w)
  PROVE  get_cmd_id(m) = get_cmd_id(w) <=> SameSlot(m, w)
<1>1. get_cmd_id(m) = get_cmd_id(w) <=>
        m.key = w.key /\ m.type = w.type /\ Part1(m) = Part1(w) /\ Part2(m) = Part2(w)
  <2>1. PICK k \in 0..15, t \in 0..31, l \in 0..15, u \in 0..31 :
          m.key = k /\ m.type = t /\ w.key = l /\ w.type = u
    BY DEF Msg
  <2>2. PICK a \in 0..31, b \in 0..255, c \in 0..31, d \in 0..255 :
          Part1(m) = a /\ Part2(m) = b /\ Part1(w) = c /\ Part2(w) = d
    <3>1. Part1(m) \in 0..31 /\ Part2(m) \in 0..255 /\ Part1(w) \in 0..31 /\ Part2(w) \in 0..255
      BY IdParts, SMT
    <3> HIDE DEF Part1, Part2
    <3> QED
      BY <3>1
  <2>3. /\ get_cmd_id(m) = k * 262144 + t * 8192 + a * 256 + b
        /\ get_cmd_id(w) = l * 262144 + u * 8192 + c * 256 + d
    BY <2>1, <2>2, IdParts, SMT
  <2>4. ASSUME get_cmd_id(m) = get_cmd_id(w)
        PROVE  k = l /\ t = u /\ a = c /\ b = d
    <3>1. k * 262144 + t * 8192 + a * 256 + b = l * 262144 + u * 8192 + c * 256 + d
      BY <2>3, <2>4, SMT
    <3>2. k = l
      BY <3>1, SMT
    <3>3. t = u
      BY <3>1, <3>2, SMT
    <3>4. a = c /\ b = d
      BY <3>1, <3>2, <3>3, SMT
    <3> QED
      BY <3>2, <3>3, <3>4
  <2> QED
    BY <2>1, <2>2, <2>3, <2>4, SMT
<1> QED
  BY <1>1, SMT DEF SameSlot, Part1, Part2

\* A word with a first parameter in its identifier, or none, has that of WordId.
LEMMA WordIds ==
  ASSUME NEW m \in Msg, NEW p \in 0..31
  PROVE  /\ \A t \in {3, 4, 5} : Is1(m, 11, t, p) => get_cmd_id(m) = WordId(11, t, p)
         /\ \A t \in {9, 10, 11} : Is(m, 1, t) => get_cmd_id(m) = WordId(1, t, 0)
         /\ \A k \in 2..8 : Is(m, k, 1) => get_cmd_id(m) = WordId(k, 1, 0)
         /\ \A t \in 1..14 : Is1(m, 15, t, p) => get_cmd_id(m) = WordId(15, t, p)
<1>1. /\ \A t \in {3, 4, 5} : get_cmd_index(11, t) = 1
      /\ \A t \in {9, 10, 11} : get_cmd_index(1, t) = 0
      /\ \A k \in 2..8 : get_cmd_index(k, 1) = 0
      /\ \A t \in 1..14 : get_cmd_index(15, t) = 1
  BY DEF get_cmd_index, CMD_GROUP_GENERAL, CMD_GROUP_INPUTS, CMD_GROUP_OUTPUT, CMD_GROUP_FERQ
<1> QED
  BY <1>1 DEF Is, Is1, WordId, Command, get_cmd_id, CMD_DATA_INDEX_INVALID

(***************************************************************************)
(* The decoders                                                            *)
(***************************************************************************)
\* The parameters and their types.
Rates == {44100, 48000, 88200, 96000}

Fields ==
  {"InputXtype", "LastInputXtype", "SystemState", "SamplingRate", "PlaybackSF", "FadeTime",
   "Delay", "samples", "HighCutFreq", "LowCutFreq", "EQBandGain", "FreqDivVal", "route",
   "count", "knobvolume", "gain"}

Fade == [time : Nat, rate : Nat]
Gains == [Bands -> Int]
Division == [1..3 -> Nat]
Outputs == [1..3 -> Int]

Params(d) ==
  /\ DOMAIN d = Fields
  /\ d.InputXtype \in 0..7 /\ d.LastInputXtype \in 0..7 /\ d.SystemState \in 1..3
  /\ d.SamplingRate \in [0..7 -> Rates]
  /\ d.FadeTime \in [{10, 11} -> Fade]
  /\ d.Delay \in [Channels -> Nat]
  /\ d.samples \in [Channels -> 0..LIMIT]
  /\ d.HighCutFreq \in [Channels -> Freqs]
  /\ d.LowCutFreq \in [Channels -> Freqs]
  /\ d.EQBandGain \in [Channels -> Gains]
  /\ d.FreqDivVal \in [Channels -> Division]
  /\ d.route \in [Channels -> Outputs]
  /\ d.count \in 0..96 /\ d.knobvolume \in 0..96 /\ d.gain \in -96..6

\* The words a decoder takes, apart from the cut frequencies, whatever the
\* parameters are.
Fixed(m) ==
  /\ m.op = 0 \/ m.key = 15
  /\ \/ Is(m, 1, 8) /\ m.param2 <= 96
     \/ Is(m, 1, 9) /\ m.param1 \in 1..7
     \/ m.key = 1 /\ m.type \in {10, 11} /\ m.param1 \in 2..10
     \/ m.key \in 2..8 /\ m.type = 1
     \/ m.key \in 2..8 /\ m.type = 6 /\ m.param1 <= 24
     \/ Is(m, 11, 3) /\ m.param2 <= 200 /\ m.param3 <= 99
     \/ Is(m, 11, 8) /\ m.param2 <= 31 /\ Signed(m.param3) \in -120..120
     \/ Is(m, 13, 11) /\ m.param1 \in 1..3
     \/ m.key = 15 /\ m.type <= 16

IsCut(m) == m.key = 11 /\ m.type \in {4, 5}

\* Whether a word is taken does not depend on the parameters but for the cuts.
LEMMA TakenIs ==
  ASSUME NEW d, NEW m \in Msg
  PROVE  Taken(d, m) <=> IF IsCut(m) THEN m.op = 0 /\ CutTaken(d, m) ELSE Fixed(m)
<1>0. m.key \in 0..15 /\ m.type \in 0..31
  BY MsgFields
<1>1. CASE IsCut(m)
  BY <1>1, SMT DEF IsCut, Taken
<1>2. CASE m.key = 1
  BY <1>0, <1>2, SMT DEF IsCut, Taken, Fixed, Is
<1>3. CASE m.key \in 2..8
  BY <1>0, <1>3, SMT DEF IsCut, Taken, Fixed, Is
<1>4. CASE m.key = 11 /\ ~IsCut(m)
  BY <1>0, <1>4, SMT DEF IsCut, Taken, Fixed, Is
<1>5. CASE m.key \in {13, 15}
  BY <1>0, <1>5, SMT DEF IsCut, Taken, Fixed, Is
<1>6. CASE m.key \in {0, 9, 10, 12, 14}
  BY <1>0, <1>6, SMT DEF IsCut, Taken, Fixed, Is
<1> QED
  BY <1>0, <1>1, <1>2, <1>3, <1>4, <1>5, <1>6, SMT

\* The decoder of each word.
LEMMA DecodeIs ==
  ASSUME NEW d, NEW m \in Msg
  PROVE  /\ ~Taken(d, m) => Decode(d, m) = d
         /\ Taken(d, m) /\ Is(m, 1, 8) =>
              Decode(d, m) = KnobVolume_Set(d, m.param2)
         /\ Taken(d, m) /\ Is(m, 1, 9) => Decode(d, m) = InputXtype_Set(d, m)
         /\ Taken(d, m) /\ m.key = 1 /\ m.type \in {10, 11} => Decode(d, m) = FadeTime_Set(d, m)
         /\ Taken(d, m) /\ m.key \in 2..8 /\ m.type = 1 =>
              Decode(d, m) = Input_SamplingRate_Set(d, m)
         /\ Taken(d, m) /\ m.key \in 2..8 /\ m.type = 6 =>
              Decode(d, m) = Input_PlaybackSF_Set(d, m)
         /\ Taken(d, m) /\ Is(m, 11, 3) => Decode(d, m) = Output_TimeDelay_Set(d, m)
         /\ Taken(d, m) /\ Is(m, 11, 4) => Decode(d, m) = Output_HighCutFreq_Set(d, m)
         /\ Taken(d, m) /\ Is(m, 11, 5) => Decode(d, m) = Output_LowCutFreq_Set(d, m)
         /\ Taken(d, m) /\ Is(m, 11, 8) => Decode(d, m) = Output_EQBandGain_Set(d, m)
         /\ Taken(d, m) /\ m.key = 13 => Decode(d, m) = SystemState_Set(d, m)
         /\ Taken(d, m) /\ m.key = 15 => Decode(d, m) = FreqDiv_Set(d, m)
<1>0. m.key \in 0..15 /\ m.type \in 0..31
  BY MsgFields
<1>1. ~Taken(d, m) => Decode(d, m) = d
  BY DEF Decode
<1>2. Taken(d, m) /\ m.key = 1 =>
        /\ m.type = 8 => Decode(d, m) = KnobVolume_Set(d, m.param2)
        /\ m.type = 9 => Decode(d, m) = InputXtype_Set(d, m)
        /\ m.type \in {10, 11} => Decode(d, m) = FadeTime_Set(d, m)
  BY <1>0, SMT DEF Decode
<1>3. Taken(d, m) /\ m.key \in 2..8 =>
        /\ m.type = 1 => Decode(d, m) = Input_SamplingRate_Set(d, m)
        /\ m.type = 6 => Decode(d, m) = Input_PlaybackSF_Set(d, m)
  BY <1>0, SMT DEF Decode
<1>4. Taken(d, m) /\ m.key = 11 =>
        /\ m.type = 3 => Decode(d, m) = Output_TimeDelay_Set(d, m)
        /\ m.type = 4 => Decode(d, m) = Output_HighCutFreq_Set(d, m)
        /\ m.type = 5 => Decode(d, m) = Output_LowCutFreq_Set(d, m)
        /\ m.type = 8 => Decode(d, m) = Output_EQBandGain_Set(d, m)
  BY <1>0, SMT DEF Decode
<1>5. /\ Taken(d, m) /\ m.key = 13 => Decode(d, m) = SystemState_Set(d, m)
      /\ Taken(d, m) /\ m.key = 15 => Decode(d, m) = FreqDiv_Set(d, m)
  BY <1>0, SMT DEF Decode
<1> QED
  BY <1>1, <1>2, <1>3, <1>4, <1>5 DEF Is

\* The values that the decoders compute.
LEMMA Values ==
  ASSUME NEW m \in Msg
  PROVE  /\ Para23(m) \in Nat /\ Signed(m.param3) \in -128..127
         /\ Tenth(Signed(m.param3)) \in Int
         /\ Rate(m.param1) \in Rates
         /\ m.param2 * 100 + m.param3 \in Nat
<1>1. PICK p \in 0..31, q \in 0..255, v \in 0..255 :
        m.param1 = p /\ m.param2 = q /\ m.param3 = v
  BY DEF Msg, Byte
<1>2. Para23(m) = q * 256 + v /\ Para23(m) \in Nat
  BY <1>1, SMT DEF Para23
<1>3. Signed(v) \in -128..127
  BY SMT DEF Signed
<1>4. \A n \in -128..127 : Tenth(n) \in Int
  BY SMT DEF Tenth
<1>5. Rate(p) \in Rates
  BY SMT DEF Rate, Rates
<1>6. q * 100 + v \in Nat
  BY SMT
<1> QED
  BY <1>1, <1>2, <1>3, <1>4, <1>5, <1>6, SMT

\* The number of samples of a delay is a natural.
LEMMA SamplesNat ==
  ASSUME NEW rate \in Rates, NEW delay \in Nat
  PROVE  Samples(rate, delay) \in Nat
BY SMT DEF Samples, Rates

\* An assignment to one parameter.
LEMMA SetField ==
  ASSUME NEW d, DOMAIN d = Fields, NEW f \in Fields, NEW v
  PROVE  /\ DOMAIN [d EXCEPT ![f] = v] = Fields
         /\ [d EXCEPT ![f] = v][f] = v
         /\ \A g \in Fields : g # f => [d EXCEPT ![f] = v][g] = d[g]
OBVIOUS

\* e differs from d in the parameters F only.
Sets(d, e, F) ==
  /\ DOMAIN e = Fields
  /\ "InputXtype" \notin F => e.InputXtype = d.InputXtype
  /\ "LastInputXtype" \notin F => e.LastInputXtype = d.LastInputXtype
  /\ "SystemState" \notin F => e.SystemState = d.SystemState
  /\ "SamplingRate" \notin F => e.SamplingRate = d.SamplingRate
  /\ "FadeTime" \notin F => e.FadeTime = d.FadeTime
  /\ "Delay" \notin F => e.Delay = d.Delay
  /\ "samples" \notin F => e.samples = d.samples
  /\ "HighCutFreq" \notin F => e.HighCutFreq = d.HighCutFreq
  /\ "LowCutFreq" \notin F => e.LowCutFreq = d.LowCutFreq
  /\ "EQBandGain" \notin F => e.EQBandGain = d.EQBandGain
  /\ "FreqDivVal" \notin F => e.FreqDivVal = d.FreqDivVal
  /\ "route" \notin F => e.route = d.route
  /\ "count" \notin F => e.count = d.count
  /\ "knobvolume" \notin F => e.knobvolume = d.knobvolume
  /\ "gain" \notin F => e.gain = d.gain

LEMMA KnobSets ==
  ASSUME NEW d, DOMAIN d = Fields, NEW v, NEW e,
         e = KnobVolume_Set(d, v)
  PROVE  /\ Sets(d, e, {"count", "knobvolume", "gain"})
         /\ e.count = v /\ e.knobvolume = v /\ e.gain = v - 90
BY DEF KnobVolume_Set, KnobGain, KnobValue, KnobCount, Fields, Sets

LEMMA InputSets ==
  ASSUME NEW d, DOMAIN d = Fields, NEW m, NEW e, e = InputXtype_Set(d, m)
  PROVE  /\ Sets(d, e, {"InputXtype", "LastInputXtype"})
         /\ e.InputXtype = m.param1 /\ e.LastInputXtype = m.param1
BY DEF InputXtype_Set, Fields, Sets

LEMMA StateSets ==
  ASSUME NEW d, DOMAIN d = Fields, NEW m, NEW e, e = SystemState_Set(d, m)
  PROVE  /\ Sets(d, e, {"SystemState", "InputXtype", "LastInputXtype"})
         /\ e.SystemState = m.param1
         /\ e.InputXtype = IF m.param1 = ALIGNMENT THEN TEST ELSE d.LastInputXtype
         /\ e.LastInputXtype = IF m.param1 = ALIGNMENT THEN d.InputXtype ELSE d.LastInputXtype
BY DEF SystemState_Set, Fields, Sets

LEMMA FadeSets ==
  ASSUME NEW d, DOMAIN d = Fields, NEW m, NEW e, e = FadeTime_Set(d, m)
  PROVE  /\ Sets(d, e, {"FadeTime"})
         /\ e.FadeTime = [d.FadeTime EXCEPT ![m.type] =
                            [time |-> m.param1, rate |-> d.SamplingRate[d.InputXtype]]]
BY DEF FadeTime_Set, Fields, Sets

LEMMA RateSets ==
  ASSUME NEW d, DOMAIN d = Fields, NEW m, NEW e, e = Input_SamplingRate_Set(d, m)
  PROVE  /\ Sets(d, e, {"SamplingRate"})
         /\ e.SamplingRate = [d.SamplingRate EXCEPT ![m.key - 1] = Rate(m.param1)]
BY DEF Input_SamplingRate_Set, Fields, Sets

LEMMA PlaybackSets ==
  ASSUME NEW d, DOMAIN d = Fields, NEW m, NEW e, e = Input_PlaybackSF_Set(d, m)
  PROVE  Sets(d, e, {"PlaybackSF"})
BY DEF Input_PlaybackSF_Set, Fields, Sets

LEMMA DelaySets ==
  ASSUME NEW d, DOMAIN d = Fields, NEW m, NEW e, e = Output_TimeDelay_Set(d, m)
  PROVE  LET delay == m.param2 * 100 + m.param3
             val == Samples(d.SamplingRate[d.InputXtype], delay)
         IN /\ Sets(d, e, {"Delay", "samples"})
            /\ e.Delay = [d.Delay EXCEPT ![m.param1] = delay]
            /\ e.samples = [d.samples EXCEPT ![m.param1] = IF val > LIMIT THEN @ ELSE val]
BY DEF Output_TimeDelay_Set, Fields, Sets

LEMMA HighSets ==
  ASSUME NEW d, DOMAIN d = Fields, NEW m, NEW e, e = Output_HighCutFreq_Set(d, m)
  PROVE  /\ Sets(d, e, {"HighCutFreq"})
         /\ e.HighCutFreq = [d.HighCutFreq EXCEPT ![m.param1] = Para23(m)]
BY DEF Output_HighCutFreq_Set, Fields, Sets

LEMMA LowSets ==
  ASSUME NEW d, DOMAIN d = Fields, NEW m, NEW e, e = Output_LowCutFreq_Set(d, m)
  PROVE  /\ Sets(d, e, {"LowCutFreq"})
         /\ e.LowCutFreq = [d.LowCutFreq EXCEPT ![m.param1] = Para23(m)]
BY DEF Output_LowCutFreq_Set, Fields, Sets

LEMMA EqSets ==
  ASSUME NEW d, DOMAIN d = Fields, NEW m, NEW e, e = Output_EQBandGain_Set(d, m)
  PROVE  /\ Sets(d, e, {"EQBandGain"})
         /\ m.param2 = 0 /\ m.param3 = 0 =>
              e.EQBandGain = [d.EQBandGain EXCEPT ![m.param1] = [b \in Bands |-> 0]]
         /\ ~(m.param2 = 0 /\ m.param3 = 0) =>
              e.EQBandGain = [d.EQBandGain EXCEPT ![m.param1][m.param2] = Tenth(Signed(m.param3))]
BY DEF Output_EQBandGain_Set, Fields, Sets

\* The frequencies and outputs of a row after a word of group 15, before the
\* bands above the number lose their outputs.
DivVal(d, m) ==
  IF m.param1 <= 3
  THEN [d.FreqDivVal[m.type] EXCEPT ![m.param1] = Para23(m)]
  ELSE d.FreqDivVal[m.type]

DivOut(d, m) ==
  IF m.param1 <= 3
  THEN d.route[m.type]
  ELSE [d.route[m.type] EXCEPT ![m.param1 - 3] = Para23(m) - 1]

LEMMA DivSets ==
  ASSUME NEW d, DOMAIN d = Fields, NEW m, NEW e, e = FreqDiv_Set(d, m)
  PROVE  /\ Sets(d, e, {"FreqDivVal", "route"})
         /\ e.FreqDivVal = [d.FreqDivVal EXCEPT ![m.type] = DivVal(d, m)]
         /\ e.route = [d.route EXCEPT ![m.type] =
                         IF DivisionComplete(DivVal(d, m))
                         THEN setdivisionpointnum(DivOut(d, m), DivVal(d, m)[1])
                         ELSE DivOut(d, m)]
BY DEF FreqDiv_Set, DivVal, DivOut, Fields, Sets

\* What a word of group 15 does to the number of bands and to their outputs.
LEMMA DivFacts ==
  ASSUME NEW d, Params(d), NEW m \in Word, m.key = 15, NEW e, e = FreqDiv_Set(d, m)
  PROVE  /\ e.FreqDivVal \in [Channels -> Division]
         /\ e.route \in [Channels -> Outputs]
         /\ \A c \in Channels : c # m.type =>
              e.FreqDivVal[c] = d.FreqDivVal[c] /\ e.route[c] = d.route[c]
         /\ e.FreqDivVal[m.type][1] =
              IF m.param1 = 1 THEN Para23(m) ELSE d.FreqDivVal[m.type][1]
         /\ \A b \in 1..3 :
              LET new == IF m.param1 = b + 3 THEN Para23(m) - 1 ELSE d.route[m.type][b]
              IN /\ e.route[m.type][b] \in {new, -1}
                 /\ b <= e.FreqDivVal[m.type][1] => e.route[m.type][b] = new
<1> DEFINE v == DivVal(d, m)
           o == DivOut(d, m)
           r == IF DivisionComplete(v) THEN setdivisionpointnum(o, v[1]) ELSE o
<1>1. /\ m.type \in Channels /\ m.param1 \in 1..6
      /\ d.FreqDivVal[m.type] \in Division /\ d.route[m.type] \in Outputs
  BY SMT DEF Word, Params
<1>2. Para23(m) \in Nat
  BY Values DEF Word
<1>3. v \in Division /\ v[1] = IF m.param1 = 1 THEN Para23(m) ELSE d.FreqDivVal[m.type][1]
  BY <1>1, <1>2, SMT DEF DivVal, Division
<1>4. /\ o \in Outputs
      /\ \A b \in 1..3 : o[b] = IF m.param1 = b + 3 THEN Para23(m) - 1 ELSE d.route[m.type][b]
  BY <1>1, <1>2, SMT DEF DivOut, Outputs
<1> HIDE DEF v, o
<1>5. /\ r \in Outputs
      /\ \A b \in 1..3 : r[b] \in {o[b], -1} /\ (b <= v[1] => r[b] = o[b])
  <2>1. /\ setdivisionpointnum(o, v[1]) \in Outputs
        /\ \A b \in 1..3 : setdivisionpointnum(o, v[1])[b] = IF v[1] < b THEN -1 ELSE o[b]
    BY <1>3, <1>4, SMT DEF setdivisionpointnum, Division, Outputs
  <2>2. v[1] \in Nat
    BY <1>3, SMT DEF Division
  <2> QED
    BY <1>4, <2>1, <2>2, SMT
<1> HIDE DEF r
<1>6. /\ e.FreqDivVal = [d.FreqDivVal EXCEPT ![m.type] = v]
      /\ e.route = [d.route EXCEPT ![m.type] = r]
  <2>1. DOMAIN d = Fields
    BY DEF Params
  <2> QED
    BY <2>1, DivSets DEF v, o, r
<1>7. /\ e.FreqDivVal \in [Channels -> Division] /\ e.FreqDivVal[m.type] = v
      /\ e.route \in [Channels -> Outputs] /\ e.route[m.type] = r
      /\ \A c \in Channels : c # m.type =>
           e.FreqDivVal[c] = d.FreqDivVal[c] /\ e.route[c] = d.route[c]
  BY <1>1, <1>3, <1>5, <1>6, SMT DEF Params
<1> QED
  BY <1>3, <1>4, <1>5, <1>7, SMT

(***************************************************************************)
(* What a word does to each parameter                                      *)
(***************************************************************************)
IsVolume(m) == Is(m, 1, 8)
IsInput(m) == Is(m, 1, 9)
IsFade(m) == m.key = 1 /\ m.type \in {10, 11}
IsRate(m) == m.key \in 2..8 /\ m.type = 1
IsDelay(m) == Is(m, 11, 3)
IsHigh(m) == Is(m, 11, 4)
IsLow(m) == Is(m, 11, 5)
IsEq(m) == Is(m, 11, 8)
IsState(m) == m.key = 13
IsDiv(m) == m.key = 15

CutEffect(d, m, e) ==
  /\ e.HighCutFreq = IF Taken(d, m) /\ IsHigh(m)
                     THEN [d.HighCutFreq EXCEPT ![m.param1] = Para23(m)]
                     ELSE d.HighCutFreq
  /\ e.LowCutFreq = IF Taken(d, m) /\ IsLow(m)
                    THEN [d.LowCutFreq EXCEPT ![m.param1] = Para23(m)]
                    ELSE d.LowCutFreq

EqEffect(d, m, e) ==
  e.EQBandGain = IF Taken(d, m) /\ IsEq(m)
                 THEN IF m.param2 = 0 /\ m.param3 = 0
                      THEN [d.EQBandGain EXCEPT ![m.param1] = [b \in Bands |-> 0]]
                      ELSE [d.EQBandGain EXCEPT ![m.param1][m.param2] = Tenth(Signed(m.param3))]
                 ELSE d.EQBandGain

DelayOf(m) == m.param2 * 100 + m.param3

DelayEffect(d, m, e) ==
  /\ e.Delay = IF Taken(d, m) /\ IsDelay(m)
               THEN [d.Delay EXCEPT ![m.param1] = DelayOf(m)]
               ELSE d.Delay
  /\ e.samples = IF Taken(d, m) /\ IsDelay(m)
                 THEN LET val == Samples(d.SamplingRate[d.InputXtype], DelayOf(m))
                      IN [d.samples EXCEPT ![m.param1] = IF val > LIMIT THEN @ ELSE val]
                 ELSE d.samples

FadeEffect(d, m, e) ==
  e.FadeTime = IF Taken(d, m) /\ IsFade(m)
               THEN [d.FadeTime EXCEPT ![m.type] =
                       [time |-> m.param1, rate |-> d.SamplingRate[d.InputXtype]]]
               ELSE d.FadeTime

RateEffect(d, m, e) ==
  e.SamplingRate = IF Taken(d, m) /\ IsRate(m)
                   THEN [d.SamplingRate EXCEPT ![m.key - 1] = Rate(m.param1)]
                   ELSE d.SamplingRate

TypeEffect(d, m, e) ==
  /\ e.SystemState = IF Taken(d, m) /\ IsState(m) THEN m.param1 ELSE d.SystemState
  /\ e.InputXtype = IF Taken(d, m) /\ IsInput(m) THEN m.param1
                    ELSE IF Taken(d, m) /\ IsState(m)
                    THEN IF m.param1 = ALIGNMENT THEN TEST ELSE d.LastInputXtype
                    ELSE d.InputXtype
  /\ e.LastInputXtype = IF Taken(d, m) /\ IsInput(m) THEN m.param1
                        ELSE IF Taken(d, m) /\ IsState(m) /\ m.param1 = ALIGNMENT
                        THEN d.InputXtype
                        ELSE d.LastInputXtype

VolumeEffect(d, m, e) ==
  /\ e.count = IF Taken(d, m) /\ IsVolume(m) THEN m.param2 ELSE d.count
  /\ e.knobvolume = IF Taken(d, m) /\ IsVolume(m) THEN m.param2 ELSE d.knobvolume
  /\ e.gain = IF Taken(d, m) /\ IsVolume(m) THEN m.param2 - 90 ELSE d.gain

DivEffect(d, m, e) ==
  /\ Taken(d, m) /\ IsDiv(m) => e = FreqDiv_Set(d, m)
  /\ ~(Taken(d, m) /\ IsDiv(m)) => e.FreqDivVal = d.FreqDivVal /\ e.route = d.route

Effect(d, m, e) ==
  /\ DOMAIN e = Fields
  /\ CutEffect(d, m, e) /\ EqEffect(d, m, e) /\ DelayEffect(d, m, e) /\ FadeEffect(d, m, e)
  /\ RateEffect(d, m, e) /\ TypeEffect(d, m, e) /\ VolumeEffect(d, m, e) /\ DivEffect(d, m, e)

\* A word that is taken is of one of the kinds, or sets the playback.
LEMMA Kinds ==
  ASSUME NEW d, NEW m \in Msg, Taken(d, m)
  PROVE  \/ IsVolume(m) \/ IsInput(m) \/ IsFade(m) \/ IsRate(m) \/ IsDelay(m) \/ IsHigh(m)
         \/ IsLow(m) \/ IsEq(m) \/ IsState(m) \/ IsDiv(m)
         \/ m.key \in 2..8 /\ m.type = 6
<1>1. CASE IsCut(m)
  BY <1>1, SMT DEF IsCut, IsHigh, IsLow, Is
<1>2. CASE ~IsCut(m)
  <2>1. Fixed(m)
    BY <1>2, TakenIs
  <2> QED
    BY <2>1, SMT DEF Fixed, IsVolume, IsInput, IsFade, IsRate, IsDelay, IsEq, IsState, IsDiv, Is
<1> QED
  BY <1>1, <1>2

\* Decode does to each parameter what the decoder of the word's kind does.
LEMMA Effects ==
  ASSUME NEW d, DOMAIN d = Fields, NEW m \in Msg, NEW e, e = Decode(d, m)
  PROVE  Effect(d, m, e)
<1>0. m.key \in 0..15 /\ m.type \in 0..31
  BY MsgFields
<1>1. CASE ~Taken(d, m)
  <2>1. e = d
    BY <1>1, DecodeIs
  <2> QED
    BY <1>1, <2>1 DEF Effect, CutEffect, EqEffect, DelayEffect, FadeEffect, RateEffect, TypeEffect,
                VolumeEffect, DivEffect
<1> USE DEF Effect, CutEffect, EqEffect, DelayEffect, FadeEffect, RateEffect, TypeEffect,
            VolumeEffect, DivEffect, IsVolume, IsInput, IsFade, IsRate, IsDelay, IsHigh, IsLow,
            IsEq, IsState, IsDiv, Is
<1>2. CASE Taken(d, m) /\ IsVolume(m)
  <2>1. e = KnobVolume_Set(d, m.param2)
    BY <1>2, DecodeIs
  <2>2. /\ Sets(d, e, {"count", "knobvolume", "gain"})
        /\ e.count = m.param2 /\ e.knobvolume = m.param2 /\ e.gain = m.param2 - 90
    BY <2>1, KnobSets
  <2> QED
    BY <1>0, <1>2, <2>2, SMT DEF Sets
<1>3. CASE Taken(d, m) /\ IsInput(m)
  <2>1. e = InputXtype_Set(d, m)
    BY <1>3, DecodeIs
  <2>2. /\ Sets(d, e, {"InputXtype", "LastInputXtype"})
        /\ e.InputXtype = m.param1 /\ e.LastInputXtype = m.param1
    BY <2>1, InputSets
  <2> QED
    BY <1>0, <1>3, <2>2, SMT DEF Sets
<1>4. CASE Taken(d, m) /\ IsFade(m)
  <2>1. e = FadeTime_Set(d, m)
    BY <1>4, DecodeIs
  <2>2. /\ Sets(d, e, {"FadeTime"})
        /\ e.FadeTime = [d.FadeTime EXCEPT ![m.type] =
             [time |-> m.param1, rate |-> d.SamplingRate[d.InputXtype]]]
    BY <2>1, FadeSets
  <2> QED
    BY <1>0, <1>4, <2>2, SMT DEF Sets
<1>5. CASE Taken(d, m) /\ IsRate(m)
  <2>1. e = Input_SamplingRate_Set(d, m)
    BY <1>5, DecodeIs
  <2>2. /\ Sets(d, e, {"SamplingRate"})
        /\ e.SamplingRate = [d.SamplingRate EXCEPT ![m.key - 1] = Rate(m.param1)]
    BY <2>1, RateSets
  <2> QED
    BY <1>0, <1>5, <2>2, SMT DEF Sets
<1>6. CASE Taken(d, m) /\ m.key \in 2..8 /\ m.type = 6
  <2>1. e = Input_PlaybackSF_Set(d, m)
    BY <1>6, DecodeIs
  <2>2. Sets(d, e, {"PlaybackSF"})
    BY <2>1, PlaybackSets
  <2> QED
    BY <1>0, <1>6, <2>2, SMT DEF Sets
<1>7. CASE Taken(d, m) /\ IsDelay(m)
  <2>1. e = Output_TimeDelay_Set(d, m)
    BY <1>7, DecodeIs
  <2>2. /\ Sets(d, e, {"Delay", "samples"})
        /\ e.Delay = [d.Delay EXCEPT ![m.param1] = DelayOf(m)]
        /\ e.samples = LET val == Samples(d.SamplingRate[d.InputXtype], DelayOf(m))
                       IN [d.samples EXCEPT ![m.param1] = IF val > LIMIT THEN @ ELSE val]
    BY <2>1, DelaySets DEF DelayOf
  <2> QED
    BY <1>0, <1>7, <2>2, SMT DEF Sets
<1>8. CASE Taken(d, m) /\ IsHigh(m)
  <2>1. e = Output_HighCutFreq_Set(d, m)
    BY <1>8, DecodeIs
  <2>2. /\ Sets(d, e, {"HighCutFreq"})
        /\ e.HighCutFreq = [d.HighCutFreq EXCEPT ![m.param1] = Para23(m)]
    BY <2>1, HighSets
  <2> QED
    BY <1>0, <1>8, <2>2, SMT DEF Sets
<1>9. CASE Taken(d, m) /\ IsLow(m)
  <2>1. e = Output_LowCutFreq_Set(d, m)
    BY <1>9, DecodeIs
  <2>2. /\ Sets(d, e, {"LowCutFreq"})
        /\ e.LowCutFreq = [d.LowCutFreq EXCEPT ![m.param1] = Para23(m)]
    BY <2>1, LowSets
  <2> QED
    BY <1>0, <1>9, <2>2, SMT DEF Sets
<1>10. CASE Taken(d, m) /\ IsEq(m)
  <2>1. e = Output_EQBandGain_Set(d, m)
    BY <1>10, DecodeIs
  <2>2. /\ Sets(d, e, {"EQBandGain"})
        /\ m.param2 = 0 /\ m.param3 = 0 =>
             e.EQBandGain = [d.EQBandGain EXCEPT ![m.param1] = [b \in Bands |-> 0]]
        /\ ~(m.param2 = 0 /\ m.param3 = 0) =>
             e.EQBandGain = [d.EQBandGain EXCEPT ![m.param1][m.param2] = Tenth(Signed(m.param3))]
    BY <2>1, EqSets
  <2> QED
    BY <1>0, <1>10, <2>2, SMT DEF Sets
<1>11. CASE Taken(d, m) /\ IsState(m)
  <2>1. e = SystemState_Set(d, m)
    BY <1>11, DecodeIs
  <2>2. /\ Sets(d, e, {"SystemState", "InputXtype", "LastInputXtype"})
        /\ e.SystemState = m.param1
        /\ e.InputXtype = IF m.param1 = ALIGNMENT THEN TEST ELSE d.LastInputXtype
        /\ e.LastInputXtype = IF m.param1 = ALIGNMENT THEN d.InputXtype ELSE d.LastInputXtype
    BY <2>1, StateSets
  <2> QED
    BY <1>0, <1>11, <2>2, SMT DEF Sets
<1>12. CASE Taken(d, m) /\ IsDiv(m)
  <2>1. e = FreqDiv_Set(d, m)
    BY <1>12, DecodeIs
  <2>2. Sets(d, e, {"FreqDivVal", "route"})
    BY <2>1, DivSets
  <2> QED
    BY <1>0, <1>12, <2>1, <2>2, SMT DEF Sets
<1> HIDE DEF Effect, CutEffect, EqEffect, DelayEffect, FadeEffect, RateEffect, TypeEffect,
             VolumeEffect, DivEffect, IsVolume, IsInput, IsFade, IsRate, IsDelay, IsHigh, IsLow,
             IsEq, IsState, IsDiv, Is
<1> QED
  BY <1>1, <1>2, <1>3, <1>4, <1>5, <1>6, <1>7, <1>8, <1>9, <1>10, <1>11, <1>12, Kinds

\* A low cut is never above the high cut of its channel.
CutOrder(d) == \A c \in Channels : d.LowCutFreq[c] <= d.HighCutFreq[c]

\* What the tests of a word that is taken say about its parameters.
LEMMA TakenFacts ==
  ASSUME NEW d, NEW m \in Word, Taken(d, m)
  PROVE  /\ IsVolume(m) => m.param2 \in 0..96
         /\ IsInput(m) => m.param1 \in 1..7
         /\ IsState(m) => m.param1 \in 1..3
         /\ IsDelay(m) \/ IsHigh(m) \/ IsLow(m) \/ IsEq(m) => m.param1 \in Channels
         /\ IsHigh(m) => Para23(m) \in Freqs /\ d.LowCutFreq[m.param1] <= Para23(m)
         /\ IsLow(m) => Para23(m) \in Freqs /\ Para23(m) <= d.HighCutFreq[m.param1]
         /\ IsEq(m) /\ ~(m.param2 = 0 /\ m.param3 = 0) => m.param2 \in Bands
         /\ IsDiv(m) => m.type \in Channels /\ m.param1 \in 1..6
<1>0. m \in Msg
  BY DEF Word
<1>1. m.param2 \in 0..255
  BY <1>0, MsgFields
<1>2. IsCut(m) => CutTaken(d, m)
  BY <1>0, TakenIs
<1>3. ~IsCut(m) => Fixed(m)
  BY <1>0, TakenIs
<1>4. /\ IsVolume(m) => m.param2 \in 0..96
      /\ IsInput(m) => m.param1 \in 1..7
      /\ IsState(m) => m.param1 \in 1..3
  BY <1>1, <1>3, SMT DEF Fixed, IsCut, Is, IsVolume, IsInput, IsState
<1>5. /\ IsDelay(m) \/ IsHigh(m) \/ IsLow(m) \/ IsEq(m) => m.param1 \in Channels
      /\ IsEq(m) /\ ~(m.param2 = 0 /\ m.param3 = 0) => m.param2 \in Bands
      /\ IsDiv(m) => m.type \in Channels /\ m.param1 \in 1..6
  BY SMT DEF Word, Is, IsDelay, IsHigh, IsLow, IsEq, IsDiv
<1>6. CASE IsHigh(m) \/ IsLow(m)
  <2>1. CutTaken(d, m)
    BY <1>2, <1>6, SMT DEF IsHigh, IsLow, IsCut, Is
  <2>2. /\ Para23(m) \in Freqs
        /\ IsHigh(m) => d.LowCutFreq[m.param1] <= Para23(m)
        /\ IsLow(m) => d.HighCutFreq[m.param1] >= Para23(m)
    BY <2>1, SMT DEF CutTaken, Freqs, IsHigh, IsLow, Is
  <2>3. IsLow(m) => Para23(m) <= d.HighCutFreq[m.param1]
    BY <2>2, SMT
  <2> QED
    BY <1>4, <1>5, <2>2, <2>3
<1> QED
  BY <1>4, <1>5, <1>6

\* The decoders keep the types and the order of the cuts.
LEMMA DecodeTypes ==
  ASSUME NEW d, Params(d), CutOrder(d), NEW m \in Word, NEW e, e = Decode(d, m)
  PROVE  Params(e) /\ CutOrder(e)
<1>0. m \in Msg /\ DOMAIN d = Fields
  BY DEF Word, Params
<1>1. Effect(d, m, e)
  BY <1>0, Effects
<1>2. /\ CutEffect(d, m, e) /\ EqEffect(d, m, e) /\ DelayEffect(d, m, e) /\ FadeEffect(d, m, e)
      /\ RateEffect(d, m, e) /\ TypeEffect(d, m, e) /\ VolumeEffect(d, m, e)
      /\ DivEffect(d, m, e)
  BY <1>1 DEF Effect
<1>3. /\ e.HighCutFreq \in [Channels -> Freqs] /\ e.LowCutFreq \in [Channels -> Freqs]
      /\ CutOrder(e)
  <2>0. d.HighCutFreq \in [Channels -> Freqs] /\ d.LowCutFreq \in [Channels -> Freqs]
    BY DEF Params
  <2>1. CASE Taken(d, m) /\ IsHigh(m)
    <3>1. PICK f \in Freqs : f = Para23(m) /\ d.LowCutFreq[m.param1] <= f
      BY <2>1, TakenFacts
    <3>2. m.param1 \in Channels
      BY <2>1, TakenFacts
    <3>3. e.HighCutFreq = [d.HighCutFreq EXCEPT ![m.param1] = f] /\ e.LowCutFreq = d.LowCutFreq
      BY <1>2, <2>1, <3>1, SMT DEF CutEffect, IsHigh, IsLow, Is
    <3> QED
      BY <2>0, <3>1, <3>2, <3>3, SMT DEF CutOrder
  <2>2. CASE Taken(d, m) /\ IsLow(m)
    <3>1. PICK f \in Freqs : f = Para23(m) /\ f <= d.HighCutFreq[m.param1]
      BY <2>2, TakenFacts
    <3>2. m.param1 \in Channels
      BY <2>2, TakenFacts
    <3>3. e.LowCutFreq = [d.LowCutFreq EXCEPT ![m.param1] = f] /\ e.HighCutFreq = d.HighCutFreq
      BY <1>2, <2>2, <3>1, SMT DEF CutEffect, IsHigh, IsLow, Is
    <3> QED
      BY <2>0, <3>1, <3>2, <3>3, SMT DEF CutOrder
  <2>3. CASE ~(Taken(d, m) /\ (IsHigh(m) \/ IsLow(m)))
    BY <1>2, <2>0, <2>3, SMT DEF CutEffect, CutOrder
  <2> QED
    BY <2>1, <2>2, <2>3
<1>4. e.EQBandGain \in [Channels -> Gains]
  <2>0. d.EQBandGain \in [Channels -> Gains]
    BY DEF Params
  <2>1. CASE Taken(d, m) /\ IsEq(m) /\ m.param2 = 0 /\ m.param3 = 0
    <3>1. m.param1 \in Channels
      BY <2>1, TakenFacts
    <3>2. e.EQBandGain = [d.EQBandGain EXCEPT ![m.param1] = [b \in Bands |-> 0]]
      BY <1>2, <2>1, SMT DEF EqEffect
    <3>3. [b \in Bands |-> 0] \in Gains
      BY SMT DEF Gains
    <3> QED
      BY <2>0, <3>1, <3>2, <3>3
  <2>2. CASE Taken(d, m) /\ IsEq(m) /\ ~(m.param2 = 0 /\ m.param3 = 0)
    <3>1. m.param1 \in Channels /\ m.param2 \in Bands
      BY <2>2, TakenFacts
    <3>2. PICK g \in Int : g = Tenth(Signed(m.param3))
      BY <1>0, Values
    <3>3. e.EQBandGain = [d.EQBandGain EXCEPT ![m.param1][m.param2] = g]
      BY <1>2, <2>2, <3>2, SMT DEF EqEffect
    <3>4. [d.EQBandGain[m.param1] EXCEPT ![m.param2] = g] \in Gains
      BY <2>0, <3>1, SMT DEF Gains
    <3> QED
      BY <2>0, <3>1, <3>3, <3>4, SMT
  <2>3. CASE ~(Taken(d, m) /\ IsEq(m))
    BY <1>2, <2>0, <2>3, SMT DEF EqEffect
  <2> QED
    BY <2>1, <2>2, <2>3
<1>5. d.SamplingRate[d.InputXtype] \in Rates
  BY SMT DEF Params
<1>6. e.Delay \in [Channels -> Nat] /\ e.samples \in [Channels -> 0..LIMIT]
  <2>0. d.Delay \in [Channels -> Nat] /\ d.samples \in [Channels -> 0..LIMIT]
    BY DEF Params
  <2>1. CASE Taken(d, m) /\ IsDelay(m)
    <3>1. PICK delay \in Nat : delay = DelayOf(m)
      BY <1>0, Values DEF DelayOf
    <3>2. PICK val \in Nat : val = Samples(d.SamplingRate[d.InputXtype], delay)
      BY <1>5, SamplesNat
    <3>3. m.param1 \in Channels
      BY <2>1, TakenFacts
    <3>4. e.Delay = [d.Delay EXCEPT ![m.param1] = delay]
      BY <1>2, <2>1, <3>1, SMT DEF DelayEffect
    <3>5. PICK n \in 0..LIMIT : n = IF val > LIMIT THEN d.samples[m.param1] ELSE val
      <4>1. d.samples[m.param1] \in 0..LIMIT
        BY <2>0, <3>3
      <4>2. val <= LIMIT => val \in 0..LIMIT
        BY SMT DEF LIMIT, DelayBufSIZE, FFTSIZE
      <4>3. val > LIMIT \/ val <= LIMIT
        BY SMT DEF LIMIT, DelayBufSIZE, FFTSIZE
      <4> QED
        BY <4>1, <4>2, <4>3
    <3>6. e.samples = [d.samples EXCEPT ![m.param1] = n]
      BY <1>2, <2>0, <2>1, <3>1, <3>2, <3>3, <3>5, SMT DEF DelayEffect
    <3> QED
      BY <2>0, <3>3, <3>4, <3>6
  <2>2. CASE ~(Taken(d, m) /\ IsDelay(m))
    BY <1>2, <2>0, <2>2, SMT DEF DelayEffect
  <2> QED
    BY <2>1, <2>2
<1>7. e.FadeTime \in [{10, 11} -> Fade]
  <2>0. d.FadeTime \in [{10, 11} -> Fade]
    BY DEF Params
  <2>1. CASE Taken(d, m) /\ IsFade(m)
    <3>1. m.param1 \in Nat
      BY <1>0, MsgFields
    <3>2. PICK v \in Fade : v = [time |-> m.param1, rate |-> d.SamplingRate[d.InputXtype]]
      <4>1. d.SamplingRate[d.InputXtype] \in Nat
        BY <1>5, SMT DEF Rates
      <4>2. [time |-> m.param1, rate |-> d.SamplingRate[d.InputXtype]] \in Fade
        BY <3>1, <4>1 DEF Fade
      <4> QED
        BY <4>2
    <3>3. e.FadeTime = [d.FadeTime EXCEPT ![m.type] = v]
      BY <1>2, <2>1, <3>2, SMT DEF FadeEffect
    <3> QED
      BY <2>0, <3>3
  <2>2. CASE ~(Taken(d, m) /\ IsFade(m))
    BY <1>2, <2>0, <2>2, SMT DEF FadeEffect
  <2> QED
    BY <2>1, <2>2
<1>8. e.SamplingRate \in [0..7 -> Rates]
  <2>0. d.SamplingRate \in [0..7 -> Rates]
    BY DEF Params
  <2>1. CASE Taken(d, m) /\ IsRate(m)
    <3>1. PICK v \in Rates : v = Rate(m.param1)
      BY <1>0, Values
    <3>2. PICK i \in 0..7 : i = m.key - 1
      BY <2>1, SMT DEF IsRate
    <3>3. e.SamplingRate = [d.SamplingRate EXCEPT ![i] = v]
      BY <1>2, <2>1, <3>1, <3>2, SMT DEF RateEffect
    <3> QED
      BY <2>0, <3>3, SMT
  <2>2. CASE ~(Taken(d, m) /\ IsRate(m))
    BY <1>2, <2>0, <2>2, SMT DEF RateEffect
  <2> QED
    BY <2>1, <2>2
<1>9. e.InputXtype \in 0..7 /\ e.LastInputXtype \in 0..7 /\ e.SystemState \in 1..3
  <2>1. d.InputXtype \in 0..7 /\ d.LastInputXtype \in 0..7 /\ d.SystemState \in 1..3
    BY DEF Params
  <2>2. Taken(d, m) => /\ IsInput(m) => m.param1 \in 1..7
                       /\ IsState(m) => m.param1 \in 1..3
    BY TakenFacts
  <2> QED
    BY <1>2, <2>1, <2>2, SMT DEF TypeEffect, TEST
<1>10. e.count \in 0..96 /\ e.knobvolume \in 0..96 /\ e.gain \in -96..6
  <2>1. d.count \in 0..96 /\ d.knobvolume \in 0..96 /\ d.gain \in -96..6
    BY DEF Params
  <2>2. Taken(d, m) /\ IsVolume(m) => m.param2 \in 0..96
    BY TakenFacts
  <2> QED
    BY <1>2, <2>1, <2>2, SMT DEF VolumeEffect
<1>11. e.FreqDivVal \in [Channels -> Division] /\ e.route \in [Channels -> Outputs]
  <2>1. CASE Taken(d, m) /\ IsDiv(m)
    <3>1. m.key = 15 /\ e = FreqDiv_Set(d, m)
      BY <1>2, <2>1 DEF DivEffect, IsDiv
    <3> QED
      BY <3>1, DivFacts
  <2>2. CASE ~(Taken(d, m) /\ IsDiv(m))
    BY <1>2, <2>2, SMT DEF DivEffect, Params
  <2> QED
    BY <2>1, <2>2
<1>12. DOMAIN e = Fields
  BY <1>1 DEF Effect
<1> QED
  BY <1>3, <1>4, <1>6, <1>7, <1>8, <1>9, <1>10, <1>11, <1>12 DEF Params

(***************************************************************************)
(* Slots: the words that set one parameter share a slot of a table         *)
(***************************************************************************)
\* The words of a slot.
IsSlot(S) ==
  /\ S \subseteq Word
  /\ \A v \in S : /\ Recorded(v)
                  /\ \A w \in Word : Recorded(w) => (w \in S <=> SameSlot(v, w))

HighWords(c) == {w \in Word : IsHigh(w) /\ w.param1 = c}
LowWords(c) == {w \in Word : IsLow(w) /\ w.param1 = c}
DelayWords(c) == {w \in Word : IsDelay(w) /\ w.param1 = c}
EqWords(c, b) == {w \in Word : IsEq(w) /\ w.param1 = c /\ w.param2 = b}
RateWords(k) == {w \in Word : Is(w, k, 1)}
FadeWords(t) == {w \in Word : Is(w, 1, t)}
InputWords == {w \in Word : IsInput(w)}
DivWords(c, p) == {w \in Word : Is1(w, 15, c, p)}

\* The positions of the values of these words.
LEMMA Indices ==
  /\ \A t \in {3, 4, 5} : get_cmd_index(11, t) = 1
  /\ get_cmd_index(11, 8) = 2
  /\ \A t \in {9, 10, 11} : get_cmd_index(1, t) = 0
  /\ get_cmd_index(1, 8) = 1
  /\ \A k \in 2..8 : get_cmd_index(k, 1) = 0
  /\ \A t \in 1..14 : get_cmd_index(15, t) = 1
  /\ \A t \in 0..31 : get_cmd_index(13, t) = 3
BY SMT DEF get_cmd_index, CMD_GROUP_GENERAL, CMD_GROUP_INPUTS, CMD_GROUP_OUTPUT, CMD_GROUP_FERQ,
           CMD_DATA_INDEX_INVALID

\* A word with a valid position is recorded.
LEMMA IndexRecorded ==
  ASSUME NEW m \in Msg, m.key \in TableKeys, get_cmd_index(m.key, m.type) \in 0..2
  PROVE  Recorded(m)
<1>1. PICK k \in 0..15, t \in 0..31, p \in 0..31, q \in 0..255 :
        m.key = k /\ m.type = t /\ m.param1 = p /\ m.param2 = q
  BY DEF Msg, Byte
<1>2. PICK ix \in 0..2 : ix = get_cmd_index(m.key, m.type)
  OBVIOUS
<1>3. k \in 1..15
  BY <1>1, SMT DEF TableKeys, CMD_GROUP_GENERAL, CMD_GROUP_INPUTS, CMD_GROUP_OUTPUT, CMD_GROUP_OTHER,
                   CMD_GROUP_SOUND, CMD_GROUP_FERQ
<1>4. get_cmd_id(m) >= 0
  BY <1>1, <1>2, SMT DEF get_cmd_id, CMD_DATA_INDEX_INVALID
<1> QED
  BY <1>1, <1>3, <1>4 DEF Recorded, KeyValid

\* The words of each of these kinds are recorded; those of group 13 are not.
LEMMA KindRecorded ==
  ASSUME NEW m \in Word
  PROVE  /\ IsVolume(m) \/ IsInput(m) \/ IsFade(m) \/ IsRate(m) \/ IsDelay(m) \/ IsHigh(m)
              \/ IsLow(m) \/ IsEq(m) \/ IsDiv(m) => Recorded(m)
         /\ IsState(m) => ~Recorded(m)
<1>0. m \in Msg /\ m.type \in 0..31
  BY MsgFields DEF Word
<1>1. ASSUME IsVolume(m) \/ IsInput(m) \/ IsFade(m) \/ IsRate(m) \/ IsDelay(m) \/ IsHigh(m)
              \/ IsLow(m) \/ IsEq(m) \/ IsDiv(m)
      PROVE  Recorded(m)
  <2>1. m.key \in TableKeys
    BY <1>1, SMT DEF IsVolume, IsInput, IsFade, IsRate, IsDelay, IsHigh, IsLow, IsEq, IsDiv, Is, TableKeys,
                     CMD_GROUP_GENERAL, CMD_GROUP_INPUTS, CMD_GROUP_OUTPUT, CMD_GROUP_FERQ
  <2>2. m.key = 15 => m.type \in 1..14
    BY ParamAssumption DEF Word
  <2>3. get_cmd_index(m.key, m.type) \in 0..2
    BY <1>1, <2>2, Indices, SMT DEF IsVolume, IsInput, IsFade, IsRate, IsDelay, IsHigh, IsLow, IsEq,
                                     IsDiv, Is
  <2> QED
    BY <1>0, <2>1, <2>3, IndexRecorded
<1>2. IsState(m) => ~Recorded(m)
  BY <1>0, Indices, SMT DEF IsState, Recorded, get_cmd_id, CMD_DATA_INDEX_INVALID
<1> QED
  BY <1>1, <1>2

\* The words that set a parameter are those of a slot.
LEMMA Slots ==
  /\ \A c : IsSlot(HighWords(c)) /\ IsSlot(LowWords(c)) /\ IsSlot(DelayWords(c))
  /\ \A c, b : IsSlot(EqWords(c, b)) 
  /\ \A k \in 2..8 : IsSlot(RateWords(k))
  /\ \A t \in {10, 11} : IsSlot(FadeWords(t))
  /\ IsSlot(InputWords)
  /\ \A c, p : IsSlot(DivWords(c, p))
<1>1. \A c : IsSlot(HighWords(c)) /\ IsSlot(LowWords(c)) /\ IsSlot(DelayWords(c))
  <2> TAKE c
  <2>1. IsSlot(HighWords(c))
    BY Indices, KindRecorded, SMT DEF IsSlot, HighWords, SameSlot, IsHigh, Is
  <2>2. IsSlot(LowWords(c))
    BY Indices, KindRecorded, SMT DEF IsSlot, LowWords, SameSlot, IsLow, Is
  <2>3. IsSlot(DelayWords(c))
    BY Indices, KindRecorded, SMT DEF IsSlot, DelayWords, SameSlot, IsDelay, Is
  <2> QED
    BY <2>1, <2>2, <2>3
<1>2. \A c, b : IsSlot(EqWords(c, b))
  BY Indices, KindRecorded, SMT DEF IsSlot, EqWords, SameSlot, IsEq, Is
<1>3. \A k \in 2..8 : IsSlot(RateWords(k))
  BY Indices, KindRecorded, SMT DEF IsSlot, RateWords, SameSlot, IsRate, Is
<1>4. \A t \in {10, 11} : IsSlot(FadeWords(t))
  BY Indices, KindRecorded, SMT DEF IsSlot, FadeWords, SameSlot, IsFade, Is
<1>5. IsSlot(InputWords)
  BY Indices, KindRecorded, SMT DEF IsSlot, InputWords, SameSlot, IsInput, Is
<1>6. \A c, p : IsSlot(DivWords(c, p))
  <2>1. \A w \in Word : IsDiv(w) => w.type \in 1..14
    BY ParamAssumption DEF Word, IsDiv
  <2> QED
    BY <2>1, Indices, KindRecorded, SMT DEF IsSlot, DivWords, SameSlot, IsDiv, Is, Is1
<1> QED
  BY <1>1, <1>2, <1>3, <1>4, <1>5, <1>6

(***************************************************************************)
(* A parameter agrees with the stored words                                *)
(***************************************************************************)
\* Recorded words, no two of a slot.
IsStore(W) ==
  /\ W \subseteq Word
  /\ \A w \in W : Recorded(w)
  /\ \A v, w \in W : get_cmd_id(v) = get_cmd_id(w) => v = w

\* The word m takes the place of the one in its slot.
Replaced(W, m) == {w \in W : get_cmd_id(w) # get_cmd_id(m)} \cup {m}

\* The parameter a has the value F[w] of the stored word w of its slot S unless
\* that was refused, and the value z if there is none.
Holds(W, r, S, F, a, z) ==
  /\ \A w \in W \cap S : get_cmd_id(w) \notin r => a = F[w]
  /\ W \cap S = {} => a = z

LEMMA ReplacedStore ==
  ASSUME NEW W, IsStore(W), NEW m \in Word, Recorded(m)
  PROVE  /\ IsStore(Replaced(W, m)) /\ m \in Replaced(W, m)
         /\ \A w \in Replaced(W, m) : w = m \/ (w \in W /\ get_cmd_id(w) # get_cmd_id(m))
         /\ \A w \in W : w \in Replaced(W, m) \/ SameSlot(w, m)
<1>1. \A w \in W : get_cmd_id(w) = get_cmd_id(m) => SameSlot(w, m)
  BY IdSlot DEF IsStore, Word
<1> QED
  BY <1>1 DEF IsStore, Replaced

\* A word changes the parameter of its slot, if it is taken, and no other.
LEMMA HoldsStep ==
  ASSUME NEW W, IsStore(W), NEW m \in Word, Recorded(m), NEW r, NEW t \in BOOLEAN, NEW q,
         q = IF t THEN r \ {get_cmd_id(m)} ELSE r \cup {get_cmd_id(m)},
         NEW S, IsSlot(S), NEW F, NEW a, NEW b, NEW z,
         m \notin S => Holds(W, r, S, F, a, z),
         m \in S /\ t => b = F[m],
         ~(m \in S /\ t) => b = a
  PROVE  Holds(Replaced(W, m), q, S, F, b, z)
<1> DEFINE V == Replaced(W, m)
<1>1. \A w \in V : w = m \/ (w \in W /\ get_cmd_id(w) # get_cmd_id(m))
  BY ReplacedStore
<1>2. m \in V
  BY ReplacedStore
<1>3. \A w \in W : w \in V \/ SameSlot(w, m)
  BY ReplacedStore
<1> HIDE DEF V
<1>4. CASE m \in S
  <2>1. \A w \in V \cap S : w = m
    <3> SUFFICES ASSUME NEW w \in V, w \in S, w # m PROVE FALSE
      OBVIOUS
    <3>1. w \in W /\ get_cmd_id(w) # get_cmd_id(m)
      BY <1>1
    <3>2. w \in Msg /\ m \in Msg /\ Recorded(w)
      BY <3>1 DEF IsStore, Word
    <3>3. SameSlot(w, m)
      BY <1>4 DEF IsSlot
    <3> QED
      BY <3>1, <3>2, <3>3, IdSlot
  <2>2. ~t => get_cmd_id(m) \in q
    OBVIOUS
  <2> QED
    BY <1>2, <1>4, <2>1, <2>2 DEF Holds, V
<1>5. CASE m \notin S
  <2>1. \A w \in V \cap S : w \in W \cap S /\ (get_cmd_id(w) \notin q => get_cmd_id(w) \notin r)
    BY <1>1, <1>5
  <2>2. V \cap S = {} => W \cap S = {}
    <3> SUFFICES ASSUME NEW w \in W \cap S, w \notin V PROVE FALSE
      OBVIOUS
    <3>1. SameSlot(w, m)
      BY <1>3
    <3> QED
      BY <1>5, <3>1 DEF IsSlot
  <2> QED
    BY <1>5, <2>1, <2>2 DEF Holds, V
<1> QED
  BY <1>4, <1>5

\* Two records of the same slot that agree with a word that neither refused are equal.
LEMMA HoldsSame ==
  ASSUME NEW W, NEW V, NEW r, NEW q, NEW S, NEW F, NEW a, NEW b, NEW z,
         Holds(W, r, S, F, a, z), Holds(V, q, S, F, b, z), W \cap S = V \cap S,
         \A w \in W \cap S : get_cmd_id(w) \notin r /\ get_cmd_id(w) \notin q
  PROVE  a = b
<1>1. CASE W \cap S = {}
  BY <1>1 DEF Holds
<1>2. CASE W \cap S # {}
  BY <1>2 DEF Holds
<1> QED
  BY <1>1, <1>2

(***************************************************************************)
(* The parameters agree with the stored words                              *)
(***************************************************************************)
FreqOf == [w \in Word |-> Para23(w)]
GainOf == [w \in Word |-> Tenth(Signed(w.param3))]
Hundredths == [w \in Word |-> DelayOf(w)]
RateOf == [w \in Word |-> Rate(w.param1)]
FirstOf == [w \in Word |-> w.param1]

\* A word other than a cut is refused when its own fields are out of range; a
\* cut, when its op is not 0.
Noted(r, W) ==
  \A w \in W : /\ ~IsCut(w) => (get_cmd_id(w) \in r <=> ~Fixed(w))
               /\ IsCut(w) /\ get_cmd_id(w) \notin r => w.op = 0

CutsHold(d, r, W) ==
  \A c \in Channels :
    /\ Holds(W, r, HighWords(c), FreqOf, d.HighCutFreq[c], Default.HighCutFreq[c])
    /\ Holds(W, r, LowWords(c), FreqOf, d.LowCutFreq[c], Default.LowCutFreq[c])

\* No word that clears all bands is stored.
NoClear(W, c) == \A w \in W : ~(IsEq(w) /\ w.param1 = c /\ w.param2 = 0)

EqHolds(d, r, W) ==
  \A c \in Channels : NoClear(W, c) =>
    \A b \in Bands : Holds(W, r, EqWords(c, b), GainOf, d.EQBandGain[c][b], 0)

DelayHolds(d, r, W) ==
  \A c \in Channels : Holds(W, r, DelayWords(c), Hundredths, d.Delay[c], 0)

RateHolds(d, r, W) ==
  \A k \in 2..8 :
    Holds(W, r, RateWords(k), RateOf, d.SamplingRate[k - 1], Default.SamplingRate[k - 1])

FadeHolds(d, r, W) ==
  \A t \in {10, 11} : Holds(W, r, FadeWords(t), FirstOf, d.FadeTime[t].time, 5)

NumberHolds(d, r, W) ==
  \A c \in Channels : Holds(W, r, DivWords(c, 1), FreqOf, d.FreqDivVal[c][1], 1)

\* An output of a band is the one of its word.
RoutesHold(d, W) ==
  \A c \in Channels, b \in 1..3 :
    d.route[c][b] # -1 => \E w \in W \cap DivWords(c, b + 3) : d.route[c][b] = Para23(w) - 1

\* The remembered input is the one of its word, and is in force unless an
\* alignment is; a: ALIGNMENT was entered from itself.
InputHolds(d, r, W, a) ==
  ~a => /\ Holds(W, r, InputWords, FirstOf, d.LastInputXtype, 0)
        /\ \/ d.InputXtype = d.LastInputXtype
           \/ d.SystemState = ALIGNMENT /\ d.InputXtype = TEST

Agree(d, r, W, a) ==
  /\ Noted(r, W) /\ CutsHold(d, r, W) /\ EqHolds(d, r, W) /\ DelayHolds(d, r, W)
  /\ RateHolds(d, r, W) /\ FadeHolds(d, r, W) /\ NumberHolds(d, r, W)
  /\ RoutesHold(d, W) /\ InputHolds(d, r, W, a)

\* Receive's history of alignments.
Realigned(a, d, m) ==
  CASE m.key = 13 /\ m.param1 = ALIGNMENT -> a \/ d.InputXtype = TEST
    [] m.key = 1 /\ m.type = 9 /\ Taken(d, m) -> FALSE
    [] OTHER -> a

LEMMA RealignedIs ==
  ASSUME NEW a \in BOOLEAN, NEW d, NEW m
  PROVE  /\ m.key = 13 /\ m.param1 = ALIGNMENT => (Realigned(a, d, m) <=> a \/ d.InputXtype = TEST)
         /\ IsInput(m) /\ Taken(d, m) => ~Realigned(a, d, m)
         /\ ~(m.key = 13 /\ m.param1 = ALIGNMENT) /\ ~(IsInput(m) /\ Taken(d, m)) =>
              (Realigned(a, d, m) <=> a)
         /\ Realigned(a, d, m) \in BOOLEAN
<1>1. CASE m.key = 13 /\ m.param1 = ALIGNMENT
  <2>1. ~(m.key = 1 /\ m.type = 9 /\ Taken(d, m))
    BY <1>1, SMT
  <2>2. Realigned(a, d, m) = (a \/ d.InputXtype = TEST)
    BY <1>1, <2>1, Zenon DEF Realigned
  <2> QED
    BY <1>1, <2>1, <2>2, Zenon DEF IsInput, Is
<1>2. CASE IsInput(m) /\ Taken(d, m)
  <2>1. ~(m.key = 13 /\ m.param1 = ALIGNMENT)
    BY <1>2, SMT DEF IsInput, Is
  <2>2. Realigned(a, d, m) = FALSE
    BY <1>2, <2>1, Zenon DEF Realigned, IsInput, Is
  <2> QED
    BY <1>2, <2>1, <2>2, Zenon
<1>3. CASE ~(m.key = 13 /\ m.param1 = ALIGNMENT) /\ ~(IsInput(m) /\ Taken(d, m))
  <2>1. Realigned(a, d, m) = a
    BY <1>3, Zenon DEF Realigned, IsInput, Is
  <2> QED
    BY <1>3, <2>1, Zenon
<1> QED
  BY <1>1, <1>2, <1>3

\* A recorded word that reaches the tables and the DSP.
Step(d, m, e, r, q, W, V) ==
  /\ Params(d) /\ IsStore(W) /\ m \in Word /\ Recorded(m)
  /\ e = Decode(d, m) /\ q = Note(r, d, m) /\ V = Replaced(W, m)

LEMMA StepFacts ==
  ASSUME NEW d, NEW m, NEW e, NEW r, NEW q, NEW W, NEW V, Step(d, m, e, r, q, W, V)
  PROVE  /\ m \in Word /\ m \in Msg /\ Recorded(m) /\ IsStore(W) /\ Params(d) /\ V = Replaced(W, m)
         /\ Effect(d, m, e)
         /\ \E t \in BOOLEAN : /\ t <=> Taken(d, m)
                               /\ q = IF t THEN r \ {get_cmd_id(m)} ELSE r \cup {get_cmd_id(m)}
<1>1. m \in Word /\ m \in Msg /\ Recorded(m) /\ IsStore(W) /\ Params(d) /\ V = Replaced(W, m)
  BY DEF Step, Word
<1>2. Effect(d, m, e)
  BY <1>1, Effects DEF Step, Params
<1>3. \E t \in BOOLEAN : /\ t <=> Taken(d, m)
                         /\ q = IF t THEN r \ {get_cmd_id(m)} ELSE r \cup {get_cmd_id(m)}
  <2>1. CASE Taken(d, m)
    <3> WITNESS TRUE \in BOOLEAN
    <3> QED
      BY <2>1 DEF Step, Note
  <2>2. CASE ~Taken(d, m)
    <3> WITNESS FALSE \in BOOLEAN
    <3> QED
      BY <2>2 DEF Step, Note
  <2> QED
    BY <2>1, <2>2
<1> QED
  BY <1>1, <1>2, <1>3

LEMMA NotedStep ==
  ASSUME NEW d, NEW m, NEW e, NEW r, NEW q, NEW W, NEW V, Step(d, m, e, r, q, W, V), Noted(r, W)
  PROVE  Noted(q, V)
<1>1. m \in Word /\ m \in Msg /\ Recorded(m) /\ IsStore(W) /\ V = Replaced(W, m)
  BY StepFacts
<1>2. \A w \in V : w = m \/ (w \in W /\ get_cmd_id(w) # get_cmd_id(m))
  BY <1>1, ReplacedStore
<1>3. q = Note(r, d, m)
  BY DEF Step
<1>4. ~IsCut(m) => (Taken(d, m) <=> Fixed(m))
  BY <1>1, TakenIs
<1>5. IsCut(m) /\ Taken(d, m) => m.op = 0
  BY SMT DEF Taken, IsCut
<1> QED
  BY <1>2, <1>3, <1>4, <1>5 DEF Noted, Note

LEMMA CutsStep ==
  ASSUME NEW d, NEW m, NEW e, NEW r, NEW q, NEW W, NEW V, Step(d, m, e, r, q, W, V),
         CutsHold(d, r, W)
  PROVE  CutsHold(e, q, V)
<1>1. m \in Word /\ Recorded(m) /\ IsStore(W) /\ V = Replaced(W, m) /\ Params(d) /\ Effect(d, m, e)
  BY StepFacts
<1>2. PICK t \in BOOLEAN : /\ t <=> Taken(d, m)
                           /\ q = IF t THEN r \ {get_cmd_id(m)} ELSE r \cup {get_cmd_id(m)}
  BY StepFacts
<1>3. d.HighCutFreq \in [Channels -> Freqs] /\ d.LowCutFreq \in [Channels -> Freqs]
  BY <1>1 DEF Params
<1>4. SUFFICES ASSUME NEW c \in Channels
      PROVE  /\ Holds(V, q, HighWords(c), FreqOf, e.HighCutFreq[c], Default.HighCutFreq[c])
             /\ Holds(V, q, LowWords(c), FreqOf, e.LowCutFreq[c], Default.LowCutFreq[c])
  BY DEF CutsHold
<1>5. IsSlot(HighWords(c)) /\ IsSlot(LowWords(c))
  BY Slots
<1>6. /\ m \in HighWords(c) /\ t => e.HighCutFreq[c] = FreqOf[m]
      /\ ~(m \in HighWords(c) /\ t) => e.HighCutFreq[c] = d.HighCutFreq[c]
  BY <1>1, <1>2, <1>3, SMT DEF Effect, CutEffect, HighWords, FreqOf
<1>7. /\ m \in LowWords(c) /\ t => e.LowCutFreq[c] = FreqOf[m]
      /\ ~(m \in LowWords(c) /\ t) => e.LowCutFreq[c] = d.LowCutFreq[c]
  BY <1>1, <1>2, <1>3, SMT DEF Effect, CutEffect, LowWords, FreqOf
<1>8. /\ Holds(W, r, HighWords(c), FreqOf, d.HighCutFreq[c], Default.HighCutFreq[c])
      /\ Holds(W, r, LowWords(c), FreqOf, d.LowCutFreq[c], Default.LowCutFreq[c])
  BY DEF CutsHold
<1>9. Holds(V, q, HighWords(c), FreqOf, e.HighCutFreq[c], Default.HighCutFreq[c])
  BY <1>1, <1>2, <1>5, <1>6, <1>8, HoldsStep
<1>10. Holds(V, q, LowWords(c), FreqOf, e.LowCutFreq[c], Default.LowCutFreq[c])
  BY <1>1, <1>2, <1>5, <1>7, <1>8, HoldsStep
<1> QED
  BY <1>9, <1>10

LEMMA DelayStep ==
  ASSUME NEW d, NEW m, NEW e, NEW r, NEW q, NEW W, NEW V, Step(d, m, e, r, q, W, V),
         DelayHolds(d, r, W)
  PROVE  DelayHolds(e, q, V)
<1>1. m \in Word /\ Recorded(m) /\ IsStore(W) /\ V = Replaced(W, m) /\ Params(d) /\ Effect(d, m, e)
  BY StepFacts
<1>2. PICK t \in BOOLEAN : /\ t <=> Taken(d, m)
                           /\ q = IF t THEN r \ {get_cmd_id(m)} ELSE r \cup {get_cmd_id(m)}
  BY StepFacts
<1>3. d.Delay \in [Channels -> Nat]
  BY <1>1 DEF Params
<1>4. SUFFICES ASSUME NEW c \in Channels
               PROVE  Holds(V, q, DelayWords(c), Hundredths, e.Delay[c], 0)
  BY DEF DelayHolds
<1>5. IsSlot(DelayWords(c)) /\ Holds(W, r, DelayWords(c), Hundredths, d.Delay[c], 0)
  BY Slots DEF DelayHolds
<1>6. /\ m \in DelayWords(c) /\ t => e.Delay[c] = Hundredths[m]
      /\ ~(m \in DelayWords(c) /\ t) => e.Delay[c] = d.Delay[c]
  BY <1>1, <1>2, <1>3, SMT DEF Effect, DelayEffect, DelayWords, Hundredths
<1> QED
  BY <1>1, <1>2, <1>5, <1>6, HoldsStep

LEMMA RateStep ==
  ASSUME NEW d, NEW m, NEW e, NEW r, NEW q, NEW W, NEW V, Step(d, m, e, r, q, W, V),
         RateHolds(d, r, W)
  PROVE  RateHolds(e, q, V)
<1>1. m \in Word /\ Recorded(m) /\ IsStore(W) /\ V = Replaced(W, m) /\ Params(d) /\ Effect(d, m, e)
  BY StepFacts
<1>2. PICK t \in BOOLEAN : /\ t <=> Taken(d, m)
                           /\ q = IF t THEN r \ {get_cmd_id(m)} ELSE r \cup {get_cmd_id(m)}
  BY StepFacts
<1>3. d.SamplingRate \in [0..7 -> Rates]
  BY <1>1 DEF Params
<1>4. SUFFICES ASSUME NEW k \in 2..8
               PROVE  Holds(V, q, RateWords(k), RateOf, e.SamplingRate[k - 1],
                            Default.SamplingRate[k - 1])
  BY DEF RateHolds
<1>5. /\ IsSlot(RateWords(k))
      /\ Holds(W, r, RateWords(k), RateOf, d.SamplingRate[k - 1], Default.SamplingRate[k - 1])
  BY Slots DEF RateHolds
<1>6. PICK i \in 0..7 : i = k - 1
  OBVIOUS
<1>7. /\ m \in RateWords(k) /\ t => e.SamplingRate[i] = RateOf[m]
      /\ ~(m \in RateWords(k) /\ t) => e.SamplingRate[i] = d.SamplingRate[i]
  <2>1. m.key \in 0..15
    BY <1>1, MsgFields DEF Word
  <2> QED
    BY <1>1, <1>2, <1>3, <1>6, <2>1, SMT DEF Effect, RateEffect, RateWords, RateOf, IsRate, Is
<1> QED
  BY <1>1, <1>2, <1>5, <1>6, <1>7, HoldsStep

LEMMA FadeStep ==
  ASSUME NEW d, NEW m, NEW e, NEW r, NEW q, NEW W, NEW V, Step(d, m, e, r, q, W, V),
         FadeHolds(d, r, W)
  PROVE  FadeHolds(e, q, V)
<1>1. m \in Word /\ Recorded(m) /\ IsStore(W) /\ V = Replaced(W, m) /\ Params(d) /\ Effect(d, m, e)
  BY StepFacts
<1>2. PICK t \in BOOLEAN : /\ t <=> Taken(d, m)
                           /\ q = IF t THEN r \ {get_cmd_id(m)} ELSE r \cup {get_cmd_id(m)}
  BY StepFacts
<1>3. d.FadeTime \in [{10, 11} -> Fade]
  BY <1>1 DEF Params
<1>4. SUFFICES ASSUME NEW u \in {10, 11}
               PROVE  Holds(V, q, FadeWords(u), FirstOf, e.FadeTime[u].time, 5)
  BY DEF FadeHolds
<1>5. IsSlot(FadeWords(u)) /\ Holds(W, r, FadeWords(u), FirstOf, d.FadeTime[u].time, 5)
  BY Slots DEF FadeHolds
<1>6. FadeEffect(d, m, e)
  BY <1>1 DEF Effect
<1>7. m \in FadeWords(u) /\ t => e.FadeTime[u].time = FirstOf[m]
  <2> SUFFICES ASSUME m \in FadeWords(u), t PROVE e.FadeTime[u].time = FirstOf[m]
    OBVIOUS
  <2>1. IsFade(m) /\ m.type = u
    BY DEF FadeWords, IsFade, Is
  <2>2. e.FadeTime = [d.FadeTime EXCEPT ![u] =
                       [time |-> m.param1, rate |-> d.SamplingRate[d.InputXtype]]]
    BY <1>2, <1>6, <2>1, SMT DEF FadeEffect
  <2>3. e.FadeTime[u] = [time |-> m.param1, rate |-> d.SamplingRate[d.InputXtype]]
    BY <1>3, <2>2
  <2> QED
    BY <1>1, <2>3 DEF FirstOf
<1>8. ~(m \in FadeWords(u) /\ t) => e.FadeTime[u] = d.FadeTime[u]
  BY <1>1, <1>2, <1>3, <1>6, SMT DEF FadeEffect, FadeWords, IsFade, Is
<1>9. ~(m \in FadeWords(u) /\ t) => e.FadeTime[u].time = d.FadeTime[u].time
  BY <1>8
<1> QED
  BY <1>1, <1>2, <1>5, <1>7, <1>9, HoldsStep

LEMMA EqStep ==
  ASSUME NEW d, NEW m, NEW e, NEW r, NEW q, NEW W, NEW V, Step(d, m, e, r, q, W, V),
         EqHolds(d, r, W)
  PROVE  EqHolds(e, q, V)
<1>1. m \in Word /\ Recorded(m) /\ IsStore(W) /\ V = Replaced(W, m) /\ Params(d) /\ Effect(d, m, e)
  BY StepFacts
<1>2. PICK t \in BOOLEAN : /\ t <=> Taken(d, m)
                           /\ q = IF t THEN r \ {get_cmd_id(m)} ELSE r \cup {get_cmd_id(m)}
  BY StepFacts
<1>3. d.EQBandGain \in [Channels -> Gains]
  BY <1>1 DEF Params
<1>4. SUFFICES ASSUME NEW c \in Channels, NoClear(V, c), NEW b \in Bands
               PROVE  Holds(V, q, EqWords(c, b), GainOf, e.EQBandGain[c][b], 0)
  BY DEF EqHolds
<1>5. /\ m \in V
      /\ \A w \in W : w \in V \/ SameSlot(w, m)
  BY <1>1, ReplacedStore
<1>6. NoClear(W, c)
  <2> SUFFICES ASSUME NEW w \in W, IsEq(w), w.param1 = c, w.param2 = 0 PROVE FALSE
    BY DEF NoClear
  <2>1. SameSlot(w, m)
    BY <1>4, <1>5 DEF NoClear
  <2>2. IsEq(m) /\ m.param1 = c /\ m.param2 = 0
    BY <2>1, Indices, SMT DEF SameSlot, IsEq, Is
  <2> QED
    BY <1>4, <1>5, <2>2 DEF NoClear
<1>7. IsSlot(EqWords(c, b)) /\ Holds(W, r, EqWords(c, b), GainOf, d.EQBandGain[c][b], 0)
  BY <1>6, Slots DEF EqHolds
<1>8. EqEffect(d, m, e)
  BY <1>1 DEF Effect
<1>9. ~(IsEq(m) /\ m.param1 = c /\ m.param2 = 0)
  BY <1>4, <1>5 DEF NoClear
<1>10. /\ m \in EqWords(c, b) /\ t => e.EQBandGain[c][b] = GainOf[m]
       /\ ~(m \in EqWords(c, b) /\ t) => e.EQBandGain[c][b] = d.EQBandGain[c][b]
  <2>1. CASE IsEq(m) /\ m.param1 = c /\ t
    <3>1. PICK g \in Int : g = Tenth(Signed(m.param3)) /\ GainOf[m] = g
      BY <1>1, Values DEF Word, GainOf
    <3>2. m.param2 \in Bands
      BY <1>1, <1>2, <1>9, <2>1, TakenFacts
    <3>3. e.EQBandGain = [d.EQBandGain EXCEPT ![c][m.param2] = g]
      BY <1>2, <1>8, <1>9, <2>1, <3>1, SMT DEF EqEffect
    <3>4. d.EQBandGain[c] \in [Bands -> Int]
      BY <1>3 DEF Gains
    <3>5. e.EQBandGain[c] = [d.EQBandGain[c] EXCEPT ![m.param2] = g]
      BY <1>3, <3>3
    <3>6. e.EQBandGain[c][b] = IF m.param2 = b THEN g ELSE d.EQBandGain[c][b]
      BY <3>4, <3>5
    <3> QED
      BY <1>1, <2>1, <3>1, <3>6 DEF EqWords
  <2>2. CASE ~(IsEq(m) /\ m.param1 = c /\ t)
    <3>1. m \notin EqWords(c, b) \/ ~t
      BY <2>2 DEF EqWords
    <3>2. IsEq(m) /\ t => m.param1 \in Channels /\ m.param1 # c
      BY <1>1, <1>2, <2>2, TakenFacts
    <3>3. e.EQBandGain[c] = d.EQBandGain[c]
      BY <1>2, <1>3, <1>8, <3>2, SMT DEF EqEffect
    <3> QED
      BY <3>1, <3>3
  <2> QED
    BY <2>1, <2>2
<1> QED
  BY <1>1, <1>2, <1>7, <1>10, HoldsStep

LEMMA NumberStep ==
  ASSUME NEW d, NEW m, NEW e, NEW r, NEW q, NEW W, NEW V, Step(d, m, e, r, q, W, V),
         NumberHolds(d, r, W)
  PROVE  NumberHolds(e, q, V)
<1>1. m \in Word /\ Recorded(m) /\ IsStore(W) /\ V = Replaced(W, m) /\ Params(d) /\ Effect(d, m, e)
  BY StepFacts
<1>2. PICK t \in BOOLEAN : /\ t <=> Taken(d, m)
                           /\ q = IF t THEN r \ {get_cmd_id(m)} ELSE r \cup {get_cmd_id(m)}
  BY StepFacts
<1>4. SUFFICES ASSUME NEW c \in Channels
               PROVE  Holds(V, q, DivWords(c, 1), FreqOf, e.FreqDivVal[c][1], 1)
  BY DEF NumberHolds
<1>5. IsSlot(DivWords(c, 1)) /\ Holds(W, r, DivWords(c, 1), FreqOf, d.FreqDivVal[c][1], 1)
  BY Slots DEF NumberHolds
<1>6. DivEffect(d, m, e)
  BY <1>1 DEF Effect
<1>7. /\ m \in DivWords(c, 1) /\ t => e.FreqDivVal[c][1] = FreqOf[m]
      /\ ~(m \in DivWords(c, 1) /\ t) => e.FreqDivVal[c][1] = d.FreqDivVal[c][1]
  <2>1. CASE t /\ m.key = 15
    <3>1. e = FreqDiv_Set(d, m)
      BY <1>2, <1>6, <2>1 DEF DivEffect, IsDiv
    <3>2. /\ c # m.type => e.FreqDivVal[c] = d.FreqDivVal[c]
          /\ e.FreqDivVal[m.type][1] =
               IF m.param1 = 1 THEN Para23(m) ELSE d.FreqDivVal[m.type][1]
      BY <1>1, <2>1, <3>1, DivFacts
    <3> QED
      BY <1>1, <2>1, <3>2 DEF DivWords, FreqOf, Is1, Is
  <2>2. CASE ~(t /\ m.key = 15)
    BY <1>2, <1>6, <2>2 DEF DivEffect, IsDiv, DivWords, Is1, Is
  <2> QED
    BY <2>1, <2>2
<1> QED
  BY <1>1, <1>2, <1>5, <1>7, HoldsStep

LEMMA RoutesStep ==
  ASSUME NEW d, NEW m, NEW e, NEW r, NEW q, NEW W, NEW V, Step(d, m, e, r, q, W, V),
         RoutesHold(d, W)
  PROVE  RoutesHold(e, V)
<1>1. m \in Word /\ Recorded(m) /\ IsStore(W) /\ V = Replaced(W, m) /\ Params(d) /\ Effect(d, m, e)
  BY StepFacts
<1>2. SUFFICES ASSUME NEW c \in Channels, NEW b \in 1..3, e.route[c][b] # -1
      PROVE  \E w \in V \cap DivWords(c, b + 3) : e.route[c][b] = Para23(w) - 1
  BY DEF RoutesHold
<1>3. m \in V /\ \A w \in W : w \in V \/ SameSlot(w, m)
  BY <1>1, ReplacedStore
<1>4. CASE m \in DivWords(c, b + 3)
  <2>1. m.key = 15 /\ m.type = c /\ m.param1 = b + 3
    BY <1>4 DEF DivWords, Is1, Is
  <2>2. Taken(d, m)
    <3>1. ~IsCut(m) /\ Fixed(m)
      <4>1. m.type \in 1..14
        BY <2>1, ParamAssumption
      <4> QED
        BY <2>1, <4>1, SMT DEF IsCut, Fixed
    <3> QED
      BY <1>1, <3>1, TakenIs DEF Word
  <2>3. e = FreqDiv_Set(d, m)
    BY <1>1, <2>1, <2>2 DEF Effect, DivEffect, IsDiv
  <2>4. e.route[c][b] \in {Para23(m) - 1, -1}
    BY <1>1, <2>1, <2>3, DivFacts
  <2> QED
    BY <1>2, <1>3, <1>4, <2>4
<1>5. CASE m \notin DivWords(c, b + 3)
  <2>1. e.route[c][b] \in {d.route[c][b], -1}
    <3>1. CASE Taken(d, m) /\ m.key = 15
      <4>1. e = FreqDiv_Set(d, m)
        BY <1>1, <3>1 DEF Effect, DivEffect, IsDiv
      <4>2. /\ c # m.type => e.route[c] = d.route[c]
            /\ e.route[m.type][b] \in
                 {IF m.param1 = b + 3 THEN Para23(m) - 1 ELSE d.route[m.type][b], -1}
        BY <1>1, <3>1, <4>1, DivFacts
      <4>3. c = m.type => m.param1 # b + 3
        BY <1>1, <1>5, <3>1 DEF DivWords, Is1, Is
      <4> QED
        BY <4>2, <4>3
    <3>2. CASE ~(Taken(d, m) /\ m.key = 15)
      BY <1>1, <3>2 DEF Effect, DivEffect, IsDiv
    <3> QED
      BY <3>1, <3>2
  <2>2. d.route[c][b] # -1 /\ e.route[c][b] = d.route[c][b]
    BY <1>2, <2>1
  <2>3. PICK w \in W \cap DivWords(c, b + 3) : d.route[c][b] = Para23(w) - 1
    BY <2>2 DEF RoutesHold
  <2>4. w \in V
    <3>1. IsSlot(DivWords(c, b + 3))
      BY Slots
    <3>2. SameSlot(w, m) => m \in DivWords(c, b + 3)
      BY <1>1, <3>1 DEF IsSlot
    <3> QED
      BY <1>3, <1>5, <3>2
  <2> QED
    BY <2>2, <2>3, <2>4
<1> QED
  BY <1>4, <1>5

LEMMA InputStep ==
  ASSUME NEW d, NEW m, NEW e, NEW r, NEW q, NEW W, NEW V, Step(d, m, e, r, q, W, V),
         NEW a \in BOOLEAN, InputHolds(d, r, W, a)
  PROVE  InputHolds(e, q, V, Realigned(a, d, m))
<1>1. m \in Word /\ Recorded(m) /\ IsStore(W) /\ V = Replaced(W, m) /\ Params(d) /\ Effect(d, m, e)
  BY StepFacts
<1>2. PICK t \in BOOLEAN : /\ t <=> Taken(d, m)
                           /\ q = IF t THEN r \ {get_cmd_id(m)} ELSE r \cup {get_cmd_id(m)}
  BY StepFacts
<1>3. ~IsState(m)
  BY <1>1, KindRecorded
<1>4. TypeEffect(d, m, e)
  BY <1>1 DEF Effect
<1>5. SUFFICES ASSUME ~Realigned(a, d, m)
      PROVE  /\ Holds(V, q, InputWords, FirstOf, e.LastInputXtype, 0)
             /\ \/ e.InputXtype = e.LastInputXtype
                \/ e.SystemState = ALIGNMENT /\ e.InputXtype = TEST
  BY DEF InputHolds
<1>6. (IsInput(m) /\ t) \/ ~a
  BY <1>2, <1>3, <1>5, RealignedIs DEF IsState
<1>7. IsSlot(InputWords)
  BY Slots
<1>8. /\ IsInput(m) <=> m \in InputWords
      /\ m \in InputWords => FirstOf[m] = m.param1
  BY <1>1 DEF InputWords, FirstOf
<1>9. /\ IsInput(m) /\ t => e.LastInputXtype = m.param1 /\ e.InputXtype = m.param1
      /\ ~(IsInput(m) /\ t) => /\ e.LastInputXtype = d.LastInputXtype
                               /\ e.InputXtype = d.InputXtype /\ e.SystemState = d.SystemState
  BY <1>2, <1>3, <1>4 DEF TypeEffect
<1>10. ~a => Holds(W, r, InputWords, FirstOf, d.LastInputXtype, 0)
  BY DEF InputHolds
<1>11. m \notin InputWords => Holds(W, r, InputWords, FirstOf, d.LastInputXtype, 0)
  BY <1>6, <1>8, <1>10
<1>12. Holds(V, q, InputWords, FirstOf, e.LastInputXtype, 0)
  BY <1>1, <1>2, <1>7, <1>8, <1>9, <1>11, HoldsStep
<1>13. \/ e.InputXtype = e.LastInputXtype
       \/ e.SystemState = ALIGNMENT /\ e.InputXtype = TEST
  BY <1>6, <1>9 DEF InputHolds
<1> QED
  BY <1>12, <1>13

\* A recorded word keeps the agreement.
LEMMA AgreeStep ==
  ASSUME NEW d, NEW m, NEW e, NEW r, NEW q, NEW W, NEW V, Step(d, m, e, r, q, W, V),
         NEW a \in BOOLEAN, Agree(d, r, W, a)
  PROVE  Agree(e, q, V, Realigned(a, d, m))
<1>1. Noted(q, V)
  BY NotedStep DEF Agree
<1>2. CutsHold(e, q, V)
  BY CutsStep DEF Agree
<1>3. EqHolds(e, q, V)
  BY EqStep DEF Agree
<1>4. DelayHolds(e, q, V)
  BY DelayStep DEF Agree
<1>5. RateHolds(e, q, V)
  BY RateStep DEF Agree
<1>6. FadeHolds(e, q, V)
  BY FadeStep DEF Agree
<1>7. NumberHolds(e, q, V)
  BY NumberStep DEF Agree
<1>8. RoutesHold(e, V)
  BY RoutesStep DEF Agree
<1>9. InputHolds(e, q, V, Realigned(a, d, m))
  BY InputStep DEF Agree
<1> QED
  BY <1>1, <1>2, <1>3, <1>4, <1>5, <1>6, <1>7, <1>8, <1>9 DEF Agree

\* The agreement is not about the volume.
SameParams(d, e) ==
  /\ e.HighCutFreq = d.HighCutFreq /\ e.LowCutFreq = d.LowCutFreq /\ e.EQBandGain = d.EQBandGain
  /\ e.Delay = d.Delay /\ e.SamplingRate = d.SamplingRate /\ e.FadeTime = d.FadeTime
  /\ e.FreqDivVal = d.FreqDivVal /\ e.route = d.route /\ e.InputXtype = d.InputXtype
  /\ e.LastInputXtype = d.LastInputXtype /\ e.SystemState = d.SystemState

LEMMA SameAgree ==
  ASSUME NEW d, NEW e, NEW r, NEW W, NEW a, SameParams(d, e), Agree(d, r, W, a)
  PROVE  Agree(e, r, W, a)
BY DEF SameParams, Agree, CutsHold, EqHolds, DelayHolds, RateHolds, FadeHolds, NumberHolds, RoutesHold,
       InputHolds

\* A word that is not recorded changes nothing but the system's state and with
\* it the input type.
LEMMA UnrecordedStep ==
  ASSUME NEW d, Params(d), NEW m \in Word, ~Recorded(m), NEW e, e = Decode(d, m),
         NEW r, NEW W, NEW a \in BOOLEAN, Agree(d, r, W, a)
  PROVE  Agree(e, r, W, Realigned(a, d, m))
<1>0. DOMAIN d = Fields /\ m \in Msg
  BY DEF Params, Word
<1>1. Effect(d, m, e)
  BY <1>0, Effects
<1>2. /\ ~IsVolume(m) /\ ~IsInput(m) /\ ~IsFade(m) /\ ~IsRate(m) /\ ~IsDelay(m) /\ ~IsHigh(m)
      /\ ~IsLow(m) /\ ~IsEq(m) /\ ~IsDiv(m)
  BY KindRecorded
<1>3. /\ e.HighCutFreq = d.HighCutFreq /\ e.LowCutFreq = d.LowCutFreq
      /\ e.EQBandGain = d.EQBandGain /\ e.Delay = d.Delay /\ e.SamplingRate = d.SamplingRate
      /\ e.FadeTime = d.FadeTime /\ e.FreqDivVal = d.FreqDivVal /\ e.route = d.route
  BY <1>1, <1>2 DEF Effect, CutEffect, EqEffect, DelayEffect, RateEffect, FadeEffect, DivEffect
<1>4. InputHolds(e, r, W, Realigned(a, d, m))
  <2>1. TypeEffect(d, m, e)
    BY <1>1 DEF Effect
  <2>2. SUFFICES ASSUME ~Realigned(a, d, m)
        PROVE  /\ Holds(W, r, InputWords, FirstOf, e.LastInputXtype, 0)
               /\ \/ e.InputXtype = e.LastInputXtype
                  \/ e.SystemState = ALIGNMENT /\ e.InputXtype = TEST
    BY DEF InputHolds
  <2>3. /\ ~a
        /\ m.key = 13 /\ m.param1 = ALIGNMENT => d.InputXtype # TEST
    BY <1>2, <2>2, RealignedIs
  <2>4. /\ Holds(W, r, InputWords, FirstOf, d.LastInputXtype, 0)
        /\ \/ d.InputXtype = d.LastInputXtype
           \/ d.SystemState = ALIGNMENT /\ d.InputXtype = TEST
    BY <2>3 DEF Agree, InputHolds
  <2>5. CASE IsState(m) /\ Taken(d, m) /\ m.param1 = ALIGNMENT
    <3>1. e.LastInputXtype = d.InputXtype /\ e.InputXtype = TEST /\ e.SystemState = ALIGNMENT
      BY <1>2, <2>1, <2>5 DEF TypeEffect
    <3>2. d.InputXtype = d.LastInputXtype
      BY <2>3, <2>4, <2>5 DEF IsState
    <3> QED
      BY <2>4, <3>1, <3>2
  <2>6. CASE IsState(m) /\ Taken(d, m) /\ m.param1 # ALIGNMENT
    BY <1>2, <2>1, <2>4, <2>6 DEF TypeEffect
  <2>7. CASE ~(IsState(m) /\ Taken(d, m))
    <3>1. e.LastInputXtype = d.LastInputXtype /\ e.InputXtype = d.InputXtype
          /\ e.SystemState = d.SystemState
      BY <1>2, <2>1, <2>7 DEF TypeEffect
    <3> QED
      BY <2>4, <3>1
  <2> QED
    BY <2>5, <2>6, <2>7
<1> QED
  BY <1>3, <1>4 DEF Agree, CutsHold, EqHolds, DelayHolds, RateHolds, FadeHolds, NumberHolds, RoutesHold

\* The end of a start takes outputs away from bands above their number.
LEMMA InitDoneSets ==
  ASSUME NEW d, Params(d), CutOrder(d), NEW e, e = InitDone(d)
  PROVE  /\ Params(e) /\ CutOrder(e) /\ Sets(d, e, {"route"})
         /\ \A c \in Channels, b \in 1..3 :
              e.route[c][b] = IF d.FreqDivVal[c][1] < b THEN -1 ELSE d.route[c][b]
<1> DEFINE R == [c \in Channels |-> setdivisionpointnum(d.route[c], d.FreqDivVal[c][1])]
<1>1. /\ d.route \in [Channels -> Outputs] /\ d.FreqDivVal \in [Channels -> Division]
      /\ DOMAIN d = Fields
  BY DEF Params
<1>2. \A c \in Channels : setdivisionpointnum(d.route[c], d.FreqDivVal[c][1]) \in Outputs
  BY <1>1, SMT DEF setdivisionpointnum, Outputs
<1>3. R \in [Channels -> Outputs]
  BY <1>2
<1>4. \A c \in Channels, b \in 1..3 :
         R[c][b] = IF d.FreqDivVal[c][1] < b THEN -1 ELSE d.route[c][b]
  BY SMT DEF setdivisionpointnum
<1>5. e = [d EXCEPT !.route = R]
  BY DEF InitDone
<1> HIDE DEF R
<1>6. Sets(d, e, {"route"}) /\ e.route = R
  BY <1>1, <1>5 DEF Sets, Fields
<1>7. Params(e)
  BY <1>3, <1>6, SMT DEF Params, Sets
<1>8. CutOrder(e)
  BY <1>6, SMT DEF CutOrder, Sets
<1> QED
  BY <1>4, <1>6, <1>7, <1>8

LEMMA InitDoneAgree ==
  ASSUME NEW d, Params(d), CutOrder(d), NEW e, e = InitDone(d), NEW r, NEW W, NEW a,
         Agree(d, r, W, a)
  PROVE  Agree(e, r, W, a)
<1>1. Sets(d, e, {"route"})
  BY InitDoneSets
<1>2. \A c \in Channels, b \in 1..3 :
         e.route[c][b] = IF d.FreqDivVal[c][1] < b THEN -1 ELSE d.route[c][b]
  BY InitDoneSets
<1>3. RoutesHold(e, W)
  BY <1>2 DEF Agree, RoutesHold
<1>4. /\ e.HighCutFreq = d.HighCutFreq /\ e.LowCutFreq = d.LowCutFreq
      /\ e.EQBandGain = d.EQBandGain /\ e.Delay = d.Delay /\ e.SamplingRate = d.SamplingRate
      /\ e.FadeTime = d.FadeTime /\ e.FreqDivVal = d.FreqDivVal /\ e.InputXtype = d.InputXtype
      /\ e.LastInputXtype = d.LastInputXtype /\ e.SystemState = d.SystemState
  BY <1>1, SMT DEF Sets
<1> QED
  BY <1>3, <1>4 DEF Agree, CutsHold, EqHolds, DelayHolds, RateHolds, FadeHolds, NumberHolds, InputHolds

\* The parameters at the start of the DSP.
LEMMA DefaultFields ==
  /\ DOMAIN Default = Fields
  /\ Default.InputXtype = 0 /\ Default.LastInputXtype = 0 /\ Default.SystemState = 1
  /\ Default.SamplingRate = [i \in 0..7 |-> 48000]
  /\ Default.FadeTime = [t \in {10, 11} |-> [time |-> 5, rate |-> 0]]
  /\ Default.Delay = [c \in Channels |-> 0]
  /\ Default.samples = [c \in Channels |-> 0]
  /\ Default.HighCutFreq = [c \in Channels |-> 20000]
  /\ Default.LowCutFreq = [c \in Channels |-> 20]
  /\ Default.EQBandGain = [c \in Channels |-> [b \in Bands |-> 0]]
  /\ Default.FreqDivVal = [c \in Channels |-> <<1, 20, 20000>>]
  /\ Default.route = [c \in Channels |-> <<-1, -1, -1>>]
  /\ Default.count = 48 /\ Default.knobvolume = 50 /\ Default.gain = -20
BY SMT DEF Default, Fields

LEMMA DefaultAgrees ==
  /\ Params(Default) /\ CutOrder(Default) /\ IsStore({}) /\ Agree(Default, {}, {}, FALSE)
<1>1. Params(Default)
  <2>1. Default.SamplingRate \in [0..7 -> Rates]
    BY DefaultFields, SMT DEF Rates
  <2>2. Default.FadeTime \in [{10, 11} -> Fade]
    BY DefaultFields, SMT DEF Fade
  <2>3. Default.Delay \in [Channels -> Nat] /\ Default.samples \in [Channels -> 0..LIMIT]
    BY DefaultFields, SMT DEF LIMIT, DelayBufSIZE, FFTSIZE
  <2>4. Default.HighCutFreq \in [Channels -> Freqs] /\ Default.LowCutFreq \in [Channels -> Freqs]
    BY DefaultFields, SMT DEF Freqs
  <2>5. Default.EQBandGain \in [Channels -> Gains]
    BY DefaultFields, SMT DEF Gains
  <2>6. Default.FreqDivVal \in [Channels -> Division]
    <3>1. <<1, 20, 20000>> \in Division
      BY SMT DEF Division
    <3> QED
      BY <3>1, DefaultFields, SMT
  <2>7. Default.route \in [Channels -> Outputs]
    <3>1. <<-1, -1, -1>> \in Outputs
      BY SMT DEF Outputs
    <3> QED
      BY <3>1, DefaultFields, SMT
  <2>8. /\ Default.InputXtype \in 0..7 /\ Default.LastInputXtype \in 0..7
        /\ Default.SystemState \in 1..3
        /\ Default.count \in 0..96 /\ Default.knobvolume \in 0..96 /\ Default.gain \in -96..6
    BY DefaultFields, SMT
  <2> QED
    BY <2>1, <2>2, <2>3, <2>4, <2>5, <2>6, <2>7, <2>8, DefaultFields DEF Params
<1>2. CutOrder(Default)
  BY DefaultFields, SMT DEF CutOrder
<1>3. IsStore({})
  BY DEF IsStore
<1>4. \A r, S, F, z : Holds({}, r, S, F, z, z)
  BY DEF Holds
<1>5. Agree(Default, {}, {}, FALSE)
  <2>1. Noted({}, {}) /\ CutsHold(Default, {}, {}) /\ RateHolds(Default, {}, {})
    BY <1>4 DEF Noted, CutsHold, RateHolds
  <2>2. EqHolds(Default, {}, {})
    <3>1. \A c \in Channels, b \in Bands : Default.EQBandGain[c][b] = 0
      BY DefaultFields, SMT
    <3> QED
      BY <1>4, <3>1 DEF EqHolds
  <2>3. DelayHolds(Default, {}, {})
    <3>1. \A c \in Channels : Default.Delay[c] = 0
      BY DefaultFields, SMT
    <3> QED
      BY <1>4, <3>1 DEF DelayHolds
  <2>4. FadeHolds(Default, {}, {})
    <3>1. \A t \in {10, 11} : Default.FadeTime[t].time = 5
      BY DefaultFields, SMT
    <3> QED
      BY <1>4, <3>1 DEF FadeHolds
  <2>5. NumberHolds(Default, {}, {})
    <3>1. \A c \in Channels : Default.FreqDivVal[c][1] = 1
      BY DefaultFields, SMT
    <3> QED
      BY <1>4, <3>1 DEF NumberHolds
  <2>6. RoutesHold(Default, {})
    <3>1. \A c \in Channels, b \in 1..3 : Default.route[c][b] = -1
      BY DefaultFields, SMT
    <3> QED
      BY <3>1 DEF RoutesHold
  <2>7. InputHolds(Default, {}, {}, FALSE)
    <3>1. Default.InputXtype = 0 /\ Default.LastInputXtype = 0
      BY DefaultFields, SMT
    <3> QED
      BY <1>4, <3>1 DEF InputHolds
  <2> QED
    BY <2>1, <2>2, <2>3, <2>4, <2>5, <2>6, <2>7 DEF Agree
<1> QED
  BY <1>1, <1>2, <1>3, <1>5

(***************************************************************************)
(* The tables                                                              *)
(***************************************************************************)
\* Each table holds recorded words of its group, no two of a slot.
Good(s) ==
  /\ s \in [TableKeys -> Seq(Word)]
  /\ \A k \in TableKeys : \A i \in 1..Len(s[k]) : Recorded(s[k][i]) /\ s[k][i].key = k
  /\ \A k \in TableKeys : \A i, j \in 1..Len(s[k]) :
       get_cmd_id(s[k][i]) = get_cmd_id(s[k][j]) => i = j

LEMMA InContents ==
  ASSUME NEW s, NEW w
  PROVE  w \in Contents(s) <=> \E k \in TableKeys : \E i \in 1..Len(s[k]) : w = s[k][i]
BY DEF Contents

\* A word of the tables is in the table of its group.
LEMMA InTable ==
  ASSUME NEW s, Good(s), NEW w \in Contents(s)
  PROVE  /\ w \in Word /\ Recorded(w) /\ w.key \in TableKeys
         /\ \E i \in 1..Len(s[w.key]) : w = s[w.key][i]
<1>1. PICK k \in TableKeys : \E i \in 1..Len(s[k]) : w = s[k][i]
  BY InContents
<1>2. PICK i \in 1..Len(s[k]) : w = s[k][i]
  BY <1>1
<1>3. s[k] \in Seq(Word) /\ Recorded(w) /\ w.key = k
  BY <1>2 DEF Good
<1>4. w \in Word
  BY <1>2, <1>3
<1> QED
  BY <1>2, <1>3, <1>4

LEMMA GoodStore ==
  ASSUME NEW s, Good(s)
  PROVE  IsStore(Contents(s))
<1>1. \A w \in Contents(s) : w \in Word /\ Recorded(w)
  BY InTable
<1>2. ASSUME NEW v \in Contents(s), NEW w \in Contents(s), get_cmd_id(v) = get_cmd_id(w)
      PROVE  v = w
  <2>1. v \in Msg /\ w \in Msg /\ Recorded(v) /\ Recorded(w)
    BY <1>1 DEF Word
  <2>2. SameSlot(v, w)
    BY <1>2, <2>1, IdSlot
  <2>3. PICK k \in TableKeys : k = v.key /\ k = w.key
    BY <2>2, InTable DEF SameSlot
  <2>4. PICK i \in 1..Len(s[k]) : v = s[k][i]
    <3>1. \E i \in 1..Len(s[v.key]) : v = s[v.key][i]
      BY InTable
    <3> QED
      BY <2>3, <3>1
  <2>5. PICK j \in 1..Len(s[k]) : w = s[k][j]
    <3>1. \E j \in 1..Len(s[w.key]) : w = s[w.key][j]
      BY InTable
    <3> QED
      BY <2>3, <3>1
  <2>6. i = j
    BY <1>2, <2>4, <2>5 DEF Good
  <2> QED
    BY <2>4, <2>5, <2>6
<1> QED
  BY <1>1, <1>2 DEF IsStore

\* The input word of the front panel.
LEMMA InputWordIs ==
  ASSUME NEW g \in 1..6
  PROVE  /\ InputWord(g) \in Word /\ InputWord(g) \in InputWords /\ Recorded(InputWord(g))
         /\ Fixed(InputWord(g)) /\ ~IsCut(InputWord(g)) /\ FirstOf[InputWord(g)] = g
         /\ InputWord(g).key = 1
<1>1. PICK w : w = InputWord(g)
  OBVIOUS
<1>2. w = [op |-> 0, key |-> 1, type |-> 9, param1 |-> g, param2 |-> 0, param3 |-> 0]
  BY <1>1, SMT DEF InputWord, Command
<1>3. w \in Msg
  BY <1>2, SMT DEF Msg, Byte
<1>4. w \in Word /\ IsInput(w) /\ Fixed(w) /\ ~IsCut(w) /\ w.param1 = g /\ w.key = 1
  BY <1>2, <1>3, SMT DEF Word, IsInput, Is, Fixed, IsCut
<1>5. Recorded(w)
  BY <1>4, KindRecorded
<1> QED
  BY <1>1, <1>4, <1>5 DEF InputWords, FirstOf

\* A volume word.
LEMMA VolumeWordIs ==
  ASSUME NEW v \in 0..96
  PROVE  /\ VolumeWord(v) \in Word /\ IsVolume(VolumeWord(v)) /\ Recorded(VolumeWord(v))
         /\ Fixed(VolumeWord(v)) /\ ~IsCut(VolumeWord(v))
         /\ VolumeWord(v).param1 = 0 /\ VolumeWord(v).param2 = v
<1>1. PICK w : w = VolumeWord(v)
  OBVIOUS
<1>2. (v * 256) \div 256 = v /\ (v * 256) % 256 = 0
  BY SMT
<1>3. w = [op |-> 0, key |-> 1, type |-> 8, param1 |-> 0, param2 |-> v, param3 |-> 0]
  BY <1>1, <1>2, SMT DEF VolumeWord, Command
<1>4. w \in Msg
  BY <1>3, SMT DEF Msg, Byte
<1>5. w \in Word /\ IsVolume(w) /\ Fixed(w) /\ ~IsCut(w) /\ w.param1 = 0 /\ w.param2 = v
  BY <1>3, <1>4, SMT DEF Word, IsVolume, Is, Fixed, IsCut
<1>6. Recorded(w)
  BY <1>5, KindRecorded
<1> QED
  BY <1>1, <1>5, <1>6

\* What do_add_cmd makes of a table: it is a slot longer, or a slot is written.
Appended(t, m, u) ==
  /\ Len(u) = Len(t) + 1 /\ u[Len(t) + 1] = m
  /\ \A i \in 1..Len(t) : u[i] = t[i] /\ get_cmd_id(t[i]) # get_cmd_id(m)

Updated(t, m, u) ==
  /\ Len(u) = Len(t)
  /\ \E i \in 1..Len(t) : get_cmd_id(t[i]) = get_cmd_id(m)
  /\ \A i \in 1..Len(t) : u[i] = IF get_cmd_id(t[i]) = get_cmd_id(m) THEN m ELSE t[i]

LEMMA WriteFacts ==
  ASSUME NEW t \in Seq(Word), NEW m \in Word, NEW count, NEW u, u = Write(t, m, count),
         Len(t) < count \/ \E i \in 1..Len(t) : get_cmd_id(t[i]) = get_cmd_id(m)
  PROVE  u \in Seq(Word) /\ (Appended(t, m, u) \/ Updated(t, m, u))
<1> DEFINE slots == {i \in 1..Len(t) : get_cmd_id(t[i]) = get_cmd_id(m)}
<1>1. CASE slots = {}
  <2>1. u = Append(t, m)
    <3>1. Len(t) < count
      BY <1>1
    <3> QED
      BY <1>1, <3>1 DEF Write
  <2>2. \A i \in 1..Len(t) : get_cmd_id(t[i]) # get_cmd_id(m)
    BY <1>1
  <2> HIDE DEF slots
  <2>3. u \in Seq(Word) /\ Len(u) = Len(t) + 1 /\ u[Len(t) + 1] = m
    BY <2>1
  <2>4. \A i \in 1..Len(t) : u[i] = t[i]
    BY <2>1
  <2> QED
    BY <2>2, <2>3, <2>4 DEF Appended
<1>2. CASE slots # {}
  <2>1. u = [i \in 1..Len(t) |-> IF i \in slots THEN m ELSE t[i]]
    BY <1>2 DEF Write
  <2>2. \A i \in 1..Len(t) : t[i] \in Word /\ (i \in slots <=> get_cmd_id(t[i]) = get_cmd_id(m))
    OBVIOUS
  <2>3. \E i \in 1..Len(t) : get_cmd_id(t[i]) = get_cmd_id(m)
    BY <1>2
  <2> HIDE DEF slots
  <2>4. Len(t) \in Nat
    OBVIOUS
  <2>5. u \in [1..Len(t) -> Word]
    BY <2>1, <2>2
  <2>6. u \in Seq(Word) /\ Len(u) = Len(t)
    BY <2>4, <2>5
  <2>7. \A i \in 1..Len(t) :
           u[i] = IF get_cmd_id(t[i]) = get_cmd_id(m) THEN m ELSE t[i]
    BY <2>1, <2>2
  <2> QED
    BY <2>3, <2>6, <2>7 DEF Updated
<1> QED
  BY <1>1, <1>2

\* There is a slot for m in its table.
Room(s, m) ==
  \/ Len(s[m.key]) < Count[m.key]
  \/ \E i \in 1..Len(s[m.key]) : get_cmd_id(s[m.key][i]) = get_cmd_id(m)

\* The tables hold identifiers of session n.
Within(n, W) == \A w \in W : get_cmd_id(w) \in Ids(n, w.key)

\* There is one for every word of the session: different slots have different
\* identifiers.
LEMMA HasRoom ==
  ASSUME NEW n \in DOMAIN Sessions, NEW s, Good(s), Within(n, Contents(s)),
         NEW m, Recorded(m), get_cmd_id(m) \in Ids(n, m.key)
  PROVE  Room(s, m)
<1>1. PICK k \in TableKeys : k = m.key
  BY DEF Recorded
<1>2. PICK t \in Seq(Word) : t = s[k]
  BY DEF Good
<1>3. PICK l \in Nat : l = Len(t)
  BY <1>2
<1>4. PICK I : I = Ids(n, k)
  OBVIOUS
<1>5. SUFFICES ASSUME ~Room(s, m) PROVE FALSE
  OBVIOUS
<1>6. \A i \in 1..l : get_cmd_id(t[i]) # get_cmd_id(m)
  BY <1>1, <1>2, <1>3, <1>5 DEF Room
<1>7. \A i \in 1..l : get_cmd_id(t[i]) \in I
  BY <1>2, <1>3, <1>4, InContents DEF Good, Within
<1>8. \A i, j \in 1..l : get_cmd_id(t[i]) = get_cmd_id(t[j]) => i = j
  BY <1>2, <1>3 DEF Good
<1> DEFINE f == [i \in 1..(l + 1) |-> IF i = l + 1 THEN get_cmd_id(m) ELSE get_cmd_id(t[i])]
<1>9. f \in [1..(l + 1) -> I]
  <2>1. \A i \in 1..(l + 1) : i = l + 1 \/ i \in 1..l
    OBVIOUS
  <2> QED
    BY <1>1, <1>4, <1>7, <2>1
<1>10. \A i, j \in 1..(l + 1) : f[i] = f[j] => i = j
  <2>1. \A i \in 1..(l + 1) : i = l + 1 \/ (i \in 1..l /\ i # l + 1)
    OBVIOUS
  <2>2. \A i \in 1..(l + 1) : f[i] = IF i = l + 1 THEN get_cmd_id(m) ELSE get_cmd_id(t[i])
    OBVIOUS
  <2> HIDE DEF f
  <2> QED
    BY <1>6, <1>8, <2>1, <2>2
<1> HIDE DEF f
<1>11. IsFiniteSet(I) /\ Cardinality(I) \in Nat
  <2>1. PICK N \in Nat : N = 16 * 262144
    BY SMT
  <2>2. I \subseteq 0..N
    <3> SUFFICES ASSUME NEW x \in I PROVE x \in 0..N
      OBVIOUS
    <3>1. PICK w \in Msg : Recorded(w) /\ x = get_cmd_id(w)
      <4>1. Sessions[n].words \subseteq Msg
        BY ParamAssumption
      <4>2. VolumeWord(0) \in Word /\ InputWord(1) \in Word
        <5>1. 0 \in 0..96 /\ 1 \in 1..6
          OBVIOUS
        <5> QED
          BY <5>1, VolumeWordIs, InputWordIs
      <4>3. Word \subseteq Msg
        BY DEF Word
      <4> QED
        BY <1>4, <4>1, <4>2, <4>3 DEF Ids
    <3>2. PICK a \in 0..15 : a = w.key
      BY <3>1, MsgFields
    <3>3. PICK b \in 0..31 : b = w.type
      BY <3>1, MsgFields
    <3>4. /\ get_cmd_id(w) = w.key * 262144 + w.type * 8192 + Part1(w) * 256 + Part2(w)
          /\ Part1(w) \in 0..31 /\ Part2(w) \in 0..255
      BY <3>1, IdParts, SMT
    <3>5. PICK c \in 0..31 : c = Part1(w)
      BY <3>4, SMT
    <3>6. PICK d \in 0..255 : d = Part2(w)
      BY <3>4, SMT
    <3>7. x = a * 262144 + b * 8192 + c * 256 + d
      BY <3>1, <3>2, <3>3, <3>4, <3>5, <3>6, SMT
    <3>8. x \in Nat /\ x <= N
      BY <2>1, <3>7, SMT
    <3> QED
      BY <3>8
  <2>3. IsFiniteSet(0..N)
    <3>1. N \in Int /\ 0 \in Int
      OBVIOUS
    <3> QED
      BY <3>1, FS_Interval
  <2>4. IsFiniteSet(I)
    BY <2>2, <2>3, FS_Subset
  <2> QED
    BY <2>4, FS_CardinalityType
<1>12. IsFiniteSet(1..(l + 1)) /\ Cardinality(1..(l + 1)) = l + 1
  BY FS_Interval
<1>13. Cardinality(I) >= l + 1
  <2>1. ~(Cardinality(I) < Cardinality(1..(l + 1)))
    BY <1>9, <1>10, <1>11, <1>12, FS_PigeonHole
  <2> QED
    BY <1>11, <1>12, <2>1
<1>14. Cardinality(I) <= Count[k] /\ Count[k] \in Nat
  BY <1>4, TablesAssumption
<1>15. l < Count[k]
  BY <1>11, <1>13, <1>14
<1> QED
  BY <1>1, <1>2, <1>3, <1>5, <1>15 DEF Room

\* Adding a recorded word.
LEMMA PutRecorded ==
  ASSUME NEW s, Good(s), NEW m \in Word, Recorded(m), Room(s, m), NEW p, p = Put(s, m)
  PROVE  /\ Good(p)
         /\ Contents(p) = Replaced(Contents(s), m)
         /\ \A k \in TableKeys : k # m.key => p[k] = s[k]
<1>1. m.key \in TableKeys
  BY DEF Recorded
<1>2. PICK k \in TableKeys : k = m.key
  BY <1>1
<1>3. PICK t \in Seq(Word) : t = s[k]
  BY DEF Good
<1>4. PICK u : u = Write(t, m, Count[k])
  OBVIOUS
<1>5. p = [s EXCEPT ![k] = u]
  BY <1>2, <1>3, <1>4 DEF Put, Good
<1>0. Len(t) < Count[k] \/ \E i \in 1..Len(t) : get_cmd_id(t[i]) = get_cmd_id(m)
  BY <1>2, <1>3 DEF Room
<1>6. u \in Seq(Word)
  BY <1>0, <1>4, WriteFacts
<1>7. Appended(t, m, u) \/ Updated(t, m, u)
  BY <1>0, <1>4, WriteFacts
<1>8. /\ p \in [TableKeys -> Seq(Word)] /\ p[k] = u
      /\ \A l \in TableKeys : l # k => p[l] = s[l]
  BY <1>5, <1>6 DEF Good
<1>9. /\ Len(t) \in Nat
      /\ \A i \in 1..Len(t) : Recorded(t[i]) /\ t[i].key = k
      /\ \A i, j \in 1..Len(t) : get_cmd_id(t[i]) = get_cmd_id(t[j]) => i = j
  BY <1>3 DEF Good
<1>10. /\ \A i \in 1..Len(u) : Recorded(u[i]) /\ u[i].key = k
       /\ \A i, j \in 1..Len(u) : get_cmd_id(u[i]) = get_cmd_id(u[j]) => i = j
  <2>1. CASE Appended(t, m, u)
    <3>1. \A i \in 1..Len(u) : i = Len(t) + 1 \/ i \in 1..Len(t)
      BY <1>9, <2>1 DEF Appended
    <3> QED
      BY <1>2, <1>9, <2>1, <3>1 DEF Appended
  <2>2. CASE Updated(t, m, u)
    <3>1. \A i \in 1..Len(t) : get_cmd_id(u[i]) = get_cmd_id(t[i])
      BY <2>2 DEF Updated
    <3> QED
      BY <1>2, <1>9, <2>2, <3>1 DEF Updated
  <2> QED
    BY <1>7, <2>1, <2>2
<1>11. Good(p)
  <2>1. ASSUME NEW l \in TableKeys
        PROVE  /\ \A i \in 1..Len(p[l]) : Recorded(p[l][i]) /\ p[l][i].key = l
               /\ \A i, j \in 1..Len(p[l]) : get_cmd_id(p[l][i]) = get_cmd_id(p[l][j]) => i = j
    <3>1. CASE l = k
      BY <1>8, <1>10, <3>1
    <3>2. CASE l # k
      <4>1. p[l] = s[l]
        BY <1>8, <3>2
      <4> QED
        BY <4>1 DEF Good
    <3> QED
      BY <3>1, <3>2
  <2> QED
    BY <1>8, <2>1 DEF Good
<1>12. ASSUME NEW w
       PROVE  (\E i \in 1..Len(u) : w = u[i]) <=>
               w = m \/ ((\E i \in 1..Len(t) : w = t[i]) /\ get_cmd_id(w) # get_cmd_id(m))
  <2>1. CASE Appended(t, m, u)
    <3>1. \A i \in 1..Len(u) : i = Len(t) + 1 \/ i \in 1..Len(t)
      BY <1>9, <2>1 DEF Appended
    <3>2. Len(t) + 1 \in 1..Len(u) /\ \A i \in 1..Len(t) : i \in 1..Len(u)
      BY <1>9, <2>1 DEF Appended
    <3>3. u[Len(t) + 1] = m /\ \A i \in 1..Len(t) : u[i] = t[i] /\ get_cmd_id(t[i]) # get_cmd_id(m)
      BY <2>1 DEF Appended
    <3>4. ASSUME NEW i \in 1..Len(u), w = u[i]
          PROVE  w = m \/ ((\E j \in 1..Len(t) : w = t[j]) /\ get_cmd_id(w) # get_cmd_id(m))
      <4>1. CASE i = Len(t) + 1
        BY <3>3, <3>4, <4>1
      <4>2. CASE i \in 1..Len(t)
        BY <3>3, <3>4, <4>2
      <4> QED
        BY <3>1, <4>1, <4>2
    <3>5. w = m => \E i \in 1..Len(u) : w = u[i]
      BY <3>2, <3>3
    <3>6. ASSUME NEW i \in 1..Len(t), w = t[i] PROVE \E j \in 1..Len(u) : w = u[j]
      BY <3>2, <3>3, <3>6
    <3> QED
      BY <3>4, <3>5, <3>6
  <2>2. CASE Updated(t, m, u)
    <3>1. PICK n \in 1..Len(t) : get_cmd_id(t[n]) = get_cmd_id(m)
      BY <2>2 DEF Updated
    <3>2. \A i \in 1..Len(t) : u[i] = IF get_cmd_id(t[i]) = get_cmd_id(m) THEN m ELSE t[i]
      BY <2>2 DEF Updated
    <3>3. Len(u) = Len(t)
      BY <2>2 DEF Updated
    <3>4. ASSUME NEW i \in 1..Len(t), w = u[i]
          PROVE  w = m \/ ((\E j \in 1..Len(t) : w = t[j]) /\ get_cmd_id(w) # get_cmd_id(m))
      <4>1. CASE get_cmd_id(t[i]) = get_cmd_id(m)
        BY <3>2, <3>4, <4>1
      <4>2. CASE get_cmd_id(t[i]) # get_cmd_id(m)
        <5>1. w = t[i]
          BY <3>2, <3>4, <4>2
        <5> QED
          BY <4>2, <5>1
      <4> QED
        BY <4>1, <4>2
    <3>5. w = m => \E i \in 1..Len(t) : w = u[i]
      BY <3>1, <3>2
    <3>6. ASSUME NEW i \in 1..Len(t), w = t[i], get_cmd_id(w) # get_cmd_id(m)
          PROVE  \E j \in 1..Len(t) : w = u[j]
      BY <3>2, <3>6
    <3> QED
      BY <3>3, <3>4, <3>5, <3>6
  <2> QED
    BY <1>7, <2>1, <2>2
<1>13. ASSUME NEW w
       PROVE  w \in Contents(p) <=> w \in Replaced(Contents(s), m)
  <2> DEFINE Here == \E i \in 1..Len(t) : w = t[i]
             There == \E l \in TableKeys : l # k /\ \E i \in 1..Len(s[l]) : w = s[l][i]
             Now == \E i \in 1..Len(u) : w = u[i]
  <2>1. w \in Contents(p) <=> Now \/ There
    <3>1. w \in Contents(p) <=> \E l \in TableKeys : \E i \in 1..Len(p[l]) : w = p[l][i]
      BY InContents
    <3>2. \A l \in TableKeys : l # k => p[l] = s[l]
      BY <1>8
    <3>3. p[k] = u
      BY <1>8
    <3>4. There => \E l \in TableKeys : \E i \in 1..Len(p[l]) : w = p[l][i]
      BY <3>2
    <3>5. Now => \E l \in TableKeys : \E i \in 1..Len(p[l]) : w = p[l][i]
      BY <3>3
    <3>6. ASSUME NEW l \in TableKeys, NEW i \in 1..Len(p[l]), w = p[l][i] PROVE Now \/ There
      <4>1. CASE l = k
        BY <3>3, <3>6, <4>1
      <4>2. CASE l # k
        BY <3>2, <3>6, <4>2
      <4> QED
        BY <4>1, <4>2
    <3> QED
      BY <3>1, <3>4, <3>5, <3>6
  <2>2. w \in Contents(s) <=> Here \/ There
    <3>1. w \in Contents(s) <=> \E l \in TableKeys : \E i \in 1..Len(s[l]) : w = s[l][i]
      BY InContents
    <3> QED
      BY <1>3, <3>1
  <2>3. There => get_cmd_id(w) # get_cmd_id(m)
    <3> SUFFICES ASSUME NEW l \in TableKeys, l # k, NEW i \in 1..Len(s[l]), w = s[l][i],
                        get_cmd_id(w) = get_cmd_id(m)
                 PROVE  FALSE
      OBVIOUS
    <3>1. w \in Contents(s) /\ w.key = l
      BY InContents DEF Good
    <3>2. w \in Msg /\ m \in Msg /\ Recorded(w)
      BY <3>1, InTable DEF Word
    <3>3. SameSlot(w, m)
      BY <3>2, IdSlot
    <3> QED
      BY <1>2, <3>1, <3>3 DEF SameSlot
  <2>4. w \in Replaced(Contents(s), m) <=>
          w = m \/ (w \in Contents(s) /\ get_cmd_id(w) # get_cmd_id(m))
    BY DEF Replaced
  <2>5. Now <=> w = m \/ (Here /\ get_cmd_id(w) # get_cmd_id(m))
    BY <1>12
  <2> HIDE DEF Here, There, Now
  <2> QED
    BY <2>1, <2>2, <2>3, <2>4, <2>5
<1>14. Contents(p) = Replaced(Contents(s), m)
  BY <1>13
<1> QED
  BY <1>2, <1>8, <1>11, <1>14

(***************************************************************************)
(* The replay, word by word                                                *)
(***************************************************************************)
\* The words of s that were sent before slot i + 1 of group k.
Sent(s, k, i) == {w \in Contents(s) : w.key < k} \cup {s[k][j] : j \in 1..i}

\* m is the next word of s when W was sent.
Ordered(s, m, W) ==
  /\ m \in Contents(s) /\ W \subseteq Contents(s)
  /\ \A w \in W : get_cmd_id(w) # get_cmd_id(m) /\ w.key <= m.key
  /\ \A w \in Contents(s) : w.key < m.key => w \in W
  /\ \E i \in 1..Len(s[m.key]) :
       /\ m = s[m.key][i]
       /\ \A w \in W : w.key = m.key => \E j \in 1..(i - 1) : w = s[m.key][j]
       /\ \A j \in 1..(i - 1) : s[m.key][j] \in W

LEMMA SentNext ==
  ASSUME NEW s, Good(s), NEW k \in TableKeys, NEW i \in 1..Len(s[k]), NEW m, m = s[k][i],
         NEW W, W = Sent(s, k, i - 1)
  PROVE  /\ Ordered(s, m, W) /\ IsStore(W) /\ m \in Word /\ Recorded(m)
         /\ Sent(s, k, i) = Replaced(W, m)
<1>0. k \in Nat
  BY SMT DEF TableKeys, CMD_GROUP_GENERAL, CMD_GROUP_INPUTS, CMD_GROUP_OUTPUT, CMD_GROUP_OTHER,
             CMD_GROUP_SOUND, CMD_GROUP_FERQ
<1>1. m \in Contents(s)
  BY InContents
<1>2. m \in Word /\ Recorded(m) /\ m.key = k
  BY <1>1, InTable DEF Good
<1>3. Len(s[k]) \in Nat /\ \A j \in 1..(i - 1) : j \in 1..Len(s[k]) /\ j # i
  BY DEF Good
<1>4. \A j \in 1..(i - 1) : s[k][j] \in Contents(s) /\ s[k][j].key = k
  BY <1>3, InContents DEF Good
<1>5. \A w \in W : \/ w \in Contents(s) /\ w.key < k
                   \/ \E j \in 1..(i - 1) : w = s[k][j]
  BY DEF Sent
<1>6. W \subseteq Contents(s)
  BY <1>4, <1>5
<1>7. \A w \in W : w.key <= k /\ (w.key = k => \E j \in 1..(i - 1) : w = s[k][j])
  <2> SUFFICES ASSUME NEW w \in W
               PROVE  w.key <= k /\ (w.key = k => \E j \in 1..(i - 1) : w = s[k][j])
    OBVIOUS
  <2>1. w.key \in Nat
    <3>1. w \in Msg
      BY <1>6, InTable DEF Word
    <3> QED
      BY <3>1, MsgFields
  <2>2. CASE w.key < k
    BY <1>0, <2>1, <2>2
  <2>3. CASE \E j \in 1..(i - 1) : w = s[k][j]
    BY <1>0, <1>4, <2>3
  <2> QED
    BY <1>5, <2>2, <2>3
<1>8. \A w \in W : get_cmd_id(w) # get_cmd_id(m)
  <2> SUFFICES ASSUME NEW w \in W, get_cmd_id(w) = get_cmd_id(m) PROVE FALSE
    OBVIOUS
  <2>1. w \in Msg /\ m \in Msg /\ Recorded(w)
    BY <1>2, <1>6, InTable DEF Word
  <2>2. SameSlot(w, m)
    BY <1>2, <2>1, IdSlot
  <2>3. w.key = k
    BY <1>2, <2>2 DEF SameSlot
  <2>4. PICK j \in 1..(i - 1) : w = s[k][j]
    BY <1>7, <2>3
  <2> QED
    BY <1>3, <2>4 DEF Good
<1>9. \A w \in Contents(s) : w.key < k => w \in W
  BY DEF Sent
<1>10. \A j \in 1..(i - 1) : s[k][j] \in W
  BY DEF Sent
<1>11. Ordered(s, m, W)
  BY <1>1, <1>2, <1>6, <1>7, <1>8, <1>9, <1>10 DEF Ordered
<1>12. IsStore(W)
  BY <1>6, GoodStore DEF IsStore
<1>13. Sent(s, k, i) = Replaced(W, m)
  <2>1. \A j \in 1..i : j = i \/ j \in 1..(i - 1)
    BY <1>3
  <2>2. i \in 1..i /\ \A j \in 1..(i - 1) : j \in 1..i
    BY <1>3
  <2>3. Sent(s, k, i) = W \cup {m}
    BY <2>1, <2>2 DEF Sent
  <2> QED
    BY <1>8, <2>3 DEF Replaced
<1> QED
  BY <1>2, <1>11, <1>12, <1>13

\* The cuts stored for a channel are in range and in order.
Fits(C, c) ==
  /\ \A w \in C \cap (HighWords(c) \cup LowWords(c)) : w.op = 0 /\ Para23(w) \in Freqs
  /\ \A h \in C \cap HighWords(c), l \in C \cap LowWords(c) : Para23(l) <= Para23(h)

\* Such cuts are taken, in whichever order they come.
CutsKept(C, r, W) ==
  \A c \in Channels : Fits(C, c) =>
    \A w \in W \cap (HighWords(c) \cup LowWords(c)) : get_cmd_id(w) \notin r

\* Fades come before any rate.
FadeRates(d) ==
  /\ d.SamplingRate[0] = Default.SamplingRate[0]
  /\ \A t \in {10, 11} : d.FadeTime[t].rate \in {0, 48000}

\* g is the input of the front panel, R its rate.
RateGiven(C, g, R) ==
  /\ InputWord(g) \in C
  /\ \A w \in C \cap RateWords(g + 1) : Fixed(w) /\ Rate(w.param1) = R
  /\ C \cap RateWords(g + 1) = {} => Default.SamplingRate[g] = R

SampleOf(R) ==
  [w \in Word |-> IF Samples(R, DelayOf(w)) > LIMIT THEN 0 ELSE Samples(R, DelayOf(w))]

\* Delays come after the rate.
SamplesHold(C, d, r, W) ==
  \A g \in 1..6, R \in Rates : RateGiven(C, g, R) =>
    \A c \in Channels : Holds(W, r, DelayWords(c), SampleOf(R), d.samples[c], 0)

\* Band b of row c is within the number of bands, and has its slot after it.
OutFits(s, c, b) ==
  /\ \A w \in Contents(s) \cap DivWords(c, 1) : b <= Para23(w)
  /\ Contents(s) \cap DivWords(c, 1) = {} => b <= 1
  /\ \A i, j \in 1..Len(s[15]) : s[15][i] \in DivWords(c, 1) /\ s[15][j] \in DivWords(c, b + 3) => i < j

\* Such a band keeps its output.
OutputsKept(s, d, W) ==
  \A c \in Channels, b \in 1..3 : OutFits(s, c, b) =>
    \A w \in W \cap DivWords(c, b + 3) : d.route[c][b] = Para23(w) - 1

VolumeKept(C, d, W) ==
  /\ (\E w \in W : IsVolume(w) /\ Fixed(w)) => d.gain = d.knobvolume - 90 /\ d.count = d.knobvolume
  /\ (\A w \in C : IsVolume(w) => w.param1 = 0) =>
       \A v \in 0..96 : VolumeWord(v) \in W => d.count = v

Sending(s, d, r, W) ==
  /\ Params(d) /\ CutOrder(d) /\ Agree(d, r, W, FALSE) /\ d.SystemState = 1
  /\ CutsKept(Contents(s), r, W) /\ FadeRates(d) /\ SamplesHold(Contents(s), d, r, W)
  /\ OutputsKept(s, d, W) /\ VolumeKept(Contents(s), d, W)

LEMMA FreqRange ==
  ASSUME NEW f \in Freqs
  PROVE  20 <= f /\ 20000 >= f
BY SMT DEF Freqs

LEMMA CutsKeptStep ==
  ASSUME NEW d, NEW m, NEW e, NEW r, NEW q, NEW W, NEW V, Step(d, m, e, r, q, W, V),
         NEW s, Ordered(s, m, W), CutsHold(d, r, W), CutsKept(Contents(s), r, W)
  PROVE  CutsKept(Contents(s), q, V)
<1>1. m \in Word /\ m \in Msg /\ Recorded(m) /\ IsStore(W) /\ V = Replaced(W, m)
  BY StepFacts
<1>2. q = Note(r, d, m)
  BY DEF Step
<1>3. SUFFICES ASSUME NEW c \in Channels, Fits(Contents(s), c),
                      NEW w \in V, w \in HighWords(c) \cup LowWords(c)
      PROVE  get_cmd_id(w) \notin q
  BY DEF CutsKept
<1>4. w = m \/ (w \in W /\ get_cmd_id(w) # get_cmd_id(m))
  BY <1>1, ReplacedStore
<1>5. CASE w # m
  BY <1>2, <1>3, <1>4, <1>5 DEF CutsKept, Note
<1>6. CASE w = m
  <2>1. m.op = 0 /\ Para23(m) \in Freqs /\ m \in Contents(s)
    BY <1>3, <1>6 DEF Fits, Ordered
  <2>2. W \subseteq Contents(s)
    BY DEF Ordered
  <2>3. CASE m \in HighWords(c)
    <3>1. d.LowCutFreq[c] <= Para23(m)
      <4>1. CASE W \cap LowWords(c) = {}
        <5>1. d.LowCutFreq[c] = Default.LowCutFreq[c]
          BY <4>1 DEF CutsHold, Holds
        <5>2. Default.LowCutFreq[c] = 20
          BY DefaultFields, SMT
        <5>3. 20 <= Para23(m)
          BY <2>1, FreqRange, SMT
        <5> QED
          BY <5>1, <5>2, <5>3, SMT
      <4>2. CASE W \cap LowWords(c) # {}
        <5>1. PICK l \in W \cap LowWords(c) : TRUE
          BY <4>2
        <5>2. get_cmd_id(l) \notin r
          BY <1>3, <5>1 DEF CutsKept
        <5>3. d.LowCutFreq[c] = FreqOf[l] /\ FreqOf[l] = Para23(l)
          BY <5>1, <5>2 DEF CutsHold, Holds, FreqOf, LowWords
        <5>4. Para23(l) <= Para23(m)
          BY <1>3, <2>1, <2>2, <2>3, <5>1 DEF Fits
        <5> QED
          BY <5>3, <5>4
      <4> QED
        BY <4>1, <4>2
    <3>2. IsCut(m) /\ m.type = 4 /\ m.param1 = c
      BY <2>3 DEF HighWords, IsHigh, Is, IsCut
    <3>3. CutTaken(d, m)
      BY <2>1, <3>1, <3>2, SMT DEF CutTaken, Freqs
    <3> QED
      BY <1>1, <1>2, <1>6, <2>1, <3>2, <3>3, TakenIs DEF Note
  <2>4. CASE m \in LowWords(c)
    <3>1. d.HighCutFreq[c] >= Para23(m)
      <4>1. CASE W \cap HighWords(c) = {}
        <5>1. d.HighCutFreq[c] = Default.HighCutFreq[c]
          BY <4>1 DEF CutsHold, Holds
        <5>2. Default.HighCutFreq[c] = 20000
          BY DefaultFields, SMT
        <5>3. 20000 >= Para23(m)
          BY <2>1, FreqRange, SMT
        <5> QED
          BY <5>1, <5>2, <5>3, SMT
      <4>2. CASE W \cap HighWords(c) # {}
        <5>1. PICK h \in W \cap HighWords(c) : TRUE
          BY <4>2
        <5>2. get_cmd_id(h) \notin r
          BY <1>3, <5>1 DEF CutsKept
        <5>3. d.HighCutFreq[c] = FreqOf[h] /\ FreqOf[h] = Para23(h)
          BY <5>1, <5>2 DEF CutsHold, Holds, FreqOf, HighWords
        <5>4. Para23(m) <= Para23(h)
          BY <1>3, <2>1, <2>2, <2>4, <5>1 DEF Fits
        <5>5. Para23(h) \in Nat /\ Para23(m) \in Nat
          BY <1>1, <5>1, Values DEF HighWords, Word
        <5> QED
          BY <5>3, <5>4, <5>5, SMT
      <4> QED
        BY <4>1, <4>2
    <3>2. IsCut(m) /\ m.type = 5 /\ m.param1 = c
      BY <2>4 DEF LowWords, IsLow, Is, IsCut
    <3>3. CutTaken(d, m)
      BY <2>1, <3>1, <3>2, SMT DEF CutTaken, Freqs
    <3> QED
      BY <1>1, <1>2, <1>6, <2>1, <3>2, <3>3, TakenIs DEF Note
  <2> QED
    BY <1>3, <1>6, <2>3, <2>4
<1> QED
  BY <1>5, <1>6

LEMMA FadeRatesStep ==
  ASSUME NEW d, NEW m, NEW e, NEW r, NEW q, NEW W, NEW V, Step(d, m, e, r, q, W, V),
         NEW s, Ordered(s, m, W), RateHolds(d, r, W), FadeRates(d)
  PROVE  FadeRates(e)
<1>1. m \in Word /\ m \in Msg /\ Params(d) /\ Effect(d, m, e)
  BY StepFacts
<1>2. d.SamplingRate \in [0..7 -> Rates] /\ d.FadeTime \in [{10, 11} -> Fade]
      /\ d.InputXtype \in 0..7
  BY <1>1 DEF Params
<1>3. e.SamplingRate[0] = d.SamplingRate[0]
  <2>1. RateEffect(d, m, e)
    BY <1>1 DEF Effect
  <2>2. CASE Taken(d, m) /\ IsRate(m)
    <3>1. PICK i \in 1..7 : i = m.key - 1
      BY <2>2, SMT DEF IsRate
    <3>2. e.SamplingRate = [d.SamplingRate EXCEPT ![i] = Rate(m.param1)]
      BY <2>1, <2>2, <3>1 DEF RateEffect
    <3>3. i # 0
      BY SMT
    <3> QED
      BY <1>2, <3>2, <3>3
  <2>3. CASE ~(Taken(d, m) /\ IsRate(m))
    BY <2>1, <2>3 DEF RateEffect
  <2> QED
    BY <2>2, <2>3
<1>4. FadeEffect(d, m, e)
  BY <1>1 DEF Effect
<1>5. ASSUME NEW t \in {10, 11}
      PROVE  e.FadeTime[t].rate \in {0, 48000}
  <2>1. CASE Taken(d, m) /\ IsFade(m) /\ m.type = t
    <3>1. e.FadeTime = [d.FadeTime EXCEPT ![t] =
                         [time |-> m.param1, rate |-> d.SamplingRate[d.InputXtype]]]
      BY <1>4, <2>1, SMT DEF FadeEffect
    <3>2. e.FadeTime[t].rate = d.SamplingRate[d.InputXtype]
      BY <1>2, <3>1
    <3>3. \A w \in W : ~(w.key \in 2..8)
      <4>1. m.key = 1
        BY <2>1 DEF IsFade
      <4>2. \A w \in W : w.key <= 1
        BY <4>1 DEF Ordered
      <4> QED
        BY <4>2, SMT
    <3>4. \A k \in 2..8 : d.SamplingRate[k - 1] = Default.SamplingRate[k - 1]
      <4>1. \A k \in 2..8 : W \cap RateWords(k) = {}
        BY <3>3 DEF RateWords, Is
      <4> QED
        BY <4>1 DEF RateHolds, Holds
    <3>5. \A i \in 0..7 : d.SamplingRate[i] = Default.SamplingRate[i]
      <4> SUFFICES ASSUME NEW i \in 0..7 PROVE d.SamplingRate[i] = Default.SamplingRate[i]
        OBVIOUS
      <4>1. CASE i = 0
        BY <4>1 DEF FadeRates
      <4>2. CASE i # 0
        <5>1. PICK k \in 2..8 : k - 1 = i
          <6>1. i + 1 \in 2..8 /\ (i + 1) - 1 = i
            BY <4>2, SMT
          <6> QED
            BY <6>1
        <5> QED
          BY <3>4, <5>1
      <4> QED
        BY <4>1, <4>2
    <3>6. \A i \in 0..7 : Default.SamplingRate[i] = 48000
      BY DefaultFields, SMT
    <3> QED
      BY <1>2, <3>2, <3>5, <3>6, SMT
  <2>2. CASE ~(Taken(d, m) /\ IsFade(m) /\ m.type = t)
    <3>1. e.FadeTime[t] = d.FadeTime[t]
      BY <1>2, <1>4, <2>2, SMT DEF FadeEffect, IsFade
    <3> QED
      BY <3>1, SMT DEF FadeRates
  <2> QED
    BY <2>1, <2>2
<1> QED
  BY <1>3, <1>5 DEF FadeRates

\* Words other than cuts that are stored and in range were not refused.
LEMMA FixedNoted ==
  ASSUME NEW r, NEW W, Noted(r, W), NEW w \in W, Fixed(w), ~IsCut(w)
  PROVE  get_cmd_id(w) \notin r
BY DEF Noted

\* When a delay is sent the input and its rate are known.
LEMMA RateKnown ==
  ASSUME NEW d, Params(d), NEW r, NEW W, NEW s, NEW m, Ordered(s, m, W), m.key = 11,
         Noted(r, W), RateHolds(d, r, W), InputHolds(d, r, W, FALSE), d.SystemState = 1,
         NEW g \in 1..6, NEW R, RateGiven(Contents(s), g, R)
  PROVE  d.InputXtype = g /\ d.SamplingRate[g] = R
<1>1. \A w \in Contents(s) : w.key < 11 => w \in W
  BY DEF Ordered
<1>2. W \subseteq Contents(s)
  BY DEF Ordered
<1>3. InputWord(g) \in W
  <2>1. InputWord(g) \in Contents(s) /\ InputWord(g).key = 1
    BY InputWordIs DEF RateGiven
  <2> QED
    BY <1>1, <2>1, SMT
<1>4. d.LastInputXtype = g
  <2>1. get_cmd_id(InputWord(g)) \notin r
    BY <1>3, InputWordIs, FixedNoted
  <2>2. Holds(W, r, InputWords, FirstOf, d.LastInputXtype, 0)
    BY DEF InputHolds
  <2>3. d.LastInputXtype = FirstOf[InputWord(g)]
    BY <1>3, <2>1, <2>2, InputWordIs DEF Holds
  <2> QED
    BY <2>3, InputWordIs
<1>5. d.InputXtype = g
  <2>1. d.SystemState # ALIGNMENT
    BY SMT DEF ALIGNMENT
  <2> QED
    BY <1>4, <2>1 DEF InputHolds
<1>6. PICK k \in 2..8 : k = g + 1 /\ k - 1 = g
  <2>1. g + 1 \in 2..8 /\ (g + 1) - 1 = g
    BY SMT
  <2> QED
    BY <2>1
<1>7. W \cap RateWords(k) = Contents(s) \cap RateWords(k)
  <2>1. \A w \in RateWords(k) : w.key < 11
    BY SMT DEF RateWords, Is
  <2> QED
    BY <1>1, <1>2, <2>1
<1>8. Holds(W, r, RateWords(k), RateOf, d.SamplingRate[g], Default.SamplingRate[g])
  BY <1>6 DEF RateHolds
<1>9. d.SamplingRate[g] = R
  <2>1. CASE W \cap RateWords(k) = {}
    BY <1>6, <1>7, <1>8, <2>1 DEF Holds, RateGiven
  <2>2. CASE W \cap RateWords(k) # {}
    <3>1. PICK w \in W \cap RateWords(k) : TRUE
      BY <2>2
    <3>2. Fixed(w) /\ Rate(w.param1) = R
      BY <1>6, <1>7, <3>1 DEF RateGiven
    <3>3. w \in Word /\ ~IsCut(w)
      BY <3>1, SMT DEF RateWords, Is, IsCut
    <3>4. get_cmd_id(w) \notin r
      BY <3>1, <3>2, <3>3, FixedNoted
    <3>5. d.SamplingRate[g] = RateOf[w]
      BY <1>8, <3>1, <3>4 DEF Holds
    <3> QED
      BY <3>2, <3>3, <3>5 DEF RateOf
  <2> QED
    BY <2>1, <2>2
<1> QED
  BY <1>5, <1>9

LEMMA SamplesStep ==
  ASSUME NEW d, NEW m, NEW e, NEW r, NEW q, NEW W, NEW V, Step(d, m, e, r, q, W, V),
         NEW s, Ordered(s, m, W), Agree(d, r, W, FALSE), d.SystemState = 1,
         SamplesHold(Contents(s), d, r, W)
  PROVE  SamplesHold(Contents(s), e, q, V)
<1>1. m \in Word /\ Recorded(m) /\ IsStore(W) /\ V = Replaced(W, m) /\ Params(d) /\ Effect(d, m, e)
  BY StepFacts
<1>2. PICK t \in BOOLEAN : /\ t <=> Taken(d, m)
                           /\ q = IF t THEN r \ {get_cmd_id(m)} ELSE r \cup {get_cmd_id(m)}
  BY StepFacts
<1>3. d.samples \in [Channels -> 0..LIMIT]
  BY <1>1 DEF Params
<1>4. SUFFICES ASSUME NEW g \in 1..6, NEW R \in Rates, RateGiven(Contents(s), g, R),
                      NEW c \in Channels
      PROVE  Holds(V, q, DelayWords(c), SampleOf(R), e.samples[c], 0)
  BY DEF SamplesHold
<1>5. IsSlot(DelayWords(c)) /\ Holds(W, r, DelayWords(c), SampleOf(R), d.samples[c], 0)
  BY <1>4, Slots DEF SamplesHold
<1>6. DelayEffect(d, m, e)
  BY <1>1 DEF Effect
<1>7. ASSUME m \in DelayWords(c), t
      PROVE  e.samples[c] = SampleOf(R)[m]
  <2>1. IsDelay(m) /\ m.param1 = c /\ m.key = 11
    BY <1>7 DEF DelayWords, IsDelay, Is
  <2>2. d.InputXtype = g /\ d.SamplingRate[g] = R
    <3>1. Noted(r, W) /\ RateHolds(d, r, W) /\ InputHolds(d, r, W, FALSE)
      BY DEF Agree
    <3> QED
      BY <1>1, <1>4, <2>1, <3>1, RateKnown, ZenonT(60)
  <2>3. W \cap DelayWords(c) = {}
    <3> SUFFICES ASSUME NEW w \in W, w \in DelayWords(c) PROVE FALSE
      OBVIOUS
    <3>1. SameSlot(w, m)
      BY <1>1, <1>5, <1>7 DEF IsSlot
    <3>2. w \in Msg /\ m \in Msg /\ Recorded(w)
      BY <1>1 DEF IsStore, Word
    <3> QED
      BY <1>1, <3>1, <3>2, IdSlot DEF Ordered
  <2>4. d.samples[c] = 0
    BY <1>5, <2>3 DEF Holds
  <2>5. PICK val : val = Samples(R, DelayOf(m))
    OBVIOUS
  <2>6. e.samples = [d.samples EXCEPT ![c] = IF val > LIMIT THEN d.samples[c] ELSE val]
    BY <1>2, <1>3, <1>6, <1>7, <2>1, <2>2, <2>5 DEF DelayEffect
  <2>7. e.samples[c] = IF val > LIMIT THEN 0 ELSE val
    BY <1>3, <2>4, <2>6
  <2> QED
    BY <1>1, <2>5, <2>7 DEF SampleOf
<1>8. ~(m \in DelayWords(c) /\ t) => e.samples[c] = d.samples[c]
  BY <1>1, <1>2, <1>3, <1>6, SMT DEF DelayEffect, DelayWords
<1> QED
  BY <1>1, <1>2, <1>5, <1>7, <1>8, HoldsStep

LEMMA OutputsStep ==
  ASSUME NEW d, NEW m, NEW e, NEW r, NEW q, NEW W, NEW V, Step(d, m, e, r, q, W, V),
         NEW s, Good(s), Ordered(s, m, W), Agree(d, r, W, FALSE), OutputsKept(s, d, W)
  PROVE  OutputsKept(s, e, V)
<1>1. m \in Word /\ m \in Msg /\ Recorded(m) /\ IsStore(W) /\ V = Replaced(W, m) /\ Params(d)
      /\ Effect(d, m, e)
  BY StepFacts
<1>2. SUFFICES ASSUME NEW c \in Channels, NEW b \in 1..3, OutFits(s, c, b),
                      NEW w \in V, w \in DivWords(c, b + 3)
      PROVE  e.route[c][b] = Para23(w) - 1
  BY DEF OutputsKept
<1>3. w = m \/ (w \in W /\ get_cmd_id(w) # get_cmd_id(m))
  BY <1>1, ReplacedStore
<1>4. w.key = 15 /\ w.type = c /\ w.param1 = b + 3
  BY <1>2 DEF DivWords, Is1, Is
<1>5. CASE ~(m.key = 15 /\ m.type = c)
  <2>1. w \in W
    BY <1>3, <1>4, <1>5
  <2>2. e.route[c] = d.route[c]
    <3>1. CASE Taken(d, m) /\ IsDiv(m)
      <4>1. m.key = 15 /\ c # m.type /\ e = FreqDiv_Set(d, m)
        BY <1>1, <1>5, <3>1 DEF IsDiv, Effect, DivEffect
      <4> QED
        BY <1>1, <4>1, DivFacts
    <3>2. CASE ~(Taken(d, m) /\ IsDiv(m))
      BY <1>1, <3>2 DEF Effect, DivEffect
    <3> QED
      BY <3>1, <3>2
  <2> QED
    BY <1>2, <2>1, <2>2 DEF OutputsKept
<1>6. CASE m.key = 15 /\ m.type = c
  <2>1. \A x \in Word : x.key = 15 => Fixed(x) /\ ~IsCut(x)
    <3>1. \A x \in Word : x.key = 15 => x.type \in 1..14
      BY ParamAssumption DEF Word
    <3> QED
      BY <3>1, SMT DEF Fixed, IsCut
  <2>2. e = FreqDiv_Set(d, m)
    <3>1. Taken(d, m)
      BY <1>1, <1>6, <2>1, TakenIs
    <3> QED
      BY <1>1, <1>6, <3>1 DEF Effect, DivEffect, IsDiv
  <2>3. PICK i \in 1..Len(s[15]) :
          /\ m = s[15][i]
          /\ \A x \in W : x.key = 15 => \E j \in 1..(i - 1) : x = s[15][j]
          /\ \A j \in 1..(i - 1) : s[15][j] \in W
    BY <1>6 DEF Ordered
  <2>4. PICK l \in 1..i : w = s[15][l] /\ (w # m => l \in 1..(i - 1))
    <3>1. CASE w = m
      <4>1. i \in 1..i
        OBVIOUS
      <4> QED
        BY <2>3, <3>1, <4>1
    <3>2. CASE w # m
      <4>1. PICK j \in 1..(i - 1) : w = s[15][j]
        BY <1>3, <1>4, <2>3, <3>2
      <4>2. j \in 1..i
        BY <4>1
      <4> QED
        BY <4>1, <4>2
    <3> QED
      BY <3>1, <3>2
  <2>5. l \in 1..Len(s[15])
    BY <2>3, <2>4
  <2>6. \A n \in 1..Len(s[15]) : s[15][n] \in DivWords(c, 1) => n < l
    BY <1>2, <2>4, <2>5 DEF OutFits
  <2>7. m.param1 # 1
    <3> SUFFICES ASSUME m.param1 = 1 PROVE FALSE
      OBVIOUS
    <3>1. m \in DivWords(c, 1)
      BY <1>1, <1>6 DEF DivWords, Is1, Is
    <3>2. i < l
      BY <2>3, <2>6, <3>1
    <3> QED
      BY <2>4, <3>2
  <2>8. b <= d.FreqDivVal[c][1]
    <3>1. Holds(W, r, DivWords(c, 1), FreqOf, d.FreqDivVal[c][1], 1)
      BY DEF Agree, NumberHolds
    <3>2. W \subseteq Contents(s)
      BY DEF Ordered
    <3>3. CASE W \cap DivWords(c, 1) = {}
      <4>1. Contents(s) \cap DivWords(c, 1) = {}
        <5> SUFFICES ASSUME NEW x \in Contents(s), x \in DivWords(c, 1) PROVE FALSE
          OBVIOUS
        <5>1. x.key = 15
          BY DEF DivWords, Is1, Is
        <5>2. PICK n \in 1..Len(s[15]) : x = s[15][n]
          <6>1. \E n \in 1..Len(s[x.key]) : x = s[x.key][n]
            BY InTable
          <6> QED
            BY <5>1, <6>1
        <5>3. n < l /\ l <= i
          BY <2>4, <2>6, <5>2
        <5>4. n \in 1..(i - 1)
          BY <5>2, <5>3
        <5> QED
          BY <2>3, <3>3, <5>2, <5>4
      <4>2. d.FreqDivVal[c][1] = 1
        BY <3>1, <3>3 DEF Holds
      <4> QED
        BY <1>2, <4>1, <4>2 DEF OutFits
    <3>4. CASE W \cap DivWords(c, 1) # {}
      <4>1. PICK x \in W \cap DivWords(c, 1) : TRUE
        BY <3>4
      <4>2. x \in Word /\ Fixed(x) /\ ~IsCut(x)
        BY <2>1, <4>1 DEF DivWords, Is1, Is
      <4>3. get_cmd_id(x) \notin r
        BY <4>1, <4>2, FixedNoted DEF Agree
      <4>4. d.FreqDivVal[c][1] = Para23(x)
        BY <3>1, <4>1, <4>2, <4>3 DEF Holds, FreqOf
      <4> QED
        BY <1>2, <3>2, <4>1, <4>4 DEF OutFits
    <3> QED
      BY <3>3, <3>4
  <2>9. /\ e.FreqDivVal[c][1] = d.FreqDivVal[c][1]
        /\ b <= e.FreqDivVal[c][1] =>
             e.route[c][b] = IF m.param1 = b + 3 THEN Para23(m) - 1 ELSE d.route[c][b]
    BY <1>1, <1>6, <2>2, <2>7, DivFacts
  <2>10. CASE w = m
    BY <1>4, <2>8, <2>9, <2>10
  <2>11. CASE w # m
    <3>1. w \in W /\ get_cmd_id(w) # get_cmd_id(m)
      BY <1>3, <2>11
    <3>2. m.param1 # b + 3
      <4> SUFFICES ASSUME m.param1 = b + 3 PROVE FALSE
        OBVIOUS
      <4>1. m \in DivWords(c, b + 3)
        BY <1>1, <1>6 DEF DivWords, Is1, Is
      <4>2. IsSlot(DivWords(c, b + 3))
        BY Slots
      <4>3. SameSlot(w, m) /\ w \in Msg /\ Recorded(w)
        BY <1>1, <1>2, <4>1, <4>2, <3>1 DEF IsSlot, IsStore, Word
      <4> QED
        BY <1>1, <3>1, <4>3, IdSlot
    <3>3. d.route[c][b] = Para23(w) - 1
      BY <1>2, <3>1 DEF OutputsKept
    <3> QED
      BY <2>8, <2>9, <3>2, <3>3
  <2> QED
    BY <2>10, <2>11
<1> QED
  BY <1>5, <1>6

LEMMA VolumeStep ==
  ASSUME NEW d, NEW m, NEW e, NEW r, NEW q, NEW W, NEW V, Step(d, m, e, r, q, W, V),
         NEW s, Ordered(s, m, W), VolumeKept(Contents(s), d, W)
  PROVE  VolumeKept(Contents(s), e, V)
<1>1. m \in Word /\ m \in Msg /\ Recorded(m) /\ IsStore(W) /\ V = Replaced(W, m) /\ Effect(d, m, e)
  BY StepFacts
<1>2. \A w \in V : w = m \/ (w \in W /\ get_cmd_id(w) # get_cmd_id(m))
  BY <1>1, ReplacedStore
<1>3. VolumeEffect(d, m, e)
  BY <1>1 DEF Effect
<1>4. IsVolume(m) => (Taken(d, m) <=> Fixed(m))
  <2>1. IsVolume(m) => ~IsCut(m)
    BY SMT DEF IsVolume, IsCut, Is
  <2> QED
    BY <1>1, <2>1, TakenIs
<1>5. CASE IsVolume(m) /\ Taken(d, m)
  <2>1. e.count = m.param2 /\ e.knobvolume = m.param2 /\ e.gain = m.param2 - 90
    BY <1>3, <1>5 DEF VolumeEffect
  <2>2. ASSUME \A w \in Contents(s) : IsVolume(w) => w.param1 = 0,
               NEW v \in 0..96, VolumeWord(v) \in V
        PROVE  e.count = v
    <3>1. CASE VolumeWord(v) = m
      BY <2>1, <3>1, VolumeWordIs
    <3>2. CASE VolumeWord(v) # m
      <4>1. get_cmd_id(VolumeWord(v)) # get_cmd_id(m)
        BY <1>2, <2>2, <3>2
      <4>2. m.param1 = 0
        BY <1>5, <2>2 DEF Ordered
      <4>3. SameSlot(VolumeWord(v), m)
        <5>1. PICK x : x = VolumeWord(v)
          OBVIOUS
        <5>2. IsVolume(x) /\ x.param1 = 0
          BY <5>1, VolumeWordIs
        <5>3. SameSlot(x, m)
          BY <1>5, <4>2, <5>2, Indices, SMT DEF SameSlot, IsVolume, Is
        <5> QED
          BY <5>1, <5>3
      <4>4. VolumeWord(v) \in Msg /\ Recorded(VolumeWord(v))
        BY VolumeWordIs DEF Word
      <4> QED
        BY <1>1, <4>1, <4>3, <4>4, IdSlot
    <3> QED
      BY <3>1, <3>2
  <2> QED
    BY <2>1, <2>2 DEF VolumeKept
<1>6. CASE ~(IsVolume(m) /\ Taken(d, m))
  <2>1. e.count = d.count /\ e.knobvolume = d.knobvolume /\ e.gain = d.gain
    BY <1>3, <1>6 DEF VolumeEffect
  <2>2. \A w \in V : IsVolume(w) /\ Fixed(w) => w \in W
    BY <1>2, <1>4, <1>6
  <2>3. \A v \in 0..96 : VolumeWord(v) \in V => VolumeWord(v) \in W
    BY <2>2, VolumeWordIs
  <2> QED
    BY <2>1, <2>2, <2>3 DEF VolumeKept
<1> QED
  BY <1>5, <1>6

LEMMA SendingStep ==
  ASSUME NEW s, Good(s), NEW k \in TableKeys, NEW i \in 1..Len(s[k]), NEW m, m = s[k][i],
         NEW d, NEW r, Sending(s, d, r, Sent(s, k, i - 1)),
         NEW e, e = Decode(d, m), NEW q, q = Note(r, d, m)
  PROVE  Sending(s, e, q, Sent(s, k, i))
<1>1. PICK W : W = Sent(s, k, i - 1)
  OBVIOUS
<1>2. PICK V : V = Sent(s, k, i)
  OBVIOUS
<1>3. Ordered(s, m, W) /\ IsStore(W) /\ m \in Word /\ Recorded(m) /\ V = Replaced(W, m)
  BY <1>1, <1>2, SentNext
<1>4. /\ Params(d) /\ CutOrder(d) /\ Agree(d, r, W, FALSE) /\ d.SystemState = 1
      /\ CutsKept(Contents(s), r, W) /\ FadeRates(d) /\ SamplesHold(Contents(s), d, r, W)
      /\ OutputsKept(s, d, W) /\ VolumeKept(Contents(s), d, W)
  BY <1>1 DEF Sending
<1>5. Step(d, m, e, r, q, W, V)
  BY <1>3, <1>4 DEF Step
<1>6. Params(e) /\ CutOrder(e)
  BY <1>3, <1>4, DecodeTypes
<1>7. ~IsState(m)
  BY <1>3, KindRecorded
<1>8. Agree(e, q, V, FALSE)
  <2>1. Agree(e, q, V, Realigned(FALSE, d, m))
    BY <1>4, <1>5, AgreeStep
  <2>2. Realigned(FALSE, d, m) = FALSE
    BY <1>7, RealignedIs DEF IsState
  <2> QED
    BY <2>1, <2>2
<1>9. e.SystemState = 1
  BY <1>4, <1>5, <1>7, StepFacts DEF Effect, TypeEffect
<1>10. CutsKept(Contents(s), q, V)
  BY <1>3, <1>4, <1>5, CutsKeptStep DEF Agree
<1>11. FadeRates(e)
  BY <1>3, <1>4, <1>5, FadeRatesStep DEF Agree
<1>12. SamplesHold(Contents(s), e, q, V)
  BY <1>3, <1>4, <1>5, SamplesStep
<1>13. OutputsKept(s, e, V)
  <2>1. Ordered(s, m, W)
    BY <1>3
  <2>2. Agree(d, r, W, FALSE)
    BY <1>4
  <2>3. OutputsKept(s, d, W)
    BY <1>4
  <2> QED
    BY <1>5, <2>1, <2>2, <2>3, OutputsStep
<1>14. VolumeKept(Contents(s), e, V)
  BY <1>3, <1>4, <1>5, VolumeStep
<1> QED
  BY <1>2, <1>6, <1>8, <1>9, <1>10, <1>11, <1>12, <1>13, <1>14 DEF Sending

\* The inner loop is the iteration of SendWord,
LEMMA SendTableLoop ==
  ASSUME NEW x, NEW t, Len(t) \in Nat
  PROVE  \E f : /\ f[0] = x
                /\ \A i \in 1..Len(t) : f[i] = SendWord(f[i - 1], t[i])
                /\ SendTable(x, t) = f[Len(t)]
<1> DEFINE n == Len(t)
           Part(m, f) == \A i \in 0..m : f[i] = IF i = 0 THEN x ELSE SendWord(f[i - 1], t[i])
           F(f) == [i \in 0..n |-> IF i = 0 THEN x ELSE SendWord(f[i - 1], t[i])]
           S == {m \in 0..n : \E f : Part(m, f)}
<1>0. n \in Nat
  OBVIOUS
<1> HIDE DEF n
<1>1. 0 \in S
  <2> DEFINE g == [i \in 0..0 |-> x]
  <2>1. Part(0, g)
    OBVIOUS
  <2> HIDE DEF g
  <2> QED
    BY <1>0, <2>1
<1>2. ASSUME NEW m \in 1..n, m - 1 \in S PROVE m \in S
  <2>1. PICK f : Part(m - 1, f)
    BY <1>2
  <2>2. PICK y : y = SendWord(f[m - 1], t[m])
    OBVIOUS
  <2> DEFINE g == [i \in 0..m |-> IF i = m THEN y ELSE f[i]]
  <2>3. g[m] = y /\ \A i \in 0..(m - 1) : g[i] = f[i]
    BY <1>0
  <2> HIDE DEF g
  <2>4. ASSUME NEW i \in 0..m
        PROVE  g[i] = IF i = 0 THEN x ELSE SendWord(g[i - 1], t[i])
    <3>1. CASE i = m
      <4>1. i # 0 /\ g[i - 1] = f[i - 1]
        BY <1>0, <2>3, <3>1
      <4> QED
        BY <2>2, <2>3, <3>1, <4>1
    <3>2. CASE i # m
      <4>1. i \in 0..(m - 1) /\ (i # 0 => i - 1 \in 0..(m - 1))
        BY <1>0, <3>2
      <4>2. f[i] = IF i = 0 THEN x ELSE SendWord(f[i - 1], t[i])
        BY <2>1, <4>1
      <4>3. g[i] = f[i] /\ (i # 0 => g[i - 1] = f[i - 1])
        BY <2>3, <4>1
      <4> QED
        BY <4>2, <4>3
    <3> QED
      BY <3>1, <3>2
  <2>5. Part(m, g)
    BY <2>4
  <2> QED
    BY <1>0, <2>5
<1>3. n \in S
  <2> HIDE DEF S
  <2>1. \A i \in 0..n : i \in S
    BY <1>0, <1>1, <1>2, Upwards
  <2> QED
    BY <1>0, <2>1
<1>4. \E f : f = F(f)
  <2>1. PICK f : Part(n, f)
    BY <1>3
  <2> DEFINE g == [i \in 0..n |-> f[i]]
  <2>2. \A i \in 0..n : g[i] = f[i]
    OBVIOUS
  <2>3. \A i \in 0..n : i # 0 => i - 1 \in 0..n
    BY <1>0
  <2>4. \A i \in 0..n : f[i] = IF i = 0 THEN x ELSE SendWord(g[i - 1], t[i])
    <3> HIDE DEF g
    <3> QED
      BY <2>1, <2>2, <2>3
  <2>5. g = F(g)
    BY <2>4
  <2> QED
    BY <2>5
<1> DEFINE c == CHOOSE f : f = F(f)
<1>5. c = F(c)
  BY <1>4
<1>6. SendTable(x, t) = c[n]
  BY DEF SendTable, n
<1> HIDE DEF c
<1>7. c[0] = x /\ \A i \in 1..n : c[i] = SendWord(c[i - 1], t[i])
  <2>1. \A i \in 0..n : c[i] = IF i = 0 THEN x ELSE SendWord(c[i - 1], t[i])
    BY <1>5
  <2>2. 0 \in 0..n /\ \A i \in 1..n : i \in 0..n /\ i # 0
    BY <1>0
  <2> QED
    BY <2>1, <2>2
<1> QED
  BY <1>6, <1>7 DEF n

\* and the outer loop that of SendTable.
LEMMA ReplayLoop ==
  ASSUME NEW s
  PROVE  \E f : /\ f[0] = [d |-> Default, r |-> {}]
                /\ \A i \in 1..12 : f[i] = SendTable(f[i - 1], s[GroupOrder[i]])
                /\ Replay(s) = [d |-> InitDone(f[12].d), r |-> f[12].r]
<1> DEFINE n == Len(GroupOrder)
           Part(m, f) == \A i \in 0..m : f[i] = IF i = 0 THEN [d |-> Default, r |-> {}] ELSE SendTable(f[i - 1], s[GroupOrder[i]])
           F(f) == [i \in 0..n |-> IF i = 0 THEN [d |-> Default, r |-> {}] ELSE SendTable(f[i - 1], s[GroupOrder[i]])]
           S == {m \in 0..n : \E f : Part(m, f)}
<1>0. n \in Nat
  BY SMT DEF GroupOrder
<1> HIDE DEF n
<1>1. 0 \in S
  <2> DEFINE g == [i \in 0..0 |-> [d |-> Default, r |-> {}]]
  <2>1. Part(0, g)
    OBVIOUS
  <2> HIDE DEF g
  <2> QED
    BY <1>0, <2>1
<1>2. ASSUME NEW m \in 1..n, m - 1 \in S PROVE m \in S
  <2>1. PICK f : Part(m - 1, f)
    BY <1>2
  <2>2. PICK y : y = SendTable(f[m - 1], s[GroupOrder[m]])
    OBVIOUS
  <2> DEFINE g == [i \in 0..m |-> IF i = m THEN y ELSE f[i]]
  <2>3. g[m] = y /\ \A i \in 0..(m - 1) : g[i] = f[i]
    BY <1>0
  <2> HIDE DEF g
  <2>4. ASSUME NEW i \in 0..m
        PROVE  g[i] = IF i = 0 THEN [d |-> Default, r |-> {}] ELSE SendTable(g[i - 1], s[GroupOrder[i]])
    <3>1. CASE i = m
      <4>1. i # 0 /\ g[i - 1] = f[i - 1]
        BY <1>0, <2>3, <3>1
      <4> QED
        BY <2>2, <2>3, <3>1, <4>1
    <3>2. CASE i # m
      <4>1. i \in 0..(m - 1) /\ (i # 0 => i - 1 \in 0..(m - 1))
        BY <1>0, <3>2
      <4>2. f[i] = IF i = 0 THEN [d |-> Default, r |-> {}] ELSE SendTable(f[i - 1], s[GroupOrder[i]])
        BY <2>1, <4>1
      <4>3. g[i] = f[i] /\ (i # 0 => g[i - 1] = f[i - 1])
        BY <2>3, <4>1
      <4> QED
        BY <4>2, <4>3
    <3> QED
      BY <3>1, <3>2
  <2>5. Part(m, g)
    BY <2>4
  <2> QED
    BY <1>0, <2>5
<1>3. n \in S
  <2> HIDE DEF S
  <2>1. \A i \in 0..n : i \in S
    BY <1>0, <1>1, <1>2, Upwards
  <2> QED
    BY <1>0, <2>1
<1>4. \E f : f = F(f)
  <2>1. PICK f : Part(n, f)
    BY <1>3
  <2> DEFINE g == [i \in 0..n |-> f[i]]
  <2>2. \A i \in 0..n : g[i] = f[i]
    OBVIOUS
  <2>3. \A i \in 0..n : i # 0 => i - 1 \in 0..n
    BY <1>0
  <2>4. \A i \in 0..n : f[i] = IF i = 0 THEN [d |-> Default, r |-> {}] ELSE SendTable(g[i - 1], s[GroupOrder[i]])
    <3> HIDE DEF g
    <3> QED
      BY <2>1, <2>2, <2>3
  <2>5. g = F(g)
    BY <2>4
  <2> QED
    BY <2>5
<1> DEFINE c == CHOOSE f : f = F(f)
<1>5. c = F(c)
  BY <1>4
<1>6. Replay(s) = [d |-> InitDone(c[n].d), r |-> c[n].r]
  BY DEF Replay, n
<1> HIDE DEF c
<1>7. c[0] = [d |-> Default, r |-> {}] /\ \A i \in 1..n : c[i] = SendTable(c[i - 1], s[GroupOrder[i]])
  <2>1. \A i \in 0..n : c[i] = IF i = 0 THEN [d |-> Default, r |-> {}] ELSE SendTable(c[i - 1], s[GroupOrder[i]])
    BY <1>5
  <2>2. 0 \in 0..n /\ \A i \in 1..n : i \in 0..n /\ i # 0
    BY <1>0
  <2> QED
    BY <2>1, <2>2
<1>8. n = 12
  BY SMT DEF n, GroupOrder
<1> QED
  BY <1>6, <1>7, <1>8

\* A table is sent.
LEMMA TableSent ==
  ASSUME NEW s, Good(s), NEW k \in TableKeys, NEW x, Sending(s, x.d, x.r, Sent(s, k, 0)),
         NEW y, y = SendTable(x, s[k])
  PROVE  Sending(s, y.d, y.r, Sent(s, k, Len(s[k])))
<1>1. PICK n \in Nat : n = Len(s[k])
  BY DEF Good
<1>2. PICK f : /\ f[0] = x
               /\ \A i \in 1..n : f[i] = SendWord(f[i - 1], s[k][i])
               /\ y = f[n]
  BY <1>1, SendTableLoop
<1> DEFINE S == {i \in 0..n : Sending(s, f[i].d, f[i].r, Sent(s, k, i))}
<1>3. 0 \in S
  BY <1>2
<1>4. ASSUME NEW i \in 1..n, i - 1 \in S PROVE i \in S
  <2>1. PICK z : z = f[i - 1]
    OBVIOUS
  <2>2. PICK m : m = s[k][i]
    OBVIOUS
  <2>3. f[i].d = Decode(z.d, m) /\ f[i].r = Note(z.r, z.d, m)
    <3>1. f[i] = SendWord(z, m)
      BY <1>2, <2>1, <2>2
    <3> QED
      BY <3>1 DEF SendWord
  <2>4. Sending(s, z.d, z.r, Sent(s, k, i - 1))
    BY <1>4, <2>1
  <2>5. Sending(s, f[i].d, f[i].r, Sent(s, k, i))
    BY <1>1, <2>2, <2>3, <2>4, SendingStep
  <2> QED
    BY <2>5
<1> HIDE DEF S
<1>5. \A i \in 0..n : i \in S
  BY <1>3, <1>4, Upwards
<1>6. n \in S
  BY <1>5
<1> QED
  BY <1>1, <1>2, <1>6 DEF S

\* The groups are sent in the order of their numbers.
LEMMA Groups ==
  /\ \A n \in 1..12 : GroupOrder[n] \in TableKeys
  /\ \A k \in TableKeys : k <= 15 /\ ~(k < GroupOrder[1])
  /\ \A n \in 2..12 : \A k \in TableKeys : k < GroupOrder[n] <=> k <= GroupOrder[n - 1]
  /\ GroupOrder[12] = 15
<1>1. /\ GroupOrder[1] = 1 /\ GroupOrder[2] = 2 /\ GroupOrder[3] = 3 /\ GroupOrder[4] = 4
      /\ GroupOrder[5] = 5 /\ GroupOrder[6] = 6 /\ GroupOrder[7] = 7 /\ GroupOrder[8] = 8
      /\ GroupOrder[9] = 11 /\ GroupOrder[10] = 13 /\ GroupOrder[11] = 14 /\ GroupOrder[12] = 15
  BY SMT DEF GroupOrder
<1>2. \A k : k \in TableKeys <=> k \in (1..8) \cup {11, 13, 14, 15}
  BY SMT DEF TableKeys, CMD_GROUP_GENERAL, CMD_GROUP_INPUTS, CMD_GROUP_OUTPUT, CMD_GROUP_OTHER,
             CMD_GROUP_SOUND, CMD_GROUP_FERQ
<1> QED
  BY <1>1, <1>2, SMT

\* What was sent before a group are the groups before it.
LEMMA SentBetween ==
  ASSUME NEW s, Good(s)
  PROVE  /\ Sent(s, GroupOrder[1], 0) = {}
         /\ \A n \in 2..12 : Sent(s, GroupOrder[n], 0) =
                               Sent(s, GroupOrder[n - 1], Len(s[GroupOrder[n - 1]]))
         /\ Sent(s, 15, Len(s[15])) = Contents(s)
<1>1. \A k \in TableKeys : \A w \in Contents(s) :
         w.key = k <=> \E j \in 1..Len(s[k]) : w = s[k][j]
  BY InTable DEF Good
<1>2. \A k \in TableKeys : {s[k][j] : j \in 1..Len(s[k])} \subseteq Contents(s)
  BY InContents
<1>3. \A k \in TableKeys : Sent(s, k, Len(s[k])) = {w \in Contents(s) : w.key <= k}
  <2> SUFFICES ASSUME NEW k \in TableKeys
               PROVE  Sent(s, k, Len(s[k])) = {w \in Contents(s) : w.key <= k}
    OBVIOUS
  <2>0. k \in Nat /\ \A w \in Contents(s) : w.key \in Nat
    <3>1. \A l \in TableKeys : l \in Nat
      BY SMT DEF TableKeys, CMD_GROUP_GENERAL, CMD_GROUP_INPUTS, CMD_GROUP_OUTPUT, CMD_GROUP_OTHER,
                 CMD_GROUP_SOUND, CMD_GROUP_FERQ
    <3> QED
      BY <3>1, InTable
  <2>1. \A w \in Contents(s) : w.key <= k <=> w.key < k \/ w.key = k
    BY <2>0
  <2> QED
    BY <1>1, <1>2, <2>1 DEF Sent
<1>4. \A k \in TableKeys : Sent(s, k, 0) = {w \in Contents(s) : w.key < k}
  BY DEF Sent
<1>5. \A w \in Contents(s) : w.key \in TableKeys
  BY InTable
<1>6. Sent(s, GroupOrder[1], 0) = {}
  BY <1>4, <1>5, Groups
<1>7. ASSUME NEW n \in 2..12
      PROVE  Sent(s, GroupOrder[n], 0) = Sent(s, GroupOrder[n - 1], Len(s[GroupOrder[n - 1]]))
  <2>1. GroupOrder[n] \in TableKeys /\ GroupOrder[n - 1] \in TableKeys
    <3>1. n \in 1..12 /\ n - 1 \in 1..12
      OBVIOUS
    <3> QED
      BY <3>1, Groups
  <2>2. \A w \in Contents(s) : w.key < GroupOrder[n] <=> w.key <= GroupOrder[n - 1]
    BY <1>5, Groups
  <2> QED
    BY <1>3, <1>4, <2>1, <2>2
<1>8. Sent(s, 15, Len(s[15])) = Contents(s)
  <2>1. 15 \in TableKeys
    BY Groups, SMT
  <2>2. \A w \in Contents(s) : w.key <= 15
    BY <1>5, Groups
  <2> QED
    BY <1>3, <2>1, <2>2
<1> QED
  BY <1>6, <1>7, <1>8

\* A DSP that has just started.
LEMMA SendingStart ==
  ASSUME NEW s
  PROVE  Sending(s, Default, {}, {})
<1>1. Params(Default) /\ CutOrder(Default) /\ Agree(Default, {}, {}, FALSE)
  BY DefaultAgrees
<1>2. Default.SystemState = 1
  BY DefaultFields, SMT
<1>3. FadeRates(Default)
  <2>1. \A t \in {10, 11} : Default.FadeTime[t].rate = 0
    BY DefaultFields, SMT
  <2> QED
    BY <2>1, SMT DEF FadeRates
<1>4. SamplesHold(Contents(s), Default, {}, {})
  <2>1. \A c \in Channels : Default.samples[c] = 0
    BY DefaultFields, SMT
  <2> QED
    BY <2>1 DEF SamplesHold, Holds
<1>5. CutsKept(Contents(s), {}, {}) /\ OutputsKept(s, Default, {}) /\ VolumeKept(Contents(s), Default, {})
  BY DEF CutsKept, OutputsKept, VolumeKept
<1> QED
  BY <1>1, <1>2, <1>3, <1>4, <1>5 DEF Sending

\* The end of a start keeps what was reached.
LEMMA SendingEnd ==
  ASSUME NEW s, NEW d, NEW r, Sending(s, d, r, Contents(s)), NEW e, e = InitDone(d)
  PROVE  Sending(s, e, r, Contents(s))
<1>1. Params(d) /\ CutOrder(d) /\ Agree(d, r, Contents(s), FALSE)
  BY DEF Sending
<1>2. Params(e) /\ CutOrder(e) /\ Sets(d, e, {"route"})
  BY <1>1, InitDoneSets
<1>3. \A c \in Channels, b \in 1..3 :
         e.route[c][b] = IF d.FreqDivVal[c][1] < b THEN -1 ELSE d.route[c][b]
  BY <1>1, InitDoneSets
<1>4. Agree(e, r, Contents(s), FALSE)
  BY <1>1, InitDoneAgree
<1>5. /\ e.SystemState = d.SystemState /\ e.SamplingRate = d.SamplingRate /\ e.FadeTime = d.FadeTime
      /\ e.samples = d.samples /\ e.count = d.count /\ e.knobvolume = d.knobvolume /\ e.gain = d.gain
  BY <1>2, SMT DEF Sets
<1>6. OutputsKept(s, e, Contents(s))
  <2> SUFFICES ASSUME NEW c \in Channels, NEW b \in 1..3, OutFits(s, c, b),
                      NEW w \in Contents(s), w \in DivWords(c, b + 3)
               PROVE  e.route[c][b] = Para23(w) - 1
    BY DEF OutputsKept
  <2>1. d.route[c][b] = Para23(w) - 1
    BY DEF Sending, OutputsKept
  <2>2. Holds(Contents(s), r, DivWords(c, 1), FreqOf, d.FreqDivVal[c][1], 1)
    BY <1>1 DEF Agree, NumberHolds
  <2>3. b <= d.FreqDivVal[c][1] /\ d.FreqDivVal[c][1] \in Nat
    <3>1. d.FreqDivVal[c][1] \in Nat
      <4>1. d.FreqDivVal[c] \in [1..3 -> Nat]
        BY <1>1 DEF Params, Division
      <4> QED
        BY <4>1
    <3>2. CASE Contents(s) \cap DivWords(c, 1) = {}
      BY <2>2, <3>1, <3>2 DEF OutFits, Holds
    <3>3. CASE Contents(s) \cap DivWords(c, 1) # {}
      <4>1. PICK x \in Contents(s) \cap DivWords(c, 1) : TRUE
        BY <3>3
      <4>2. x \in Word /\ x.key = 15 /\ x.type \in 1..14
        BY <4>1, ParamAssumption DEF DivWords, Is1, Is, Word
      <4>3. Fixed(x) /\ ~IsCut(x)
        BY <4>2, SMT DEF Fixed, IsCut
      <4>4. get_cmd_id(x) \notin r
        BY <1>1, <4>1, <4>3, FixedNoted DEF Agree
      <4>5. d.FreqDivVal[c][1] = Para23(x)
        BY <2>2, <4>1, <4>2, <4>4 DEF Holds, FreqOf
      <4> QED
        BY <3>1, <4>1, <4>5 DEF OutFits
    <3> QED
      BY <3>1, <3>2, <3>3
  <2>4. ~(d.FreqDivVal[c][1] < b)
    BY <2>3
  <2> QED
    BY <1>3, <2>1, <2>4
<1>7. FadeRates(e) /\ SamplesHold(Contents(s), e, r, Contents(s)) /\ VolumeKept(Contents(s), e, Contents(s))
  BY <1>5 DEF Sending, FadeRates, SamplesHold, VolumeKept
<1> QED
  BY <1>2, <1>4, <1>5, <1>6, <1>7 DEF Sending

\* The replay of the tables to a DSP that has just started.
LEMMA ReplayResult ==
  ASSUME NEW s, Good(s), NEW D, D = Replay(s)
  PROVE  Sending(s, D.d, D.r, Contents(s))
<1>1. PICK f : /\ f[0] = [d |-> Default, r |-> {}]
               /\ \A i \in 1..12 : f[i] = SendTable(f[i - 1], s[GroupOrder[i]])
               /\ D = [d |-> InitDone(f[12].d), r |-> f[12].r]
  BY ReplayLoop
<1> DEFINE Upto(n) == IF n = 0 THEN {} ELSE Sent(s, GroupOrder[n], Len(s[GroupOrder[n]]))
           S == {n \in 0..12 : Sending(s, f[n].d, f[n].r, Upto(n))}
<1>2. 0 \in S
  BY <1>1, SendingStart
<1>3. ASSUME NEW n \in 1..12, n - 1 \in S PROVE n \in S
  <2>1. PICK k \in TableKeys : k = GroupOrder[n]
    BY Groups
  <2>2. Sent(s, k, 0) = Upto(n - 1)
    <3>1. CASE n = 1
      BY <2>1, <3>1, SentBetween
    <3>2. CASE n # 1
      <4>1. n \in 2..12 /\ n - 1 # 0
        BY <3>2
      <4> QED
        BY <2>1, <4>1, SentBetween
    <3> QED
      BY <3>1, <3>2
  <2>3. PICK x : x = f[n - 1]
    OBVIOUS
  <2>4. Sending(s, x.d, x.r, Sent(s, k, 0))
    BY <1>3, <2>2, <2>3
  <2>5. f[n] = SendTable(x, s[k])
    BY <1>1, <2>1, <2>3
  <2>6. Sending(s, f[n].d, f[n].r, Sent(s, k, Len(s[k])))
    BY <2>4, <2>5, TableSent
  <2>7. Upto(n) = Sent(s, k, Len(s[k]))
    BY <2>1
  <2> HIDE DEF Upto
  <2> QED
    BY <2>6, <2>7
<1> HIDE DEF S
<1>4. \A n \in 0..12 : n \in S
  BY <1>2, <1>3, Upwards
<1>5. 12 \in S
  BY <1>4
<1>6. Sending(s, f[12].d, f[12].r, Contents(s))
  <2>1. Sending(s, f[12].d, f[12].r, Upto(12))
    BY <1>5 DEF S
  <2>2. Upto(12) = Contents(s)
    BY SentBetween, Groups
  <2> QED
    BY <2>1, <2>2
<1>7. D.d = InitDone(f[12].d) /\ D.r = f[12].r
  BY <1>1
<1> QED
  BY <1>6, <1>7, SendingEnd

(***************************************************************************)
(* The invariant                                                           *)
(***************************************************************************)
\* What is left of KnobVolume_Set.
Writes(v) == << <<"count", v>>, <<"value", v>>, <<"power", v>>, <<"gain", v>> >>
LastThree(v) == << <<"value", v>>, <<"power", v>>, <<"gain", v>> >>
LastTwo(v) == << <<"power", v>>, <<"gain", v>> >>
LastOne(v) == << <<"gain", v>> >>

SettingOK ==
  \/ setting = <<>>
  \/ \E v \in 0..96 : \/ setting = Writes(v) \/ setting = LastThree(v)
                      \/ setting = LastTwo(v) \/ setting = LastOne(v)

\* The first write is done and another is left.
Writing(s) == \E v \in 0..96 : s = LastThree(v) \/ s = LastTwo(v) \/ s = LastOne(v)

\* The gain is that of the knob or of the PC, or the knob came between the
\* writes of the PC's volume.
GainBy(d, by) ==
  /\ by = "pc" => d.count = d.knobvolume /\ d.gain = d.knobvolume - 90
  /\ by = "knob" => d.count = d.knobvolume /\ d.gain = d.knobvolume - 96

VolumeInv ==
  /\ ~Writing(setting) => GainBy(dsp, volume_by)
  /\ \A v \in 0..96 : setting = LastThree(v) =>
       volume_by = "torn" \/ (volume_by = "pc" /\ dsp.count = v)
  /\ \A v \in 0..96 : setting = LastTwo(v) \/ setting = LastOne(v) =>
       volume_by = "torn" \/ (volume_by = "pc" /\ dsp.count = v /\ dsp.knobvolume = v)

Inv ==
  /\ session \in DOMAIN Sessions /\ upload \in -1..96 /\ g_input_type \in 1..6
  /\ realigned \in BOOLEAN
  /\ Params(dsp) /\ CutOrder(dsp) /\ Good(stored) /\ Within(session, Contents(stored))
  /\ Agree(dsp, refused, Contents(stored), realigned)
  /\ SettingOK /\ VolumeInv

\* The words of the PC.
LEMMA SessionWords ==
  ASSUME NEW n \in DOMAIN Sessions
  PROVE  /\ Sessions[n].words \subseteq Word
         /\ Sessions[n].clicks \subseteq -1..1 /\ Sessions[n].keys \subseteq 1..6
BY ParamAssumption DEF Word

\* The identifiers of a session.
LEMMA SessionIds ==
  ASSUME NEW n \in DOMAIN Sessions
  PROVE  /\ \A m \in Sessions[n].words : Recorded(m) => get_cmd_id(m) \in Ids(n, m.key)
         /\ \A v \in 0..96 : get_cmd_id(VolumeWord(v)) \in Ids(n, VolumeWord(v).key)
         /\ \A g \in 1..6 : get_cmd_id(InputWord(g)) \in Ids(n, InputWord(g).key)
<1>1. \A m \in Sessions[n].words \cup {VolumeWord(0), InputWord(1)} :
        Recorded(m) => get_cmd_id(m) \in Ids(n, m.key)
  BY DEF Ids
<1>2. ASSUME NEW v \in 0..96
      PROVE  get_cmd_id(VolumeWord(v)) \in Ids(n, VolumeWord(v).key)
  <2>1. PICK x, y : x = VolumeWord(v) /\ y = VolumeWord(0)
    OBVIOUS
  <2>2. /\ x \in Msg /\ y \in Msg /\ Recorded(x) /\ Recorded(y) /\ IsVolume(x) /\ IsVolume(y)
        /\ x.param1 = y.param1
    <3>1. x \in Word /\ Recorded(x) /\ IsVolume(x) /\ x.param1 = 0
      BY <2>1, VolumeWordIs
    <3>2. 0 \in 0..96
      OBVIOUS
    <3>3. y \in Word /\ Recorded(y) /\ IsVolume(y) /\ y.param1 = 0
      BY <2>1, <3>2, VolumeWordIs
    <3>4. Word \subseteq Msg
      BY DEF Word
    <3> QED
      BY <3>1, <3>3, <3>4
  <2>3. SameSlot(x, y)
    BY <2>2, Indices, SMT DEF SameSlot, IsVolume, Is
  <2>4. get_cmd_id(x) = get_cmd_id(y) /\ x.key = y.key
    BY <2>2, <2>3, IdSlot DEF SameSlot
  <2> QED
    BY <1>1, <2>1, <2>2, <2>4
<1>3. ASSUME NEW g \in 1..6
      PROVE  get_cmd_id(InputWord(g)) \in Ids(n, InputWord(g).key)
  <2>1. PICK x, y : x = InputWord(g) /\ y = InputWord(1)
    OBVIOUS
  <2>2. x \in Msg /\ y \in Msg /\ Recorded(x) /\ Recorded(y) /\ IsInput(x) /\ IsInput(y)
    BY <2>1, InputWordIs DEF Word, InputWords
  <2>3. SameSlot(x, y)
    BY <2>2, Indices, SMT DEF SameSlot, IsInput, Is
  <2>4. get_cmd_id(x) = get_cmd_id(y) /\ x.key = y.key
    BY <2>2, <2>3, IdSlot DEF SameSlot
  <2> QED
    BY <1>1, <2>1, <2>2, <2>4
<1> QED
  BY <1>1, <1>2, <1>3

\* A word goes to the tables and to the DSP.
LEMMA WordStored ==
  ASSUME NEW d, Params(d), CutOrder(d), NEW s, Good(s), NEW m \in Word, NEW r, NEW a \in BOOLEAN,
         NEW n \in DOMAIN Sessions, Within(n, Contents(s)),
         Recorded(m) => get_cmd_id(m) \in Ids(n, m.key),
         Agree(d, r, Contents(s), a), NEW e, e = Decode(d, m), NEW p, p = Put(s, m),
         NEW q, q = IF Recorded(m) THEN Note(r, d, m) ELSE r
  PROVE  /\ Good(p) /\ Params(e) /\ CutOrder(e) /\ Within(n, Contents(p))
         /\ Agree(e, q, Contents(p), Realigned(a, d, m))
<1>1. Params(e) /\ CutOrder(e)
  BY DecodeTypes
<1>2. CASE Recorded(m)
  <2>0. Room(s, m)
    BY <1>2, HasRoom
  <2>1. Good(p) /\ Contents(p) = Replaced(Contents(s), m)
    BY <1>2, <2>0, PutRecorded
  <2>5. Within(n, Contents(p))
    BY <1>2, <2>1 DEF Within, Replaced
  <2>2. IsStore(Contents(s))
    BY GoodStore
  <2>3. Step(d, m, e, r, q, Contents(s), Contents(p))
    BY <1>2, <2>1, <2>2 DEF Step
  <2>4. Agree(e, q, Contents(p), Realigned(a, d, m))
    BY <2>3, AgreeStep
  <2> QED
    BY <1>1, <2>1, <2>4, <2>5
<1>3. CASE ~Recorded(m)
  <2>1. p = s /\ q = r
    BY <1>3 DEF Put
  <2>2. Agree(e, r, Contents(s), Realigned(a, d, m))
    BY <1>3, UnrecordedStep
  <2> QED
    BY <1>1, <2>1, <2>2
<1> QED
  BY <1>2, <1>3

\* A volume goes to the tables; the agreement is not about it.
LEMMA VolumeStored ==
  ASSUME NEW d, Params(d), CutOrder(d), NEW s, Good(s), NEW m \in Word, IsVolume(m), NEW r,
         NEW n \in DOMAIN Sessions, Within(n, Contents(s)), get_cmd_id(m) \in Ids(n, m.key),
         NEW a \in BOOLEAN, Agree(d, r, Contents(s), a), NEW p, p = Put(s, m),
         NEW q, q = Note(r, d, m)
  PROVE  Good(p) /\ Agree(d, q, Contents(p), a) /\ Within(n, Contents(p))
<1>1. Recorded(m)
  BY KindRecorded
<1>2. PICK e : e = Decode(d, m)
  OBVIOUS
<1>3. q = IF Recorded(m) THEN Note(r, d, m) ELSE r
  BY <1>1
<1>4. Good(p) /\ Agree(e, q, Contents(p), Realigned(a, d, m)) /\ Within(n, Contents(p))
  BY <1>2, <1>3, WordStored
<1>5. Realigned(a, d, m) = a
  <2>1. ~(m.key = 13 /\ m.param1 = ALIGNMENT) /\ ~(IsInput(m) /\ Taken(d, m))
    BY SMT DEF IsVolume, IsInput, Is
  <2>2. (Realigned(a, d, m) <=> a) /\ Realigned(a, d, m) \in BOOLEAN
    BY <2>1, RealignedIs
  <2> QED
    BY <2>2
<1>6. Effect(d, m, e)
  BY <1>2, Effects DEF Params, Word
<1>7. /\ ~IsInput(m) /\ ~IsFade(m) /\ ~IsRate(m) /\ ~IsDelay(m) /\ ~IsHigh(m) /\ ~IsLow(m)
      /\ ~IsEq(m) /\ ~IsState(m) /\ ~IsDiv(m)
  BY SMT DEF IsVolume, IsInput, IsFade, IsRate, IsDelay, IsHigh, IsLow, IsEq, IsState, IsDiv, Is
<1>8. SameParams(e, d)
  BY <1>6, <1>7 DEF SameParams, Effect, CutEffect, EqEffect, DelayEffect, FadeEffect, RateEffect,
                    TypeEffect, DivEffect
<1> QED
  BY <1>4, <1>5, <1>8, SameAgree

\* What a restart brings back.
LEMMA Restarted ==
  ASSUME NEW s, Good(s), NEW g \in 1..6, NEW n \in DOMAIN Sessions, Within(n, Contents(s)), NEW p, p = Put(s, InputWord(g)), NEW D, D = Replay(p)
  PROVE  /\ Good(p) /\ Contents(p) = Replaced(Contents(s), InputWord(g)) /\ p[15] = s[15]
         /\ Within(n, Contents(p))
         /\ Sending(p, D.d, D.r, Contents(p))
<1>1. PICK m \in Word : m = InputWord(g)
  BY InputWordIs
<1>2. Recorded(m) /\ m.key # 15
  BY <1>1, InputWordIs, SMT
<1>3. /\ Good(p) /\ Contents(p) = Replaced(Contents(s), m)
      /\ \A k \in TableKeys : k # m.key => p[k] = s[k]
  <2>1. Room(s, m)
    BY <1>1, <1>2, SessionIds, HasRoom
  <2> QED
    BY <1>1, <1>2, <2>1, PutRecorded
<1>6. Within(n, Contents(p))
  BY <1>1, <1>3, SessionIds DEF Within, Replaced
<1>4. 15 \in TableKeys
  BY Groups, SMT
<1>5. Sending(p, D.d, D.r, Contents(p))
  BY <1>3, ReplayResult
<1> QED
  BY <1>1, <1>2, <1>3, <1>4, <1>5, <1>6

\* The volume's parameters may change without the others.
LEMMA VolumeOnly ==
  ASSUME NEW d, Params(d), CutOrder(d), NEW e, NEW r, NEW W, NEW a, Agree(d, r, W, a),
         Sets(d, e, {"count", "knobvolume", "gain"}),
         e.count \in 0..96, e.knobvolume \in 0..96, e.gain \in -96..6
  PROVE  Params(e) /\ CutOrder(e) /\ Agree(e, r, W, a)
<1>1. /\ SameParams(d, e) /\ DOMAIN e = DOMAIN d /\ e.samples = d.samples
  BY SMT DEF Sets, SameParams, Params, Fields
<1>2. Params(e)
  BY <1>1 DEF Params, SameParams
<1>3. CutOrder(e)
  BY <1>1 DEF CutOrder, SameParams
<1>4. Agree(e, r, W, a)
  BY <1>1, SameAgree
<1> QED
  BY <1>2, <1>3, <1>4

\* The lengths tell the four apart.
LEMMA Lengths ==
  /\ \A v : /\ Len(Writes(v)) = 4 /\ Len(LastThree(v)) = 3 /\ Len(LastTwo(v)) = 2
          /\ Len(LastOne(v)) = 1
          /\ Tail(Writes(v)) = LastThree(v) /\ Tail(LastThree(v)) = LastTwo(v)
          /\ Head(Writes(v)) = <<"count", v>> /\ Head(LastThree(v)) = <<"value", v>>
          /\ Head(LastTwo(v)) = <<"power", v>> /\ Head(LastOne(v)) = <<"gain", v>>
  /\ Len(<<>>) = 0
BY DEF Writes, LastThree, LastTwo, LastOne

\* Nothing is being written before the first write and after the last.
LEMMA NotWriting == ~Writing(<<>>) /\ \A v : ~Writing(Writes(v))
<1>1. \A w : 0 # Len(LastThree(w)) /\ 0 # Len(LastTwo(w)) /\ 0 # Len(LastOne(w))
  BY Lengths
<1>2. \A w : 4 # Len(LastThree(w)) /\ 4 # Len(LastTwo(w)) /\ 4 # Len(LastOne(w))
  BY Lengths
<1>3. ~Writing(<<>>)
  BY <1>1, Lengths, Zenon DEF Writing
<1>4. ASSUME NEW v PROVE ~Writing(Writes(v))
  <2>1. Len(Writes(v)) = 4
    BY Lengths
  <2>2. \A w : Writes(v) # LastThree(w) /\ Writes(v) # LastTwo(w) /\ Writes(v) # LastOne(w)
    BY <1>2, <2>1, Zenon
  <2> QED
    BY <2>2, Zenon DEF Writing
<1> QED
  BY <1>3, <1>4

LEMMA InvInit == Init => Inv
<1> SUFFICES ASSUME Init PROVE Inv
  OBVIOUS
<1>1. Params(Default) /\ CutOrder(Default) /\ Agree(Default, {}, {}, FALSE)
  BY DefaultAgrees
<1>2. Params(dsp) /\ CutOrder(dsp) /\ Agree(dsp, {}, {}, FALSE)
  BY <1>1, InitDoneSets, InitDoneAgree DEF Init
<1>3. Good(stored)
  <2>1. \A k \in TableKeys : stored[k] = <<>>
    BY DEF Init
  <2>2. <<>> \in Seq(Word) /\ Len(<<>>) = 0
    OBVIOUS
  <2>3. stored \in [TableKeys -> Seq(Word)]
    BY <2>2 DEF Init
  <2>4. \A k \in TableKeys : 1..Len(stored[k]) = {}
    BY <2>1, <2>2
  <2> QED
    BY <2>3, <2>4 DEF Good
<1>4. Contents(stored) = {}
  <2>1. \A k \in TableKeys : 1..Len(stored[k]) = {}
    BY DEF Init
  <2> QED
    BY <2>1, InContents
<1>5. SettingOK /\ VolumeInv
  <2>1. setting = <<>> /\ volume_by \notin {"pc", "knob"}
    BY DEF Init
  <2>2. \A v \in 0..96 : setting # LastThree(v) /\ setting # LastTwo(v) /\ setting # LastOne(v)
    BY <2>1, NotWriting DEF Writing
  <2> QED
    BY <2>1, <2>2 DEF SettingOK, VolumeInv, GainBy
<1>6. Agree(dsp, refused, Contents(stored), realigned)
  BY <1>2, <1>4 DEF Init
<1>7. /\ session \in DOMAIN Sessions /\ upload \in -1..96 /\ g_input_type \in 1..6
      /\ realigned \in BOOLEAN
  <2>1. upload = -1 /\ g_input_type = 1
    BY DEF Init
  <2>2. upload \in -1..96 /\ g_input_type \in 1..6
    BY <2>1
  <2>3. session \in DOMAIN Sessions /\ realigned \in BOOLEAN
    BY Zenon DEF Init
  <2> QED
    BY <2>2, <2>3
<1>8. Within(session, Contents(stored))
  BY <1>4 DEF Within
<1> QED
  BY <1>2, <1>3, <1>5, <1>6, <1>7, <1>8 DEF Inv

\* A word other than a volume.
LEMMA InvReceive ==
  ASSUME Inv, NEW m \in Sessions[session].words, Receive(m)
  PROVE  Inv'
<1>1. m \in Word
  BY SessionWords DEF Inv
<1>2. /\ Params(dsp) /\ CutOrder(dsp) /\ Good(stored) /\ realigned \in BOOLEAN
      /\ session \in DOMAIN Sessions /\ Within(session, Contents(stored))
      /\ Agree(dsp, refused, Contents(stored), realigned)
  BY DEF Inv
<1>3. /\ dsp' = Decode(dsp, m) /\ stored' = Put(stored, m)
      /\ refused' = IF Recorded(m) THEN Note(refused, dsp, m) ELSE refused
      /\ realigned' = Realigned(realigned, dsp, m)
  BY DEF Receive, Exchange, Realigned
<1>4. /\ Good(stored') /\ Params(dsp') /\ CutOrder(dsp')
      /\ Within(session, Contents(stored'))
      /\ Agree(dsp', refused', Contents(stored'), realigned')
  <2>1. Recorded(m) => get_cmd_id(m) \in Ids(session, m.key)
    BY <1>2, SessionIds
  <2> QED
    BY <1>1, <1>2, <1>3, <2>1, WordStored
<1>5. realigned' \in BOOLEAN
  BY <1>2, <1>3, RealignedIs
<1>6. dsp'.count = dsp.count /\ dsp'.knobvolume = dsp.knobvolume /\ dsp'.gain = dsp.gain
  <2>1. Effect(dsp, m, dsp')
    BY <1>1, <1>2, <1>3, Effects DEF Params, Word
  <2>2. ~IsVolume(m)
    BY DEF Receive, IsVolume, Is
  <2> QED
    BY <2>1, <2>2 DEF Effect, VolumeEffect
<1>7. setting' = setting /\ volume_by' = volume_by /\ upload' = -1
      /\ UNCHANGED <<g_input_type, session>>
  BY DEF Receive, Exchange
<1>8. SettingOK' /\ VolumeInv'
  BY <1>6, <1>7 DEF Inv, SettingOK, VolumeInv, GainBy
<1>9. upload' \in -1..96 /\ g_input_type' \in 1..6 /\ session' \in DOMAIN Sessions
  BY <1>7 DEF Inv
<1> QED
  BY <1>4, <1>5, <1>7, <1>8, <1>9 DEF Inv

\* A volume of the PC is stored, and its first write is to come.
LEMMA InvReceiveVolume ==
  ASSUME Inv, NEW m \in Sessions[session].words, ReceiveVolume(m)
  PROVE  Inv'
<1>1. m \in Word /\ IsVolume(m)
  BY SessionWords DEF Inv, ReceiveVolume, IsVolume, Is
<1>2. /\ Params(dsp) /\ CutOrder(dsp) /\ Good(stored) /\ realigned \in BOOLEAN
      /\ session \in DOMAIN Sessions /\ Within(session, Contents(stored))
      /\ Agree(dsp, refused, Contents(stored), realigned)
  BY DEF Inv
<1>3. Recorded(m)
  BY <1>1, KindRecorded
<1>4. stored' = Put(stored, m) /\ refused' = Note(refused, dsp, m)
  BY <1>3 DEF ReceiveVolume, Exchange
<1>5. /\ Good(stored') /\ Agree(dsp, refused', Contents(stored'), realigned)
      /\ Within(session, Contents(stored'))
  <2>1. get_cmd_id(m) \in Ids(session, m.key)
    BY <1>2, <1>3, SessionIds
  <2> QED
    BY <1>1, <1>2, <1>4, <2>1, VolumeStored
<1>6. UNCHANGED <<dsp, g_input_type, session, realigned, volume_by>> /\ upload' = -1
  BY DEF ReceiveVolume, Exchange
<1>7. setting' = <<>> \/ \E v \in 0..96 : setting' = Writes(v)
  <2>1. Taken(dsp, m) => m.param2 \in 0..96
    BY <1>1, TakenFacts
  <2> QED
    BY <2>1 DEF ReceiveVolume, Writes
<1>8. SettingOK' 
  BY <1>7 DEF SettingOK
<1>9. VolumeInv'
  <2>1. GainBy(dsp, volume_by)
    <3>1. setting = <<>>
      BY DEF ReceiveVolume
    <3> QED
      BY <3>1, NotWriting DEF Inv, VolumeInv
  <2>2. ~Writing(setting')
    BY <1>7, NotWriting
  <2>3. \A v \in 0..96 : setting' # LastThree(v) /\ setting' # LastTwo(v) /\ setting' # LastOne(v)
    BY <2>2 DEF Writing
  <2> QED
    BY <1>6, <2>1, <2>3 DEF VolumeInv, GainBy
<1>10. upload' \in -1..96 /\ g_input_type' \in 1..6 /\ session' \in DOMAIN Sessions
  BY <1>6 DEF Inv
<1> QED
  BY <1>2, <1>5, <1>6, <1>8, <1>9, <1>10 DEF Inv

\* A write of KnobVolume_Set.
LEMMA InvSetVolume ==
  ASSUME Inv, SetVolume
  PROVE  Inv'
<1>1. /\ Params(dsp) /\ CutOrder(dsp) /\ Agree(dsp, refused, Contents(stored), realigned)
      /\ DOMAIN dsp = Fields /\ dsp.count \in 0..96 /\ dsp.knobvolume \in 0..96 /\ dsp.gain \in -96..6
  BY DEF Inv, Params
<1>2. UNCHANGED <<upload, stored, g_input_type, session, refused, realigned>>
  BY DEF SetVolume
<1>3. PICK v \in 0..96 : \/ setting = Writes(v) \/ setting = LastThree(v)
                          \/ setting = LastTwo(v) \/ setting = LastOne(v)
  BY DEF Inv, SettingOK, SetVolume
<1>4. CASE setting = Writes(v)
  <2>1. Tail(setting) = LastThree(v) /\ Head(setting)[1] = "count" /\ Head(setting)[2] = v
    BY <1>4, Lengths
  <2>2. dsp' = KnobCount(dsp, v) /\ volume_by' = "pc" /\ setting' = LastThree(v)
    BY <2>1 DEF SetVolume
  <2>3. /\ Sets(dsp, dsp', {"count", "knobvolume", "gain"})
        /\ dsp'.count = v /\ dsp'.knobvolume = dsp.knobvolume /\ dsp'.gain = dsp.gain
    BY <1>1, <2>2 DEF KnobCount, Sets, Fields
  <2>4. Params(dsp') /\ CutOrder(dsp') /\ Agree(dsp', refused, Contents(stored), realigned)
    BY <1>1, <2>3, VolumeOnly
  <2>5. SettingOK' /\ VolumeInv'
    <3>1. \A w \in 0..96 : setting' = LastThree(w) => w = v
      BY <2>2 DEF LastThree
    <3>2. \A w \in 0..96 : setting' # LastTwo(w) /\ setting' # LastOne(w)
      BY <2>2, Lengths
    <3>3. Writing(setting')
      BY <2>2 DEF Writing
    <3> QED
      BY <2>2, <2>3, <3>1, <3>2, <3>3 DEF SettingOK, VolumeInv
  <2> QED
    BY <1>2, <2>4, <2>5 DEF Inv
<1>5. CASE setting = LastThree(v)
  <2>1. Tail(setting) = LastTwo(v) /\ Head(setting)[1] = "value" /\ Head(setting)[2] = v
    BY <1>5, Lengths
  <2>2. dsp' = KnobValue(dsp, v) /\ volume_by' = volume_by /\ setting' = LastTwo(v)
    BY <2>1 DEF SetVolume
  <2>3. /\ Sets(dsp, dsp', {"count", "knobvolume", "gain"})
        /\ dsp'.count = dsp.count /\ dsp'.knobvolume = v /\ dsp'.gain = dsp.gain
    BY <1>1, <2>2 DEF KnobValue, Sets, Fields
  <2>4. Params(dsp') /\ CutOrder(dsp') /\ Agree(dsp', refused, Contents(stored), realigned)
    BY <1>1, <2>3, VolumeOnly
  <2>5. SettingOK' /\ VolumeInv'
    <3>1. \A w \in 0..96 : setting' = LastTwo(w) => w = v
      BY <2>2 DEF LastTwo
    <3>2. \A w \in 0..96 : setting' # LastThree(w) /\ setting' # LastOne(w)
      BY <2>2, Lengths
    <3>3. Writing(setting')
      BY <2>2 DEF Writing
    <3>4. volume_by = "torn" \/ (volume_by = "pc" /\ dsp.count = v)
      BY <1>5 DEF Inv, VolumeInv
    <3> QED
      BY <2>2, <2>3, <3>1, <3>2, <3>3, <3>4 DEF SettingOK, VolumeInv
  <2> QED
    BY <1>2, <2>4, <2>5 DEF Inv
<1>6. CASE setting = LastTwo(v)
  <2>1. Head(setting)[1] = "power" /\ Head(setting)[2] = v
    BY <1>6, Lengths
  <2>2. /\ \E x \in {v, dsp.knobvolume} : setting' = << <<"gain", x>> >>
        /\ dsp' = dsp /\ volume_by' = volume_by
    BY <2>1 DEF SetVolume
  <2>3. PICK x \in {v, dsp.knobvolume} : setting' = LastOne(x)
    BY <2>2 DEF LastOne
  <2>4. x \in 0..96
    BY <1>1
  <2>5. SettingOK' /\ VolumeInv'
    <3>1. \A w \in 0..96 : setting' = LastOne(w) => w = x
      BY <2>3 DEF LastOne
    <3>2. \A w \in 0..96 : setting' # LastThree(w) /\ setting' # LastTwo(w)
      BY <2>3, Lengths
    <3>3. Writing(setting')
      BY <2>3, <2>4 DEF Writing
    <3>4. volume_by = "torn" \/ (volume_by = "pc" /\ dsp.count = v /\ dsp.knobvolume = v)
      BY <1>6 DEF Inv, VolumeInv
    <3>5. volume_by' = "torn" \/ (volume_by' = "pc" /\ dsp'.count = x /\ dsp'.knobvolume = x)
      BY <2>2, <3>4
    <3> QED
      BY <2>3, <2>4, <3>1, <3>2, <3>3, <3>5 DEF SettingOK, VolumeInv
  <2> QED
    BY <1>1, <1>2, <2>2, <2>5 DEF Inv
<1>7. CASE setting = LastOne(v)
  <2>1. Head(setting)[1] = "gain" /\ Head(setting)[2] = v
    BY <1>7, Lengths
  <2>2. dsp' = KnobGain(dsp, v) /\ setting' = <<>> /\ volume_by' = volume_by
    BY <2>1 DEF SetVolume
  <2>3. /\ Sets(dsp, dsp', {"count", "knobvolume", "gain"})
        /\ dsp'.count = dsp.count /\ dsp'.knobvolume = dsp.knobvolume
        /\ dsp'.gain = v - 90
    BY <1>1, <2>2 DEF KnobGain, Sets, Fields
  <2>4. dsp'.gain \in -96..6
    BY <2>3
  <2>5. Params(dsp') /\ CutOrder(dsp') /\ Agree(dsp', refused, Contents(stored), realigned)
    BY <1>1, <2>3, <2>4, VolumeOnly
  <2>6. GainBy(dsp', volume_by')
    <3>1. volume_by = "torn" \/ (volume_by = "pc" /\ dsp.count = v /\ dsp.knobvolume = v)
      BY <1>7 DEF Inv, VolumeInv
    <3> QED
      BY <2>2, <2>3, <3>1 DEF GainBy
  <2>7. SettingOK' /\ VolumeInv'
    <3>1. \A w \in 0..96 : /\ setting' # LastThree(w) /\ setting' # LastTwo(w)
                          /\ setting' # LastOne(w)
      BY <2>2, NotWriting DEF Writing
    <3> QED
      BY <2>2, <2>6, <3>1 DEF SettingOK, VolumeInv
  <2> QED
    BY <1>2, <2>5, <2>7 DEF Inv
<1> QED
  BY <1>3, <1>4, <1>5, <1>6, <1>7

\* A click of the knob, between any two writes.
LEMMA InvClick ==
  ASSUME Inv, NEW by \in Sessions[session].clicks, Click(by)
  PROVE  Inv'
<1>1. /\ Params(dsp) /\ CutOrder(dsp) /\ Agree(dsp, refused, Contents(stored), realigned)
      /\ DOMAIN dsp = Fields /\ dsp.count \in 0..96
  BY DEF Inv, Params
<1>2. by \in -1..1
  BY SessionWords DEF Inv
<1>3. /\ UNCHANGED <<setting, stored, g_input_type, session, refused, realigned>>
      /\ upload' = dsp'.count /\ dsp' = Turned(dsp, by)
      /\ volume_by' = IF Len(setting) \in 1..3 THEN "torn" ELSE "knob"
  BY DEF Click
<1>4. PICK v \in 0..96 : dsp' = [dsp EXCEPT !.count = v, !.knobvolume = v, !.gain = v - 96]
  <2>1. PICK v : v = IF dsp.count + by > 96 THEN 96 ELSE IF dsp.count + by < 0 THEN 0 ELSE dsp.count + by
    OBVIOUS
  <2>2. v \in 0..96
    BY <1>1, <1>2, <2>1
  <2>3. dsp' = [dsp EXCEPT !.count = v, !.knobvolume = v, !.gain = v - 96]
    BY <1>3, <2>1 DEF Turned, USE_VOLUME_STEP
  <2> QED
    BY <2>2, <2>3
<1>5. /\ Sets(dsp, dsp', {"count", "knobvolume", "gain"})
      /\ dsp'.count = v /\ dsp'.knobvolume = v /\ dsp'.gain = v - 96
  BY <1>1, <1>4 DEF Sets, Fields
<1>6. dsp'.gain \in -96..6
  BY <1>5
<1>7. Params(dsp') /\ CutOrder(dsp') /\ Agree(dsp', refused, Contents(stored), realigned)
  BY <1>1, <1>5, <1>6, VolumeOnly
<1>8. VolumeInv'
  <2>1. GainBy(dsp', "knob")
    BY <1>5 DEF GainBy
  <2>2. \A w \in 0..96 :
          setting \in {LastThree(w), LastTwo(w), LastOne(w)} => volume_by' = "torn"
    <3>1. 1 \in 1..3 /\ 2 \in 1..3 /\ 3 \in 1..3
      OBVIOUS
    <3> QED
      BY <1>3, <3>1, Lengths
  <2>3. GainBy(dsp', "torn")
    BY DEF GainBy
  <2>4. GainBy(dsp', volume_by')
    BY <1>3, <2>1, <2>3
  <2> QED
    BY <1>3, <1>5, <2>2, <2>4 DEF VolumeInv
<1>9. SettingOK'
  BY <1>3 DEF Inv, SettingOK
<1>10. /\ session' \in DOMAIN Sessions /\ upload' \in -1..96 /\ g_input_type' \in 1..6
       /\ realigned' \in BOOLEAN /\ Good(stored') /\ Within(session', Contents(stored'))
  BY <1>3, <1>5 DEF Inv
<1> QED
  BY <1>3, <1>7, <1>8, <1>9, <1>10 DEF Inv

\* The host reads the knob's volume and stores it.
LEMMA InvPoll ==
  ASSUME Inv, Poll
  PROVE  Inv'
<1>1. /\ Params(dsp) /\ CutOrder(dsp) /\ Good(stored) /\ realigned \in BOOLEAN
      /\ session \in DOMAIN Sessions /\ Within(session, Contents(stored))
      /\ Agree(dsp, refused, Contents(stored), realigned)
  BY DEF Inv
<1>2. upload \in 0..96
  BY DEF Inv, Poll
<1>3. PICK m \in Word : m = VolumeWord(upload) /\ IsVolume(m)
  BY <1>2, VolumeWordIs
<1>4. stored' = Put(stored, m) /\ refused' = Note(refused, dsp, m)
  BY <1>3 DEF Poll
<1>5. /\ Good(stored') /\ Agree(dsp, refused', Contents(stored'), realigned)
      /\ Within(session, Contents(stored'))
  <2>1. get_cmd_id(m) \in Ids(session, m.key)
    BY <1>1, <1>2, <1>3, SessionIds
  <2> QED
    BY <1>1, <1>3, <1>4, <2>1, VolumeStored
<1>6. UNCHANGED <<dsp, setting, g_input_type, session, realigned, volume_by>> /\ upload' = -1
  BY DEF Poll
<1>7. SettingOK' /\ VolumeInv'
  BY <1>6 DEF Inv, SettingOK, VolumeInv
<1>8. upload' \in -1..96
  BY <1>6
<1> QED
  BY <1>1, <1>5, <1>6, <1>7, <1>8 DEF Inv

\* The device is turned off and on.
LEMMA InvRestart ==
  ASSUME Inv, Restart
  PROVE  Inv'
<1>1. /\ Good(stored) /\ g_input_type \in 1..6 /\ session \in DOMAIN Sessions
      /\ Within(session, Contents(stored))
  BY DEF Inv
<1>2. PICK p : p = Put(stored, InputWord(g_input_type))
  OBVIOUS
<1>3. PICK D : D = Replay(p)
  OBVIOUS
<1>4. stored' = p /\ dsp' = D.d /\ refused' = D.r
  BY <1>2, <1>3 DEF Restart, TablesAtStart
<1>5. Good(p) /\ Sending(p, D.d, D.r, Contents(p)) /\ Within(session, Contents(p))
  BY <1>1, <1>2, <1>3, Restarted
<1>6. /\ Params(D.d) /\ CutOrder(D.d) /\ Agree(D.d, D.r, Contents(p), FALSE)
      /\ VolumeKept(Contents(p), D.d, Contents(p))
  BY <1>5 DEF Sending
<1>7. /\ setting = <<>> /\ UNCHANGED <<setting, g_input_type, session>> /\ upload' = -1
      /\ realigned' = FALSE
      /\ volume_by' = IF VolumeWord(D.d.count) \in Contents(p) THEN "pc" ELSE "start"
  BY <1>4 DEF Restart
<1>8. GainBy(D.d, volume_by')
  <2>1. D.d.count \in 0..96
    BY <1>6 DEF Params
  <2>2. ASSUME VolumeWord(D.d.count) \in Contents(p)
        PROVE  D.d.gain = D.d.knobvolume - 90 /\ D.d.count = D.d.knobvolume
    <3>1. IsVolume(VolumeWord(D.d.count)) /\ Fixed(VolumeWord(D.d.count))
      BY <2>1, VolumeWordIs
    <3> QED
      BY <1>6, <2>2, <3>1 DEF VolumeKept
  <2> QED
    BY <1>7, <2>2 DEF GainBy
<1>9. SettingOK' /\ VolumeInv'
  <2>1. \A w \in 0..96 : setting' # LastThree(w) /\ setting' # LastTwo(w) /\ setting' # LastOne(w)
    BY <1>7, NotWriting DEF Writing
  <2> QED
    BY <1>4, <1>7, <1>8, <2>1 DEF SettingOK, VolumeInv
<1>10. upload' \in -1..96
  BY <1>7
<1>11. session' \in DOMAIN Sessions /\ g_input_type' \in 1..6 /\ realigned' \in BOOLEAN
  BY <1>7, Zenon DEF Inv
<1> QED
  BY <1>4, <1>5, <1>6, <1>7, <1>9, <1>10, <1>11 DEF Inv

LEMMA InvNext == Inv /\ [Next]_vars => Inv'
<1> SUFFICES ASSUME Inv, [Next]_vars PROVE Inv'
  OBVIOUS
<1>1. ASSUME NEW m \in Sessions[session].words, Receive(m) PROVE Inv'
  BY <1>1, InvReceive
<1>2. ASSUME NEW m \in Sessions[session].words, ReceiveVolume(m) PROVE Inv'
  BY <1>2, InvReceiveVolume
<1>3. CASE SetVolume
  BY <1>3, InvSetVolume
<1>4. ASSUME NEW by \in Sessions[session].clicks, Click(by) PROVE Inv'
  BY <1>4, InvClick
<1>5. CASE Poll
  BY <1>5, InvPoll
<1>6. ASSUME NEW n \in Sessions[session].keys, KeySelect(n) PROVE Inv'
  <2>1. n \in 1..6
    BY SessionWords DEF Inv
  <2>2. /\ UNCHANGED <<dsp, setting, upload, stored, session, refused, realigned, volume_by>>
        /\ g_input_type' = n
    BY <1>6 DEF KeySelect
  <2> QED
    BY <2>1, <2>2 DEF Inv, SettingOK, VolumeInv
<1>7. CASE Restart
  BY <1>7, InvRestart
<1>8. CASE UNCHANGED vars
  BY <1>8 DEF vars, Inv, SettingOK, VolumeInv
<1> QED
  BY <1>1, <1>2, <1>3, <1>4, <1>5, <1>6, <1>7, <1>8 DEF Next

\* The parameters agree with the stored words in every reachable state.
THEOREM Invariance == Spec => []Inv
  BY InvInit, InvNext, PTL DEF Spec

\* The parameters of the DSP stay in the ranges that the audio code indexes and
\* divides with, and a high cut is never below the low cut of its channel.
THEOREM TypeCorrect == Spec => []TypeOK
<1>1. Inv => TypeOK
  <2> SUFFICES ASSUME Inv PROVE TypeOK
    OBVIOUS
  <2>1. /\ dsp.InputXtype \in 0..7 /\ dsp.LastInputXtype \in 0..7 /\ dsp.SystemState \in 1..3
        /\ dsp.count \in 0..96 /\ dsp.knobvolume \in 0..96 /\ dsp.gain \in -96..6
        /\ dsp.samples \in [Channels -> 0..LIMIT]
        /\ dsp.HighCutFreq \in [Channels -> Freqs] /\ dsp.LowCutFreq \in [Channels -> Freqs]
    BY DEF Inv, Params
  <2>2. upload \in -1..96 /\ g_input_type \in 1..6 /\ CutOrder(dsp)
    BY DEF Inv
  <2>3. ASSUME NEW c \in Channels
        PROVE  /\ dsp.samples[c] \in 0..LIMIT
               /\ dsp.LowCutFreq[c] \in Freqs /\ dsp.HighCutFreq[c] \in Freqs
               /\ dsp.LowCutFreq[c] <= dsp.HighCutFreq[c]
    BY <2>1, <2>2 DEF CutOrder
  <2> QED
    BY <2>1, <2>2, <2>3, Zenon DEF TypeOK
<1> QED
  BY <1>1, Invariance, PTL

(***************************************************************************)
(* What a restart would bring back                                         *)
(***************************************************************************)
\* The front panel's input takes no slot of another parameter.
LEMMA OtherSlots ==
  ASSUME NEW W, IsStore(W), NEW m \in Word, Recorded(m), NEW S, IsSlot(S), m \notin S
  PROVE  Replaced(W, m) \cap S = W \cap S
<1>1. \A w \in Replaced(W, m) : w = m \/ w \in W
  BY ReplacedStore
<1>2. \A w \in W : w \in Replaced(W, m) \/ SameSlot(w, m)
  BY ReplacedStore
<1>3. \A w \in W \cap S : ~SameSlot(w, m)
  BY DEF IsSlot
<1> QED
  BY <1>1, <1>2, <1>3

\* The tables and the DSP after a restart from the state; C and d name them.
LEMMA AtRestart ==
  ASSUME Inv
  PROVE  \E C, d, r :
           /\ d = AtStart
           /\ Sending(TablesAtStart, d, r, C) /\ C = Contents(TablesAtStart) /\ IsStore(C)
           /\ InputWord(g_input_type) \in C /\ TablesAtStart[15] = stored[15]
           /\ \A S : IsSlot(S) /\ InputWord(g_input_type) \notin S =>
                       C \cap S = Contents(stored) \cap S
           /\ \A w \in C \cap Contents(stored) :
                ~IsCut(w) /\ get_cmd_id(w) \notin refused => get_cmd_id(w) \notin r
<1>1. /\ Good(stored) /\ g_input_type \in 1..6 /\ Noted(refused, Contents(stored))
      /\ session \in DOMAIN Sessions /\ Within(session, Contents(stored))
  BY DEF Inv, Agree
<1>2. PICK m \in Word : m = InputWord(g_input_type) /\ Recorded(m)
  BY <1>1, InputWordIs
<1>3. PICK p : p = TablesAtStart
  OBVIOUS
<1>4. PICK D : D = Replay(p)
  OBVIOUS
<1>5. p = Put(stored, InputWord(g_input_type))
  BY <1>3 DEF TablesAtStart
<1>6. /\ Good(p) /\ Contents(p) = Replaced(Contents(stored), m) /\ p[15] = stored[15]
      /\ Sending(p, D.d, D.r, Contents(p))
  BY <1>1, <1>2, <1>4, <1>5, Restarted
<1>7. IsStore(Contents(stored))
  BY <1>1, GoodStore
<1>8. m \in Contents(p)
  BY <1>2, <1>6, <1>7, ReplacedStore
<1>9. \A S : IsSlot(S) /\ m \notin S => Contents(p) \cap S = Contents(stored) \cap S
  BY <1>2, <1>6, <1>7, OtherSlots
<1>10. Noted(D.r, Contents(p))
  BY <1>6 DEF Sending, Agree
<1>11. \A w \in Contents(p) \cap Contents(stored) :
         ~IsCut(w) /\ get_cmd_id(w) \notin refused => get_cmd_id(w) \notin D.r
  BY <1>1, <1>10 DEF Noted
<1>12. AtStart = D.d
  BY <1>3, <1>4 DEF AtStart
<1>13. IsStore(Contents(p))
  BY <1>6, GoodStore
<1> QED
  BY <1>2, <1>3, <1>6, <1>8, <1>9, <1>11, <1>12, <1>13

\* The slots of the other parameters are in the tables after a restart what
\* they were before.
LEMMA InputAlone ==
  ASSUME NEW g \in 1..6
  PROVE  /\ \A c : InputWord(g) \notin HighWords(c) /\ InputWord(g) \notin LowWords(c)
                   /\ InputWord(g) \notin DelayWords(c)
         /\ \A c, b : InputWord(g) \notin EqWords(c, b) /\ InputWord(g) \notin DivWords(c, b)
         /\ \A k \in 2..8 : InputWord(g) \notin RateWords(k)
         /\ \A t \in {10, 11} : InputWord(g) \notin FadeWords(t)
<1>1. PICK w : w = InputWord(g)
  OBVIOUS
<1>2. w.key = 1 /\ w.type = 9
  BY <1>1, InputWordIs DEF InputWords, IsInput, Is
<1>3. /\ ~IsHigh(w) /\ ~IsLow(w) /\ ~IsDelay(w) /\ ~IsEq(w)
      /\ \A c, p : ~Is1(w, 15, c, p)
      /\ \A k \in 2..8 : ~Is(w, k, 1)
      /\ \A t \in {10, 11} : ~Is(w, 1, t)
  BY <1>2, SMT DEF IsHigh, IsLow, IsDelay, IsEq, Is1, Is
<1> QED
  BY <1>1, <1>3 DEF HighWords, LowWords, DelayWords, EqWords, DivWords, RateWords, FadeWords

\* The cut frequencies come back: the stored words of a channel, none refused,
\* are in order, so the replay takes them whichever comes first.
THEOREM Cuts == Spec => []CutsRestored
<1>1. Inv => CutsRestored
  <2> SUFFICES ASSUME Inv, NEW c \in Channels, \A t \in {4, 5} : WordId(11, t, c) \notin refused
                 PROVE  /\ AtStart.LowCutFreq[c] = dsp.LowCutFreq[c]
                        /\ AtStart.HighCutFreq[c] = dsp.HighCutFreq[c]
    BY DEF CutsRestored
  <2>2. PICK C, d, r :
           /\ d = AtStart /\ Sending(TablesAtStart, d, r, C) /\ C = Contents(TablesAtStart)
           /\ \A S : IsSlot(S) /\ InputWord(g_input_type) \notin S =>
                       C \cap S = Contents(stored) \cap S
    BY AtRestart
  <2>3. PICK W : W = Contents(stored)
    OBVIOUS
  <2>4. /\ C \cap HighWords(c) = W \cap HighWords(c) /\ C \cap LowWords(c) = W \cap LowWords(c)
    <3>1. g_input_type \in 1..6
      BY DEF Inv
    <3> QED
      BY <2>2, <2>3, <3>1, Slots, InputAlone
  <2>5. /\ \A w \in HighWords(c) : get_cmd_id(w) = WordId(11, 4, c)
        /\ \A w \in LowWords(c) : get_cmd_id(w) = WordId(11, 5, c)
    <3>1. c \in 0..31
      BY ParamAssumption
    <3>2. \A w \in Word, t \in {4, 5} : Is1(w, 11, t, c) => get_cmd_id(w) = WordId(11, t, c)
      BY <3>1, WordIds, SMT DEF Word
    <3> QED
      BY <3>2 DEF HighWords, LowWords, IsHigh, IsLow, Is1
  <2>6. CutsHold(dsp, refused, W) /\ Noted(refused, W) /\ CutOrder(dsp) /\ Params(dsp)
    BY <2>3 DEF Inv, Agree
  <2>7. \A w \in W \cap HighWords(c) : get_cmd_id(w) \notin refused /\ dsp.HighCutFreq[c] = Para23(w)
    BY <2>5, <2>6 DEF CutsHold, Holds, FreqOf, HighWords
  <2>8. \A w \in W \cap LowWords(c) : get_cmd_id(w) \notin refused /\ dsp.LowCutFreq[c] = Para23(w)
    BY <2>5, <2>6 DEF CutsHold, Holds, FreqOf, LowWords
  <2>9. Fits(C, c)
    <3>1. dsp.HighCutFreq[c] \in Freqs /\ dsp.LowCutFreq[c] \in Freqs
      BY <2>6 DEF Params
    <3>2. dsp.LowCutFreq[c] <= dsp.HighCutFreq[c]
      BY <2>6 DEF CutOrder
    <3>3. \A w \in HighWords(c) \cup LowWords(c) : IsCut(w)
      BY SMT DEF HighWords, LowWords, IsHigh, IsLow, IsCut, Is
    <3>4. \A w \in C \cap (HighWords(c) \cup LowWords(c)) : w.op = 0
      BY <2>4, <2>6, <2>7, <2>8, <3>3 DEF Noted
    <3>5. \A w \in C \cap (HighWords(c) \cup LowWords(c)) : Para23(w) \in Freqs
      BY <2>4, <2>7, <2>8, <3>1
    <3>6. \A h \in C \cap HighWords(c), l \in C \cap LowWords(c) : Para23(l) <= Para23(h)
      BY <2>4, <2>7, <2>8, <3>2
    <3> QED
      BY <3>4, <3>5, <3>6 DEF Fits
  <2>10. CutsHold(d, r, C) /\ CutsKept(C, r, C)
    BY <2>2 DEF Sending, Agree
  <2>11. \A w \in C \cap (HighWords(c) \cup LowWords(c)) : get_cmd_id(w) \notin r
    BY <2>9, <2>10 DEF CutsKept
  <2>12. d.HighCutFreq[c] = dsp.HighCutFreq[c]
    <3>1. Holds(C, r, HighWords(c), FreqOf, d.HighCutFreq[c], Default.HighCutFreq[c])
      BY <2>10 DEF CutsHold
    <3>2. Holds(W, refused, HighWords(c), FreqOf, dsp.HighCutFreq[c], Default.HighCutFreq[c])
      BY <2>6 DEF CutsHold
    <3>3. \A w \in C \cap HighWords(c) : get_cmd_id(w) \notin r /\ get_cmd_id(w) \notin refused
      BY <2>4, <2>7, <2>11
    <3> QED
      BY <2>4, <3>1, <3>2, <3>3, HoldsSame
  <2>13. d.LowCutFreq[c] = dsp.LowCutFreq[c]
    <3>1. Holds(C, r, LowWords(c), FreqOf, d.LowCutFreq[c], Default.LowCutFreq[c])
      BY <2>10 DEF CutsHold
    <3>2. Holds(W, refused, LowWords(c), FreqOf, dsp.LowCutFreq[c], Default.LowCutFreq[c])
      BY <2>6 DEF CutsHold
    <3>3. \A w \in C \cap LowWords(c) : get_cmd_id(w) \notin r /\ get_cmd_id(w) \notin refused
      BY <2>4, <2>8, <2>11
    <3> QED
      BY <2>4, <3>1, <3>2, <3>3, HoldsSame
  <2> QED
    BY <2>2, <2>12, <2>13
<1> QED
  BY <1>1, Invariance, PTL

\* The equaliser of a channel without a word that clears it, and without a
\* refused word, comes back.
THEOREM Equaliser == Spec => []EqRestored
<1>1. Inv => EqRestored
  <2> SUFFICES ASSUME Inv, NEW c \in Channels,
                        \A m \in Contents(stored) :
                          m.key = 11 /\ m.type = 8 /\ m.param1 = c =>
                            m.param2 # 0 /\ get_cmd_id(m) \notin refused
                 PROVE  AtStart.EQBandGain[c] = dsp.EQBandGain[c]
    BY DEF EqRestored
  <2>2. PICK C, d, r :
           /\ d = AtStart /\ Sending(TablesAtStart, d, r, C) /\ IsStore(C)
           /\ \A S : IsSlot(S) /\ InputWord(g_input_type) \notin S =>
                       C \cap S = Contents(stored) \cap S
           /\ \A w \in C \cap Contents(stored) :
                ~IsCut(w) /\ get_cmd_id(w) \notin refused => get_cmd_id(w) \notin r
    BY AtRestart
  <2>3. PICK W : W = Contents(stored)
    OBVIOUS
  <2>4. \A b : C \cap EqWords(c, b) = W \cap EqWords(c, b)
    <3>1. g_input_type \in 1..6
      BY DEF Inv
    <3> QED
      BY <2>2, <2>3, <3>1, Slots, InputAlone
  <2>5. \A b, w : w \in W \cap EqWords(c, b) => b # 0 /\ get_cmd_id(w) \notin refused
    BY <2>3 DEF EqWords, IsEq, Is
  <2>6. W \cap EqWords(c, 0) = {}
    BY <2>5
  <2>7. \A b \in Bands : \A w \in C \cap EqWords(c, b) :
           get_cmd_id(w) \notin r /\ get_cmd_id(w) \notin refused
    <3>1. \A b : \A w \in EqWords(c, b) : ~IsCut(w)
      BY SMT DEF EqWords, IsEq, IsCut, Is
    <3> QED
      BY <2>2, <2>3, <2>4, <2>5, <3>1
  <2>8. NoClear(W, c) /\ NoClear(C, c)
    <3>1. W \subseteq Word /\ C \subseteq Word
      BY <2>2, <2>3, GoodStore DEF Inv, IsStore
    <3> QED
      BY <2>4, <2>6, <3>1 DEF NoClear, EqWords
  <2>9. ASSUME NEW b \in Bands
        PROVE  d.EQBandGain[c][b] = dsp.EQBandGain[c][b]
    <3>1. Holds(C, r, EqWords(c, b), GainOf, d.EQBandGain[c][b], 0)
      BY <2>2, <2>8 DEF Sending, Agree, EqHolds
    <3>2. Holds(W, refused, EqWords(c, b), GainOf, dsp.EQBandGain[c][b], 0)
      BY <2>3, <2>8 DEF Inv, Agree, EqHolds
    <3>3. \A w \in C \cap EqWords(c, b) : get_cmd_id(w) \notin r /\ get_cmd_id(w) \notin refused
      BY <2>7
    <3> QED
      BY <2>4, <3>1, <3>2, <3>3, HoldsSame
  <2>10. d.EQBandGain[c] \in Gains /\ dsp.EQBandGain[c] \in Gains
    BY <2>2 DEF Sending, Inv, Params
  <2> QED
    BY <2>2, <2>9, <2>10 DEF Gains
<1> QED
  BY <1>1, Invariance, PTL

\* A delay has the samples of the rate of the front panel's input, which the
\* replay sends before the delays; a fade has its time, at 48 kHz.
THEOREM Timing == Spec => []TimingRestored
<1>1. ASSUME Inv, NEW C, NEW d, NEW r, d = AtStart, Sending(TablesAtStart, d, r, C),
             C = Contents(TablesAtStart), IsStore(C), InputWord(g_input_type) \in C,
             \A S : IsSlot(S) /\ InputWord(g_input_type) \notin S =>
                      C \cap S = Contents(stored) \cap S,
             \A w \in C \cap Contents(stored) :
                ~IsCut(w) /\ get_cmd_id(w) \notin refused => get_cmd_id(w) \notin r
      PROVE  TimingRestored
  <2> USE <1>1
  <2>1. PICK W : W = Contents(stored)
    OBVIOUS
  <2>2. PICK g \in 1..6 : g = g_input_type
    BY DEF Inv
  <2>3. Params(dsp) /\ Agree(dsp, refused, W, realigned) /\ W \subseteq Word
    BY <2>1, GoodStore DEF Inv, IsStore
  <2>4. PICK R \in Rates : R = dsp.SamplingRate[g]
    <3>1. dsp.SamplingRate \in [0..7 -> Rates]
      BY <2>3 DEF Params
    <3>2. g \in 0..7
      BY <2>2
    <3> QED
      BY <3>1, <3>2
  <2>5. ASSUME NEW c \in Channels, WordId(11, 3, c) \notin refused, WordId(g + 1, 1, 0) \notin refused
        PROVE  d.samples[c] = IF Samples(R, dsp.Delay[c]) > LIMIT THEN 0 ELSE Samples(R, dsp.Delay[c])
    <3>1. C \cap RateWords(g + 1) = W \cap RateWords(g + 1)
      <4>1. g + 1 \in 2..8
        BY <2>2
      <4> QED
        BY <2>1, <2>2, <4>1, Slots, InputAlone
    <3>2. C \cap DelayWords(c) = W \cap DelayWords(c)
      BY <2>1, <2>2, Slots, InputAlone
    <3>3. ASSUME NEW w \in W \cap RateWords(g + 1)
          PROVE  Fixed(w) /\ Rate(w.param1) = R
      <4>1. g + 1 \in 2..8 /\ (g + 1) - 1 = g /\ 0 \in 0..31
        BY <2>2
      <4>2. w \in Msg /\ w \in Word /\ Is(w, g + 1, 1)
        BY DEF RateWords, Word
      <4>3. get_cmd_id(w) \notin refused
        BY <2>5, <4>1, <4>2, WordIds
      <4>4. ~IsCut(w)
        BY <4>1, <4>2, SMT DEF IsCut, Is
      <4>5. Fixed(w)
        BY <2>3, <4>3, <4>4 DEF Agree, Noted
      <4>6. Holds(W, refused, RateWords(g + 1), RateOf, dsp.SamplingRate[(g + 1) - 1],
                  Default.SamplingRate[(g + 1) - 1])
        BY <2>3, <4>1 DEF Agree, RateHolds
      <4>7. dsp.SamplingRate[(g + 1) - 1] = RateOf[w]
        BY <4>3, <4>6 DEF Holds
      <4> QED
        BY <2>4, <4>1, <4>2, <4>5, <4>7 DEF RateOf
    <3>4. W \cap RateWords(g + 1) = {} => Default.SamplingRate[g] = R
      <4>1. g + 1 \in 2..8 /\ (g + 1) - 1 = g
        BY <2>2
      <4>2. Holds(W, refused, RateWords(g + 1), RateOf, dsp.SamplingRate[(g + 1) - 1],
                  Default.SamplingRate[(g + 1) - 1])
        BY <2>3, <4>1 DEF Agree, RateHolds
      <4> QED
        BY <2>4, <4>1, <4>2 DEF Holds
    <3>5. RateGiven(C, g, R)
      BY <2>2, <3>1, <3>3, <3>4 DEF RateGiven
    <3>6. Holds(C, r, DelayWords(c), SampleOf(R), d.samples[c], 0)
      BY <3>5 DEF Sending, SamplesHold
    <3>7. Holds(W, refused, DelayWords(c), Hundredths, dsp.Delay[c], 0)
      BY <2>3 DEF Agree, DelayHolds
    <3>8. CASE W \cap DelayWords(c) = {}
      <4>1. d.samples[c] = 0 /\ dsp.Delay[c] = 0
        BY <3>2, <3>6, <3>7, <3>8 DEF Holds
      <4>2. Samples(R, 0) = 0
        BY SMT DEF Samples, Rates
      <4> QED
        BY <4>1, <4>2
    <3>9. CASE W \cap DelayWords(c) # {}
      <4>1. PICK w \in W \cap DelayWords(c) : TRUE
        BY <3>9
      <4>2. w \in Msg /\ w \in Word /\ Is1(w, 11, 3, c) /\ c \in 0..31
        BY <4>1, ParamAssumption DEF DelayWords, Word, IsDelay, Is1
      <4>3. get_cmd_id(w) \notin refused
        BY <2>5, <4>2, WordIds
      <4>4. ~IsCut(w)
        BY <4>2, SMT DEF IsCut, Is1, Is
      <4>5. w \in C \cap DelayWords(c) /\ get_cmd_id(w) \notin r
        BY <2>1, <3>2, <4>1, <4>3, <4>4
      <4>6. d.samples[c] = SampleOf(R)[w]
        BY <3>6, <4>5 DEF Holds
      <4>7. dsp.Delay[c] = DelayOf(w)
        BY <3>7, <4>1, <4>2, <4>3 DEF Holds, Hundredths
      <4> QED
        BY <4>2, <4>6, <4>7 DEF SampleOf
    <3> QED
      BY <3>8, <3>9
  <2>6. ASSUME NEW t \in {10, 11}, WordId(1, t, 0) \notin refused
        PROVE  d.FadeTime[t].time = dsp.FadeTime[t].time /\ d.FadeTime[t].rate \in {0, 48000}
    <3>1. C \cap FadeWords(t) = W \cap FadeWords(t)
      BY <2>1, <2>2, Slots, InputAlone
    <3>2. ASSUME NEW w \in C \cap FadeWords(t)
          PROVE  get_cmd_id(w) \notin r /\ get_cmd_id(w) \notin refused
      <4>1. w \in Msg /\ Is(w, 1, t) /\ 0 \in 0..31
        BY DEF FadeWords, Word
      <4>2. get_cmd_id(w) \notin refused
        BY <2>6, <4>1, WordIds
      <4>3. ~IsCut(w)
        BY <4>1, SMT DEF IsCut, Is
      <4> QED
        BY <2>1, <3>1, <4>2, <4>3
    <3>3. Holds(C, r, FadeWords(t), FirstOf, d.FadeTime[t].time, 5)
      BY DEF Sending, Agree, FadeHolds
    <3>4. Holds(W, refused, FadeWords(t), FirstOf, dsp.FadeTime[t].time, 5)
      BY <2>3 DEF Agree, FadeHolds
    <3>5. d.FadeTime[t].time = dsp.FadeTime[t].time
      BY <3>1, <3>2, <3>3, <3>4, HoldsSame
    <3>6. d.FadeTime[t].rate \in {0, 48000}
      BY SMT DEF Sending, FadeRates
    <3> QED
      BY <3>5, <3>6
  <2> QED
    BY <2>2, <2>4, <2>5, <2>6 DEF TimingRestored
<1>2. Inv => TimingRestored
  BY <1>1, AtRestart
<1> QED
  BY <1>2, Invariance, PTL

\* A band that has an output keeps it: the outputs come after the number of
\* bands, which leaves it in.
THEOREM Routes == Spec => []RoutesRestored
<1>1. Inv => RoutesRestored
  <2> DEFINE at(c, p) == {i \in 1..Len(stored[15]) : get_cmd_id(stored[15][i]) = WordId(15, c, p)}
  <2> SUFFICES ASSUME Inv, NEW c \in Channels, NEW b \in 1..3, dsp.route[c][b] # -1,
                      b <= dsp.FreqDivVal[c][1], \A i \in at(c, 1), j \in at(c, b + 3) : i < j
               PROVE  AtStart.route[c][b] = dsp.route[c][b]
    BY DEF RoutesRestored
  <2>1. PICK C, d, r :
          /\ d = AtStart /\ Sending(TablesAtStart, d, r, C) /\ C = Contents(TablesAtStart)
          /\ TablesAtStart[15] = stored[15]
          /\ \A S : IsSlot(S) /\ InputWord(g_input_type) \notin S =>
                      C \cap S = Contents(stored) \cap S
    BY AtRestart
  <2>2. PICK W : W = Contents(stored)
    OBVIOUS
  <2>3. \A p : C \cap DivWords(c, p) = W \cap DivWords(c, p)
    <3>1. g_input_type \in 1..6
      BY DEF Inv
    <3> QED
      BY <2>1, <2>2, <3>1, Slots, InputAlone
  <2>4. Agree(dsp, refused, W, realigned)
    BY <2>2 DEF Inv
  <2>5. PICK w \in W \cap DivWords(c, b + 3) : dsp.route[c][b] = Para23(w) - 1
    BY <2>4 DEF Agree, RoutesHold
  <2>6. Holds(W, refused, DivWords(c, 1), FreqOf, dsp.FreqDivVal[c][1], 1)
    BY <2>4 DEF Agree, NumberHolds
  <2>7. ASSUME NEW x \in W \cap DivWords(c, 1)
        PROVE  dsp.FreqDivVal[c][1] = Para23(x)
    <3>1. x \in Word /\ x.key = 15 /\ x.type \in 1..14
      BY ParamAssumption DEF DivWords, Is1, Is, Word
    <3>2. Fixed(x) /\ ~IsCut(x)
      <4>1. PICK t \in 1..14 : x.type = t
        BY <3>1
      <4>2. t <= 16 /\ x.key # 11
        BY <3>1, SMT
      <4> QED
        BY <3>1, <4>1, <4>2 DEF Fixed, IsCut
    <3>3. get_cmd_id(x) \notin refused
      BY <2>4, <3>2, FixedNoted DEF Agree
    <3> QED
      BY <2>6, <3>1, <3>3 DEF Holds, FreqOf
  <2>8. ASSUME NEW p \in 1..6, NEW i \in 1..Len(stored[15]), stored[15][i] \in DivWords(c, p)
        PROVE  i \in at(c, p)
    <3>1. /\ stored[15][i] \in Msg /\ Is1(stored[15][i], 15, c, p) /\ c \in 1..14 /\ p \in 0..31
      BY <2>8, ParamAssumption DEF DivWords, Word
    <3>2. get_cmd_id(stored[15][i]) = WordId(15, c, p)
      BY <3>1, WordIds
    <3> QED
      BY <3>2
  <2> HIDE DEF at
  <2>9. OutFits(TablesAtStart, c, b)
    <3>1. \A x \in C \cap DivWords(c, 1) : b <= Para23(x)
      BY <2>3, <2>7
    <3>2. C \cap DivWords(c, 1) = {} => b <= 1
      BY <2>3, <2>6 DEF Holds
    <3>3. \A i, j \in 1..Len(stored[15]) :
            stored[15][i] \in DivWords(c, 1) /\ stored[15][j] \in DivWords(c, b + 3) => i < j
      <4>1. 1 \in 1..6 /\ b + 3 \in 1..6
        OBVIOUS
      <4> QED
        BY <2>8, <4>1
    <3> QED
      BY <2>1, <3>1, <3>2, <3>3 DEF OutFits
  <2>10. w \in C \cap DivWords(c, b + 3)
    BY <2>3, <2>5
  <2>11. d.route[c][b] = Para23(w) - 1
    BY <2>1, <2>9, <2>10 DEF Sending, OutputsKept
  <2> QED
    BY <2>1, <2>5, <2>11
<1> QED
  BY <1>1, Invariance, PTL

\* Outside ALIGNMENT the input type is the one that was set last; a restart
\* takes the front panel's.
THEOREM InputType == Spec => []TypeReturns
<1>1. Inv => TypeReturns
  <2> SUFFICES ASSUME Inv PROVE TypeReturns
    OBVIOUS
  <2> DEFINE set == {m \in Contents(stored) : get_cmd_id(m) = WordId(1, 9, 0)}
  <2>1. ASSUME dsp.SystemState # ALIGNMENT, ~realigned, WordId(1, 9, 0) \notin refused
        PROVE  dsp.InputXtype \in IF set = {} THEN {0} ELSE {m.param1 : m \in set}
    <3>1. PICK W : W = Contents(stored)
      OBVIOUS
    <3>2. W \subseteq Word /\ \A w \in W : Recorded(w)
      BY <3>1, GoodStore DEF Inv, IsStore
    <3>3. /\ Holds(W, refused, InputWords, FirstOf, dsp.LastInputXtype, 0)
          /\ dsp.InputXtype = dsp.LastInputXtype
      BY <2>1, <3>1 DEF Inv, Agree, InputHolds
    <3>4. PICK v \in InputWords : Recorded(v) /\ get_cmd_id(v) = WordId(1, 9, 0)
      <4>1. InputWord(1) \in InputWords /\ Recorded(InputWord(1)) /\ InputWord(1) \in Msg
        BY InputWordIs DEF Word
      <4>2. Is(InputWord(1), 1, 9)
        BY <4>1 DEF InputWords, IsInput
      <4>3. get_cmd_id(InputWord(1)) = WordId(1, 9, 0)
        <5>1. 0 \in 0..31
          OBVIOUS
        <5> QED
          BY <4>1, <4>2, <5>1, WordIds
      <4> QED
        BY <4>1, <4>3
    <3>5. \A w \in W : w \in InputWords <=> get_cmd_id(w) = WordId(1, 9, 0)
      <4>1. \A w \in W : w \in InputWords <=> SameSlot(v, w)
        BY <3>2, <3>4, Slots DEF IsSlot
      <4>2. \A w \in W : get_cmd_id(v) = get_cmd_id(w) <=> SameSlot(v, w)
        BY <3>2, <3>4, IdSlot DEF InputWords, Word
      <4> QED
        BY <3>4, <4>1, <4>2
    <3>6. set = W \cap InputWords
      BY <3>1, <3>5
    <3> HIDE DEF set
    <3>7. CASE set = {}
      BY <3>3, <3>6, <3>7 DEF Holds
    <3>8. CASE set # {}
      <4>1. PICK w \in set : TRUE
        BY <3>8
      <4>2. w \in Word /\ get_cmd_id(w) \notin refused
        BY <2>1, <3>2, <3>5, <3>6, <4>1
      <4>3. dsp.LastInputXtype = w.param1
        BY <3>3, <3>6, <4>1, <4>2 DEF Holds, FirstOf
      <4> QED
        BY <3>3, <3>8, <4>1, <4>3
    <3> QED
      BY <3>7, <3>8
  <2>2. AtStart.InputXtype = g_input_type
    <3>1. PICK C, d, r :
            /\ d = AtStart /\ Sending(TablesAtStart, d, r, C) /\ InputWord(g_input_type) \in C
      BY AtRestart
    <3>2. PICK g \in 1..6 : g = g_input_type
      BY DEF Inv
    <3>3. Agree(d, r, C, FALSE) /\ d.SystemState = 1
      BY <3>1 DEF Sending
    <3>4. InputWord(g) \in C \cap InputWords /\ FirstOf[InputWord(g)] = g
      BY <3>1, <3>2, InputWordIs
    <3>5. get_cmd_id(InputWord(g)) \notin r
      BY <3>3, <3>4, InputWordIs, FixedNoted DEF Agree
    <3>6. d.LastInputXtype = g
      BY <3>3, <3>4, <3>5 DEF Agree, InputHolds, Holds
    <3>7. d.InputXtype = d.LastInputXtype
      BY <3>3, SMT DEF Agree, InputHolds, ALIGNMENT
    <3> QED
      BY <3>1, <3>2, <3>6, <3>7
  <2> QED
    BY <2>1, <2>2 DEF TypeReturns
<1> QED
  BY <1>1, Invariance, PTL

\* A restart brings back the gain that the PC set, and 6 dB more than the gain
\* that the knob set.
THEOREM Volume == Spec => []VolumeRestored
<1>1. Inv => VolumeRestored
  <2> SUFFICES ASSUME Inv, setting = <<>> PROVE VolumeRestored
    BY DEF VolumeRestored
  <2>1. GainBy(dsp, volume_by)
    <3>1. ~Writing(setting)
      BY NotWriting
    <3> QED
      BY <3>1 DEF Inv, VolumeInv
  <2>2. dsp.count \in 0..96 /\ dsp.gain \in -96..6
    BY DEF Inv, Params
  <2>3. ASSUME VolumeWord(dsp.count) \in Contents(stored),
               \A m \in Contents(stored) : m.key = 1 /\ m.type = 8 => m.param1 = 0
        PROVE  AtStart.gain = dsp.count - 90
    <3>1. PICK C, d, r :
            /\ d = AtStart /\ Sending(TablesAtStart, d, r, C) /\ C = Contents(TablesAtStart)
      BY AtRestart
    <3>2. PICK v \in 0..96 : v = dsp.count
      BY <2>2
    <3>3. PICK m \in Word : m = InputWord(g_input_type) /\ Recorded(m) /\ IsInput(m)
      BY InputWordIs DEF Inv, InputWords
    <3>4. C = Replaced(Contents(stored), m) /\ IsStore(Contents(stored))
      BY <3>1, <3>3, Restarted, GoodStore DEF Inv, TablesAtStart
    <3>5. \A w \in C : IsVolume(w) => w.param1 = 0
      <4>1. ~IsVolume(m)
        BY <3>3, SMT DEF IsInput, IsVolume, Is
      <4> QED
        BY <2>3, <3>4, <4>1 DEF Replaced, IsVolume, Is
    <3>6. VolumeWord(v) \in C
      <4>1. VolumeWord(v) \in Contents(stored) /\ IsVolume(VolumeWord(v))
        BY <2>3, <3>2, VolumeWordIs
      <4>2. ~SameSlot(VolumeWord(v), m)
        BY <3>3, <4>1, SMT DEF SameSlot, IsInput, IsVolume, Is
      <4> QED
        BY <3>3, <3>4, <4>1, <4>2, ReplacedStore
    <3>7. VolumeKept(C, d, C)
      BY <3>1 DEF Sending
    <3>8. d.count = v
      BY <3>5, <3>6, <3>7 DEF VolumeKept
    <3>9. d.gain = d.knobvolume - 90 /\ d.count = d.knobvolume
      BY <3>6, <3>7, VolumeWordIs DEF VolumeKept
    <3> QED
      BY <3>1, <3>2, <3>8, <3>9
  <2>4. volume_by = "pc" => dsp.count = dsp.knobvolume /\ dsp.count - 90 = dsp.gain
    BY <2>1 DEF GainBy
  <2>5. ASSUME volume_by = "knob"
        PROVE  dsp.count = dsp.knobvolume /\ dsp.count - 90 = dsp.gain + 6
    <3>1. dsp.count = dsp.knobvolume /\ dsp.gain = dsp.knobvolume - 96
      BY <2>1, <2>5 DEF GainBy
    <3>2. PICK v \in 0..96 : v = dsp.count
      BY <2>2
    <3>3. v - 90 = (v - 96) + 6
      OBVIOUS
    <3> QED
      BY <3>1, <3>2, <3>3
  <2> QED
    BY <2>3, <2>4, <2>5 DEF VolumeRestored
<1> QED
  BY <1>1, Invariance, PTL
=============================================================================
