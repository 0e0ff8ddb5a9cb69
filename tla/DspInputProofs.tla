--------------------------- MODULE DspInputProofs ---------------------------
(***************************************************************************)
(* Proofs about DspInput, for every set of inputs, every length of the     *)
(* fade and every number of words: the shape of the state, the word of the *)
(* host that is kept, the way back from the alignment, the converters      *)
(* after any sequence of inputs, the refinement of InputSwitch, and that   *)
(* the mute never stays.                                                   *)
(***************************************************************************)
EXTENDS DspInput, TLAPS

(***************************************************************************)
(* The inductive invariant.                                                *)
(***************************************************************************)

\* handle_spi_code clears the flag before it looks at the word, so that a word
\* that is not the one worked on still has its flag, or its turn.
WordInv ==
  ~g_SPI_Interrupt_Flag /\ g_GetRXSPI \notin IdleWords /\ pc \notin {"check", "read"}
    => g_spi_data = g_GetRXSPI

\* The input that the normal state goes back to from here.
Back == IF i_old_input = "TEST" THEN i_last_code ELSE i_old_input

\* What the choice of the input keeps: before the host's first commands are over nothing
\* is chosen; from then on Back is the host's choice, unless the loop is about to take a
\* new one from g_spi_data.
ChoiceInv ==
  /\ i_now_input = i_old_input
  /\ i_old_input = "NONE" => i_last_code = "NONE"
  /\ ~g_init_done => /\ pc \in {"top", "check", "read"}
                     /\ i_old_input = "NONE" /\ choice = "NONE"
  /\ g_init_done /\ SystemState = "NORMAL" /\ g_spi_data \in Inputs => choice = g_spi_data
  /\ pc # "choose" \/ SystemState # "NORMAL" \/ g_spi_data \notin Inputs => choice = Back
  /\ SystemState = "NORMAL" /\ pc # "choose" => i_old_input # "TEST"

\* A set-up is asked for from the change of the input to the end of its fade, and the
\* source in use is the one chosen from then on.
FadeInv ==
  /\ fade = "down" => ~g_Init_Input_Types
  /\ fade # "down" => g_Init_Input_Types \/ i_now_input = "NONE"
  /\ g_Init_Input_Types => g_input_type = i_now_input /\ i_now_input # "NONE"
  /\ SettingUp => g_Init_Input_Types

\* The stages of a set-up: the other sources are off, the chips and the selects are those
\* of s, the DA plays by its clock, and its DMA runs.
OthersOff(h, s) ==
  /\ s \in AdInputs => ~h.aes /\ ~h.spdif
  /\ s = "AES" => ~h.ad /\ ~h.spdif
  /\ s \in SpdifInputs => ~h.ad /\ ~h.aes /\ ~h.spdif /\ h.adChain # "run"

Wired(h, s) ==
  /\ h.select = (IF s = "AES" THEN "AES" ELSE "AD")
  /\ s \in AdInputs => h.ad /\ h.sp6 /\ ~h.mic /\ h.adClock = "PCG"
  /\ s = "AES" => h.aes /\ h.sp6 /\ ~h.mic /\ h.adClock = "AES"
  /\ s \in SpdifInputs => h.sp4 /\ (h.coax <=> s = "COAX")

Played(h, s) ==
  /\ h.daClock = (IF s = "AES" THEN "AES" ELSE "PCG")
  /\ h.da = "run"

Sourced(h, s) ==
  /\ s \in AdInputs \cup {"AES"} => h.adChain = "run" /\ ~h.spdif
  /\ s \in SpdifInputs => h.spdif /\ ~h.ad /\ ~h.aes /\ h.adChain # "run"
  /\ s \in AdInputs => ~h.aes
  /\ s = "AES" => ~h.ad
  /\ s = "TEST" => ~h.ad /\ ~h.aes /\ ~h.spdif /\ h.adChain # "run"

ConvertersInv ==
  /\ pc \in {"connect", "stop", "start", "source"} => OthersOff(hw, g_input_type)
  /\ pc \in {"stop", "start", "source", "finish"} => Wired(hw, g_input_type)
  /\ pc \in {"source", "finish"} => Played(hw, g_input_type)
  /\ pc = "finish" => Sourced(hw, g_input_type)
  /\ OnlySourceConnected

IndInv == TypeOK /\ WordInv /\ ChoiceInv /\ FadeInv /\ ConvertersInv

-----------------------------------------------------------------------------
(***************************************************************************)
(* The operators on the converters: each one leaves a state of them, and a *)
(* set-up reaches its next stage whatever it finds.                        *)
(***************************************************************************)
\* The mute of the DA is no part of a connection.
LEMMA Mutes ==
  ASSUME NEW h \in Converters, NEW on \in BOOLEAN
  PROVE  /\ PCM4104_Mute(h, on) \in Converters
         /\ \A s \in Source : Connected(h, s) => Connected(PCM4104_Mute(h, on), s)
BY DEF PCM4104_Mute, Converters, Connected, AdInputs, SpdifInputs

\* AD_Disable_Others turns off what is not of the AD converter.
LEMMA AdDisables ==
  ASSUME NEW h \in Converters, NEW s \in AdInputs
  PROVE  /\ AD_Disable_Others(h) \in Converters
         /\ OthersOff(AD_Disable_Others(h), s)
BY DEF AD_Disable_Others, Disable_SPDIF_DMA, AES_PowerOff, Unregister_AD_Interrupt,
       Converters, OthersOff, AdInputs, SpdifInputs

\* AES_Disable_Others turns off what is not of the AES receiver.
LEMMA AesDisables ==
  ASSUME NEW h \in Converters
  PROVE  /\ AES_Disable_Others(h) \in Converters
         /\ OthersOff(AES_Disable_Others(h), "AES")
BY DEF AES_Disable_Others, Disable_SPDIF_DMA, AD_PowerOff, Unregister_AD_Interrupt,
       Converters, OthersOff, AdInputs, SpdifInputs

\* SPDIF_Disable_Others turns everything off.
LEMMA SpdifDisables ==
  ASSUME NEW h \in Converters, NEW s \in SpdifInputs
  PROVE  /\ SPDIF_Disable_Others(h) \in Converters
         /\ OthersOff(SPDIF_Disable_Others(h), s)
BY DEF SPDIF_Disable_Others, Disable_AD_DMA, Disable_SPDIF_DMA, AES_PowerOff, AD_PowerOff,
       Ending, Converters, OthersOff, AdInputs, SpdifInputs

\* AD_AES_Init connects the AD converter.
LEMMA AdConnects ==
  ASSUME NEW h \in Converters, NEW s \in AdInputs, OthersOff(h, s)
  PROVE  /\ ConnectAD(h) \in Converters
         /\ OthersOff(ConnectAD(h), s)
         /\ Wired(ConnectAD(h), s)
BY DEF ConnectAD, Disable_AD_DMA, Ending, Converters, OthersOff, Wired, AdInputs, SpdifInputs

\* AD_AES_Init connects the AES receiver.
LEMMA AesConnects ==
  ASSUME NEW h \in Converters, OthersOff(h, "AES")
  PROVE  /\ ConnectAES(h) \in Converters
         /\ OthersOff(ConnectAES(h), "AES")
         /\ Wired(ConnectAES(h), "AES")
BY DEF ConnectAES, Disable_AD_DMA, Ending, Converters, OthersOff, Wired, AdInputs, SpdifInputs

\* Init_SPDIF_COAX connects the jack that is asked for.
LEMMA SpdifConnects ==
  ASSUME NEW h \in Converters, NEW s \in SpdifInputs, OthersOff(h, s)
  PROVE  /\ ConnectSPDIF(h, s = "COAX") \in Converters
         /\ OthersOff(ConnectSPDIF(h, s = "COAX"), s)
         /\ Wired(ConnectSPDIF(h, s = "COAX"), s)
BY DEF ConnectSPDIF, Converters, OthersOff, Wired, AdInputs, SpdifInputs

\* The test signal only sets the selects.
LEMMA TestConnects ==
  ASSUME NEW h \in Converters
  PROVE  /\ [h EXCEPT !.select = "AD", !.mic = FALSE] \in Converters
         /\ Wired([h EXCEPT !.select = "AD", !.mic = FALSE], "TEST")
BY DEF Converters, Wired, AdInputs, SpdifInputs

\* reinit_da leaves the source alone, and the DA plays by the source's clock.
LEMMA DaStops ==
  ASSUME NEW h \in Converters, NEW s \in Source, OthersOff(h, s), Wired(h, s)
  PROVE  /\ Stop_PCM4104_DMA(h) \in Converters
         /\ OthersOff(Stop_PCM4104_DMA(h), s) /\ Wired(Stop_PCM4104_DMA(h), s)
BY DEF Stop_PCM4104_DMA, Ending, Converters, OthersOff, Wired, AdInputs, SpdifInputs

\* The DA converter is started on the source.
LEMMA DaStarts ==
  ASSUME NEW h \in Converters, NEW s \in Source, OthersOff(h, s), Wired(h, s)
  PROVE  /\ PCM4104_Init(h, s) \in Converters
         /\ OthersOff(PCM4104_Init(h, s), s) /\ Wired(PCM4104_Init(h, s), s)
         /\ Played(PCM4104_Init(h, s), s)
BY DEF PCM4104_Init, PCM4104_Mute, Converters, OthersOff, Wired, Played, AdInputs, SpdifInputs

\* CS5368_InitData and SPDIF_InitData start the source's DMA; the test signal, which
\* has none, turns the other sources off only now.
LEMMA AdStarts ==
  ASSUME NEW h \in Converters, NEW s \in AdInputs \cup {"AES"},
         OthersOff(h, s), Wired(h, s), Played(h, s)
  PROVE  /\ [h EXCEPT !.adChain = "run"] \in Converters
         /\ Wired([h EXCEPT !.adChain = "run"], s)
         /\ Played([h EXCEPT !.adChain = "run"], s)
         /\ Sourced([h EXCEPT !.adChain = "run"], s)
BY DEF Converters, OthersOff, Wired, Played, Sourced, AdInputs, SpdifInputs

\* The digital receiver is started on its source.
LEMMA SpdifStarts ==
  ASSUME NEW h \in Converters, NEW s \in SpdifInputs,
         OthersOff(h, s), Wired(h, s), Played(h, s)
  PROVE  /\ [h EXCEPT !.spdif = TRUE] \in Converters
         /\ Wired([h EXCEPT !.spdif = TRUE], s)
         /\ Played([h EXCEPT !.spdif = TRUE], s)
         /\ Sourced([h EXCEPT !.spdif = TRUE], s)
BY DEF Converters, OthersOff, Wired, Played, Sourced, AdInputs, SpdifInputs

\* The test tone needs none of the converters.
LEMMA TestStarts ==
  ASSUME NEW h \in Converters, Wired(h, "TEST"), Played(h, "TEST"),
         NEW g, g = AD_Disable_Others(SPDIF_Disable_Others(h))
  PROVE  /\ g \in Converters
         /\ Wired(g, "TEST") /\ Played(g, "TEST") /\ Sourced(g, "TEST")
BY DEF AD_Disable_Others, Unregister_AD_Interrupt, SPDIF_Disable_Others, Disable_AD_DMA,
       Disable_SPDIF_DMA, AES_PowerOff, AD_PowerOff, Ending, Converters, Wired, Played,
       Sourced, AdInputs, SpdifInputs

\* The end of a set-up: the stages together are the connection.
LEMMA FinishConnects ==
  ASSUME NEW h \in Converters, NEW s \in Source \ {"NONE"},
         Wired(h, s), Played(h, s), Sourced(h, s),
         NEW g, g = PCM4104_Mute([h EXCEPT !.mic = @ \/ s \in {"MIC", "DVD"}], FALSE)
  PROVE  /\ g \in Converters
         /\ Connected(g, s)
<1>1. g \in Converters
  BY DEF PCM4104_Mute, Converters
<1>2. /\ g.ad = h.ad /\ g.aes = h.aes /\ g.select = h.select /\ g.coax = h.coax
      /\ g.adClock = h.adClock /\ g.adChain = h.adChain /\ g.sp6 = h.sp6
      /\ g.spdif = h.spdif /\ g.sp4 = h.sp4 /\ g.daClock = h.daClock /\ g.da = h.da
      /\ g.mic <=> h.mic \/ s \in {"MIC", "DVD"}
  BY DEF PCM4104_Mute, Converters
<1>3. Connected(g, s)
  BY <1>2 DEF Wired, Played, Sourced, Connected, Source, AllInputs, AdInputs, SpdifInputs
<1> QED
  BY <1>1, <1>3

\* The interrupts end a DMA that is to end, and disturb no stage and no connection.
LEMMA BlockPlayed ==
  ASSUME NEW h \in Converters, NEW s \in Source,
         NEW g, g = [h EXCEPT !.da = IF @ = "last" THEN "off" ELSE @]
  PROVE  /\ g \in Converters
         /\ OthersOff(h, s) => OthersOff(g, s)
         /\ Wired(h, s) => Wired(g, s)
         /\ Played(h, s) => Played(g, s)
         /\ Sourced(h, s) => Sourced(g, s)
         /\ Connected(h, s) => Connected(g, s)
         /\ h = Boot => g = Boot
<1>1. g \in Converters
  BY DEF Converters
<1>2. /\ g.ad = h.ad /\ g.aes = h.aes /\ g.select = h.select /\ g.mic = h.mic
      /\ g.coax = h.coax /\ g.adClock = h.adClock /\ g.adChain = h.adChain /\ g.sp6 = h.sp6
      /\ g.spdif = h.spdif /\ g.sp4 = h.sp4 /\ g.daClock = h.daClock
      /\ h.da = "run" <=> g.da = "run"
  BY DEF Converters
<1>3. h = Boot => g = Boot
  BY DEF Boot
<1> QED
  BY <1>1, <1>2, <1>3 DEF OthersOff, Wired, Played, Sourced, Connected, AdInputs, SpdifInputs

\* The block that ends a DMA chain.
LEMMA BlockReceived ==
  ASSUME NEW h \in Converters, NEW s \in Source,
         NEW g, g = [h EXCEPT !.adChain = IF @ = "last" THEN "off" ELSE @]
  PROVE  /\ g \in Converters
         /\ OthersOff(h, s) => OthersOff(g, s)
         /\ Wired(h, s) => Wired(g, s)
         /\ Played(h, s) => Played(g, s)
         /\ Sourced(h, s) => Sourced(g, s)
         /\ Connected(h, s) => Connected(g, s)
         /\ h = Boot => g = Boot
<1>1. g \in Converters
  BY DEF Converters
<1>2. /\ g.ad = h.ad /\ g.aes = h.aes /\ g.select = h.select /\ g.mic = h.mic
      /\ g.coax = h.coax /\ g.adClock = h.adClock /\ g.sp6 = h.sp6 /\ g.spdif = h.spdif
      /\ g.sp4 = h.sp4 /\ g.daClock = h.daClock /\ g.da = h.da
      /\ h.adChain = "run" <=> g.adChain = "run"
  BY DEF Converters
<1>3. h = Boot => g = Boot
  BY DEF Boot
<1> QED
  BY <1>1, <1>2, <1>3 DEF OthersOff, Wired, Played, Sourced, Connected, AdInputs, SpdifInputs

(***************************************************************************)
(* The shape of the state                                                  *)
(***************************************************************************)
\* What is chosen is a source, and what is remembered for the way back an input.
LEMMA ChoiceType ==
  ASSUME TypeOK
  PROVE  OldInput \in Source /\ LastCode \in Inputs \cup {"NONE"}
BY InputAssumption DEF TypeOK, OldInput, LastCode, States, Source

\* A set-up is one of a source, with the converters that its steps leave.
LEMMA SetUpType ==
  ASSUME TypeOK, FadeInv, ConvertersInv,
         DisableOthers \/ Connect \/ StopDA \/ StartDA \/ StartSource \/ Finish
  PROVE  hw' \in Converters
<1>1. /\ hw \in Converters
      /\ g_input_type \in Source \ {"NONE"}
  BY DEF TypeOK, FadeInv, SettingUp, DisableOthers, Connect, StopDA, StartDA, StartSource,
         Finish, SetUp
<1>2. \/ g_input_type \in AdInputs
      \/ g_input_type = "AES"
      \/ g_input_type \in SpdifInputs
      \/ g_input_type = "TEST"
  BY <1>1 DEF Source, AllInputs
<1>3. CASE DisableOthers
  BY <1>1, <1>2, <1>3, AdDisables, AesDisables, SpdifDisables
  DEF DisableOthers, SetUp, AdInputs, SpdifInputs
<1>4. CASE Connect
  <2>1. OthersOff(hw, g_input_type)
    BY <1>4 DEF ConvertersInv, Connect, SetUp
  <2> QED
    BY <1>1, <1>2, <1>4, <2>1, AdConnects, AesConnects, SpdifConnects, TestConnects
    DEF Connect, SetUp, AdInputs, SpdifInputs
<1>5. CASE StopDA
  <2>1. OthersOff(hw, g_input_type) /\ Wired(hw, g_input_type)
    BY <1>5 DEF ConvertersInv, StopDA, SetUp
  <2> QED
    BY <1>1, <1>5, <2>1, DaStops DEF StopDA, SetUp
<1>6. CASE StartDA
  <2>1. OthersOff(hw, g_input_type) /\ Wired(hw, g_input_type)
    BY <1>6 DEF ConvertersInv, StartDA, SetUp
  <2> QED
    BY <1>1, <1>6, <2>1, DaStarts DEF StartDA, SetUp
<1>7. CASE StartSource
  <2>1. OthersOff(hw, g_input_type) /\ Wired(hw, g_input_type) /\ Played(hw, g_input_type)
    BY <1>7 DEF ConvertersInv, StartSource, SetUp
  <2> QED
    BY <1>1, <1>2, <1>7, <2>1, AdStarts, SpdifStarts, TestStarts
    DEF StartSource, SetUp, AdInputs, SpdifInputs
<1>8. CASE Finish
  <2>1. Wired(hw, g_input_type) /\ Played(hw, g_input_type) /\ Sourced(hw, g_input_type)
    BY <1>8 DEF ConvertersInv, Finish, SetUp
  <2> QED
    BY <1>1, <1>8, <2>1, FinishConnects DEF Finish, SetUp
<1> QED
  BY <1>3, <1>4, <1>5, <1>6, <1>7, <1>8

\* Every step of the loop and every interrupt keeps the shape of the state.
LEMMA TypeStep ==
  ASSUME IndInv, [Next]_vars
  PROVE  TypeOK'
<1> USE InputAssumption DEF IndInv
<1>1. CASE TestFlag
  BY <1>1 DEF TestFlag, TypeOK, Steps, command, chosen, fading, flags
<1>2. CASE CheckWord
  BY <1>2 DEF CheckWord, AfterCode, TypeOK, Steps, link, command, chosen, fading, flags
<1>3. CASE ReadWord
  BY <1>3 DEF ReadWord, AfterCode, TypeOK, Steps, States, link, chosen, fading, flags
<1>4. CASE ChangeInput
  <2>1. i_old_input' \in Source /\ i_now_input' \in Source /\ i_last_code' \in Inputs \cup {"NONE"}
    BY <1>4, ChoiceType DEF ChangeInput, Remember
  <2>2. g_interrupt_times' \in 0..FADE
    BY <1>4 DEF ChangeInput
  <2>3. g_Init_Input_Types' \in BOOLEAN /\ fade' \in {"none", "down", "up"} /\ pc' \in Steps
    BY <1>4 DEF ChangeInput, Steps
  <2> QED
    BY <1>4, <2>1, <2>2, <2>3 DEF ChangeInput, TypeOK, link, command, flags
<1>5. CASE KeepFading
  BY <1>5, ChoiceType DEF KeepFading, Remember, TypeOK, Steps, link, command, fading, flags
<1>6. CASE EndFade
  <2>1. hw' \in Converters
    BY <1>6, Mutes DEF EndFade, EnterSwitch, TypeOK
  <2>2. g_Init_Input_Types' \in BOOLEAN /\ pc' \in Steps /\ g_input_type' \in Source
    BY <1>6 DEF EndFade, EnterSwitch, TypeOK, Steps
  <2> QED
    BY <1>6, <2>1, <2>2, ChoiceType DEF EndFade, EnterSwitch, Remember, TypeOK, link, command, flags
<1>7. CASE SameInput
  <2>1. hw' \in Converters
    BY <1>7, Mutes DEF SameInput, EnterSwitch, TypeOK
  <2>2. g_Init_Input_Types' \in BOOLEAN /\ pc' \in Steps /\ g_input_type' \in Source
    BY <1>7 DEF SameInput, EnterSwitch, TypeOK, Steps
  <2> QED
    BY <1>7, <2>1, <2>2, ChoiceType DEF SameInput, EnterSwitch, Remember, TypeOK, link, command, fading, flags
<1>8. CASE DisableOthers \/ Connect \/ StopDA \/ StartDA \/ StartSource \/ Finish
  <2>1. hw' \in Converters
    BY <1>8, SetUpType
  <2>2. pc' \in Steps /\ UNCHANGED <<link, command, chosen, fading, flags>>
    BY <1>8 DEF DisableOthers, Connect, StopDA, StartDA, StartSource, Finish, SetUp, Steps
  <2> QED
    BY <2>1, <2>2 DEF TypeOK, link, command, chosen, fading, flags
<1>9. CASE HandleBlock
  BY <1>9 DEF HandleBlock, TypeOK, Steps, link, command, chosen, fading
<1>10. CASE NoBlock
  BY <1>10 DEF NoBlock, TypeOK, Steps, link, command, chosen, fading, flags
<1>11. CASE SPIH_ISR
  BY <1>11 DEF SPIH_ISR, Receive, TypeOK, Words, command, chosen, fading, flags
<1>12. CASE PollISR
  BY <1>12 DEF PollISR, Receive, TypeOK, Words, IdleWords, command, chosen, fading, flags
<1>13. CASE SP0ADCSend_ISR
  <2>1. hw' \in Converters
    BY <1>13, BlockPlayed DEF SP0ADCSend_ISR, TypeOK
  <2> QED
    BY <1>13, <2>1 DEF SP0ADCSend_ISR, TypeOK, link, command, chosen
<1>14. CASE SP6ADCRcv_ISR
  <2>1. hw' \in Converters
    BY <1>14, BlockReceived DEF SP6ADCRcv_ISR, TypeOK
  <2> QED
    BY <1>14, <2>1 DEF SP6ADCRcv_ISR, TypeOK, link, command, chosen, fading
<1>15. CASE SP4ADCRcv_ISR
  BY <1>15 DEF SP4ADCRcv_ISR, TypeOK, link, command, chosen, fading
<1>16. CASE UNCHANGED vars
  BY <1>16 DEF vars, TypeOK
<1> QED
  BY <1>1, <1>2, <1>3, <1>4, <1>5, <1>6, <1>7, <1>8, <1>9, <1>10, <1>11, <1>12, <1>13,
     <1>14, <1>15, <1>16 DEF Next, MainLoop

(***************************************************************************)
(* The word of the host                                                    *)
(***************************************************************************)
\* No step loses the word: the interrupt sets the flag after the register, and the loop
\* clears it before it looks.
LEMMA WordStep ==
  ASSUME IndInv, [Next]_vars
  PROVE  WordInv'
<1> USE DEF IndInv
<1>1. CASE TestFlag
  BY <1>1 DEF TestFlag, WordInv, TypeOK, command
<1>2. CASE CheckWord
  BY <1>2 DEF CheckWord, AfterCode, WordInv, link, command
<1>3. CASE ReadWord
  BY <1>3 DEF ReadWord, WordInv, link
<1>4. CASE ChangeInput \/ KeepFading \/ EndFade \/ SameInput
  <2>1. pc = "choose" /\ UNCHANGED <<link, command>>
    BY <1>4 DEF ChangeInput, KeepFading, EndFade, SameInput, Remember
  <2> QED
    BY <2>1 DEF WordInv, link, command
<1>5. CASE DisableOthers \/ Connect \/ StopDA \/ StartDA \/ StartSource \/ Finish
  <2>1. pc \notin {"check", "read"} /\ UNCHANGED <<link, command>>
    BY <1>5 DEF DisableOthers, Connect, StopDA, StartDA, StartSource, Finish, SetUp
  <2> QED
    BY <2>1 DEF WordInv, link, command
<1>6. CASE HandleBlock \/ NoBlock
  <2>1. pc = "data" /\ UNCHANGED <<link, command>>
    BY <1>6 DEF HandleBlock, NoBlock
  <2> QED
    BY <2>1 DEF WordInv, link, command
<1>7. CASE SPIH_ISR \/ PollISR
  BY <1>7 DEF SPIH_ISR, PollISR, Receive, WordInv
<1>8. CASE SP0ADCSend_ISR \/ SP6ADCRcv_ISR \/ SP4ADCRcv_ISR \/ UNCHANGED vars
  <2>1. UNCHANGED <<link, command, pc>>
    BY <1>8 DEF SP0ADCSend_ISR, SP6ADCRcv_ISR, SP4ADCRcv_ISR, vars, link, command
  <2> QED
    BY <2>1 DEF WordInv, link, command
<1> QED
  BY <1>1, <1>2, <1>3, <1>4, <1>5, <1>6, <1>7, <1>8 DEF Next, MainLoop

(***************************************************************************)
(* The choice                                                              *)
(***************************************************************************)
\* The inputs are no words of another kind.
LEMMA InputNames ==
  /\ Inputs \cap (States \cup IdleWords \cup {"INITDONE", "OTHER", "TEST", "NONE"}) = {}
BY InputAssumption DEF AllInputs, AdInputs, SpdifInputs, States, IdleWords

\* The way back survives the words that come before, in and after an alignment.
LEMMA ChoiceStep ==
  ASSUME IndInv, [Next]_vars
  PROVE  ChoiceInv'
<1> USE DEF IndInv
<1>1. CASE TestFlag
  BY <1>1 DEF TestFlag, ChoiceInv, Back, TypeOK, command, chosen
<1>2. CASE CheckWord
  BY <1>2 DEF CheckWord, AfterCode, ChoiceInv, Back, TypeOK, command, chosen
<1>3. CASE ReadWord
  BY <1>3, InputNames DEF ReadWord, AfterCode, ChoiceInv, Back, TypeOK, chosen
<1>4. CASE ChangeInput \/ KeepFading \/ EndFade \/ SameInput
  <2>1. /\ pc = "choose" /\ pc' \in {"data", "disable"}
        /\ i_old_input' = OldInput /\ i_last_code' = LastCode /\ i_now_input' = OldInput
        /\ UNCHANGED <<link, command>>
    BY <1>4 DEF ChangeInput, KeepFading, EndFade, SameInput, Remember, EnterSwitch
  <2>2. g_init_done /\ SystemState \in {"NORMAL", "ALIGNMENT", "PUB"}
    BY <2>1 DEF ChoiceInv, TypeOK, States
  <2>3. CASE SystemState = "NORMAL"
    <3>1. OldInput = choice /\ LastCode = i_last_code
      BY <2>1, <2>2, <2>3, InputNames DEF ChoiceInv, Back, OldInput, LastCode, TypeOK
    <3>2. choice # "TEST" /\ (choice = "NONE" => i_last_code = "NONE")
      BY <2>1, <2>2, <2>3, InputNames DEF ChoiceInv, Back, TypeOK
    <3> QED
      BY <2>1, <2>2, <2>3, <3>1, <3>2 DEF ChoiceInv, Back, command
  <2>4. CASE SystemState = "ALIGNMENT"
    <3>1. OldInput = "TEST" /\ choice = Back
      BY <2>1, <2>4 DEF ChoiceInv, OldInput
    <3>2. LastCode = Back
      BY <2>4, InputNames DEF ChoiceInv, LastCode, Back, TypeOK, Source
    <3> QED
      BY <2>1, <2>2, <2>4, <3>1, <3>2 DEF ChoiceInv, Back, command
  <2>5. CASE SystemState = "PUB"
    <3>1. OldInput = i_old_input /\ LastCode = i_last_code /\ choice = Back
      BY <2>1, <2>5 DEF ChoiceInv, OldInput, LastCode
    <3> QED
      BY <2>1, <2>2, <2>5, <3>1 DEF ChoiceInv, Back, command
  <2> QED
    BY <2>2, <2>3, <2>4, <2>5
<1>5. CASE DisableOthers \/ Connect \/ StopDA \/ StartDA \/ StartSource \/ Finish
  <2>1. /\ pc \in {"disable", "connect", "stop", "start", "source", "finish"}
        /\ pc' \in {"connect", "stop", "start", "source", "finish", "data"}
        /\ UNCHANGED <<command, chosen>>
    BY <1>5 DEF DisableOthers, Connect, StopDA, StartDA, StartSource, Finish, SetUp
  <2> QED
    BY <2>1 DEF ChoiceInv, Back, command, chosen
<1>6. CASE HandleBlock \/ NoBlock
  <2>1. pc = "data" /\ pc' = "top" /\ UNCHANGED <<command, chosen>>
    BY <1>6 DEF HandleBlock, NoBlock
  <2> QED
    BY <2>1 DEF ChoiceInv, Back, command, chosen
<1>7. CASE \/ SPIH_ISR \/ PollISR \/ SP0ADCSend_ISR \/ SP6ADCRcv_ISR \/ SP4ADCRcv_ISR
           \/ UNCHANGED vars
  <2>1. UNCHANGED <<command, chosen, pc>>
    BY <1>7 DEF SPIH_ISR, PollISR, Receive, SP0ADCSend_ISR, SP6ADCRcv_ISR, SP4ADCRcv_ISR, vars,
                command, chosen
  <2> QED
    BY <2>1 DEF ChoiceInv, Back, command, chosen
<1> QED
  BY <1>1, <1>2, <1>3, <1>4, <1>5, <1>6, <1>7 DEF Next, MainLoop

(***************************************************************************)
(* The fade                                                                *)
(***************************************************************************)
\* A set-up begins only at the end of a fade, and with the source that was chosen.
LEMMA FadeStep ==
  ASSUME IndInv, [Next]_vars
  PROVE  FadeInv'
<1> USE DEF IndInv
<1>1. CASE TestFlag \/ CheckWord \/ ReadWord
  <2>1. ~SettingUp' /\ UNCHANGED <<chosen, fading>>
    BY <1>1 DEF TestFlag, CheckWord, ReadWord, AfterCode, SettingUp
  <2> QED
    BY <2>1 DEF FadeInv, chosen, fading
<1>2. CASE ChangeInput
  BY <1>2 DEF ChangeInput, FadeInv, SettingUp
<1>3. CASE KeepFading
  BY <1>3 DEF KeepFading, FadeInv, SettingUp, fading
<1>4. CASE EndFade
  BY <1>4 DEF EndFade, EnterSwitch, FadeInv, SettingUp
<1>5. CASE SameInput
  BY <1>5 DEF SameInput, EnterSwitch, FadeInv, SettingUp, fading
<1>6. CASE DisableOthers \/ Connect \/ StopDA \/ StartDA \/ StartSource \/ Finish
  <2>1. SettingUp /\ UNCHANGED <<chosen, fading>>
    BY <1>6 DEF DisableOthers, Connect, StopDA, StartDA, StartSource, Finish, SetUp, SettingUp
  <2> QED
    BY <2>1 DEF FadeInv, chosen, fading
<1>7. CASE HandleBlock \/ NoBlock
  <2>1. ~SettingUp' /\ UNCHANGED <<chosen, fading>>
    BY <1>7 DEF HandleBlock, NoBlock, SettingUp
  <2> QED
    BY <2>1 DEF FadeInv, chosen, fading
<1>8. CASE \/ SPIH_ISR \/ PollISR \/ SP0ADCSend_ISR \/ SP6ADCRcv_ISR \/ SP4ADCRcv_ISR
           \/ UNCHANGED vars
  <2>1. UNCHANGED <<chosen, fade, pc>>
    BY <1>8 DEF SPIH_ISR, PollISR, Receive, SP0ADCSend_ISR, SP6ADCRcv_ISR, SP4ADCRcv_ISR, vars,
                chosen, fading
  <2> QED
    BY <2>1 DEF FadeInv, SettingUp, chosen
<1> QED
  BY <1>1, <1>2, <1>3, <1>4, <1>5, <1>6, <1>7, <1>8 DEF Next, MainLoop

(***************************************************************************)
(* The converters                                                          *)
(***************************************************************************)
\* Each step of a set-up reaches the next stage, and nothing else disturbs one.
LEMMA ConvertersStep ==
  ASSUME IndInv, [Next]_vars
  PROVE  ConvertersInv'
<1> USE DEF IndInv
<1>1. CASE \/ TestFlag \/ CheckWord \/ ReadWord \/ ChangeInput \/ KeepFading
           \/ HandleBlock \/ NoBlock
  <2>1. ~SettingUp /\ ~SettingUp' /\ UNCHANGED <<hw, g_input_type>>
    BY <1>1 DEF TestFlag, CheckWord, ReadWord, AfterCode, ChangeInput, KeepFading, Remember,
                HandleBlock, NoBlock, SettingUp, chosen
  <2> QED
    BY <2>1 DEF ConvertersInv, OnlySourceConnected, AtBoot, SettingUp
<1>2. CASE EndFade
  <2>1. pc' = "disable" \/ (pc' = "data" /\ g_input_type' = "NONE")
    BY <1>2 DEF EndFade, EnterSwitch, FadeInv
  <2> QED
    BY <2>1 DEF ConvertersInv, OnlySourceConnected, SettingUp
<1>3. CASE SameInput
  <2>1. pc = "choose" /\ pc' = "data"
    BY <1>3 DEF SameInput, EnterSwitch, Remember, FadeInv, TypeOK
  <2>2. g_input_type' = "NONE" \/ UNCHANGED <<hw, g_input_type>>
    BY <1>3 DEF SameInput, EnterSwitch, FadeInv, TypeOK
  <2> QED
    BY <2>1, <2>2 DEF ConvertersInv, OnlySourceConnected, AtBoot, SettingUp
<1>4. CASE DisableOthers \/ Connect \/ StopDA \/ StartDA \/ StartSource \/ Finish
  <2>1. /\ hw \in Converters
        /\ g_input_type \in Source \ {"NONE"}
        /\ g_input_type' = g_input_type
    BY <1>4 DEF TypeOK, FadeInv, SettingUp, DisableOthers, Connect, StopDA, StartDA,
                StartSource, Finish, SetUp, chosen
  <2>2. \/ g_input_type \in AdInputs
        \/ g_input_type = "AES"
        \/ g_input_type \in SpdifInputs
        \/ g_input_type = "TEST"
    BY <2>1 DEF Source, AllInputs
  <2>3. CASE DisableOthers
    <3>1. OthersOff(hw', g_input_type)
      <4>1. CASE g_input_type = "TEST"
        BY <4>1 DEF OthersOff, AdInputs, SpdifInputs
      <4> QED
        BY <2>1, <2>2, <2>3, <4>1, AdDisables, AesDisables, SpdifDisables
        DEF DisableOthers, SetUp, AdInputs, SpdifInputs
    <3> QED
      BY <2>1, <2>3, <3>1
      DEF DisableOthers, SetUp, ConvertersInv, OnlySourceConnected, SettingUp
  <2>4. CASE Connect
    <3>1. OthersOff(hw, g_input_type)
      BY <2>4 DEF ConvertersInv, Connect, SetUp
    <3>2. Wired(hw', g_input_type)
      BY <2>1, <2>2, <2>4, <3>1, AdConnects, AesConnects, SpdifConnects, TestConnects
      DEF Connect, SetUp, AdInputs, SpdifInputs
    <3>3. OthersOff(hw', g_input_type)
      <4>1. CASE g_input_type = "TEST"
        BY <4>1 DEF OthersOff, AdInputs, SpdifInputs
      <4> QED
        BY <2>1, <2>2, <2>4, <3>1, <4>1, AdConnects, AesConnects, SpdifConnects
        DEF Connect, SetUp, AdInputs, SpdifInputs
    <3> QED
      BY <2>1, <2>4, <3>2, <3>3
      DEF Connect, SetUp, ConvertersInv, OnlySourceConnected, SettingUp
  <2>5. CASE StopDA
    <3>1. OthersOff(hw, g_input_type) /\ Wired(hw, g_input_type)
      BY <2>5 DEF ConvertersInv, StopDA, SetUp
    <3>2. OthersOff(hw', g_input_type) /\ Wired(hw', g_input_type)
      BY <2>1, <2>5, <3>1, DaStops DEF StopDA, SetUp
    <3> QED
      BY <2>1, <2>5, <3>2
      DEF StopDA, SetUp, ConvertersInv, OnlySourceConnected, SettingUp
  <2>6. CASE StartDA
    <3>1. OthersOff(hw, g_input_type) /\ Wired(hw, g_input_type)
      BY <2>6 DEF ConvertersInv, StartDA, SetUp
    <3>2. OthersOff(hw', g_input_type) /\ Wired(hw', g_input_type) /\ Played(hw', g_input_type)
      BY <2>1, <2>6, <3>1, DaStarts DEF StartDA, SetUp
    <3> QED
      BY <2>1, <2>6, <3>2
      DEF StartDA, SetUp, ConvertersInv, OnlySourceConnected, SettingUp
  <2>7. CASE StartSource
    <3>1. OthersOff(hw, g_input_type) /\ Wired(hw, g_input_type) /\ Played(hw, g_input_type)
      BY <2>7 DEF ConvertersInv, StartSource, SetUp
    <3>2. Wired(hw', g_input_type) /\ Played(hw', g_input_type) /\ Sourced(hw', g_input_type)
      BY <2>1, <2>2, <2>7, <3>1, AdStarts, SpdifStarts, TestStarts
      DEF StartSource, SetUp, AdInputs, SpdifInputs
    <3> QED
      BY <2>1, <2>7, <3>2
      DEF StartSource, SetUp, ConvertersInv, OnlySourceConnected, SettingUp
  <2>8. CASE Finish
    <3>1. Wired(hw, g_input_type) /\ Played(hw, g_input_type) /\ Sourced(hw, g_input_type)
      BY <2>8 DEF ConvertersInv, Finish, SetUp
    <3>2. Connected(hw', g_input_type)
      BY <2>1, <2>8, <3>1, FinishConnects DEF Finish, SetUp
    <3> QED
      BY <2>1, <2>8, <3>2
      DEF Finish, SetUp, ConvertersInv, OnlySourceConnected, SettingUp
  <2> QED
    BY <1>4, <2>3, <2>4, <2>5, <2>6, <2>7, <2>8
<1>5. CASE SP0ADCSend_ISR
  <2>1. /\ hw \in Converters /\ g_input_type \in Source
        /\ hw' = [hw EXCEPT !.da = IF @ = "last" THEN "off" ELSE @]
        /\ UNCHANGED <<g_input_type, pc>>
    BY <1>5 DEF SP0ADCSend_ISR, TypeOK, chosen
  <2>2. /\ OthersOff(hw, g_input_type) => OthersOff(hw', g_input_type)
        /\ Wired(hw, g_input_type) => Wired(hw', g_input_type)
        /\ Played(hw, g_input_type) => Played(hw', g_input_type)
        /\ Sourced(hw, g_input_type) => Sourced(hw', g_input_type)
        /\ Connected(hw, g_input_type) => Connected(hw', g_input_type)
        /\ hw = Boot => hw' = Boot
    BY <2>1, BlockPlayed
  <2> QED
    BY <2>1, <2>2 DEF ConvertersInv, OnlySourceConnected, SettingUp, AtBoot
<1>6. CASE SP6ADCRcv_ISR
  <2>1. /\ hw \in Converters /\ g_input_type \in Source
        /\ hw' = [hw EXCEPT !.adChain = IF @ = "last" THEN "off" ELSE @]
        /\ UNCHANGED <<g_input_type, pc>>
    BY <1>6 DEF SP6ADCRcv_ISR, TypeOK, chosen
  <2>2. /\ OthersOff(hw, g_input_type) => OthersOff(hw', g_input_type)
        /\ Wired(hw, g_input_type) => Wired(hw', g_input_type)
        /\ Played(hw, g_input_type) => Played(hw', g_input_type)
        /\ Sourced(hw, g_input_type) => Sourced(hw', g_input_type)
        /\ Connected(hw, g_input_type) => Connected(hw', g_input_type)
        /\ hw = Boot => hw' = Boot
    BY <2>1, BlockReceived
  <2> QED
    BY <2>1, <2>2 DEF ConvertersInv, OnlySourceConnected, SettingUp, AtBoot
<1>7. CASE SPIH_ISR \/ PollISR \/ SP4ADCRcv_ISR \/ UNCHANGED vars
  <2>1. UNCHANGED <<hw, g_input_type, pc>>
    BY <1>7 DEF SPIH_ISR, PollISR, Receive, SP4ADCRcv_ISR, vars, chosen
  <2> QED
    BY <2>1 DEF ConvertersInv, OnlySourceConnected, SettingUp, AtBoot
<1> QED
  BY <1>1, <1>2, <1>3, <1>4, <1>5, <1>6, <1>7 DEF Next, MainLoop

-----------------------------------------------------------------------------
\* The device after power-on: nothing chosen, nothing connected.
LEMMA InitInv == Init => IndInv
<1>1. Boot \in Converters
  BY DEF Boot, Converters
<1>2. ASSUME Init PROVE TypeOK
  <2>1. g_interrupt_times \in 0..FADE /\ sent \in 0..MaxWords
    BY <1>2, InputAssumption DEF Init
  <2>2. /\ g_GetRXSPI \in Words /\ g_spi_data \in Words /\ SystemState \in States
        /\ i_old_input \in Source /\ i_now_input \in Source /\ g_input_type \in Source
        /\ pc \in Steps
    BY <1>2 DEF Init, Words, IdleWords, States, Source, AllInputs, AdInputs, Steps
  <2> QED
    BY <1>1, <1>2, <2>1, <2>2 DEF Init, TypeOK
<1>3. ASSUME Init PROVE WordInv /\ ChoiceInv /\ FadeInv
  BY <1>3 DEF Init, WordInv, IdleWords, ChoiceInv, Back, FadeInv, SettingUp
<1>4. ASSUME Init PROVE ConvertersInv
  BY <1>4 DEF Init, ConvertersInv, OnlySourceConnected, AtBoot
<1> QED
  BY <1>2, <1>3, <1>4 DEF IndInv

\* The invariant holds of every behaviour.
THEOREM Invariance == Spec => []IndInv
<1>1. IndInv /\ [Next]_vars => IndInv'
  BY TypeStep, WordStep, ChoiceStep, FadeStep, ConvertersStep DEF IndInv
<1> QED
  BY InitInv, <1>1, PTL DEF Spec

\* The shape of the state: the alignment goes back to an input of the host, the fade
\* never counts past FADE, and no step leaves the converters a value they do not have.
THEOREM TypeCorrect == Spec => []TypeOK
<1>1. IndInv => TypeOK
  BY DEF IndInv
<1> QED
  BY Invariance, <1>1, PTL

\* SPI.c: the last command that the interrupt handler took is the one worked on when the
\* loop is back at its top with no flag set.
THEOREM WordKept == Spec => []LastWordKept
<1>1. IndInv => LastWordKept
  BY DEF IndInv, WordInv, LastWordKept
<1> QED
  BY Invariance, <1>1, PTL

\* Input_Types.c: whatever comes before, in and after an alignment, the normal state goes
\* back to the input that was selected last in it.
THEOREM WayBack == Spec => []AlignmentReturns
<1>1. IndInv => AlignmentReturns
  BY DEF IndInv, ChoiceInv, Back, AlignmentReturns
<1> QED
  BY Invariance, <1>1, PTL

\* CS5368.c, Spdif_Coax.c: after any sequence of inputs, with interrupts between any two
\* steps of a set-up, the converters are those of the input in use and of no other.
THEOREM OneSource == Spec => []OnlySourceConnected
<1>1. IndInv => OnlySourceConnected
  BY DEF IndInv, ConvertersInv
<1> QED
  BY Invariance, <1>1, PTL

(***************************************************************************)
(* The refinement: a change of the input is Choose, the interrupt of the   *)
(* DA is PlayBlock, the end of a fade is Switch; the first round of the    *)
(* loop, which lets the input of the start go, is Forget.  FadeInv gives   *)
(* what the code does not test: the switch is entered outside a fade only  *)
(* for the source in use or for none.                                      *)
(***************************************************************************)
LEMMA SwitchingInit == Init => Switching!Init
BY DEF Init, Switching!Init, Source, AllInputs, AdInputs

\* Every step is a step of InputSwitch, or leaves what it sees alone.
LEMMA SwitchingStep ==
  ASSUME IndInv, [Next]_vars
  PROVE  [Switching!Next]_(Switching!svars)
<1> USE DEF IndInv
<1>1. CASE ChangeInput
  <2>1. OldInput \in Source
    BY ChoiceType
  <2>2. Switching!Choose(OldInput)
    BY <1>1 DEF ChangeInput, Switching!Choose
  <2> QED
    BY <2>1, <2>2 DEF Switching!Next
<1>2. CASE EndFade
  <2>1. Switching!Switch
    BY <1>2, InputAssumption DEF EndFade, EnterSwitch, Switching!Switch, TypeOK
  <2> QED
    BY <2>1 DEF Switching!Next
<1>3. CASE SameInput
  <2>1. CASE i_now_input = "NONE"
    <3>1. Switching!Forget
      BY <1>3, <2>1 DEF SameInput, EnterSwitch, Switching!Forget, fading
    <3> QED
      BY <3>1 DEF Switching!Next
  <2>2. CASE i_now_input # "NONE"
    BY <1>3, <2>2 DEF SameInput, EnterSwitch, FadeInv, Switching!svars, fading
  <2> QED
    BY <2>1, <2>2
<1>4. CASE SP0ADCSend_ISR
  <2>1. CASE g_interrupt_times < FADE
    <3>1. Switching!PlayBlock
      BY <1>4, <2>1 DEF SP0ADCSend_ISR, Switching!PlayBlock, chosen
    <3> QED
      BY <3>1 DEF Switching!Next
  <2>2. CASE ~(g_interrupt_times < FADE)
    <3>1. g_interrupt_times = FADE
      BY <2>2, InputAssumption DEF TypeOK
    <3> QED
      BY <1>4, <2>2, <3>1 DEF SP0ADCSend_ISR, Switching!svars, chosen
  <2> QED
    BY <2>1, <2>2
<1>5. CASE \/ TestFlag \/ CheckWord \/ ReadWord \/ KeepFading
           \/ DisableOthers \/ Connect \/ StopDA \/ StartDA \/ StartSource \/ Finish
           \/ HandleBlock \/ NoBlock
           \/ SPIH_ISR \/ PollISR \/ SP6ADCRcv_ISR \/ SP4ADCRcv_ISR \/ UNCHANGED vars
  <2>1. UNCHANGED <<i_now_input, g_input_type, fade, g_interrupt_times>>
    BY <1>5 DEF TestFlag, CheckWord, ReadWord, KeepFading, DisableOthers, Connect, StopDA,
                StartDA, StartSource, Finish, SetUp, HandleBlock, NoBlock, SPIH_ISR, PollISR,
                Receive, SP6ADCRcv_ISR, SP4ADCRcv_ISR, vars, chosen, fading
  <2> QED
    BY <2>1 DEF Switching!svars
<1> QED
  BY <1>1, <1>2, <1>3, <1>4, <1>5 DEF Next, MainLoop

\* Input_Types.c: the sources fade and switch as InputSwitch promises, a switch coming
\* FADE blocks after the last change of mind, never earlier and never to another source.
THEOREM Refinement == Spec => ImplementsSwitch
<1>1. IndInv /\ [Next]_vars => [Switching!Next]_(Switching!svars)
  BY SwitchingStep
<1> QED
  BY SwitchingInit, Invariance, <1>1, PTL DEF Spec, ImplementsSwitch, Switching!Spec

(***************************************************************************)
(* The mute                                                                *)
(***************************************************************************)
\* The mute at the end of a fade comes with the step into a set-up, or is taken back in
\* the same step when there is nothing to set up; a set-up ends with the unmute.
LEMMA MuteStep ==
  ASSUME IndInv, NeverLeftMuted, [Next]_vars
  PROVE  NeverLeftMuted'
<1> USE DEF IndInv
<1>1. CASE \/ TestFlag \/ CheckWord \/ ReadWord \/ ChangeInput \/ KeepFading
           \/ HandleBlock \/ NoBlock
  <2>1. ~SettingUp /\ UNCHANGED hw
    BY <1>1 DEF TestFlag, CheckWord, ReadWord, ChangeInput, KeepFading, Remember, HandleBlock,
                NoBlock, SettingUp
  <2> QED
    BY <2>1 DEF NeverLeftMuted
<1>2. ASSUME NEW h \in Converters
      PROVE  PCM4104_Mute(h, FALSE).muted = FALSE
  BY DEF PCM4104_Mute, Converters
<1>3. CASE EndFade
  <2>1. \/ SettingUp'
        \/ hw' = PCM4104_Mute(PCM4104_Mute(hw, TRUE), FALSE)
    BY <1>3 DEF EndFade, EnterSwitch, FadeInv, SettingUp
  <2>2. PCM4104_Mute(hw, TRUE) \in Converters
    BY Mutes DEF TypeOK
  <2> QED
    BY <1>2, <2>1, <2>2 DEF NeverLeftMuted
<1>4. CASE SameInput
  <2>1. ~SettingUp /\ (hw' = hw \/ hw' = PCM4104_Mute(hw, FALSE))
    BY <1>4 DEF SameInput, EnterSwitch, Remember, SettingUp
  <2> QED
    BY <1>2, <2>1 DEF NeverLeftMuted, TypeOK
<1>5. CASE DisableOthers \/ Connect \/ StopDA \/ StartDA \/ StartSource
  BY <1>5 DEF DisableOthers, Connect, StopDA, StartDA, StartSource, SetUp, SettingUp,
              NeverLeftMuted
<1>6. CASE Finish
  <2>1. [hw EXCEPT !.mic = @ \/ g_input_type \in {"MIC", "DVD"}] \in Converters
    BY DEF TypeOK, Converters
  <2> QED
    BY <1>2, <1>6, <2>1 DEF Finish, SetUp, NeverLeftMuted
<1>7. CASE SP0ADCSend_ISR \/ SP6ADCRcv_ISR
  <2>1. hw'.muted = hw.muted /\ UNCHANGED pc
    BY <1>7 DEF SP0ADCSend_ISR, SP6ADCRcv_ISR, TypeOK, Converters
  <2> QED
    BY <2>1 DEF NeverLeftMuted, SettingUp
<1>8. CASE SPIH_ISR \/ PollISR \/ SP4ADCRcv_ISR \/ UNCHANGED vars
  <2>1. UNCHANGED <<hw, pc>>
    BY <1>8 DEF SPIH_ISR, PollISR, Receive, SP4ADCRcv_ISR, vars
  <2> QED
    BY <2>1 DEF NeverLeftMuted, SettingUp
<1> QED
  BY <1>1, <1>3, <1>4, <1>5, <1>6, <1>7, <1>8 DEF Next, MainLoop

\* Input_Types.c: no order of choices, words, alignments and blocks leaves the DA muted
\* outside a set-up; FadeInv is why the set-up that unmutes is never skipped.
THEOREM NotSilent == Spec => []NeverLeftMuted
<1>1. Init => NeverLeftMuted
  BY DEF Init, Boot, NeverLeftMuted
<1>2. IndInv /\ NeverLeftMuted /\ [Next]_vars => NeverLeftMuted'
  BY MuteStep
<1> QED
  BY <1>1, <1>2, Invariance, PTL DEF Spec
=============================================================================
