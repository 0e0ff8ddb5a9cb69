------------------------------ MODULE DspInput ------------------------------
(***************************************************************************)
(* The DSP: words from the host (src/SPI.c), the main loop (main.c), the   *)
(* choice of the input and its fade (src/Input_Types.c), and what the      *)
(* converters are set to (src/CS5368.c, src/Spdif_Coax.c, src/PCM4104.c).  *)
(*                                                                         *)
(* The main loop is one thread; the interrupts of the link, of the DA and  *)
(* of the input in use come between any two of its steps.  A step ends     *)
(* where an interrupt could make a difference.                             *)
(***************************************************************************)
EXTENDS Naturals

CONSTANTS
  Inputs,      \* the inputs that the host selects
  FADE,        \* DA interrupts that a fade out takes: 100
  MaxWords     \* bound: words from the host, polls not counted

AdInputs == {"AD", "DVD", "MIC"}     \* all three come through the AD converter
SpdifInputs == {"SPDIF", "COAX"}
AllInputs == AdInputs \cup SpdifInputs \cup {"AES"}

ASSUME InputAssumption ==
  /\ Inputs \subseteq AllInputs
  /\ FADE \in Nat \ {0}
  /\ MaxWords \in Nat

States == {"NORMAL", "ALIGNMENT", "PUB"}
IdleWords == {"ZERO", "POLL"}        \* 0 and 0xffffffff carry no command
HostWords == Inputs \cup States \cup {"INITDONE", "OTHER"}
Words == HostWords \cup IdleWords
Source == AllInputs \cup {"TEST", "NONE"}

VARIABLES
  g_GetRXSPI,             \* and the receive register, which holds the same word
  g_SPI_Interrupt_Flag,
  g_spi_data,
  g_init_done,
  SystemState,
  i_old_input, i_now_input, i_last_code,
  g_Init_Input_Types,
  fade,                   \* "down" or "up": g_i_change_down_flag, _up_flag
  g_interrupt_times,      \* since the last change; only >= FADE is tested
  g_input_type,
  hw,                     \* the converters, see Boot
  g_interruptFlag,        \* a block of the input has been received
  g_i_da_interrupt_flag,  \* a block has been played
  pc,                     \* the next step of the main loop
  sent,                   \* words received
  choice                  \* history: the last input taken as a command in NORMAL

vars == <<g_GetRXSPI, g_SPI_Interrupt_Flag, g_spi_data, g_init_done, SystemState,
          i_old_input, i_now_input, i_last_code, g_Init_Input_Types, fade,
          g_interrupt_times, g_input_type, hw, g_interruptFlag,
          g_i_da_interrupt_flag, pc, sent, choice>>

\* Groups of variables, for UNCHANGED.
link == <<g_GetRXSPI, g_SPI_Interrupt_Flag, sent>>
command == <<g_spi_data, g_init_done, SystemState, choice>>
chosen == <<i_old_input, i_now_input, i_last_code, g_Init_Input_Types, g_input_type>>
fading == <<fade, g_interrupt_times>>
flags == <<g_interruptFlag, g_i_da_interrupt_flag>>

-----------------------------------------------------------------------------
(***************************************************************************)
(* The converters.  A DMA chain whose pointer is cleared finishes the      *)
(* block it is in, with an interrupt: "run", then "last", then "off".      *)
(***************************************************************************)
Boot == [ad |-> FALSE,        \* the AD converter is out of reset
         aes |-> FALSE,       \* the AES receiver is out of reset
         select |-> "AD",     \* AD_AES_Select: whose data lines are connected
         mic |-> FALSE,       \* AD_MIC_Select
         coax |-> FALSE,      \* SPDIF_COAX_SEL
         adClock |-> "PCG",   \* clock of the input's serial ports
         adChain |-> "off",   \* their DMA
         sp6 |-> FALSE,       \* SP6ADCRcv_ISR is registered
         spdif |-> FALSE,     \* the DMA of SPDIF and COAX runs
         sp4 |-> FALSE,       \* SP4ADCRcv_ISR is registered
         daClock |-> "PCG",   \* clock of the DA
         da |-> "run",        \* its DMA
         muted |-> FALSE]

Ending(chain) == IF chain = "run" THEN "last" ELSE chain

\* The AES receiver gives a clock as long as it is not held in reset.
Clocked(h, source) == source = "PCG" \/ h.aes

PCM4104_Mute(h, on) == [h EXCEPT !.muted = on]
Disable_AD_DMA(h) == [h EXCEPT !.adChain = Ending(@)]
Disable_SPDIF_DMA(h) == [h EXCEPT !.spdif = FALSE]
AD_PowerOff(h) == [h EXCEPT !.ad = FALSE]
AES_PowerOff(h) == [h EXCEPT !.aes = FALSE]
Unregister_AD_Interrupt(h) == [h EXCEPT !.sp6 = FALSE]

\* Mutant: the AES receiver is left on.
MutantAD_Disable_Others(h) == Disable_SPDIF_DMA(Unregister_AD_Interrupt(h))

AD_Disable_Others(h) == Disable_SPDIF_DMA(AES_PowerOff(Unregister_AD_Interrupt(h)))
AES_Disable_Others(h) == Disable_SPDIF_DMA(AD_PowerOff(Unregister_AD_Interrupt(h)))
SPDIF_Disable_Others(h) == Disable_AD_DMA(AES_PowerOff(AD_PowerOff(Disable_SPDIF_DMA(h))))

\* AD_AES_Init up to reinit_da: the interrupt, the reset, the selects, the pins.
ConnectAD(h) ==
  [Disable_AD_DMA(h) EXCEPT !.sp6 = TRUE, !.ad = TRUE, !.select = "AD", !.mic = FALSE,
                            !.adClock = "PCG"]
ConnectAES(h) ==
  [Disable_AD_DMA(h) EXCEPT !.sp6 = TRUE, !.aes = TRUE, !.select = "AES", !.mic = FALSE,
                            !.adClock = "AES"]

\* Init_SPDIF_COAX up to reinit_da.
ConnectSPDIF(h, coax) ==
  [h EXCEPT !.coax = coax, !.sp4 = TRUE, !.select = "AD"]

\* reinit_da: the DMA is stopped ...
Stop_PCM4104_DMA(h) == [h EXCEPT !.da = Ending(@)]

\* ... and PCM4104_Init sets the clock, starts the DMA and unmutes.
PCM4104_Init(h, input) ==
  PCM4104_Mute([h EXCEPT !.daClock = IF input = "AES" THEN "AES" ELSE "PCG",
                         !.da = "run"], FALSE)

-----------------------------------------------------------------------------
Init ==
  /\ g_GetRXSPI = "ZERO" /\ g_SPI_Interrupt_Flag = FALSE
  /\ g_spi_data = "ZERO"
  /\ g_init_done = FALSE /\ SystemState = "NORMAL"
  /\ i_old_input = "NONE" /\ i_now_input = "NONE" /\ i_last_code = "NONE"
  /\ g_Init_Input_Types = FALSE
  /\ fade = "none" /\ g_interrupt_times = 0
  /\ g_input_type = "AD"
  /\ hw = Boot
  /\ g_interruptFlag = FALSE /\ g_i_da_interrupt_flag = FALSE
  /\ pc = "top" /\ sent = 0 /\ choice = "NONE"

(***************************************************************************)
(* The interrupts                                                          *)
(***************************************************************************)
Receive(w) ==
  /\ g_GetRXSPI' = w
  /\ g_SPI_Interrupt_Flag' = TRUE
  /\ UNCHANGED <<command, chosen, fading, hw, flags, pc>>

\* The host sends a command, or polls for an upload.
SPIH_ISR == \E w \in HostWords : sent < MaxWords /\ sent' = sent + 1 /\ Receive(w)
PollISR == Receive("POLL") /\ UNCHANGED sent

\* A block has been played.
SP0ADCSend_ISR ==
  /\ hw.da # "off"
  /\ Clocked(hw, hw.daClock)
  /\ g_i_da_interrupt_flag' = TRUE
  /\ g_interrupt_times' = IF g_interrupt_times < FADE THEN g_interrupt_times + 1 ELSE FADE
  /\ hw' = [hw EXCEPT !.da = IF @ = "last" THEN "off" ELSE @]
  /\ UNCHANGED <<link, command, chosen, fade, g_interruptFlag, pc>>

\* A block of AD or AES data has been received; nobody hears of it when no
\* handler is registered.
SP6ADCRcv_ISR ==
  /\ hw.adChain # "off"
  /\ Clocked(hw, hw.adClock)
  /\ g_interruptFlag' = (g_interruptFlag \/ hw.sp6)
  /\ hw' = [hw EXCEPT !.adChain = IF @ = "last" THEN "off" ELSE @]
  /\ UNCHANGED <<link, command, chosen, fading, g_i_da_interrupt_flag, pc>>

SP4ADCRcv_ISR ==
  /\ hw.spdif /\ hw.sp4
  /\ g_interruptFlag' = TRUE
  /\ UNCHANGED <<link, command, chosen, fading, hw, g_i_da_interrupt_flag, pc>>

(***************************************************************************)
(* handle_spi_code: the flag is cleared first; the word is looked at, and  *)
(* then read again from the register.                                      *)
(***************************************************************************)
\* Before the end of the host's first commands the loop does nothing else.
AfterCode == IF g_init_done THEN "choose" ELSE "top"

TestFlag ==
  /\ pc = "top"
  /\ g_SPI_Interrupt_Flag \/ g_init_done
  /\ g_SPI_Interrupt_Flag' = FALSE
  /\ pc' = IF g_SPI_Interrupt_Flag THEN "check" ELSE "choose"
  /\ UNCHANGED <<g_GetRXSPI, sent, command, chosen, fading, hw, flags>>

CheckWord ==
  /\ pc = "check"
  /\ UNCHANGED <<link, command, chosen, fading, hw, flags>>
  /\ pc' = IF g_GetRXSPI \in IdleWords THEN AfterCode ELSE "read"

ReadWord ==
  /\ pc = "read"
  /\ g_spi_data' = g_GetRXSPI
  /\ g_init_done' = (g_init_done \/ g_spi_data' = "INITDONE")
  /\ SystemState' = IF g_spi_data' \in States THEN g_spi_data' ELSE SystemState
  /\ choice' = IF g_init_done /\ SystemState = "NORMAL" /\ g_spi_data' \in Inputs
               THEN g_spi_data' ELSE choice
  /\ pc' = AfterCode
  /\ UNCHANGED <<link, chosen, fading, hw, flags>>

(***************************************************************************)
(* Init_all_input_types: the choice                                        *)
(***************************************************************************)
\* Mutant: the input before the alignment is not remembered.
MutantLastCode == i_last_code

LastCode ==
  IF SystemState = "ALIGNMENT" /\ i_old_input \in Inputs THEN i_old_input ELSE i_last_code

OldInput ==
  LET word == IF g_spi_data \in Inputs THEN g_spi_data ELSE i_old_input
  IN CASE SystemState = "NORMAL" -> IF word = "TEST" THEN i_last_code ELSE word
       [] SystemState = "ALIGNMENT" -> "TEST"
       [] SystemState = "PUB" -> i_old_input

Remember ==
  /\ pc = "choose"
  /\ i_old_input' = OldInput
  /\ i_last_code' = LastCode

\* Mutant: the set-up is not asked for again.
MutantChangeInput ==
  /\ Remember
  /\ OldInput # i_now_input
  /\ i_now_input' = OldInput
  /\ fade' = "down"
  /\ g_interrupt_times' = 0
  /\ pc' = "data"
  /\ UNCHANGED <<link, command, g_input_type, g_Init_Input_Types, hw, flags>>

\* Mutant: a fade that is under way is not started again.
MutantChangeInFade ==
  /\ Remember
  /\ OldInput # i_now_input
  /\ i_now_input' = OldInput
  /\ g_Init_Input_Types' = FALSE
  /\ fade' = "down"
  /\ g_interrupt_times' = IF fade = "down" THEN g_interrupt_times ELSE 0
  /\ pc' = "data"
  /\ UNCHANGED <<link, command, g_input_type, hw, flags>>

\* Another input: the fade out begins, again if one is under way.
ChangeInput ==
  /\ Remember
  /\ OldInput # i_now_input
  /\ i_now_input' = OldInput
  /\ g_Init_Input_Types' = FALSE
  /\ fade' = "down"
  /\ g_interrupt_times' = 0
  /\ pc' = "data"
  /\ UNCHANGED <<link, command, g_input_type, hw, flags>>

KeepFading ==
  /\ Remember
  /\ OldInput = i_now_input
  /\ fade = "down"
  /\ g_interrupt_times < FADE
  /\ pc' = "data"
  /\ UNCHANGED <<link, command, i_now_input, g_Init_Input_Types, g_input_type, fading,
                 hw, flags>>

\* The switch over g_input_type: no source, a source that is set up, or one to set up.
EnterSwitch(h) ==
  /\ g_input_type' = i_now_input
  /\ g_Init_Input_Types' = (g_Init_Input_Types \/ i_now_input # "NONE")
  /\ hw' = IF i_now_input = "NONE" THEN PCM4104_Mute(h, FALSE) ELSE h
  /\ pc' = IF i_now_input = "NONE" \/ g_Init_Input_Types THEN "data" ELSE "disable"
  /\ UNCHANGED i_now_input

EndFade ==
  /\ Remember
  /\ OldInput = i_now_input
  /\ fade = "down"
  /\ g_interrupt_times >= FADE
  /\ fade' = "up"
  /\ EnterSwitch(PCM4104_Mute(hw, TRUE))
  /\ UNCHANGED <<link, command, g_interrupt_times, flags>>

SameInput ==
  /\ Remember
  /\ OldInput = i_now_input
  /\ fade # "down"
  /\ EnterSwitch(hw)
  /\ UNCHANGED <<link, command, fading, flags>>

(***************************************************************************)
(* Init_all_input_types: the set-up of g_input_type, a case of the switch  *)
(***************************************************************************)
SetUp(at, h, next) ==
  /\ pc = at
  /\ hw' = h
  /\ pc' = next
  /\ UNCHANGED <<link, command, chosen, fading, flags>>

DisableOthers ==
  SetUp("disable",
        CASE g_input_type \in AdInputs -> AD_Disable_Others(hw)
          [] g_input_type = "AES" -> AES_Disable_Others(hw)
          [] g_input_type \in SpdifInputs -> SPDIF_Disable_Others(hw)
          [] g_input_type = "TEST" -> hw,
        "connect")

Connect ==
  SetUp("connect",
        CASE g_input_type \in AdInputs -> ConnectAD(hw)
          [] g_input_type = "AES" -> ConnectAES(hw)
          [] g_input_type \in SpdifInputs -> ConnectSPDIF(hw, g_input_type = "COAX")
          [] g_input_type = "TEST" -> [hw EXCEPT !.select = "AD", !.mic = FALSE],
        "stop")

StopDA == SetUp("stop", Stop_PCM4104_DMA(hw), "start")

StartDA == SetUp("start", PCM4104_Init(hw, g_input_type), "source")

\* CS5368_InitData, SPDIF_InitData; the test signal has no source to start.
StartSource ==
  SetUp("source",
        CASE g_input_type \in AdInputs \cup {"AES"} -> [hw EXCEPT !.adChain = "run"]
          [] g_input_type \in SpdifInputs -> [hw EXCEPT !.spdif = TRUE]
          [] g_input_type = "TEST" -> AD_Disable_Others(SPDIF_Disable_Others(hw)),
        "finish")

\* MIC_Init and RCA_Init connect the AD to the other jack; the last unmute.
Finish ==
  SetUp("finish",
        PCM4104_Mute([hw EXCEPT !.mic = @ \/ g_input_type \in {"MIC", "DVD"}], FALSE),
        "data")

(***************************************************************************)
(* handle_all_input_data: a block of samples is worked on, or none is due  *)
(***************************************************************************)
HandleBlock ==
  /\ pc = "data"
  /\ pc' = "top"
  /\ \/ /\ g_input_type \in AllInputs /\ g_interruptFlag
        /\ g_interruptFlag' = FALSE
        /\ UNCHANGED g_i_da_interrupt_flag
     \/ /\ g_input_type = "TEST" /\ g_i_da_interrupt_flag
        /\ g_i_da_interrupt_flag' = FALSE
        /\ UNCHANGED g_interruptFlag
  /\ UNCHANGED <<link, command, chosen, fading, hw>>

\* Mutant: the flag of the link is cleared at the end of the round.
MutantNoBlock ==
  /\ pc = "data"
  /\ pc' = "top"
  /\ ~(g_input_type \in AllInputs /\ g_interruptFlag)
  /\ ~(g_input_type = "TEST" /\ g_i_da_interrupt_flag)
  /\ g_SPI_Interrupt_Flag' = FALSE
  /\ UNCHANGED <<g_GetRXSPI, sent, command, chosen, fading, hw, flags>>

NoBlock ==
  /\ pc = "data"
  /\ pc' = "top"
  /\ ~(g_input_type \in AllInputs /\ g_interruptFlag)
  /\ ~(g_input_type = "TEST" /\ g_i_da_interrupt_flag)
  /\ UNCHANGED <<link, command, chosen, fading, hw, flags>>

MainLoop ==
  \/ TestFlag \/ CheckWord \/ ReadWord
  \/ ChangeInput \/ KeepFading \/ EndFade \/ SameInput
  \/ DisableOthers \/ Connect \/ StopDA \/ StartDA \/ StartSource \/ Finish
  \/ HandleBlock \/ NoBlock

Next ==
  \/ MainLoop
  \/ SPIH_ISR \/ PollISR \/ SP0ADCSend_ISR \/ SP6ADCRcv_ISR \/ SP4ADCRcv_ISR

\* The main loop runs, and the DA plays, whatever the host and the inputs do.
Fairness == WF_vars(MainLoop) /\ WF_vars(SP0ADCSend_ISR)

Spec == Init /\ [][Next]_vars /\ Fairness
-----------------------------------------------------------------------------
Converters ==
  [ad : BOOLEAN, aes : BOOLEAN, select : {"AD", "AES"}, mic : BOOLEAN, coax : BOOLEAN,
   adClock : {"PCG", "AES"}, adChain : {"run", "last", "off"}, sp6 : BOOLEAN,
   spdif : BOOLEAN, sp4 : BOOLEAN, daClock : {"PCG", "AES"}, da : {"run", "last", "off"},
   muted : BOOLEAN]

Steps == {"top", "check", "read", "choose", "disable", "connect", "stop", "start",
          "source", "finish", "data"}

\* The shape of the state; what the alignment is to go back to is always an input.
TypeOK ==
  /\ g_GetRXSPI \in Words /\ g_spi_data \in Words
  /\ g_SPI_Interrupt_Flag \in BOOLEAN /\ g_init_done \in BOOLEAN
  /\ SystemState \in States
  /\ i_old_input \in Source /\ i_now_input \in Source
  /\ i_last_code \in Inputs \cup {"NONE"}
  /\ g_Init_Input_Types \in BOOLEAN
  /\ fade \in {"none", "down", "up"}
  /\ g_interrupt_times \in 0..FADE
  /\ g_input_type \in Source
  /\ hw \in Converters
  /\ g_interruptFlag \in BOOLEAN /\ g_i_da_interrupt_flag \in BOOLEAN
  /\ pc \in Steps
  /\ sent \in 0..MaxWords
  /\ choice \in Inputs \cup {"NONE"}

\* SPI.c: the last word that the interrupt handler took, if it is a command, is the
\* one that the main loop works on as soon as it is back at its top with no flag set,
\* at whatever points of handle_spi_code the words before it came.
LastWordKept ==
  pc = "top" /\ ~g_SPI_Interrupt_Flag /\ g_GetRXSPI \notin IdleWords =>
    g_spi_data = g_GetRXSPI

\* Input_Types.c: alignment, with any words before, in and after it, leaves the input
\* that was last selected in the normal state to be gone back to.
AlignmentReturns ==
  pc = "data" /\ SystemState = "NORMAL" => i_now_input = choice

\* What the converters have to be for source s.
Connected(h, s) ==
  /\ h.ad <=> s \in AdInputs
  /\ h.aes <=> s = "AES"
  /\ h.select = (IF s = "AES" THEN "AES" ELSE "AD")
  /\ s \in AdInputs => (h.mic <=> s # "AD") /\ h.adClock = "PCG"
  /\ s = "AES" => ~h.mic /\ h.adClock = "AES"
  /\ s \in AdInputs \cup {"AES"} => h.sp6 /\ h.adChain = "run"
  /\ s \notin AdInputs \cup {"AES"} => h.adChain # "run"
  /\ h.spdif <=> s \in SpdifInputs
  /\ s \in SpdifInputs => h.sp4 /\ (h.coax <=> s = "COAX")
  /\ h.daClock = (IF s = "AES" THEN "AES" ELSE "PCG")
  /\ h.da = "run"

\* Before the first input nothing is connected, though g_input_type says AD.
AtBoot == g_input_type = "AD" /\ hw = Boot

SettingUp == pc \in {"disable", "connect", "stop", "start", "source", "finish"}

\* CS5368.c, Spdif_Coax.c: after any sequence of inputs the converters are those of the
\* input in use, as if it had been the first: only its chip is on, only its DMA runs,
\* and the DA has its clock.
OnlySourceConnected ==
  ~SettingUp /\ g_input_type # "NONE" /\ ~AtBoot => Connected(hw, g_input_type)

\* Input_Types.c: the mute at the end of a fade is always taken back by the set-up that
\* follows: no order of choices, words and blocks skips the set-up and leaves the device
\* silent.
NeverLeftMuted == ~SettingUp => ~hw.muted

\* main.c, Input_Types.c: once the host is quiet in the normal state, the input that it
\* selected last is in the end connected and heard, for good.
LastChoicePlayed ==
  <>[](g_init_done /\ SystemState = "NORMAL" /\ choice # "NONE")
    => <>[](g_input_type = choice /\ Connected(hw, choice) /\ ~hw.muted)

\* The sources fade as module InputSwitch promises: a switch FADE blocks after the last
\* change of mind, never earlier and never to another source.
Switching ==
  INSTANCE InputSwitch WITH Sources <- Source, Silence <- "NONE",
    wanted <- i_now_input, playing <- g_input_type, fading <- (fade = "down"),
    blocks <- g_interrupt_times

ImplementsSwitch == Switching!Spec
===============================================================================
