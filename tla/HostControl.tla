----------------------------- MODULE HostControl -----------------------------
(***************************************************************************)
(* The host's threads around the DSP link once the device is up            *)
(* (USER/application.c, USER/tcpserver.c, drivers/spi_instruction.c).  They *)
(* share plain globals, and the link, without a lock.  By priority:        *)
(*                                                                         *)
(*   tcpserv     8  takes the PC's commands, a received chunk at a time    *)
(*   idle_timer 13  every 250 ms: sends the input type, saves it           *)
(*   key        18  selects the input, turns the mute over                 *)
(*   SPI_DSP    19  sends what the others ask for, polls the DSP           *)
(*                                                                         *)
(* A thread's step is atomic for the threads below it.  A word of the link *)
(* goes out low bytes first, from the sender's variable itself; it is two  *)
(* halves here: "val", the parameters, and then "id", the command.  The    *)
(* DSP takes a word when it is complete.                                   *)
(***************************************************************************)
EXTENDS InputTypes, Sequences

CONSTANTS
  Commands,      \* the PC's commands: records [id, val]
  Chunks,        \* sequences of them that one recv may return
  Volumes,
  Boots,         \* what the flash may have held at power on: [input, volume]
  STORE_TICKS,   \* quiet rounds of the idle timer before it saves: 2 * 4
  MaxEvents,     \* bound: chunks, keys and turns of the knob
  MaxCuts        \* bound: words of SPI_DSP that the idle timer's cuts into

Mic == [id |-> "mic", val |-> 0]     \* 0x05260000
Close == [id |-> "close", val |-> 0] \* 0x06020000

ASSUME CommandAssumption ==
  /\ \A c \in Commands : c \in [id : {c.id}, val : Nat]
  /\ Mic \in Commands /\ Close \in Commands
  /\ Volumes \subseteq Nat
  /\ \A c \in Commands : c.id = "volume" => c.val \in Volumes
  /\ Boots \subseteq [input : InputType, volume : Volumes]
  /\ Chunks \subseteq Seq(Commands)
ASSUME BoundsAssumption ==
  /\ STORE_TICKS \in Nat \ {0}
  /\ MaxEvents \in Nat /\ MaxCuts \in Nat

VARIABLES
  g_input_type, g_i_key_led_handle_count,
  g_key_input_pressed_flag,
  key_pc,               \* "flag": the key thread has yet to set that flag
  idle,                 \* i_input_event and i_count of the idle timer
  g_mute,               \* and the static i_mute, which it is set to before any use
  mute_select,
  g_i_instruction,
  tcp_dsp_sem,          \* count of the semaphore
  g_set_volume_to_dsp_flag,
  volume,               \* the volume in the tables, do_get_data(1, 8)
  spi,                  \* SPI_DSP: its step, what it sends and the low half sent
  upload,               \* the volume in the DSP's transmit register, 0 for none;
                        \* the next word on the link, of whatever kind, takes it
  dsp,                  \* what the DSP has been told: input, mute, volume
  stored,               \* the input type and the volume in the flash
  events, cuts,
  missing,              \* history: the PC's commands that the DSP was not given yet,
  delivered,            \* and the last one that it was given
  volume_by             \* history: what settled the volume last; "knob" stays

vars == <<g_input_type, g_i_key_led_handle_count, g_key_input_pressed_flag, key_pc,
          idle, g_mute, mute_select, g_i_instruction, tcp_dsp_sem,
          g_set_volume_to_dsp_flag, volume, spi, upload, dsp, stored,
          events, cuts, missing, delivered, volume_by>>

\* Groups of variables, for UNCHANGED.
selection == <<g_input_type, g_i_key_led_handle_count>>
pcvars == <<g_i_instruction, tcp_dsp_sem>>
history == <<missing, delivered>>
beside_spi == <<selection, g_key_input_pressed_flag, g_mute, mute_select, pcvars,
                g_set_volume_to_dsp_flag, volume, upload, dsp, history>>

(***************************************************************************)
(* tcpserv: handle_net_data                                                *)
(***************************************************************************)
\* The effect of one command on the record h of what the handler writes.
HandleCommand(h, c) ==
  IF c = Close
  THEN [h EXCEPT !.flag = TRUE,
                 !.stored = [input |-> g_input_type, volume |-> h.volume],
                 !.by = IF @ = "knob" THEN @ ELSE "close"]
  ELSE [h EXCEPT !.volume = IF c.id = "volume" THEN c.val ELSE @,
                 !.by = IF c.id = "volume" /\ @ # "knob" THEN "pc" ELSE @,
                 !.instruction = c,
                 !.sem = @ + 1,
                 !.missing = @ \cup {c}]

HandleChunk(h, q) ==
  LET f[i \in 0..Len(q)] == IF i = 0 THEN h ELSE HandleCommand(f[i - 1], q[i])
  IN f[Len(q)]

handle_net_data(q) ==
  /\ events < MaxEvents
  /\ events' = events + 1
  /\ LET h == HandleChunk([volume |-> volume, instruction |-> g_i_instruction,
                           sem |-> tcp_dsp_sem, flag |-> g_set_volume_to_dsp_flag,
                           stored |-> stored, missing |-> missing, by |-> volume_by], q)
     IN /\ volume' = h.volume
        /\ g_i_instruction' = h.instruction
        /\ tcp_dsp_sem' = h.sem
        /\ g_set_volume_to_dsp_flag' = h.flag
        /\ stored' = h.stored
        /\ missing' = h.missing
        /\ volume_by' = h.by
  /\ UNCHANGED <<selection, g_key_input_pressed_flag, key_pc, idle, g_mute, mute_select,
                 spi, upload, dsp, cuts, delivered>>

(***************************************************************************)
(* key: what the loop of module KeyInput does when a key is let go         *)
(***************************************************************************)
KeySelect ==
  /\ key_pc = "poll"
  /\ events < MaxEvents
  /\ events' = events + 1
  /\ g_i_key_led_handle_count' = NextInput(g_i_key_led_handle_count)
  /\ g_input_type' = g_i_key_led_handle_count'
  /\ key_pc' = "flag"
  /\ UNCHANGED <<g_key_input_pressed_flag, idle, g_mute, mute_select, pcvars,
                 g_set_volume_to_dsp_flag, volume, spi, upload, dsp, stored,
                 cuts, history, volume_by>>

\* Mutant: the flag is not set.
MutantKeyFlag ==
  /\ key_pc = "flag"
  /\ key_pc' = "poll"
  /\ UNCHANGED <<selection, g_key_input_pressed_flag, idle, g_mute, mute_select, pcvars,
                 g_set_volume_to_dsp_flag, volume, spi, upload, dsp, stored, events, cuts,
                 history, volume_by>>

KeyFlag ==
  /\ key_pc = "flag"
  /\ g_key_input_pressed_flag' = TRUE
  /\ key_pc' = "poll"
  /\ UNCHANGED <<selection, idle, g_mute, mute_select, pcvars, g_set_volume_to_dsp_flag,
                 volume, spi, upload, dsp, stored, events, cuts, history, volume_by>>

KeyMute ==
  /\ key_pc = "poll"
  /\ events < MaxEvents
  /\ events' = events + 1
  /\ g_mute' = (g_mute + 1) % 2
  /\ mute_select' = TRUE
  /\ UNCHANGED <<selection, g_key_input_pressed_flag, key_pc, idle, pcvars,
                 g_set_volume_to_dsp_flag, volume, spi, upload, dsp, stored,
                 cuts, history, volume_by>>

(***************************************************************************)
(* idle_timer: one round.  i_type_count is set back to 0 in the round that *)
(* counts it up, so the input type goes out in each counting round.        *)
(***************************************************************************)
\* SPI_DSP is inside a word: its half is out, or the link is selected.
InsideWord == spi.pc \in {"lo", "hi"}

\* The idle timer's word goes out, whole or into the middle of SPI_DSP's.  A
\* cut word of SPI_DSP is lost, and the timer's is whole only if no byte of
\* the other one went before it.
IdleSend ==
  /\ \/ /\ spi.pc # "hi"
        /\ dsp' = [dsp EXCEPT !.input = g_input_type]
        /\ UNCHANGED <<spi, cuts>>
     \/ /\ InsideWord /\ ~spi.cut
        /\ cuts < MaxCuts
        /\ cuts' = cuts + 1
        /\ spi' = [spi EXCEPT !.cut = TRUE]
        /\ dsp' = IF spi.pc = "lo" THEN [dsp EXCEPT !.input = g_input_type] ELSE dsp
  /\ upload' = 0

IdleNotice ==
  /\ g_key_input_pressed_flag
  /\ g_key_input_pressed_flag' = FALSE
  /\ idle' = [idle EXCEPT !.event = TRUE]
  /\ UNCHANGED <<spi, cuts, dsp, upload, stored>>

IdleCount ==
  /\ ~g_key_input_pressed_flag
  /\ idle.event
  /\ IdleSend
  /\ IF idle.count + 1 >= STORE_TICKS
     THEN /\ idle' = [event |-> FALSE, count |-> 0]
          /\ stored' = [input |-> g_input_type, volume |-> volume]
     ELSE /\ idle' = [idle EXCEPT !.count = @ + 1]
          /\ UNCHANGED stored
  /\ UNCHANGED g_key_input_pressed_flag

IdleTick ==
  /\ IdleNotice \/ IdleCount
  /\ UNCHANGED <<selection, key_pc, g_mute, mute_select, pcvars, g_set_volume_to_dsp_flag,
                 volume, events, history, volume_by>>

(***************************************************************************)
(* SPI_DSP, when no other thread is in the middle of something             *)
(***************************************************************************)
Goto(pc) == [spi EXCEPT !.pc = pc]
Send(src, val) == [spi EXCEPT !.pc = "lo", !.src = src, !.val = val]

\* rt_sem_take(&tcp_dsp_sem, 1): one token, or the timeout.
SpiTake ==
  /\ spi.pc = "take"
  /\ IF tcp_dsp_sem > 0
     THEN tcp_dsp_sem' = tcp_dsp_sem - 1 /\ spi' = Goto("instruction")
     ELSE UNCHANGED tcp_dsp_sem /\ spi' = Goto("mute")
  /\ UNCHANGED <<selection, g_key_input_pressed_flag, g_mute, mute_select, g_i_instruction,
                 g_set_volume_to_dsp_flag, volume, upload, dsp, history>>

\* tcp_send_instruction_to_dsp; the microphone is code_to_dsp(6).
SpiInstruction ==
  /\ spi.pc = "instruction"
  /\ spi' = IF g_i_instruction = Mic THEN Goto("mic_led") ELSE Send("pc", 0)
  /\ UNCHANGED beside_spi

SpiMicLed ==
  /\ spi.pc = "mic_led"
  /\ g_i_key_led_handle_count' = MIC_INPUT
  /\ spi' = Goto("mic_input")
  /\ UNCHANGED <<g_input_type, g_key_input_pressed_flag, g_mute, mute_select, g_i_instruction,
                 tcp_dsp_sem, g_set_volume_to_dsp_flag, volume, upload, dsp, history>>

SpiMicInput ==
  /\ spi.pc = "mic_input"
  /\ g_input_type' = MIC_INPUT
  /\ spi' = Goto("mic_flag")
  /\ UNCHANGED <<g_i_key_led_handle_count, g_key_input_pressed_flag, g_mute, mute_select,
                 g_i_instruction, tcp_dsp_sem, g_set_volume_to_dsp_flag, volume, upload, dsp,
                 history>>

\* Mutant: the flag is not set.
MutantSpiMicFlag ==
  /\ spi.pc = "mic_flag"
  /\ spi' = Send("input", 0)
  /\ UNCHANGED beside_spi

SpiMicFlag ==
  /\ spi.pc = "mic_flag"
  /\ g_key_input_pressed_flag' = TRUE
  /\ spi' = Send("input", 0)
  /\ UNCHANGED <<selection, g_mute, mute_select, g_i_instruction, tcp_dsp_sem,
                 g_set_volume_to_dsp_flag, volume, upload, dsp, history>>

\* The mute: the request is taken back before g_mute is read.
SpiMute ==
  /\ spi.pc = "mute"
  /\ mute_select' = FALSE
  /\ spi' = Goto(IF mute_select THEN "mute_value" ELSE "volume")
  /\ UNCHANGED <<selection, g_key_input_pressed_flag, g_mute, g_i_instruction, tcp_dsp_sem,
                 g_set_volume_to_dsp_flag, volume, upload, dsp, history>>

SpiMuteValue ==
  /\ spi.pc = "mute_value"
  /\ spi' = Send("mute", g_mute)
  /\ UNCHANGED beside_spi

\* The volume, after a delay of 100 ms: the request is taken back, then the
\* table is read.
SpiVolume ==
  /\ spi.pc = "volume"
  /\ spi' = IF g_set_volume_to_dsp_flag THEN Goto("volume_flag") ELSE Send("read", 0)
  /\ UNCHANGED beside_spi

SpiVolumeFlag ==
  /\ spi.pc = "volume_flag"
  /\ g_set_volume_to_dsp_flag' = FALSE
  /\ spi' = Goto("volume_value")
  /\ UNCHANGED <<selection, g_key_input_pressed_flag, g_mute, mute_select, g_i_instruction,
                 tcp_dsp_sem, volume, upload, dsp, history>>

SpiVolumeValue ==
  /\ spi.pc = "volume_value"
  /\ spi' = Send("volume", volume)
  /\ UNCHANGED beside_spi

\* The first half of the word: of a global, what it holds now.
LowHalf ==
  CASE spi.src = "pc" -> g_i_instruction.val
    [] spi.src = "input" -> g_input_type
    [] OTHER -> spi.val

\* Mutant: a request is taken back when its word goes out.
MutantSpiLow ==
  /\ spi.pc = "lo"
  /\ spi' = [spi EXCEPT !.pc = "hi", !.val = LowHalf]
  /\ mute_select' = (mute_select /\ spi.src # "mute")
  /\ g_set_volume_to_dsp_flag' = (g_set_volume_to_dsp_flag /\ spi.src # "volume")
  /\ UNCHANGED <<selection, g_key_input_pressed_flag, g_mute, g_i_instruction,
                 tcp_dsp_sem, volume, upload, dsp, history>>

SpiLow ==
  /\ spi.pc = "lo"
  /\ spi' = [spi EXCEPT !.pc = "hi", !.val = LowHalf]
  /\ UNCHANGED beside_spi

\* What the DSP does with a whole word.
DspTakes ==
  CASE spi.src = "pc" /\ g_i_instruction.id = "volume" -> [dsp EXCEPT !.volume = spi.val]
    [] spi.src = "input" -> [dsp EXCEPT !.input = spi.val]
    [] spi.src = "mute" -> [dsp EXCEPT !.mute = spi.val]
    [] spi.src = "volume" -> [dsp EXCEPT !.volume = spi.val]
    [] OTHER -> dsp

\* The PC's command that a whole word carries out.
Carried ==
  IF spi.src = "pc" THEN [id |-> g_i_instruction.id, val |-> spi.val] ELSE Mic

After ==
  CASE spi.src \in {"pc", "input"} -> [spi EXCEPT !.pc = "mute"]
    [] spi.src = "mute" -> [spi EXCEPT !.pc = "volume"]
    [] spi.src = "volume" -> Send("read", 0)
    [] spi.src = "read" /\ upload # 0 -> [spi EXCEPT !.pc = "upload", !.val = upload]
    [] OTHER -> [spi EXCEPT !.pc = "take"]

\* Mutant: the semaphore is reset after a word.
MutantSpiHigh ==
  /\ spi.pc = "hi"
  /\ spi' = [After EXCEPT !.cut = FALSE]
  /\ upload' = 0
  /\ dsp' = IF spi.cut THEN dsp ELSE DspTakes
  /\ IF spi.src \in {"pc", "input"} /\ ~spi.cut
     THEN missing' = missing \ {Carried} /\ delivered' = Carried
     ELSE UNCHANGED history
  /\ tcp_dsp_sem' = 0
  /\ UNCHANGED <<selection, g_key_input_pressed_flag, g_mute, mute_select, g_i_instruction,
                 g_set_volume_to_dsp_flag, volume>>

\* The second half.  A poll that is cut returns no command.
SpiHigh ==
  /\ spi.pc = "hi"
  /\ spi' = [After EXCEPT !.cut = FALSE]
  /\ upload' = 0
  /\ dsp' = IF spi.cut THEN dsp ELSE DspTakes
  /\ IF spi.src \in {"pc", "input"} /\ ~spi.cut
     THEN missing' = missing \ {Carried} /\ delivered' = Carried
     ELSE UNCHANGED history
  /\ UNCHANGED <<selection, g_key_input_pressed_flag, g_mute, mute_select, g_i_instruction,
                 tcp_dsp_sem, g_set_volume_to_dsp_flag, volume>>

\* The DSP's volume goes into the tables, and to the PC.
SpiUpload ==
  /\ spi.pc = "upload"
  /\ volume' = spi.val
  /\ g_key_input_pressed_flag' = TRUE
  /\ spi' = Goto("take")
  /\ UNCHANGED <<selection, g_mute, mute_select, g_i_instruction, tcp_dsp_sem,
                 g_set_volume_to_dsp_flag, upload, dsp, history>>

SpiStep ==
  /\ key_pc = "poll"
  /\ \/ SpiTake \/ SpiInstruction \/ SpiMicLed \/ SpiMicInput \/ SpiMicFlag
     \/ SpiMute \/ SpiMuteValue \/ SpiVolume \/ SpiVolumeFlag \/ SpiVolumeValue
     \/ SpiLow \/ SpiHigh \/ SpiUpload
  /\ UNCHANGED <<key_pc, idle, stored, events, cuts, volume_by>>

\* The DSP's knob: knobvolume_SIGIRQ2.
Knob(v) ==
  /\ events < MaxEvents
  /\ events' = events + 1
  /\ dsp' = [dsp EXCEPT !.volume = v]
  /\ upload' = v
  /\ volume_by' = "knob"
  /\ UNCHANGED <<selection, g_key_input_pressed_flag, key_pc, idle, g_mute, mute_select,
                 pcvars, g_set_volume_to_dsp_flag, volume, spi, stored, cuts, history>>

-----------------------------------------------------------------------------
\* The device is up: the DSP has been given the input and the volume.
Init ==
  /\ stored \in Boots
  /\ g_input_type = stored.input
  /\ g_i_key_led_handle_count = g_input_type
  /\ g_key_input_pressed_flag = FALSE
  /\ key_pc = "poll"
  /\ idle = [event |-> FALSE, count |-> 0]
  /\ g_mute = 1 /\ mute_select = FALSE
  /\ g_i_instruction = [id |-> "none", val |-> 0]
  /\ tcp_dsp_sem = 0
  /\ g_set_volume_to_dsp_flag = FALSE
  /\ volume = stored.volume
  /\ spi = [pc |-> "take", src |-> "read", val |-> 0, cut |-> FALSE]
  /\ upload = 0
  /\ dsp = [input |-> g_input_type, mute |-> 1, volume |-> volume]
  /\ events = 0 /\ cuts = 0
  /\ missing = {}
  /\ delivered = g_i_instruction
  /\ volume_by = "close"

Next ==
  \/ \E q \in Chunks : handle_net_data(q)
  \/ KeySelect \/ KeyFlag \/ KeyMute
  \/ IdleTick
  \/ SpiStep
  \/ \E v \in Volumes : Knob(v)

\* Every thread runs: tcpserv and the idle timer block between two rounds, the
\* key thread sleeps 10 ms, and SPI_DSP waits for a tick in each of its own.
\* The idle timer preempts SPI_DSP when its 250 ms are over; here its round may
\* have to wait for the end of a word, because of MaxCuts, hence SF.
Spec ==
  /\ Init /\ [][Next]_vars
  /\ WF_vars(KeyFlag) /\ SF_vars(IdleTick) /\ WF_vars(SpiStep)

-----------------------------------------------------------------------------
\* The shape of the state.
TypeOK ==
  /\ g_input_type \in InputType /\ g_i_key_led_handle_count \in InputType
  /\ g_key_input_pressed_flag \in BOOLEAN
  /\ key_pc \in {"poll", "flag"}
  /\ idle \in [event : BOOLEAN, count : 0..(STORE_TICKS - 1)]
  /\ g_mute \in {0, 1} /\ mute_select \in BOOLEAN
  /\ tcp_dsp_sem \in Nat
  /\ g_set_volume_to_dsp_flag \in BOOLEAN
  /\ volume \in Volumes /\ upload \in Volumes \cup {0}
  /\ dsp \in [input : InputType, mute : {0, 1}, volume : Nat]
  /\ stored \in [input : InputType, volume : Volumes]

AtRest == spi.pc = "take" /\ tcp_dsp_sem = 0

\* The properties below with "cuts = 0" are about a link on which the idle
\* timer's word never fell into the middle of one of SPI_DSP's.

\* With no request left, the DSP's last command from the PC is the PC's last
\* command, whole, though tcpserv may write g_i_instruction while SPI_DSP is
\* sending it.
LastCommandDelivered == AtRest /\ cuts = 0 => delivered = g_i_instruction

\* "A command on the TCP side has to be sent out" (comment in
\* SPI_DSP_thread_entry): every command of the PC reaches the DSP.
EveryCommandDelivered == AtRest => missing = {}

\* With no request left, the DSP's mute is the one that key 2 chose last.
MuteFollows ==
  spi.pc = "take" /\ ~mute_select /\ cuts = 0 => dsp.mute = g_mute

\* When the PC program closes, the DSP is given the volume of the tables,
\* whatever became of the commands that set it, as long as nobody turns the
\* knob: a turn may be lost on the link, or undone by a command sent again.
CloseSyncsVolume ==
  AtRest /\ ~g_set_volume_to_dsp_flag /\ volume_by = "close" /\ cuts = 0
    => dsp.volume = volume

\* A selection that is not yet in the flash, or that the DSP was not given yet,
\* is never forgotten: the thread that made it is about to set the flag, the
\* flag is set, or the idle timer has noticed it and has still to save it.  The
\* timer takes the flag back before it reads the selection, and SPI_DSP may
\* tell the DSP the selection before the last.
SelectionPending ==
  stored.input # g_input_type \/ (cuts = 0 /\ dsp.input # g_input_type)
    => \/ key_pc = "flag" \/ spi.pc = "mic_flag"
       \/ g_key_input_pressed_flag \/ idle.event

\* The input that was selected last, by key or by the PC, is in the end the
\* one that the flash holds.
InputIsStored == <>[](stored.input = g_input_type)

\* "Send the input type that was set to the DSP" (comment in
\* idle_timer_thread_entry): in the end the DSP plays the input selected last.
DspFollows == <>[](dsp.input = g_input_type)

\* So it does as long as no word is cut.
DspFollowsUncut == [](cuts = 0) => DspFollows
=============================================================================
