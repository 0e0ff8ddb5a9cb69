# TLA+ models of the DSP950 firmware

DSP950 is an audio processor built from two chips: an STM32 (the *host*, RT-Thread,
`src/DS950_APP_2017-03-08`) that talks to a PC over TCP, keeps the parameters and drives
the front panel, and an ADSP-21489 (the *DSP*, `src/DSP950_Code`) that processes the audio
and is controlled over an SPI link by 32 bit words. These modules model the control logic
of both. Host paths below are relative to `src/DS950_APP_2017-03-08`, those of the DSP to
`src/DSP950_Code`.

## Inventory

| Component | State | Operations | Talks to |
|---|---|---|---|
| Command protocol (`drivers/protocol.c`, `inc.c`) | none | decode, encode, command -> group, value position, identifier | everyone |
| Parameter tables (`drivers/do_data.c`, `inc.c`) | twelve arrays of (id, data), a free slot has id 0 | add or update (`do_add_cmd_msg`), look up (`do_get_data`) | called by tcpserv, SPI_DSP, idle timer |
| Configuration store (`drivers/inc.c`, `spi_flash.c`) | flash: tables, and volume + input, each in two copies with a checksum | save all, save volume + input, restore | tables, `g_input_type` |
| Front panel keys (`drivers/key_input.c`, `USER/application.c`) | per key flag, time, pressed; accepted key; selected input; mute | poll every 10 ms | writes `g_input_type`, `g_mute` and request flags |
| TCP server (`USER/tcpserver.c`) | listening and accepted sockets, `g_i_instruction` | accept, receive a chunk, handle its commands, reply | tables, store, SPI_DSP (semaphore `tcp_dsp_sem`) |
| Idle timer (`USER/application.c`) | event, quiet rounds | every 250 ms: kick the watchdog, send the input, save | link, store |
| SPI_DSP thread (`USER/application.c`, `drivers/spi_instruction.c`) | request flags | send command, mute, volume; poll the DSP | link, tables, PC |
| DSP command reception (`src/SPI.c`, `src/Spi_Code.c`) | last received word and its flag, parameters | interrupt, decoder table | DSP main loop |
| DSP input switching (`src/Input_Types.c`, `main.c`) | chosen, current and remembered input, fade count | choose, fade out, set up, handle a block | command reception, converters |
| DSP converters (`src/CS5368.c`, `src/Spdif_Coax.c`, `src/PCM4104.c`) | resets, selects, clocks, DMA chains, mute | connect, disconnect, restart the DA, interrupts | input switching |
| DSP volume knob (`src/Volume.c`) | count, volume, gain, transmit register | interrupt | host's polls, volume command |
| DSP audio | filters, buffers, routes | a block at a time | - |
| LED, LCD, watchdog, TFTP update, SHA204A, board drivers | hardware | - | - |
| RT-Thread, lwIP, dfs, finsh, FWlib, CMSIS | third party | - | - |

The threads have strict priorities (tcpserv 8, idle timer 13, keys 18, SPI_DSP 19; smaller
runs first) and share the tables, the flash, the link and a dozen plain globals **without a
lock**. A thread is atomic for the ones below it and can be preempted anywhere by the ones
above. The DSP has one main loop and interrupts that come between any two of its steps. That,
power loss and preemption in the middle of a flash operation, words cut on the link, PCs that vanish, and
parameters that depend on the order in which they were set are what is hard to test here. `PROJECT.json` lists the hazards line by line.

What makes each component correct:

* protocol: encoding a decoded command gives it back; a word alone names its table and slot;
* tables: a bounded map from identifiers to the last word, whatever the interleaving;
* store: after any power loss the reader gets the data of one save, complete;
* keys: one action per press, one key at a time, no press lost;
* host control: what the PC, the keys and the knob ask for reaches the DSP, the tables and
  the flash, and these agree once things are quiet;
* TCP server: one client at a time, its commands in order, answers to it alone, a new one
  always served;
* DSP input switching: the last choice wins, after a whole fade, with exactly its converters
  running; alignment gives back the input before it;
* DSP parameters: within the ranges the audio code relies on, and the same after a restart.

## Modules

| Module | Models | Notes |
|---|---|---|
| `Protocol` | `protocol.c`, descriptors and identifiers of `inc.c` | operators on four byte tuples |
| `CmdTable` | `do_data.c`, its two calling threads | `table`, `phase`, `adder` (SPI_DSP inside `do_add_cmd_msg`), `added` |
| `CmdMap` | abstract specification: a bounded map per group | `CmdTable` implements it (`ImplementsMap`) |
| `TableReload` | the order of words in the flash, adding them again | on top of `CmdTable`; its two loops are functions on the number of turns |
| `FlashStore` | `store_w25q16`, `store_w25q16_volume_input_type`, `read_w25q16`, the W25Q16 | one step per flash operation; `Crash` and `TcpSaveInside` come inside any of them |
| `InputTypes` | the inputs and the key's round through them | shared by the two below |
| `KeyInput` | `rt_handle_key_input`, the loop of `key_input_thread_entry` | four separate reads of a pin per poll |
| `HostControl` | tcpserv's handler, key thread, idle timer, SPI_DSP, the link, the DSP's settings | one action per step between two preemption points |
| `TcpServer` | the select loop of `tcpserv`, lwIP's sockets, `send_instru_via_socket` | steps end where a call into lwIP may let SPI_DSP run |
| `InputSwitch` | abstract specification: a switch of input after a whole fade | `DspInput` implements it (`ImplementsSwitch`) |
| `DspInput` | the DSP's link interrupt, main loop, `Init_all_input_types`, what it does to the converters | steps end where an interrupt could make a difference |
| `DspParams` | the decoders of `Spi_Code.c`, the knob's interrupt, the host's replay of the tables | uses `Protocol` for identifiers and slots |
| `MCCmdTable`, `MCFlashStore`, `MCHostControl`, `MCDspParams` | instances for TLC | |
| `CmdTableProofs`, `FlashStoreProofs`, `KeyInputProofs`, `HostControlProofs`, `TcpServerProofs`, `DspInputProofs`, `DspParamsProofs` | theorems about the module each is named after | TLAPS, see Proofs |
| `Induction` | induction over the naturals and functions defined by recursion | used by most of them |

### How state and actions correspond to the code

**CmdTable.** `do_add_cmd(tab, c)` is the whole call as tcpserv makes it: nothing that
touches a table preempts priority 8. SPI_DSP's call is `DspBegin` (the word is read from the
link), `DspScan` (one evaluation of the `for` loop's condition and body), `DspAppend`
(`id = cmd_id`) and `DspData` (`data = data`); actions of tcpserv may come between any two.
`Restore` is the part of `read_w25q16` that adds words, before SPI_DSP's loop starts; SPI_DSP
sleeps a second first. `phase` remembers whether the flash held a volume: on such a device
SPI_DSP's uploads only ever update a slot. Any command may be restored from the flash.

**FlashStore.** A word has `WordSize` values, 512 when checked (nine bits instead of 32): its
lowest bits (`Fields` is the number of their values) stand for group, index and parameters, the
rest for the value. Erasing sets bits, programming clears them; a power loss
in the middle leaves the bits of a mask unchanged. A save is a sequence of erase checksum,
erase data sector by sector, program the words, program the checksum, for copy 1 and then
copy 2; `store_w25q16` ends with the save of volume and input. `tcp` preempts `idle` between
two operations (`TcpSave`) or inside one (`TcpSaveInside`), and the tables may change under the
idle timer's save. `spi_flash.c` has no lock: the chip may be selected and a command half sent
when tcpserv begins, above all in `SPI_FLASH_WaitForWriteEnd`, where the idle timer spends most
of its save with the chip select low. The interrupted operation is then complete, or lost, or
programs a part of its word or of the next (`Garbled`), or the flash gets it when tcpserv has
finished. Tcpserv's first write enable, sent into an open status read or to a busy flash, is none,
and the flash ignores the erasure behind it, that of copy 1's checksum; when the two threads'
bytes are out of step in the receive register, it ignores more. `deaf` counts the operations
of tcpserv (`StepIgnored`) that are still to be ignored, `Ignored` is the set of numbers that it
may start from.
`status` is history: a save that is cut off leaves its region `torn`, a second one in a row
`lost`. A save that runs into another leaves "vol" `spoilt`, and "cfg" too if the flash has
ignored something of it; the next save that nothing disturbs is `healing`, and the region is
`saved` again when it has ended.

**KeyInput.** The pin is read up to three times by the driver and once by the loop; a moving
contact may bounce, so the reads of one poll are arbitrary then; `MaxBounce` bounds the polls
after which a contact is still moving.

**HostControl.** A word on the link is two halves, sent low half first from the sender's
variable itself, so that tcpserv may replace `g_i_instruction` between them. The idle timer's
word may fall into the middle of one of SPI_DSP's (the lock in `SPI_DSP_SendBytes` is
commented out), which destroys that word, and its own unless none of the other's bytes were
out. Any word on the link takes the knob's volume off the DSP's transmit register; only
`SPI_DSP_ReadByte` keeps it. The PC's commands are a volume, another parameter, the
microphone and Close. `MaxEvents` and `MaxCuts` bound what happens from outside.

**TcpServer.** A command is two halves, and a packet carries any number of halves, so that a
chunk may end inside a command; `recv` returns the first packets that have arrived, with or
without the close that follows (lwIP's `recv` may take a close along with the data before it).
`Select`, `Accept` or `AcceptError`, `CloseOld`, `Register`, `RecvClosed`, `RecvData` and
`EndOfRound` are the parts of the loop between two calls into lwIP; SPI_DSP's upload is
`UploadCheck` (the flag), `UploadId` (the number) and `UploadSend`. A socket number is given out
again as soon as it is free. What the commands do is in `CmdTable` and `HostControl`; of them only
Open, the first command of a PC, is told apart here, because it is answered.

**DspInput.** `SPIH_ISR` and `PollISR` put a word into the receive register at any time;
`TestFlag`, `CheckWord` and `ReadWord` are the three looks of `handle_spi_code` at it.
`ChangeInput`, `KeepFading`, `EndFade` and `SameInput` are the ways through the first half of
`Init_all_input_types`, `DisableOthers` to `Finish` the case of its switch. `hw` is what the
converter routines leave behind: which chips are out of reset, what is selected, whose clock
is used, which DMA chain runs. Clearing a chain pointer lets the block in progress finish, with
one more interrupt (`"last"`). The AES receiver gives the DA's clock only while it is not in
reset, and the fade counts DA interrupts: a DA without a clock would never end a fade.
`choice` is history: the last input word that was taken in the normal state.

**DspParams.** A command is the record of its fields. `Decode` is `handle_spi_raw_data` with the
decoders whose parameters other decoders read or write; numbers are exact where the code has
floats, gains are in dB. `stored[k]` is the sequence of the words in the table of group `k`: `Put` and `Write` are
`do_add_cmd_msg`, which writes the slot of a known command again, appends a new one and drops
it when the table is full. `Replay` is `send_data_to_dsp` after a start, `SendTable` after
`SendTable` in the order `GroupOrder` of the groups, each word (`SendWord`) sent whether or not
it was taken before. Properties compare the
DSP's parameters with `AtStart`, what a restart at this moment would lead to. A volume command writes
count and volume, computes the gain, and writes it (`SetVolume`, four steps: `powf` lies between
the read of `knobvolume` and the write at `Spi_Code.c:263`, and gets the volume in memory or the
one that the compiler has kept); the knob's interrupt (`Click`) may come between any two of the
steps. `volume_by` is history: who set the gain, `"torn"` if the knob came in the middle, when
count and gain may differ until the next command or click. A delay may have `LIMIT` samples, 4992:
the delay buffer has 20 blocks of 256 (`ADDS_21489_EzKit.h:54-57`, `75-76`) and half a
block stays free. The words of the
keys and of the idle timer (0x2105 and so on) have group 0 and reach no decoder; they are the
subject of `DspInput`.

## Runs

| Run | Checks | Result |
|---|---|---|
| `cmdtable` | `NoHoles`, `UniqueOnceStored`, `SlotsAreCommands`, `LookupFinds`, `ReloadRestores`, `IdsStay`, `ImplementsMap` | hold |
| `cmdtable_race` | `UniqueIds` on a device that never saved a volume | **violated** |
| `flash` | `ConfigSurvives`, `NoMixedVersions`, `SavedIsRestored`, `VolumeSurvives` | hold |
| `flash_goto` | `RestoresWholeTable` | **violated** |
| `flash_preempted` | `EitherCopyWillDo` | **violated** |
| `keys` | `OncePerPress`, `HeldIsHandled`, `HeldPressActs` | hold |
| `host` | `LastCommandDelivered`, `MuteFollows`, `CloseSyncsVolume`, `SelectionPending`, `InputIsStored`, `DspFollowsUncut` | hold |
| `host_lost_command` | `EveryCommandDelivered` | **violated** |
| `host_cut_word` | `DspFollows` when a word may be cut | **violated** |
| `tcp` | `OneClient`, `CommandsInOrder`, `AnswersReachClient`, `NewClientServed` | hold |
| `dsp_input` | `LastWordKept`, `AlignmentReturns`, `OnlySourceConnected`, `NeverLeftMuted`, `LastChoicePlayed`, `ImplementsSwitch` | hold |
| `dsp_params` | `CutsRestored`, `EqRestored`, `TimingRestored`, `RoutesRestored`, `TypeReturns`, `VolumeRestored` | hold |

The runs `cmdtable`, `flash`, `tcp` and `dsp_params` also check their module's `TypeOK`, which says
more than shapes there (indices that stay in tables, cuts in order). The `TypeOK` of the other
three is proved for all instances, see Proofs.

What the violated ones show:

* `cmdtable_race`: SPI_DSP's search reaches the free slot behind the used ones (or has found
  it free) when tcpserv adds the volume; SPI_DSP then appends the volume a second time. The
  second entry is never updated but is saved, and sent to the DSP after the first.
* `flash_goto`: `goto back1` stands inside the copying loops for differing checksums, so an
  interrupted save costs all parameters but the first although a copy is whole.
* `flash_preempted`: tcpserv saves in the middle of the idle timer's save, which then goes on
  over tcpserv's finished copies; power lost there leaves two equal checksums over different
  data, and equal checksums are trusted unseen. The tables suffer when tcpserv began inside an
  operation of the flash: the erasure of copy 1's checksum is then ignored, and power lost while
  its words are rewritten leaves two equal old checksums over a mixture of two saves
  (`NoMixedVersions` without its exception of `spoilt`).
* `host_lost_command`: all commands of a TCP chunk are handled before SPI_DSP runs and share
  `g_i_instruction`; the last one is sent several times, the others never.
* `host_cut_word`: the idle timer sends the input in each round until it has counted eight;
  a key pressed near the end of a count gets one send only, and that one may be cut.

What the passing runs of the DSP and the server show, with the exceptions that the properties
name (each is necessary: without it TLC finds a counterexample):

* `flash`: apart from a save of which the flash has ignored operations (`spoilt`, put right by the
  next whole save), a checksum that is not erased stands over the words of one save, whatever was cut
  off. An erased one should not be believed at all, but the tests against `0xffffff`
  (`inc.c:449`, `488`) let it pass when the words under it, half-written, add up to all ones;
  `NoMixedVersions` excepts these areas (`AddsUpErased`).
* `keys`: the press is debounced and the release is not. A contact that bounces for longer
  than a poll acts once more for each further poll.
* `host`: `SelectionPending` says why the selected input is in the end stored: whatever the three
  writers of the flag and its reader do, a selection that is not in the flash yet, or not at
  the DSP on an uncut link, still has the flag, the event or a thread about to set the flag.
* `tcp`: a cut inside a command spoils the rest of its connection but not the next one. After
  an `accept` that failed, Open is answered on socket -1, that is, not at all.
* `dsp_params`: a refused word is stored all the same and may be taken at the next start (cuts,
  equaliser, delays); the word that clears all bands of the equaliser is replayed at its own
  place; outputs of bands that were first set before the number of bands are taken away by
  the replay; alignment entered twice loses the input type; a volume set with the knob comes
  back 6 dB louder, and one set while the knob was turned may come back as another; fade times are replayed at the rate of 48 kHz, delays at the one of the
  input on the front panel.

`PROJECT.json` lists further disagreements between comments and code that were met while
modelling and need no run.

### Bounds and why they are enough

* `MCCmdTable`: the general group with three slots and one input group with one, five
  identifiers, three values for the volume and two for the input, one command without a
  table. Full tables,
  dropped commands, updates and appends by both threads all happen; the calls are unbounded.
* `MCFlashStore`: two entries, two changes, three saves and two power losses (two and one in
  the violation runs) with all, none or every second bit changed; 5.1 million states. Three
  saves allow a complete one, a disturbed one and one that puts it right. Two entries are what a
  mixture of two saves takes, and the fewest there can be (volume and input). `Ignored` is none or
  the first operation, the write enable that an open status read swallows; in `flash_preempted`
  also four (of copy 1 only its last word and checksum are then programmed, over the old
  ones) and every one. The proofs allow any numbers. Losses in two saves in a row may take both
  copies, as the comment at `inc.c:468` accepts; that (`lost`) and a disturbed save
  (`spoilt`) are what the properties leave out.
* `KeyInput`: two presses of each key, in any overlap, one poll after which a contact still
  bounces; the debounce count is the code's 5. The input at start is 5, so that presses wrap.
* `MCHostControl`: three events of any kind, one cut, `STORE_TICKS` 3 for the code's 8 (only
  reaching the count matters), chunks of one or two commands. The input at start is 5, so
  that a press wraps around and a second differs from the microphone.

* `TcpServer`: three connections, two slots, three sockets (one listens) for the code's five
  and four: enough to run out of either if a connection were left over. Two packets, one of
  which may end inside a command, so that halves of commands join up; one failing `accept`, one
  upload.
* `DspInput`: the four kinds of input (`DVD` is set up like `MIC`, `SPDIF` like `COAX`), a fade
  of two interrupts for the code's 100 (only reaching it matters), five words, any number of
  polls. Five words are an input, alignment, another input, normal and one more.
* `MCDspParams`: two channels, two bands, six sessions that each take
  the words, clicks and keys of parameters that interact; five events and one restart; 127
  thousand states. Values lie on both sides of each test: delays of 52 ms (the limit at 96 kHz),
  104 ms (the limit at 48 kHz), 104.03 ms (a sample too many) and 201 ms (refused at once) among
  them; a sampling rate with an `op` other than 0 and a volume with
  another first parameter are among them, which decoders and tables treat differently. `Count`
  gives the tables no slot more than the longest session needs.

`CHECK_DEADLOCK FALSE` is set where the system comes to rest when the bounds are used up:
`FlashStore`, `TcpServer` (it waits in `select`) and `DspParams`.

### Fairness

`KeyInput`: weak fairness of `Poll`, the thread runs every 10 ms; nobody is obliged to let a
key go, so `HeldPressActs` assumes it. `HostControl`: weak fairness of the key thread and of
SPI_DSP, which are never blocked for ever because every thread above them sleeps between its
rounds; strong fairness of the idle timer, which the scheduler runs when its 250 ms are over
although `MaxCuts` may make the model's round wait for the end of a word. `TcpServer`: weak
fairness of tcpserv, the thread of the highest priority, which blocks only in `select` (a send to a
PC that is gone ends when lwIP gives up retransmitting); `NewClientServed` excludes a failing
`accept`. `DspInput`: weak fairness of the main loop, and of the DA's interrupt as long as the
DA has a clock; none of the inputs or the host. No fairness is assumed of the PC, the keys or
the knob.

## Proofs

The `*Proofs` modules prove, for every value of the constants that satisfies the assumptions of
the module, every type invariant and every safety invariant of the passing runs, the action
property `IdsStay` and the two refinements. In each module a theorem states that the
inductive invariant holds (`Invariance`, in `CmdTableProofs` the lemma `SpecInv`); the theorems that carry the runs' properties follow
from it.

| Module | Theorems |
|---|---|
| `CmdTableProofs` | `TypeCorrect`, `TablesHaveNoHoles`, `IdsAreUnique`, `SlotsHoldCommands`, `LookupAlwaysFinds`, `WordsAreEnough`, `IdsStayInPlace`, `Refinement` (of `CmdMap`) |
| `FlashStoreProofs` | `TypeCorrect`, `ConfigKept`, `OneVersionRead`, `SavedRestored`, `VolumeKept` |
| `KeyInputProofs` | `TypeCorrect`, `PressActsOnce`, `HeldHandled` |
| `HostControlProofs` | `TypeCorrect`, `LastCommand`, `Mute`, `CloseSyncs`, `SelectionNotForgotten` |
| `TcpServerProofs` | `TypeCorrect`, `OneClientServed`, `SocketLeft`, `InOrder`, `AnswersArrive` |
| `DspInputProofs` | `TypeCorrect`, `WordKept`, `WayBack`, `OneSource`, `NotSilent`, `Refinement` (of `InputSwitch`) |
| `DspParamsProofs` | `TypeCorrect`, `Cuts`, `Equaliser`, `Timing`, `Routes`, `InputType`, `Volume` |

TLC evaluates the assumptions in every run of the module. The bounds of the runs (`MaxEvents`,
`MaxSaves` and so on) are any naturals in the proofs.

### The arguments

**CmdTable.** Assumed: commands are tuples of four bytes (`CmdsAssumption`), tables have
natural sizes (`CountAssumption`), the DSP uploads only words that belong to a table
(`DspCmdsAssumption`; its firmware writes nothing but its volume to the transmit register).
The invariant `Inv` adds to the properties: SPI_DSP does nothing while the flash is restored
(`BootIdle`); once a volume was restored every identifier the DSP may upload is in its table
(`KnownHeld`); SPI_DSP has not passed the slot it searches for (`AdderPassed`), so on such a
device its search must find it and `append` is never reached; in state `data` its slot already
has its identifier (`AdderFound`); slots hold commands of their own identifier apart from the
one being appended (`GoodSlots`). The steps rest on lemmas about the operators: `RoundTrip`
(encode after decode is the identity), `StorableId` (identifiers are positive, so 0 is free to
mean empty), `ScanStopFacts` (the search stops at the first free or matching slot), `AddEffect`
(what one call changes). `Refinement` maps a table to the map of its used slots and to its
size, which is where the search for a free slot stops. Without holes and duplicates a write to
the table is an insertion, a replacement or, in a full table, a drop; SPI_DSP's call takes
effect at `DspData`, all its other steps stutter. `WordsAreEnough` follows the reload word by
word: after the words of the first tables and of the first slots of the next one, exactly
these slots are back. The words that the reader skips, zero and all ones, are no storable
commands, and a free slot holds the zero word (`FreeEmpty`, one more invariant: an append
writes the identifier first and the data after it, and nothing ever frees a slot); a word
goes to the table it came from because it decodes to that group, and to the next free slot
because its identifier is not among the ones before it. Of the order of `group_table` only
that every group occurs once matters.

**FlashStore.** Assumed: a word has at least nine bits, one more than the short constant
`0xffffff` of the code leaves out, and the bits that identify it are some of them
(`SizeAssumption`); on the lowest bit `And` is the logical one, and all ones and zero are its
neutral and its absorbing element (`AndAssumption`, all that is used of the flash's physics);
the stored words carry known identifiers and the erased word has none (`WordsAssumption`). `CfgProgress` says, for every step of
a save, how far the data area of the copy being written has got; `CfgCopies` that the other
copy is whole at that time, which an erased checksum alone does not show. For volume and input,
`DataInv` uses that both words are odd in every state of a half-done operation: their sum is
even and is never the all ones of an erased checksum. This is what keeps a half-written pair
from being believed, and nothing in the code says so. `VolInv` says nothing of a region that
two saves have written at once (`spoilt`), as `flash_preempted` shows it must not be stronger;
while both threads save, "vol" is `spoilt` (`HostInv`). `CfgProgress` and `CfgCopies` except
likewise a "cfg" of which the flash has ignored operations, as long as `deaf` is positive and after
it. The way back is that a save says where it is whatever the flash holds (`Shape`): at its
first erasure it has summed up nothing, from there `CfgProgress` and `VolProgress` hold for its own
copy, then for both, and `DataInv` returns when it ends. `OneVersionRead` needs
`WordsHeld` besides: a save erases the checksum of a copy first and writes it last, so under a
checksum that is not erased, or only partly, the words are still those of the save that wrote
it, or already those of the next; an ignored erasure breaks that order until a save has ended. Whichever branch of the reader is taken, what it takes is a table of one save, whole or its
first entry. Any number of power losses is
covered unless two saves in a row are cut off, and any number of disturbed saves each up to the
end of the next whole one.

**KeyInput.** What a key may still cause, `Owed`, never exceeds the presses and the polls
with a bouncing contact that have not been paid for (`OwedInv`), which needs that the driver
times only what it believes to be pressed (`DriverInv`) and that the loop's flag is the
disjunction of the accepted keys (`LoopInv`). `HeldHandled` follows a key that alone is down
(`HeldInv`): its time has grown in every poll, the first of these polls took the other key from
the loop (its pin reads open, so it is acted on, or was never accepted), and the poll in
which the time reaches `DEBOUNCE` gives this one to the loop.

**HostControl.** Assumed: commands are records of a name and a number, a volume command carries
a volume, chunks are sequences of commands (`CommandAssumption`). Each promise has an invariant
that follows it through the link: as long as no word was cut and no token is left, the word
under way is the one in `g_i_instruction` or the DSP has it (`CommandInv`), the same for the mute
(`MuteInv`) and for the volume after Close (`VolumeInv`), where the volume that tcpserv stores
in between must be shown to be the one SPI_DSP reads. `SelectionNotForgotten` rests on `PendInv`:
half a word of SPI_DSP may carry the selection before the last, but then the last one is
pending; the idle timer takes the flag back before it reads the selection, and forgets the event
only in the round that has sent and saved it; and tcpserv's save stores the selected input.

**TcpServer.** The invariant lists where each socket is at each step of the loop: an open socket
is the accepted one that is not registered yet or the one in a slot (`ClientsInv`), at most one slot
is used, the flag and the number that SPI_DSP reads are those of that slot, open connections
have one socket each (`SocketsInv`), and the backlog holds queued ones (`BacklogInv`). For
`SocketLeft` (with three sockets one is free at each call of `accept`, `SocketForNext`), only the first socket ever listens (`OneListens`), so that of the next two at most
one is in use when `accept` is called. Any number
of slots, sockets, connections and halves.

**DspInput.** `WordInv` is what the three looks at the receive register may see, `ChoiceInv`
relates the choice to the current and the remembered input at each step of the main loop,
`ConvertersInv` is what the set-up has done to the converters so far (others off, wired, played,
sourced). `NotSilent` needs `FadeInv`: during a fade out no set-up counts as done, so the end
of the fade, which mutes, always leads into the set-up that unmutes, or to no source, where the
same step unmutes. `Refinement` shows that every step is a step of `InputSwitch` or a stutter: a fade is
never cut short and ends in the choice that was last.

**DspParams.** Assumed: the PC sends words whose array indices are channels and bands of the
device (`ParamAssumption`) and the tables have a slot for each command of a session
(`TablesAssumption`, the `*_PARA_SIZE`s of `rtconfig.h`; what happens without one is in
`CmdTable`). Every slot has another identifier of the session, so by the pigeonhole principle a
table is never full for a command of the session (`HasRoom`). The invariant relates parameters and tables: a parameter has the value
of its stored word unless the last such word was refused, and its default if there is none
(`Holds`, for all kinds together `Agree`); the two cuts of a channel are in order (`CutOrder`).
For a replay the same relation is carried from word to word, with the words sent so far in
place of the tables, and with what a replay alone promises (`Sending`): no cut is refused
when the stored ones are in order (`CutsKept`), fade times count at 48 kHz since their
group is sent before the ones of the rates (`FadeRates`), delays are computed at the rate of the input
(`SamplesHold`), outputs sent after the number of bands stay (`OutputsKept`), the volume is the
stored one (`VolumeKept`). `VolumeInv` describes the states between the four steps of a
volume command: as long as the knob has not torn it, count, `knobvolume` and the value that goes
into the gain are those of the command.

**Induction.** The library's induction theorems have an operator parameter, which the provers
cannot instantiate. Here what is proved by induction is membership in a set: `LeastNat` (from
the well-foundedness of the naturals), `Upwards` from it, and `Recursion`, that a function
defined by recursion exists and satisfies its equation. Loops of the code are therefore
functions on the naturals (`Checksum`, `DataArea`, `Reloading`, `SendTable`, `Replay`), not `RECURSIVE` operators.

### What the proofs found

* `SavedIsRestored` did not exclude tables whose checksum is all ones. `read_w25q16` takes
  such a checksum for an erased one, so the tables of that save are not read; no instance that
  TLC checks contains the value.
* `NoMixedVersions` was false for words that the runs do not contain: a half-written area under
  an erased checksum is believed when it adds up to all ones, because the code tests the
  short `0xffffff`. The property names the case now, and is proved for all others.
* `ConfigSurvives` used to allow one power loss. The invariant shows that the number of losses
  does not matter, only whether two saves in a row are cut off; the run has two now.
* A sampling rate with an `op` other than 0 is stored under the slot of the rate but is refused by
  the decoder; a volume word with another first parameter is taken like a volume but is stored
  in another slot, so that a replay sends two volumes. `VolumeRestored` and `TimingRestored`
  name these cases and the run has the words.
* `CASE` arms of the decoder overlapped for words that no session of the runs contained; they are
  disjoint now, in the order of the code's tables.
* A table that is full breaks every restoration property. The model had unbounded tables.

### Only model-checked

Liveness (`NewClientServed`, `LastChoicePlayed`, `HeldPressActs`, `InputIsStored`,
`DspFollowsUncut`): fairness is out of the prover's reach. The state predicates that these rest
on are proved: a free socket for the next PC (`SocketForNext`), no mute left behind and the
refinement of the switch (`NeverLeftMuted`, `ImplementsSwitch`), the held key as the one waited
for (`HeldIsHandled`), a selection that stays pending until it is stored and sent
(`SelectionPending`); what TLC adds is that the steps towards the goal are in the end taken.

## Not modelled

Filters, sample routing, AC-3, LED/LCD, TFTP update, SHA204A, board drivers: numeric or pure
I/O. RT-Thread, lwIP and the vendor libraries, which are most of the repository's lines: third
party, taken by what they promise. Register values of converters and clocks. The
watchdog needs real time: a reset in the middle of a save is covered as a power loss. The
reboot counter is only displayed. The decoders left out of `DspParams` test a range and
assign one parameter that nothing else reads or writes. The first volume word of SPI_DSP is
misread by the DSP as a parameter in front of an array (see the findings); what it hits is not
a matter for a model.

## Plan

1. Done: protocol, tables, their map and reload; flash store; keys; host control; TCP server;
   DSP link, input switching and parameters; for each of them a proof of its type invariant, of
   all its safety invariants, and of both refinements.
2. Left, if the firmware grows there: the reboot counter and the shell's erase command in
   `FlashStore`, the first words of SPI_DSP after a start in `HostControl` (once
   `application.c:719` sends them in the order of the others), the TFTP update.
