------------------------------ MODULE CmdTable ------------------------------
(***************************************************************************)
(* The host's parameter tables (drivers/do_data.c, group_table of          *)
(* drivers/inc.c): one array of (id, data) slots per command group, kept    *)
(* without a lock and written by two threads.                               *)
(*                                                                         *)
(*   tcpserv, priority 8: first restores the words of the flash, then adds *)
(*     the commands of the PC.  Nothing that touches a table preempts it,  *)
(*     so each of its calls is one step.                                   *)
(*   SPI_DSP, priority 19: adds the volume words that the DSP uploads.     *)
(*     tcpserv preempts it between any two of its steps.                   *)
(***************************************************************************)
EXTENDS Protocol

CONSTANTS
  PcCmds,        \* the commands the PC may send and the flash may hold
  DspCmds,       \* the words the DSP may upload
  Count          \* Count[k]: the number of slots of group k's table

ASSUME CmdsAssumption == PcCmds \subseteq Cmd /\ DspCmds \subseteq Cmd
ASSUME CountAssumption == Count \in [TableKeys -> Nat]
\* The only word the DSP writes to its transmit register is its knob volume.
ASSUME DspCmdsAssumption == \A c \in DspCmds : Storable(c)

VARIABLES
  table,   \* table[k][i]: slot i, from 0, of group k's table; id 0 is empty
  phase,   \* "boot" while tcpserv restores the flash; then "known" if that
           \* brought back a volume, "fresh" if the device never saved one
  adder,   \* the SPI_DSP thread's call of do_add_cmd
  added    \* history: the command of the last call of do_add_cmd to return

vars == <<table, phase, adder, added>>

EmptySlot == [id |-> 0, data |-> ZeroWord]

Slots(k) == 0..(Count[k] - 1)

Idle == [pc |-> "idle"]

\* The word a slot holds for the command c: do_add_cmd_msg puts the decoded
\* message together again.
Stored(c) == [id |-> CmdId(c), data |-> prot_msg_to_cmd(prot_cmd_to_msg(c))]

(***************************************************************************)
(* The search of do_add_cmd_msg and do_get_data                            *)
(***************************************************************************)
\* The search may stop at slot i: it is free or it holds id.
Stops(t, id, i) == t[i].id \in {0, id}

\* The slot where the search for id in the n slots of t stops, n if none.
\* Mutant: the last slot is taken for the end of the search.
MutantScanOneShort(t, n, id) ==
  CHOOSE i \in 0..n :
    /\ i >= n - 1 \/ Stops(t, id, i)
    /\ \A j \in 0..(i - 1) : ~Stops(t, id, j)

ScanStop(t, n, id) ==
  CHOOSE i \in 0..n :
    /\ i = n \/ Stops(t, id, i)
    /\ \A j \in 0..(i - 1) : ~Stops(t, id, j)

\* The tables after a whole call do_add_cmd(c).  A command that is not
\* Storable, or a new one for a full table, changes nothing.
\* Mutant: the search is for a free slot only.
MutantAlwaysAppend(tab, c) ==
  LET k == CmdKey(c)
      i == ScanStop(tab[k], Count[k], 0)
  IN IF Storable(c) /\ i < Count[k]
     THEN [tab EXCEPT ![k][i] = Stored(c)]
     ELSE tab

\* Mutant: a command that is stored already is not updated.
MutantKeepFirst(tab, c) ==
  LET k == CmdKey(c)
      i == ScanStop(tab[k], Count[k], CmdId(c))
  IN IF Storable(c) /\ i < Count[k] /\ tab[k][i].id = 0
     THEN [tab EXCEPT ![k][i] = Stored(c)]
     ELSE tab

\* Mutant: a new command goes one slot behind the first free one.
MutantAppendBehind(tab, c) ==
  LET k == CmdKey(c)
      i == ScanStop(tab[k], Count[k], CmdId(c))
      j == IF i < Count[k] - 1 /\ tab[k][i].id = 0 THEN i + 1 ELSE i
  IN IF Storable(c) /\ i < Count[k]
     THEN [tab EXCEPT ![k][j] = Stored(c)]
     ELSE tab

do_add_cmd(tab, c) ==
  LET k == CmdKey(c)
      i == ScanStop(tab[k], Count[k], CmdId(c))
  IN IF Storable(c) /\ i < Count[k]
     THEN [tab EXCEPT ![k][i] = Stored(c)]
     ELSE tab

\* The identifier do_get_data builds from a key and a type: no parameters.
PlainId(key, type) ==
  get_cmd_id([op |-> 0, key |-> key, type |-> type,
              param1 |-> 0, param2 |-> 0, param3 |-> 0])

\* do_get_data(key, type): the word stored for that identifier, -1 when there
\* is none.
\* Mutant: the last slot is not looked at.
MutantGetOneShort(tab, key, type) ==
  LET id == PlainId(key, type)
      i == ScanStop(tab[key], Count[key], id)
  IN IF id >= 0 /\ i < Count[key] - 1 /\ tab[key][i].id = id
     THEN tab[key][i].data
     ELSE AllOnesWord

do_get_data(tab, key, type) ==
  LET id == PlainId(key, type)
      i == ScanStop(tab[key], Count[key], id)
  IN IF id >= 0 /\ i < Count[key] /\ tab[key][i].id = id
     THEN tab[key][i].data
     ELSE AllOnesWord

Holds(tab, id, k) == \E i \in Slots(k) : tab[k][i].id = id

(***************************************************************************)
(* tcpserv                                                                 *)
(***************************************************************************)
\* read_w25q16 adds one word of the flash.
Restore(c) ==
  /\ phase = "boot"
  /\ table' = do_add_cmd(table, c)
  /\ added' = c
  /\ UNCHANGED <<phase, adder>>

\* read_w25q16 is done.
BootDone ==
  /\ phase = "boot"
  /\ phase' = IF \A c \in DspCmds : Holds(table, CmdId(c), CmdKey(c))
              THEN "known" ELSE "fresh"
  /\ UNCHANGED <<table, adder, added>>

\* handle_net_data adds a command of the PC.
PcAdd(c) ==
  /\ phase # "boot"
  /\ table' = do_add_cmd(table, c)
  /\ added' = c
  /\ UNCHANGED <<phase, adder>>

(***************************************************************************)
(* SPI_DSP: do_set_cmd_entry for an uploaded word, step by step            *)
(***************************************************************************)
DspBegin(c) ==
  /\ phase # "boot"
  /\ adder = Idle
  /\ adder' = [pc |-> "scan", cmd |-> c, i |-> 0]
  /\ UNCHANGED <<table, phase, added>>

\* Mutant: the loop runs while i <= count.
MutantScanPastEnd ==
  /\ adder.pc = "scan"
  /\ LET k == CmdKey(adder.cmd)
         i == adder.i
     IN /\ adder' = CASE i = Count[k] -> [adder EXCEPT !.pc = "append"]
                      [] i < Count[k] /\ table[k][i].id = CmdId(adder.cmd)
                           -> [adder EXCEPT !.pc = "data"]
                      [] OTHER -> [adder EXCEPT !.i = i + 1]
        /\ added' = IF i = Count[k] THEN adder.cmd ELSE added
  /\ UNCHANGED <<table, phase>>

\* Mutant: any used slot is taken for the one searched for.
MutantScanNoCompare ==
  /\ adder.pc = "scan"
  /\ LET k == CmdKey(adder.cmd)
         i == adder.i
     IN /\ adder' = CASE i = Count[k] -> Idle
                      [] i < Count[k] /\ table[k][i].id = 0
                           -> [adder EXCEPT !.pc = "append"]
                      [] OTHER -> [adder EXCEPT !.pc = "data"]
        /\ added' = IF i = Count[k] THEN adder.cmd ELSE added
  /\ UNCHANGED <<table, phase>>

\* One evaluation of the loop's condition and body.
DspScan ==
  /\ adder.pc = "scan"
  /\ LET k == CmdKey(adder.cmd)
         i == adder.i
     IN /\ adder' = CASE i = Count[k] -> Idle
                      [] i < Count[k] /\ table[k][i].id = 0
                           -> [adder EXCEPT !.pc = "append"]
                      [] i < Count[k] /\ table[k][i].id = CmdId(adder.cmd)
                           -> [adder EXCEPT !.pc = "data"]
                      [] OTHER -> [adder EXCEPT !.i = i + 1]
        /\ added' = IF i = Count[k] THEN adder.cmd ELSE added
  /\ UNCHANGED <<table, phase>>

\* table[i].id = cmd_id, for the slot the search found free.
DspAppend ==
  /\ adder.pc = "append"
  /\ table' = [table EXCEPT ![CmdKey(adder.cmd)][adder.i].id = CmdId(adder.cmd)]
  /\ adder' = [adder EXCEPT !.pc = "data"]
  /\ UNCHANGED <<phase, added>>

\* table[i].data = data, for a slot found or appended.
DspData ==
  /\ adder.pc = "data"
  /\ table' = [table EXCEPT ![CmdKey(adder.cmd)][adder.i].data = Stored(adder.cmd).data]
  /\ adder' = Idle
  /\ added' = adder.cmd
  /\ UNCHANGED phase

-----------------------------------------------------------------------------
Init ==
  /\ table = [k \in TableKeys |-> [i \in Slots(k) |-> EmptySlot]]
  /\ phase = "boot"
  /\ adder = Idle
  /\ added = ZeroWord

Next ==
  \/ \E c \in PcCmds : Restore(c) \/ PcAdd(c)
  \/ BootDone
  \/ \E c \in DspCmds : DspBegin(c)
  \/ DspScan
  \/ DspAppend
  \/ DspData

Spec == Init /\ [][Next]_vars

-----------------------------------------------------------------------------
Slot == [id : Nat, data : Cmd]

AdderStates ==
  {Idle} \cup
  UNION {[pc : {"scan"}, cmd : {c}, i : 0..Count[CmdKey(c)]] \cup
         [pc : {"append", "data"}, cmd : {c}, i : Slots(CmdKey(c))] : c \in DspCmds}

Tables(tab) ==
  /\ DOMAIN tab = TableKeys
  /\ \A k \in TableKeys :
       /\ DOMAIN tab[k] = Slots(k)
       /\ \A i \in Slots(k) : tab[k][i] \in Slot

\* The tables are arrays of slots and the adder is inside its table.
TypeOK ==
  /\ Tables(table)
  /\ phase \in {"boot", "known", "fresh"}
  /\ adder \in AdderStates
  /\ added \in Cmd

\* The used slots of a table are its first ones.  Every search (do_add_cmd_msg,
\* do_get_data, send_data_to_pc, send_data_to_dsp) ends at the first free slot,
\* so an entry behind a free one would be lost to all of them.
NoHoles ==
  \A k \in TableKeys : \A i, j \in Slots(k) :
    i < j /\ table[k][j].id # 0 => table[k][i].id # 0

\* A table holds each identifier once, as the comment on the code array in
\* USER/rtconfig.h says (one array entry per distinct command).  A second
\* entry is never updated again, yet it is saved, and the DSP receives it
\* after the first one.
UniqueIds ==
  \A k \in TableKeys : \A i, j \in Slots(k) :
    table[k][i].id = table[k][j].id /\ table[k][i].id # 0 => i = j

\* UniqueIds, on every device whose flash held a volume: there the uploads of
\* the DSP only ever update a slot, and the two threads' calls of
\* do_add_cmd_msg may overlap in any way.
UniqueOnceStored == phase # "fresh" => UniqueIds

\* At every instant, also while the SPI_DSP thread is preempted inside
\* do_add_cmd_msg, the word of a used slot is a command with the slot's
\* identifier and group: whoever reads the tables (the idle timer's save, the
\* replies to the PC) sees a command that the PC or the DSP has sent.  On a
\* fresh device this is so whenever SPI_DSP is outside do_add_cmd_msg.
SlotsAreCommands ==
  (phase = "fresh" => adder = Idle) =>
    \A k \in TableKeys : \A i \in Slots(k) :
      table[k][i].id # 0 =>
        /\ Storable(table[k][i].data)
        /\ CmdKey(table[k][i].data) = k
        /\ CmdId(table[k][i].data) = table[k][i].id

\* On a device whose flash held a volume, do_get_data finds it at every
\* instant, whatever the two threads are doing to the tables.  Its callers do
\* not test for -1: SPI_DSP would send it to the DSP as a command, and the
\* idle timer would save it as the volume.
LookupFinds ==
  phase = "known" =>
    \A c \in DspCmds :
      LET key == CmdKey(c)
          type == prot_cmd_to_msg(c).type
          w == do_get_data(table, key, type)
      IN CmdId(c) = PlainId(key, type) =>
           Storable(w) /\ CmdKey(w) = key /\ CmdId(w) = CmdId(c)

\* What was stored is updated in place and never lost to another command, of
\* either thread: a used slot keeps its identifier.
IdsStay ==
  [][phase # "fresh" =>
       \A k \in TableKeys : \A i \in Slots(k) :
         table[k][i].id # 0 => table'[k][i].id = table[k][i].id]_vars

(***************************************************************************)
(* The tables implement a map from identifiers to words.                   *)
(***************************************************************************)
UsedSlots(k) == ScanStop(table[k], Count[k], 0)

MapOf == [k \in TableKeys |-> {table[k][i] : i \in 0..(UsedSlots(k) - 1)}]

Map == INSTANCE CmdMap WITH
         Commands <- PcCmds \cup DspCmds,
         map <- MapOf,
         used <- [k \in TableKeys |-> UsedSlots(k)],
         last <- added,
         promised <- (phase # "fresh")

\* However the two threads overlap, each call of do_add_cmd_msg acts as one
\* atomic write of a bounded map (module CmdMap), on every device whose flash
\* held a volume.
ImplementsMap == Map!Spec
=============================================================================
