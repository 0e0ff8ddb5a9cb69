--------------------------- MODULE CmdTableProofs ---------------------------
(***************************************************************************)
(* Proofs about the parameter tables for every set of commands and every   *)
(* table size.                                                             *)
(***************************************************************************)
EXTENDS TableReload, Induction, SequenceTheorems, TLAPS

(***************************************************************************)
(* The operators                                                           *)
(***************************************************************************)
\* prot_cmd_to_msg gives every field of a command its range.
LEMMA MsgType ==
  ASSUME NEW c \in Cmd
  PROVE  prot_cmd_to_msg(c) \in Msg
BY DEF Cmd, Byte, Msg, prot_cmd_to_msg

\* Decoding a command and encoding the message gives the command back: no bit
\* of the word is lost on its way into a table.
LEMMA RoundTrip ==
  ASSUME NEW c \in Cmd
  PROVE  prot_msg_to_cmd(prot_cmd_to_msg(c)) = c
BY DEF Cmd, Byte, prot_cmd_to_msg, prot_msg_to_cmd

\* The value's position is one of the four that get_cmd_index returns.
LEMMA IndexType ==
  ASSUME NEW key \in 0..15, NEW type \in 0..31
  PROVE  get_cmd_index(key, type) \in 0..3
BY DEF get_cmd_index, CMD_DATA_INDEX_INVALID

\* Whatever the value's position is, the identifier of a message with a valid
\* key is -1 or positive.
LEMMA IdType ==
  ASSUME NEW m \in Msg, m.key \in 1..15, get_cmd_id(m) >= 0
  PROVE  get_cmd_id(m) \in Nat \ {0}
<1>1. PICK ix \in 0..3 : ix = get_cmd_index(m.key, m.type)
  BY IndexType DEF Msg
<1>2. PICK k \in 1..15, t \in 0..31, p \in 0..31, q \in 0..255 :
        m.key = k /\ m.type = t /\ m.param1 = p /\ m.param2 = q
  BY DEF Msg, Byte
<1>3. ix # CMD_DATA_INDEX_INVALID
  BY <1>1 DEF get_cmd_id
<1>4. \/ get_cmd_id(m) = k * 262144 + t * 8192 + 0 + 0
      \/ get_cmd_id(m) = k * 262144 + t * 8192 + p * 256 + 0
      \/ get_cmd_id(m) = k * 262144 + t * 8192 + p * 256 + q
  BY <1>1, <1>2, <1>3, SMT DEF get_cmd_id, CMD_DATA_INDEX_INVALID
<1> QED
  BY <1>4, SMT

\* A command that passes the checks of do_add_cmd has a table, and an
\* identifier that differs from the 0 of a free slot.
LEMMA StorableId ==
  ASSUME NEW c \in Cmd, Storable(c)
  PROVE  /\ CmdKey(c) \in TableKeys
         /\ CmdId(c) \in Nat \ {0}
<1>1. PICK m \in Msg : m = prot_cmd_to_msg(c)
  BY MsgType
<1>2. m.key \in 1..15 /\ m.key \in TableKeys /\ get_cmd_id(m) >= 0
  BY <1>1 DEF Storable, KeyValid
<1>3. get_cmd_id(m) \in Nat \ {0}
  BY <1>2, IdType
<1> QED
  BY <1>1, <1>2, <1>3 DEF CmdKey, CmdId

\* Where the search stops: at the end or at a slot that is free or holds the
\* identifier, and at no slot before it.
LEMMA ScanStopFacts ==
  ASSUME NEW t, NEW n \in Nat, NEW id
  PROVE  /\ ScanStop(t, n, id) \in 0..n
         /\ ScanStop(t, n, id) = n \/ Stops(t, id, ScanStop(t, n, id))
         /\ \A j \in 0..(ScanStop(t, n, id) - 1) : ~Stops(t, id, j)
<1> DEFINE T == {i \in 0..n : i = n \/ Stops(t, id, i)}
<1>1. n \in T /\ T \subseteq Nat
  OBVIOUS
<1>2. PICK x \in T : \A y \in T : x <= y
  <2> HIDE DEF T
  <2> QED
    BY <1>1, LeastNat
<1>3. /\ x \in 0..n
      /\ x = n \/ Stops(t, id, x)
      /\ \A j \in 0..(x - 1) : ~Stops(t, id, j)
  <2>1. SUFFICES ASSUME NEW j \in 0..(x - 1), Stops(t, id, j)
                 PROVE  FALSE
    BY <1>2
  <2>2. j \in T /\ ~(x <= j)
    BY <2>1, <1>2
  <2> QED
    BY <2>2, <1>2
<1> QED
  BY <1>3 DEF ScanStop

\* The word that a table stores for a command is the command.
LEMMA StoredCmd ==
  ASSUME NEW c \in Cmd, Storable(c)
  PROVE  /\ Stored(c) = [id |-> CmdId(c), data |-> c]
         /\ Stored(c) \in Slot
BY RoundTrip, StorableId DEF Stored, Slot

\* What an assignment to slot i of table k changes.
Update(tab, k, i, s) == [tab EXCEPT ![k][i] = s]

\* An update changes one slot.
LEMMA UpdateSlot ==
  ASSUME NEW tab, Tables(tab), NEW k \in TableKeys, NEW i \in Slots(k),
         NEW s \in Slot,
         NEW new, new = Update(tab, k, i, s)
  PROVE  /\ Tables(new)
         /\ new[k][i] = s
         /\ \A l \in TableKeys : \A j \in Slots(l) :
              l # k \/ j # i => new[l][j] = tab[l][j]
BY DEF Tables, Update

\* A call of do_add_cmd changes nothing, or one slot: the first one that is
\* free or holds the command's identifier.
AddsAt(tab, new, c, k, i) ==
  /\ Storable(c)
  /\ k = CmdKey(c) /\ k \in TableKeys /\ i \in Slots(k)
  /\ CmdId(c) \in Nat \ {0}
  /\ tab[k][i].id \in {0, CmdId(c)}
  /\ \A j \in Slots(k) : j < i => tab[k][j].id \notin {0, CmdId(c)}
  /\ new[k][i] = [id |-> CmdId(c), data |-> c]
  /\ \A l \in TableKeys : \A j \in Slots(l) :
       l # k \/ j # i => new[l][j] = tab[l][j]

\* A call changes nothing only if the command has no table or identifier, or
\* its table is full of other identifiers.
AddsNowhere(tab, c) ==
  Storable(c) => \A j \in Slots(CmdKey(c)) : tab[CmdKey(c)][j].id \notin {0, CmdId(c)}

\* do_add_cmd leaves the tables alone or writes one slot.
LEMMA AddEffect ==
  ASSUME NEW tab, Tables(tab), NEW c \in Cmd,
         NEW new, new = do_add_cmd(tab, c)
  PROVE  /\ Tables(new)
         /\ \/ new = tab /\ AddsNowhere(tab, c)
            \/ \E k \in TableKeys : \E i \in Slots(k) : AddsAt(tab, new, c, k, i)
<1> DEFINE k == CmdKey(c)
           i == ScanStop(tab[k], Count[k], CmdId(c))
<1>1. CASE ~(Storable(c) /\ i < Count[k])
  <2>1. new = tab
    BY <1>1 DEF do_add_cmd
  <2>2. AddsNowhere(tab, c)
    <3> SUFFICES ASSUME Storable(c), NEW j \in Slots(k)
                 PROVE  tab[k][j].id \notin {0, CmdId(c)}
      BY DEF AddsNowhere
    <3>1. k \in TableKeys /\ Count[k] \in Nat
      BY StorableId, CountAssumption
    <3>2. i \in 0..Count[k] /\ \A l \in 0..(i - 1) : ~Stops(tab[k], CmdId(c), l)
      BY <3>1, ScanStopFacts
    <3>3. i = Count[k]
      BY <1>1, <3>1, <3>2
    <3> HIDE DEF i
    <3> QED
      BY <3>1, <3>2, <3>3 DEF Slots, Stops
  <2> QED
    BY <2>1, <2>2
<1>2. CASE Storable(c) /\ i < Count[k]
  <2> HIDE DEF k, i
  <2>1. k \in TableKeys /\ CmdId(c) \in Nat \ {0}
    BY <1>2, StorableId DEF k
  <2>2. Count[k] \in Nat
    BY <2>1, CountAssumption
  <2>3. /\ i \in 0..Count[k]
        /\ i = Count[k] \/ Stops(tab[k], CmdId(c), i)
        /\ \A j \in 0..(i - 1) : ~Stops(tab[k], CmdId(c), j)
    BY <2>2, ScanStopFacts DEF i
  <2>4. i \in Slots(k) /\ Stops(tab[k], CmdId(c), i)
    BY <1>2, <2>2, <2>3 DEF Slots
  <2>5. new = Update(tab, k, i, Stored(c))
    BY <1>2 DEF do_add_cmd, Update, k, i
  <2>6. /\ Tables(new)
        /\ new[k][i] = Stored(c)
        /\ \A l \in TableKeys : \A j \in Slots(l) :
             l # k \/ j # i => new[l][j] = tab[l][j]
    <3>1. Stored(c) \in Slot
      BY <1>2, StoredCmd
    <3> QED
      BY <2>1, <2>4, <2>5, <3>1, UpdateSlot
  <2>7. \A j \in Slots(k) : j < i => tab[k][j].id \notin {0, CmdId(c)}
    BY <2>2, <2>3 DEF Slots, Stops
  <2>8. AddsAt(tab, new, c, k, i)
    BY <1>2, <2>1, <2>4, <2>6, <2>7, StoredCmd DEF AddsAt, Stops, k
  <2> QED
    BY <2>1, <2>4, <2>6, <2>8
<1> QED
  BY <1>1, <1>2

(***************************************************************************)
(* The inductive invariant                                                 *)
(***************************************************************************)
\* SPI_DSP runs only after the flash was restored.
BootIdle == phase = "boot" => adder = Idle

\* A device that knows its volume has a slot for every word of the DSP.
KnownHeld ==
  phase = "known" => \A c \in DspCmds : Holds(table, CmdId(c), CmdKey(c))

\* The adder has passed used slots only, on a device that knows its volume
\* none with its own identifier, and there it never gets to append.
AdderPassed ==
  \A j \in Nat :
    adder.pc \in {"scan", "append"} /\ j < adder.i =>
      /\ table[CmdKey(adder.cmd)][j].id # 0
      /\ phase = "known" => table[CmdKey(adder.cmd)][j].id # CmdId(adder.cmd)

AdderFound ==
  /\ adder.pc = "data" => table[CmdKey(adder.cmd)][adder.i].id = CmdId(adder.cmd)
  /\ phase = "known" => adder.pc # "append"

\* A used slot holds a command with its identifier and group, but for the
\* slot that the adder of a fresh device has appended or is about to write.
Good(tab, k, i) ==
  /\ Storable(tab[k][i].data)
  /\ CmdKey(tab[k][i].data) = k
  /\ CmdId(tab[k][i].data) = tab[k][i].id

BeingWritten(k, i) ==
  phase = "fresh" /\ adder.pc = "data" /\ k = CmdKey(adder.cmd) /\ i = adder.i

GoodSlots ==
  \A k \in TableKeys : \A i \in Slots(k) :
    table[k][i].id # 0 => Good(table, k, i) \/ BeingWritten(k, i)

Inv ==
  /\ TypeOK
  /\ BootIdle
  /\ KnownHeld
  /\ NoHoles
  /\ UniqueOnceStored
  /\ AdderPassed
  /\ AdderFound
  /\ GoodSlots

\* The words of the DSP can be stored.
LEMMA DspCmdsStorable ==
  \A c \in DspCmds : /\ c \in Cmd /\ Storable(c)
                     /\ CmdKey(c) \in TableKeys
                     /\ CmdId(c) \in Nat \ {0}
BY CmdsAssumption, DspCmdsAssumption, StorableId

\* Slots are numbers.
LEMMA SlotsNat == \A k \in TableKeys : Slots(k) \subseteq Nat
BY CountAssumption DEF Slots

\* The adder while SPI_DSP is inside do_add_cmd_msg, and what it may become.
LEMMA AdderFields ==
  ASSUME adder \in AdderStates, adder.pc # "idle"
  PROVE  /\ adder.pc \in {"scan", "append", "data"}
         /\ adder = [pc |-> adder.pc, cmd |-> adder.cmd, i |-> adder.i]
         /\ adder.cmd \in DspCmds /\ adder.cmd \in Cmd /\ Storable(adder.cmd)
         /\ CmdKey(adder.cmd) \in TableKeys
         /\ CmdId(adder.cmd) \in Nat \ {0}
         /\ Count[CmdKey(adder.cmd)] \in Nat
         /\ adder.pc = "scan" => adder.i \in 0..Count[CmdKey(adder.cmd)]
         /\ adder.pc # "scan" => adder.i \in Slots(CmdKey(adder.cmd))
<1>1. PICK c \in DspCmds :
        \/ adder \in [pc : {"scan"}, cmd : {c}, i : 0..Count[CmdKey(c)]]
        \/ adder \in [pc : {"append", "data"}, cmd : {c}, i : Slots(CmdKey(c))]
  BY DEF AdderStates, Idle
<1>2. c \in Cmd /\ Storable(c) /\ CmdKey(c) \in TableKeys /\ CmdId(c) \in Nat \ {0}
  BY DspCmdsStorable
<1>3. Count[CmdKey(c)] \in Nat
  BY <1>2, CountAssumption
<1>4. adder.cmd = c
  BY <1>1
<1>5. /\ adder.pc \in {"scan", "append", "data"}
      /\ adder = [pc |-> adder.pc, cmd |-> adder.cmd, i |-> adder.i]
      /\ adder.pc = "scan" => adder.i \in 0..Count[CmdKey(c)]
      /\ adder.pc # "scan" => adder.i \in Slots(CmdKey(c))
  BY <1>1
<1> QED
  BY <1>2, <1>3, <1>4, <1>5

\* The states in which an action puts the adder.
LEMMA AdderIs ==
  ASSUME NEW c \in DspCmds, NEW pc, NEW i,
         \/ pc = "scan" /\ i \in 0..Count[CmdKey(c)]
         \/ pc \in {"append", "data"} /\ i \in Slots(CmdKey(c))
  PROVE  [pc |-> pc, cmd |-> c, i |-> i] \in AdderStates
BY DEF AdderStates

\* Empty tables.
LEMMA InitInv == Init => Inv
<1> SUFFICES ASSUME Init PROVE Inv
  OBVIOUS
<1>1. Tables(table)
  BY DEF Init, Tables, EmptySlot, Slot, ZeroWord, Cmd, Byte
<1>2. \A k \in TableKeys : \A i \in Slots(k) : table[k][i].id = 0
  BY DEF Init, EmptySlot
<1>3. TypeOK
  BY <1>1 DEF Init, TypeOK, AdderStates, ZeroWord, Cmd, Byte
<1>4. NoHoles /\ UniqueOnceStored /\ GoodSlots
  BY <1>2 DEF NoHoles, UniqueOnceStored, UniqueIds, GoodSlots
<1>5. BootIdle /\ KnownHeld /\ AdderPassed /\ AdderFound
  BY DEF Init, BootIdle, KnownHeld, AdderPassed, AdderFound, Idle
<1> QED
  BY <1>3, <1>4, <1>5 DEF Inv

\* A whole call of do_add_cmd by tcpserv, wherever it preempts SPI_DSP.
LEMMA AddKeepsInv ==
  ASSUME Inv, NEW c \in Cmd,
         table' = do_add_cmd(table, c), added' = c, UNCHANGED <<phase, adder>>
  PROVE  Inv'
<1>1. TypeOK'
  BY AddEffect DEF Inv, TypeOK
<1>2. CASE table' = table
  BY <1>1, <1>2 DEF Inv, BootIdle, KnownHeld, Holds, NoHoles, UniqueOnceStored,
     UniqueIds, AdderPassed, AdderFound, GoodSlots, Good, BeingWritten
<1>3. CASE \E k \in TableKeys : \E i \in Slots(k) : AddsAt(table, table', c, k, i)
  <2>0. PICK k \in TableKeys : \E i \in Slots(k) : AddsAt(table, table', c, k, i)
    BY <1>3
  <2>1. PICK i \in Slots(k) : AddsAt(table, table', c, k, i)
    BY <2>0
  <2>2. \A l \in TableKeys : \A j \in Slots(l) :
          table[l][j].id # 0 => table'[l][j].id = table[l][j].id
    BY <2>1 DEF AddsAt
  <2>3. BootIdle' /\ KnownHeld'
    BY <2>2, DspCmdsStorable DEF Inv, BootIdle, KnownHeld, Holds
  <2>4. NoHoles'
    BY <2>1, <2>2 DEF Inv, NoHoles, AddsAt
  <2>5. UniqueOnceStored'
    <3>1. SUFFICES ASSUME phase # "fresh",
                          NEW l \in TableKeys, NEW a \in Slots(l), NEW b \in Slots(l),
                          table'[l][a].id = table'[l][b].id, table'[l][a].id # 0, a < b
                   PROVE  FALSE
      BY SlotsNat DEF UniqueOnceStored, UniqueIds
    <3>2. table[l][a].id # table[l][b].id \/ table[l][a].id = 0
      BY <3>1, SlotsNat DEF Inv, UniqueOnceStored, UniqueIds
    <3>3. l = k /\ (a = i \/ b = i)
      BY <2>1, <3>1, <3>2 DEF AddsAt
    <3>4. CASE b = i
      BY <2>1, <3>1, <3>3, <3>4, SlotsNat DEF AddsAt
    <3>5. CASE a = i
      BY <2>1, <3>1, <3>2, <3>3, <3>5, SlotsNat DEF AddsAt, Inv, NoHoles
    <3> QED
      BY <3>3, <3>4, <3>5
  <2>6. AdderPassed'
    BY <2>1, <2>2, AdderFields DEF Inv, TypeOK, AdderPassed, Slots
  <2>7. AdderFound'
    BY <2>1, <2>2, AdderFields DEF Inv, TypeOK, AdderFound
  <2>8. GoodSlots'
    BY <2>1, <2>2 DEF Inv, GoodSlots, Good, BeingWritten, AddsAt
  <2> QED
    BY <1>1, <2>3, <2>4, <2>5, <2>6, <2>7, <2>8 DEF Inv
<1> QED
  BY <1>2, <1>3, AddEffect DEF Inv, TypeOK

\* The end of the restore, and the start of an upload.
LEMMA BootDoneKeepsInv ==
  ASSUME Inv, BootDone
  PROVE  Inv'
<1>1. adder = Idle /\ adder.pc = "idle"
  BY DEF Inv, BootIdle, BootDone, Idle
<1>2. UniqueIds
  BY DEF Inv, UniqueOnceStored, BootDone
<1>3. TypeOK' /\ BootIdle' /\ KnownHeld'
  BY <1>1 DEF Inv, TypeOK, BootIdle, KnownHeld, Holds, BootDone
<1>4. NoHoles' /\ UniqueOnceStored'
  BY <1>2 DEF Inv, NoHoles, UniqueOnceStored, UniqueIds, BootDone
<1>5. AdderPassed' /\ AdderFound'
  BY <1>1 DEF AdderPassed, AdderFound, BootDone
<1>6. GoodSlots'
  BY <1>1 DEF Inv, GoodSlots, Good, BeingWritten, BootDone
<1> QED
  BY <1>3, <1>4, <1>5, <1>6 DEF Inv

\* The search of SPI_DSP starts at slot 0.
LEMMA DspBeginKeepsInv ==
  ASSUME Inv, NEW c \in DspCmds, DspBegin(c)
  PROVE  Inv'
<1>1. adder.pc = "idle" /\ adder'.pc = "scan" /\ adder'.cmd = c /\ adder'.i = 0
  BY DEF DspBegin, Idle
<1>2. 0 \in 0..Count[CmdKey(c)]
  BY DspCmdsStorable, CountAssumption
<1>3. TypeOK'
  BY <1>2, AdderIs DEF Inv, TypeOK, DspBegin
<1>4. BootIdle' /\ KnownHeld' /\ NoHoles' /\ UniqueOnceStored'
  BY DEF Inv, BootIdle, KnownHeld, Holds, NoHoles, UniqueOnceStored, UniqueIds, DspBegin
<1>5. AdderPassed' /\ AdderFound'
  BY <1>1 DEF AdderPassed, AdderFound
<1>6. GoodSlots'
  BY <1>1 DEF Inv, GoodSlots, Good, BeingWritten, DspBegin
<1> QED
  BY <1>3, <1>4, <1>5, <1>6 DEF Inv

\* One round of the search.  On a device that knows its volume the search
\* finds the slot before it meets a free one.
LEMMA DspScanKeepsInv ==
  ASSUME Inv, DspScan
  PROVE  Inv'
<1> DEFINE k == CmdKey(adder.cmd)
           i == adder.i
<1>1. /\ adder.pc = "scan" /\ adder = [pc |-> "scan", cmd |-> adder.cmd, i |-> i]
      /\ adder.cmd \in DspCmds /\ adder.cmd \in Cmd
      /\ k \in TableKeys /\ Count[k] \in Nat /\ i \in 0..Count[k]
      /\ CmdId(adder.cmd) \in Nat \ {0}
      /\ phase # "boot"
  BY AdderFields DEF Inv, TypeOK, DspScan, BootIdle, Idle
<1> HIDE DEF k, i
<1>2. UNCHANGED <<table, phase>>
  BY DEF DspScan
<1>3. \/ i = Count[k] /\ adder' = Idle
      \/ i < Count[k] /\ table[k][i].id = 0
           /\ adder' = [pc |-> "append", cmd |-> adder.cmd, i |-> i]
      \/ i < Count[k] /\ table[k][i].id = CmdId(adder.cmd)
           /\ adder' = [pc |-> "data", cmd |-> adder.cmd, i |-> i]
      \/ i < Count[k] /\ table[k][i].id \notin {0, CmdId(adder.cmd)}
           /\ adder' = [pc |-> "scan", cmd |-> adder.cmd, i |-> i + 1]
  BY <1>1 DEF DspScan, k, i
<1>4. TypeOK'
  <2>1. adder' \in AdderStates
    <3>1. CASE adder' = Idle
      BY <3>1 DEF AdderStates
    <3>2. CASE i < Count[k]
      BY <1>1, <1>3, <3>2, AdderIs DEF Slots, k, AdderStates
    <3> QED
      BY <1>3, <3>1, <3>2
  <2>2. added' \in Cmd
    BY <1>1 DEF Inv, TypeOK, DspScan
  <2> QED
    BY <1>2, <2>1, <2>2 DEF Inv, TypeOK
<1>5. BootIdle' /\ KnownHeld' /\ NoHoles' /\ UniqueOnceStored'
  BY <1>1, <1>2 DEF Inv, BootIdle, KnownHeld, Holds, NoHoles, UniqueOnceStored, UniqueIds
<1>6. AdderPassed'
  BY <1>1, <1>2, <1>3 DEF Inv, AdderPassed, Idle, k, i
<1>7. AdderFound'
  <2>1. ASSUME phase = "known", i < Count[k], table[k][i].id = 0
        PROVE  FALSE
    <3>1. PICK j \in Slots(k) : table[k][j].id = CmdId(adder.cmd)
      BY <1>1, <2>1 DEF Inv, KnownHeld, Holds, k
    <3>2. ~(j < i)
      BY <1>1, <2>1, <3>1, SlotsNat DEF Inv, AdderPassed, k, i
    <3>3. i \in Slots(k) /\ i < j
      BY <1>1, <2>1, <3>1, <3>2, SlotsNat DEF Slots
    <3> QED
      BY <1>1, <2>1, <3>1, <3>3 DEF Inv, NoHoles
  <2> QED
    BY <1>1, <1>2, <1>3, <2>1 DEF AdderFound, Idle, k, i
<1>8. GoodSlots'
  BY <1>1, <1>2 DEF Inv, GoodSlots, Good, BeingWritten
<1> QED
  BY <1>4, <1>5, <1>6, <1>7, <1>8 DEF Inv

\* The identifier is written only on a fresh device.
LEMMA DspAppendKeepsInv ==
  ASSUME Inv, DspAppend
  PROVE  Inv'
<1> DEFINE k == CmdKey(adder.cmd)
           i == adder.i
           s == [table[k][i] EXCEPT !.id = CmdId(adder.cmd)]
<1>1. /\ adder.pc = "append" /\ adder = [pc |-> "append", cmd |-> adder.cmd, i |-> i]
      /\ adder.cmd \in DspCmds
      /\ k \in TableKeys /\ i \in Slots(k)
      /\ CmdId(adder.cmd) \in Nat \ {0}
  BY AdderFields DEF Inv, TypeOK, DspAppend
<1>2. phase = "fresh" /\ phase' = "fresh"
  BY <1>1 DEF Inv, TypeOK, AdderFound, BootIdle, Idle, DspAppend
<1>3. s \in Slot /\ s.id = CmdId(adder.cmd)
  BY <1>1 DEF Inv, TypeOK, Tables, Slot
<1>4. /\ Tables(table')
      /\ table'[k][i] = s
      /\ \A l \in TableKeys : \A j \in Slots(l) :
           l # k \/ j # i => table'[l][j] = table[l][j]
  <2>1. table' = Update(table, k, i, s)
    BY DEF DspAppend, Update
  <2> HIDE DEF k, i, s
  <2> QED
    BY <1>1, <1>3, <2>1, UpdateSlot DEF Inv, TypeOK
<1> HIDE DEF k, i, s
<1>5. adder' = [pc |-> "data", cmd |-> adder.cmd, i |-> i]
  BY <1>1 DEF DspAppend
<1>6. TypeOK'
  BY <1>1, <1>2, <1>4, <1>5, AdderIs DEF Inv, TypeOK, DspAppend, k
<1>7. NoHoles'
  BY <1>1, <1>3, <1>4, SlotsNat DEF Inv, NoHoles, AdderPassed, k, i
<1>8. BootIdle' /\ KnownHeld' /\ UniqueOnceStored' /\ AdderPassed' /\ AdderFound'
  BY <1>2, <1>3, <1>4, <1>5 DEF BootIdle, KnownHeld, UniqueOnceStored,
     AdderPassed, AdderFound, k
<1>9. GoodSlots'
  BY <1>1, <1>2, <1>4, <1>5 DEF Inv, GoodSlots, Good, BeingWritten, k
<1> QED
  BY <1>6, <1>7, <1>8, <1>9 DEF Inv

\* The word is written to a slot that holds its identifier.
LEMMA DspDataKeepsInv ==
  ASSUME Inv, DspData
  PROVE  Inv'
<1> DEFINE k == CmdKey(adder.cmd)
           i == adder.i
           s == [table[k][i] EXCEPT !.data = Stored(adder.cmd).data]
<1>1. /\ adder.pc = "data"
      /\ adder.cmd \in DspCmds /\ adder.cmd \in Cmd /\ Storable(adder.cmd)
      /\ k \in TableKeys /\ i \in Slots(k)
      /\ table[k][i].id = CmdId(adder.cmd)
  BY AdderFields DEF Inv, TypeOK, AdderFound, DspData
<1>2. s \in Slot /\ s.id = table[k][i].id /\ s.data = adder.cmd
  BY <1>1, StoredCmd DEF Inv, TypeOK, Tables, Slot
<1>3. /\ Tables(table')
      /\ table'[k][i] = s
      /\ \A l \in TableKeys : \A j \in Slots(l) :
           l # k \/ j # i => table'[l][j] = table[l][j]
  <2>1. table' = Update(table, k, i, s)
    BY DEF DspData, Update
  <2> HIDE DEF k, i, s
  <2> QED
    BY <1>1, <1>2, <2>1, UpdateSlot DEF Inv, TypeOK
<1> HIDE DEF k, i, s
<1>4. adder' = Idle /\ adder'.pc = "idle" /\ phase' = phase /\ added' = adder.cmd
  BY DEF DspData, Idle
<1>5. \A l \in TableKeys : \A j \in Slots(l) : table'[l][j].id = table[l][j].id
  BY <1>1, <1>2, <1>3
<1>6. TypeOK'
  BY <1>1, <1>3, <1>4 DEF Inv, TypeOK, AdderStates
<1>7. KnownHeld'
  BY <1>4, <1>5, DspCmdsStorable DEF Inv, KnownHeld, Holds
<1>8. NoHoles' /\ UniqueOnceStored'
  BY <1>4, <1>5 DEF Inv, NoHoles, UniqueOnceStored, UniqueIds
<1>9. BootIdle' /\ AdderPassed' /\ AdderFound'
  BY <1>4 DEF BootIdle, AdderPassed, AdderFound
<1>10. GoodSlots'
  BY <1>1, <1>2, <1>3, <1>4 DEF Inv, GoodSlots, Good, BeingWritten, k, i
<1> QED
  BY <1>6, <1>7, <1>8, <1>9, <1>10 DEF Inv

\* Every step keeps the invariant,
LEMMA NextKeepsInv == Inv /\ [Next]_vars => Inv'
<1> SUFFICES ASSUME Inv, [Next]_vars PROVE Inv'
  OBVIOUS
<1>1. ASSUME NEW c \in PcCmds, Restore(c) \/ PcAdd(c) PROVE Inv'
  BY <1>1, CmdsAssumption, AddKeepsInv DEF Restore, PcAdd
<1>2. CASE BootDone
  BY <1>2, BootDoneKeepsInv
<1>3. ASSUME NEW c \in DspCmds, DspBegin(c) PROVE Inv'
  BY <1>3, DspBeginKeepsInv
<1>4. CASE DspScan
  BY <1>4, DspScanKeepsInv
<1>5. CASE DspAppend
  BY <1>5, DspAppendKeepsInv
<1>6. CASE DspData
  BY <1>6, DspDataKeepsInv
<1>7. CASE UNCHANGED vars
  BY <1>7 DEF vars, Inv, TypeOK, BootIdle, KnownHeld, Holds, NoHoles, UniqueOnceStored,
     UniqueIds, AdderPassed, AdderFound, GoodSlots, Good, BeingWritten
<1> QED
  BY <1>1, <1>2, <1>3, <1>4, <1>5, <1>6, <1>7 DEF Next

\* so it holds throughout.
LEMMA SpecInv == Spec => []Inv
BY InitInv, NextKeepsInv, PTL DEF Spec

(***************************************************************************)
(* The theorems                                                            *)
(***************************************************************************)
\* The tables stay arrays of slots, and neither thread's search leaves the
\* table of its group.
THEOREM TypeCorrect == Spec => []TypeOK
<1>1. Inv => TypeOK
  BY DEF Inv
<1> QED
  BY <1>1, SpecInv, PTL

\* No slot behind a free one is ever used, on any device, wherever tcpserv
\* preempts SPI_DSP: every search that stops at a free slot has seen all.
THEOREM TablesHaveNoHoles == Spec => []NoHoles
<1>1. Inv => NoHoles
  BY DEF Inv
<1> QED
  BY <1>1, SpecInv, PTL

\* On a device whose flash held a volume, no interleaving of the two threads'
\* calls of do_add_cmd_msg stores an identifier twice.
THEOREM IdsAreUnique == Spec => []UniqueOnceStored
<1>1. Inv => UniqueOnceStored
  BY DEF Inv
<1> QED
  BY <1>1, SpecInv, PTL

\* Whoever reads a used slot sees a command of the slot's identifier and group.
THEOREM SlotsHoldCommands == Spec => []SlotsAreCommands
<1>1. Inv => SlotsAreCommands
  BY DEF Inv, GoodSlots, Good, BeingWritten, SlotsAreCommands, Idle
<1> QED
  BY <1>1, SpecInv, PTL

\* On a device whose flash held a volume, do_get_data finds it wherever tcpserv
\* has preempted SPI_DSP.
THEOREM LookupAlwaysFinds == Spec => []LookupFinds
<1>1. Inv => LookupFinds
  <2> SUFFICES ASSUME Inv, phase = "known",
                      NEW c \in DspCmds, NEW k, NEW type, NEW id,
                      k = CmdKey(c), type = prot_cmd_to_msg(c).type,
                      id = CmdId(c), id = PlainId(k, type)
               PROVE  LET w == do_get_data(table, k, type)
                      IN Storable(w) /\ CmdKey(w) = k /\ CmdId(w) = id
    BY DEF LookupFinds
  <2>1. k \in TableKeys /\ id \in Nat \ {0} /\ Count[k] \in Nat
    BY CmdsAssumption, DspCmdsAssumption, StorableId, CountAssumption
  <2>2. PICK i : i = ScanStop(table[k], Count[k], id)
    OBVIOUS
  <2>3. /\ i \in 0..Count[k]
        /\ i = Count[k] \/ Stops(table[k], id, i)
        /\ \A j \in 0..(i - 1) : ~Stops(table[k], id, j)
    BY <2>1, <2>2, ScanStopFacts
  <2>4. PICK j \in Slots(k) : table[k][j].id = id
    BY DEF Inv, KnownHeld, Holds
  <2>5. i <= j /\ i \in Slots(k)
    BY <2>1, <2>3, <2>4 DEF Slots, Stops
  <2>6. table[k][i].id \in {0, id}
    BY <2>1, <2>3, <2>5 DEF Slots, Stops
  <2>7. table[k][i].id # 0
    <3>1. i < j => table[k][i].id # 0
      BY <2>1, <2>4, <2>5 DEF Inv, NoHoles
    <3> QED
      BY <2>1, <2>4, <2>5, <3>1 DEF Slots
  <2>8. do_get_data(table, k, type) = table[k][i].data
    BY <2>1, <2>2, <2>5, <2>6, <2>7 DEF do_get_data, Slots
  <2>9. Good(table, k, i)
    BY <2>1, <2>5, <2>7 DEF Inv, GoodSlots, BeingWritten
  <2> QED
    BY <2>6, <2>7, <2>8, <2>9 DEF Good
<1> QED
  BY <1>1, SpecInv, PTL

\* A stored command keeps its slot: no call of either thread gives it to
\* another command.
THEOREM IdsStayInPlace == Spec => IdsStay
<1> DEFINE Stay == phase # "fresh" =>
             \A k \in TableKeys : \A i \in Slots(k) :
               table[k][i].id # 0 => table'[k][i].id = table[k][i].id
<1>1. Inv /\ [Next]_vars => [Stay]_vars
  <2> SUFFICES ASSUME Inv, Next PROVE Stay
    OBVIOUS
  <2>1. ASSUME NEW c \in PcCmds, Restore(c) \/ PcAdd(c) PROVE Stay
    <3>1. table' = do_add_cmd(table, c)
      BY <2>1 DEF Restore, PcAdd
    <3>2. \/ table' = table
          \/ \E k \in TableKeys : \E i \in Slots(k) : AddsAt(table, table', c, k, i)
      BY <3>1, CmdsAssumption, AddEffect DEF Inv, TypeOK
    <3> QED
      BY <3>2 DEF AddsAt
  <2>2. CASE BootDone \/ DspScan \/ \E c \in DspCmds : DspBegin(c)
    BY <2>2 DEF BootDone, DspScan, DspBegin
  <2>3. CASE DspAppend
    BY <2>3 DEF Inv, TypeOK, BootIdle, AdderFound, DspAppend, Idle
  <2>4. CASE DspData
    BY <2>4 DEF Inv, TypeOK, Tables, Slot, DspData
  <2> QED
    BY <2>1, <2>2, <2>3, <2>4 DEF Next
<1> QED
  BY <1>1, SpecInv, PTL DEF Spec, IdsStay

(***************************************************************************)
(* The tables implement CmdMap                                             *)
(***************************************************************************)
\* The map and its sizes, as functions of the tables.
Entries(tab) ==
  [k \in TableKeys |-> {tab[k][i] : i \in 0..(ScanStop(tab[k], Count[k], 0) - 1)}]

Sizes(tab) == [k \in TableKeys |-> ScanStop(tab[k], Count[k], 0)]

\* The used slots of table k are its first n.
UsedUpTo(tab, k, n) ==
  /\ n \in 0..Count[k]
  /\ \A j \in Slots(k) : tab[k][j].id # 0 <=> j < n

\* Without holes the search for a free slot counts the used ones,
LEMMA SizeFacts ==
  ASSUME NEW tab, NEW k \in TableKeys,
         \A i, j \in Slots(k) : i < j /\ tab[k][j].id # 0 => tab[k][i].id # 0
  PROVE  UsedUpTo(tab, k, Sizes(tab)[k])
<1>1. Count[k] \in Nat
  BY CountAssumption
<1>2. PICK n : n = ScanStop(tab[k], Count[k], 0)
  OBVIOUS
<1>3. /\ n \in 0..Count[k]
      /\ n = Count[k] \/ Stops(tab[k], 0, n)
      /\ \A j \in 0..(n - 1) : ~Stops(tab[k], 0, j)
  BY <1>1, <1>2, ScanStopFacts
<1>4. \A j \in Slots(k) : tab[k][j].id # 0 <=> j < n
  <2> SUFFICES ASSUME NEW j \in Slots(k) PROVE tab[k][j].id # 0 <=> j < n
    OBVIOUS
  <2>1. j \in Nat /\ j < Count[k]
    BY <1>1 DEF Slots
  <2>2. CASE j < n
    BY <1>1, <1>3, <2>1, <2>2 DEF Stops
  <2>3. CASE ~(j < n)
    <3>1. n \in Slots(k) /\ tab[k][n].id = 0
      BY <1>1, <1>3, <2>1, <2>3 DEF Slots, Stops
    <3> QED
      BY <1>1, <1>3, <2>1, <2>3, <3>1
  <2> QED
    BY <2>2, <2>3
<1> QED
  BY <1>2, <1>3, <1>4 DEF UsedUpTo, Sizes

\* and no other number does.
LEMMA SizeIs ==
  ASSUME NEW tab, NEW k \in TableKeys, NEW m, NEW n,
         UsedUpTo(tab, k, m), UsedUpTo(tab, k, n)
  PROVE  m = n
<1>1. Count[k] \in Nat
  BY CountAssumption
<1>2. m \in 0..Count[k] /\ n \in 0..Count[k]
  BY DEF UsedUpTo
<1>3. m \in Slots(k) => ~(m < n)
  BY <1>1, <1>2 DEF UsedUpTo
<1>4. n \in Slots(k) => ~(n < m)
  BY <1>1, <1>2 DEF UsedUpTo
<1> QED
  BY <1>1, <1>2, <1>3, <1>4 DEF Slots

\* The map holds the used slots.
LEMMA EntriesAre ==
  ASSUME NEW tab, NEW k \in TableKeys, UsedUpTo(tab, k, Sizes(tab)[k])
  PROVE  \A e : e \in Entries(tab)[k] <=>
                  \E j \in Slots(k) : tab[k][j].id # 0 /\ e = tab[k][j]
<1>1. Count[k] \in Nat
  BY CountAssumption
<1>2. PICK n : n = Sizes(tab)[k]
  OBVIOUS
<1>3. Entries(tab)[k] = {tab[k][j] : j \in 0..(n - 1)}
  BY <1>2 DEF Entries, Sizes
<1>4. \A j : j \in 0..(n - 1) <=> j \in Slots(k) /\ tab[k][j].id # 0
  BY <1>1, <1>2 DEF UsedUpTo, Slots
<1> QED
  BY <1>3, <1>4

\* A table whose slots stay has the same entries.
LEMMA SameEntries ==
  ASSUME NEW tab, NEW new, NEW k \in TableKeys,
         UsedUpTo(tab, k, Sizes(tab)[k]), UsedUpTo(new, k, Sizes(new)[k]),
         \A j \in Slots(k) : new[k][j] = tab[k][j]
  PROVE  /\ Sizes(new)[k] = Sizes(tab)[k]
         /\ Entries(new)[k] = Entries(tab)[k]
<1>1. UsedUpTo(new, k, Sizes(tab)[k])
  BY DEF UsedUpTo
<1>2. Sizes(new)[k] = Sizes(tab)[k]
  BY <1>1, SizeIs
<1>3. \A e : e \in Entries(new)[k] <=> e \in Entries(tab)[k]
  BY EntriesAre
<1> QED
  BY <1>2, <1>3

\* What the refinement mapping reads, now and after a step.
LEMMA MappedTables ==
  /\ MapOf = Entries(table) /\ MapOf' = Entries(table')
  /\ [k \in TableKeys |-> UsedSlots(k)] = Sizes(table)
  /\ [k \in TableKeys |-> UsedSlots(k)]' = Sizes(table')
BY DEF MapOf, UsedSlots, Entries, Sizes

\* Tables without holes.
LEMMA CountedTables ==
  ASSUME Inv, Inv', NEW k \in TableKeys
  PROVE  UsedUpTo(table, k, Sizes(table)[k]) /\ UsedUpTo(table', k, Sizes(table')[k])
BY SizeFacts DEF Inv, NoHoles

\* CmdMap reads commands as the tables do.
LEMMA SameProtocol ==
  /\ Map!TableKeys = TableKeys /\ Map!ZeroWord = ZeroWord
  /\ \A c : /\ Map!CmdKey(c) = CmdKey(c) /\ Map!CmdId(c) = CmdId(c)
            /\ Map!Storable(c) = Storable(c)
            /\ Map!Entry(c) = [id |-> CmdId(c), data |-> prot_msg_to_cmd(prot_cmd_to_msg(c))]
<1>1. Map!TableKeys = TableKeys /\ Map!ZeroWord = ZeroWord
  BY DEF TableKeys, CMD_GROUP_GENERAL, CMD_GROUP_INPUTS, CMD_GROUP_OUTPUT, CMD_GROUP_OTHER,
         CMD_GROUP_SOUND, CMD_GROUP_FERQ, ZeroWord,
         Map!TableKeys, Map!CMD_GROUP_GENERAL, Map!CMD_GROUP_INPUTS, Map!CMD_GROUP_OUTPUT,
         Map!CMD_GROUP_OTHER, Map!CMD_GROUP_SOUND, Map!CMD_GROUP_FERQ, Map!ZeroWord
<1>2. \A c : Map!prot_cmd_to_msg(c) = prot_cmd_to_msg(c)
  BY DEF prot_cmd_to_msg, Map!prot_cmd_to_msg
<1>3. \A m : Map!prot_msg_to_cmd(m) = prot_msg_to_cmd(m)
  BY DEF prot_msg_to_cmd, Map!prot_msg_to_cmd
<1>4. \A key, type : Map!get_cmd_index(key, type) = get_cmd_index(key, type)
  BY DEF get_cmd_index, CMD_GROUP_GENERAL, CMD_GROUP_INPUTS, CMD_GROUP_OUTPUT,
         CMD_GROUP_FERQ, CMD_DATA_INDEX_INVALID,
         Map!get_cmd_index, Map!CMD_GROUP_GENERAL, Map!CMD_GROUP_INPUTS,
         Map!CMD_GROUP_OUTPUT, Map!CMD_GROUP_FERQ, Map!CMD_DATA_INDEX_INVALID
<1>5. \A m : Map!get_cmd_id(m) = get_cmd_id(m)
  BY <1>4 DEF get_cmd_id, CMD_DATA_INDEX_INVALID, Map!get_cmd_id, Map!CMD_DATA_INDEX_INVALID
<1>6. \A m : Map!KeyValid(m) = KeyValid(m)
  BY DEF KeyValid, Map!KeyValid
<1>7. \A c : Map!CmdKey(c) = CmdKey(c) /\ Map!CmdId(c) = CmdId(c)
  BY <1>2, <1>5 DEF CmdKey, CmdId, Map!CmdKey, Map!CmdId
<1>8. \A c : Map!Storable(c) = Storable(c)
  BY <1>1, <1>2, <1>5, <1>6 DEF Storable, Map!Storable
<1>9. \A c : Map!Entry(c) = [id |-> CmdId(c), data |-> prot_msg_to_cmd(prot_cmd_to_msg(c))]
  BY <1>2, <1>3, <1>7 DEF Map!Entry
<1> QED
  BY <1>1, <1>7, <1>8, <1>9

\* A write to slot i of table k: the map of k loses what was in the slot and
\* gains the new entry, the other groups' maps stay.
LEMMA EntriesAfterWrite ==
  ASSUME Inv, Inv', phase' # "fresh", NEW k \in TableKeys, NEW i \in Slots(k),
         table'[k][i].id # 0, table[k][i].id \in {0, table'[k][i].id},
         \A l \in TableKeys : \A j \in Slots(l) :
           l # k \/ j # i => table'[l][j] = table[l][j]
  PROVE  /\ Entries(table') =
              [Entries(table) EXCEPT ![k] =
                 {e \in @ : e.id # table'[k][i].id} \cup {table'[k][i]}]
         /\ table[k][i].id # 0 => Sizes(table') = Sizes(table)
         /\ table[k][i].id = 0 =>
              /\ Sizes(table)[k] < Count[k]
              /\ Sizes(table') = [Sizes(table) EXCEPT ![k] = @ + 1]
<1> DEFINE s == table'[k][i]
           n == Sizes(table)[k]
<1>1. Count[k] \in Nat
  BY CountAssumption
<1>2. UsedUpTo(table, k, n) /\ UsedUpTo(table', k, Sizes(table')[k])
  BY CountedTables
<1>3. \A l \in TableKeys :
        l # k => Sizes(table')[l] = Sizes(table)[l] /\ Entries(table')[l] = Entries(table)[l]
  BY CountedTables, SameEntries
<1>4. \A e : e \in Entries(table')[k] <=>
               e = s \/ (e \in Entries(table)[k] /\ e.id # s.id)
  <2>1. TAKE e
  <2>2. e \in Entries(table)[k] <=> \E j \in Slots(k) : table[k][j].id # 0 /\ e = table[k][j]
    BY <1>2, EntriesAre
  <2>3. e \in Entries(table')[k] <=> \E j \in Slots(k) : table'[k][j].id # 0 /\ e = table'[k][j]
    BY <1>2, EntriesAre
  <2>4. \A j \in Slots(k) : j # i /\ table'[k][j].id # 0 => table'[k][j].id # s.id
    <3>1. UniqueIds'
      BY DEF Inv, UniqueOnceStored
    <3> QED
      BY <3>1 DEF UniqueIds
  <2> QED
    BY <2>2, <2>3, <2>4
<1>5. Entries(table') =
        [Entries(table) EXCEPT ![k] = {e \in @ : e.id # s.id} \cup {s}]
  <2>1. Entries(table')[k] = {e \in Entries(table)[k] : e.id # s.id} \cup {s}
    BY <1>4
  <2> QED
    BY <1>3, <2>1 DEF Entries
<1>6. ASSUME table[k][i].id # 0 PROVE Sizes(table') = Sizes(table)
  <2>1. UsedUpTo(table', k, n)
    BY <1>2, <1>6 DEF UsedUpTo
  <2>2. Sizes(table')[k] = n
    BY <1>2, <2>1, SizeIs
  <2> QED
    BY <1>3, <2>2 DEF Sizes
<1>7. ASSUME table[k][i].id = 0
      PROVE  n < Count[k] /\ Sizes(table') = [Sizes(table) EXCEPT ![k] = @ + 1]
  <2>1. \A j \in Slots(k) : table'[k][j].id # 0 <=> j < n \/ j = i
    BY <1>2 DEF UsedUpTo
  <2>2. n \in 0..Count[k] /\ ~(i < n)
    BY <1>2, <1>7 DEF UsedUpTo
  <2>3. n < Count[k] /\ n \in Slots(k) /\ i \in Nat
    BY <1>1, <2>2 DEF Slots
  <2>4. n = i
    <3>1. n < i => table'[k][n].id # 0
      BY <2>3 DEF Inv, NoHoles
    <3> QED
      BY <2>1, <2>2, <2>3, <3>1
  <2>5. UsedUpTo(table', k, n + 1)
    <3>1. n + 1 \in 0..Count[k]
      BY <1>1, <2>2, <2>3
    <3>2. \A j \in Slots(k) : j < n + 1 <=> j < n \/ j = i
      BY <1>1, <2>2, <2>4 DEF Slots
    <3> QED
      BY <2>1, <3>1, <3>2 DEF UsedUpTo
  <2>6. Sizes(table')[k] = n + 1
    BY <1>2, <2>5, SizeIs
  <2> QED
    BY <1>3, <2>3, <2>6 DEF Sizes
<1> QED
  BY <1>5, <1>6, <1>7

\* A whole call of do_add_cmd by tcpserv is one write of the map.
LEMMA AddIsWrite ==
  ASSUME Inv, Inv', phase # "fresh", NEW c \in PcCmds,
         table' = do_add_cmd(table, c), added' = c, phase' = phase
  PROVE  Map!Next
<1> USE MappedTables, SameProtocol
<1>1. c \in Cmd /\ c \in PcCmds \cup DspCmds
  BY CmdsAssumption
<1>2. CASE table' = table /\ AddsNowhere(table, c)
  <2>1. ASSUME Storable(c) PROVE ~Map!Known(c) /\ ~Map!Room(c)
    <3>1. CmdKey(c) \in TableKeys /\ Count[CmdKey(c)] \in Nat
      BY <1>1, <2>1, StorableId, CountAssumption
    <3>2. UsedUpTo(table, CmdKey(c), Sizes(table)[CmdKey(c)])
      BY <3>1, CountedTables
    <3>3. ~Map!Known(c)
      BY <1>2, <2>1, <3>1, <3>2, EntriesAre DEF Map!Known, AddsNowhere
    <3>4. ~(Sizes(table)[CmdKey(c)] < Count[CmdKey(c)])
      BY <1>2, <2>1, <3>1, <3>2 DEF UsedUpTo, AddsNowhere, Slots
    <3> QED
      BY <3>3, <3>4 DEF Map!Room
  <2>2. Map!Drop(c)
    BY <1>2, <2>1 DEF Map!Drop
  <2> QED
    BY <1>1, <2>2 DEF Map!Next
<1>3. ASSUME NEW k \in TableKeys, NEW i \in Slots(k), AddsAt(table, table', c, k, i)
      PROVE  Map!Next
  <2>1. /\ k = CmdKey(c) /\ Storable(c) /\ CmdId(c) \in Nat \ {0}
        /\ table'[k][i] = Map!Entry(c) /\ table'[k][i].id = CmdId(c)
    BY <1>1, <1>3, RoundTrip DEF AddsAt
  <2>2. /\ Entries(table') = [Entries(table) EXCEPT ![k] =
                                {e \in @ : e.id # CmdId(c)} \cup {Map!Entry(c)}]
        /\ table[k][i].id # 0 => Sizes(table') = Sizes(table)
        /\ table[k][i].id = 0 =>
             /\ Sizes(table)[k] < Count[k]
             /\ Sizes(table') = [Sizes(table) EXCEPT ![k] = @ + 1]
    BY <1>3, <2>1, EntriesAfterWrite DEF AddsAt
  <2>3. UsedUpTo(table, k, Sizes(table)[k])
    BY CountedTables
  <2>4. Map!Known(c) <=> table[k][i].id # 0
    <3>1. Map!Known(c) <=> \E j \in Slots(k) : table[k][j].id = CmdId(c)
      BY <2>1, <2>3, EntriesAre DEF Map!Known
    <3>2. \A j \in Slots(k) : j < i => table[k][j].id \notin {0, CmdId(c)}
      BY <1>3 DEF AddsAt
    <3>3. table[k][i].id \in {0, CmdId(c)}
      BY <1>3 DEF AddsAt
    <3>4. \A j \in Slots(k) : i < j /\ table[k][j].id # 0 => table[k][i].id # 0
      BY DEF Inv, NoHoles
    <3> QED
      BY <2>1, <3>1, <3>2, <3>3, <3>4, SlotsNat
  <2>5. CASE table[k][i].id # 0
    <3>1. Map!Replace(c)
      BY <2>1, <2>2, <2>4, <2>5 DEF Map!Replace
    <3> QED
      BY <1>1, <3>1 DEF Map!Next
  <2>6. CASE table[k][i].id = 0
    <3>1. {e \in Entries(table)[k] : e.id # CmdId(c)} = Entries(table)[k]
      BY <2>1, <2>4, <2>6 DEF Map!Known
    <3>2. Entries(table') = [Entries(table) EXCEPT ![k] = @ \cup {Map!Entry(c)}]
      BY <2>2, <3>1
    <3>3. Map!Insert(c)
      BY <2>1, <2>2, <2>4, <2>6, <3>2 DEF Map!Insert, Map!Room
    <3> QED
      BY <1>1, <3>3 DEF Map!Next
  <2> QED
    BY <2>5, <2>6
<1> QED
  BY <1>1, <1>2, <1>3, AddEffect DEF Inv, TypeOK

\* On a device that knows its volume the upload's last step is its write.
LEMMA DataIsWrite ==
  ASSUME Inv, Inv', phase # "fresh", DspData
  PROVE  Map!Next
<1> USE MappedTables, SameProtocol
<1> DEFINE c == adder.cmd
           k == CmdKey(adder.cmd)
           i == adder.i
<1>1. /\ c \in DspCmds /\ c \in Cmd /\ Storable(c) /\ CmdId(c) \in Nat \ {0}
      /\ k \in TableKeys /\ i \in Slots(k) /\ table[k][i].id = CmdId(c)
  BY AdderFields DEF Inv, TypeOK, AdderFound, DspData
<1>2. table'[k][i] = Map!Entry(c)
  <2>1. table'[k][i] = [table[k][i] EXCEPT !.data = Stored(c).data] /\ table[k][i] \in Slot
    BY <1>1 DEF Inv, TypeOK, Tables, DspData
  <2> QED
    BY <1>1, <2>1 DEF Slot, Stored
<1>3. \A l \in TableKeys : \A j \in Slots(l) :
        l # k \/ j # i => table'[l][j] = table[l][j]
  BY <1>1 DEF Inv, TypeOK, Tables, DspData
<1>4. added' = c /\ phase' = phase
  BY DEF DspData
<1> HIDE DEF c, k, i
<1>5. table'[k][i].id = CmdId(c)
  BY <1>2
<1>6. /\ Entries(table') = [Entries(table) EXCEPT ![k] =
                              {e \in @ : e.id # CmdId(c)} \cup {Map!Entry(c)}]
      /\ Sizes(table') = Sizes(table)
  BY <1>1, <1>2, <1>3, <1>4, <1>5, EntriesAfterWrite
<1>7. Map!Known(c)
  <2>1. k = CmdKey(c)
    BY DEF k, c
  <2> QED
    BY <1>1, <2>1, CountedTables, EntriesAre DEF Map!Known
<1>8. Map!Replace(c)
  BY <1>1, <1>4, <1>6, <1>7 DEF Map!Replace, k, c
<1> QED
  BY <1>1, <1>8 DEF Map!Next

\* Every step of the threads is a step of the map or changes nothing in it.
LEMMA MapStep ==
  ASSUME Inv, Inv', [Next]_vars
  PROVE  [Map!Next]_(Map!vars)
<1> USE MappedTables, SameProtocol
<1>1. CASE phase' = "fresh"
  BY <1>1 DEF Map!Next, Map!Forsake
<1>2. CASE phase' # "fresh"
  <2>0. phase # "fresh"
    BY <1>2 DEF Next, vars, Restore, PcAdd, BootDone, DspBegin, DspScan, DspAppend, DspData
  <2>1. ASSUME NEW c \in PcCmds, Restore(c) \/ PcAdd(c) PROVE Map!Next
    BY <2>0, <2>1, AddIsWrite DEF Restore, PcAdd
  <2>2. CASE BootDone \/ (\E c \in DspCmds : DspBegin(c)) \/ UNCHANGED vars
    <3>1. UNCHANGED <<table, added>> /\ (phase # "fresh")' = (phase # "fresh")
      BY <1>2, <2>0, <2>2 DEF BootDone, DspBegin, vars
    <3> QED
      BY <3>1 DEF Map!vars
  <2>3. CASE DspScan
    <3>1. phase = "known" /\ UNCHANGED <<table, phase>>
      BY <2>0, <2>3 DEF DspScan, Inv, TypeOK, BootIdle, Idle
    <3>2. /\ adder.pc = "scan" /\ adder.cmd \in DspCmds
          /\ CmdKey(adder.cmd) \in TableKeys /\ Count[CmdKey(adder.cmd)] \in Nat
      BY <2>3, AdderFields DEF DspScan, Inv, TypeOK
    <3>3. PICK j \in Slots(CmdKey(adder.cmd)) :
            table[CmdKey(adder.cmd)][j].id = CmdId(adder.cmd)
      BY <3>1, <3>2 DEF Inv, KnownHeld, Holds
    <3>4. ~(j < adder.i)
      BY <3>1, <3>2, <3>3, SlotsNat DEF Inv, AdderPassed
    <3>5. adder.i # Count[CmdKey(adder.cmd)]
      BY <3>2, <3>3, <3>4 DEF Slots
    <3>6. added' = added
      BY <2>3, <3>5 DEF DspScan
    <3> QED
      BY <3>1, <3>6 DEF Map!vars
  <2>4. CASE DspAppend
    BY <2>0, <2>4 DEF Inv, TypeOK, BootIdle, AdderFound, DspAppend, Idle
  <2>5. CASE DspData
    BY <2>0, <2>5, DataIsWrite
  <2> QED
    BY <2>1, <2>2, <2>3, <2>4, <2>5 DEF Next
<1> QED
  BY <1>1, <1>2

\* Empty tables are an empty map.
LEMMA MapInit == Init => Map!Init
<1> SUFFICES ASSUME Init PROVE Map!Init
  OBVIOUS
<1>1. \A k \in TableKeys : Sizes(table)[k] = 0 /\ Entries(table)[k] = {}
  <2> TAKE k \in TableKeys
  <2>1. Count[k] \in Nat /\ \A j \in Slots(k) : table[k][j].id = 0
    BY CountAssumption DEF Init, EmptySlot
  <2>2. UsedUpTo(table, k, Sizes(table)[k])
    BY <2>1, SizeFacts
  <2>3. UsedUpTo(table, k, 0)
    BY <2>1 DEF UsedUpTo, Slots
  <2> QED
    BY <2>1, <2>2, <2>3, SizeIs, EntriesAre
<1>2. Entries(table) = [k \in TableKeys |-> {}] /\ Sizes(table) = [k \in TableKeys |-> 0]
  BY <1>1 DEF Entries, Sizes
<1> QED
  BY <1>2, MappedTables, SameProtocol DEF Init, Map!Init

\* do_add_cmd_msg without a lock: however tcpserv preempts SPI_DSP inside it,
\* each call is one atomic write of a bounded map from identifiers to words,
\* on every device whose flash held a volume.
THEOREM Refinement == Spec => ImplementsMap
<1>1. Inv /\ Inv' /\ [Next]_vars => [Map!Next]_(Map!vars)
  BY MapStep
<1> QED
  BY MapInit, SpecInv, <1>1, PTL DEF Spec, ImplementsMap, Map!Spec

(***************************************************************************)
(* Saving and reloading                                                    *)
(***************************************************************************)
\* A free slot is a zeroed one: the word of a slot is written after its
\* identifier, and neither is ever taken back.
FreeEmpty ==
  \A k \in TableKeys : \A i \in Slots(k) : table[k][i].id = 0 => table[k][i] = EmptySlot

\* Every step keeps the free slots zeroed.
LEMMA FreeStaysEmpty == Inv /\ FreeEmpty /\ [Next]_vars => FreeEmpty'
<1> SUFFICES ASSUME Inv, FreeEmpty, [Next]_vars PROVE FreeEmpty'
  OBVIOUS
<1>1. ASSUME NEW c \in PcCmds, Restore(c) \/ PcAdd(c) PROVE FreeEmpty'
  <2>1. table' = do_add_cmd(table, c)
    BY <1>1 DEF Restore, PcAdd
  <2>2. \/ table' = table
        \/ \E k \in TableKeys : \E i \in Slots(k) : AddsAt(table, table', c, k, i)
    BY <2>1, CmdsAssumption, AddEffect DEF Inv, TypeOK
  <2> QED
    BY <2>2 DEF AddsAt, FreeEmpty
<1>2. CASE BootDone \/ DspScan \/ (\E c \in DspCmds : DspBegin(c)) \/ UNCHANGED vars
  BY <1>2 DEF BootDone, DspScan, DspBegin, FreeEmpty, vars
<1>3. CASE DspAppend
  <2>1. PICK k \in TableKeys : \E i \in Slots(k) : k = CmdKey(adder.cmd) /\ i = adder.i
    BY <1>3, AdderFields DEF Inv, TypeOK, DspAppend
  <2>0. PICK i \in Slots(k) : k = CmdKey(adder.cmd) /\ i = adder.i
    BY <2>1
  <2>2. CmdId(adder.cmd) \in Nat \ {0}
    BY <1>3, AdderFields DEF Inv, TypeOK, DspAppend
  <2>3. table' = [table EXCEPT ![k][i].id = CmdId(adder.cmd)]
    BY <1>3, <2>0 DEF DspAppend
  <2>4. table'[k][i].id = CmdId(adder.cmd)
    BY <2>1, <2>3 DEF Inv, TypeOK, Tables, Slot
  <2>5. \A l \in TableKeys : \A j \in Slots(l) : l # k \/ j # i => table'[l][j] = table[l][j]
    BY <2>1, <2>3 DEF Inv, TypeOK, Tables
  <2> QED
    BY <2>2, <2>4, <2>5 DEF FreeEmpty
<1>4. CASE DspData
  <2>1. PICK k \in TableKeys : \E i \in Slots(k) : k = CmdKey(adder.cmd) /\ i = adder.i
    BY <1>4, AdderFields DEF Inv, TypeOK, DspData
  <2>0. PICK i \in Slots(k) : k = CmdKey(adder.cmd) /\ i = adder.i
    BY <2>1
  <2>2. CmdId(adder.cmd) \in Nat \ {0}
    BY <1>4, AdderFields DEF Inv, TypeOK, DspData
  <2>3. table[k][i].id = CmdId(adder.cmd)
    BY <1>4, <2>0 DEF DspData, Inv, AdderFound
  <2>4. table' = [table EXCEPT ![k][i].data = Stored(adder.cmd).data]
    BY <1>4, <2>0 DEF DspData
  <2>5. table'[k][i].id = table[k][i].id
    BY <2>1, <2>4 DEF Inv, TypeOK, Tables, Slot
  <2>6. \A l \in TableKeys : \A j \in Slots(l) : l # k \/ j # i => table'[l][j] = table[l][j]
    BY <2>1, <2>4 DEF Inv, TypeOK, Tables
  <2> QED
    BY <2>2, <2>3, <2>5, <2>6 DEF FreeEmpty
<1> QED
  BY <1>1, <1>2, <1>3, <1>4 DEF Next

\* A slot without an identifier has no word in every reachable state.
LEMMA FreeIsEmpty == Spec => []FreeEmpty
<1>1. Init => FreeEmpty
  BY DEF Init, FreeEmpty
<1> QED
  BY <1>1, SpecInv, FreeStaysEmpty, PTL DEF Spec

\* The tables while they are reloaded: the first n - 1 tables of the order and the
\* first i slots of the nth are in place, the rest is still empty.
Partly(tab, n, i) ==
  [k \in TableKeys |-> [j \in Slots(k) |->
     IF (\E m \in 1..(n - 1) : GroupOrder[m] = k) \/ (GroupOrder[n] = k /\ j < i)
     THEN tab[k][j] ELSE EmptySlot]]

\* Tables whose words are enough to find them again.
Findable(tab) ==
  /\ Tables(tab)
  /\ \A k \in TableKeys : \A i, j \in Slots(k) :
       i < j /\ tab[k][j].id # 0 => tab[k][i].id # 0
  /\ \A k \in TableKeys : \A i, j \in Slots(k) :
       tab[k][i].id = tab[k][j].id /\ tab[k][i].id # 0 => i = j
  /\ \A k \in TableKeys : \A i \in Slots(k) :
       IF tab[k][i].id = 0 THEN tab[k][i] = EmptySlot ELSE Good(tab, k, i)

\* The words that read_w25q16 skips are not commands of a table.
LEMMA NotStorable == ~Storable(ZeroWord) /\ ~Storable(AllOnesWord)
<1>1. prot_cmd_to_msg(ZeroWord).key = 0
  BY DEF prot_cmd_to_msg, ZeroWord
<1>2. prot_cmd_to_msg(AllOnesWord).key = 15 /\ prot_cmd_to_msg(AllOnesWord).type = 31
  BY DEF prot_cmd_to_msg, AllOnesWord
<1>3. get_cmd_index(15, 31) = 3
  BY DEF get_cmd_index, CMD_GROUP_GENERAL, CMD_GROUP_INPUTS, CMD_GROUP_OUTPUT,
     CMD_GROUP_FERQ, CMD_DATA_INDEX_INVALID
<1>4. get_cmd_id(prot_cmd_to_msg(AllOnesWord)) = -1
  BY <1>2, <1>3 DEF get_cmd_id, CMD_DATA_INDEX_INVALID
<1> QED
  BY <1>1, <1>4 DEF Storable, KeyValid

\* Each group has one place in the order.
LEMMA Order ==
  /\ Len(GroupOrder) = 12
  /\ \A n \in 1..12 : GroupOrder[n] \in TableKeys
  /\ \A m, n \in 1..12 : GroupOrder[m] = GroupOrder[n] => m = n
  /\ \A k \in TableKeys : \E n \in 1..12 : GroupOrder[n] = k
<1>1. Len(GroupOrder) = 12
  BY DEF GroupOrder
<1>2. /\ GroupOrder[1] = 1 /\ GroupOrder[2] = 2 /\ GroupOrder[3] = 3 /\ GroupOrder[4] = 4
      /\ GroupOrder[5] = 5 /\ GroupOrder[6] = 6 /\ GroupOrder[7] = 7 /\ GroupOrder[8] = 8
      /\ GroupOrder[9] = 11 /\ GroupOrder[10] = 13 /\ GroupOrder[11] = 14 /\ GroupOrder[12] = 15
  BY DEF GroupOrder
<1>3. TableKeys = (1..8) \cup {11, 13, 14, 15}
  BY DEF TableKeys, CMD_GROUP_GENERAL, CMD_GROUP_INPUTS, CMD_GROUP_OUTPUT, CMD_GROUP_OTHER,
     CMD_GROUP_SOUND, CMD_GROUP_FERQ
<1>4. \A n \in 1..12 : n \in {1, 2, 3, 4, 5, 6, 7, 8, 9, 10, 11, 12}
  OBVIOUS
<1>5. \A n \in 1..12 : GroupOrder[n] \in TableKeys
  BY <1>2, <1>3, <1>4
<1>6. \A m, n \in 1..12 : GroupOrder[m] = GroupOrder[n] => m = n
  BY <1>2, <1>4
<1>7. \A k \in TableKeys : \E n \in 1..12 : GroupOrder[n] = k
  <2> SUFFICES ASSUME NEW k \in TableKeys PROVE \E n \in 1..12 : GroupOrder[n] = k
    OBVIOUS
  <2>1. k \in {1, 2, 3, 4, 5, 6, 7, 8, 11, 13, 14, 15}
    BY <1>3
  <2> QED
    BY <1>2, <2>1
<1> QED
  BY <1>1, <1>5, <1>6, <1>7

\* The tables as arrays.
AllTables ==
  {x \in [TableKeys -> UNION {[Slots(k) -> Slot] : k \in TableKeys}] :
     \A k \in TableKeys : x[k] \in [Slots(k) -> Slot]}

Arrays == table \in AllTables

\* Arrays have a slot where a slot is looked for.
LEMMA ArraysAre ==
  ASSUME NEW tab \in AllTables
  PROVE  Tables(tab)
BY DEF AllTables, Tables

\* Tables are the same when their slots are.
LEMMA SameTables ==
  ASSUME NEW x \in AllTables, NEW y \in AllTables,
         \A k \in TableKeys : \A i \in Slots(k) : x[k][i] = y[k][i]
  PROVE  x = y
<1>1. \A k \in TableKeys : x[k] = y[k]
  <2> SUFFICES ASSUME NEW k \in TableKeys PROVE x[k] = y[k]
    OBVIOUS
  <2>1. x[k] \in [Slots(k) -> Slot] /\ y[k] \in [Slots(k) -> Slot]
    BY DEF AllTables
  <2> QED
    BY <2>1
<1>2. x = [k \in TableKeys |-> x[k]] /\ y = [k \in TableKeys |-> y[k]]
  BY DEF AllTables
<1> QED
  BY <1>1, <1>2

\* A function of group and slot is one of them.
LEMMA MakeTables ==
  ASSUME NEW x, x = [k \in TableKeys |-> x[k]],
         \A k \in TableKeys : x[k] \in [Slots(k) -> Slot]
  PROVE  x \in AllTables
BY DEF AllTables

\* Writing a slot leaves the arrays arrays.
LEMMA UpdateArrays ==
  ASSUME NEW tab \in AllTables, NEW k \in TableKeys, NEW i \in Slots(k), NEW s \in Slot
  PROVE  Update(tab, k, i, s) \in AllTables
<1>1. PICK x : x = Update(tab, k, i, s)
  OBVIOUS
<1>2. \A l \in TableKeys : tab[l] \in [Slots(l) -> Slot]
  BY DEF AllTables
<1>3. tab = [l \in TableKeys |-> tab[l]]
  BY DEF AllTables
<1>4. x = [l \in TableKeys |-> IF l = k THEN [tab[k] EXCEPT ![i] = s] ELSE tab[l]]
  BY <1>1, <1>3 DEF Update
<1>5. [tab[k] EXCEPT ![i] = s] \in [Slots(k) -> Slot]
  BY <1>2
<1>6. \A l \in TableKeys : x[l] \in [Slots(l) -> Slot]
  BY <1>2, <1>4, <1>5
<1>7. x = [l \in TableKeys |-> x[l]]
  BY <1>4
<1> QED
  BY <1>1, <1>6, <1>7, MakeTables

\* So does do_add_cmd, whatever the word.
LEMMA AddArrays ==
  ASSUME NEW tab \in AllTables, NEW c \in Cmd
  PROVE  do_add_cmd(tab, c) \in AllTables
<1>1. PICK k, i : k = CmdKey(c) /\ i = ScanStop(tab[k], Count[k], CmdId(c))
  OBVIOUS
<1>2. CASE Storable(c) /\ i < Count[k]
  <2>1. k \in TableKeys /\ Count[k] \in Nat
    BY <1>1, <1>2, StorableId, CountAssumption
  <2>2. i \in 0..Count[k]
    BY <1>1, <2>1, ScanStopFacts
  <2>3. i \in Slots(k)
    BY <1>2, <2>1, <2>2 DEF Slots
  <2>4. Stored(c) \in Slot
    BY <1>2, StoredCmd
  <2>5. do_add_cmd(tab, c) = Update(tab, k, i, Stored(c))
    BY <1>1, <1>2 DEF do_add_cmd, Update
  <2> QED
    BY <2>1, <2>3, <2>4, <2>5, UpdateArrays
<1>3. CASE ~(Storable(c) /\ i < Count[k])
  BY <1>1, <1>3 DEF do_add_cmd
<1> QED
  BY <1>2, <1>3

\* No step of either thread changes the shape of a table.
LEMMA ArraysKept == Inv /\ Arrays /\ [Next]_vars => Arrays'
<1> SUFFICES ASSUME Inv, table \in AllTables, [Next]_vars PROVE table' \in AllTables
  BY DEF Arrays
<1>1. ASSUME NEW c \in PcCmds, Restore(c) \/ PcAdd(c) PROVE table' \in AllTables
  <2>1. table' = do_add_cmd(table, c)
    BY <1>1 DEF Restore, PcAdd
  <2> QED
    BY <2>1, CmdsAssumption, AddArrays
<1>2. CASE BootDone \/ DspScan \/ (\E c \in DspCmds : DspBegin(c)) \/ UNCHANGED vars
  BY <1>2 DEF BootDone, DspScan, DspBegin, vars
<1>3. CASE DspAppend \/ DspData
  <2>1. PICK k \in TableKeys : \E i \in Slots(k) : k = CmdKey(adder.cmd) /\ i = adder.i
    BY <1>3, AdderFields DEF Inv, TypeOK, DspAppend, DspData
  <2>2. PICK i \in Slots(k) : k = CmdKey(adder.cmd) /\ i = adder.i
    BY <2>1
  <2>3. table[k][i] \in Slot
    BY DEF AllTables
  <2>4. /\ adder.cmd \in Cmd /\ Storable(adder.cmd)
    BY <1>3, AdderFields DEF Inv, TypeOK, DspAppend, DspData
  <2>5. CASE DspAppend
    <3>1. table' = Update(table, k, i, [table[k][i] EXCEPT !.id = CmdId(adder.cmd)])
      BY <2>2, <2>5 DEF DspAppend, Update
    <3>2. [table[k][i] EXCEPT !.id = CmdId(adder.cmd)] \in Slot
      BY <2>3, <2>4, StorableId DEF Slot
    <3> QED
      BY <3>1, <3>2, UpdateArrays
  <2>6. CASE DspData
    <3>1. table' = Update(table, k, i, [table[k][i] EXCEPT !.data = Stored(adder.cmd).data])
      BY <2>2, <2>6 DEF DspData, Update
    <3>2. [table[k][i] EXCEPT !.data = Stored(adder.cmd).data] \in Slot
      BY <2>3, <2>4, StoredCmd DEF Slot
    <3> QED
      BY <3>1, <3>2, UpdateArrays
  <2> QED
    BY <1>3, <2>5, <2>6
<1> QED
  BY <1>1, <1>2, <1>3 DEF Next

\* The empty tables.
LEMMA NoTables == EmptyTables \in AllTables
<1>1. EmptySlot \in Slot
  BY DEF EmptySlot, Slot, ZeroWord, Cmd, Byte
<1>2. PICK x : x = EmptyTables
  OBVIOUS
<1>3. x = [k \in TableKeys |-> [i \in Slots(k) |-> EmptySlot]]
  BY <1>2 DEF EmptyTables
<1>4. \A k \in TableKeys : x[k] \in [Slots(k) -> Slot]
  BY <1>1, <1>3
<1>5. x = [k \in TableKeys |-> x[k]]
  BY <1>3
<1> QED
  BY <1>2, <1>4, <1>5, MakeTables

\* The tables are arrays in every reachable state.
LEMMA ArraysAlways == Spec => []Arrays
<1>1. Init => Arrays
  BY NoTables DEF Init, EmptyTables, Arrays
<1> QED
  BY <1>1, SpecInv, ArraysKept, PTL DEF Spec

\* Partly filled tables.
LEMMA PartlyTables ==
  ASSUME NEW tab \in AllTables, NEW n, NEW i
  PROVE  /\ Partly(tab, n, i) \in AllTables
         /\ \A k \in TableKeys : \A j \in Slots(k) :
              Partly(tab, n, i)[k][j] =
                IF (\E m \in 1..(n - 1) : GroupOrder[m] = k) \/ (GroupOrder[n] = k /\ j < i)
                THEN tab[k][j] ELSE EmptySlot
<1> DEFINE T(k, j) == (\E m \in 1..(n - 1) : GroupOrder[m] = k) \/ (GroupOrder[n] = k /\ j < i)
<1>1. EmptySlot \in Slot
  BY DEF EmptySlot, Slot, ZeroWord, Cmd, Byte
<1>2. \A k \in TableKeys : \A j \in Slots(k) : tab[k][j] \in Slot
  BY DEF AllTables
<1>3. PICK x : x = Partly(tab, n, i)
  OBVIOUS
<1>4. x = [k \in TableKeys |-> [j \in Slots(k) |-> IF T(k, j) THEN tab[k][j] ELSE EmptySlot]]
  BY <1>3 DEF Partly
<1> HIDE DEF T
<1>5. \A k \in TableKeys : x[k] \in [Slots(k) -> Slot]
  BY <1>1, <1>2, <1>4
<1>6. x = [k \in TableKeys |-> x[k]]
  BY <1>4
<1>7. \A k \in TableKeys : \A j \in Slots(k) : x[k][j] = IF T(k, j) THEN tab[k][j] ELSE EmptySlot
  BY <1>4
<1>8. x \in AllTables
  BY <1>5, <1>6, MakeTables
<1> QED
  BY <1>3, <1>7, <1>8 DEF T

\* Adding the word of slot i of a table whose slots before i are in place puts
\* it in place too.
LEMMA WordAdded ==
  ASSUME NEW tab \in AllTables, Findable(tab), NEW n \in 1..12,
         NEW k \in TableKeys, k = GroupOrder[n], NEW i \in Slots(k)
  PROVE  ReloadWord(Partly(tab, n, i), tab[k][i].data) = Partly(tab, n, i + 1)
<1> DEFINE Before(l) == \E m \in 1..(n - 1) : GroupOrder[m] = l
<1>1. PICK p \in AllTables : p = Partly(tab, n, i)
  BY PartlyTables
<1>2. PICK q \in AllTables : q = Partly(tab, n, i + 1)
  BY PartlyTables
<1>3. \A l \in TableKeys : \A j \in Slots(l) :
        /\ p[l][j] = IF Before(l) \/ (k = l /\ j < i) THEN tab[l][j] ELSE EmptySlot
        /\ q[l][j] = IF Before(l) \/ (k = l /\ j < i + 1) THEN tab[l][j] ELSE EmptySlot
  BY <1>1, <1>2, PartlyTables
<1>4. ~Before(k)
  BY Order
<1>5. \A l \in TableKeys : \A j \in Slots(l) : l # k \/ j # i => q[l][j] = p[l][j]
  <2>1. i \in Nat /\ \A j \in Slots(k) : j \in Nat
    BY SlotsNat
  <2>2. \A j \in Slots(k) : j # i => (j < i <=> j < i + 1)
    BY <2>1
  <2> HIDE DEF Before
  <2> QED
    BY <1>3, <2>2
<1>6. p[k][i] = EmptySlot /\ q[k][i] = tab[k][i]
  <2>1. i \in Nat
    BY SlotsNat
  <2>2. ~(i < i) /\ i < i + 1
    BY <2>1
  <2> HIDE DEF Before
  <2> QED
    BY <1>3, <1>4, <2>2
<1>7. \A j \in Slots(k) : j < i => p[k][j] = tab[k][j]
  <2> HIDE DEF Before
  <2> QED
    BY <1>3
<1> HIDE DEF Before
<1>8. CASE tab[k][i].id = 0
  <2>1. tab[k][i] = EmptySlot
    BY <1>8 DEF Findable
  <2>2. ReloadWord(p, tab[k][i].data) = p
    BY <2>1 DEF ReloadWord, EmptySlot
  <2>3. p = q
    <3>1. \A l \in TableKeys : \A j \in Slots(l) : p[l][j] = q[l][j]
      BY <1>5, <1>6, <2>1
    <3> QED
      BY <3>1, SameTables
  <2> QED
    BY <1>1, <1>2, <2>2, <2>3
<1>9. CASE tab[k][i].id # 0
  <2>1. PICK c \in Cmd : c = tab[k][i].data
    BY DEF AllTables, Slot
  <2>2. Storable(c) /\ CmdKey(c) = k /\ CmdId(c) = tab[k][i].id
    BY <1>9, <2>1 DEF Findable, Good
  <2>3. c \notin {ZeroWord, AllOnesWord}
    BY <2>2, NotStorable
  <2>4. PICK r \in AllTables : r = do_add_cmd(p, c)
    BY AddArrays
  <2>5. ReloadWord(p, c) = r
    BY <2>3, <2>4 DEF ReloadWord
  <2>6. \A j \in Slots(k) : j < i => p[k][j].id \notin {0, CmdId(c)}
    <3> SUFFICES ASSUME NEW j \in Slots(k), j < i PROVE p[k][j].id \notin {0, CmdId(c)}
      OBVIOUS
    <3>1. i \in Nat /\ j \in Nat /\ j # i
      BY SlotsNat
    <3>2. tab[k][j].id # 0
      BY <1>9 DEF Findable
    <3>3. tab[k][j].id # tab[k][i].id
      BY <1>9, <3>1 DEF Findable
    <3> QED
      BY <1>7, <2>2, <3>2, <3>3
  <2>7. p[k][i].id = 0
    BY <1>6 DEF EmptySlot
  <2>8. \/ r = p /\ AddsNowhere(p, c)
        \/ \E l \in TableKeys : \E j \in Slots(l) : AddsAt(p, r, c, l, j)
    BY <2>4, ArraysAre, AddEffect
  <2>9. ~AddsNowhere(p, c)
    BY <2>2, <2>7 DEF AddsNowhere
  <2>10. PICK j \in Slots(k) : AddsAt(p, r, c, k, j)
    <3>1. PICK l \in TableKeys : \E j \in Slots(l) : AddsAt(p, r, c, l, j)
      BY <2>8, <2>9
    <3>2. l = k
      BY <2>2, <3>1 DEF AddsAt
    <3> QED
      BY <3>1, <3>2
  <2>11. j = i
    <3>1. i \in Nat /\ j \in Nat
      BY SlotsNat
    <3>2. ~(j < i)
      BY <2>6, <2>10 DEF AddsAt
    <3>3. ~(i < j)
      BY <2>7, <2>10 DEF AddsAt
    <3> QED
      BY <3>1, <3>2, <3>3
  <2>12. r[k][i] = tab[k][i]
    <3>1. r[k][i] = [id |-> CmdId(c), data |-> c]
      BY <2>10, <2>11 DEF AddsAt
    <3>2. tab[k][i] \in Slot
      BY DEF AllTables
    <3> QED
      BY <2>1, <2>2, <3>1, <3>2 DEF Slot
  <2>13. \A l \in TableKeys : \A m \in Slots(l) : l # k \/ m # i => r[l][m] = p[l][m]
    BY <2>10, <2>11 DEF AddsAt
  <2>14. \A l \in TableKeys : \A m \in Slots(l) : r[l][m] = q[l][m]
    BY <1>5, <1>6, <2>12, <2>13
  <2>15. r = q
    BY <2>14, SameTables
  <2> QED
    BY <1>1, <1>2, <2>1, <2>5, <2>15
<1> QED
  BY <1>8, <1>9

\* The words of one table are commands.
LEMMA TableWordsAre ==
  ASSUME NEW tab \in AllTables, NEW k \in TableKeys
  PROVE  /\ Count[k] \in Nat
         /\ TableWords(tab, k) \in Seq(Cmd) /\ Len(TableWords(tab, k)) = Count[k]
         /\ \A i \in Slots(k) : TableWords(tab, k)[i + 1] = tab[k][i].data
<1>1. PICK n \in Nat : n = Count[k]
  BY CountAssumption
<1>2. PICK w : w = TableWords(tab, k)
  OBVIOUS
<1>3. w = [i \in 1..n |-> tab[k][i - 1].data]
  BY <1>1, <1>2 DEF TableWords
<1>4. \A i \in 1..n : i - 1 \in Slots(k)
  BY <1>1 DEF Slots
<1>5. \A i \in Slots(k) : tab[k][i].data \in Cmd
  BY DEF AllTables, Slot
<1>6. w \in [1..n -> Cmd]
  BY <1>3, <1>4, <1>5
<1>7. w \in Seq(Cmd) /\ Len(w) = n
  BY <1>6
<1>8. \A i \in Slots(k) : w[i + 1] = tab[k][i].data
  <2> SUFFICES ASSUME NEW i \in Slots(k) PROVE w[i + 1] = tab[k][i].data
    OBVIOUS
  <2>1. i + 1 \in 1..n /\ (i + 1) - 1 = i
    BY <1>1 DEF Slots
  <2> QED
    BY <1>3, <2>1
<1> QED
  BY <1>1, <1>2, <1>7, <1>8

\* The data area after n tables: the area before with the words of the nth.
LEMMA DataAreaIs ==
  ASSUME NEW tab \in AllTables, NEW a, a = DataArea(tab)
  PROVE  /\ a[0] = <<>>
         /\ \A n \in 1..12 : a[n] = a[n - 1] \o TableWords(tab, GroupOrder[n])
         /\ \A n \in 0..12 : a[n] \in Seq(Cmd)
<1> DEFINE X == Seq(Cmd)
           G == [n \in 1..12 |-> [x \in X |-> x \o TableWords(tab, GroupOrder[n])]]
           F(f) == [n \in 0..12 |->
                      IF n = 0 THEN <<>> ELSE f[n - 1] \o TableWords(tab, GroupOrder[n])]
           s == CHOOSE f : f = F(f)
<1>1. 12 \in Nat /\ <<>> \in X
  OBVIOUS
<1>2. \A n \in 1..12 : TableWords(tab, GroupOrder[n]) \in X
  BY Order, TableWordsAre
<1>3. \A n \in 1..12 : \A x \in X : x \o TableWords(tab, GroupOrder[n]) \in X
  BY <1>2, ConcatProperties
<1>4. G \in [1..12 -> [X -> X]]
  BY <1>3
<1>5. \A n \in 1..12 : \A x \in X : G[n][x] = x \o TableWords(tab, GroupOrder[n])
  OBVIOUS
<1>6. a = s
  BY Order DEF DataArea
<1> HIDE DEF G, X
<1>7. \E f : f = F(f)
  <2>1. Solvable(12, X, <<>>, G)
    BY <1>1, <1>4, Recursion
  <2>2. PICK f \in [0..12 -> X] :
          \A n \in 0..12 : f[n] = IF n = 0 THEN <<>> ELSE G[n][f[n - 1]]
    BY <2>1 DEF Solvable
  <2>3. \A n \in 0..12 : f[n] = IF n = 0 THEN <<>> ELSE f[n - 1] \o TableWords(tab, GroupOrder[n])
    <3> SUFFICES ASSUME NEW n \in 0..12, n # 0
                 PROVE f[n] = f[n - 1] \o TableWords(tab, GroupOrder[n])
      BY <2>2
    <3>1. n \in 1..12 /\ n - 1 \in 0..12
      OBVIOUS
    <3>2. f[n - 1] \in X
      BY <3>1
    <3> QED
      BY <1>5, <2>2, <3>1, <3>2
  <2>4. f = F(f)
    BY <2>3
  <2> QED
    BY <2>4
<1>8. s = F(s)
  BY <1>7
<1> HIDE DEF s
<1>9. s[0] = <<>> /\ \A n \in 1..12 : s[n] = s[n - 1] \o TableWords(tab, GroupOrder[n])
  <2> DEFINE B(n) == IF n = 0 THEN <<>> ELSE s[n - 1] \o TableWords(tab, GroupOrder[n])
  <2>1. s = [n \in 0..12 |-> B(n)]
    BY <1>8
  <2>2. \A n \in 0..12 : s[n] = B(n)
    <3> HIDE DEF B
    <3> QED
      BY <2>1
  <2>3. 0 \in 0..12 /\ \A n \in 1..12 : n \in 0..12 /\ n # 0
    OBVIOUS
  <2> QED
    BY <2>2, <2>3
<1> DEFINE S == {n \in 0..12 : s[n] \in X}
<1>10. 0 \in S
  BY <1>1, <1>9
<1>11. ASSUME NEW n \in 1..12, n - 1 \in S PROVE n \in S
  <2>1. n \in 0..12 /\ s[n - 1] \in X
    BY <1>11
  <2>2. s[n] \in X
    BY <1>3, <1>9, <2>1
  <2> QED
    BY <2>1, <2>2
<1> HIDE DEF S
<1>12. \A n \in 0..12 : n \in S
  BY <1>10, <1>11, Upwards
<1>13. \A n \in 0..12 : s[n] \in X
  BY <1>12 DEF S
<1> QED
  BY <1>6, <1>9, <1>13 DEF X

\* Every slot of every table has its word in the saved area, behind those of
\* the tables before.
LEMMA WordAt ==
  ASSUME NEW tab \in AllTables, NEW a, a = DataArea(tab)
  PROVE  /\ \A n \in 0..12 : a[n] \in Seq(Cmd)
         /\ a[0] = <<>>
         /\ \A n \in 1..12 : Len(a[n]) = Len(a[n - 1]) + Count[GroupOrder[n]]
         /\ \A n \in 1..12 : \A i \in Slots(GroupOrder[n]) :
              /\ Len(a[n - 1]) + i + 1 \in 1..Len(a[12])
              /\ a[12][Len(a[n - 1]) + i + 1] = tab[GroupOrder[n]][i].data
<1>1. /\ a[0] = <<>>
      /\ \A n \in 1..12 : a[n] = a[n - 1] \o TableWords(tab, GroupOrder[n])
      /\ \A n \in 0..12 : a[n] \in Seq(Cmd)
  BY DataAreaIs
<1> DEFINE P(m, n) ==
      \A i \in Slots(GroupOrder[n]) :
         /\ Len(a[n - 1]) + i + 1 \in 1..Len(a[m])
         /\ a[m][Len(a[n - 1]) + i + 1] = tab[GroupOrder[n]][i].data
           S == {m \in 0..12 : \A n \in 1..m : P(m, n)}
<1>2. ASSUME NEW m \in 1..12
      PROVE  /\ Len(a[m]) = Len(a[m - 1]) + Count[GroupOrder[m]]
             /\ P(m, m)
             /\ \A j \in 1..Len(a[m - 1]) : j \in 1..Len(a[m]) /\ a[m][j] = a[m - 1][j]
  <2>1. m \in 0..12 /\ m - 1 \in 0..12
    OBVIOUS
  <2>2. PICK k \in TableKeys : k = GroupOrder[m]
    BY Order
  <2>3. PICK w \in Seq(Cmd) : w = TableWords(tab, k)
    BY TableWordsAre
  <2>4. PICK x \in Seq(Cmd) : x = a[m - 1]
    BY <1>1, <2>1
  <2>5. PICK y \in Seq(Cmd) : y = a[m]
    BY <1>1, <2>1
  <2>6. y = x \o w
    BY <1>1, <2>2, <2>3, <2>4, <2>5
  <2>7. /\ Count[k] \in Nat /\ Len(w) = Count[k]
        /\ \A i \in Slots(k) : w[i + 1] = tab[k][i].data
    BY <2>3, TableWordsAre
  <2>8. Len(y) = Len(x) + Count[k]
    BY <2>6, <2>7, ConcatProperties
  <2>9. \A j \in 1..Len(x) : j \in 1..Len(y) /\ y[j] = x[j]
    BY <2>6, <2>7, <2>8
  <2>10. \A i \in Slots(k) : Len(x) + i + 1 \in 1..Len(y) /\ y[Len(x) + i + 1] = tab[k][i].data
    <3> SUFFICES ASSUME NEW i \in Slots(k)
                 PROVE  Len(x) + i + 1 \in 1..Len(y) /\ y[Len(x) + i + 1] = tab[k][i].data
      OBVIOUS
    <3>1. i + 1 \in 1..Len(w) /\ i \in Nat
      BY <2>7 DEF Slots
    <3>2. PICK j : j = Len(x) + i + 1
      OBVIOUS
    <3>3. j \in 1..Len(y) /\ j > Len(x) /\ j - Len(x) = i + 1
      BY <2>7, <2>8, <3>1, <3>2
    <3>4. y[j] = w[j - Len(x)]
      BY <2>6, <2>7, <2>8, <3>3
    <3> QED
      BY <2>7, <3>2, <3>3, <3>4
  <2> QED
    BY <2>2, <2>4, <2>5, <2>8, <2>9, <2>10
<1>3. 0 \in S
  OBVIOUS
<1>4. ASSUME NEW m \in 1..12, m - 1 \in S PROVE m \in S
  <2>1. m \in 0..12
    OBVIOUS
  <2>2. ASSUME NEW n \in 1..m PROVE P(m, n)
    <3>1. CASE n = m
      BY <1>2, <3>1
    <3>2. CASE n # m
      <4>1. n \in 1..(m - 1)
        BY <3>2
      <4>2. P(m - 1, n)
        BY <1>4, <4>1
      <4>3. \A j \in 1..Len(a[m - 1]) : j \in 1..Len(a[m]) /\ a[m][j] = a[m - 1][j]
        BY <1>2
      <4> QED
        BY <4>2, <4>3
    <3> QED
      BY <3>1, <3>2
  <2> HIDE DEF P
  <2> QED
    BY <2>1, <2>2
<1> HIDE DEF S
<1>5. \A m \in 0..12 : m \in S
  BY <1>3, <1>4, Upwards
<1>6. \A n \in 1..12 : P(12, n)
  BY <1>5 DEF S
<1> QED
  BY <1>1, <1>2, <1>6

\* read_w25q16 adds the words one after the other.
LEMMA ReloadingIs ==
  ASSUME NEW words \in Seq(Cmd), NEW t, t = Reloading(words)
  PROVE  /\ t[0] = EmptyTables
         /\ \A i \in 1..Len(words) : t[i] = ReloadWord(t[i - 1], words[i])
<1> DEFINE L == Len(words)
           G == [i \in 1..L |-> [x \in AllTables |-> ReloadWord(x, words[i])]]
           F(f) == [i \in 0..L |->
                      IF i = 0 THEN EmptyTables ELSE ReloadWord(f[i - 1], words[i])]
           s == CHOOSE f : f = F(f)
<1>1. L \in Nat /\ EmptyTables \in AllTables
  BY NoTables
<1>2. \A i \in 1..L : words[i] \in Cmd
  OBVIOUS
<1>3. \A i \in 1..L : \A x \in AllTables : ReloadWord(x, words[i]) \in AllTables
  BY <1>2, AddArrays DEF ReloadWord
<1>4. G \in [1..L -> [AllTables -> AllTables]]
  BY <1>3
<1>5. \A i \in 1..L : \A x \in AllTables : G[i][x] = ReloadWord(x, words[i])
  OBVIOUS
<1>6. t = s
  BY DEF Reloading
<1> HIDE DEF G, L
<1>7. \E f : f = F(f)
  <2>1. Solvable(L, AllTables, EmptyTables, G)
    BY <1>1, <1>4, Recursion
  <2>2. PICK f \in [0..L -> AllTables] :
          \A i \in 0..L : f[i] = IF i = 0 THEN EmptyTables ELSE G[i][f[i - 1]]
    BY <2>1 DEF Solvable
  <2>3. \A i \in 0..L : f[i] = IF i = 0 THEN EmptyTables ELSE ReloadWord(f[i - 1], words[i])
    <3> SUFFICES ASSUME NEW i \in 0..L, i # 0
                 PROVE f[i] = ReloadWord(f[i - 1], words[i])
      BY <2>2
    <3>1. i \in 1..L /\ i - 1 \in 0..L
      BY <1>1
    <3> QED
      BY <1>5, <2>2, <3>1
  <2>4. f = F(f)
    BY <2>3
  <2> QED
    BY <2>4
<1>8. s = F(s)
  BY <1>7
<1> HIDE DEF s
<1>9. s[0] = EmptyTables /\ \A i \in 1..L : s[i] = ReloadWord(s[i - 1], words[i])
  BY <1>1, <1>8
<1> QED
  BY <1>6, <1>9 DEF L

\* Tables without holes, duplicates or foreign words are found again.
LEMMA Found ==
  ASSUME NEW tab \in AllTables, Findable(tab)
  PROVE  Reload(SavedWords(tab)) = tab
<1>1. PICK a : a = DataArea(tab)
  OBVIOUS
<1>2. /\ \A n \in 0..12 : a[n] \in Seq(Cmd)
      /\ a[0] = <<>>
      /\ \A n \in 1..12 : Len(a[n]) = Len(a[n - 1]) + Count[GroupOrder[n]]
      /\ \A n \in 1..12 : \A i \in Slots(GroupOrder[n]) :
           /\ Len(a[n - 1]) + i + 1 \in 1..Len(a[12])
           /\ a[12][Len(a[n - 1]) + i + 1] = tab[GroupOrder[n]][i].data
  BY <1>1, WordAt
<1>3. PICK words \in Seq(Cmd) : words = a[12]
  <2>1. 12 \in 0..12
    OBVIOUS
  <2>2. a[12] \in Seq(Cmd)
    BY <1>2, <2>1
  <2> QED
    BY <2>2
<1>4. SavedWords(tab) = words
  BY <1>1, <1>3, Order DEF SavedWords
<1>5. PICK t : t = Reloading(words)
  OBVIOUS
<1>6. /\ t[0] = EmptyTables
      /\ \A i \in 1..Len(words) : t[i] = ReloadWord(t[i - 1], words[i])
  BY <1>5, ReloadingIs
<1> DEFINE S == {n \in 0..12 : t[Len(a[n])] = Partly(tab, n + 1, 0)}
<1>7. 0 \in S
  <2>1. Len(a[0]) = 0
    BY <1>2
  <2>2. PICK p \in AllTables : p = Partly(tab, 1, 0)
    BY PartlyTables
  <2>3. \A k \in TableKeys : \A j \in Slots(k) : p[k][j] = EmptySlot
    <3> SUFFICES ASSUME NEW k \in TableKeys, NEW j \in Slots(k) PROVE p[k][j] = EmptySlot
      OBVIOUS
    <3>1. ~(\E m \in 1..(1 - 1) : GroupOrder[m] = k) /\ ~(j < 0)
      BY SlotsNat
    <3> QED
      BY <2>2, <3>1, PartlyTables
  <2>4. \A k \in TableKeys : \A j \in Slots(k) : EmptyTables[k][j] = EmptySlot
    BY DEF EmptyTables
  <2>5. p = EmptyTables
    BY <2>3, <2>4, NoTables, SameTables
  <2> QED
    BY <1>6, <2>1, <2>2, <2>5
<1>8. ASSUME NEW n \in 1..12, n - 1 \in S PROVE n \in S
  <2>1. PICK k \in TableKeys : k = GroupOrder[n]
    BY Order
  <2>2. PICK l \in Nat : l = Len(a[n - 1])
    <3>1. n - 1 \in 0..12
      OBVIOUS
    <3>2. a[n - 1] \in Seq(Cmd)
      BY <1>2, <3>1
    <3>3. Len(a[n - 1]) \in Nat
      BY <3>2
    <3> QED
      BY <3>3
  <2>3. PICK c \in Nat : c = Count[k]
    BY CountAssumption
  <2>4. t[l] = Partly(tab, n, 0)
    <3>1. (n - 1) + 1 = n
      OBVIOUS
    <3> QED
      BY <1>8, <2>2, <3>1
  <2> DEFINE U == {i \in 0..c : t[l + i] = Partly(tab, n, i)}
  <2>5. 0 \in U
    BY <2>4
  <2>6. ASSUME NEW i \in 1..c, i - 1 \in U PROVE i \in U
    <3>1. PICK j \in Slots(k) : j = i - 1
      BY <2>3 DEF Slots
    <3>2. j \in Nat /\ i = j + 1 /\ i \in 0..c
      BY <3>1
    <3>3. t[l + j] = Partly(tab, n, j)
      BY <2>6, <3>1
    <3>4. l + j + 1 \in 1..Len(words) /\ words[l + j + 1] = tab[k][j].data
      BY <1>2, <1>3, <2>1, <2>2
    <3>5. t[l + j + 1] = ReloadWord(t[l + j], words[l + j + 1])
      <4>1. (l + j + 1) - 1 = l + j
        BY <3>2
      <4> QED
        BY <1>6, <3>4, <4>1
    <3>6. t[l + j + 1] = Partly(tab, n, j + 1)
      BY <2>1, <3>3, <3>4, <3>5, WordAdded
    <3>7. l + j + 1 = l + i
      BY <3>2
    <3> QED
      BY <3>2, <3>6, <3>7
  <2> HIDE DEF U
  <2>7. \A i \in 0..c : i \in U
    BY <2>5, <2>6, Upwards
  <2>8. t[l + c] = Partly(tab, n, c)
    BY <2>7 DEF U
  <2>9. Len(a[n]) = l + c
    BY <1>2, <2>1, <2>2, <2>3
  <2>10. Partly(tab, n, c) = Partly(tab, n + 1, 0)
    <3>1. PICK p \in AllTables : p = Partly(tab, n, c)
      BY PartlyTables
    <3>2. PICK q \in AllTables : q = Partly(tab, n + 1, 0)
      BY PartlyTables
    <3>3. ASSUME NEW m \in TableKeys, NEW j \in Slots(m) PROVE p[m][j] = q[m][j]
      <4>1. j \in Nat /\ (m = k => j < c)
        BY <2>3, SlotsNat DEF Slots
      <4>2. p[m][j] = IF (\E i \in 1..(n - 1) : GroupOrder[i] = m) \/ (GroupOrder[n] = m /\ j < c)
                      THEN tab[m][j] ELSE EmptySlot
        BY <3>1, PartlyTables
      <4>3. q[m][j] = IF (\E i \in 1..((n + 1) - 1) : GroupOrder[i] = m) \/ (GroupOrder[n + 1] = m /\ j < 0)
                      THEN tab[m][j] ELSE EmptySlot
        BY <3>2, PartlyTables
      <4>4. ~(j < 0) /\ 1..((n + 1) - 1) = 1..(n - 1) \cup {n}
        BY <4>1
      <4>5. (\E i \in 1..((n + 1) - 1) : GroupOrder[i] = m)
              <=> (\E i \in 1..(n - 1) : GroupOrder[i] = m) \/ GroupOrder[n] = m
        BY <4>4
      <4> QED
        BY <2>1, <4>1, <4>2, <4>3, <4>4, <4>5
    <3> QED
      BY <3>1, <3>2, <3>3, SameTables
  <2> QED
    BY <2>8, <2>9, <2>10
<1> HIDE DEF S
<1>9. \A n \in 0..12 : n \in S
  BY <1>7, <1>8, Upwards
<1>10. t[Len(words)] = Partly(tab, 13, 0)
  <2>1. 12 \in S
    BY <1>9
  <2>2. t[Len(a[12])] = Partly(tab, 12 + 1, 0)
    BY <2>1 DEF S
  <2> QED
    BY <1>3, <2>2
<1>11. Partly(tab, 13, 0) = tab
  <2>1. PICK p \in AllTables : p = Partly(tab, 13, 0)
    BY PartlyTables
  <2>2. \A k \in TableKeys : \A j \in Slots(k) : p[k][j] = tab[k][j]
    <3> SUFFICES ASSUME NEW k \in TableKeys, NEW j \in Slots(k) PROVE p[k][j] = tab[k][j]
      OBVIOUS
    <3>1. 13 - 1 = 12
      OBVIOUS
    <3>2. \E m \in 1..(13 - 1) : GroupOrder[m] = k
      BY <3>1, Order
    <3> QED
      BY <2>1, <3>2, PartlyTables
  <2> QED
    BY <2>1, <2>2, SameTables
<1> QED
  BY <1>4, <1>5, <1>10, <1>11 DEF Reload

\* Whenever the tables are saved, wherever tcpserv has preempted SPI_DSP, the
\* words alone bring every table back slot by slot, for tables of any size, on
\* a device whose flash held a volume.
THEOREM WordsAreEnough == Spec => []ReloadRestores
<1>1. Inv /\ FreeEmpty /\ Arrays => ReloadRestores
  <2> SUFFICES ASSUME Inv, FreeEmpty, table \in AllTables, phase # "fresh"
               PROVE  Reload(SavedWords(table)) = table
    BY DEF ReloadRestores, Arrays
  <2>1. Findable(table)
    <3>1. Tables(table)
      BY ArraysAre
    <3>2. \A k \in TableKeys : \A i, j \in Slots(k) :
            i < j /\ table[k][j].id # 0 => table[k][i].id # 0
      BY DEF Inv, NoHoles
    <3>3. \A k \in TableKeys : \A i, j \in Slots(k) :
            table[k][i].id = table[k][j].id /\ table[k][i].id # 0 => i = j
      BY DEF Inv, UniqueOnceStored, UniqueIds
    <3>4. \A k \in TableKeys : \A i \in Slots(k) :
            IF table[k][i].id = 0 THEN table[k][i] = EmptySlot ELSE Good(table, k, i)
      BY DEF Inv, FreeEmpty, GoodSlots, BeingWritten
    <3> QED
      BY <3>1, <3>2, <3>3, <3>4 DEF Findable
  <2> QED
    BY <2>1, Found
<1> QED
  BY <1>1, SpecInv, FreeIsEmpty, ArraysAlways, PTL
=============================================================================
