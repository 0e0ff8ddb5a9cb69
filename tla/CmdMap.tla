------------------------------- MODULE CmdMap -------------------------------
(***************************************************************************)
(* What the parameter tables promise: for each group a map from command    *)
(* identifiers to the last word written for them, with room for Count[k]   *)
(* identifiers.  A write of a known identifier replaces its word; a write  *)
(* of a new one succeeds while there is room and is dropped otherwise.     *)
(* Nothing is promised once promised is FALSE.                             *)
(***************************************************************************)
EXTENDS Protocol

CONSTANTS Commands, Count

VARIABLES
  map,       \* map[k]: the set of entries [id, data] of group k
  used,      \* used[k]: how many identifiers group k holds
  last,      \* the command written last
  promised

vars == <<map, used, last, promised>>

Entry(c) == [id |-> CmdId(c), data |-> prot_msg_to_cmd(prot_cmd_to_msg(c))]

Init ==
  /\ map = [k \in TableKeys |-> {}]
  /\ used = [k \in TableKeys |-> 0]
  /\ last = ZeroWord
  /\ promised = TRUE

Room(c) == used[CmdKey(c)] < Count[CmdKey(c)]

Known(c) == \E e \in map[CmdKey(c)] : e.id = CmdId(c)

Replace(c) ==
  /\ promised = TRUE /\ promised' = TRUE
  /\ last' = c
  /\ Storable(c)
  /\ Known(c)
  /\ map' = [map EXCEPT ![CmdKey(c)] = {e \in @ : e.id # CmdId(c)} \cup {Entry(c)}]
  /\ UNCHANGED used

Insert(c) ==
  /\ promised = TRUE /\ promised' = TRUE
  /\ last' = c
  /\ Storable(c)
  /\ ~Known(c)
  /\ Room(c)
  /\ map' = [map EXCEPT ![CmdKey(c)] = @ \cup {Entry(c)}]
  /\ used' = [used EXCEPT ![CmdKey(c)] = @ + 1]

Drop(c) ==
  /\ promised = TRUE /\ promised' = TRUE
  /\ last' = c
  /\ Storable(c) => ~Known(c) /\ ~Room(c)
  /\ UNCHANGED <<map, used>>

\* A fresh device: the promise ends.
Forsake == promised' = FALSE

Next ==
  \/ \E c \in Commands : Replace(c) \/ Insert(c) \/ Drop(c)
  \/ Forsake

Spec == Init /\ [][Next]_vars
=============================================================================
