------------------------------ MODULE Protocol ------------------------------
(***************************************************************************)
(* The four byte command of the host firmware: how it is taken apart and   *)
(* put together (drivers/protocol.c), and how its group and index select a *)
(* table and an identifier (drivers/inc.c).                                *)
(*                                                                         *)
(* A command is the tuple of its bytes in the order they arrive.  A word   *)
(* of the C code whose bytes in memory are the command is therefore the    *)
(* same tuple.                                                             *)
(***************************************************************************)
EXTENDS Integers

Byte == 0..255

Cmd == Byte \X Byte \X Byte \X Byte

\* A zeroed slot of a table, and the word -1 that do_get_data returns when it
\* finds nothing and that an erased flash holds.
ZeroWord == <<0, 0, 0, 0>>
AllOnesWord == <<255, 255, 255, 255>>

Msg == [op : 0..3, key : 0..15, type : 0..31,
        param1 : 0..31, param2 : Byte, param3 : Byte]

(***************************************************************************)
(* drivers/protocol.c                                                      *)
(***************************************************************************)
\* Bits 2/4/5/5/8/8 of the command; opIndex, keyIndex and typeIndex list
\* every value of the masked bits, so each search of the code succeeds.
prot_cmd_to_msg(c) ==
  [op     |-> c[1] \div 64,
   key    |-> (c[1] \div 4) % 16,
   type   |-> (c[1] % 4) * 8 + c[2] \div 32,
   param1 |-> c[2] % 32,
   param2 |-> c[3],
   param3 |-> c[4]]

\* prot_cmd_to_msg returns 0: the key is in CMD_GROUP_GENERAL..CMD_GROUP_MAX.
KeyValid(m) == m.key \in 1..15

prot_msg_to_cmd(m) ==
  << (m.op * 64 + m.key * 4 + m.type \div 8) % 256,
     ((m.type % 8) * 32 + m.param1) % 256,
     m.param2,
     m.param3 >>

(***************************************************************************)
(* drivers/inc.c: groups, descriptors, identifiers                         *)
(***************************************************************************)
CMD_GROUP_GENERAL == 1
CMD_GROUP_INPUTS == 2..8
CMD_GROUP_OUTPUT == 11
CMD_GROUP_OTHER == 13
CMD_GROUP_SOUND == 14
CMD_GROUP_FERQ == 15

\* The groups that group_table gives a table; get_table_name is NULL for the
\* reserved groups 9, 10 and 12.
TableKeys == {CMD_GROUP_GENERAL} \cup CMD_GROUP_INPUTS
               \cup {CMD_GROUP_OUTPUT, CMD_GROUP_OTHER, CMD_GROUP_SOUND, CMD_GROUP_FERQ}

CMD_DATA_INDEX_INVALID == 3

\* The position of a command's value.  A type the group's descriptors do not
\* list, and every type of a group without descriptors (the reserved groups,
\* OTHER and SOUND), is invalid.
get_cmd_index(key, type) ==
  CASE key = CMD_GROUP_GENERAL /\ type \in {4, 9, 10, 11, 12, 14, 15, 16} -> 0
    [] key = CMD_GROUP_GENERAL /\ type \in {1, 2, 3, 5, 6, 7, 8}          -> 1
    [] key = CMD_GROUP_GENERAL /\ type = 13                               -> 2
    [] key \in CMD_GROUP_INPUTS /\ type \in {1, 2, 3, 6}                  -> 0
    [] key \in CMD_GROUP_INPUTS /\ type \in {4, 5}                        -> 1
    [] key = CMD_GROUP_OUTPUT /\ type \in 2..7                            -> 1
    [] key = CMD_GROUP_OUTPUT /\ type \in {1, 8}                          -> 2
    [] key = CMD_GROUP_FERQ /\ type \in 1..24                          -> 1
    [] OTHER                                                    -> CMD_DATA_INDEX_INVALID

\* GET_CMD_ID_P1, _P2 and _P3: the fields before the value's position are the
\* identifier.
get_cmd_id(m) ==
  LET ix == get_cmd_index(m.key, m.type)
  IN IF ix = CMD_DATA_INDEX_INVALID
     THEN -1
     ELSE m.key * 262144 + m.type * 8192
            + (IF ix >= 1 THEN m.param1 * 256 ELSE 0)
            + (IF ix = 2 THEN m.param2 ELSE 0)

\* do_add_cmd gets past its three checks for c: the key, the table and the
\* identifier.
Storable(c) ==
  LET m == prot_cmd_to_msg(c)
  IN KeyValid(m) /\ m.key \in TableKeys /\ get_cmd_id(m) >= 0

CmdKey(c) == prot_cmd_to_msg(c).key
CmdId(c) == get_cmd_id(prot_cmd_to_msg(c))
=============================================================================
