----------------------------- MODULE MCCmdTable -----------------------------
(***************************************************************************)
(* Small instances of CmdTable: the general group with room for three      *)
(* entries and an input group with room for one.                           *)
(***************************************************************************)
EXTENDS TableReload

Volume(v) == <<5, 0, v, 0>>
Input(n) == <<5, 32 + n, 0, 0>>
\* GENERAL_GROUP_OUT_PIN_ASSIGN: two cells of the pin matrix.
Pin(p) == <<5, 161, p, 1>>
\* INPUT_GROUP_SAMPLING_RATE of input 1, and a key without a table.
Rate(v) == <<8, 32 + v, 0, 0>>
Reserved == <<36, 32, 0, 0>>

MCPcCmds == {Volume(10), Input(1), Input(2), Pin(1), Pin(2), Rate(1), Reserved}
MCDspCmds == {Volume(11), Volume(12)}
MCCount == [k \in TableKeys |-> IF k = 1 THEN 3 ELSE IF k = 2 THEN 1 ELSE 0]
=============================================================================
