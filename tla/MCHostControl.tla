---------------------------- MODULE MCHostControl ----------------------------
(***************************************************************************)
(* A small instance of HostControl: two volumes, one other parameter, and  *)
(* chunks of one or two of the PC's commands.                              *)
(***************************************************************************)
EXTENDS HostControl

Volume(v) == [id |-> "volume", val |-> v]
Pin(v) == [id |-> "pin", val |-> v]

MCCommands == {Volume(2), Pin(1), Mic, Close}
MCChunks == {<<Volume(2)>>, <<Pin(1)>>, <<Mic>>, <<Close>>, <<Volume(2), Pin(1)>>,
             <<Volume(2), Close>>, <<Close, Volume(2)>>}

\* The last input of the keys' round.
MCBoots == {[input |-> 5, volume |-> 1]}
=============================================================================
