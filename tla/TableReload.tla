---------------------------- MODULE TableReload -----------------------------
(***************************************************************************)
(* Saving the tables to the flash and adding the saved words again at the  *)
(* next start (store_w25q16 and read_w25q16 of drivers/inc.c, without the  *)
(* flash between them): the words carry no identifiers and no slot         *)
(* numbers, so the tables have to be found again from the words alone.     *)
(***************************************************************************)
EXTENDS CmdTable, Sequences

\* The order of group_table.
GroupOrder == <<1, 2, 3, 4, 5, 6, 7, 8, 11, 13, 14, 15>>

EmptyTables == [k \in TableKeys |-> [i \in Slots(k) |-> EmptySlot]]

\* Mutant: a table is saved without its last slot.
MutantTableWords(tab, k) ==
  [i \in 1..(IF Count[k] = 0 THEN 0 ELSE Count[k] - 1) |-> tab[k][i - 1].data]

\* The words of a table: every slot, free ones too.
TableWords(tab, k) == [i \in 1..Count[k] |-> tab[k][i - 1].data]

\* The data area as store_w25q16 has written it after n tables.
DataArea(tab) ==
  LET area[n \in 0..Len(GroupOrder)] ==
        IF n = 0 THEN <<>> ELSE area[n - 1] \o TableWords(tab, GroupOrder[n])
  IN area

SavedWords(tab) == DataArea(tab)[Len(GroupOrder)]

\* One turn of read_w25q16's loop: zero and all-ones words are skipped.
ReloadWord(tab, w) == IF w \in {ZeroWord, AllOnesWord} THEN tab ELSE do_add_cmd(tab, w)

\* The tables after i turns.
Reloading(words) ==
  LET tab[i \in 0..Len(words)] ==
        IF i = 0 THEN EmptyTables ELSE ReloadWord(tab[i - 1], words[i])
  IN tab

Reload(words) == Reloading(words)[Len(words)]

\* A save at any instant followed by a restart brings every table back slot
\* by slot, on every device whose flash held a volume before.
ReloadRestores == phase # "fresh" => Reload(SavedWords(table)) = table
=============================================================================
