----------------------------- MODULE FlashStore -----------------------------
(***************************************************************************)
(* How the host keeps its tables, the volume and the input type across a   *)
(* power loss (drivers/inc.c: store_w25q16, store_w25q16_volume_input_type *)
(* and read_w25q16, on the W25Q16 of drivers/spi_flash.c).                  *)
(*                                                                         *)
(* The flash holds two regions, "cfg" with every word of the tables and    *)
(* "vol" with the volume and the input type, each in two copies of a data  *)
(* area and a checksum.  A save rewrites copy 1 and then copy 2.           *)
(*                                                                         *)
(*   "tcp"  (priority 8) saves both regions when the PC program closes;    *)
(*   "idle" (priority 13) saves "vol" two seconds after a change, waiting  *)
(*          for the flash in busy loops, so that only "tcp" preempts it.   *)
(*                                                                         *)
(* There is no lock, neither around a save nor around one operation of the *)
(* flash: "tcp" may begin with the chip selected and a command of "idle"   *)
(* half sent.  That operation of "idle" is then carried out, lost or       *)
(* garbled, and the flash may take no notice of the first operations of    *)
(* "tcp".                                                                  *)
(*                                                                         *)
(* A word is a number below WordSize.  Its lowest bits, of Fields values,  *)
(* stand for the group, index and parameters that make its identifier, so  *)
(* a word says by itself where do_set_cmd_entry puts it; they are odd, as  *)
(* the low byte 0x05 of the general group is.  The erased word is all ones *)
(* and programming a word can only clear bits.  Every word of the tables   *)
(* has a sector of its own here: a power loss finds some sectors of a data *)
(* area erased and others not.                                             *)
(***************************************************************************)
EXTENDS Integers

CONSTANTS
  WordSize,      \* number of words: 2^32 in the code
  Fields,        \* number of values of the bits of a word that identify it
  And(_, _),     \* bitwise and
  Masks,         \* the bits a power loss may leave unprogrammed or unerased
  Entries,       \* how many identifiers the tables hold
  Changes,       \* the words that threads store in the tables
  Inputs,        \* the input types that the keys select
  INIT_INPUT, MIC_INPUT,
  Ignored,       \* how many operations of "tcp" the flash may take no notice of
  MaxChanges, MaxSaves, MaxCrashes   \* bounds of the instance

Word == 0..(WordSize - 1)
AllOnes == WordSize - 1
Or(x, y) == x + y - And(x, y)

\* 0xffffff where 0xffffffff is meant (inc.c lines 449 and 488): eight bits short.
ShortOnes == WordSize \div 256 - 1

VOLUME == 1        \* the identifier of do_get_data(1, 8)
INPUT_TYPE == 2    \* the identifier of do_get_data(1, 9)

\* A word has at least nine bits.
ASSUME SizeAssumption ==
  /\ WordSize \in Nat \ {0} /\ WordSize % 512 = 0
  /\ Fields \in Nat \ {0} /\ Fields % 2 = 0 /\ WordSize % Fields = 0
  /\ Entries \in Nat /\ Entries >= INPUT_TYPE
ASSUME BoundAssumption ==
  MaxChanges \in Nat /\ MaxSaves \in Nat /\ MaxCrashes \in Nat /\ Ignored \subseteq Nat
ASSUME AndAssumption ==
  /\ \A x \in Word : And(AllOnes, x) = x /\ And(x, AllOnes) = x /\ And(x, 0) = 0
  /\ \A x, y \in Word :
       /\ And(x, y) \in Word /\ Or(x, y) \in Word
       /\ And(x, y) % 2 = (x % 2) * (y % 2)
  /\ Masks \subseteq Word /\ {0, AllOnes} \subseteq Masks

Procs == {"tcp", "idle"}
Copies == {1, 2}
Regions == {"cfg", "vol"}
Ids == 1..Entries

IdOf(w) == IF w % 2 = 1 THEN ((w % Fields) + 1) \div 2 ELSE 0

ASSUME WordsAssumption ==
  /\ Changes \subseteq Word /\ \A w \in Changes : IdOf(w) \in Ids
  /\ Inputs \subseteq Word /\ \A w \in Inputs : IdOf(w) = INPUT_TYPE
  /\ INIT_INPUT \in Inputs
  /\ IdOf(AllOnes) \notin Ids

VARIABLES
  up,            \* the host runs
  table,         \* table[id]: the stored word, 0 when there is none
  g_input_type,
  cfg,           \* cfg[c]: the checksum and the words of copy c
  vol,           \* vol[c]: the checksum, the volume and the input of copy c
  save,          \* save[p]: where p is in its save
  deaf,          \* so many of the next operations of "tcp" the flash ignores
  version,       \* history: the table, and the pair, last written to the data
                 \* area of each copy of "cfg" and of "vol"
  status,        \* history, of each region: "new" before its first save has
                 \* ended, "saved" when the last one has, "rewriting" during the
                 \* next one, "torn" after a save that was cut off, "lost" after
                 \* a second one; "spoilt" when a save was disturbed by another,
                 \* "healing" during the first undisturbed one from there
  changes, saves, crashes

vars == <<up, table, g_input_type, cfg, vol, save, deaf, version, status,
          changes, saves, crashes>>

EmptyTable == [id \in Ids |-> 0]
Erased == [i \in Ids |-> AllOnes]
NoPair == <<0, 0>>
NoSave == [pc |-> "none", region |-> "vol", copy |-> 1, i |-> 1, data |-> 0, sum |-> 0]

Saving(p) == save[p].pc # "none"

(***************************************************************************)
(* Table and checksum                                                      *)
(***************************************************************************)
\* do_set_cmd_entry: a word without a valid identifier is refused.
do_set_cmd_entry(tab, w) ==
  IF IdOf(w) \in Ids THEN [tab EXCEPT ![IdOf(w)] = w] ELSE tab

\* do_get_data: -1 when nothing is stored.
do_get_data(tab, id) == IF tab[id] = 0 THEN AllOnes ELSE tab[id]

Add(x, y) == (x + y) % WordSize

\* The 32 bit sum over a data area, word by word.
Sums(words) ==
  LET s[i \in 0..Entries] == IF i = 0 THEN 0 ELSE Add(s[i - 1], words[i])
  IN s

Checksum(words) == Sums(words)[Entries]

PairSum(v) == Add(v.volume, v.input)

(***************************************************************************)
(* read_w25q16                                                             *)
(***************************************************************************)
\* Mutant: the data are not summed up.
MutantUsable(c) == cfg[c].sum # ShortOnes

\* The test that lets the code take copy c of "cfg" after the two checksums
\* were found different.
Usable(c) == cfg[c].sum = Checksum(cfg[c].words) /\ cfg[c].sum # ShortOnes

Equal == cfg[1].sum = cfg[2].sum /\ cfg[1].sum # AllOnes

Kept(w) == w \notin {0, AllOnes}

AnyKept(words) == \E i \in Ids : Kept(words[i])

\* The loops with "goto back1" in their body: they end at the first word kept.
FirstEntry(words) ==
  IF AnyKept(words)
  THEN LET i == CHOOSE i \in Ids : Kept(words[i]) /\ \A j \in 1..(i - 1) : ~Kept(words[j])
       IN do_set_cmd_entry(EmptyTable, words[i])
  ELSE EmptyTable

\* The whole data area, word by word.
Tables(words) ==
  LET t[i \in 0..Entries] ==
        IF i = 0 THEN EmptyTable
        ELSE IF Kept(words[i]) THEN do_set_cmd_entry(t[i - 1], words[i]) ELSE t[i - 1]
  IN t

AllEntries(words) == Tables(words)[Entries]

ReadConfig ==
  IF Equal THEN AllEntries(cfg[1].words)
  ELSE IF Usable(1) /\ AnyKept(cfg[1].words) THEN FirstEntry(cfg[1].words)
  ELSE IF Usable(2) THEN FirstEntry(cfg[2].words)
  ELSE EmptyTable

VolEqual == vol[1].sum = vol[2].sum /\ vol[1].sum # AllOnes
VolUsable(c) == vol[c].sum = PairSum(vol[c]) /\ vol[c].sum # ShortOnes

\* Mutant: copy 2 is never looked at.
MutantVolCopy == IF VolEqual \/ VolUsable(1) THEN 1 ELSE 0

\* The copy of "vol" that is taken, 0 for none.
VolCopy == IF VolEqual \/ VolUsable(1) THEN 1 ELSE IF VolUsable(2) THEN 2 ELSE 0

ClampInput(w) == IF w < INIT_INPUT \/ w > MIC_INPUT THEN INIT_INPUT ELSE w

ReadVolume(tab) ==
  IF VolCopy = 0 THEN tab
  ELSE do_set_cmd_entry(do_set_cmd_entry(tab, vol[VolCopy].volume),
                        ClampInput(vol[VolCopy].input))

\* tcpserv at power on: read_w25q16, then the globals from the tables.
Boot ==
  /\ ~up
  /\ up' = TRUE
  /\ table' = ReadVolume(ReadConfig)
  /\ g_input_type' = IF table'[INPUT_TYPE] = 0 THEN INIT_INPUT ELSE table'[INPUT_TYPE]
  /\ UNCHANGED <<cfg, vol, save, deaf, version, status, changes, saves, crashes>>

(***************************************************************************)
(* What changes the tables and the input type between two saves.  SPI_DSP  *)
(* and the keys have priorities below the idle timer's.                    *)
(***************************************************************************)
Change(w) ==
  /\ up /\ ~Saving("tcp")
  /\ changes < MaxChanges
  /\ changes' = changes + 1
  /\ table' = do_set_cmd_entry(table, w)
  /\ UNCHANGED <<up, g_input_type, cfg, vol, save, deaf, version, status, saves, crashes>>

KeySelect(w) ==
  /\ up /\ ~Saving("tcp") /\ ~Saving("idle")
  /\ changes < MaxChanges
  /\ changes' = changes + 1
  /\ g_input_type' = w
  /\ UNCHANGED <<up, table, cfg, vol, save, deaf, version, status, saves, crashes>>

(***************************************************************************)
(* The saves                                                               *)
(***************************************************************************)
IdleSave ==
  /\ up /\ ~Saving("tcp") /\ ~Saving("idle")
  /\ saves < MaxSaves
  /\ saves' = saves + 1
  /\ save' = [save EXCEPT !["idle"] = [NoSave EXCEPT !.pc = "ecs"]]
  /\ UNCHANGED <<up, table, g_input_type, cfg, vol, deaf, version, status, changes, crashes>>

\* The flash operation of step s, of p's save, started with mask m: the bits
\* of m are the ones a power loss keeps from changing, 0 for a step that ends.
EraseWord(x, m) == Or(x, AllOnes - m)
ProgramWord(x, w, m) == And(x, Or(w, m))

CfgOperation(s, m) ==
  \/ /\ s.pc = "ecs"
     /\ cfg' = [cfg EXCEPT ![s.copy].sum = EraseWord(@, m)]
  \/ /\ s.pc = "edata"
     /\ cfg' = [cfg EXCEPT ![s.copy].words[s.i] = EraseWord(@, m)]
  \/ /\ s.pc = "word"
     /\ cfg' = [cfg EXCEPT ![s.copy].words[s.i] = ProgramWord(@, table[s.i], m)]
  \/ /\ s.pc = "cs"
     /\ cfg' = [cfg EXCEPT ![s.copy].sum = ProgramWord(@, s.sum, m)]

VolOperation(s, m) ==
  \/ /\ s.pc = "ecs"
     /\ vol' = [vol EXCEPT ![s.copy].sum = EraseWord(@, m)]
  \/ /\ s.pc = "edata"
     /\ vol' = [vol EXCEPT ![s.copy].volume = EraseWord(@, m),
                           ![s.copy].input = EraseWord(@, m)]
  \/ /\ s.pc = "get"
     /\ UNCHANGED vol
  \/ /\ s.pc = "volume"
     /\ vol' = [vol EXCEPT ![s.copy].volume = ProgramWord(@, s.data, m)]
  \/ /\ s.pc = "input"
     /\ vol' = [vol EXCEPT ![s.copy].input = ProgramWord(@, g_input_type, m)]
  \/ /\ s.pc = "cs"
     /\ vol' = [vol EXCEPT ![s.copy].sum = ProgramWord(@, s.sum, m)]

Operation(s, m) ==
  \/ s.region = "cfg" /\ CfgOperation(s, m) /\ UNCHANGED vol
  \/ s.region = "vol" /\ VolOperation(s, m) /\ UNCHANGED cfg

\* A save that writes copy 1 of a region goes on to copy 2, and store_w25q16
\* ends in store_w25q16_volume_input_type.
NextCopy(s) ==
  CASE s.copy = 1 -> [NoSave EXCEPT !.pc = "ecs", !.region = s.region, !.copy = 2]
    [] s.copy = 2 /\ s.region = "cfg" -> [NoSave EXCEPT !.pc = "ecs"]
    [] OTHER -> NoSave

\* Mutant: copy 1 of the tables is erased and not written again.
MutantAfterErase(s) ==
  CASE s.region = "vol" -> [s EXCEPT !.pc = "get"]
    [] s.region = "cfg" /\ s.i < Entries -> [s EXCEPT !.i = @ + 1]
    [] s.region = "cfg" /\ s.copy = 1 /\ s.i = Entries -> NextCopy(s)
    [] OTHER -> [s EXCEPT !.pc = "word", !.i = 1]

\* The data area of the tables is erased sector by sector.
AfterErase(s) ==
  CASE s.region = "vol" -> [s EXCEPT !.pc = "get"]
    [] s.region = "cfg" /\ s.i < Entries -> [s EXCEPT !.i = @ + 1]
    [] OTHER -> [s EXCEPT !.pc = "word", !.i = 1]

\* Mutant: the loop over the slots runs one too far.
MutantAfterWord(s) ==
  [s EXCEPT !.pc = IF s.i > Entries THEN "cs" ELSE "word",
            !.i = IF s.i > Entries THEN 1 ELSE s.i + 1,
            !.sum = Add(@, table[s.i])]

AfterWord(s) ==
  [s EXCEPT !.pc = IF s.i = Entries THEN "cs" ELSE "word",
            !.i = IF s.i = Entries THEN 1 ELSE s.i + 1,
            !.sum = Add(@, table[s.i])]

\* The step after s.
Advance(s) ==
  CASE s.pc = "ecs" -> [s EXCEPT !.pc = "edata"]
    [] s.pc = "edata" -> AfterErase(s)
    [] s.pc = "word" -> AfterWord(s)
    [] s.pc = "get" -> [s EXCEPT !.pc = "volume", !.data = do_get_data(table, VOLUME)]
    [] s.pc = "volume" -> [s EXCEPT !.pc = "input", !.sum = Add(@, s.data)]
    [] s.pc = "input" -> [s EXCEPT !.pc = "cs", !.sum = Add(@, g_input_type)]
    [] s.pc = "cs" -> NextCopy(s)

\* History: what the step s leaves in a data area once it is complete, and
\* how far the save of its region has come.
Versions(s) ==
  CASE s.pc = "word" /\ s.i = Entries ->
         [version EXCEPT !.cfg = [@ EXCEPT ![s.copy] = table]]
    [] s.pc = "input" ->
         [version EXCEPT !.vol = [@ EXCEPT ![s.copy] = <<s.data, g_input_type>>]]
    [] OTHER -> version

\* The save of region r is the only one that runs: "idle" has none of "cfg".
Alone(r) == r = "cfg" \/ \E p \in Procs : ~Saving(p)

Statuses(s) ==
  CASE s.pc = "ecs" /\ s.copy = 1 /\ status[s.region] = "saved" ->
         [status EXCEPT ![s.region] = "rewriting"]
    [] s.pc = "ecs" /\ s.copy = 1 /\ status[s.region] = "spoilt" /\ Alone(s.region) ->
         [status EXCEPT ![s.region] = "healing"]
    [] s.pc = "cs" /\ s.copy = 2 /\ status[s.region] # "spoilt" ->
         [status EXCEPT ![s.region] = "saved"]
    [] OTHER -> status

(***************************************************************************)
(* tcpserv saves, perhaps in the middle of the idle timer's save           *)
(***************************************************************************)
TcpBegins(sv) == [sv EXCEPT !["tcp"] = [NoSave EXCEPT !.pc = "ecs", !.region = "cfg"]]

\* A programming command of the idle timer's that tcpserv's first byte, taken for
\* data, ends: of the word, or of the word behind it, the bits of m are left.
\* An erasure is carried out or not.
Garbled(s, m) ==
  \/ /\ s.pc \in {"ecs", "edata"}
     /\ UNCHANGED vol
  \/ /\ s.pc = "volume"
     /\ \/ vol' = [vol EXCEPT ![s.copy].volume = And(@, m)]
        \/ vol' = [vol EXCEPT ![s.copy].volume = ProgramWord(@, s.data, 0),
                              ![s.copy].input = And(@, m)]
  \/ /\ s.pc = "input"
     /\ vol' = [vol EXCEPT ![s.copy].input = And(@, m)]
  \/ /\ s.pc = "cs"
     /\ vol' = [vol EXCEPT ![s.copy].sum = And(@, m)]

\* tcpserv begins between two operations of the flash.
TcpSave ==
  /\ up /\ ~Saving("tcp")
  /\ saves < MaxSaves
  /\ saves' = saves + 1
  /\ save' = TcpBegins(save)
  /\ status' = IF Saving("idle") THEN [status EXCEPT !.vol = "spoilt"] ELSE status
  /\ UNCHANGED <<up, table, g_input_type, cfg, vol, deaf, version, changes, crashes>>

\* tcpserv begins inside an operation of the idle timer's.  That has been carried
\* out or comes to little or nothing, and the idle timer goes on behind it; or the
\* flash gets the command only when tcpserv is through.  (Power that goes before
\* the flash has ended it is a Crash before tcpserv, which has changed nothing yet.)
\* A write enable that tcpserv sends into an open status read, or to a busy flash,
\* is none, and the operation it was for is ignored.  When tcpserv finds the idle
\* timer's byte in the receive register, it deselects the chip one byte too early
\* from then on, until an interrupt puts the two in step again.
TcpSaveInside(m) ==
  /\ up /\ ~Saving("tcp")
  /\ Saving("idle") /\ save["idle"].pc # "get"
  /\ saves < MaxSaves
  /\ saves' = saves + 1
  /\ deaf' \in Ignored
  /\ \/ /\ VolOperation(save["idle"], 0) \/ Garbled(save["idle"], m)
        /\ UNCHANGED cfg
        /\ save' = TcpBegins([save EXCEPT !["idle"] = Advance(save["idle"])])
     \/ /\ UNCHANGED <<cfg, vol>>
        /\ save' = TcpBegins(save)
  /\ status' = [status EXCEPT !.vol = "spoilt", !.cfg = IF deaf' > 0 THEN "spoilt" ELSE @]
  /\ UNCHANGED <<up, table, g_input_type, version, changes, crashes>>

\* One step of p's save; the idle timer's waits while tcpserv saves.
Step(p) ==
  /\ up /\ Saving(p) /\ deaf = 0
  /\ p = "idle" => ~Saving("tcp")
  /\ Operation(save[p], 0)
  /\ save' = [save EXCEPT ![p] = Advance(save[p])]
  /\ version' = Versions(save[p])
  /\ status' = Statuses(save[p])
  /\ UNCHANGED <<up, table, g_input_type, deaf, changes, saves, crashes>>

\* One step of tcpserv's save that the flash takes no notice of.  When the save
\* ends the idle timer goes on, and finds tcpserv's last byte in the register.
StepIgnored ==
  /\ up /\ Saving("tcp") /\ deaf > 0
  /\ save' = [save EXCEPT !["tcp"] = Advance(save["tcp"])]
  /\ deaf' = IF save'["tcp"].pc = "none" THEN 0 ELSE deaf - 1
  /\ UNCHANGED <<up, table, g_input_type, cfg, vol, version, status, changes, saves, crashes>>

CutOff(st) ==
  CASE st \in {"saved", "rewriting"} -> "torn"
    [] st = "torn" -> "lost"
    [] st = "healing" -> "spoilt"
    [] OTHER -> st

\* Power is lost, perhaps inside the flash operation of the running save.
Crash(m) ==
  /\ up
  /\ crashes < MaxCrashes
  /\ crashes' = crashes + 1
  /\ \/ Saving("tcp") /\ deaf = 0 /\ Operation(save["tcp"], m)
     \/ Saving("idle") /\ ~Saving("tcp") /\ Operation(save["idle"], m)
     \/ (Saving("tcp") => deaf > 0) /\ (Saving("idle") => Saving("tcp")) /\ UNCHANGED <<cfg, vol>>
  /\ up' = FALSE
  /\ table' = EmptyTable
  /\ g_input_type' = INIT_INPUT
  /\ save' = [p \in Procs |-> NoSave]
  /\ deaf' = 0
  /\ status' = [r \in Regions |->
                  IF \E p \in Procs : Saving(p) /\ save[p].region = r
                  THEN CutOff(status[r]) ELSE status[r]]
  /\ UNCHANGED <<version, changes, saves>>

-----------------------------------------------------------------------------
\* A new device: both regions erased.
Init ==
  /\ up = FALSE
  /\ table = EmptyTable
  /\ g_input_type = INIT_INPUT
  /\ cfg = [c \in Copies |-> [sum |-> AllOnes, words |-> Erased]]
  /\ vol = [c \in Copies |-> [sum |-> AllOnes, volume |-> AllOnes, input |-> AllOnes]]
  /\ save = [p \in Procs |-> NoSave]
  /\ version = [cfg |-> [c \in Copies |-> EmptyTable], vol |-> [c \in Copies |-> NoPair]]
  /\ status = [r \in Regions |-> "new"]
  /\ deaf = 0
  /\ changes = 0 /\ saves = 0 /\ crashes = 0

Next ==
  \/ Boot
  \/ \E w \in Changes : Change(w)
  \/ \E w \in Inputs : KeySelect(w)
  \/ TcpSave
  \/ IdleSave
  \/ \E m \in Masks : TcpSaveInside(m)
  \/ \E p \in Procs : Step(p)
  \/ StepIgnored
  \/ \E m \in Masks : Crash(m)

Spec == Init /\ [][Next]_vars

-----------------------------------------------------------------------------
SaveStates ==
  [pc : {"none", "ecs", "edata", "word", "get", "volume", "input", "cs"},
   region : Regions, copy : Copies, i : Ids, data : Word, sum : Word]

StatusValues == {"new", "saved", "rewriting", "torn", "lost", "spoilt", "healing"}

\* The flash and the tables hold words; a save is inside the data areas.
TypeOK ==
  /\ up \in BOOLEAN
  /\ table \in [Ids -> Word]
  /\ g_input_type \in Word
  /\ cfg \in [Copies -> [sum : Word, words : [Ids -> Word]]]
  /\ vol \in [Copies -> [sum : Word, volume : Word, input : Word]]
  /\ save \in [Procs -> SaveStates]
  /\ status \in [Regions -> StatusValues]
  /\ deaf \in Nat
  /\ changes \in 0..MaxChanges /\ saves \in 0..MaxSaves /\ crashes \in 0..MaxCrashes

\* Copy c of "cfg" holds the tables of one save under their checksum.
Intact(c) ==
  cfg[c].words = version.cfg[c] /\ cfg[c].sum = Checksum(version.cfg[c])

\* Two copies are there so that one survives: wherever in a save the power is
\* lost, with the flash words in whatever state that leaves them, one copy of
\* the tables is intact and read_w25q16 finds a table that was saved in it.
\* (Not so when the next save is cut off as well, nor when the flash has ignored
\* operations of a save, until one has ended after that: see TcpSaveInside.)
ConfigSurvives ==
  ~up /\ status.cfg \in {"saved", "torn"} => \E c \in Copies : Intact(c)

\* An area without its checksum adds up to the erased one all the same.  The
\* tests against 0xffffff let it pass.
AddsUpErased(c) == cfg[c].sum = AllOnes /\ Checksum(cfg[c].words) = AllOnes

\* What read_w25q16 takes from the flash comes from the tables of one save,
\* never some entries of one save and some of another, and never a word of a
\* half-erased or half-written data area.  The only exception is an area that
\* adds up to all ones: the checksum is written last and erased first, so every
\* other checksum that read_w25q16 believes stands over the words of one save,
\* however many saves were cut off.  (An ignored erasure breaks that order, until
\* a save of which nothing is ignored has ended.)
NoMixedVersions ==
  ~up /\ status.cfg # "spoilt" /\ (\A c \in Copies : ~AddsUpErased(c)) =>
    \E v \in {version.cfg[1], version.cfg[2], EmptyTable} :
      \A id \in Ids : ReadConfig[id] \in {0, v[id]}

\* After a save of the tables of which the flash has ignored nothing has ended,
\* whatever happened to the ones before it, a power cycle restores every entry,
\* unless their checksum is the one of an erased flash, which read_w25q16 takes
\* for a difference.  (Not so after one that was cut off: see RestoresWholeTable.)
SavedIsRestored ==
  ~up /\ status.cfg = "saved" /\ Checksum(version.cfg[2]) # AllOnes
    => ReadConfig = version.cfg[2]

\* The volume and the input type, saved after every change, survive a power
\* loss at any step of a save as one pair that was saved together, as long as
\* the next save is not cut off too.  (A save of tcpserv's in the middle of the
\* idle timer's spoils both; the next save that runs alone puts that right.)
VolumeSurvives ==
  ~up /\ status.vol \in {"saved", "torn"} =>
    /\ VolCopy # 0
    /\ <<vol[VolCopy].volume, vol[VolCopy].input>> = version.vol[VolCopy]

\* "If they are not equal, read the data areas and take the one whose checksum
\* is right" (comment on read_w25q16): with one good copy the tables come back
\* as they were saved.  The goto inside the copying loops ends them at the
\* first word.
RestoresWholeTable ==
  ~up /\ (\E c \in Copies : Intact(c)) => ReadConfig \in {version.cfg[1], version.cfg[2]}

\* "If the two checksums are equal, reading either area will do" (the same
\* comment): equal checksums mean equal copies.  Fails when tcpserv saves in
\* the middle of the idle timer's save, which then erases, or programs again,
\* the area under a checksum that tcpserv has just written; read_w25q16 does
\* not look at the data when the checksums agree.
EitherCopyWillDo == ~up /\ VolEqual => vol[1] = vol[2]
=============================================================================
