-------------------------- MODULE FlashStoreProofs --------------------------
(***************************************************************************)
(* Proofs about the copies in the flash (FlashStore): what survives a loss *)
(* of power at any step of a save, for tables of any size, any words and   *)
(* any number of saves and losses.                                         *)
(***************************************************************************)
EXTENDS FlashStore, Induction, TLAPS

Odd(w) == w % 2 = 1

\* The tables hold a word only under its own identifier.
Table == {t \in [Ids -> Word] : \A id \in Ids : t[id] = 0 \/ IdOf(t[id]) = id}

\* The pairs that a save has written.  Their words are odd, as every word of
\* the general group is, so their sum is even and never all ones.
Pair == {v \in Word \X Word : v = NoPair \/ (Odd(v[1]) /\ Odd(v[2]))}

\* A save s takes the steps of its region, begins a copy with nothing summed up,
\* and writes an odd volume.
Shape(s) ==
  /\ s.pc = "ecs" => s.i = 1 /\ s.sum = 0
  /\ s.pc \in {"volume", "input"} => Odd(s.data)
  /\ s.pc # "none" /\ s.region = "cfg" => s.pc \in {"ecs", "edata", "word", "cs"}
  /\ s.region = "vol" => s.pc # "word"

\* While both save, "vol" is spoilt, and while the flash ignores tcpserv's
\* operations so is "cfg".
HostInv ==
  /\ table \in Table /\ Odd(g_input_type)
  /\ version \in [cfg : [Copies -> Table], vol : [Copies -> Pair]]
  /\ save["idle"].region = "vol"
  /\ \A p \in Procs : Shape(save[p])
  /\ Saving("tcp") /\ Saving("idle") => status.vol = "spoilt"
  /\ deaf > 0 => Saving("tcp") /\ status.cfg = "spoilt" /\ status.vol = "spoilt"
  /\ ~up => ~Saving("tcp") /\ ~Saving("idle")

(***************************************************************************)
(* The tables                                                              *)
(***************************************************************************)
\* tcpserv is saving the tables.
AtCfg == Saving("tcp") /\ save["tcp"].region = "cfg"

\* How far a save s of the table tab has come in its copy d; v is the table
\* last written there.
CfgStage(s, d, tab, v) ==
  /\ s.pc \in {"ecs", "edata", "word", "cs"}
  /\ s.pc = "ecs" => s.i = 1
  /\ s.pc \in {"ecs", "edata"} => s.sum = 0
  /\ s.pc # "ecs" => d.sum = AllOnes
  /\ s.pc = "edata" => \A j \in Ids : j < s.i => d.words[j] = AllOnes
  /\ s.pc = "word" =>
       /\ \A j \in Ids : d.words[j] = IF j < s.i THEN tab[j] ELSE AllOnes
       /\ s.sum = Sums(tab)[s.i - 1]
  /\ s.pc = "cs" => d.words = tab /\ v = tab /\ s.sum = Checksum(tab)

CfgProgress ==
  AtCfg /\ status.cfg # "spoilt" =>
           CfgStage(save["tcp"], cfg[save["tcp"].copy], table,
                    version.cfg[save["tcp"].copy])

\* Which copies are intact: the other one while a copy is written.
CfgCopies ==
  /\ AtCfg /\ save["tcp"].copy = 2 /\ status.cfg # "spoilt" =>
       Intact(1) /\ version.cfg[1] = table
  /\ AtCfg /\ save["tcp"].copy = 1 /\ status.cfg \in {"saved", "rewriting"} => Intact(2)
  /\ AtCfg /\ status.cfg = "saved" => save["tcp"].copy = 1 /\ save["tcp"].pc = "ecs"
  /\ status.cfg = "saved" => Intact(1) /\ Intact(2) /\ version.cfg[1] = version.cfg[2]
  /\ status.cfg \in {"rewriting", "healing"} => AtCfg
  /\ status.cfg = "torn" /\ ~AtCfg => Intact(1) \/ Intact(2)

(***************************************************************************)
(* The volume and the input type, unless the last save was disturbed by    *)
(* another                                                                 *)
(***************************************************************************)
AtVol(p) == Saving(p) /\ save[p].region = "vol"

\* The data of copy c are a pair that was saved, and so is the whole copy.
PairHeld(c) == <<vol[c].volume, vol[c].input>> = version.vol[c]
PairIntact(c) ==
  /\ PairHeld(c) /\ vol[c].sum = PairSum(vol[c])
  /\ Odd(vol[c].volume) /\ Odd(vol[c].input)

\* How far a save s has come in its copy d; v is the pair last written there.
VolStage(s, d, v) ==
  /\ s.pc \in {"ecs", "edata", "get", "volume", "input", "cs"}
  /\ s.pc \in {"ecs", "edata", "get", "volume"} => s.sum = 0
  /\ s.pc # "ecs" => d.sum = AllOnes
  /\ s.pc \in {"get", "volume"} => d.volume = AllOnes /\ d.input = AllOnes
  /\ s.pc = "input" => d.volume = s.data /\ d.input = AllOnes /\ s.sum = s.data
  /\ s.pc = "cs" => /\ <<d.volume, d.input>> = v /\ s.sum = PairSum(d)
                    /\ Odd(d.volume) /\ Odd(d.input)

VolProgress(p) ==
  AtVol(p) => VolStage(save[p], vol[save[p].copy], version.vol[save[p].copy])

VolCopies(p) ==
  /\ AtVol(p) /\ save[p].copy = 2 => PairIntact(1)
  /\ AtVol(p) /\ save[p].copy = 1 /\ status.vol \in {"saved", "rewriting"} => PairIntact(2)
  /\ AtVol(p) /\ status.vol = "saved" => save[p].copy = 1 /\ save[p].pc = "ecs"

\* A data area that does not hold a whole pair is under an erased checksum, and
\* its words are odd, so that they do not add up to it.  (A save that puts a
\* spoilt region right has this to establish, copy by copy.)
DataInv ==
  status.vol # "healing" =>
    \A c \in Copies : /\ Odd(vol[c].volume) /\ Odd(vol[c].input)
                      /\ PairHeld(c) \/ vol[c].sum = AllOnes

PairInv ==
  /\ status.vol = "saved" => PairIntact(1) /\ PairIntact(2)
  /\ status.vol \in {"rewriting", "healing"} => \E p \in Procs : AtVol(p)
  /\ status.vol = "torn" /\ (\A p \in Procs : ~AtVol(p)) => PairIntact(1) \/ PairIntact(2)

VolInv ==
  status.vol # "spoilt" =>
    DataInv /\ PairInv /\ \A p \in Procs : VolProgress(p) /\ VolCopies(p)

IndInv == TypeOK /\ HostInv /\ CfgProgress /\ CfgCopies /\ VolInv

-----------------------------------------------------------------------------
(***************************************************************************)
(* Words                                                                   *)
(***************************************************************************)
\* The numbers that the code compares checksums with are odd.
LEMMA Ones ==
  /\ WordSize \in Nat /\ WordSize >= 512 /\ WordSize % 2 = 0
  /\ AllOnes \in Word /\ 0 \in Word /\ Odd(AllOnes) /\ AllOnes # 0
  /\ Odd(ShortOnes)
<1>1. WordSize \in Nat /\ WordSize > 0 /\ WordSize % 512 = 0
  BY SizeAssumption
<1>2. WordSize >= 512 /\ WordSize % 2 = 0
  BY <1>1
<1>3. (WordSize - 1) % 2 = 1
  BY <1>1
<1>4. (WordSize \div 256 - 1) % 2 = 1
  BY <1>1
<1> QED BY <1>1, <1>2, <1>3, <1>4 DEF AllOnes, Word, Odd, ShortOnes

\* A sum of words wraps around.
LEMMA AddResult ==
  ASSUME NEW x \in Word, NEW y \in Word
  PROVE /\ Add(x, y) \in Word
        /\ x + y < WordSize => Add(x, y) = x + y
        /\ x + y >= WordSize => Add(x, y) = x + y - WordSize
<1>1. x \in Nat /\ y \in Nat /\ x < WordSize /\ y < WordSize /\ WordSize \in Nat /\ WordSize > 0
  BY Ones DEF Word
<1>2. ASSUME NEW z \in Nat, NEW w \in Nat, w > 0, z < w PROVE z % w = z
  BY <1>2
<1>3. ASSUME NEW z \in Nat, NEW w \in Nat, w > 0, z >= w, z < w + w PROVE z % w = z - w
  BY <1>3
<1>4. x + y < WordSize => Add(x, y) = x + y
  BY <1>1, <1>2 DEF Add
<1>5. x + y >= WordSize => Add(x, y) = x + y - WordSize
  BY <1>1, <1>3 DEF Add
<1> QED BY <1>1, <1>4, <1>5 DEF Word

\* So the sum of two odd words is even, as is the sum of none.
LEMMA EvenSum ==
  ASSUME NEW x \in Word, NEW y \in Word, (Odd(x) /\ Odd(y)) \/ (x = 0 /\ y = 0)
  PROVE ~Odd(Add(x, y))
<1>1. Add(x, y) \in {x + y, x + y - WordSize}
  BY AddResult, Ones DEF Word
<1>2. x \in Nat /\ y \in Nat /\ WordSize \in Nat /\ WordSize % 2 = 0
  BY Ones DEF Word
<1>3. (x + y) % 2 = 0 /\ (x + y - WordSize) % 2 = 0
  BY <1>2 DEF Odd
<1> QED BY <1>1, <1>3 DEF Odd

\* Bits that are set stay set, the lowest among them.
LEMMA OrResult ==
  ASSUME NEW x \in Word, NEW y \in Word
  PROVE /\ Or(x, y) \in Word
        /\ Odd(x) => Odd(Or(x, y))
<1>1. Or(x, y) \in Word /\ And(x, y) \in Word /\ And(x, y) % 2 = (x % 2) * (y % 2)
  BY AndAssumption
<1>2. ASSUME Odd(x) PROVE Odd(Or(x, y))
  <2>1. x % 2 = 1 /\ x \in Nat /\ y \in Nat /\ And(x, y) \in Nat
    BY <1>1, <1>2 DEF Odd, Word
  <2>2. And(x, y) % 2 = y % 2
    BY <1>1, <2>1
  <2>3. ASSUME NEW a \in Nat, NEW i \in Nat, NEW j \in Nat, i % 2 = 1, a % 2 = j % 2
        PROVE (i + j - a) % 2 = 1
    BY <2>3
  <2>4. (x + y - And(x, y)) % 2 = 1
    BY <2>1, <2>2, <2>3
  <2> QED BY <2>4 DEF Odd, Or
<1> QED BY <1>1, <1>2

\* Erasing: a step that ends leaves all ones, one that is cut off a word, which
\* is odd if it was.
LEMMA EraseResult ==
  ASSUME NEW x \in Word, NEW m \in Masks
  PROVE /\ EraseWord(x, m) \in Word
        /\ EraseWord(x, 0) = AllOnes
        /\ EraseWord(AllOnes, m) = AllOnes
        /\ Odd(x) => Odd(EraseWord(x, m))
<1>1. m \in Word /\ AllOnes - m \in Word /\ AllOnes \in Word /\ AllOnes - 0 = AllOnes
  BY AndAssumption, Ones DEF Word, AllOnes
<1>2. And(x, AllOnes) = x /\ And(AllOnes, AllOnes - m) = AllOnes - m
  BY <1>1, AndAssumption
<1>3. EraseWord(x, m) \in Word /\ (Odd(x) => Odd(EraseWord(x, m)))
  BY <1>1, OrResult DEF EraseWord
<1>4. EraseWord(x, 0) = AllOnes
  BY <1>1, <1>2 DEF EraseWord, Or, Word
<1>5. EraseWord(AllOnes, m) = AllOnes
  BY <1>1, <1>2 DEF EraseWord, Or, Word
<1> QED BY <1>3, <1>4, <1>5

\* Programming: an erased word takes what a step writes that ends.
LEMMA ProgramResult ==
  ASSUME NEW x \in Word, NEW w \in Word, NEW m \in Masks
  PROVE /\ ProgramWord(x, w, m) \in Word
        /\ ProgramWord(AllOnes, w, 0) = w
        /\ Odd(w) => Odd(ProgramWord(AllOnes, w, m))
<1>1. m \in Word /\ 0 \in Word
  BY AndAssumption, Ones
<1>2. Or(w, m) \in Word /\ (Odd(w) => Odd(Or(w, m)))
  BY <1>1, OrResult
<1>3. Or(w, 0) = w
  BY AndAssumption DEF Or, Word
<1>4. And(x, Or(w, m)) \in Word
  BY <1>2, AndAssumption
<1>5. And(AllOnes, Or(w, m)) = Or(w, m) /\ And(AllOnes, w) = w
  BY <1>2, AndAssumption
<1> QED BY <1>2, <1>3, <1>4, <1>5 DEF ProgramWord

\* Only odd words have an identifier.
LEMMA IdOdd ==
  ASSUME NEW w \in Word, IdOf(w) # 0
  PROVE Odd(w) /\ w # 0
  BY DEF IdOf, Odd, Word

(***************************************************************************)
(* Checksums and tables, word by word                                      *)
(***************************************************************************)
\* The recursion of the checksum has a solution, and its values are words.
LEMMA SumsResult ==
  ASSUME NEW words \in [Ids -> Word]
  PROVE /\ Sums(words) \in [0..Entries -> Word]
        /\ Sums(words)[0] = 0
        /\ \A i \in Ids : Sums(words)[i] = Add(Sums(words)[i - 1], words[i])
<1> DEFINE G == [i \in 1..Entries |-> [x \in Word |-> Add(x, words[i])]]
           F(f) == [i \in 0..Entries |-> IF i = 0 THEN 0 ELSE Add(f[i - 1], words[i])]
           s == CHOOSE f : f = F(f)
<1>1. Entries \in Nat /\ 0 \in Word /\ Ids = 1..Entries
  BY SizeAssumption, Ones DEF Ids
<1>2. \A i \in 1..Entries : words[i] \in Word
  BY <1>1
<1>3. G \in [1..Entries -> [Word -> Word]]
  BY <1>2, AddResult
<1>4. \A i \in 1..Entries : \A x \in Word : G[i][x] = Add(x, words[i])
  OBVIOUS
<1>5. Sums(words) = s
  BY DEF Sums
<1> HIDE DEF G
<1>6. \E f : f = F(f)
  <2>1. Solvable(Entries, Word, 0, G)
    BY <1>1, <1>3, Recursion
  <2>2. PICK f \in [0..Entries -> Word] :
          \A i \in 0..Entries : f[i] = IF i = 0 THEN 0 ELSE G[i][f[i - 1]]
    BY <2>1 DEF Solvable
  <2>3. \A i \in 0..Entries : f[i] = IF i = 0 THEN 0 ELSE Add(f[i - 1], words[i])
    <3> SUFFICES ASSUME NEW i \in 0..Entries, i # 0
                 PROVE f[i] = Add(f[i - 1], words[i])
      BY <2>2
    <3>1. i \in 1..Entries /\ i - 1 \in 0..Entries
      BY <1>1
    <3> QED BY <1>4, <2>2, <3>1
  <2>4. f = F(f)
    BY <2>3
  <2> QED BY <2>4
<1>7. s = F(s)
  BY <1>6
<1> HIDE DEF s
<1>8. s[0] = 0 /\ \A i \in 1..Entries : s[i] = Add(s[i - 1], words[i])
  BY <1>1, <1>7
<1> DEFINE S == {i \in 0..Entries : s[i] \in Word}
<1>9. 0 \in S
  BY <1>1, <1>8
<1>10. ASSUME NEW i \in 1..Entries, i - 1 \in S PROVE i \in S
  BY <1>1, <1>2, <1>8, <1>10, AddResult
<1> HIDE DEF S
<1>11. \A i \in 0..Entries : i \in S
  BY <1>1, <1>9, <1>10, Upwards
<1>12. s \in [0..Entries -> Word]
  <2>1. \A i \in 0..Entries : s[i] \in Word
    BY <1>11 DEF S
  <2>2. s = [i \in 0..Entries |-> s[i]]
    BY <1>7
  <2> QED BY <2>1, <2>2
<1> QED BY <1>1, <1>5, <1>8, <1>12

\* do_set_cmd_entry keeps a word under its own identifier.
LEMMA SetEntry ==
  ASSUME NEW t \in Table, NEW w \in Word
  PROVE do_set_cmd_entry(t, w) \in Table
  BY DEF do_set_cmd_entry, Table

\* Tables without a word.
LEMMA EmptyIsTable == EmptyTable \in Table
  BY Ones DEF EmptyTable, Table

\* One word of the loops that fill the tables from a data area.
Put(t, w) == IF Kept(w) THEN do_set_cmd_entry(t, w) ELSE t

\* So does the recursion over a data area, whatever the area holds.
LEMMA TablesResult ==
  ASSUME NEW words \in [Ids -> Word]
  PROVE /\ Tables(words) \in [0..Entries -> Table]
        /\ Tables(words)[0] = EmptyTable
        /\ \A i \in Ids : Tables(words)[i] = Put(Tables(words)[i - 1], words[i])
<1> DEFINE G == [i \in 1..Entries |-> [x \in Table |-> Put(x, words[i])]]
           F(f) == [i \in 0..Entries |->
                      IF i = 0 THEN EmptyTable
                      ELSE IF Kept(words[i]) THEN do_set_cmd_entry(f[i - 1], words[i])
                      ELSE f[i - 1]]
           t == CHOOSE f : f = F(f)
<1>1. Entries \in Nat /\ EmptyTable \in Table /\ Ids = 1..Entries
  BY SizeAssumption, EmptyIsTable DEF Ids
<1>2. \A i \in 1..Entries : words[i] \in Word
  BY <1>1
<1>3. \A i \in 1..Entries : \A x \in Table : Put(x, words[i]) \in Table
  BY <1>2, SetEntry DEF Put
<1>4. G \in [1..Entries -> [Table -> Table]]
  BY <1>3
<1>5. \A i \in 1..Entries : \A x \in Table : G[i][x] = Put(x, words[i])
  OBVIOUS
<1>6. Tables(words) = t
  BY DEF Tables
<1> HIDE DEF G
<1>7. \E f : f = F(f)
  <2>1. Solvable(Entries, Table, EmptyTable, G)
    BY <1>1, <1>4, Recursion
  <2>2. PICK f \in [0..Entries -> Table] :
          \A i \in 0..Entries : f[i] = IF i = 0 THEN EmptyTable ELSE G[i][f[i - 1]]
    BY <2>1 DEF Solvable
  <2>3. \A i \in 0..Entries : f[i] = IF i = 0 THEN EmptyTable ELSE Put(f[i - 1], words[i])
    <3> SUFFICES ASSUME NEW i \in 0..Entries, i # 0
                 PROVE f[i] = Put(f[i - 1], words[i])
      BY <2>2
    <3>1. i \in 1..Entries /\ i - 1 \in 0..Entries
      BY <1>1
    <3> QED BY <1>5, <2>2, <3>1
  <2>4. f = F(f)
    BY <2>3 DEF Put
  <2> QED BY <2>4
<1>8. t = F(t)
  BY <1>7
<1> HIDE DEF t
<1>9. t[0] = EmptyTable /\ \A i \in 1..Entries : t[i] = Put(t[i - 1], words[i])
  BY <1>1, <1>8 DEF Put
<1> DEFINE S == {i \in 0..Entries : t[i] \in Table}
<1>10. 0 \in S
  BY <1>1, <1>9
<1>11. ASSUME NEW i \in 1..Entries, i - 1 \in S PROVE i \in S
  BY <1>1, <1>3, <1>9, <1>11
<1> HIDE DEF S
<1>12. \A i \in 0..Entries : i \in S
  BY <1>1, <1>10, <1>11, Upwards
<1>13. t \in [0..Entries -> Table]
  <2>1. \A i \in 0..Entries : t[i] \in Table
    BY <1>12 DEF S
  <2>2. t = [i \in 0..Entries |-> t[i]]
    BY <1>8
  <2> QED BY <2>1, <2>2
<1> QED BY <1>1, <1>6, <1>9, <1>13

\* From the data area of a table the loops make that table.
LEMMA Restored ==
  ASSUME NEW words \in Table
  PROVE AllEntries(words) = words
<1> DEFINE t == Tables(words)
           S == {i \in 0..Entries :
                   \A id \in Ids : t[i][id] = IF id <= i THEN words[id] ELSE 0}
<1>1. Entries \in Nat /\ Ids = 1..Entries
  BY SizeAssumption DEF Ids
<1>2. words \in [Ids -> Word] /\ \A id \in Ids : words[id] = 0 \/ IdOf(words[id]) = id
  BY DEF Table
<1>3. /\ t \in [0..Entries -> Table] /\ t[0] = EmptyTable
      /\ \A i \in Ids : t[i] = Put(t[i - 1], words[i])
  BY <1>2, TablesResult
<1> HIDE DEF t
<1>4. 0 \in S
  BY <1>1, <1>3 DEF EmptyTable
<1>5. ASSUME NEW i \in 1..Entries, i - 1 \in S PROVE i \in S
  <2>1. t[i] = Put(t[i - 1], words[i]) /\ t[i - 1] \in [Ids -> Word]
    BY <1>1, <1>3 DEF Table
  <2>2. \A id \in Ids : t[i - 1][id] = IF id <= i - 1 THEN words[id] ELSE 0
    BY <1>5
  <2>3. words[i] # AllOnes
    BY <1>1, <1>2, WordsAssumption, Ones
  <2>4. CASE words[i] = 0
    <3>1. t[i] = t[i - 1]
      BY <2>1, <2>4 DEF Put, Kept
    <3> QED BY <1>1, <2>2, <2>4, <3>1
  <2>5. CASE words[i] # 0
    <3>1. IdOf(words[i]) = i /\ i \in Ids
      BY <1>1, <1>2, <2>5
    <3>2. t[i] = [t[i - 1] EXCEPT ![i] = words[i]]
      BY <2>1, <2>3, <2>5, <3>1 DEF Put, Kept, do_set_cmd_entry
    <3>3. \A id \in Ids : t[i][id] = IF id = i THEN words[i] ELSE t[i - 1][id]
      BY <2>1, <3>2
    <3> QED BY <1>1, <2>2, <3>3
  <2> QED BY <2>4, <2>5
<1> HIDE DEF S
<1>6. \A i \in 0..Entries : i \in S
  BY <1>1, <1>4, <1>5, Upwards
<1>7. \A id \in Ids : t[Entries][id] = words[id]
  BY <1>1, <1>6 DEF S
<1>8. t[Entries] \in [Ids -> Word]
  BY <1>1, <1>3 DEF Table
<1>9. t[Entries] = words
  BY <1>2, <1>7, <1>8
<1> QED BY <1>9 DEF AllEntries, t

\* The loops that end at the first word make a table too.
LEMMA FirstEntryTable ==
  ASSUME NEW words \in [Ids -> Word]
  PROVE FirstEntry(words) \in Table
<1>1. CASE ~AnyKept(words)
  BY <1>1, EmptyIsTable DEF FirstEntry
<1>2. CASE AnyKept(words)
  <2> DEFINE First(i) == Kept(words[i]) /\ \A j \in 1..(i - 1) : ~Kept(words[j])
             T == {i \in Ids : Kept(words[i])}
  <2>1. Ids = 1..Entries /\ Entries \in Nat
    BY SizeAssumption DEF Ids
  <2>2. T \subseteq Nat /\ T # {}
    BY <1>2, <2>1 DEF AnyKept
  <2>3. PICK i \in T : \A j \in T : i <= j
    BY <2>2, LeastNat
  <2>4. i \in Ids /\ First(i)
    BY <2>1, <2>3
  <2>5. (CHOOSE k \in Ids : First(k)) \in Ids
    BY <2>4
  <2>6. FirstEntry(words) = do_set_cmd_entry(EmptyTable, words[CHOOSE k \in Ids : First(k)])
    BY <1>2 DEF FirstEntry
  <2> HIDE DEF First
  <2> QED BY <2>5, <2>6, SetEntry, EmptyIsTable
<1> QED BY <1>1, <1>2

\* Whatever the flash holds, read_w25q16 makes tables of it,
LEMMA ReadConfigTable ==
  ASSUME TypeOK
  PROVE ReadConfig \in Table
<1>1. cfg[1].words \in [Ids -> Word] /\ cfg[2].words \in [Ids -> Word]
  BY DEF TypeOK, Copies
<1>2. AllEntries(cfg[1].words) \in Table
  BY <1>1, TablesResult, SizeAssumption DEF AllEntries
<1>3. FirstEntry(cfg[1].words) \in Table /\ FirstEntry(cfg[2].words) \in Table
  BY <1>1, FirstEntryTable
<1> QED BY <1>2, <1>3, EmptyIsTable DEF ReadConfig

\* and so it does with the volume and the input type.
LEMMA ReadVolumeTable ==
  ASSUME TypeOK, NEW t \in Table
  PROVE ReadVolume(t) \in Table
<1>1. VolCopy \in {0, 1, 2}
  BY DEF VolCopy
<1>2. CASE VolCopy = 0
  BY <1>2 DEF ReadVolume
<1>3. CASE VolCopy # 0
  <2>1. vol[VolCopy].volume \in Word /\ vol[VolCopy].input \in Word
    BY <1>1, <1>3 DEF TypeOK, Copies
  <2>2. ClampInput(vol[VolCopy].input) \in Word
    BY <2>1, WordsAssumption DEF ClampInput
  <2> QED BY <1>3, <2>1, <2>2, SetEntry DEF ReadVolume
<1> QED BY <1>2, <1>3

-----------------------------------------------------------------------------
(***************************************************************************)
(* The operations of the flash                                             *)
(***************************************************************************)
CfgCopy == [sum : Word, words : [Ids -> Word]]
VolCopyType == [sum : Word, volume : Word, input : Word]

\* A step of a save of the tables changes the copy that it writes, and of that
\* the checksum or the word it is at.
LEMMA CfgEffect ==
  ASSUME TypeOK, NEW s \in SaveStates, NEW m \in Masks, CfgOperation(s, m)
  PROVE /\ cfg' \in [Copies -> CfgCopy]
        /\ \A d \in Copies : d # s.copy => cfg'[d] = cfg[d]
        /\ s.pc = "ecs" =>
             /\ cfg'[s.copy].sum = EraseWord(cfg[s.copy].sum, m)
             /\ cfg'[s.copy].words = cfg[s.copy].words
        /\ s.pc = "edata" =>
             /\ cfg'[s.copy].sum = cfg[s.copy].sum
             /\ \A j \in Ids : cfg'[s.copy].words[j] =
                  IF j = s.i THEN EraseWord(cfg[s.copy].words[j], m)
                  ELSE cfg[s.copy].words[j]
        /\ s.pc = "word" =>
             /\ cfg'[s.copy].sum = cfg[s.copy].sum
             /\ \A j \in Ids : cfg'[s.copy].words[j] =
                  IF j = s.i THEN ProgramWord(cfg[s.copy].words[j], table[j], m)
                  ELSE cfg[s.copy].words[j]
        /\ s.pc = "cs" =>
             /\ cfg'[s.copy].sum = ProgramWord(cfg[s.copy].sum, s.sum, m)
             /\ cfg'[s.copy].words = cfg[s.copy].words
<1> DEFINE c == s.copy
           i == s.i
<1>1. c \in Copies /\ i \in Ids /\ s.sum \in Word
  BY DEF SaveStates
<1>2. cfg \in [Copies -> CfgCopy] /\ cfg[c] \in CfgCopy /\ table[i] \in Word
  BY <1>1 DEF TypeOK, CfgCopy
<1>3. cfg[c].sum \in Word /\ cfg[c].words \in [Ids -> Word] /\ cfg[c].words[i] \in Word
  BY <1>1, <1>2 DEF CfgCopy
<1>4. CASE s.pc = "ecs"
  <2>1. cfg' = [cfg EXCEPT ![c] = [cfg[c] EXCEPT !.sum = EraseWord(cfg[c].sum, m)]]
    BY <1>4 DEF CfgOperation
  <2>2. EraseWord(cfg[c].sum, m) \in Word
    BY <1>3, EraseResult
  <2> QED BY <1>1, <1>2, <1>3, <1>4, <2>1, <2>2 DEF CfgCopy
<1>5. CASE s.pc = "edata"
  <2>1. cfg' = [cfg EXCEPT ![c] = [cfg[c] EXCEPT !.words =
                  [cfg[c].words EXCEPT ![i] = EraseWord(cfg[c].words[i], m)]]]
    BY <1>5 DEF CfgOperation
  <2>2. EraseWord(cfg[c].words[i], m) \in Word
    BY <1>3, EraseResult
  <2> DEFINE w == [cfg[c].words EXCEPT ![i] = EraseWord(cfg[c].words[i], m)]
  <2>3. w \in [Ids -> Word] /\ \A j \in Ids :
          w[j] = IF j = i THEN EraseWord(cfg[c].words[j], m) ELSE cfg[c].words[j]
    BY <1>1, <1>3, <2>2
  <2>4. cfg' = [cfg EXCEPT ![c] = [cfg[c] EXCEPT !.words = w]]
    BY <2>1
  <2> HIDE DEF w
  <2> QED BY <1>1, <1>2, <1>3, <1>5, <2>3, <2>4 DEF CfgCopy
<1>6. CASE s.pc = "word"
  <2>1. cfg' = [cfg EXCEPT ![c] = [cfg[c] EXCEPT !.words =
                  [cfg[c].words EXCEPT ![i] = ProgramWord(cfg[c].words[i], table[i], m)]]]
    BY <1>6 DEF CfgOperation
  <2>2. ProgramWord(cfg[c].words[i], table[i], m) \in Word
    BY <1>2, <1>3, ProgramResult
  <2> DEFINE w == [cfg[c].words EXCEPT ![i] = ProgramWord(cfg[c].words[i], table[i], m)]
  <2>3. w \in [Ids -> Word] /\ \A j \in Ids :
          w[j] = IF j = i THEN ProgramWord(cfg[c].words[j], table[j], m) ELSE cfg[c].words[j]
    BY <1>1, <1>3, <2>2
  <2>4. cfg' = [cfg EXCEPT ![c] = [cfg[c] EXCEPT !.words = w]]
    BY <2>1
  <2> HIDE DEF w
  <2> QED BY <1>1, <1>2, <1>3, <1>6, <2>3, <2>4 DEF CfgCopy
<1>7. CASE s.pc = "cs"
  <2>1. cfg' = [cfg EXCEPT ![c] = [cfg[c] EXCEPT !.sum = ProgramWord(cfg[c].sum, s.sum, m)]]
    BY <1>7 DEF CfgOperation
  <2>2. ProgramWord(cfg[c].sum, s.sum, m) \in Word
    BY <1>1, <1>3, ProgramResult
  <2> QED BY <1>1, <1>2, <1>3, <1>7, <2>1, <2>2 DEF CfgCopy
<1> QED BY <1>4, <1>5, <1>6, <1>7 DEF CfgOperation

\* So for the volume and the input type, whose words share a sector.
LEMMA VolEffect ==
  ASSUME TypeOK, NEW s \in SaveStates, NEW m \in Masks, VolOperation(s, m)
  PROVE /\ vol' \in [Copies -> VolCopyType]
        /\ \A d \in Copies : d # s.copy => vol'[d] = vol[d]
        /\ s.pc = "ecs" =>
             /\ vol'[s.copy].sum = EraseWord(vol[s.copy].sum, m)
             /\ vol'[s.copy].volume = vol[s.copy].volume
             /\ vol'[s.copy].input = vol[s.copy].input
        /\ s.pc # "ecs" /\ s.pc # "cs" => vol'[s.copy].sum = vol[s.copy].sum
        /\ s.pc = "edata" =>
             /\ vol'[s.copy].volume = EraseWord(vol[s.copy].volume, m)
             /\ vol'[s.copy].input = EraseWord(vol[s.copy].input, m)
        /\ s.pc = "get" => vol' = vol
        /\ s.pc = "volume" =>
             /\ vol'[s.copy].volume = ProgramWord(vol[s.copy].volume, s.data, m)
             /\ vol'[s.copy].input = vol[s.copy].input
        /\ s.pc = "input" =>
             /\ vol'[s.copy].volume = vol[s.copy].volume
             /\ vol'[s.copy].input = ProgramWord(vol[s.copy].input, g_input_type, m)
        /\ s.pc = "cs" =>
             /\ vol'[s.copy].sum = ProgramWord(vol[s.copy].sum, s.sum, m)
             /\ vol'[s.copy].volume = vol[s.copy].volume
             /\ vol'[s.copy].input = vol[s.copy].input
<1> DEFINE c == s.copy
<1>1. c \in Copies /\ s.sum \in Word /\ s.data \in Word /\ g_input_type \in Word
  BY DEF SaveStates, TypeOK
<1>2. vol \in [Copies -> VolCopyType] /\ vol[c] \in VolCopyType
  BY <1>1 DEF TypeOK, VolCopyType
<1>3. vol[c].sum \in Word /\ vol[c].volume \in Word /\ vol[c].input \in Word
  BY <1>2 DEF VolCopyType
<1>4. CASE s.pc = "ecs"
  <2>1. vol' = [vol EXCEPT ![c] = [vol[c] EXCEPT !.sum = EraseWord(vol[c].sum, m)]]
    BY <1>4 DEF VolOperation
  <2>2. EraseWord(vol[c].sum, m) \in Word
    BY <1>3, EraseResult
  <2> QED BY <1>1, <1>2, <1>4, <2>1, <2>2 DEF VolCopyType
<1>5. CASE s.pc = "edata"
  <2>1. vol' = [vol EXCEPT ![c].volume = EraseWord(vol[c].volume, m),
                           ![c].input = EraseWord(vol[c].input, m)]
    BY <1>1, <1>2, <1>5 DEF VolOperation, VolCopyType
  <2>2. EraseWord(vol[c].volume, m) \in Word /\ EraseWord(vol[c].input, m) \in Word
    BY <1>3, EraseResult
  <2>3. vol'[c] = [vol[c] EXCEPT !.volume = EraseWord(vol[c].volume, m),
                                 !.input = EraseWord(vol[c].input, m)]
    BY <1>1, <1>2, <2>1
  <2>4. \A d \in Copies : d # c => vol'[d] = vol[d]
    BY <1>1, <1>2, <2>1
  <2>5. vol'[c] \in VolCopyType /\ vol'[c].sum = vol[c].sum
        /\ vol'[c].volume = EraseWord(vol[c].volume, m)
        /\ vol'[c].input = EraseWord(vol[c].input, m)
    BY <1>2, <2>2, <2>3 DEF VolCopyType
  <2>6. vol' = [d \in Copies |-> vol'[d]]
    BY <1>1, <1>2, <2>1
  <2>7. \A d \in Copies : vol'[d] \in VolCopyType
    BY <1>2, <2>4, <2>5
  <2>8. vol' \in [Copies -> VolCopyType]
    BY <2>6, <2>7
  <2> QED BY <1>5, <2>4, <2>5, <2>8
<1>6. CASE s.pc = "get"
  BY <1>2, <1>6 DEF VolOperation
<1>7. CASE s.pc = "volume"
  <2>1. vol' = [vol EXCEPT ![c] =
                  [vol[c] EXCEPT !.volume = ProgramWord(vol[c].volume, s.data, m)]]
    BY <1>7 DEF VolOperation
  <2>2. ProgramWord(vol[c].volume, s.data, m) \in Word
    BY <1>1, <1>3, ProgramResult
  <2> QED BY <1>1, <1>2, <1>7, <2>1, <2>2 DEF VolCopyType
<1>8. CASE s.pc = "input"
  <2>1. vol' = [vol EXCEPT ![c] =
                  [vol[c] EXCEPT !.input = ProgramWord(vol[c].input, g_input_type, m)]]
    BY <1>8 DEF VolOperation
  <2>2. ProgramWord(vol[c].input, g_input_type, m) \in Word
    BY <1>1, <1>3, ProgramResult
  <2> QED BY <1>1, <1>2, <1>8, <2>1, <2>2 DEF VolCopyType
<1>9. CASE s.pc = "cs"
  <2>1. vol' = [vol EXCEPT ![c] = [vol[c] EXCEPT !.sum = ProgramWord(vol[c].sum, s.sum, m)]]
    BY <1>9 DEF VolOperation
  <2>2. ProgramWord(vol[c].sum, s.sum, m) \in Word
    BY <1>1, <1>3, ProgramResult
  <2> QED BY <1>1, <1>2, <1>9, <2>1, <2>2 DEF VolCopyType
<1> QED BY <1>4, <1>5, <1>6, <1>7, <1>8, <1>9 DEF VolOperation

(***************************************************************************)
(* The order of the steps                                                  *)
(***************************************************************************)
\* What follows the erasure of a sector, by region.
LEMMA AfterErases ==
  ASSUME NEW s, s.region \in Regions
  PROVE /\ s.region = "vol" => AfterErase(s) = [s EXCEPT !.pc = "get"]
        /\ s.region = "cfg" /\ s.i < Entries => AfterErase(s) = [s EXCEPT !.i = s.i + 1]
        /\ s.region = "cfg" /\ ~(s.i < Entries)
             => AfterErase(s) = [s EXCEPT !.pc = "word", !.i = 1]
<1>1. CASE s.region = "vol"
  BY <1>1, Zenon DEF AfterErase
<1>2. CASE s.region = "cfg" /\ s.i < Entries
  BY <1>2, Zenon DEF AfterErase
<1>3. CASE s.region = "cfg" /\ ~(s.i < Entries)
  BY <1>3, Zenon DEF AfterErase
<1> QED BY <1>1, <1>2, <1>3 DEF Regions

\* What follows a copy.
LEMMA NextCopies ==
  ASSUME NEW s, s.region \in Regions, s.copy \in Copies
  PROVE /\ s.copy = 1 =>
             NextCopy(s) = [NoSave EXCEPT !.pc = "ecs", !.region = s.region, !.copy = 2]
        /\ s.copy = 2 /\ s.region = "cfg" => NextCopy(s) = [NoSave EXCEPT !.pc = "ecs"]
        /\ s.copy = 2 /\ s.region = "vol" => NextCopy(s) = NoSave
<1>0. 1 # 2
  OBVIOUS
<1>1. CASE s.copy = 1
  <2>1. s.copy # 2
    BY <1>1
  <2> QED BY <1>1, <2>1, Zenon DEF NextCopy
<1>2. CASE s.copy = 2 /\ s.region = "cfg"
  <2>1. s.copy # 1
    BY <1>2
  <2> QED BY <1>2, <2>1, Zenon DEF NextCopy
<1>3. CASE s.copy = 2 /\ s.region = "vol"
  <2>1. s.copy # 1
    BY <1>3
  <2> QED BY <1>3, <2>1, Zenon DEF NextCopy
<1> QED BY <1>1, <1>2, <1>3 DEF Regions, Copies

\* What follows each step, one line of Advance at a time.
LEMMA Advances ==
  ASSUME NEW s
  PROVE /\ s.pc = "ecs" => Advance(s) = [s EXCEPT !.pc = "edata"]
        /\ s.pc = "edata" => Advance(s) = AfterErase(s)
        /\ s.pc = "word" => Advance(s) = AfterWord(s)
        /\ s.pc = "get" =>
             Advance(s) = [s EXCEPT !.pc = "volume", !.data = do_get_data(table, VOLUME)]
        /\ s.pc = "volume" => Advance(s) = [s EXCEPT !.pc = "input", !.sum = Add(s.sum, s.data)]
        /\ s.pc = "input" =>
             Advance(s) = [s EXCEPT !.pc = "cs", !.sum = Add(s.sum, g_input_type)]
        /\ s.pc = "cs" => Advance(s) = NextCopy(s)
<1>1. s.pc = "ecs" => Advance(s) = [s EXCEPT !.pc = "edata"]
  BY Zenon DEF Advance
<1>2. s.pc = "edata" => Advance(s) = AfterErase(s)
  BY Zenon DEF Advance
<1>3. s.pc = "word" => Advance(s) = AfterWord(s)
  BY Zenon DEF Advance
<1>4. s.pc = "get" =>
        Advance(s) = [s EXCEPT !.pc = "volume", !.data = do_get_data(table, VOLUME)]
  BY Zenon DEF Advance
<1>5. s.pc = "volume" => Advance(s) = [s EXCEPT !.pc = "input", !.sum = Add(s.sum, s.data)]
  BY Zenon DEF Advance
<1>6. s.pc = "input" => Advance(s) = [s EXCEPT !.pc = "cs", !.sum = Add(s.sum, g_input_type)]
  BY Zenon DEF Advance
<1>7. s.pc = "cs" => Advance(s) = NextCopy(s)
  BY Zenon DEF Advance
<1> QED BY <1>1, <1>2, <1>3, <1>4, <1>5, <1>6, <1>7

\* What a step adds to the history of the data areas,
LEMMA VersionsOf ==
  ASSUME NEW s
  PROVE /\ s.pc = "word" /\ s.i = Entries =>
             Versions(s) = [version EXCEPT !.cfg = [version.cfg EXCEPT ![s.copy] = table]]
        /\ s.pc = "input" =>
             Versions(s) = [version EXCEPT !.vol =
                              [version.vol EXCEPT ![s.copy] = <<s.data, g_input_type>>]]
        /\ ~(s.pc = "word" /\ s.i = Entries) /\ s.pc # "input" => Versions(s) = version
<1>1. CASE s.pc = "word" /\ s.i = Entries
  BY <1>1, Zenon DEF Versions
<1>2. CASE s.pc = "input"
  BY <1>2, Zenon DEF Versions
<1>3. CASE ~(s.pc = "word" /\ s.i = Entries) /\ s.pc # "input"
  BY <1>3, Zenon DEF Versions
<1> QED BY <1>1, <1>2, <1>3

\* and to how far the save of a region has come.
LEMMA StatusesOf ==
  ASSUME NEW s
  PROVE /\ s.pc = "ecs" /\ s.copy = 1 /\ status[s.region] = "saved" =>
             Statuses(s) = [status EXCEPT ![s.region] = "rewriting"]
        /\ s.pc = "ecs" /\ s.copy = 1 /\ status[s.region] = "spoilt" /\ Alone(s.region) =>
             Statuses(s) = [status EXCEPT ![s.region] = "healing"]
        /\ s.pc = "cs" /\ s.copy = 2 /\ status[s.region] # "spoilt" =>
             Statuses(s) = [status EXCEPT ![s.region] = "saved"]
        /\ ~(s.pc = "ecs" /\ s.copy = 1 /\ status[s.region] = "saved")
           /\ ~(s.pc = "ecs" /\ s.copy = 1 /\ status[s.region] = "spoilt" /\ Alone(s.region))
           /\ ~(s.pc = "cs" /\ s.copy = 2 /\ status[s.region] # "spoilt")
             => Statuses(s) = status
<1> DEFINE a == s.pc = "ecs" /\ s.copy = 1 /\ status[s.region] = "saved"
           b == s.pc = "ecs" /\ s.copy = 1 /\ status[s.region] = "spoilt" /\ Alone(s.region)
           c == s.pc = "cs" /\ s.copy = 2 /\ status[s.region] # "spoilt"
<1>1. CASE a
  BY <1>1, Zenon DEF Statuses
<1>2. CASE b
  BY <1>2, Zenon DEF Statuses
<1>3. CASE c
  BY <1>3, Zenon DEF Statuses
<1>4. CASE ~a /\ ~b /\ ~c
  BY <1>4, Zenon DEF Statuses
<1> QED BY <1>1, <1>2, <1>3, <1>4

\* The state of a process that saves nothing.
LEMMA NoSaveState ==
  /\ NoSave \in SaveStates /\ NoSave.pc = "none" /\ NoSave.region = "vol"
  /\ NoSave.copy = 1 /\ NoSave.i = 1 /\ NoSave.sum = 0 /\ Shape(NoSave)
  BY Ones, SizeAssumption DEF NoSave, SaveStates, Regions, Copies, Ids, INPUT_TYPE, Shape

\* A save that starts to write a copy.
Fresh(r, c) == [pc |-> "ecs", region |-> r, copy |-> c, i |-> 1, data |-> 0, sum |-> 0]

\* Its step, region, copy, slot and sum.
LEMMA FreshCopy ==
  ASSUME NEW r \in Regions, NEW c \in Copies
  PROVE /\ Fresh(r, c) \in SaveStates
        /\ Fresh(r, c).pc = "ecs" /\ Fresh(r, c).region = r /\ Fresh(r, c).copy = c
        /\ Fresh(r, c).i = 1 /\ Fresh(r, c).sum = 0
        /\ Shape(Fresh(r, c))
<1>1. 1 \in Ids /\ 0 \in Word
  BY Ones, SizeAssumption DEF Ids, INPUT_TYPE
<1> QED BY <1>1 DEF Fresh, SaveStates, Shape

\* The ways in which the actions name such a save.
LEMMA FreshAs ==
  /\ \A r : [NoSave EXCEPT !.pc = "ecs", !.region = r, !.copy = 2] = Fresh(r, 2)
  /\ \A r : [NoSave EXCEPT !.pc = "ecs", !.region = r] = Fresh(r, 1)
  /\ [NoSave EXCEPT !.pc = "ecs"] = Fresh("vol", 1)
<1> DEFINE a == [NoSave EXCEPT !.pc = "ecs"]
           b(r) == [a EXCEPT !.region = r]
<1>1. a = Fresh("vol", 1)
  BY DEF NoSave, Fresh
<1>2. /\ \A r : [NoSave EXCEPT !.pc = "ecs", !.region = r, !.copy = 2] = [b(r) EXCEPT !.copy = 2]
      /\ \A r : [NoSave EXCEPT !.pc = "ecs", !.region = r] = b(r)
      /\ [NoSave EXCEPT !.pc = "ecs"] = a
  OBVIOUS
<1> HIDE DEF a
<1>3. \A r : b(r) = Fresh(r, 1)
  BY <1>1 DEF Fresh
<1> HIDE DEF b
<1>4. \A r : [b(r) EXCEPT !.copy = 2] = Fresh(r, 2)
  BY <1>3 DEF Fresh
<1> QED BY <1>1, <1>2, <1>3, <1>4

\* The step that follows step s.
LEMMA AdvanceResult ==
  ASSUME TypeOK, NEW s \in SaveStates, s.pc # "none"
  PROVE /\ Advance(s) \in SaveStates
        /\ s.pc # "cs" => Advance(s).region = s.region /\ Advance(s).copy = s.copy
        /\ s.pc = "ecs" => Advance(s).pc = "edata" /\ Advance(s).i = s.i /\ Advance(s).sum = s.sum
        /\ s.pc = "edata" /\ s.region = "vol" => Advance(s).pc = "get" /\ Advance(s).sum = s.sum
        /\ s.pc = "edata" /\ s.region = "cfg" /\ s.i < Entries =>
             Advance(s).pc = "edata" /\ Advance(s).i = s.i + 1 /\ Advance(s).sum = s.sum
        /\ s.pc = "edata" /\ s.region = "cfg" /\ ~(s.i < Entries) =>
             Advance(s).pc = "word" /\ Advance(s).i = 1 /\ Advance(s).sum = s.sum
        /\ s.pc = "word" =>
             /\ Advance(s).sum = Add(s.sum, table[s.i])
             /\ s.i = Entries => Advance(s).pc = "cs"
             /\ s.i # Entries => Advance(s).pc = "word" /\ Advance(s).i = s.i + 1
        /\ s.pc = "get" =>
             /\ Advance(s).pc = "volume" /\ Advance(s).sum = s.sum
             /\ Advance(s).data = do_get_data(table, VOLUME)
        /\ s.pc = "volume" =>
             /\ Advance(s).pc = "input" /\ Advance(s).sum = Add(s.sum, s.data)
             /\ Advance(s).data = s.data
        /\ s.pc = "input" =>
             Advance(s).pc = "cs" /\ Advance(s).sum = Add(s.sum, g_input_type)
        /\ s.pc = "cs" /\ s.copy = 1 =>
             /\ Advance(s).pc = "ecs" /\ Advance(s).region = s.region /\ Advance(s).copy = 2
             /\ Advance(s).i = 1 /\ Advance(s).sum = 0
        /\ s.pc = "cs" /\ s.copy = 2 /\ s.region = "cfg" =>
             /\ Advance(s).pc = "ecs" /\ Advance(s).region = "vol" /\ Advance(s).copy = 1
             /\ Advance(s).i = 1 /\ Advance(s).sum = 0
        /\ s.pc = "cs" /\ s.copy = 2 /\ s.region = "vol" => Advance(s) = NoSave
<1>1. /\ s.region \in Regions /\ s.copy \in Copies /\ s.i \in Ids /\ s.data \in Word
      /\ s.sum \in Word
      /\ s.pc \in {"ecs", "edata", "word", "get", "volume", "input", "cs"}
  BY DEF SaveStates
<1>2. /\ table \in [Ids -> Word] /\ g_input_type \in Word /\ Entries \in Nat
      /\ Ids = 1..Entries /\ Entries >= 2
  BY SizeAssumption DEF TypeOK, Ids, INPUT_TYPE
<1>3. CASE s.pc = "ecs"
  <2>1. Advance(s) = [s EXCEPT !.pc = "edata"]
    BY <1>3, Advances
  <2> QED BY <1>3, <2>1 DEF SaveStates
<1>4. CASE s.pc = "edata"
  <2>1. Advance(s) = AfterErase(s)
    BY <1>4, Advances
  <2>2. CASE s.region = "vol"
    <3>1. Advance(s) = [s EXCEPT !.pc = "get"]
      BY <1>1, <2>1, <2>2, AfterErases
    <3> QED BY <1>4, <2>2, <3>1 DEF SaveStates
  <2>3. CASE s.region = "cfg" /\ s.i < Entries
    <3>1. Advance(s) = [s EXCEPT !.i = s.i + 1]
      BY <1>1, <2>1, <2>3, AfterErases
    <3>2. s.i + 1 \in Ids
      BY <1>1, <1>2, <2>3
    <3> QED BY <1>4, <2>3, <3>1, <3>2 DEF SaveStates
  <2>4. CASE s.region = "cfg" /\ ~(s.i < Entries)
    <3>1. Advance(s) = [s EXCEPT !.pc = "word", !.i = 1]
      BY <1>1, <2>1, <2>4, AfterErases
    <3>2. 1 \in Ids
      BY <1>2
    <3> QED BY <1>4, <2>4, <3>1, <3>2 DEF SaveStates
  <2> QED BY <1>1, <2>2, <2>3, <2>4 DEF Regions
<1>5. CASE s.pc = "word"
  <2>1. Advance(s) = AfterWord(s)
    BY <1>5, Advances
  <2>2. Add(s.sum, table[s.i]) \in Word
    BY <1>1, <1>2, AddResult
  <2>3. 1 \in Ids /\ (s.i # Entries => s.i + 1 \in Ids)
    BY <1>1, <1>2
  <2>4. CASE s.i = Entries
    <3>1. Advance(s) = [s EXCEPT !.pc = "cs", !.i = 1, !.sum = Add(s.sum, table[s.i])]
      BY <2>1, <2>4 DEF AfterWord
    <3> QED BY <1>5, <2>2, <2>3, <2>4, <3>1 DEF SaveStates
  <2>5. CASE s.i # Entries
    <3>1. Advance(s) = [s EXCEPT !.pc = "word", !.i = s.i + 1, !.sum = Add(s.sum, table[s.i])]
      BY <2>1, <2>5 DEF AfterWord
    <3> QED BY <1>5, <2>2, <2>3, <2>5, <3>1 DEF SaveStates
  <2> QED BY <2>4, <2>5
<1>6. CASE s.pc = "get"
  <2>1. Advance(s) = [s EXCEPT !.pc = "volume", !.data = do_get_data(table, VOLUME)]
    BY <1>6, Advances
  <2>2. do_get_data(table, VOLUME) \in Word
    BY <1>2, Ones DEF do_get_data, VOLUME
  <2> QED BY <1>6, <2>1, <2>2 DEF SaveStates
<1>7. CASE s.pc = "volume"
  <2>1. Advance(s) = [s EXCEPT !.pc = "input", !.sum = Add(s.sum, s.data)]
    BY <1>7, Advances
  <2>2. Add(s.sum, s.data) \in Word
    BY <1>1, AddResult
  <2> QED BY <1>7, <2>1, <2>2 DEF SaveStates
<1>8. CASE s.pc = "input"
  <2>1. Advance(s) = [s EXCEPT !.pc = "cs", !.sum = Add(s.sum, g_input_type)]
    BY <1>8, Advances
  <2>2. Add(s.sum, g_input_type) \in Word
    BY <1>1, <1>2, AddResult
  <2> QED BY <1>8, <2>1, <2>2 DEF SaveStates
<1>9. CASE s.pc = "cs"
  <2>1. Advance(s) = NextCopy(s)
    BY <1>9, Advances
  <2>2. CASE s.copy = 1
    <3>1. Advance(s) = Fresh(s.region, 2)
      BY <1>1, <2>1, <2>2, NextCopies, FreshAs
    <3>2. 2 \in Copies
      BY DEF Copies
    <3> QED BY <1>1, <1>9, <2>2, <3>1, <3>2, FreshCopy
  <2>3. CASE s.copy = 2 /\ s.region = "cfg"
    <3>1. Advance(s) = Fresh("vol", 1)
      BY <1>1, <2>1, <2>3, NextCopies, FreshAs
    <3>2. "vol" \in Regions /\ 1 \in Copies
      BY DEF Regions, Copies
    <3> QED BY <1>9, <2>3, <3>1, <3>2, FreshCopy
  <2>4. CASE s.copy = 2 /\ s.region = "vol"
    <3>1. Advance(s) = NoSave
      BY <1>1, <2>1, <2>4, NextCopies
    <3> QED BY <1>9, <2>4, <3>1, NoSaveState
  <2> QED BY <1>1, <2>2, <2>3, <2>4 DEF Copies, Regions
<1> QED BY <1>1, <1>3, <1>4, <1>5, <1>6, <1>7, <1>8, <1>9

\* The volume that a save reads is odd: the one in the table, or all ones.
LEMMA GetVolume ==
  ASSUME HostInv
  PROVE Odd(do_get_data(table, VOLUME))
<1>1. table \in Table /\ VOLUME \in Ids /\ VOLUME # 0
  BY SizeAssumption DEF HostInv, Ids, VOLUME, INPUT_TYPE
<1>2. table[VOLUME] \in Word /\ (table[VOLUME] # 0 => IdOf(table[VOLUME]) # 0)
  BY <1>1 DEF Table
<1> QED BY <1>2, IdOdd, Ones DEF do_get_data

\* A save keeps its shape.
LEMMA ShapeKept ==
  ASSUME TypeOK, HostInv, NEW s \in SaveStates, s.pc # "none", Shape(s)
  PROVE Shape(Advance(s))
<1>1. s.pc \in {"ecs", "edata", "word", "get", "volume", "input", "cs"}
      /\ s.region \in Regions /\ s.copy \in Copies
  BY DEF SaveStates
<1>2. CASE s.pc \in {"ecs", "edata", "word"}
  BY <1>1, <1>2, AdvanceResult DEF Shape, Regions
<1>3. CASE s.pc \in {"get", "volume", "input"}
  BY <1>1, <1>3, AdvanceResult, GetVolume DEF Shape, Regions
<1>4. CASE s.pc = "cs" /\ ~(s.copy = 2 /\ s.region = "vol")
  BY <1>1, <1>4, AdvanceResult DEF Shape, Regions, Copies
<1>5. CASE s.pc = "cs" /\ s.copy = 2 /\ s.region = "vol"
  BY <1>5, AdvanceResult, NoSaveState
<1> QED BY <1>1, <1>2, <1>3, <1>4, <1>5

-----------------------------------------------------------------------------
(***************************************************************************)
(* What a step leaves alone                                                *)
(***************************************************************************)
\* A step that does not touch the tables in the flash, nor the table under a
\* save of them.
LEMMA CfgFrame ==
  ASSUME CfgProgress, CfgCopies,
         cfg' = cfg, version'.cfg = version.cfg, status'.cfg = status.cfg,
         AtCfg' <=> AtCfg,
         AtCfg => save'["tcp"] = save["tcp"] /\ table' = table
  PROVE CfgProgress' /\ CfgCopies'
<1>1. \A c \in Copies : Intact(c)' <=> Intact(c)
  BY DEF Intact
<1>2. 1 \in Copies /\ 2 \in Copies
  BY DEF Copies
<1>3. CASE AtCfg
  <2>1. AtCfg' /\ save'["tcp"] = save["tcp"] /\ table' = table
    BY <1>3
  <2>2. CfgProgress'
    BY <1>3, <2>1 DEF CfgProgress
  <2>3. CfgCopies'
    BY <1>1, <1>2, <1>3, <2>1 DEF CfgCopies
  <2> QED BY <2>2, <2>3
<1>4. CASE ~AtCfg
  BY <1>1, <1>2, <1>4 DEF CfgProgress, CfgCopies
<1> QED BY <1>3, <1>4

\* A step that does not touch the volume and the input type in the flash.
LEMMA VolFrame ==
  ASSUME VolInv,
         vol' = vol, version'.vol = version.vol, status'.vol = status.vol,
         status.vol # "spoilt" => \A p \in Procs : /\ AtVol(p)' <=> AtVol(p)
                                                   /\ AtVol(p) => save'[p] = save[p]
  PROVE VolInv'
<1> SUFFICES ASSUME status.vol # "spoilt"
             PROVE DataInv' /\ PairInv' /\ \A p \in Procs : VolProgress(p)' /\ VolCopies(p)'
  BY DEF VolInv
<1>1. status'.vol # "spoilt" /\ DataInv /\ PairInv /\ \A p \in Procs : VolProgress(p) /\ VolCopies(p)
  BY DEF VolInv
<1>2. \A c \in Copies : (PairHeld(c)' <=> PairHeld(c)) /\ (PairIntact(c)' <=> PairIntact(c))
  BY DEF PairHeld, PairIntact, PairSum
<1>3. 1 \in Copies /\ 2 \in Copies
  BY DEF Copies
<1>4. DataInv'
  BY <1>1, <1>2 DEF DataInv
<1>5. PairInv'
  BY <1>1, <1>2, <1>3 DEF PairInv
<1>6. ASSUME NEW p \in Procs PROVE VolProgress(p)' /\ VolCopies(p)'
  <2>1. (AtVol(p)' <=> AtVol(p)) /\ (AtVol(p) => save'[p] = save[p])
    OBVIOUS
  <2>2. VolProgress(p)'
    BY <1>1, <2>1 DEF VolProgress
  <2>3. VolCopies(p)'
    BY <1>1, <1>2, <1>3, <2>1 DEF VolCopies
  <2> QED BY <2>2, <2>3
<1> QED BY <1>4, <1>5, <1>6

\* A step that touches none of the saves and nothing in the flash.
LEMMA FlashFrame ==
  ASSUME IndInv, UNCHANGED <<cfg, vol, save, version, status>>,
         Saving("tcp") => table' = table
  PROVE CfgProgress' /\ CfgCopies' /\ VolInv'
<1>1. AtCfg' <=> AtCfg
  BY DEF AtCfg, Saving
<1>2. AtCfg => table' = table
  BY DEF AtCfg
<1>3. \A p \in Procs : AtVol(p)' <=> AtVol(p)
  BY DEF AtVol, Saving
<1>4. CfgProgress' /\ CfgCopies'
  BY <1>1, <1>2, CfgFrame DEF IndInv
<1>5. VolInv'
  BY <1>3, VolFrame DEF IndInv
<1> QED BY <1>4, <1>5

-----------------------------------------------------------------------------
(***************************************************************************)
(* The actions                                                             *)
(***************************************************************************)
\* A new device.
LEMMA InitInv == Init => IndInv
<1> SUFFICES ASSUME Init PROVE IndInv
  OBVIOUS
<1>1. TypeOK
  <2>1. table \in [Ids -> Word] /\ Erased \in [Ids -> Word]
    BY Ones DEF Init, EmptyTable, Erased
  <2>2. save \in [Procs -> SaveStates]
    BY NoSaveState DEF Init
  <2>3. g_input_type \in Word
    BY WordsAssumption DEF Init
  <2>4. cfg \in [Copies -> [sum : Word, words : [Ids -> Word]]]
        /\ vol \in [Copies -> [sum : Word, volume : Word, input : Word]]
    BY <2>1, Ones DEF Init
  <2>5. status \in [Regions -> StatusValues]
    BY DEF Init, StatusValues
  <2>6. changes \in 0..MaxChanges /\ saves \in 0..MaxSaves /\ crashes \in 0..MaxCrashes
    BY BoundAssumption DEF Init
  <2>7. up \in BOOLEAN /\ deaf \in Nat
    BY DEF Init
  <2> QED BY <2>1, <2>2, <2>3, <2>4, <2>5, <2>6, <2>7 DEF TypeOK
<1>2. ~Saving("tcp") /\ ~Saving("idle") /\ save["idle"].region = "vol"
      /\ \A p \in Procs : save[p].pc = "none" /\ Shape(save[p])
  BY NoSaveState DEF Init, Saving, Procs
<1>3. Odd(g_input_type)
  BY WordsAssumption, IdOdd DEF Init, INPUT_TYPE
<1>4. version \in [cfg : [Copies -> Table], vol : [Copies -> Pair]]
  <2>1. NoPair \in Pair
    BY Ones DEF NoPair, Pair
  <2> QED BY <2>1, EmptyIsTable DEF Init
<1>5. HostInv
  BY <1>2, <1>3, <1>4, EmptyIsTable DEF HostInv, Init
<1>6. CfgProgress /\ CfgCopies
  BY <1>2 DEF CfgProgress, CfgCopies, AtCfg, Init, Regions
<1>7. DataInv
  BY Ones DEF DataInv, Init
<1>8. VolInv
  BY <1>2, <1>7 DEF VolInv, PairInv, VolProgress, VolCopies, AtVol, Saving, Init, Regions
<1> QED BY <1>1, <1>5, <1>6, <1>8 DEF IndInv

\* What is read from the flash are tables, and the input type is an odd word.
LEMMA BootInv ==
  ASSUME IndInv, Boot
  PROVE IndInv'
<1>1. TypeOK /\ HostInv /\ ~up
  BY DEF IndInv, Boot
<1>2. table' \in Table
  <2>1. table' = ReadVolume(ReadConfig)
    BY DEF Boot
  <2> QED BY <1>1, <2>1, ReadConfigTable, ReadVolumeTable
<1>3. table' \in [Ids -> Word] /\ \A id \in Ids : table'[id] = 0 \/ IdOf(table'[id]) = id
  BY <1>2 DEF Table
<1>4. g_input_type' \in Word /\ Odd(g_input_type')
  <2>1. INPUT_TYPE \in Ids /\ INPUT_TYPE # 0
    BY SizeAssumption DEF Ids, INPUT_TYPE
  <2>2. INIT_INPUT \in Word /\ IdOf(INIT_INPUT) = INPUT_TYPE
    BY WordsAssumption
  <2>3. table'[INPUT_TYPE] \in Word /\ (table'[INPUT_TYPE] # 0 => IdOf(table'[INPUT_TYPE]) # 0)
    BY <1>3, <2>1
  <2>4. g_input_type' = IF table'[INPUT_TYPE] = 0 THEN INIT_INPUT ELSE table'[INPUT_TYPE]
    BY DEF Boot
  <2> QED BY <2>1, <2>2, <2>3, <2>4, IdOdd
<1>5. TypeOK'
  BY <1>1, <1>3, <1>4 DEF TypeOK, Boot
<1>6. HostInv'
  BY <1>1, <1>2, <1>4 DEF HostInv, Boot, Saving
<1>7. ~Saving("tcp")
  BY <1>1 DEF HostInv
<1>8. CfgProgress' /\ CfgCopies' /\ VolInv'
  BY <1>7, FlashFrame DEF Boot
<1> QED BY <1>5, <1>6, <1>8 DEF IndInv

\* A change of the tables keeps every word under its identifier.
LEMMA ChangeInv ==
  ASSUME IndInv, NEW w \in Changes, Change(w)
  PROVE IndInv'
<1>1. TypeOK /\ HostInv /\ w \in Word
  BY WordsAssumption DEF IndInv
<1>2. table' \in Table
  BY <1>1, SetEntry DEF HostInv, Change
<1>3. TypeOK'
  BY <1>1, <1>2, BoundAssumption DEF TypeOK, Change, Table
<1>4. HostInv'
  BY <1>1, <1>2 DEF HostInv, Change, Saving
<1>5. CfgProgress' /\ CfgCopies' /\ VolInv'
  BY FlashFrame DEF Change
<1> QED BY <1>3, <1>4, <1>5 DEF IndInv

\* A key selects an odd word.
LEMMA KeySelectInv ==
  ASSUME IndInv, NEW w \in Inputs, KeySelect(w)
  PROVE IndInv'
<1>1. TypeOK /\ HostInv /\ w \in Word /\ Odd(w)
  BY WordsAssumption, IdOdd DEF IndInv, INPUT_TYPE
<1>2. TypeOK'
  BY <1>1, BoundAssumption DEF TypeOK, KeySelect
<1>3. HostInv'
  BY <1>1 DEF HostInv, KeySelect, Saving
<1>4. CfgProgress' /\ CfgCopies' /\ VolInv'
  BY FlashFrame DEF KeySelect
<1> QED BY <1>2, <1>3, <1>4 DEF IndInv

\* Where tcpserv's save begins, it begins with copy 1 of the tables; a save of
\* the idle timer's that it interrupts is spoilt.
LEMMA TcpBeginsInv ==
  ASSUME IndInv, up, up' = up, ~Saving("tcp"), NEW sv \in [Procs -> SaveStates],
         save' = TcpBegins(sv), Shape(sv["idle"]), sv["idle"].region = "vol",
         UNCHANGED <<table, g_input_type, cfg, version>>,
         vol' \in [Copies -> VolCopyType], saves' \in 0..MaxSaves,
         UNCHANGED <<changes, crashes>>, status' \in [Regions -> StatusValues],
         status'.cfg \in {status.cfg, "spoilt"},
         deaf' \in Nat, deaf' > 0 => status'.cfg = "spoilt" /\ status'.vol = "spoilt",
         \/ status'.vol = "spoilt"
         \/ sv["idle"].pc = "none" /\ ~Saving("idle") /\ vol' = vol /\ status'.vol = status.vol
  PROVE IndInv'
<1> DEFINE s == Fresh("cfg", 1)
<1>1. /\ s \in SaveStates /\ s.pc = "ecs" /\ s.region = "cfg" /\ s.copy = 1
      /\ s.i = 1 /\ s.sum = 0 /\ Shape(s)
  BY FreshCopy DEF Regions, Copies
<1>2. TypeOK /\ HostInv /\ CfgProgress /\ CfgCopies /\ VolInv
      /\ "tcp" \in Procs /\ "idle" \in Procs
  BY DEF IndInv, Procs
<1>3. save' = [sv EXCEPT !["tcp"] = s]
  BY FreshAs DEF TcpBegins
<1> HIDE DEF s
<1>4. save'["tcp"] = s /\ save'["idle"] = sv["idle"] /\ save' \in [Procs -> SaveStates]
  BY <1>1, <1>2, <1>3
<1>5. TypeOK'
  BY <1>2, <1>4 DEF TypeOK, VolCopyType
<1>6. AtCfg' /\ ~AtCfg /\ Saving("tcp")'
  BY <1>1, <1>2, <1>4 DEF AtCfg, Saving
<1>7. HostInv'
  <2>1. \A p \in Procs : Shape(save'[p])
    BY <1>1, <1>2, <1>4 DEF Procs
  <2>2. Saving("idle")' => status'.vol = "spoilt"
    BY <1>4 DEF Saving
  <2> QED BY <1>2, <1>4, <1>6, <2>1, <2>2 DEF HostInv
<1>8. CfgProgress'
  BY <1>1, <1>4 DEF CfgProgress, CfgStage
<1>9. CfgCopies'
  <2>1. \A c \in Copies : Intact(c)' <=> Intact(c)
    BY DEF Intact
  <2>2. version' = version /\ 1 # 2 /\ 1 \in Copies /\ 2 \in Copies
    BY DEF Copies
  <2> QED BY <1>1, <1>2, <1>4, <1>6, <2>1, <2>2 DEF CfgCopies
<1>10. VolInv'
  <2>1. CASE status'.vol = "spoilt"
    BY <2>1 DEF VolInv
  <2>2. CASE sv["idle"].pc = "none" /\ ~Saving("idle") /\ vol' = vol /\ status'.vol = status.vol
    <3>1. \A p \in Procs : ~AtVol(p) /\ ~AtVol(p)'
      BY <1>1, <1>2, <1>4, <2>2 DEF AtVol, Saving, Procs
    <3> QED BY <1>2, <2>2, <3>1, VolFrame
  <2> QED BY <2>1, <2>2
<1> QED BY <1>5, <1>7, <1>8, <1>9, <1>10 DEF IndInv

\* It may begin between two operations of the flash.
LEMMA TcpSaveInv ==
  ASSUME IndInv, TcpSave
  PROVE IndInv'
<1>1. TypeOK /\ HostInv /\ "tcp" \in Procs /\ "idle" \in Procs
  BY DEF IndInv, Procs
<1>2. /\ up /\ up' = up /\ ~Saving("tcp") /\ save' = TcpBegins(save)
      /\ UNCHANGED <<table, g_input_type, cfg, version, changes, crashes>>
      /\ vol' = vol /\ deaf' = deaf /\ saves' = saves + 1 /\ saves < MaxSaves
      /\ status' = IF Saving("idle") THEN [status EXCEPT !.vol = "spoilt"] ELSE status
  BY DEF TcpSave
<1>3. save \in [Procs -> SaveStates] /\ Shape(save["idle"]) /\ save["idle"].region = "vol"
  BY <1>1 DEF TypeOK, HostInv
<1>4. vol' \in [Copies -> VolCopyType] /\ saves' \in 0..MaxSaves /\ deaf' \in Nat
  BY <1>1, <1>2, BoundAssumption DEF TypeOK, VolCopyType
<1>5. /\ status' \in [Regions -> StatusValues] /\ status'.cfg = status.cfg
      /\ Saving("idle") => status'.vol = "spoilt"
      /\ ~Saving("idle") => status'.vol = status.vol
  BY <1>1, <1>2 DEF TypeOK, Regions, StatusValues
<1>6. ~(deaf' > 0)
  BY <1>1, <1>2 DEF HostInv
<1>7. ~Saving("idle") => save["idle"].pc = "none"
  BY DEF Saving
<1> QED BY <1>2, <1>3, <1>4, <1>5, <1>6, <1>7, TcpBeginsInv

\* What is left of the operation that it interrupts are words.
LEMMA GarbledWords ==
  ASSUME TypeOK, NEW s \in SaveStates, NEW m \in Masks, Garbled(s, m)
  PROVE vol' \in [Copies -> VolCopyType]
<1> DEFINE c == s.copy
<1>1. c \in Copies /\ s.data \in Word /\ m \in Word /\ 0 \in Masks
  BY AndAssumption DEF SaveStates
<1>2. vol \in [Copies -> VolCopyType] /\ vol[c] \in VolCopyType
  BY <1>1 DEF TypeOK, VolCopyType
<1>3. vol[c].sum \in Word /\ vol[c].volume \in Word /\ vol[c].input \in Word
  BY <1>2 DEF VolCopyType
<1>4. \A w \in Word : And(w, m) \in Word
  BY <1>1, AndAssumption
<1>5. ProgramWord(vol[c].volume, s.data, 0) \in Word
  BY <1>1, <1>3, ProgramResult
<1>6. CASE UNCHANGED vol
  BY <1>2, <1>6
<1>7. CASE vol' = [vol EXCEPT ![c].volume = And(@, m)]
  <2>1. vol' = [vol EXCEPT ![c] = [vol[c] EXCEPT !.volume = And(vol[c].volume, m)]]
    BY <1>7
  <2>2. And(vol[c].volume, m) \in Word
    BY <1>3, <1>4
  <2> QED BY <1>1, <1>2, <2>1, <2>2 DEF VolCopyType
<1>8. CASE vol' = [vol EXCEPT ![c].volume = ProgramWord(@, s.data, 0), ![c].input = And(@, m)]
  <2> DEFINE x == ProgramWord(vol[c].volume, s.data, 0)
             y == And(vol[c].input, m)
  <2>1. vol' = [vol EXCEPT ![c].volume = x, ![c].input = y]
    BY <1>1, <1>2, <1>8 DEF VolCopyType
  <2>2. x \in Word /\ y \in Word
    BY <1>3, <1>4, <1>5
  <2> HIDE DEF x, y
  <2>3. vol'[c] = [vol[c] EXCEPT !.volume = x, !.input = y]
    BY <1>1, <1>2, <2>1
  <2>4. \A d \in Copies : d # c => vol'[d] = vol[d]
    BY <1>1, <1>2, <2>1
  <2>5. vol'[c] \in VolCopyType
    BY <1>2, <2>2, <2>3 DEF VolCopyType
  <2>6. vol' = [d \in Copies |-> vol'[d]]
    BY <1>1, <1>2, <2>1
  <2>7. \A d \in Copies : vol'[d] \in VolCopyType
    BY <1>2, <2>4, <2>5
  <2> QED BY <2>6, <2>7
<1>9. CASE vol' = [vol EXCEPT ![c].input = And(@, m)]
  <2>1. vol' = [vol EXCEPT ![c] = [vol[c] EXCEPT !.input = And(vol[c].input, m)]]
    BY <1>9
  <2>2. And(vol[c].input, m) \in Word
    BY <1>3, <1>4
  <2> QED BY <1>1, <1>2, <2>1, <2>2 DEF VolCopyType
<1>10. CASE vol' = [vol EXCEPT ![c].sum = And(@, m)]
  <2>1. vol' = [vol EXCEPT ![c] = [vol[c] EXCEPT !.sum = And(vol[c].sum, m)]]
    BY <1>10
  <2>2. And(vol[c].sum, m) \in Word
    BY <1>3, <1>4
  <2> QED BY <1>1, <1>2, <2>1, <2>2 DEF VolCopyType
<1> QED BY <1>6, <1>7, <1>8, <1>9, <1>10 DEF Garbled

\* It may begin inside one, and the flash ignore operations of its own.
LEMMA TcpSaveInsideInv ==
  ASSUME IndInv, NEW m \in Masks, TcpSaveInside(m)
  PROVE IndInv'
<1> DEFINE s == save["idle"]
<1>1. TypeOK /\ HostInv /\ "tcp" \in Procs /\ "idle" \in Procs /\ 0 \in Masks
  BY AndAssumption DEF IndInv, Procs
<1>2. /\ up /\ up' = up /\ ~Saving("tcp") /\ deaf' \in Ignored
      /\ UNCHANGED <<table, g_input_type, version, changes, crashes>> /\ cfg' = cfg
      /\ saves' = saves + 1 /\ saves < MaxSaves
      /\ status' = [status EXCEPT !.vol = "spoilt",
                                  !.cfg = IF deaf' > 0 THEN "spoilt" ELSE status.cfg]
  BY DEF TcpSaveInside
<1>3. s \in SaveStates /\ s.pc # "none" /\ Shape(s) /\ s.region = "vol"
      /\ save \in [Procs -> SaveStates]
  BY <1>1 DEF TypeOK, HostInv, TcpSaveInside, Saving
<1>4. saves' \in 0..MaxSaves /\ deaf' \in Nat
  BY <1>1, <1>2, BoundAssumption DEF TypeOK
<1>5. /\ status' \in [Regions -> StatusValues] /\ status'.vol = "spoilt"
      /\ status'.cfg \in {status.cfg, "spoilt"} /\ (deaf' > 0 => status'.cfg = "spoilt")
  BY <1>1, <1>2 DEF TypeOK, Regions, StatusValues
<1>6. CASE /\ VolOperation(s, 0) \/ Garbled(s, m)
           /\ save' = TcpBegins([save EXCEPT !["idle"] = Advance(s)])
  <2> DEFINE sv == [save EXCEPT !["idle"] = Advance(s)]
  <2>1. vol' \in [Copies -> VolCopyType]
    BY <1>1, <1>3, <1>6, VolEffect, GarbledWords
  <2>2. Advance(s) \in SaveStates /\ Shape(Advance(s)) /\ Advance(s).region = "vol"
    <3>1. Advance(s) \in SaveStates /\ Shape(Advance(s))
      BY <1>1, <1>3, AdvanceResult, ShapeKept
    <3>2. Advance(s).region = "vol"
      BY <1>1, <1>3, AdvanceResult, NoSaveState DEF SaveStates, Copies
    <3> QED BY <3>1, <3>2
  <2>3. sv \in [Procs -> SaveStates] /\ sv["idle"] = Advance(s)
    BY <1>1, <1>3, <2>2
  <2>4. save' = TcpBegins(sv)
    BY <1>6
  <2> HIDE DEF sv, s
  <2> QED BY <1>2, <1>4, <1>5, <2>1, <2>2, <2>3, <2>4, TcpBeginsInv
<1>7. CASE UNCHANGED <<cfg, vol>> /\ save' = TcpBegins(save)
  <2>1. vol' \in [Copies -> VolCopyType]
    BY <1>1, <1>7 DEF TypeOK, VolCopyType
  <2> HIDE DEF s
  <2>2. Shape(save["idle"]) /\ save["idle"].region = "vol"
    BY <1>3 DEF s
  <2> QED BY <1>2, <1>3, <1>4, <1>5, <1>7, <2>1, <2>2, TcpBeginsInv
<1> QED BY <1>6, <1>7 DEF TcpSaveInside

\* A step of tcpserv's that the flash ignores: both regions are spoilt already.
LEMMA StepIgnoredInv ==
  ASSUME IndInv, StepIgnored
  PROVE IndInv'
<1> DEFINE s == save["tcp"]
<1>1. TypeOK /\ HostInv /\ "tcp" \in Procs /\ "idle" \in Procs
      /\ status.cfg = "spoilt" /\ status.vol = "spoilt"
  BY DEF IndInv, Procs, StepIgnored, HostInv
<1>2. /\ UNCHANGED <<up, table, g_input_type, cfg, vol, version, status, changes, saves, crashes>>
      /\ up /\ deaf > 0 /\ Saving("tcp") /\ save' = [save EXCEPT !["tcp"] = Advance(s)]
      /\ deaf' = IF save'["tcp"].pc = "none" THEN 0 ELSE deaf - 1
  BY DEF StepIgnored, HostInv, IndInv
<1>3. s \in SaveStates /\ s.pc # "none" /\ Shape(s) /\ save \in [Procs -> SaveStates]
  BY <1>1, <1>2 DEF TypeOK, HostInv, Saving
<1>4. Advance(s) \in SaveStates /\ Shape(Advance(s))
  BY <1>1, <1>3, AdvanceResult, ShapeKept
<1> HIDE DEF s
<1>5. /\ save'["tcp"] = Advance(s) /\ save'["idle"] = save["idle"]
      /\ save' \in [Procs -> SaveStates]
  BY <1>1, <1>2, <1>3, <1>4
<1>6. deaf' \in Nat
  BY <1>1, <1>2 DEF TypeOK
<1>7. TypeOK'
  BY <1>1, <1>2, <1>5, <1>6 DEF TypeOK
<1>8. HostInv'
  <2>1. \A p \in Procs : Shape(save'[p])
    BY <1>1, <1>4, <1>5 DEF HostInv, Procs
  <2>2. deaf' > 0 => Saving("tcp")'
    BY <1>2 DEF Saving
  <2> QED BY <1>1, <1>2, <1>5, <2>1, <2>2 DEF HostInv
<1>9. CfgProgress' /\ CfgCopies' /\ VolInv'
  BY <1>1, <1>2 DEF CfgProgress, CfgCopies, VolInv
<1> QED BY <1>7, <1>8, <1>9 DEF IndInv

\* A save of the volume begins with copy 1, when no other runs.
LEMMA VolBegins ==
  ASSUME VolInv, NEW p \in Procs,
         vol' = vol, version'.vol = version.vol, status'.vol = status.vol,
         status.vol # "spoilt" =>
           /\ \A q \in Procs : ~AtVol(q) /\ (q # p => ~AtVol(q)')
           /\ AtVol(p)' /\ save'[p].pc = "ecs" /\ save'[p].copy = 1 /\ save'[p].sum = 0
  PROVE VolInv'
<1> SUFFICES ASSUME status.vol # "spoilt"
             PROVE DataInv' /\ PairInv' /\ \A q \in Procs : VolProgress(q)' /\ VolCopies(q)'
  BY DEF VolInv
<1>1. DataInv /\ PairInv /\ status'.vol # "spoilt"
  BY DEF VolInv
<1>2. \A c \in Copies : (PairHeld(c)' <=> PairHeld(c)) /\ (PairIntact(c)' <=> PairIntact(c))
  BY DEF PairHeld, PairIntact, PairSum
<1>3. 1 \in Copies /\ 2 \in Copies /\ 1 # 2
  BY DEF Copies
<1>4. DataInv'
  BY <1>1, <1>2 DEF DataInv
<1>5. PairInv'
  BY <1>1, <1>2, <1>3 DEF PairInv
<1>6. ASSUME NEW q \in Procs PROVE VolProgress(q)' /\ VolCopies(q)'
  <2>1. CASE q # p
    BY <2>1 DEF VolProgress, VolCopies
  <2>2. CASE q = p
    <3>1. VolProgress(p)'
      BY DEF VolProgress, VolStage
    <3>2. status.vol \notin {"rewriting", "healing"} /\ (status.vol = "saved" => PairIntact(2))
      BY <1>1 DEF PairInv
    <3>3. VolCopies(p)'
      BY <1>2, <1>3, <3>2 DEF VolCopies
    <3> QED BY <2>2, <3>1, <3>3
  <2> QED BY <2>1, <2>2
<1> QED BY <1>4, <1>5, <1>6

\* The idle timer begins only when tcpserv does not save.
LEMMA IdleSaveInv ==
  ASSUME IndInv, IdleSave
  PROVE IndInv'
<1> DEFINE s == Fresh("vol", 1)
<1>1. /\ s \in SaveStates /\ s.pc = "ecs" /\ s.region = "vol" /\ s.copy = 1 /\ s.sum = 0
      /\ Shape(s)
  BY FreshCopy DEF Regions, Copies
<1>2. TypeOK /\ HostInv /\ CfgProgress /\ CfgCopies /\ VolInv /\ ~Saving("tcp") /\ ~Saving("idle")
      /\ up /\ save \in [Procs -> SaveStates] /\ "tcp" \in Procs /\ "idle" \in Procs
  BY DEF IndInv, IdleSave, TypeOK, Procs
<1>3. save' = [save EXCEPT !["idle"] = s]
  BY FreshAs DEF IdleSave
<1> HIDE DEF s
<1>4. save'["idle"] = s /\ save'["tcp"] = save["tcp"] /\ save' \in [Procs -> SaveStates]
  BY <1>1, <1>2, <1>3
<1>5. TypeOK'
  BY <1>2, <1>4, BoundAssumption DEF TypeOK, IdleSave
<1>6. HostInv'
  <2>1. \A p \in Procs : Shape(save'[p])
    BY <1>1, <1>2, <1>4 DEF HostInv, Procs
  <2>2. ~Saving("tcp")' /\ save'["idle"].region = "vol"
    BY <1>1, <1>2, <1>4 DEF Saving
  <2> QED BY <1>2, <2>1, <2>2 DEF HostInv, IdleSave
<1>7. CfgProgress' /\ CfgCopies'
  <2>1. AtCfg' <=> AtCfg
    BY <1>4 DEF AtCfg, Saving
  <2> QED BY <1>2, <1>4, <2>1, CfgFrame DEF IdleSave
<1>8. VolInv'
  <2>1. \A q \in Procs : ~AtVol(q) /\ (q # "idle" => ~AtVol(q)')
    BY <1>2, <1>4 DEF AtVol, Saving, Procs
  <2>2. AtVol("idle")'
    BY <1>1, <1>4 DEF AtVol, Saving
  <2> QED BY <1>1, <1>2, <1>4, <2>1, <2>2, VolBegins DEF IdleSave
<1> QED BY <1>5, <1>6, <1>7, <1>8 DEF IndInv

(***************************************************************************)
(* A step of a save of the tables                                          *)
(***************************************************************************)
\* What the history gains from it.
LEMMA CfgHistory ==
  ASSUME TypeOK, HostInv, NEW s \in SaveStates, s.region = "cfg",
         s.pc \in {"ecs", "edata", "word", "cs"},
         version' = Versions(s), status' = Statuses(s)
  PROVE /\ version' \in [cfg : [Copies -> Table], vol : [Copies -> Pair]]
        /\ version'.vol = version.vol /\ status'.vol = status.vol
        /\ status' \in [Regions -> StatusValues]
        /\ \A d \in Copies : d # s.copy => version'.cfg[d] = version.cfg[d]
        /\ s.pc = "word" /\ s.i = Entries => version'.cfg[s.copy] = table
        /\ ~(s.pc = "word" /\ s.i = Entries) => version' = version
        /\ s.pc = "ecs" /\ s.copy = 1 /\ status.cfg = "saved" => status'.cfg = "rewriting"
        /\ s.pc = "ecs" /\ s.copy = 1 /\ status.cfg = "spoilt" => status'.cfg = "healing"
        /\ s.pc = "cs" /\ s.copy = 2 /\ status.cfg # "spoilt" => status'.cfg = "saved"
        /\ ~(s.pc = "ecs" /\ s.copy = 1 /\ status.cfg \in {"saved", "spoilt"})
           /\ ~(s.pc = "cs" /\ s.copy = 2 /\ status.cfg # "spoilt") => status' = status
<1>1. /\ version \in [cfg : [Copies -> Table], vol : [Copies -> Pair]] /\ table \in Table
      /\ status \in [Regions -> StatusValues]
      /\ s.copy \in Copies /\ "cfg" \in Regions /\ "vol" \in Regions /\ "cfg" # "vol"
      /\ s.pc # "input" /\ "rewriting" \in StatusValues /\ "healing" \in StatusValues
      /\ "saved" \in StatusValues
  BY DEF HostInv, TypeOK, SaveStates, Regions, StatusValues
<1>2. /\ version' \in [cfg : [Copies -> Table], vol : [Copies -> Pair]]
      /\ version'.vol = version.vol
      /\ \A d \in Copies : d # s.copy => version'.cfg[d] = version.cfg[d]
      /\ s.pc = "word" /\ s.i = Entries => version'.cfg[s.copy] = table
      /\ ~(s.pc = "word" /\ s.i = Entries) => version' = version
  <2>1. CASE s.pc = "word" /\ s.i = Entries
    <3>1. version' = [version EXCEPT !.cfg = [version.cfg EXCEPT ![s.copy] = table]]
      BY <2>1, VersionsOf
    <3>2. [version.cfg EXCEPT ![s.copy] = table] \in [Copies -> Table]
      BY <1>1
    <3> QED BY <1>1, <2>1, <3>1, <3>2
  <2>2. CASE ~(s.pc = "word" /\ s.i = Entries)
    BY <1>1, <2>2, VersionsOf
  <2> QED BY <2>1, <2>2
<1>3. CASE s.pc = "ecs" /\ s.copy = 1 /\ status.cfg = "saved"
  <2>1. status' = [status EXCEPT !["cfg"] = "rewriting"]
    BY <1>3, StatusesOf
  <2> QED BY <1>1, <1>2, <1>3, <2>1
<1>4. CASE s.pc = "ecs" /\ s.copy = 1 /\ status.cfg = "spoilt"
  <2>1. status' = [status EXCEPT !["cfg"] = "healing"]
    BY <1>4, StatusesOf DEF Alone
  <2> QED BY <1>1, <1>2, <1>4, <2>1
<1>5. CASE s.pc = "cs" /\ s.copy = 2 /\ status.cfg # "spoilt"
  <2>1. status' = [status EXCEPT !["cfg"] = "saved"]
    BY <1>5, StatusesOf
  <2> QED BY <1>1, <1>2, <1>5, <2>1
<1>6. CASE /\ ~(s.pc = "ecs" /\ s.copy = 1 /\ status.cfg \in {"saved", "spoilt"})
           /\ ~(s.pc = "cs" /\ s.copy = 2 /\ status.cfg # "spoilt")
  <2>1. status' = status
    BY <1>6, StatusesOf
  <2> QED BY <1>1, <1>2, <1>6, <2>1
<1> QED BY <1>3, <1>4, <1>5, <1>6

\* The checksum is summed up while the words are written.
LEMMA CfgStep ==
  ASSUME IndInv, AtCfg, Step("tcp")
  PROVE IndInv'
<1> DEFINE s == save["tcp"]
           n == Advance(s)
           c == s.copy
<1>1. /\ TypeOK /\ HostInv /\ CfgProgress /\ CfgCopies /\ VolInv
      /\ s \in SaveStates /\ s.region = "cfg" /\ s.pc # "none" /\ c \in Copies /\ s.i \in Ids
      /\ "tcp" \in Procs /\ "idle" \in Procs
      /\ table \in [Ids -> Word] /\ cfg \in [Copies -> CfgCopy] /\ cfg[c] \in CfgCopy
  BY DEF IndInv, AtCfg, Saving, TypeOK, Procs, SaveStates, CfgCopy
<1>2. CfgOperation(s, 0) /\ vol' = vol
  BY <1>1 DEF Step, Operation
<1>3. /\ save' = [save EXCEPT !["tcp"] = n] /\ version' = Versions(s) /\ status' = Statuses(s)
      /\ up' = up /\ up /\ table' = table /\ g_input_type' = g_input_type
      /\ deaf' = deaf /\ deaf = 0
      /\ changes' = changes /\ saves' = saves /\ crashes' = crashes
  BY DEF Step
<1>4. 0 \in Masks
  BY AndAssumption
<1>5. status.cfg # "spoilt" \/ s.pc = "ecs" => CfgStage(s, cfg[c], table, version.cfg[c])
  BY <1>1 DEF CfgProgress, CfgStage, HostInv, Shape
<1>6. /\ s.pc \in {"ecs", "edata", "word", "cs"} /\ Shape(s)
      /\ status.cfg # "spoilt" /\ s.pc # "ecs" => cfg[c].sum = AllOnes
  BY <1>1, <1>5 DEF CfgStage, HostInv, Shape
<1> HIDE DEF s, n, c
<1>7. n \in SaveStates /\ save'["tcp"] = n /\ save'["idle"] = save["idle"]
      /\ save' \in [Procs -> SaveStates]
  <2>1. n \in SaveStates
    BY <1>1, AdvanceResult DEF n
  <2> QED BY <1>1, <1>3, <2>1 DEF TypeOK
<1>8. /\ s.pc # "cs" => n.region = "cfg" /\ n.copy = c /\ n.pc \in {"edata", "word", "cs"}
      /\ s.pc = "cs" => n.pc = "ecs" /\ n.sum = 0 /\ n.i = 1
      /\ s.pc = "cs" /\ c = 1 => n.region = "cfg" /\ n.copy = 2
      /\ s.pc = "cs" /\ c = 2 => n.region = "vol" /\ n.copy = 1
  <2>1. CASE s.pc = "ecs"
    BY <1>1, <2>1, AdvanceResult DEF n, c
  <2>2. CASE s.pc = "edata"
    BY <1>1, <2>2, AdvanceResult DEF n, c
  <2>3. CASE s.pc = "word"
    BY <1>1, <2>3, AdvanceResult DEF n, c
  <2>4. CASE s.pc = "cs" /\ c = 1
    BY <1>1, <2>4, AdvanceResult DEF n, c
  <2>5. CASE s.pc = "cs" /\ c = 2
    BY <1>1, <2>5, AdvanceResult DEF n, c
  <2> QED BY <1>1, <1>6, <2>1, <2>2, <2>3, <2>4, <2>5 DEF Copies
<1>9. /\ version' \in [cfg : [Copies -> Table], vol : [Copies -> Pair]]
      /\ version'.vol = version.vol /\ status'.vol = status.vol
      /\ status' \in [Regions -> StatusValues]
      /\ \A d \in Copies : d # c => version'.cfg[d] = version.cfg[d]
      /\ s.pc = "word" /\ s.i = Entries => version'.cfg[c] = table
      /\ ~(s.pc = "word" /\ s.i = Entries) => version' = version
      /\ s.pc = "ecs" /\ c = 1 /\ status.cfg = "saved" => status'.cfg = "rewriting"
      /\ s.pc = "ecs" /\ c = 1 /\ status.cfg = "spoilt" => status'.cfg = "healing"
      /\ s.pc = "cs" /\ c = 2 /\ status.cfg # "spoilt" => status'.cfg = "saved"
      /\ ~(s.pc = "ecs" /\ c = 1 /\ status.cfg \in {"saved", "spoilt"})
           /\ ~(s.pc = "cs" /\ c = 2 /\ status.cfg # "spoilt") => status' = status
  BY <1>1, <1>3, <1>6, CfgHistory DEF c
<1>10. /\ cfg' \in [Copies -> CfgCopy] /\ cfg'[c] \in CfgCopy
       /\ \A d \in Copies : d # c => cfg'[d] = cfg[d]
  BY <1>1, <1>2, <1>4, CfgEffect DEF c
<1>11. TypeOK'
  BY <1>1, <1>2, <1>3, <1>7, <1>9, <1>10 DEF TypeOK, CfgCopy
<1>12. HostInv'
  <2>1. Shape(n)
    BY <1>1, <1>6, ShapeKept DEF n
  <2>2. \A p \in Procs : Shape(save'[p])
    BY <1>1, <1>7, <2>1 DEF HostInv, Procs
  <2>3. Saving("idle")' => status'.vol = "spoilt"
    BY <1>1, <1>7, <1>9 DEF HostInv, Saving, s
  <2> QED BY <1>1, <1>3, <1>7, <1>9, <2>2, <2>3 DEF HostInv
<1>13. AtCfg' <=> n.region = "cfg"
  BY <1>6, <1>7, <1>8 DEF AtCfg, Saving
<1>14. ASSUME status'.cfg # "spoilt", n.region = "cfg"
       PROVE CfgStage(n, cfg'[n.copy], table, version'.cfg[n.copy])
  <2>0. status.cfg # "spoilt" \/ s.pc = "ecs"
    BY <1>9, <1>14
  <2>1. Entries \in Nat /\ Ids = 1..Entries /\ s.i \in 1..Entries
    BY <1>1, SizeAssumption DEF Ids
  <2>2. cfg[c].sum \in Word /\ cfg[c].words \in [Ids -> Word] /\ s.sum \in Word
    BY <1>1 DEF CfgCopy, SaveStates
  <2>3. CASE s.pc = "ecs"
    <3>1. n.pc = "edata" /\ n.i = 1 /\ n.sum = 0 /\ n.copy = c
      BY <1>1, <1>5, <1>8, <2>0, <2>3, AdvanceResult DEF n, CfgStage
    <3>2. cfg'[c].sum = AllOnes
      BY <1>1, <1>2, <1>4, <2>2, <2>3, CfgEffect, EraseResult DEF c
    <3> QED BY <2>1, <3>1, <3>2 DEF CfgStage
  <2>4. CASE s.pc = "edata"
    <3>1. cfg'[c].sum = AllOnes
      BY <1>1, <1>2, <1>4, <1>6, <2>0, <2>4, CfgEffect DEF c
    <3>2. s.sum = 0 /\ \A j \in Ids : j < s.i => cfg[c].words[j] = AllOnes
      BY <1>5, <2>0, <2>4 DEF CfgStage
    <3>3. \A j \in Ids : j <= s.i => cfg'[c].words[j] = AllOnes
      <4>1. \A j \in Ids : cfg'[c].words[j] = IF j = s.i THEN EraseWord(cfg[c].words[j], 0)
                                              ELSE cfg[c].words[j]
        BY <1>1, <1>2, <1>4, <2>4, CfgEffect DEF c
      <4>2. \A j \in Ids : EraseWord(cfg[c].words[j], 0) = AllOnes
        BY <1>4, <2>2, EraseResult
      <4> QED BY <2>1, <3>2, <4>1, <4>2
    <3>4. CASE s.i < Entries
      <4>1. n.pc = "edata" /\ n.i = s.i + 1 /\ n.sum = 0 /\ n.copy = c
        BY <1>1, <1>8, <2>4, <3>2, <3>4, AdvanceResult DEF n
      <4> QED BY <2>1, <3>1, <3>3, <4>1 DEF CfgStage
    <3>5. CASE ~(s.i < Entries)
      <4>1. n.pc = "word" /\ n.i = 1 /\ n.sum = 0 /\ n.copy = c
        BY <1>1, <1>8, <2>4, <3>2, <3>5, AdvanceResult DEF n
      <4>2. \A j \in Ids : cfg'[c].words[j] = AllOnes /\ ~(j < 1)
        BY <2>1, <3>3, <3>5
      <4>3. Sums(table)[1 - 1] = 0
        BY <1>1, SumsResult
      <4> QED BY <3>1, <4>1, <4>2, <4>3 DEF CfgStage
    <3> QED BY <3>4, <3>5
  <2>5. CASE s.pc = "word"
    <3>1. cfg'[c].sum = AllOnes /\ cfg'[c].words \in [Ids -> Word]
      BY <1>1, <1>2, <1>4, <1>6, <1>10, <2>0, <2>5, CfgEffect DEF c, CfgCopy
    <3>2. /\ \A j \in Ids : cfg[c].words[j] = IF j < s.i THEN table[j] ELSE AllOnes
          /\ s.sum = Sums(table)[s.i - 1]
      BY <1>5, <2>0, <2>5 DEF CfgStage
    <3>3. \A j \in Ids : cfg'[c].words[j] = IF j <= s.i THEN table[j] ELSE AllOnes
      <4>1. \A j \in Ids : cfg'[c].words[j] =
              IF j = s.i THEN ProgramWord(cfg[c].words[j], table[j], 0) ELSE cfg[c].words[j]
        BY <1>1, <1>2, <1>4, <2>5, CfgEffect DEF c
      <4>2. ProgramWord(AllOnes, table[s.i], 0) = table[s.i]
        BY <1>1, <1>4, Ones, ProgramResult
      <4>3. cfg[c].words[s.i] = AllOnes
        BY <1>1, <2>1, <3>2
      <4> QED BY <2>1, <3>2, <4>1, <4>2, <4>3
    <3>4. n.sum = Sums(table)[s.i] /\ n.copy = c
      BY <1>1, <1>8, <2>5, <3>2, AdvanceResult, SumsResult DEF n
    <3>5. CASE s.i = Entries
      <4>1. n.pc = "cs"
        BY <1>1, <2>5, <3>5, AdvanceResult DEF n
      <4>2. \A j \in Ids : cfg'[c].words[j] = table[j]
        BY <2>1, <3>3, <3>5
      <4>3. cfg'[c].words = table
        BY <1>1, <3>1, <4>2
      <4>4. version'.cfg[c] = table
        BY <1>9, <2>5, <3>5
      <4> QED BY <3>1, <3>4, <3>5, <4>1, <4>3, <4>4 DEF CfgStage, Checksum
    <3>6. CASE s.i # Entries
      <4>1. n.pc = "word" /\ n.i = s.i + 1
        BY <1>1, <2>5, <3>6, AdvanceResult DEF n
      <4>2. \A j \in Ids : cfg'[c].words[j] = IF j < n.i THEN table[j] ELSE AllOnes
        BY <2>1, <3>3, <4>1
      <4>3. n.sum = Sums(table)[n.i - 1]
        BY <2>1, <3>4, <4>1
      <4> QED BY <3>1, <3>4, <4>1, <4>2, <4>3 DEF CfgStage
    <3> QED BY <3>5, <3>6
  <2>6. CASE s.pc = "cs"
    BY <1>8, <2>6 DEF CfgStage
  <2> QED BY <1>6, <2>3, <2>4, <2>5, <2>6
<1>15. CfgProgress'
  BY <1>3, <1>7, <1>13, <1>14 DEF CfgProgress
<1>16. \A d \in Copies : d # c => (Intact(d)' <=> Intact(d))
  BY <1>9, <1>10 DEF Intact
<1>17. \A d \in Copies : d = c /\ s.pc = "cs" /\ status.cfg # "spoilt"
         => Intact(d)' /\ version'.cfg[d] = table
  <2> SUFFICES ASSUME NEW d \in Copies, d = c, s.pc = "cs", status.cfg # "spoilt" PROVE Intact(d)' /\ version'.cfg[d] = table
    OBVIOUS
  <2>1. /\ cfg[c].words = table /\ version.cfg[c] = table /\ s.sum = Checksum(table)
        /\ s.sum \in Word
    BY <1>1, <1>5 DEF CfgStage, SaveStates
  <2>2. /\ cfg'[c].sum = ProgramWord(cfg[c].sum, s.sum, 0)
        /\ cfg'[c].words = cfg[c].words
    BY <1>1, <1>2, <1>4, CfgEffect DEF c
  <2>3. ProgramWord(AllOnes, s.sum, 0) = s.sum
    BY <1>4, <2>1, Ones, ProgramResult
  <2>4. version'.cfg[c] = table
    BY <1>9, <2>1
  <2> QED BY <1>6, <2>1, <2>2, <2>3, <2>4 DEF Intact
<1>18. CfgCopies'
  <2>1. 1 \in Copies /\ 2 \in Copies /\ 1 # 2 /\ c \in {1, 2}
    BY <1>1 DEF Copies
  <2>2. /\ c = 2 /\ status.cfg # "spoilt" => Intact(1) /\ version.cfg[1] = table
        /\ c = 1 /\ status.cfg \in {"saved", "rewriting"} => Intact(2)
        /\ status.cfg = "saved" => c = 1 /\ s.pc = "ecs"
    BY <1>1 DEF CfgCopies, s, c
  <2>3. CASE s.pc # "cs"
    <3>1. AtCfg' /\ save'["tcp"].copy = c
      BY <1>7, <1>8, <1>13, <2>3
    <3>2. /\ status'.cfg # "saved"
          /\ status'.cfg = "rewriting" => status.cfg \in {"saved", "rewriting"}
          /\ c = 2 => status' = status
      BY <1>9, <2>1, <2>2, <2>3
    <3> QED BY <1>3, <1>9, <1>16, <2>1, <2>2, <3>1, <3>2 DEF CfgCopies
  <2>4. CASE s.pc = "cs" /\ c = 1
    <3>1. AtCfg' /\ save'["tcp"].copy = 2 /\ status' = status /\ status.cfg # "saved"
      BY <1>7, <1>8, <1>9, <1>13, <2>1, <2>2, <2>4
    <3> QED BY <1>3, <1>17, <2>1, <2>4, <3>1 DEF CfgCopies
  <2>5. CASE s.pc = "cs" /\ c = 2 /\ status.cfg = "spoilt"
    <3>1. status'.cfg = "spoilt"
      BY <1>9, <2>1, <2>5
    <3> QED BY <3>1 DEF CfgCopies
  <2>6. CASE s.pc = "cs" /\ c = 2 /\ status.cfg # "spoilt"
    <3>1. ~AtCfg' /\ status'.cfg = "saved"
      BY <1>8, <1>9, <1>13, <2>6
    <3>2. Intact(1)' /\ Intact(2)' /\ version'.cfg[1] = version'.cfg[2]
      BY <1>9, <1>16, <1>17, <2>1, <2>2, <2>6
    <3> QED BY <3>1, <3>2 DEF CfgCopies
  <2> QED BY <2>1, <2>3, <2>4, <2>5, <2>6
<1>19. VolInv'
  <2>1. ~AtVol("tcp") /\ (AtVol("idle")' <=> AtVol("idle"))
    BY <1>1, <1>7 DEF AtVol, Saving, s
  <2>2. CASE n.region = "cfg"
    <3>1. ~AtVol("tcp")'
      BY <1>7, <2>2 DEF AtVol
    <3>2. \A p \in Procs : (AtVol(p)' <=> AtVol(p)) /\ (AtVol(p) => save'[p] = save[p])
      BY <1>7, <2>1, <3>1 DEF Procs
    <3> QED BY <1>1, <1>2, <1>3, <1>9, <3>2, VolFrame
  <2>3. CASE n.region # "cfg"
    <3>1. n.pc = "ecs" /\ n.copy = 1 /\ n.sum = 0 /\ n.region = "vol"
      BY <1>1, <1>8, <2>3 DEF Copies
    <3>2. AtVol("tcp")'
      BY <1>7, <3>1 DEF AtVol, Saving
    <3>3. status.vol # "spoilt" => ~AtVol("idle")
      BY <1>1 DEF HostInv, AtCfg, AtVol
    <3>4. status.vol # "spoilt" => \A q \in Procs : ~AtVol(q) /\ (q # "tcp" => ~AtVol(q)')
      BY <1>3, <2>1, <3>3 DEF Procs
    <3> QED BY <1>1, <1>2, <1>3, <1>7, <1>9, <3>1, <3>2, <3>4, VolBegins
  <2> QED BY <2>2, <2>3
<1> QED BY <1>11, <1>12, <1>15, <1>18, <1>19 DEF IndInv

(***************************************************************************)
(* A step of a save of the volume and the input type                       *)
(***************************************************************************)
\* What the history gains from it.
LEMMA VolHistory ==
  ASSUME TypeOK, HostInv, NEW s \in SaveStates, s.region = "vol",
         s.pc # "word", s.pc = "input" => Odd(s.data),
         version' = Versions(s), status' = Statuses(s)
  PROVE /\ version' \in [cfg : [Copies -> Table], vol : [Copies -> Pair]]
        /\ version'.cfg = version.cfg /\ status'.cfg = status.cfg
        /\ status' \in [Regions -> StatusValues]
        /\ \A d \in Copies : d # s.copy => version'.vol[d] = version.vol[d]
        /\ s.pc = "input" => version'.vol[s.copy] = <<s.data, g_input_type>>
        /\ s.pc # "input" => version' = version
        /\ s.pc = "ecs" /\ s.copy = 1 /\ status.vol = "saved" => status'.vol = "rewriting"
        /\ s.pc = "ecs" /\ s.copy = 1 /\ status.vol = "spoilt" /\ Alone("vol")
             => status'.vol = "healing"
        /\ s.pc = "cs" /\ s.copy = 2 /\ status.vol # "spoilt" => status'.vol = "saved"
        /\ ~(s.pc = "ecs" /\ s.copy = 1 /\ status.vol = "saved")
           /\ ~(s.pc = "ecs" /\ s.copy = 1 /\ status.vol = "spoilt" /\ Alone("vol"))
           /\ ~(s.pc = "cs" /\ s.copy = 2 /\ status.vol # "spoilt") => status' = status
<1>1. /\ version \in [cfg : [Copies -> Table], vol : [Copies -> Pair]]
      /\ status \in [Regions -> StatusValues]
      /\ s.copy \in Copies /\ "cfg" \in Regions /\ "vol" \in Regions /\ "cfg" # "vol"
      /\ s.data \in Word /\ g_input_type \in Word /\ Odd(g_input_type)
      /\ "rewriting" \in StatusValues /\ "healing" \in StatusValues /\ "saved" \in StatusValues
  BY DEF HostInv, TypeOK, SaveStates, Regions, StatusValues
<1>2. /\ version' \in [cfg : [Copies -> Table], vol : [Copies -> Pair]]
      /\ version'.cfg = version.cfg
      /\ \A d \in Copies : d # s.copy => version'.vol[d] = version.vol[d]
      /\ s.pc = "input" => version'.vol[s.copy] = <<s.data, g_input_type>>
      /\ s.pc # "input" => version' = version
  <2>1. CASE s.pc = "input"
    <3> DEFINE v == <<s.data, g_input_type>>
    <3>1. v \in Pair
      BY <1>1, <2>1 DEF Pair
    <3>2. version' = [version EXCEPT !.vol = [version.vol EXCEPT ![s.copy] = v]]
      BY <2>1, VersionsOf
    <3> HIDE DEF v
    <3>3. [version.vol EXCEPT ![s.copy] = v] \in [Copies -> Pair]
      BY <1>1, <3>1
    <3>4. /\ version' \in [cfg : [Copies -> Table], vol : [Copies -> Pair]]
          /\ version'.cfg = version.cfg
          /\ \A d \in Copies : d # s.copy => version'.vol[d] = version.vol[d]
          /\ version'.vol[s.copy] = v
      BY <1>1, <3>2, <3>3
    <3> QED BY <2>1, <3>4 DEF v
  <2>2. CASE s.pc # "input"
    BY <1>1, <2>2, VersionsOf
  <2> QED BY <2>1, <2>2
<1>3. CASE s.pc = "ecs" /\ s.copy = 1 /\ status.vol = "saved"
  <2>1. status' = [status EXCEPT !["vol"] = "rewriting"]
    BY <1>3, StatusesOf
  <2> QED BY <1>1, <1>2, <1>3, <2>1
<1>4. CASE s.pc = "ecs" /\ s.copy = 1 /\ status.vol = "spoilt" /\ Alone("vol")
  <2>1. status' = [status EXCEPT !["vol"] = "healing"]
    BY <1>4, StatusesOf
  <2> QED BY <1>1, <1>2, <1>4, <2>1
<1>5. CASE s.pc = "cs" /\ s.copy = 2 /\ status.vol # "spoilt"
  <2>1. status' = [status EXCEPT !["vol"] = "saved"]
    BY <1>5, StatusesOf
  <2> QED BY <1>1, <1>2, <1>5, <2>1
<1>6. CASE /\ ~(s.pc = "ecs" /\ s.copy = 1 /\ status.vol = "saved")
           /\ ~(s.pc = "ecs" /\ s.copy = 1 /\ status.vol = "spoilt" /\ Alone("vol"))
           /\ ~(s.pc = "cs" /\ s.copy = 2 /\ status.vol # "spoilt")
  <2>1. status' = status
    BY <1>6, StatusesOf
  <2> QED BY <1>1, <1>2, <1>6, <2>1
<1> QED BY <1>3, <1>4, <1>5, <1>6

\* The other copy is intact while one is written.
LEMMA VolStep ==
  ASSUME IndInv, NEW p \in Procs, AtVol(p), Step(p)
  PROVE IndInv'
<1> DEFINE s == save[p]
           n == Advance(s)
           c == s.copy
<1>1. /\ TypeOK /\ HostInv /\ CfgProgress /\ CfgCopies /\ VolInv
      /\ s \in SaveStates /\ s.region = "vol" /\ s.pc # "none" /\ c \in Copies
      /\ s.data \in Word /\ s.sum \in Word /\ g_input_type \in Word /\ Odd(g_input_type)
      /\ "tcp" \in Procs /\ "idle" \in Procs
      /\ vol \in [Copies -> VolCopyType] /\ vol[c] \in VolCopyType
  BY DEF IndInv, AtVol, Saving, TypeOK, HostInv, Procs, SaveStates, VolCopyType
<1>2. VolOperation(s, 0) /\ cfg' = cfg
  BY <1>1 DEF Step, Operation
<1>3. /\ save' = [save EXCEPT ![p] = n] /\ version' = Versions(s) /\ status' = Statuses(s)
      /\ up' = up /\ up /\ table' = table /\ g_input_type' = g_input_type
      /\ deaf' = deaf /\ deaf = 0
      /\ changes' = changes /\ saves' = saves /\ crashes' = crashes
      /\ (p = "idle" => ~Saving("tcp"))
  BY DEF Step
<1>4. 0 \in Masks
  BY AndAssumption
<1>5. /\ s.pc \in {"ecs", "edata", "get", "volume", "input", "cs"} /\ Shape(s)
      /\ s.pc \in {"volume", "input"} => Odd(s.data)
  BY <1>1, <1>2 DEF VolOperation, HostInv, Shape
<1> HIDE DEF s, n, c
<1>6. n \in SaveStates /\ save'[p] = n /\ (\A q \in Procs : q # p => save'[q] = save[q])
      /\ save' \in [Procs -> SaveStates]
  <2>1. n \in SaveStates
    BY <1>1, AdvanceResult DEF n
  <2> QED BY <1>1, <1>3, <2>1 DEF TypeOK
<1>7. /\ s.pc = "ecs" => n.pc = "edata" /\ n.sum = s.sum
      /\ s.pc = "edata" => n.pc = "get" /\ n.sum = s.sum
      /\ s.pc = "get" => n.pc = "volume" /\ n.sum = s.sum /\ n.data = do_get_data(table, VOLUME)
      /\ s.pc = "volume" => n.pc = "input" /\ n.sum = Add(s.sum, s.data) /\ n.data = s.data
      /\ s.pc = "input" => n.pc = "cs" /\ n.sum = Add(s.sum, g_input_type)
      /\ s.pc # "cs" => n.region = "vol" /\ n.copy = c
      /\ s.pc = "cs" /\ c = 1 => n.pc = "ecs" /\ n.region = "vol" /\ n.copy = 2 /\ n.sum = 0
      /\ s.pc = "cs" /\ c = 2 => n.pc = "none" /\ n.region = "vol"
  BY <1>1, AdvanceResult, NoSaveState DEF n, c
<1>8. n.region = "vol"
  BY <1>1, <1>7 DEF Copies
<1>9. /\ version' \in [cfg : [Copies -> Table], vol : [Copies -> Pair]]
      /\ version'.cfg = version.cfg /\ status'.cfg = status.cfg
      /\ status' \in [Regions -> StatusValues]
      /\ \A d \in Copies : d # c => version'.vol[d] = version.vol[d]
      /\ s.pc = "input" => version'.vol[c] = <<s.data, g_input_type>>
      /\ s.pc # "input" => version' = version
      /\ s.pc = "ecs" /\ c = 1 /\ status.vol = "saved" => status'.vol = "rewriting"
      /\ s.pc = "ecs" /\ c = 1 /\ status.vol = "spoilt" /\ Alone("vol")
           => status'.vol = "healing"
      /\ s.pc = "cs" /\ c = 2 /\ status.vol # "spoilt" => status'.vol = "saved"
      /\ ~(s.pc = "ecs" /\ c = 1 /\ status.vol = "saved")
         /\ ~(s.pc = "ecs" /\ c = 1 /\ status.vol = "spoilt" /\ Alone("vol"))
         /\ ~(s.pc = "cs" /\ c = 2 /\ status.vol # "spoilt") => status' = status
  BY <1>1, <1>3, <1>5, VolHistory DEF c
<1>10. /\ vol' \in [Copies -> VolCopyType] /\ vol'[c] \in VolCopyType
       /\ \A d \in Copies : d # c => vol'[d] = vol[d]
  BY <1>1, <1>2, <1>4, VolEffect DEF c
<1>11. TypeOK'
  BY <1>1, <1>2, <1>3, <1>6, <1>9, <1>10 DEF TypeOK, VolCopyType
<1>12. HostInv'
  <2>1. Shape(n)
    BY <1>1, <1>5, ShapeKept DEF n
  <2>2. \A q \in Procs : Shape(save'[q])
    BY <1>1, <1>6, <2>1 DEF HostInv
  <2>3. \A q \in Procs : Saving(q)' => Saving(q)
    BY <1>1, <1>6 DEF Saving, s
  <2>4. save'["idle"].region = "vol"
    BY <1>1, <1>6, <1>8 DEF HostInv
  <2>5. Saving("tcp") /\ Saving("idle") => status'.vol = "spoilt"
    <3>1. Saving("tcp") /\ Saving("idle") => ~Alone("vol")
      BY DEF Alone, Procs
    <3> QED BY <1>1, <1>9, <3>1 DEF HostInv
  <2> QED BY <1>1, <1>3, <1>9, <2>2, <2>3, <2>4, <2>5 DEF HostInv
<1>13. CfgProgress' /\ CfgCopies'
  <2>1. CASE p = "tcp"
    <3>1. ~AtCfg /\ ~AtCfg'
      BY <1>1, <1>6, <1>8, <2>1 DEF AtCfg, s
    <3> QED BY <1>1, <1>2, <1>9, <3>1, CfgFrame
  <2>2. CASE p # "tcp"
    <3>1. save'["tcp"] = save["tcp"]
      BY <1>1, <1>6, <2>2
    <3>2. AtCfg' <=> AtCfg
      BY <3>1 DEF AtCfg, Saving
    <3> QED BY <1>1, <1>2, <1>3, <1>9, <3>1, <3>2, CfgFrame
  <2> QED BY <2>1, <2>2
<1>14. ASSUME status.vol = "spoilt", status'.vol # "spoilt"
       PROVE DataInv' /\ PairInv' /\ \A q \in Procs : VolProgress(q)' /\ VolCopies(q)'
  <2>1. s.pc = "ecs" /\ c = 1 /\ status'.vol = "healing" /\ Alone("vol")
    BY <1>9, <1>14
  <2>2. \A q \in Procs : q # p => ~AtVol(q)'
    <3>1. \A q \in Procs : q # p => ~Saving(q)
      BY <1>1, <2>1 DEF Alone, Procs, Saving, s
    <3> QED BY <1>6, <3>1 DEF AtVol, Saving
  <2>3. n.pc = "edata" /\ n.sum = 0 /\ n.region = "vol" /\ n.copy = 1
    BY <1>5, <1>7, <2>1 DEF Shape
  <2>4. AtVol(p)'
    BY <1>6, <2>3 DEF AtVol, Saving
  <2>5. vol'[c].sum = AllOnes
    BY <1>1, <1>2, <1>4, <2>1, VolEffect, EraseResult DEF c, VolCopyType
  <2>6. VolProgress(p)'
    BY <1>6, <2>1, <2>3, <2>5 DEF VolProgress, VolStage
  <2>7. VolCopies(p)'
    BY <1>6, <2>1, <2>3 DEF VolCopies
  <2>8. DataInv' /\ PairInv'
    BY <2>1, <2>4 DEF DataInv, PairInv
  <2> QED BY <2>2, <2>6, <2>7, <2>8 DEF VolProgress, VolCopies
<1>15. ASSUME status.vol # "spoilt"
       PROVE DataInv' /\ PairInv' /\ \A q \in Procs : VolProgress(q)' /\ VolCopies(q)'
  <2>1. DataInv /\ PairInv /\ VolProgress(p) /\ VolCopies(p)
    BY <1>1, <1>15 DEF VolInv
  <2>2. VolStage(s, vol[c], version.vol[c])
    BY <2>1 DEF VolProgress, s, c
  <2>3. \A q \in Procs : q # p => ~AtVol(q) /\ ~AtVol(q)'
    <3>1. \A q \in Procs : q # p => ~Saving(q)
      BY <1>1, <1>15 DEF HostInv, Procs, AtVol
    <3> QED BY <1>6, <3>1 DEF AtVol, Saving
  <2>4. AtVol(p)' <=> ~(s.pc = "cs" /\ c = 2)
    BY <1>1, <1>5, <1>6, <1>7, <1>8 DEF AtVol, Saving, Copies
  <2>5. \A d \in Copies : d # c => (PairHeld(d)' <=> PairHeld(d)) /\ (PairIntact(d)' <=> PairIntact(d))
    BY <1>9, <1>10 DEF PairHeld, PairIntact, PairSum
  <2>6. vol[c].sum \in Word /\ vol[c].volume \in Word /\ vol[c].input \in Word
    BY <1>1 DEF VolCopyType
  <2>7. /\ vol'[c].sum = AllOnes \/ s.pc = "cs"
        /\ ~(s.pc = "cs" /\ c = 2) => VolStage(n, vol'[n.copy], version'.vol[n.copy])
        /\ status'.vol # "healing" => Odd(vol'[c].volume) /\ Odd(vol'[c].input)
    <3>1. Odd(AllOnes) /\ AllOnes \in Word
      BY Ones
    <3>2. CASE s.pc = "ecs"
      <4>1. /\ vol'[c].sum = AllOnes /\ vol'[c].volume = vol[c].volume
            /\ vol'[c].input = vol[c].input
        BY <1>1, <1>2, <1>4, <2>6, <3>2, VolEffect, EraseResult DEF c
      <4>2. n.pc = "edata" /\ n.sum = 0 /\ n.copy = c
        BY <1>7, <2>2, <3>2 DEF VolStage
      <4>3. status'.vol # "healing" => Odd(vol[c].volume) /\ Odd(vol[c].input)
        BY <1>1, <1>9, <1>15, <2>1, <3>2 DEF DataInv
      <4> QED BY <3>1, <4>1, <4>2, <4>3 DEF VolStage
    <3>3. CASE s.pc = "edata"
      <4>1. /\ vol'[c].sum = AllOnes /\ vol'[c].volume = AllOnes
            /\ vol'[c].input = AllOnes
        BY <1>1, <1>2, <1>4, <2>2, <2>6, <3>3, VolEffect, EraseResult DEF c, VolStage
      <4>2. n.pc = "get" /\ n.sum = 0 /\ n.copy = c
        BY <1>7, <2>2, <3>3 DEF VolStage
      <4> QED BY <3>1, <4>1, <4>2 DEF VolStage
    <3>4. CASE s.pc = "get"
      <4>1. vol'[c] = vol[c] /\ vol[c].sum = AllOnes
            /\ vol[c].volume = AllOnes /\ vol[c].input = AllOnes
        BY <1>1, <1>2, <1>4, <2>2, <3>4, VolEffect DEF VolStage
      <4>2. n.pc = "volume" /\ n.sum = 0 /\ n.copy = c
        BY <1>7, <2>2, <3>4 DEF VolStage
      <4> QED BY <3>1, <4>1, <4>2 DEF VolStage
    <3>5. CASE s.pc = "volume"
      <4>1. /\ vol'[c].sum = AllOnes /\ vol'[c].volume = ProgramWord(AllOnes, s.data, 0)
            /\ vol'[c].input = AllOnes
        BY <1>1, <1>2, <1>4, <2>2, <3>5, VolEffect DEF c, VolStage
      <4>2. ProgramWord(AllOnes, s.data, 0) = s.data /\ Odd(s.data)
        BY <1>1, <1>4, <1>5, <3>1, <3>5, ProgramResult
      <4>3. n.pc = "input" /\ n.sum = Add(0, s.data) /\ n.copy = c /\ n.data = s.data
        BY <1>7, <2>2, <3>5 DEF VolStage
      <4>4. Add(0, s.data) = s.data
        <5>1. 0 + s.data < WordSize /\ 0 + s.data = s.data
          BY <1>1, Ones DEF Word
        <5> QED BY <1>1, <5>1, Ones, AddResult
      <4> QED BY <3>1, <4>1, <4>2, <4>3, <4>4 DEF VolStage
    <3>6. CASE s.pc = "input"
      <4>1. /\ vol'[c].sum = AllOnes /\ vol'[c].volume = s.data
            /\ vol'[c].input = ProgramWord(AllOnes, g_input_type, 0)
        BY <1>1, <1>2, <1>4, <2>2, <3>6, VolEffect DEF c, VolStage
      <4>2. ProgramWord(AllOnes, g_input_type, 0) = g_input_type /\ Odd(s.data)
        BY <1>1, <1>4, <1>5, <3>1, <3>6, ProgramResult
      <4>3. n.pc = "cs" /\ n.sum = Add(s.data, g_input_type) /\ n.copy = c
        BY <1>7, <2>2, <3>6 DEF VolStage
      <4>4. version'.vol[c] = <<s.data, g_input_type>>
        BY <1>9, <3>6
      <4> QED BY <1>1, <4>1, <4>2, <4>3, <4>4 DEF VolStage, PairSum
    <3>7. CASE s.pc = "cs"
      <4>1. vol'[c].volume = vol[c].volume /\ vol'[c].input = vol[c].input
        BY <1>1, <1>2, <1>4, <3>7, VolEffect DEF c
      <4>2. c = 1 => n.pc = "ecs" /\ n.sum = 0
        BY <1>7, <3>7
      <4>3. c = 1 => VolStage(n, vol'[n.copy], version'.vol[n.copy])
        BY <4>2 DEF VolStage
      <4>4. Odd(vol[c].volume) /\ Odd(vol[c].input)
        BY <2>2, <3>7 DEF VolStage
      <4> QED BY <1>1, <3>7, <4>1, <4>3, <4>4 DEF Copies
    <3> QED BY <1>5, <3>2, <3>3, <3>4, <3>5, <3>6, <3>7
  <2>8. \A d \in Copies : d = c /\ s.pc = "cs" => PairIntact(d)'
    <3> SUFFICES ASSUME NEW d \in Copies, d = c, s.pc = "cs" PROVE PairIntact(d)'
      OBVIOUS
    <3>1. /\ <<vol[c].volume, vol[c].input>> = version.vol[c] /\ s.sum = PairSum(vol[c])
          /\ vol[c].sum = AllOnes /\ Odd(vol[c].volume) /\ Odd(vol[c].input)
      BY <2>2 DEF VolStage
    <3>2. /\ vol'[c].sum = ProgramWord(AllOnes, s.sum, 0)
          /\ vol'[c].volume = vol[c].volume /\ vol'[c].input = vol[c].input
      BY <1>1, <1>2, <1>4, <3>1, VolEffect DEF c
    <3>3. ProgramWord(AllOnes, s.sum, 0) = s.sum
      BY <1>1, <1>4, Ones, ProgramResult
    <3>4. version'.vol[c] = version.vol[c]
      BY <1>9
    <3> QED BY <3>1, <3>2, <3>3, <3>4 DEF PairIntact, PairHeld, PairSum
  <2>9. DataInv'
    <3> SUFFICES ASSUME NEW d \in Copies, status'.vol # "healing"
                 PROVE /\ Odd(vol'[d].volume) /\ Odd(vol'[d].input)
                       /\ PairHeld(d)' \/ vol'[d].sum = AllOnes
      BY DEF DataInv
    <3>1. CASE d # c /\ status.vol # "healing"
      BY <1>10, <2>1, <2>5, <3>1 DEF DataInv
    <3>2. CASE d # c /\ status.vol = "healing"
      <4>1. c = 2 /\ d = 1
        BY <1>1, <1>9, <3>2 DEF Copies
      <4>2. PairIntact(1)
        BY <1>15, <2>1, <4>1 DEF VolCopies, s, c
      <4> QED BY <2>5, <3>2, <4>1, <4>2 DEF PairIntact
    <3>3. CASE d = c
      BY <2>7, <2>8, <3>3 DEF PairIntact
    <3> QED BY <3>1, <3>2, <3>3
  <2>10. 1 \in Copies /\ 2 \in Copies /\ 1 # 2 /\ c \in {1, 2}
    BY <1>1 DEF Copies
  <2>11. /\ c = 2 => PairIntact(1)
         /\ c = 1 /\ status.vol \in {"saved", "rewriting"} => PairIntact(2)
         /\ status.vol = "saved" => c = 1 /\ s.pc = "ecs"
    BY <2>1 DEF VolCopies, s, c
  <2>12. PairInv' /\ VolCopies(p)'
    <3>1. CASE s.pc # "cs"
      <4>1. AtVol(p)' /\ save'[p].copy = c
        BY <1>6, <1>7, <2>4, <3>1
      <4>2. status'.vol # "saved"
            /\ (status'.vol = "rewriting" => status.vol \in {"saved", "rewriting"})
        BY <1>9, <1>15, <2>10, <2>11, <3>1
      <4> QED BY <2>5, <2>10, <2>11, <4>1, <4>2 DEF PairInv, VolCopies
    <3>2. CASE s.pc = "cs" /\ c = 1
      <4>1. AtVol(p)' /\ save'[p].copy = 2 /\ status' = status /\ status.vol # "saved"
        BY <1>6, <1>7, <1>9, <2>4, <2>10, <2>11, <3>2
      <4> QED BY <2>8, <2>10, <3>2, <4>1 DEF PairInv, VolCopies
    <3>3. CASE s.pc = "cs" /\ c = 2
      <4>1. ~AtVol(p)' /\ status'.vol = "saved"
        BY <1>9, <1>15, <2>4, <3>3
      <4>2. PairIntact(1)' /\ PairIntact(2)'
        BY <2>5, <2>8, <2>10, <2>11, <3>3
      <4> QED BY <4>1, <4>2 DEF PairInv, VolCopies
    <3> QED BY <2>10, <3>1, <3>2, <3>3
  <2>13. VolProgress(p)'
    BY <1>6, <2>4, <2>7 DEF VolProgress
  <2>14. \A q \in Procs : q # p => VolProgress(q)' /\ VolCopies(q)'
    BY <2>3 DEF VolProgress, VolCopies
  <2> QED BY <2>9, <2>12, <2>13, <2>14
<1>16. VolInv'
  BY <1>14, <1>15 DEF VolInv
<1> QED BY <1>11, <1>12, <1>13, <1>16 DEF IndInv

(***************************************************************************)
(* A loss of power                                                         *)
(***************************************************************************)
\* The save that a loss of power cuts off.
LEMMA Cut ==
  ASSUME TypeOK, HostInv, NEW m \in Masks, Crash(m)
  PROVE /\ ~Saving("tcp")' /\ ~Saving("idle")'
        /\ \A p \in Procs : save'[p] = NoSave
        /\ status' \in [Regions -> StatusValues]
        /\ status'.cfg = IF AtCfg THEN CutOff(status.cfg) ELSE status.cfg
        /\ status'.vol = IF \E p \in Procs : AtVol(p) THEN CutOff(status.vol) ELSE status.vol
        /\ IF AtCfg /\ deaf = 0 THEN CfgOperation(save["tcp"], m) ELSE cfg' = cfg
        /\ status.vol # "spoilt" => \A p \in Procs : AtVol(p) => VolOperation(save[p], m)
        /\ (\A p \in Procs : ~AtVol(p)) => vol' = vol
        /\ cfg' \in [Copies -> CfgCopy] /\ vol' \in [Copies -> VolCopyType]
<1>1. /\ save["tcp"] \in SaveStates /\ save["idle"] \in SaveStates
      /\ save["idle"].region = "vol" /\ save["tcp"].region \in Regions
      /\ status \in [Regions -> StatusValues]
      /\ cfg \in [Copies -> CfgCopy] /\ vol \in [Copies -> VolCopyType]
  BY DEF TypeOK, HostInv, Procs, SaveStates, CfgCopy, VolCopyType
<1>2. \A p \in Procs : save'[p] = NoSave
  BY DEF Crash
<1>3. ~Saving("tcp")' /\ ~Saving("idle")'
  BY <1>2, NoSaveState DEF Saving, Procs
<1>4. \A r \in Regions : status'[r] = IF \E p \in Procs : Saving(p) /\ save[p].region = r
                                      THEN CutOff(status[r]) ELSE status[r]
  BY DEF Crash
<1>5. /\ status'.cfg = IF AtCfg THEN CutOff(status.cfg) ELSE status.cfg
      /\ status'.vol = IF \E p \in Procs : AtVol(p) THEN CutOff(status.vol) ELSE status.vol
  <2>1. "cfg" \in Regions /\ "vol" \in Regions /\ "cfg" # "vol"
    BY DEF Regions
  <2>2. (\E p \in Procs : Saving(p) /\ save[p].region = "cfg") <=> AtCfg
    BY <1>1, <2>1 DEF AtCfg, Procs
  <2>3. (\E p \in Procs : Saving(p) /\ save[p].region = "vol") <=> \E p \in Procs : AtVol(p)
    BY DEF AtVol
  <2> QED BY <1>4, <2>1, <2>2, <2>3
<1>6. status' \in [Regions -> StatusValues]
  <2>1. \A r \in Regions : status'[r] \in StatusValues
    BY <1>1, <1>4 DEF CutOff, StatusValues
  <2>2. status' = [r \in Regions |-> status'[r]]
    BY DEF Crash
  <2> QED BY <2>1, <2>2
<1>7. CASE Saving("tcp") /\ deaf = 0 /\ Operation(save["tcp"], m)
  <2>1. status.vol # "spoilt" => ~AtVol("idle")
    BY <1>7 DEF HostInv, AtVol
  <2>2. CASE save["tcp"].region = "cfg"
    <3>1. CfgOperation(save["tcp"], m) /\ vol' = vol /\ AtCfg /\ ~AtVol("tcp")
      BY <1>7, <2>2 DEF Operation, AtCfg, AtVol
    <3>2. cfg' \in [Copies -> CfgCopy]
      BY <1>1, <3>1, CfgEffect
    <3> QED BY <1>1, <1>2, <1>3, <1>5, <1>6, <1>7, <2>1, <3>1, <3>2 DEF Procs
  <2>3. CASE save["tcp"].region = "vol"
    <3>1. VolOperation(save["tcp"], m) /\ cfg' = cfg /\ ~AtCfg /\ AtVol("tcp")
      BY <1>7, <2>3 DEF Operation, AtCfg, AtVol
    <3>2. vol' \in [Copies -> VolCopyType]
      BY <1>1, <3>1, VolEffect
    <3> QED BY <1>1, <1>2, <1>3, <1>5, <1>6, <2>1, <3>1, <3>2 DEF Procs
  <2> QED BY <1>1, <2>2, <2>3 DEF Regions
<1>8. CASE Saving("idle") /\ ~Saving("tcp") /\ Operation(save["idle"], m)
  <2>1. VolOperation(save["idle"], m) /\ cfg' = cfg /\ ~AtCfg /\ AtVol("idle") /\ ~AtVol("tcp")
    BY <1>1, <1>8 DEF Operation, AtCfg, AtVol
  <2>2. vol' \in [Copies -> VolCopyType]
    BY <1>1, <2>1, VolEffect
  <2> QED BY <1>1, <1>2, <1>3, <1>5, <1>6, <2>1, <2>2 DEF Procs
<1>9. CASE (Saving("tcp") => deaf > 0) /\ (Saving("idle") => Saving("tcp")) /\ UNCHANGED <<cfg, vol>>
  <2>1. ~(AtCfg /\ deaf = 0)
    BY <1>9 DEF AtCfg
  <2>2. ASSUME status.vol # "spoilt" PROVE \A p \in Procs : ~AtVol(p)
    BY <1>9, <2>2 DEF HostInv, AtVol, Procs
  <2>3. cfg' = cfg /\ vol' = vol
    BY <1>9
  <2> QED BY <1>1, <1>2, <1>3, <1>5, <1>6, <2>1, <2>2, <2>3
<1> QED BY <1>7, <1>8, <1>9 DEF Crash

\* In whatever state the flash operation that was cut off leaves its words, the
\* other copy is untouched.
LEMMA CrashInv ==
  ASSUME IndInv, NEW m \in Masks, Crash(m)
  PROVE IndInv'
<1>1. TypeOK /\ HostInv /\ CfgProgress /\ CfgCopies /\ VolInv
  BY DEF IndInv
<1>2. /\ ~Saving("tcp")' /\ ~Saving("idle")'
      /\ \A p \in Procs : save'[p] = NoSave
      /\ status' \in [Regions -> StatusValues]
      /\ status'.cfg = IF AtCfg THEN CutOff(status.cfg) ELSE status.cfg
      /\ status'.vol = IF \E p \in Procs : AtVol(p) THEN CutOff(status.vol) ELSE status.vol
      /\ IF AtCfg /\ deaf = 0 THEN CfgOperation(save["tcp"], m) ELSE cfg' = cfg
      /\ status.vol # "spoilt" => \A p \in Procs : AtVol(p) => VolOperation(save[p], m)
      /\ (\A p \in Procs : ~AtVol(p)) => vol' = vol
      /\ cfg' \in [Copies -> CfgCopy] /\ vol' \in [Copies -> VolCopyType]
  BY <1>1, Cut
<1>3. /\ version' = version /\ deaf' = 0 /\ changes' = changes /\ saves' = saves
      /\ up' = FALSE /\ table' = EmptyTable /\ g_input_type' = INIT_INPUT
      /\ crashes' = crashes + 1 /\ crashes < MaxCrashes
      /\ save' = [p \in Procs |-> NoSave]
  BY DEF Crash
<1>4. EmptyTable \in [Ids -> Word] /\ INIT_INPUT \in Word /\ Odd(INIT_INPUT)
  BY EmptyIsTable, WordsAssumption, IdOdd DEF Table, INPUT_TYPE
<1>5. TypeOK'
  <2>1. crashes' \in 0..MaxCrashes
    BY <1>1, <1>3, BoundAssumption DEF TypeOK
  <2>2. save' \in [Procs -> SaveStates]
    BY <1>3, NoSaveState
  <2> QED BY <1>1, <1>2, <1>3, <1>4, <2>1, <2>2 DEF TypeOK, CfgCopy, VolCopyType
<1>6. HostInv'
  <2>1. save'["idle"].region = "vol" /\ \A p \in Procs : Shape(save'[p])
    BY <1>2, NoSaveState DEF Procs
  <2> QED BY <1>1, <1>2, <1>3, <1>4, <2>1, EmptyIsTable DEF HostInv
<1>7. ~AtCfg' /\ \A p \in Procs : ~AtVol(p)'
  BY <1>2, NoSaveState DEF AtCfg, AtVol, Saving
<1>8. 1 \in Copies /\ 2 \in Copies /\ 1 # 2 /\ Copies = {1, 2}
  BY DEF Copies
<1>9. CfgProgress' /\ CfgCopies'
  <2>1. CASE AtCfg /\ deaf = 0
    <3>1. save["tcp"] \in SaveStates /\ save["tcp"].copy \in Copies
      BY <1>1 DEF TypeOK, Procs, SaveStates
    <3>2. \A d \in Copies : d # save["tcp"].copy => cfg'[d] = cfg[d]
      BY <1>1, <1>2, <2>1, <3>1, CfgEffect
    <3>3. \A d \in Copies : d # save["tcp"].copy /\ Intact(d) => Intact(d)'
      BY <1>3, <3>2 DEF Intact
    <3>4. status.cfg \in {"saved", "rewriting"} => Intact(1)' \/ Intact(2)'
      BY <1>1, <1>8, <2>1, <3>1, <3>3 DEF CfgCopies
    <3>5. /\ status'.cfg \notin {"saved", "rewriting", "healing"}
          /\ status'.cfg = "torn" => status.cfg \in {"saved", "rewriting"}
      BY <1>2, <2>1 DEF CutOff
    <3> QED BY <1>7, <3>4, <3>5 DEF CfgProgress, CfgCopies
  <2>2. CASE ~AtCfg
    BY <1>1, <1>2, <1>3, <1>7, <2>2, CfgFrame
  <2>3. CASE AtCfg /\ deaf # 0
    <3>1. status.cfg = "spoilt"
      BY <1>1, <2>3 DEF HostInv, TypeOK
    <3>2. status'.cfg = "spoilt"
      BY <1>2, <3>1 DEF CutOff
    <3> QED BY <3>2 DEF CfgProgress, CfgCopies
  <2> QED BY <2>1, <2>2, <2>3
<1>10. VolInv'
  <2> SUFFICES ASSUME status'.vol # "spoilt"
               PROVE DataInv' /\ PairInv' /\ \A p \in Procs : VolProgress(p)' /\ VolCopies(p)'
    BY DEF VolInv
  <2>0. status.vol # "spoilt" /\ ((\E p \in Procs : AtVol(p)) => status.vol # "healing")
    BY <1>2 DEF CutOff
  <2>1. DataInv /\ PairInv /\ \A p \in Procs : VolProgress(p) /\ VolCopies(p)
    BY <1>1, <2>0 DEF VolInv
  <2>2. \A p \in Procs : VolProgress(p)' /\ VolCopies(p)'
    BY <1>7 DEF VolProgress, VolCopies
  <2>3. CASE \A p \in Procs : ~AtVol(p)
    <3>1. \A p \in Procs : (AtVol(p)' <=> AtVol(p)) /\ (AtVol(p) => save'[p] = save[p])
      BY <1>7, <2>3
    <3>2. VolInv'
      BY <1>1, <1>2, <1>3, <2>3, <3>1, VolFrame
    <3> QED BY <3>2 DEF VolInv
  <2>4. ASSUME NEW p \in Procs, AtVol(p) PROVE DataInv' /\ PairInv'
    <3> DEFINE s == save[p]
               c == s.copy
    <3>1. /\ s \in SaveStates /\ c \in Copies /\ s.data \in Word /\ vol[c] \in VolCopyType
          /\ vol[c].sum \in Word /\ vol[c].volume \in Word /\ vol[c].input \in Word
      BY <1>1 DEF TypeOK, SaveStates, VolCopyType
    <3>2. VolOperation(s, m) /\ VolStage(s, vol[c], version.vol[c]) /\ VolCopies(p)
      BY <1>2, <2>0, <2>1, <2>4 DEF VolProgress
    <3>3. Odd(vol[c].volume) /\ Odd(vol[c].input) /\ Odd(AllOnes) /\ AllOnes \in Word
      BY <2>0, <2>1, <2>4, <3>1, Ones DEF DataInv
    <3>4. g_input_type \in Word /\ Odd(g_input_type)
          /\ (s.pc \in {"volume", "input"} => Odd(s.data))
      BY <1>1 DEF HostInv, TypeOK, Shape
    <3>5. \A d \in Copies : d # c => vol'[d] = vol[d]
      BY <1>1, <3>1, <3>2, VolEffect
    <3>6. \A d \in Copies : d # c => /\ PairHeld(d)' <=> PairHeld(d)
                                     /\ PairIntact(d) => PairIntact(d)'
      BY <1>3, <3>5 DEF PairHeld, PairIntact, PairSum
    <3>7. PairInv'
      <4>1. status.vol \in {"saved", "rewriting"} => PairIntact(1)' \/ PairIntact(2)'
        BY <1>8, <2>4, <3>1, <3>2, <3>6 DEF VolCopies
      <4>2. /\ status'.vol \notin {"saved", "rewriting", "healing"}
            /\ status'.vol = "torn" => status.vol \in {"saved", "rewriting"}
        BY <1>2, <2>4 DEF CutOff
      <4> QED BY <4>1, <4>2 DEF PairInv
    <3>8. \A d \in Copies : d = c => /\ Odd(vol'[d].volume) /\ Odd(vol'[d].input)
                                     /\ PairHeld(d)' \/ vol'[d].sum = AllOnes
      <4> SUFFICES ASSUME NEW d \in Copies, d = c
                   PROVE /\ Odd(vol'[d].volume) /\ Odd(vol'[d].input)
                         /\ PairHeld(d)' \/ vol'[d].sum = AllOnes
        OBVIOUS
      <4>1. s.pc \in {"ecs", "edata", "get", "volume", "input", "cs"}
        BY <3>2 DEF VolStage
      <4>2. CASE s.pc = "ecs"
        <5>1. /\ vol'[c].sum = EraseWord(vol[c].sum, m)
              /\ vol'[c].volume = vol[c].volume /\ vol'[c].input = vol[c].input
          BY <1>1, <3>1, <3>2, <4>2, VolEffect
        <5>2. CASE PairHeld(d)
          BY <1>3, <3>3, <5>1, <5>2 DEF PairHeld
        <5>3. CASE vol[c].sum = AllOnes
          BY <3>1, <3>3, <5>1, <5>3, EraseResult
        <5> QED BY <2>0, <2>1, <2>4, <5>2, <5>3 DEF DataInv
      <4>3. CASE s.pc = "edata"
        BY <1>1, <3>1, <3>2, <3>3, <4>3, VolEffect, EraseResult DEF VolStage
      <4>4. CASE s.pc = "get"
        BY <1>1, <3>1, <3>2, <3>3, <4>4, VolEffect DEF VolStage
      <4>5. CASE s.pc = "volume"
        <5>1. /\ vol'[c].sum = AllOnes /\ vol'[c].volume = ProgramWord(AllOnes, s.data, m)
              /\ vol'[c].input = AllOnes
          BY <1>1, <3>1, <3>2, <4>5, VolEffect DEF VolStage
        <5>2. Odd(ProgramWord(AllOnes, s.data, m))
          BY <3>1, <3>3, <3>4, <4>5, ProgramResult
        <5> QED BY <3>3, <5>1, <5>2
      <4>6. CASE s.pc = "input"
        <5>1. /\ vol'[c].sum = AllOnes /\ vol'[c].volume = vol[c].volume
              /\ vol'[c].input = ProgramWord(AllOnes, g_input_type, m)
          BY <1>1, <3>1, <3>2, <4>6, VolEffect DEF VolStage
        <5>2. Odd(ProgramWord(AllOnes, g_input_type, m))
          BY <3>3, <3>4, ProgramResult
        <5> QED BY <3>3, <5>1, <5>2
      <4>7. CASE s.pc = "cs"
        <5>1. vol'[c].volume = vol[c].volume /\ vol'[c].input = vol[c].input
          BY <1>1, <3>1, <3>2, <4>7, VolEffect
        <5>2. <<vol[c].volume, vol[c].input>> = version.vol[c]
          BY <3>2, <4>7 DEF VolStage
        <5> QED BY <1>3, <3>3, <5>1, <5>2 DEF PairHeld
      <4> QED BY <4>1, <4>2, <4>3, <4>4, <4>5, <4>6, <4>7
    <3>9. DataInv'
      BY <2>0, <2>1, <2>4, <3>5, <3>6, <3>8 DEF DataInv
    <3> QED BY <3>7, <3>9
  <2> QED BY <2>2, <2>3, <2>4
<1> QED BY <1>5, <1>6, <1>9, <1>10 DEF IndInv

-----------------------------------------------------------------------------
(***************************************************************************)
(* The theorems                                                            *)
(***************************************************************************)
\* IndInv holds throughout every run of the saves, the changes between them and
\* the losses of power.
THEOREM Invariance == Spec => []IndInv
<1>1. IndInv /\ [Next]_vars => IndInv'
  <2> SUFFICES ASSUME IndInv, [Next]_vars PROVE IndInv'
    OBVIOUS
  <2>1. CASE Boot
    BY <2>1, BootInv
  <2>2. CASE \E w \in Changes : Change(w)
    BY <2>2, ChangeInv
  <2>3. CASE \E w \in Inputs : KeySelect(w)
    BY <2>3, KeySelectInv
  <2>4. CASE TcpSave
    BY <2>4, TcpSaveInv
  <2>5. CASE IdleSave
    BY <2>5, IdleSaveInv
  <2>6. ASSUME NEW p \in Procs, Step(p) PROVE IndInv'
    <3>1. Saving(p) /\ save[p] \in SaveStates /\ save[p].region \in Regions
          /\ (p = "idle" => save[p].region = "vol")
      BY <2>6 DEF Step, IndInv, TypeOK, HostInv, SaveStates
    <3>2. CASE save[p].region = "vol"
      BY <2>6, <3>1, <3>2, VolStep DEF AtVol
    <3>3. CASE save[p].region = "cfg"
      <4>1. p = "tcp"
        BY <3>1, <3>3 DEF Procs
      <4> QED BY <2>6, <3>1, <3>3, <4>1, CfgStep DEF AtCfg
    <3> QED BY <3>1, <3>2, <3>3 DEF Regions
  <2>7. CASE \E m \in Masks : Crash(m)
    BY <2>7, CrashInv
  <2>8. CASE \E m \in Masks : TcpSaveInside(m)
    BY <2>8, TcpSaveInsideInv
  <2>9. CASE StepIgnored
    BY <2>9, StepIgnoredInv
  <2>10. CASE UNCHANGED vars
    <3>1. UNCHANGED <<cfg, vol, save, version, status, table>>
      BY <2>10 DEF vars
    <3>2. CfgProgress' /\ CfgCopies' /\ VolInv'
      BY <3>1, FlashFrame
    <3>3. TypeOK' /\ HostInv'
      BY <2>10 DEF vars, IndInv, TypeOK, HostInv, Saving
    <3> QED BY <3>2, <3>3 DEF IndInv
  <2> QED BY <2>1, <2>2, <2>3, <2>4, <2>5, <2>6, <2>7, <2>8, <2>9, <2>10 DEF Next
<1> QED BY <1>1, InitInv, PTL DEF Spec

\* The flash, the tables and the saves keep their types: the loops over the
\* slots stay inside the data areas.
THEOREM TypeCorrect == Spec => []TypeOK
<1>1. IndInv => TypeOK
  BY DEF IndInv
<1> QED BY <1>1, Invariance, PTL

\* Wherever in a save the power is lost, one copy of the tables is intact.
THEOREM ConfigKept == Spec => []ConfigSurvives
<1>1. IndInv => ConfigSurvives
  <2> SUFFICES ASSUME IndInv, ~up, status.cfg \in {"saved", "torn"}
               PROVE \E c \in Copies : Intact(c)
    BY DEF ConfigSurvives
  <2>1. ~AtCfg
    BY DEF IndInv, HostInv, AtCfg
  <2> QED BY <2>1 DEF IndInv, CfgCopies, Copies
<1> QED BY <1>1, Invariance, PTL

\* A complete save of the tables is read back word by word.
THEOREM SavedRestored == Spec => []SavedIsRestored
<1>1. IndInv => SavedIsRestored
  <2> SUFFICES ASSUME IndInv, ~up, status.cfg = "saved", Checksum(version.cfg[2]) # AllOnes
               PROVE ReadConfig = version.cfg[2]
    BY DEF SavedIsRestored
  <2>1. Intact(1) /\ Intact(2) /\ version.cfg[1] = version.cfg[2]
    BY DEF IndInv, CfgCopies
  <2>2. Equal
    BY <2>1 DEF Equal, Intact
  <2>3. version.cfg[1] \in Table
    BY DEF IndInv, HostInv, Copies
  <2>4. AllEntries(cfg[1].words) = version.cfg[1]
    BY <2>1, <2>3, Restored DEF Intact
  <2> QED BY <2>1, <2>2, <2>4 DEF ReadConfig
<1> QED BY <1>1, Invariance, PTL

\* The pair of volume and input type that read_w25q16 takes was saved together.
THEOREM VolumeKept == Spec => []VolumeSurvives
<1>1. IndInv => VolumeSurvives
  <2> SUFFICES ASSUME IndInv, ~up, status.vol \in {"saved", "torn"}
               PROVE /\ VolCopy # 0
                     /\ <<vol[VolCopy].volume, vol[VolCopy].input>> = version.vol[VolCopy]
    BY DEF VolumeSurvives
  <2>1. /\ DataInv /\ PairInv /\ 1 \in Copies /\ 2 \in Copies
        /\ vol \in [Copies -> VolCopyType]
    BY DEF IndInv, VolInv, TypeOK, VolCopyType, Copies
  <2>2. \A p \in Procs : ~AtVol(p)
    BY DEF IndInv, HostInv, AtVol, Procs
  <2>3. PairIntact(1) \/ PairIntact(2)
    BY <2>1, <2>2 DEF PairInv
  <2>4. \A c \in Copies : ~Odd(PairSum(vol[c]))
    <3> SUFFICES ASSUME NEW c \in Copies PROVE ~Odd(PairSum(vol[c]))
      OBVIOUS
    <3>1. vol[c].volume \in Word /\ vol[c].input \in Word
      BY <2>1 DEF VolCopyType
    <3>2. Odd(vol[c].volume) /\ Odd(vol[c].input)
      BY <2>1 DEF DataInv
    <3> QED BY <3>1, <3>2, EvenSum DEF PairSum
  <2>5. \A c \in Copies : PairIntact(c) => VolUsable(c)
    BY <2>4, Ones DEF PairIntact, VolUsable
  <2>6. \A c \in Copies : VolUsable(c) => PairHeld(c)
    BY <2>1, <2>4, Ones DEF VolUsable, DataInv
  <2>7. VolEqual => PairHeld(1)
    BY <2>1 DEF VolEqual, DataInv
  <2>8. VolCopy # 0
    BY <2>1, <2>3, <2>5 DEF VolCopy
  <2>9. PairHeld(VolCopy)
    BY <2>1, <2>6, <2>7, <2>8 DEF VolCopy
  <2> QED BY <2>8, <2>9 DEF PairHeld
<1> QED BY <1>1, Invariance, PTL

(***************************************************************************)
(* What stands under a checksum                                            *)
(***************************************************************************)
\* The checksum of a copy is erased before its words and programmed after
\* them: one that is not erased, right or half-written, stands over the tables
\* of one save, unless the flash has ignored an erasure and no save has ended since.
WordsHeld ==
  status.cfg \notin {"spoilt", "healing"} =>
    \A c \in Copies : cfg[c].sum = AllOnes \/ cfg[c].words = version.cfg[c]

\* A flash operation on a copy, complete or cut off.
LEMMA HeldOperation ==
  ASSUME IndInv, WordsHeld, AtCfg, status.cfg \notin {"spoilt", "healing"}, NEW m \in Masks, CfgOperation(save["tcp"], m),
         \A d \in Copies : d # save["tcp"].copy => version'.cfg[d] = version.cfg[d],
         save["tcp"].pc # "word" => version' = version
  PROVE WordsHeld'
<1> DEFINE s == save["tcp"]
           c == s.copy
<1>1. TypeOK /\ s \in SaveStates /\ c \in Copies /\ cfg[c].sum \in Word /\ s.sum \in Word
  BY DEF IndInv, TypeOK, Procs, SaveStates
<1>2. CfgStage(s, cfg[c], table, version.cfg[c])
  BY DEF IndInv, CfgProgress
<1>3. s.pc \in {"ecs", "edata", "word", "cs"} /\ (s.pc # "ecs" => cfg[c].sum = AllOnes)
  BY <1>2 DEF CfgStage
<1>4. \A d \in Copies : d # c => cfg'[d] = cfg[d]
  BY <1>1, CfgEffect
<1>5. CASE s.pc = "ecs"
  <2>1. cfg'[c].sum = EraseWord(cfg[c].sum, m) /\ cfg'[c].words = cfg[c].words
    BY <1>1, <1>5, CfgEffect
  <2>2. cfg[c].sum = AllOnes => cfg'[c].sum = AllOnes
    BY <1>1, <2>1, EraseResult
  <2> QED BY <1>1, <1>4, <1>5, <2>1, <2>2 DEF WordsHeld
<1>6. CASE s.pc \in {"edata", "word"}
  <2>1. cfg'[c].sum = AllOnes
    BY <1>1, <1>3, <1>6, CfgEffect
  <2> QED BY <1>1, <1>4, <2>1 DEF WordsHeld
<1>7. CASE s.pc = "cs"
  <2>1. cfg'[c].words = cfg[c].words
    BY <1>1, <1>7, CfgEffect
  <2>2. cfg[c].words = version.cfg[c]
    BY <1>2, <1>7 DEF CfgStage
  <2> QED BY <1>1, <1>4, <1>7, <2>1, <2>2 DEF WordsHeld
<1> QED BY <1>3, <1>5, <1>6, <1>7

\* No step puts a checksum over words of two saves.
LEMMA HeldKept == IndInv /\ WordsHeld /\ [Next]_vars => WordsHeld'
<1> SUFFICES ASSUME IndInv, WordsHeld, [Next]_vars, status'.cfg \notin {"spoilt", "healing"}
             PROVE WordsHeld'
  BY DEF WordsHeld
<1>1. CASE UNCHANGED <<cfg, version>> /\ status'.cfg = status.cfg
  BY <1>1 DEF WordsHeld
<1>2. ASSUME NEW p \in Procs, Step(p) PROVE WordsHeld'
  <2>1. Saving(p) /\ save[p] \in SaveStates /\ save[p].region \in Regions
        /\ (p = "idle" => save[p].region = "vol")
    BY <1>2 DEF Step, IndInv, TypeOK, HostInv, SaveStates
  <2>2. CASE save[p].region = "vol"
    <3>1. cfg' = cfg
      BY <1>2, <2>2 DEF Step, Operation
    <3>2. save[p].pc # "word"
      BY <1>2, <2>2 DEF Step, Operation, VolOperation
    <3>3. version' = version \/ version' = [version EXCEPT !.vol = [version.vol EXCEPT ![save[p].copy] = <<save[p].data, g_input_type>>]]
      BY <1>2, <3>2 DEF Step, Versions
    <3>4. version'.cfg = version.cfg
      BY <3>3 DEF IndInv, HostInv
    <3>5. status'.cfg = status.cfg
      <4>1. save[p].pc = "input" => Odd(save[p].data)
        BY DEF IndInv, HostInv, Shape
      <4>2. version' = Versions(save[p]) /\ status' = Statuses(save[p])
        BY <1>2 DEF Step
      <4> QED BY <2>1, <2>2, <3>2, <4>1, <4>2, VolHistory DEF IndInv
    <3> QED BY <3>1, <3>4, <3>5 DEF WordsHeld
  <2>3. CASE save[p].region = "cfg"
    <3>1. p = "tcp"
      BY <2>1, <2>3 DEF Procs
    <3>2. AtCfg
      BY <2>1, <2>3, <3>1 DEF AtCfg
    <3>3. CfgOperation(save["tcp"], 0) /\ version' = Versions(save["tcp"])
          /\ status' = Statuses(save["tcp"])
      BY <1>2, <2>3, <3>1 DEF Step, Operation
    <3>4. save["tcp"].pc \in {"ecs", "edata", "word", "cs"}
      BY <3>3 DEF CfgOperation
    <3>5. /\ \A d \in Copies : d # save["tcp"].copy => version'.cfg[d] = version.cfg[d]
          /\ save["tcp"].pc # "word" => version' = version
      BY <2>1, <2>3, <3>1, <3>3, <3>4, CfgHistory DEF IndInv
    <3>6. 0 \in Masks
      BY AndAssumption
    <3>7. CASE status.cfg \notin {"spoilt", "healing"}
      BY <3>2, <3>3, <3>5, <3>6, <3>7, HeldOperation
    <3>8. CASE status.cfg \in {"spoilt", "healing"}
      <4>1. status'.cfg = "saved"
        BY <2>1, <2>3, <3>1, <3>3, <3>4, <3>8, CfgHistory DEF IndInv
      <4>2. CfgCopies'
        BY <1>2, <3>1, <3>2, CfgStep DEF IndInv
      <4> QED BY <4>1, <4>2 DEF CfgCopies, Intact, WordsHeld, Copies
    <3> QED BY <3>7, <3>8
  <2> QED BY <2>1, <2>2, <2>3 DEF Regions
<1>3. ASSUME NEW m \in Masks, Crash(m) PROVE WordsHeld'
  <2>1. version' = version
    BY <1>3 DEF Crash
  <2>2. /\ IF AtCfg /\ deaf = 0 THEN CfgOperation(save["tcp"], m) ELSE cfg' = cfg
        /\ status'.cfg = IF AtCfg THEN CutOff(status.cfg) ELSE status.cfg
    BY <1>3, Cut DEF IndInv
  <2>3. status.cfg \notin {"spoilt", "healing"}
    <3>1. status.cfg = "healing" => AtCfg
      BY DEF IndInv, CfgCopies
    <3> QED BY <2>2, <3>1 DEF CutOff
  <2>4. CASE AtCfg /\ deaf = 0
    BY <2>1, <2>2, <2>3, <2>4, HeldOperation
  <2>5. CASE ~(AtCfg /\ deaf = 0)
    BY <2>1, <2>2, <2>3, <2>5 DEF WordsHeld
  <2> QED BY <2>4, <2>5
<1>4. CASE Boot \/ (\E w \in Changes : Change(w)) \/ (\E w \in Inputs : KeySelect(w)) \/ IdleSave
  BY <1>1, <1>4 DEF Boot, Change, KeySelect, IdleSave
<1>5. CASE TcpSave \/ (\E m \in Masks : TcpSaveInside(m))
  <2>1. UNCHANGED <<cfg, version>>
    BY <1>5 DEF TcpSave, TcpSaveInside
  <2>2. status'.cfg \in {status.cfg, "spoilt"}
    BY <1>5 DEF TcpSave, TcpSaveInside, IndInv, TypeOK, Regions
  <2> QED BY <1>1, <2>1, <2>2
<1>6. CASE StepIgnored
  BY <1>1, <1>6 DEF StepIgnored
<1>7. CASE UNCHANGED vars
  BY <1>1, <1>7 DEF vars
<1> QED BY <1>2, <1>3, <1>4, <1>5, <1>6, <1>7 DEF Next

\* A checksum that is not erased stands over one save's tables at all such times.
LEMMA HeldAlways == Spec => []WordsHeld
<1>1. Init => WordsHeld
  BY DEF Init, WordsHeld
<1> QED BY <1>1, Invariance, HeldKept, PTL DEF Spec

\* The loops that end at the first word take it from the table they read.
LEMMA FirstEntryOf ==
  ASSUME NEW v \in Table
  PROVE \A id \in Ids : FirstEntry(v)[id] \in {0, v[id]}
<1>1. CASE ~AnyKept(v)
  BY <1>1 DEF FirstEntry, EmptyTable
<1>2. CASE AnyKept(v)
  <2> DEFINE First(i) == Kept(v[i]) /\ \A j \in 1..(i - 1) : ~Kept(v[j])
             T == {i \in Ids : Kept(v[i])}
  <2>1. Ids = 1..Entries /\ Entries \in Nat
    BY SizeAssumption DEF Ids
  <2>2. T \subseteq Nat /\ T # {}
    BY <1>2, <2>1 DEF AnyKept
  <2>3. PICK i \in T : \A j \in T : i <= j
    BY <2>2, LeastNat
  <2>4. i \in Ids /\ First(i)
    BY <2>1, <2>3
  <2>5. PICK k \in Ids : k = (CHOOSE j \in Ids : First(j)) /\ First(k)
    BY <2>4
  <2>6. FirstEntry(v) = do_set_cmd_entry(EmptyTable, v[k])
    BY <1>2, <2>5 DEF FirstEntry
  <2>7. Kept(v[k])
    BY <2>5
  <2> HIDE DEF First
  <2>8. IdOf(v[k]) = k
    BY <2>7 DEF Kept, Table
  <2>9. FirstEntry(v) = [EmptyTable EXCEPT ![k] = v[k]]
    BY <2>6, <2>8 DEF do_set_cmd_entry
  <2> QED BY <2>9 DEF EmptyTable
<1> QED BY <1>1, <1>2

\* However many saves were cut off, at whatever word and with any bits left over,
\* read_w25q16 never makes tables of the words of two saves, unless the words of
\* an area under an erased checksum happen to add up to it.
THEOREM OneVersionRead == Spec => []NoMixedVersions
<1>1. IndInv /\ WordsHeld => NoMixedVersions
  <2> SUFFICES ASSUME IndInv, WordsHeld, ~up, status.cfg # "spoilt", \A c \in Copies : ~AddsUpErased(c)
               PROVE \E v \in {version.cfg[1], version.cfg[2], EmptyTable} :
                       \A id \in Ids : ReadConfig[id] \in {0, v[id]}
    BY DEF NoMixedVersions
  <2>1. 1 \in Copies /\ 2 \in Copies
    BY DEF Copies
  <2>2. version.cfg[1] \in Table /\ version.cfg[2] \in Table
    BY <2>1 DEF IndInv, HostInv
  <2>0. \A c \in Copies : cfg[c].sum = AllOnes \/ cfg[c].words = version.cfg[c]
    <3>1. ~AtCfg
      BY DEF IndInv, HostInv, AtCfg
    <3> QED BY <3>1 DEF IndInv, CfgCopies, WordsHeld
  <2>3. \A c \in Copies : Usable(c) => cfg[c].words = version.cfg[c]
    BY <2>0 DEF Usable, AddsUpErased
  <2>4. CASE Equal
    <3>1. cfg[1].words = version.cfg[1]
      BY <2>0, <2>1, <2>4 DEF Equal
    <3>2. ReadConfig = version.cfg[1]
      BY <2>2, <2>4, <3>1, Restored DEF ReadConfig
    <3> QED BY <3>2
  <2>5. CASE ~Equal /\ Usable(1) /\ AnyKept(cfg[1].words)
    <3>1. ReadConfig = FirstEntry(version.cfg[1])
      BY <2>1, <2>3, <2>5 DEF ReadConfig
    <3> QED BY <2>2, <3>1, FirstEntryOf
  <2>6. CASE ~Equal /\ ~(Usable(1) /\ AnyKept(cfg[1].words)) /\ Usable(2)
    <3>1. ReadConfig = FirstEntry(version.cfg[2])
      BY <2>1, <2>3, <2>6 DEF ReadConfig
    <3> QED BY <2>2, <3>1, FirstEntryOf
  <2>7. CASE ~Equal /\ ~(Usable(1) /\ AnyKept(cfg[1].words)) /\ ~Usable(2)
    <3>1. ReadConfig = EmptyTable
      BY <2>7 DEF ReadConfig
    <3> QED BY <3>1 DEF EmptyTable
  <2> QED BY <2>4, <2>5, <2>6, <2>7
<1> QED BY <1>1, Invariance, HeldAlways, PTL
=============================================================================
