---------------------------- MODULE MCFlashStore ----------------------------
(***************************************************************************)
(* Small instances of FlashStore: words of nine bits, two identifiers.      *)
(***************************************************************************)
EXTENDS FlashStore

\* Bitwise and of two numbers of five bits, bit by bit, and of two of ten.
HalfAnd == [x, y \in 0..31 |->
  LET a[b \in 0..5] ==
        IF b = 0 THEN 0
        ELSE a[b - 1] + (IF (x \div 2^(b-1)) % 2 = 1 /\ (y \div 2^(b-1)) % 2 = 1
                         THEN 2^(b-1) ELSE 0)
  IN a[5]]

MCAnd(x, y) == 32 * HalfAnd[x \div 32, y \div 32] + HalfAnd[x % 32, y % 32]

Volume(v) == 64 * v + 1
Input(n) == 8 * n + 3

MCChanges == {Volume(3), Input(2)}
MCInputs == {Input(1), Input(2)}
MCInit == Input(1)
MCMic == Input(6)

\* Every bit changes, none does, every second one does.
MCMasks == {0, 511, 341}

\* None, or the first: a write enable sent into an open status read.
MCIgnored == {0, 1}
\* As many as leave the last word and the checksum of copy 1 to be programmed
\* over the old ones; or every one.
MCAllIgnored == {0, 1, 4, 99}
=============================================================================
