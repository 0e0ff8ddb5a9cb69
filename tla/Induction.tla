------------------------------ MODULE Induction ------------------------------
(***************************************************************************)
(* Induction over the naturals, in the forms that the proofs of this       *)
(* project need.  What is proved by induction is membership in a set.      *)
(***************************************************************************)
EXTENDS Naturals, WellFoundedInduction, TLAPS

\* A set of naturals has a least element.
LEMMA LeastNat ==
  ASSUME NEW T, T \subseteq Nat, T # {}
  PROVE  \E x \in T : \A y \in T : x <= y
<1> DEFINE R == OpToRel(<, Nat)
<1>1. \E x \in T : \A y \in T : ~(<<y, x>> \in R)
  <2> HIDE DEF R
  <2>1. IsWellFoundedOn(R, Nat)
    BY NatLessThanWellFounded DEF R
  <2> QED
    BY <2>1, WFMin
<1>2. \A x, y \in Nat : ~(<<y, x>> \in R) => x <= y
  BY DEF OpToRel
<1> QED
  BY <1>1, <1>2

\* A set that holds 0, and with each number below n the next one, holds the
\* numbers up to n.
LEMMA Upwards ==
  ASSUME NEW n \in Nat, NEW S, 0 \in S,
         \A i \in 1..n : i - 1 \in S => i \in S
  PROVE \A i \in 0..n : i \in S
<1> SUFFICES ASSUME NEW j \in 0..n, j \notin S PROVE FALSE
  OBVIOUS
<1> DEFINE T == {i \in 0..n : i \notin S}
<1>1. T \subseteq Nat /\ T # {}
  OBVIOUS
<1>2. PICK i \in T : \A k \in T : i <= k
  BY <1>1, LeastNat
<1>3. i \in 1..n /\ i - 1 \in 0..n /\ i - 1 \notin T
  BY <1>2
<1> QED BY <1>2, <1>3

\* The values x, G[1][x], G[2][G[1][x]] and so on are those of a function.
Solvable(n, X, x, G) ==
  \E f \in [0..n -> X] :
    \A i \in 0..n : f[i] = IF i = 0 THEN x ELSE G[i][f[i - 1]]

\* A definition by recursion has a solution.
LEMMA Recursion ==
  ASSUME NEW n \in Nat, NEW X, NEW x \in X, NEW G \in [1..n -> [X -> X]]
  PROVE Solvable(n, X, x, G)
<1> DEFINE Good(m, f) == \A i \in 0..m : f[i] = IF i = 0 THEN x ELSE G[i][f[i - 1]]
           S == {m \in 0..n : \E f \in [0..m -> X] : Good(m, f)}
<1>1. 0 \in S
  <2> DEFINE g == [i \in 0..0 |-> x]
  <2>1. g \in [0..0 -> X] /\ Good(0, g)
    OBVIOUS
  <2> HIDE DEF g
  <2> QED BY <2>1
<1>2. ASSUME NEW m \in 1..n, m - 1 \in S PROVE m \in S
  <2>1. PICK f \in [0..(m - 1) -> X] : Good(m - 1, f)
    BY <1>2
  <2> DEFINE g == [i \in 0..m |-> IF i = m THEN G[m][f[m - 1]] ELSE f[i]]
  <2>2. f[m - 1] \in X /\ G[m] \in [X -> X]
    OBVIOUS
  <2>3. G[m][f[m - 1]] \in X
    BY <2>2
  <2>4. g \in [0..m -> X]
    BY <2>3
  <2>5. \A i \in 0..(m - 1) : g[i] = f[i]
    OBVIOUS
  <2>6. g[m] = G[m][f[m - 1]]
    OBVIOUS
  <2> HIDE DEF g
  <2>7. Good(m, g)
    <3> SUFFICES ASSUME NEW i \in 0..m
                 PROVE g[i] = IF i = 0 THEN x ELSE G[i][g[i - 1]]
      OBVIOUS
    <3>1. CASE i = m
      BY <2>5, <2>6, <3>1
    <3>2. CASE i # m
      <4>1. i \in 0..(m - 1)
        BY <3>2
      <4>2. i # 0 => i - 1 \in 0..(m - 1)
        BY <4>1
      <4>3. f[i] = IF i = 0 THEN x ELSE G[i][f[i - 1]]
        BY <2>1, <4>1
      <4> QED BY <2>5, <4>1, <4>2, <4>3
    <3> QED BY <3>1, <3>2
  <2> QED BY <2>4, <2>7
<1> HIDE DEF S
<1>3. \A m \in 0..n : m \in S
  BY <1>1, <1>2, Upwards
<1>4. n \in S
  BY <1>3
<1> QED BY <1>4 DEF S, Solvable
=============================================================================
