--------------------------- MODULE KeyInputProofs ---------------------------
(***************************************************************************)
(* The proofs that a press of a key acts once (OncePerPress of KeyInput)   *)
(* and that a key held alone is the one waited for (HeldIsHandled), for    *)
(* any number of presses and for any bouncing.                             *)
(***************************************************************************)
EXTENDS KeyInput, FiniteSetTheorems, TLAPS

\* How often the loop may yet act on key k before the user presses it again,
\* if no contact bounces any more: once for the press that is under way, and
\* once for an earlier one that it has accepted.  While the contact is down or
\* opening, what it has accepted is the press under way.
Owed(k) ==
  (IF contact[k] = "up" THEN 0 ELSE 1)
  + (IF press_ok[k] /\ contact[k] \in {"up", "closing"} THEN 1 ELSE 0)

\* The driver believes only a press that it is timing.
DriverInv == \A k \in Keys : driver[k].pressed => driver[k].flag

\* The loop handles a key exactly if it has accepted one.
LoopInv == g_i_have_key_pressed <=> (press_ok[1] \/ press_ok[2])

OwedInv == \A k \in Keys : acted[k] + Owed(k) <= presses[k] + bounced

IndInv == TypeOK /\ DriverInv /\ LoopInv /\ OwedInv

-----------------------------------------------------------------------------
(***************************************************************************)
(* The operators                                                           *)
(***************************************************************************)
\* The next input of the front panel is one of the inputs.
LEMMA NextInputType ==
  ASSUME NEW n \in InputType
  PROVE NextInput(n) \in InputType
  BY DEF NextInput, InputType, INIT_INPUT, MIC_INPUT

Driver == [flag : BOOLEAN, time : 0..DEBOUNCE, pressed : BOOLEAN]

\* The body of rt_handle_key_input believes a press only while it times it,
\* and none of a contact that is open.
LEMMA DriveResult ==
  ASSUME NEW d \in Driver, d.pressed => d.flag, NEW r \in Reads
  PROVE /\ Drive(d, r) \in Driver
        /\ Drive(d, r).pressed => Drive(d, r).flag
        /\ (\A n \in 1..4 : r[n] = 1) => ~Drive(d, r).pressed
<1>1. Timed(d) \in 0..DEBOUNCE
  BY DEF Timed, Driver, DEBOUNCE
<1>2. r[1] \in {0, 1} /\ r[3] \in {0, 1}
  BY DEF Reads
<1> HIDE DEF Reads
<1>3. CASE ~d.flag /\ r[1] = 1
  BY <1>3 DEF Drive
<1>4. CASE ~(~d.flag /\ r[1] = 1) /\ r[3] = 1
  <2>1. Drive(d, r) = NotPressed
    BY <1>4 DEF Drive
  <2> QED BY <2>1 DEF NotPressed, Driver, DEBOUNCE
<1>5. CASE ~(~d.flag /\ r[1] = 1) /\ r[3] # 1
  <2> DEFINE p == d.pressed \/ (Timed(d) >= DEBOUNCE /\ r[2] = 0)
  <2>1. Drive(d, r) = [flag |-> TRUE, time |-> Timed(d), pressed |-> p]
    BY <1>5 DEF Drive
  <2>2. p \in BOOLEAN
    BY DEF Driver
  <2> HIDE DEF p
  <2>3. ~(\A n \in 1..4 : r[n] = 1)
    BY <1>5
  <2> QED BY <1>1, <2>1, <2>2, <2>3 DEF Driver
<1> QED BY <1>3, <1>4, <1>5

\* What the reads of one poll come to for key k: the driver's record, and the
\* loop's own read, which a contact that is up or down fixes.
LEMMA OutcomeType ==
  ASSUME TypeOK, DriverInv, NEW k \in Keys, NEW o \in Outcomes(k)
  PROVE /\ o.driver \in Driver
        /\ o.driver.pressed => o.driver.flag
        /\ contact[k] = "up" => ~o.driver.pressed
        /\ contact[k] = "down" => o.pin # 1
        /\ o.pin \in {0, 1}
<1>1. PICK r \in PinReads(contact[k]) :
        o = [driver |-> Drive(driver[k], r), pin |-> r[4]]
  BY DEF Outcomes
<1>2. /\ r \in Reads
      /\ contact[k] = "up" => \A n \in 1..4 : r[n] = 1
      /\ contact[k] = "down" => \A n \in 1..4 : r[n] = 0
  BY DEF PinReads, TypeOK
<1>3. driver[k] \in Driver /\ (driver[k].pressed => driver[k].flag)
  BY DEF TypeOK, Driver, DriverInv
<1>4. r[4] \in {0, 1}
  BY <1>2 DEF Reads
<1>5. /\ Drive(driver[k], r) \in Driver
      /\ Drive(driver[k], r).pressed => Drive(driver[k], r).flag
      /\ (\A n \in 1..4 : r[n] = 1) => ~Drive(driver[k], r).pressed
  BY <1>2, <1>3, DriveResult
<1>6. contact[k] = "down" => r[4] = 0
  BY <1>2
<1>7. contact[k] = "up" => ~Drive(driver[k], r).pressed
  BY <1>2, <1>5
<1> QED BY <1>1, <1>4, <1>5, <1>6, <1>7

\* The key that rt_handle_key_input returns is one that it believes.
LEMMA KeyNumberResult ==
  ASSUME NEW d
  PROVE /\ KeyNumber(d) \in {0, 1, 2}
        /\ \A k \in Keys : KeyNumber(d) = k => d[k].pressed
  BY DEF KeyNumber, Keys

\* The contacts that go on bouncing after a poll are counted.
LEMMA Bounces ==
  ASSUME NEW P, P \subseteq Keys
  PROVE /\ Cardinality(P) \in Nat
        /\ \A k \in P : Cardinality(P) >= 1
<1>1. IsFiniteSet(Keys)
  <2>1. IsFiniteSet({1}) /\ IsFiniteSet({2})
    BY FS_Singleton
  <2>2. IsFiniteSet({1} \cup {2})
    BY <2>1, FS_Union
  <2>3. Keys = {1} \cup {2}
    BY DEF Keys
  <2> QED BY <2>2, <2>3
<1>2. IsFiniteSet(P) /\ Cardinality(P) \in Nat
  BY <1>1, FS_Subset, FS_CardinalityType
<1>3. P # {} => Cardinality(P) # 0
  BY <1>2, FS_EmptySet
<1> QED BY <1>2, <1>3

-----------------------------------------------------------------------------
(***************************************************************************)
(* The initial state                                                       *)
(***************************************************************************)
\* No key is pressed and none is handled.
LEMMA InitInv == Init => IndInv
<1> SUFFICES ASSUME Init PROVE IndInv
  OBVIOUS
<1>1. TypeOK
  <2>1. NotPressed \in Driver
    BY DEF NotPressed, Driver, DEBOUNCE
  <2>2. driver \in [Keys -> Driver]
    BY <2>1 DEF Init
  <2>3. StartInput \in InputType /\ 0 \in 0..MaxPresses /\ 0 \in 0..MaxBounce
        /\ 0 \in 0..DEBOUNCE
    BY KeyAssumption DEF DEBOUNCE
  <2> QED BY <2>2, <2>3 DEF Init, TypeOK, Driver
<1>2. DriverInv
  BY DEF Init, DriverInv, NotPressed
<1>3. LoopInv
  BY DEF Init, LoopInv, Keys
<1>4. OwedInv
  BY DEF Init, OwedInv, Owed, Keys
<1> QED BY <1>1, <1>2, <1>3, <1>4 DEF IndInv
-----------------------------------------------------------------------------
(***************************************************************************)
(* One round of the thread                                                 *)
(***************************************************************************)
\* The facts about a poll that the rest of the proof uses: what the driver
\* comes to, where the contacts go, and what a bounce adds.
LEMMA PollFacts ==
  ASSUME IndInv, Poll
  PROVE /\ driver' \in [Keys -> Driver]
        /\ DriverInv'
        /\ contact' \in [Keys -> {"up", "closing", "down", "opening"}]
        /\ \A k \in Keys :
             /\ contact[k] = "up" => contact'[k] = "up"
             /\ contact[k] = "down" => contact'[k] = "down"
             /\ contact[k] = "closing" => contact'[k] \in {"closing", "down"}
             /\ contact[k] = "opening" => contact'[k] \in {"opening", "up"}
             /\ contact'[k] \in {"closing", "opening"} => bounced' >= bounced + 1
        /\ bounced' \in 0..MaxBounce /\ bounced' >= bounced
        /\ \E n \in {0, 1, 2} : \E o :
             /\ \A k \in Keys : contact[k] = "up" => n # k
             /\ \A k \in Keys :
                  o[k].pin \in {0, 1} /\ (contact[k] = "down" => o[k].pin # 1)
             /\ Accept(n) \/ Wait(o) \/ Act(o)
<1> USE DEF IndInv
<1>1. PICK o1 \in Outcomes(1), o2 \in Outcomes(2) :
        /\ driver' = [k \in Keys |-> <<o1, o2>>[k].driver]
        /\ Accept(KeyNumber(driver')) \/ Wait(<<o1, o2>>) \/ Act(<<o1, o2>>)
  BY DEF Poll
<1> DEFINE o == <<o1, o2>>
<1>2. o[1] = o1 /\ o[2] = o2
  OBVIOUS
<1> HIDE DEF o
<1>3. \A k \in Keys :
        /\ o[k].driver \in Driver
        /\ o[k].driver.pressed => o[k].driver.flag
        /\ contact[k] = "up" => ~o[k].driver.pressed
        /\ contact[k] = "down" => o[k].pin # 1
        /\ o[k].pin \in {0, 1}
  BY <1>2, OutcomeType DEF Keys
<1>4. driver' = [k \in Keys |-> o[k].driver]
  BY <1>1 DEF o
<1>5. \A k \in Keys : driver'[k] = o[k].driver
  BY <1>4
<1>6. /\ contact' \in [Keys -> {"up", "closing", "down", "opening"}]
      /\ \A k \in Keys :
           \/ contact'[k] = Settled(contact[k])
           \/ Moving(contact[k]) /\ contact'[k] = contact[k]
      /\ bounced' = bounced + Cardinality({k \in Keys : Moving(contact'[k])})
      /\ bounced' <= MaxBounce
  BY DEF Poll
<1> DEFINE P == {k \in Keys : Moving(contact'[k])}
<1>7. Cardinality(P) \in Nat /\ \A k \in P : Cardinality(P) >= 1
  <2>1. P \subseteq Keys
    OBVIOUS
  <2> QED BY <2>1, Bounces
<1>8. bounced \in Nat /\ MaxBounce \in Nat
  BY KeyAssumption DEF TypeOK
<1>9. bounced' \in 0..MaxBounce /\ bounced' >= bounced
  BY <1>6, <1>7, <1>8
<1>10. \A k \in Keys :
         /\ contact[k] = "up" => contact'[k] = "up"
         /\ contact[k] = "down" => contact'[k] = "down"
         /\ contact[k] = "closing" => contact'[k] \in {"closing", "down"}
         /\ contact[k] = "opening" => contact'[k] \in {"opening", "up"}
  BY <1>6 DEF Settled, Moving
<1>11. \A k \in Keys : contact'[k] \in {"closing", "opening"} => bounced' >= bounced + 1
  <2> SUFFICES ASSUME NEW k \in Keys, contact'[k] \in {"closing", "opening"}
               PROVE bounced' >= bounced + 1
    OBVIOUS
  <2>1. k \in P
    BY DEF Moving
  <2> QED BY <1>6, <1>7, <1>8, <2>1
<1>12. \A k \in Keys : contact[k] = "up" => KeyNumber(driver') # k
  BY <1>3, <1>5, KeyNumberResult
<1>13. KeyNumber(driver') \in {0, 1, 2}
  BY KeyNumberResult
<1>14. Accept(KeyNumber(driver')) \/ Wait(o) \/ Act(o)
  BY <1>1 DEF o
<1>15. driver' \in [Keys -> Driver] /\ DriverInv'
  BY <1>3, <1>4, <1>5 DEF DriverInv
<1>16. \E n \in {0, 1, 2} : \E q :
         /\ \A k \in Keys : contact[k] = "up" => n # k
         /\ \A k \in Keys :
              q[k].pin \in {0, 1} /\ (contact[k] = "down" => q[k].pin # 1)
         /\ Accept(n) \/ Wait(q) \/ Act(q)
  BY <1>3, <1>12, <1>13, <1>14
<1> QED BY <1>6, <1>9, <1>10, <1>11, <1>15, <1>16

\* What the loop does to key k in a poll in which the driver returned n and the
\* loop read o: it acts only on a key that it had accepted and whose contact is
\* not down, and accepts none whose contact is up.
LEMMA LoopStep ==
  ASSUME IndInv, NEW n \in {0, 1, 2}, NEW o,
         \A k \in Keys : contact[k] = "up" => n # k,
         \A k \in Keys : o[k].pin \in {0, 1} /\ (contact[k] = "down" => o[k].pin # 1),
         Accept(n) \/ Wait(o) \/ Act(o)
  PROVE /\ press_ok' \in [Keys -> BOOLEAN]
        /\ g_i_have_key_pressed' \in BOOLEAN
        /\ LoopInv'
        /\ g_i_key_led_handle_count' \in InputType /\ i_mute' \in {0, 1}
        /\ acted' \in [Keys -> Nat]
        /\ \A k \in Keys :
             /\ press_ok'[k] => press_ok[k] \/ contact[k] # "up"
             /\ \/ acted'[k] = acted[k]
                \/ /\ acted'[k] = acted[k] + 1
                   /\ press_ok[k] /\ ~press_ok'[k]
                   /\ contact[k] # "down"
<1> USE DEF IndInv
<1>1. /\ press_ok \in [Keys -> BOOLEAN] /\ g_i_have_key_pressed \in BOOLEAN
      /\ acted \in [Keys -> Nat] /\ g_i_key_led_handle_count \in InputType
      /\ i_mute \in {0, 1}
  BY DEF TypeOK
<1>2. CASE Accept(n)
  <2>1. ~press_ok[1] /\ ~press_ok[2]
    BY <1>2 DEF Accept, LoopInv
  <2>2. \A k \in Keys : press_ok'[k] <=> (n = k)
    BY <1>2, <2>1 DEF Accept, Keys
  <2>3. press_ok' \in [Keys -> BOOLEAN] /\ g_i_have_key_pressed' \in BOOLEAN
    BY <1>1, <1>2 DEF Accept
  <2>4. g_i_have_key_pressed' <=> n # 0
    BY <1>2, <2>1 DEF Accept
  <2>5. LoopInv'
    BY <2>2, <2>4 DEF LoopInv, Keys
  <2>6. UNCHANGED <<g_i_key_led_handle_count, i_mute, acted>>
    BY <1>2 DEF Accept
  <2> QED BY <1>1, <2>2, <2>3, <2>5, <2>6
<1>3. CASE Wait(o)
  <2>1. \A k \in Keys : press_ok'[k] <=> press_ok[k] /\ k = Handled
    BY <1>3 DEF Wait
  <2>2. press_ok' \in [Keys -> BOOLEAN]
    BY <1>1, <1>3 DEF Wait
  <2>3. UNCHANGED <<g_i_have_key_pressed, g_i_key_led_handle_count, i_mute, acted>>
    BY <1>3 DEF Wait
  <2>4. LoopInv'
    BY <2>1, <2>3 DEF LoopInv, Handled, Keys
  <2> QED BY <1>1, <2>1, <2>2, <2>3, <2>4
<1>4. CASE Act(o)
  <2>1. Handled \in Keys /\ press_ok[Handled]
    BY <1>4 DEF Act, LoopInv, Handled, Keys
  <2>2. contact[Handled] # "down"
    BY <1>4, <2>1 DEF Act
  <2>3. \A k \in Keys : ~press_ok'[k]
    BY <1>4 DEF Act
  <2>4. press_ok' \in [Keys -> BOOLEAN] /\ ~g_i_have_key_pressed'
        /\ g_i_have_key_pressed' \in BOOLEAN
    BY <1>4 DEF Act
  <2>5. acted' = [acted EXCEPT ![Handled] = @ + 1]
    BY <1>4 DEF Act
  <2>6. acted' \in [Keys -> Nat]
    BY <1>1, <2>1, <2>5
  <2>7. \A k \in Keys : acted'[k] = IF k = Handled THEN acted[k] + 1 ELSE acted[k]
    BY <1>1, <2>1, <2>5
  <2>8. g_i_key_led_handle_count' \in InputType
    BY <1>1, <1>4, NextInputType DEF Act
  <2>9. i_mute' \in {0, 1}
    BY <1>1, <1>4 DEF Act
  <2>10. LoopInv'
    BY <2>3, <2>4 DEF LoopInv, Keys
  <2>11. \A k \in Keys :
            \/ acted'[k] = acted[k]
            \/ /\ acted'[k] = acted[k] + 1
               /\ press_ok[k] /\ ~press_ok'[k]
               /\ contact[k] # "down"
    BY <2>1, <2>2, <2>3, <2>7
  <2> QED BY <2>3, <2>4, <2>6, <2>8, <2>9, <2>10, <2>11
<1> QED BY <1>2, <1>3, <1>4

\* A round of the thread keeps the invariant.
LEMMA PollStep ==
  ASSUME IndInv, Poll
  PROVE IndInv'
<1>0. PICK n \in {0, 1, 2} : \E o :
        /\ \A k \in Keys : contact[k] = "up" => n # k
        /\ \A k \in Keys :
             o[k].pin \in {0, 1} /\ (contact[k] = "down" => o[k].pin # 1)
        /\ Accept(n) \/ Wait(o) \/ Act(o)
  BY PollFacts
<1>1. PICK o :
        /\ \A k \in Keys : contact[k] = "up" => n # k
        /\ \A k \in Keys :
             o[k].pin \in {0, 1} /\ (contact[k] = "down" => o[k].pin # 1)
        /\ Accept(n) \/ Wait(o) \/ Act(o)
  BY <1>0
<1>2. /\ press_ok' \in [Keys -> BOOLEAN]
      /\ g_i_have_key_pressed' \in BOOLEAN
      /\ LoopInv'
      /\ g_i_key_led_handle_count' \in InputType /\ i_mute' \in {0, 1}
      /\ acted' \in [Keys -> Nat]
      /\ \A k \in Keys :
           /\ press_ok'[k] => press_ok[k] \/ contact[k] # "up"
           /\ \/ acted'[k] = acted[k]
              \/ /\ acted'[k] = acted[k] + 1
                 /\ press_ok[k] /\ ~press_ok'[k]
                 /\ contact[k] # "down"
  BY <1>1, LoopStep
<1>3. /\ driver' \in [Keys -> Driver]
      /\ DriverInv'
      /\ contact' \in [Keys -> {"up", "closing", "down", "opening"}]
      /\ bounced' \in 0..MaxBounce /\ bounced' >= bounced
  BY PollFacts
<1>4. \A k \in Keys :
        /\ contact[k] = "up" => contact'[k] = "up"
        /\ contact[k] = "down" => contact'[k] = "down"
        /\ contact[k] = "closing" => contact'[k] \in {"closing", "down"}
        /\ contact[k] = "opening" => contact'[k] \in {"opening", "up"}
        /\ contact'[k] \in {"closing", "opening"} => bounced' >= bounced + 1
  BY PollFacts
<1>5. presses' = presses
  BY DEF Poll
<1>6. held' \in [Keys -> 0..DEBOUNCE]
  <2>1. held' = [k \in Keys |->
                   IF contact[k] = "down" /\ contact[3 - k] = "up"
                   THEN IF held[k] < DEBOUNCE THEN held[k] + 1 ELSE DEBOUNCE
                   ELSE 0]
    BY DEF Poll
  <2>2. \A k \in Keys : held[k] \in 0..DEBOUNCE
    BY DEF IndInv, TypeOK
  <2>3. DEBOUNCE \in Nat
    BY DEF DEBOUNCE
  <2> HIDE DEF DEBOUNCE
  <2> QED BY <2>1, <2>2, <2>3
<1>7. TypeOK'
  BY <1>2, <1>3, <1>5, <1>6 DEF IndInv, TypeOK, Driver
<1>8. OwedInv'
  <2> SUFFICES ASSUME NEW k \in Keys
               PROVE acted'[k] + Owed(k)' <= presses'[k] + bounced'
    BY DEF OwedInv
  <2>1. /\ acted[k] \in Nat /\ acted'[k] \in Nat /\ presses[k] \in Nat
        /\ bounced \in Nat /\ bounced' \in Nat
        /\ contact[k] \in {"up", "closing", "down", "opening"}
        /\ press_ok[k] \in BOOLEAN /\ press_ok'[k] \in BOOLEAN
    BY <1>2, <1>3, KeyAssumption DEF IndInv, TypeOK
  <2>2. acted[k] + Owed(k) <= presses[k] + bounced
    BY DEF IndInv, OwedInv
  <2>3. /\ bounced' >= bounced
        /\ press_ok'[k] => press_ok[k] \/ contact[k] # "up"
        /\ \/ acted'[k] = acted[k]
           \/ /\ acted'[k] = acted[k] + 1
              /\ press_ok[k] /\ ~press_ok'[k]
              /\ contact[k] # "down"
    BY <1>2, <1>3
  <2>4. CASE contact[k] = "up"
    BY <1>4, <1>5, <2>1, <2>2, <2>3, <2>4 DEF Owed
  <2>5. CASE contact[k] = "closing"
    BY <1>4, <1>5, <2>1, <2>2, <2>3, <2>5 DEF Owed
  <2>6. CASE contact[k] = "down"
    BY <1>4, <1>5, <2>1, <2>2, <2>3, <2>6 DEF Owed
  <2>7. CASE contact[k] = "opening"
    BY <1>4, <1>5, <2>1, <2>2, <2>3, <2>7 DEF Owed
  <2> QED BY <2>1, <2>4, <2>5, <2>6, <2>7
<1> QED BY <1>2, <1>3, <1>7, <1>8 DEF IndInv

-----------------------------------------------------------------------------
(***************************************************************************)
(* The user's hand                                                         *)
(***************************************************************************)
\* A press pays for one action.
LEMMA PressStep ==
  ASSUME IndInv, NEW k \in Keys, Press(k)
  PROVE IndInv'
<1> USE DEF IndInv
<1>1. UNCHANGED <<driver, press_ok, g_i_have_key_pressed,
                  g_i_key_led_handle_count, i_mute, acted, bounced>>
  BY DEF Press
<1>2. /\ contact' = [contact EXCEPT ![k] = "closing"]
      /\ presses' = [presses EXCEPT ![k] = @ + 1]
      /\ presses[k] < MaxPresses /\ contact[k] = "up"
      /\ held' = [j \in Keys |-> 0]
  BY DEF Press
<1>3. \A j \in Keys : presses[j] \in 0..MaxPresses /\ acted[j] \in Nat
  BY DEF TypeOK
<1>4. MaxPresses \in Nat /\ bounced \in Nat
  BY KeyAssumption DEF TypeOK
<1>5. TypeOK'
  BY <1>1, <1>2, <1>3, <1>4 DEF TypeOK, DEBOUNCE
<1>6. DriverInv' /\ LoopInv'
  BY <1>1 DEF DriverInv, LoopInv
<1>7. OwedInv'
  <2> SUFFICES ASSUME NEW j \in Keys
               PROVE acted'[j] + Owed(j)' <= presses'[j] + bounced'
    BY DEF OwedInv
  <2>1. acted[j] + Owed(j) <= presses[j] + bounced
    BY DEF OwedInv
  <2>2. CASE j = k
    <3>1. presses'[j] = presses[j] + 1 /\ contact'[j] = "closing"
      BY <1>2, <2>2 DEF TypeOK
    <3> QED BY <1>1, <1>2, <1>3, <1>4, <2>1, <2>2, <3>1 DEF Owed
  <2>3. CASE j # k
    <3>1. presses'[j] = presses[j] /\ contact'[j] = contact[j]
      BY <1>2, <2>3 DEF TypeOK
    <3> QED BY <1>1, <2>1, <3>1 DEF Owed
  <2> QED BY <2>2, <2>3
<1> QED BY <1>5, <1>6, <1>7

\* Letting a key go changes nothing that is owed.
LEMMA ReleaseStep ==
  ASSUME IndInv, NEW k \in Keys, Release(k)
  PROVE IndInv'
<1> USE DEF IndInv
<1>1. UNCHANGED <<driver, press_ok, g_i_have_key_pressed,
                  g_i_key_led_handle_count, i_mute, presses, acted, bounced>>
  BY DEF Release
<1>2. /\ contact' = [contact EXCEPT ![k] = "opening"]
      /\ contact[k] = "down"
      /\ held' = [j \in Keys |-> 0]
  BY DEF Release
<1>3. TypeOK'
  BY <1>1, <1>2 DEF TypeOK, DEBOUNCE
<1>4. DriverInv' /\ LoopInv'
  BY <1>1 DEF DriverInv, LoopInv
<1>5. OwedInv'
  <2> SUFFICES ASSUME NEW j \in Keys
               PROVE acted'[j] + Owed(j)' <= presses'[j] + bounced'
    BY DEF OwedInv
  <2>1. acted[j] + Owed(j) <= presses[j] + bounced
    BY DEF OwedInv
  <2>2. contact'[j] = IF j = k THEN "opening" ELSE contact[j]
    BY <1>2 DEF TypeOK
  <2>3. Owed(j)' = Owed(j)
    BY <1>1, <1>2, <2>2 DEF Owed
  <2> QED BY <1>1, <2>1, <2>3
<1> QED BY <1>3, <1>4, <1>5

-----------------------------------------------------------------------------
(***************************************************************************)
(* The theorems                                                            *)
(***************************************************************************)
\* In every reachable state of the front panel the driver times what it
\* believes, the loop of key_input_thread_entry handles exactly what it has
\* accepted, and what it still owes the keys is paid for by a press or a bounce.
THEOREM Invariance == Spec => []IndInv
<1>1. IndInv /\ [Next]_vars => IndInv'
  <2> SUFFICES ASSUME IndInv, [Next]_vars PROVE IndInv'
    OBVIOUS
  <2>1. CASE Poll
    BY <2>1, PollStep
  <2>2. ASSUME NEW k \in Keys, Press(k) PROVE IndInv'
    BY <2>2, PressStep
  <2>3. ASSUME NEW k \in Keys, Release(k) PROVE IndInv'
    BY <2>3, ReleaseStep
  <2>4. CASE UNCHANGED vars
    BY <2>4 DEF vars, IndInv, TypeOK, DriverInv, LoopInv, OwedInv, Owed
  <2> QED BY <2>1, <2>2, <2>3, <2>4 DEF Next
<1> QED BY InitInv, <1>1, PTL DEF Spec

\* The state of the driver (drivers/key_input.c) and of the loop keeps its
\* shape for any number of presses and bounces.
THEOREM TypeCorrect == Spec => []TypeOK
<1>1. IndInv => TypeOK
  BY DEF IndInv
<1> QED BY Invariance, <1>1, PTL

\* rt_handle_key_input and the loop act once for a press, plus at most once for
\* each poll after which a contact still bounces, however the reads of a pin
\* within one poll differ and however the presses of the two keys overlap.
THEOREM PressActsOnce == Spec => []OncePerPress
<1>1. IndInv => OncePerPress
  <2> SUFFICES ASSUME IndInv, NEW k \in Keys
               PROVE acted[k] <= presses[k] + bounced
    BY DEF OncePerPress
  <2>1. acted[k] + Owed(k) <= presses[k] + bounced
    BY DEF IndInv, OwedInv
  <2>2. Owed(k) \in Nat
    BY DEF Owed
  <2>3. acted[k] \in Nat /\ presses[k] \in Nat /\ bounced \in Nat
    BY KeyAssumption DEF IndInv, TypeOK
  <2> QED BY <2>1, <2>2, <2>3
<1> QED BY Invariance, <1>1, PTL

-----------------------------------------------------------------------------
(***************************************************************************)
(* A key that is held                                                      *)
(***************************************************************************)
\* A key that alone has been down for some polls has been timed in each of them; the
\* first of them took the other key from the loop, and the last one that the time needs
\* gave this one to it.
HeldInv ==
  \A k \in Keys :
    held[k] > 0 => /\ driver[k].time >= held[k]
                   /\ ~press_ok[3 - k]
                   /\ held[k] = DEBOUNCE => press_ok[k]

\* A contact that is still gives the driver and the loop one reading.
LEMMA StillContact ==
  ASSUME TypeOK, DriverInv, NEW k \in Keys, NEW o \in Outcomes(k)
  PROVE /\ contact[k] = "up" => ~o.driver.pressed /\ o.pin = 1
        /\ contact[k] = "down" =>
             /\ o.pin = 0
             /\ o.driver.time = Timed(driver[k])
             /\ Timed(driver[k]) >= DEBOUNCE => o.driver.pressed
<1>1. PICK r \in PinReads(contact[k]) :
        o = [driver |-> Drive(driver[k], r), pin |-> r[4]]
  BY DEF Outcomes
<1>2. CASE contact[k] = "up"
  <2>1. \A n \in 1..4 : r[n] = 1
    BY <1>2 DEF PinReads
  <2>2. r[4] = 1
    BY <2>1
  <2>3. ~o.driver.pressed
    BY <1>2, OutcomeType
  <2> QED BY <1>1, <1>2, <2>2, <2>3
<1>3. CASE contact[k] = "down"
  <2>1. \A n \in 1..4 : r[n] = 0
    BY <1>3 DEF PinReads
  <2>2. r[1] = 0 /\ r[2] = 0 /\ r[3] = 0 /\ r[4] = 0
    BY <2>1
  <2>3. Drive(driver[k], r) =
          [flag |-> TRUE, time |-> Timed(driver[k]),
           pressed |-> driver[k].pressed \/ (Timed(driver[k]) >= DEBOUNCE /\ r[2] = 0)]
    BY <2>2 DEF Drive
  <2>4. o.pin = 0
    BY <1>1, <2>2
  <2>5. o.driver.time = Timed(driver[k])
    BY <1>1, <2>3
  <2>6. o.driver.pressed = (driver[k].pressed \/ (Timed(driver[k]) >= DEBOUNCE /\ r[2] = 0))
    BY <1>1, <2>3
  <2> QED BY <1>3, <2>2, <2>4, <2>5, <2>6
<1> QED BY <1>2, <1>3

\* A poll that finds key k alone down: the loop goes on with it, or lets the other key go.
LEMMA HeldPoll ==
  ASSUME IndInv, HeldInv, Poll, NEW k \in Keys, held'[k] > 0
  PROVE /\ driver'[k].time >= held'[k]
        /\ ~press_ok'[3 - k]
        /\ held'[k] = DEBOUNCE => press_ok'[k]
<1> DEFINE j == 3 - k
<1>1. j \in Keys /\ j # k /\ j # 0 /\ k # 0 /\ {j, k} = Keys
  BY DEF Keys
<1>2. PICK o1 \in Outcomes(1), o2 \in Outcomes(2) :
        /\ driver' = [i \in Keys |-> <<o1, o2>>[i].driver]
        /\ Accept(KeyNumber(driver')) \/ Wait(<<o1, o2>>) \/ Act(<<o1, o2>>)
  BY DEF Poll
<1> DEFINE o == <<o1, o2>>
<1>3. \A i \in Keys : o[i] \in Outcomes(i)
  BY DEF Keys
<1>4. \A i \in Keys : driver'[i] = o[i].driver
  BY <1>2
<1>5. Accept(KeyNumber(driver')) \/ Wait(o) \/ Act(o)
  BY <1>2
<1> HIDE DEF o
<1>6. /\ contact[k] = "down" /\ contact[j] = "up"
      /\ held'[k] = IF held[k] < DEBOUNCE THEN held[k] + 1 ELSE DEBOUNCE
  BY DEF Poll
<1> HIDE DEF j
<1>7. /\ o[k].pin = 0 /\ driver'[k].time = Timed(driver[k])
      /\ Timed(driver[k]) >= DEBOUNCE => driver'[k].pressed
      /\ o[j].pin = 1 /\ ~driver'[j].pressed
  BY <1>1, <1>3, <1>4, <1>6, StillContact DEF IndInv
<1>8. KeyNumber(driver') \in {0, k} /\ (driver'[k].pressed => KeyNumber(driver') = k)
  BY <1>1, <1>7 DEF KeyNumber, Keys
<1>9. /\ held[k] \in 0..DEBOUNCE /\ driver[k].time \in 0..DEBOUNCE
      /\ held[k] > 0 => /\ driver[k].time >= held[k]
                        /\ ~press_ok[j]
                        /\ held[k] = DEBOUNCE => press_ok[k]
  BY DEF IndInv, TypeOK, HeldInv, j
<1>10. driver'[k].time >= held'[k]
  BY <1>6, <1>7, <1>9 DEF Timed, DEBOUNCE
<1>11. held'[k] = DEBOUNCE => driver'[k].pressed /\ held[k] > 0
  BY <1>6, <1>7, <1>9 DEF Timed, DEBOUNCE
<1>12. LoopInv /\ press_ok \in [Keys -> BOOLEAN]
  BY DEF IndInv, TypeOK
<1>13. Handled \in Keys /\ (g_i_have_key_pressed => press_ok[Handled])
  BY <1>12 DEF LoopInv, Handled, Keys
<1>14. CASE Accept(KeyNumber(driver'))
  <2>1. ~press_ok[1] /\ ~press_ok[2]
    BY <1>12, <1>14 DEF Accept, LoopInv
  <2>2. press_ok'[j] <=> KeyNumber(driver') = j
    BY <1>1, <1>14, <2>1 DEF Accept, Keys
  <2>3. press_ok'[k] <=> KeyNumber(driver') = k
    BY <1>1, <1>14, <2>1 DEF Accept, Keys
  <2> QED BY <1>1, <1>8, <1>10, <1>11, <2>2, <2>3 DEF j
<1>15. CASE Wait(o)
  <2>1. Handled = k
    BY <1>1, <1>7, <1>13, <1>15 DEF Wait
  <2>2. press_ok'[k] /\ ~press_ok'[j]
    BY <1>1, <1>13, <1>15, <2>1 DEF Wait
  <2> QED BY <1>10, <2>2 DEF j
<1>16. CASE Act(o)
  <2>1. Handled = j
    BY <1>1, <1>7, <1>13, <1>16 DEF Act
  <2>2. press_ok[j]
    BY <1>13, <1>16, <2>1 DEF Act
  <2>3. held'[k] # DEBOUNCE
    BY <1>9, <1>11, <2>2
  <2>4. ~press_ok'[j]
    BY <1>1, <1>16 DEF Act
  <2> QED BY <1>10, <2>3, <2>4 DEF j
<1> QED BY <1>5, <1>14, <1>15, <1>16

\* drivers/key_input.c, application.c: a key that alone has been down for DEBOUNCE polls
\* is the one whose release the loop waits for, whatever the other key did before.
THEOREM HeldHandled == Spec => []HeldIsHandled
<1>1. Init => HeldInv
  BY DEF Init, HeldInv
<1>2. IndInv /\ HeldInv /\ [Next]_vars => HeldInv'
  <2> SUFFICES ASSUME IndInv, HeldInv, [Next]_vars PROVE HeldInv'
    OBVIOUS
  <2>1. CASE Poll
    BY <2>1, HeldPoll DEF HeldInv
  <2>2. ASSUME NEW k \in Keys, Press(k) \/ Release(k) PROVE HeldInv'
    BY <2>2 DEF Press, Release, HeldInv
  <2>3. CASE UNCHANGED vars
    BY <2>3 DEF vars, HeldInv
  <2> QED BY <2>1, <2>2, <2>3 DEF Next
<1>3. IndInv /\ HeldInv => HeldIsHandled
  <2> SUFFICES ASSUME IndInv, HeldInv, NEW k \in Keys, held[k] = DEBOUNCE
               PROVE g_i_have_key_pressed /\ Handled = k
    BY DEF HeldIsHandled
  <2>1. press_ok[k] /\ ~press_ok[3 - k]
    BY DEF HeldInv, DEBOUNCE
  <2> QED BY <2>1 DEF IndInv, LoopInv, Handled, Keys
<1> QED BY <1>1, <1>2, <1>3, Invariance, PTL DEF Spec
=============================================================================
