------------------------------ MODULE KeyInput ------------------------------
(***************************************************************************)
(* The two keys of the front panel: the driver rt_handle_key_input         *)
(* (drivers/key_input.c), which times a press, and the loop of             *)
(* key_input_thread_entry (USER/application.c), which acts when the key is *)
(* let go.  One thread runs both every 10 ms; the contacts move on their   *)
(* own, so the reads of a pin within one poll need not agree.              *)
(***************************************************************************)
EXTENDS InputTypes, FiniteSets

CONSTANTS
  StartInput,    \* the input that the flash held
  MaxPresses,    \* bound: presses of each key
  MaxBounce      \* bound: polls after which a contact goes on bouncing

ASSUME KeyAssumption ==
  StartInput \in InputType /\ MaxPresses \in Nat /\ MaxBounce \in Nat

Keys == {1, 2}
DEBOUNCE == 5    \* polls after which a press is believed

VARIABLES
  contact,     \* contact[k]: "up", "closing", "down" or "opening"
  driver,      \* driver[k]: g_i_key_press_flag, _time and g_i_key_pressed
  press_ok,    \* press_ok[k]: g_i_key1_press_ok, g_i_key2_press_ok
  g_i_have_key_pressed,
  g_i_key_led_handle_count,
  i_mute,      \* what key 2 turns over; g_mute is set to it
  presses,     \* history: how often the user has pressed k
  acted,       \* history: how often the loop has acted on k
  bounced,     \* history: polls after which a contact still bounced
  held         \* history: polls for which only k has been down

vars == <<contact, driver, press_ok, g_i_have_key_pressed,
          g_i_key_led_handle_count, i_mute, presses, acted, bounced, held>>

(***************************************************************************)
(* What the reads of a pin give: 1 for open.  Reads 1, 2 and 3 are the     *)
(* driver's, read 4 is the loop's.                                         *)
(***************************************************************************)
Reads == [1..4 -> {0, 1}]

PinReads(c) ==
  CASE c = "up" -> {r \in Reads : \A n \in 1..4 : r[n] = 1}
    [] c = "down" -> {r \in Reads : \A n \in 1..4 : r[n] = 0}
    [] OTHER -> Reads

Moving(c) == c \in {"closing", "opening"}
Settled(c) == IF c = "closing" THEN "down" ELSE IF c = "opening" THEN "up" ELSE c

(***************************************************************************)
(* The driver                                                              *)
(***************************************************************************)
NotPressed == [flag |-> FALSE, time |-> 0, pressed |-> FALSE]

\* Only time >= DEBOUNCE is ever tested, so the count stops there.
Timed(d) == IF d.time < DEBOUNCE THEN d.time + 1 ELSE DEBOUNCE

\* Mutant: the release is not looked for, and the flags stay.
MutantDrive(d, r) ==
  IF ~d.flag /\ r[1] = 1 THEN d
  ELSE [flag |-> TRUE, time |-> Timed(d),
        pressed |-> d.pressed \/ (Timed(d) >= DEBOUNCE /\ r[2] = 0)]

\* The body of rt_handle_key_input's loop for one key.
Drive(d, r) ==
  IF ~d.flag /\ r[1] = 1 THEN d
  ELSE IF r[3] = 1 THEN NotPressed
  ELSE [flag |-> TRUE, time |-> Timed(d),
        pressed |-> d.pressed \/ (Timed(d) >= DEBOUNCE /\ r[2] = 0)]

\* Its result: the first key that is pressed, 0 for none.
KeyNumber(d) == IF d[1].pressed THEN 1 ELSE IF d[2].pressed THEN 2 ELSE 0

(***************************************************************************)
(* The loop                                                                *)
(***************************************************************************)
\* No key is being handled: key n, if there is one, is.
Accept(n) ==
  /\ ~g_i_have_key_pressed
  /\ press_ok' = [k \in Keys |-> press_ok[k] \/ (~press_ok[1] /\ n = k)]
  /\ g_i_have_key_pressed' = (~press_ok[1] /\ n # 0)
  /\ UNCHANGED <<g_i_key_led_handle_count, i_mute, acted>>

\* Mutant: the branch of key 2 reads the pin of key 1.
MutantHandled == 1

\* The key that is handled; key 1 goes before key 2.
Handled == IF press_ok[1] THEN 1 ELSE 2

Wait(o) ==
  /\ g_i_have_key_pressed
  /\ o[Handled].pin = 0
  /\ press_ok' = [k \in Keys |-> press_ok[k] /\ k = Handled]
  /\ UNCHANGED <<g_i_have_key_pressed, g_i_key_led_handle_count, i_mute, acted>>

\* Let go: key 1 selects the next input, key 2 turns the mute over.
Act(o) ==
  /\ g_i_have_key_pressed
  /\ o[Handled].pin = 1
  /\ press_ok' = [k \in Keys |-> FALSE]
  /\ g_i_have_key_pressed' = FALSE
  /\ g_i_key_led_handle_count' = IF Handled = 1 THEN NextInput(g_i_key_led_handle_count)
                                 ELSE g_i_key_led_handle_count
  /\ i_mute' = IF Handled = 2 THEN 1 - i_mute ELSE i_mute
  /\ acted' = [acted EXCEPT ![Handled] = @ + 1]

\* What the reads of key k in one round may come to.
Outcomes(k) ==
  {[driver |-> Drive(driver[k], r), pin |-> r[4]] : r \in PinReads(contact[k])}

\* One round of the thread, after which a contact that was moving may be still.
Poll ==
  /\ \E o1 \in Outcomes(1), o2 \in Outcomes(2) :
       LET o == <<o1, o2>>
       IN /\ driver' = [k \in Keys |-> o[k].driver]
          /\ Accept(KeyNumber(driver')) \/ Wait(o) \/ Act(o)
  /\ contact' \in {c \in [Keys -> {"up", "closing", "down", "opening"}] :
       \A k \in Keys :
         \/ c[k] = Settled(contact[k])
         \/ Moving(contact[k]) /\ c[k] = contact[k]}
  /\ bounced' = bounced + Cardinality({k \in Keys : Moving(contact'[k])})
  /\ bounced' <= MaxBounce
  /\ held' = [k \in Keys |->
                IF contact[k] = "down" /\ contact[3 - k] = "up"
                THEN IF held[k] < DEBOUNCE THEN held[k] + 1 ELSE DEBOUNCE
                ELSE 0]
  /\ UNCHANGED presses

Press(k) ==
  /\ contact[k] = "up"
  /\ presses[k] < MaxPresses
  /\ presses' = [presses EXCEPT ![k] = @ + 1]
  /\ contact' = [contact EXCEPT ![k] = "closing"]
  /\ held' = [j \in Keys |-> 0]
  /\ UNCHANGED <<driver, press_ok, g_i_have_key_pressed,
                 g_i_key_led_handle_count, i_mute, acted, bounced>>

Release(k) ==
  /\ contact[k] = "down"
  /\ contact' = [contact EXCEPT ![k] = "opening"]
  /\ held' = [j \in Keys |-> 0]
  /\ UNCHANGED <<driver, press_ok, g_i_have_key_pressed,
                 g_i_key_led_handle_count, i_mute, presses, acted, bounced>>

-----------------------------------------------------------------------------
Init ==
  /\ contact = [k \in Keys |-> "up"]
  /\ driver = [k \in Keys |-> NotPressed]
  /\ press_ok = [k \in Keys |-> FALSE]
  /\ g_i_have_key_pressed = FALSE
  /\ g_i_key_led_handle_count = StartInput
  /\ i_mute = 1
  /\ presses = [k \in Keys |-> 0]
  /\ acted = [k \in Keys |-> 0]
  /\ bounced = 0
  /\ held = [k \in Keys |-> 0]

Next == Poll \/ \E k \in Keys : Press(k) \/ Release(k)

\* The thread runs every 10 ms; nothing makes the user let a key go.
Spec == Init /\ [][Next]_vars /\ WF_vars(Poll)

-----------------------------------------------------------------------------
\* The shape of the state.
TypeOK ==
  /\ contact \in [Keys -> {"up", "closing", "down", "opening"}]
  /\ driver \in [Keys -> [flag : BOOLEAN, time : 0..DEBOUNCE, pressed : BOOLEAN]]
  /\ press_ok \in [Keys -> BOOLEAN]
  /\ g_i_have_key_pressed \in BOOLEAN
  /\ g_i_key_led_handle_count \in InputType
  /\ i_mute \in {0, 1}
  /\ presses \in [Keys -> 0..MaxPresses]
  /\ acted \in [Keys -> Nat] /\ bounced \in 0..MaxBounce
  /\ held \in [Keys -> 0..DEBOUNCE]

\* A press acts once, whenever its contact moves between two reads of one
\* poll and however the presses of the two keys overlap, as the comment on
\* rt_handle_key_input promises; but the release is not timed, and a contact
\* that bounces for longer than a poll may act once more for each further one.
OncePerPress == \A k \in Keys : acted[k] <= presses[k] + bounced

\* A key that alone has been down for DEBOUNCE polls is the one that the loop
\* waits for, whatever the other key has left behind in the driver's flags, in
\* press_ok and in g_i_have_key_pressed: letting it go acts on it.
HeldIsHandled ==
  \A k \in Keys : held[k] = DEBOUNCE => g_i_have_key_pressed /\ Handled = k

\* A press that was held long enough acts once its key is let go: the loop
\* does not lose it, whatever the other key does meanwhile.
HeldPressActs ==
  \A k \in Keys : \A n \in 0..(MaxPresses - 1) :
    [](/\ held[k] = DEBOUNCE /\ acted[k] = n
       /\ []<>(contact[k] = "up")
       => <>(acted[k] > n))
=============================================================================
