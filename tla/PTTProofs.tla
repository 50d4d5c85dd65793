------------------------------ MODULE PTTProofs -----------------------------
(***************************************************************************)
(* Proofs for PTT, for any number of clients, presses, relinks, faults and *)
(* retries: the radio never transmits unnoticed, the safety timer always   *)
(* backs a key, and it never cuts off a transmission that was refreshed.   *)
(*                                                                         *)
(* All three rest on the generation of the timer.  StepOfTimers reduces    *)
(* every action to two kinds of step (the timer is armed afresh with the   *)
(* next generation, or nothing new is armed); TimerInv is inductive over   *)
(* those two.                                                              *)
(***************************************************************************)
EXTENDS PTT, TLAPS

Armed == firing \cup {timer}

\* A timer or callback of the current generation knows the latest press.
TimerInv == /\ gen \in Nat /\ presses \in Nat
            /\ NoTimer \notin firing
            /\ \A t \in Armed : t.gen \in 0 .. gen
            /\ \A t \in Armed : t # NoTimer /\ t.gen = gen => t.press = presses

\* armTimerLocked ran: the timer carries the next generation and the latest press.
Rearms == /\ gen' = gen + 1
          /\ \E r : timer' = [gen |-> gen + 1, rig |-> r, press |-> presses']
          /\ presses' \in {presses, presses + 1}
          /\ firing' \subseteq firing

\* Nothing is armed; a timer of the current generation is lost only with the key.
Keeps == /\ gen' = gen /\ presses' = presses
         /\ firing' \subseteq firing \cup ({timer} \ {NoTimer})
         /\ timer' \in {timer, NoTimer}
         /\ \/ ~keyed'
            \/ keyed /\ \A t \in Armed : t # NoTimer /\ t.gen = gen => t \in Armed'

\* What keyLocked and releaseLocked do to the timer.
LEMMA KeyArms == ASSUME NEW r, KeyLocked(r), presses' = presses + 1, firing' = firing
                 PROVE  Rearms
BY Zenon DEF KeyLocked, Arm, Rearms

LEMMA ReleaseArms == ASSUME NEW r, ReleaseLocked(r) \/ ReleaseFinally(r), presses' = presses,
                            firing' \subseteq firing
                     PROVE  Rearms \/ Keeps
<1>1. CASE Arm(r, presses)
  BY Zenon, <1>1 DEF Arm, Rearms
<1>2. CASE Clear
  BY Zenon, <1>2 DEF Clear, Keeps, Armed
<1>3. CASE ~keyed /\ UNCHANGED <<keyed, timer, gen>>
  BY Zenon, <1>3 DEF Keeps, Armed
<1>4. QED
  BY Zenon, <1>1, <1>2, <1>3 DEF ReleaseLocked, ReleaseFinally, state

\* A step that leaves the key, the timer and its callbacks alone.
LEMMA IdleKeeps == UNCHANGED <<keyed, timer, gen, firing, presses>> => Keeps
<1> SUFFICES ASSUME UNCHANGED <<keyed, timer, gen, firing, presses>> PROVE Keeps
  OBVIOUS
<1>1. CASE keyed
  BY Zenon, <1>1 DEF Keeps, Armed
<1>2. CASE ~keyed
  BY Zenon, <1>2 DEF Keeps, Armed
<1>3. QED
  BY <1>1, <1>2

\* Every step arms the timer afresh or arms nothing.
LEMMA StepOfTimers == [Next]_vars => Rearms \/ Keeps
<1> SUFFICES ASSUME [Next]_vars PROVE Rearms \/ Keeps
  OBVIOUS
<1>1. CASE \E c \in Clients : SetPTTOn(c)
  BY Zenon, <1>1, KeyArms DEF SetPTTOn
<1>2. CASE \E c \in Clients : SetPTTOff(c) \/ ForceReleasePTT(c)
  BY Zenon, <1>2, ReleaseArms DEF SetPTTOff, ForceReleasePTT
<1>3. CASE CloseReleases
  BY Zenon, <1>3, ReleaseArms DEF CloseReleases
<1>4. CASE TimerFires
  BY Zenon, <1>4 DEF TimerFires, Keeps, Armed
<1>5. CASE \E t \in firing : TimeoutFire(t)
  <2>1. PICK t \in firing : TimeoutFire(t)
    BY <1>5
  <2>2. CASE t.gen = gen
    BY Zenon, <2>1, <2>2, ReleaseArms DEF TimeoutFire
  <2>3. CASE t.gen # gen
    BY Zenon, <2>1, <2>3 DEF TimeoutFire, Keeps, Armed, state
  <2>4. QED
    BY <2>2, <2>3
<1>6. CASE \/ \E c \in Clients : ReadLine(c) \/ Hangup(c)
           \/ GoesOffline \/ Relinked \/ CloseChecks \/ Exit \/ UNCHANGED vars
  BY Zenon, <1>6, IdleKeeps
     DEF ReadLine, Hangup, GoesOffline, Relinked, CloseChecks, Exit, vars, state
<1>7. QED
  BY Zenon, <1>1, <1>2, <1>3, <1>4, <1>5, <1>6 DEF Next, Client

-----------------------------------------------------------------------------
(* The timer.                                                              *)

\* Both kinds of step preserve what is known of timers and callbacks.
LEMMA TimerStep == ASSUME TimerInv, Rearms \/ Keeps PROVE TimerInv'
<1>1. CASE Rearms
  <2>1. PICK r : timer' = [gen |-> gen + 1, rig |-> r, press |-> presses']
    BY Zenon, <1>1 DEF Rearms
  <2>2. gen' \in Nat /\ presses' \in Nat
    BY <1>1 DEF Rearms, TimerInv
  <2>3. ASSUME NEW t \in Armed' PROVE t.gen \in 0 .. gen' /\ (t.gen = gen' => t.press = presses')
    <3>1. CASE t = timer'
      BY <1>1, <2>1, <3>1 DEF Rearms, TimerInv
    <3>2. CASE t \in firing
      BY <1>1, <3>2 DEF Rearms, TimerInv, Armed
    <3>3. QED
      BY Zenon, <1>1, <2>3, <3>1, <3>2 DEF Rearms, Armed
  <2>4. QED
    BY Zenon, <1>1, <2>2, <2>3 DEF TimerInv, Rearms
<1>2. CASE Keeps
  <2>1. NoTimer.gen = 0
    BY DEF NoTimer
  <2>2. ASSUME NEW t \in Armed'
        PROVE  t.gen \in 0 .. gen /\ (t # NoTimer /\ t.gen = gen => t.press = presses)
    <3>1. CASE t = NoTimer
      BY <2>1, <3>1 DEF TimerInv
    <3>2. CASE t \in Armed
      BY Zenon, <3>2 DEF TimerInv
    <3>3. QED
      BY Zenon, <1>2, <2>2, <3>1, <3>2 DEF Keeps, Armed
  <2>3. QED
    BY Zenon, <1>2, <2>2 DEF Keeps, TimerInv
<1>3. QED
  BY <1>1, <1>2

LEMMA TimerInvariant == Spec => []TimerInv
<1>1. Init => TimerInv
  BY DEF Init, TimerInv, Armed, NoTimer
<1>2. TimerInv /\ [Next]_vars => TimerInv'
  BY StepOfTimers, TimerStep
<1>3. QED
  BY <1>1, <1>2, PTL DEF Spec

\* The safety timer backs every key, however keys, failed releases, hang-ups and
\* late callbacks (armTimerLocked, timeoutFire) follow one another.
THEOREM KeyIsTimed == Spec => []TimerBacksKey
<1>1. Init => TimerBacksKey
  BY Zenon DEF Init, TimerBacksKey
<1>2. ASSUME TimerInv, TimerBacksKey, [Next]_vars PROVE TimerBacksKey'
  <2>1. CASE Rearms
    <3>1. PICK r : timer' = [gen |-> gen + 1, rig |-> r, press |-> presses']
      BY Zenon, <2>1 DEF Rearms
    <3>2. timer'.gen = gen' /\ timer'.gen # NoTimer.gen
      BY <1>2, <2>1, <3>1 DEF Rearms, TimerInv, NoTimer
    <3>3. QED
      BY Zenon, <3>2 DEF TimerBacksKey
  <2>2. CASE Keeps
    BY Zenon, <1>2, <2>2 DEF Keeps, TimerBacksKey, Armed
  <2>3. QED
    BY <1>2, <2>1, <2>2, StepOfTimers
<1>3. QED
  BY <1>1, <1>2, TimerInvariant, PTL DEF Spec

\* A callback of the safety timer ends a transmission only if no key was pressed
\* since the timer was armed: timeoutFire compares generations.
THEOREM RefreshesHonoured == Spec => RefreshHonoured
<1>1. ASSUME TimerInv, NEW t \in firing, TimeoutFire(t), tx, ~tx' PROVE t.press = presses
  <2>1. t.gen = gen /\ ReleaseLocked(t.rig)
    BY Zenon, <1>1 DEF TimeoutFire
  <2>2. QED
    BY Zenon, <1>1, <2>1 DEF TimerInv, Armed
<1>2. TimerInv => [\A t \in firing : TimeoutFire(t) /\ tx /\ ~tx' => t.press = presses]_vars
  BY <1>1
<1>3. QED
  BY <1>2, TimerInvariant, PTL DEF RefreshHonoured

-----------------------------------------------------------------------------
(* The radio.                                                              *)

\* What keyLocked and releaseLocked do to the radio, obeyed or not.
LEMMA KeyNoticed == ASSUME NEW r, KeyLocked(r) PROVE NeverKeyedUnnoticed'
BY Zenon DEF KeyLocked, NeverKeyedUnnoticed

LEMMA ReleaseNoticed == ASSUME NeverKeyedUnnoticed, NEW r, ReleaseLocked(r) \/ ReleaseFinally(r)
                        PROVE  NeverKeyedUnnoticed'
<1>1. CASE ~keyed /\ UNCHANGED <<tx, faults, state, gaveUp>>
  BY Zenon, <1>1 DEF NeverKeyedUnnoticed, state
<1>2. CASE Done(r, FALSE)
  BY Zenon, <1>2 DEF Done, NeverKeyedUnnoticed
<1>3. CASE gaveUp' = TRUE
  BY Zenon, <1>3 DEF NeverKeyedUnnoticed
<1>4. CASE keyed /\ UNCHANGED keyed
  BY Zenon, <1>4 DEF NeverKeyedUnnoticed
<1>5. QED
  BY Zenon, <1>1, <1>2, <1>3, <1>4 DEF ReleaseLocked, ReleaseFinally

\* The radio never transmits while tncd believes it released, unless tncd has
\* given up and said so: a key that failed counts as keyed, a release that failed
\* does not count as released (keyLocked, releaseLocked, forceReleasePTT).
THEOREM KeyIsNoticed == Spec => []NeverKeyedUnnoticed
<1>1. Init => NeverKeyedUnnoticed
  BY Zenon DEF Init, NeverKeyedUnnoticed
<1>2. ASSUME NeverKeyedUnnoticed, [Next]_vars PROVE NeverKeyedUnnoticed'
  <2>1. CASE \E c \in Clients : SetPTTOn(c)
    BY Zenon, <2>1, KeyNoticed DEF SetPTTOn
  <2>2. CASE \/ \E c \in Clients : SetPTTOff(c) \/ ForceReleasePTT(c)
             \/ CloseReleases
    BY Zenon, <1>2, <2>2, ReleaseNoticed DEF SetPTTOff, ForceReleasePTT, CloseReleases
  <2>3. CASE UNCHANGED <<tx, keyed, gaveUp>>
    BY Zenon, <1>2, <2>3 DEF NeverKeyedUnnoticed
  <2>4. CASE \E t \in firing : TimeoutFire(t)
    BY Zenon, <1>2, <2>3, <2>4, ReleaseNoticed DEF TimeoutFire, state
  <2>5. CASE \/ \E c \in Clients : ReadLine(c) \/ Hangup(c)
             \/ TimerFires \/ GoesOffline \/ Relinked \/ CloseChecks \/ Exit \/ UNCHANGED vars
    BY Zenon, <2>3, <2>5 DEF ReadLine, Hangup, TimerFires, GoesOffline, Relinked, CloseChecks,
                             Exit, vars, state
  <2>6. QED
    BY Zenon, <1>2, <2>1, <2>2, <2>4, <2>5 DEF Next, Client
<1>3. QED
  BY <1>1, <1>2, PTL DEF Spec
=============================================================================
