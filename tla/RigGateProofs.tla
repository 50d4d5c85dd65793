---------------------------- MODULE RigGateProofs ---------------------------
(***************************************************************************)
(* Proofs for RigGate, for any number of clients, events, faults and       *)
(* retries: one goroutine talks to the radio at a time, and what the gate  *)
(* believes of the radio is true.                                          *)
(*                                                                         *)
(* ActualIsTrue speaks of the moments when nobody drives the radio.  The   *)
(* inductive invariant says what holds in between: the radio is in what    *)
(* its driver wanted once it acted (AnswerInv), the belief is true up to   *)
(* that point (BeliefInv), and after the shutdown released the radio and   *)
(* before it records that, nobody else can act on it (UnlockedInv).        *)
(***************************************************************************)
EXTENDS RigGate, TLAPS

Places == {"idle", "lock", "resolve", "io", "answer", "leaving"}
Working == {"resolve", "io", "answer"}

PlaceInv == /\ pc \in [Goroutines -> Places]
            /\ busy \in BOOLEAN
            /\ busy = FALSE => pc["bg"] = "idle"

EngineInv == io = "engine" <=> engine = "releasing"

AnswerInv == \A t \in Goroutines : pc[t] = "answer" => radio = want[t]

BeliefInv == /\ lost \in BOOLEAN
             /\ lost = FALSE /\ engine # "unlocked" /\ (\A t \in Goroutines : pc[t] # "answer")
                  => actual = radio

UnlockedInv == engine = "unlocked" =>
                 radio = FALSE /\ \A t \in Goroutines : pc[t] \notin {"io", "answer"}

Radio == OneAtATime /\ EngineInv /\ AnswerInv /\ BeliefInv /\ UnlockedInv
GateInv == PlaceInv /\ Radio

\* A step that leaves the radio, its lock and its drivers alone.
Quiet == /\ UNCHANGED <<io, engine, radio, actual, lost, want>>
         /\ \A t \in Goroutines : pc'[t] = pc[t] \/ (pc[t] \notin Working /\ pc'[t] \notin Working)

LEMMA QuietStep == ASSUME Radio, Quiet PROVE Radio'
<1>1. UNCHANGED <<io, engine, radio, actual, lost, want>>
  BY DEF Quiet
<1>2. OneAtATime' /\ EngineInv'
  BY Zenon DEF Radio, Quiet, OneAtATime, EngineInv, Working
<1>3. ASSUME NEW t \in Goroutines
      PROVE (pc'[t] = "answer" <=> pc[t] = "answer") /\ (pc'[t] = "io" <=> pc[t] = "io")
  BY DEF Quiet, Working
<1>4. AnswerInv'
  BY Zenon, <1>1, <1>3 DEF Radio, AnswerInv
<1>5. BeliefInv'
  BY Zenon, <1>1, <1>3 DEF Radio, BeliefInv
<1>6. UnlockedInv'
  BY Zenon, <1>1, <1>3 DEF Radio, UnlockedInv
<1>7. QED
  BY <1>2, <1>4, <1>5, <1>6 DEF Radio

\* reconcile starts the goroutine only when it is not running.
LEMMA ReconcileStep == ASSUME PlaceInv, NEW s, NEW c, Reconcile(s, c)
                       PROVE  /\ PlaceInv'
                              /\ \A t \in Goroutines :
                                    pc'[t] = pc[t] \/ (pc[t] \notin Working /\ pc'[t] \notin Working)
<1>1. "bg" \in Goroutines
  BY DEF Goroutines
<1>2. CASE pc' = pc /\ busy' = busy
  BY Zenon, <1>2 DEF PlaceInv
<1>3. CASE busy = FALSE /\ busy' = TRUE /\ pc' = [pc EXCEPT !["bg"] = "lock"]
  BY <1>1, <1>3 DEF PlaceInv, Places, Working
<1>4. (pc' = pc /\ busy' = busy) \/ (~busy /\ busy' = TRUE /\ pc' = [pc EXCEPT !["bg"] = "lock"])
  BY Zenon DEF Reconcile
<1>5. ~busy => busy = FALSE
  BY Zenon DEF PlaceInv
<1>6. QED
  BY Zenon, <1>2, <1>3, <1>4, <1>5

\* A goroutine other than t is not at work while t holds ioMu.
LEMMA Alone == ASSUME OneAtATime, NEW t \in Goroutines, io = t, NEW u \in Goroutines, u # t
               PROVE  pc[u] \notin Working
  BY DEF OneAtATime, Working

LEMMA NobodyWorks == ASSUME OneAtATime, io \in {"free", "engine"}, NEW u \in Goroutines
                     PROVE  pc[u] \notin Working /\ u # io
  BY GateAssumption DEF OneAtATime, Working, Goroutines

LEMMA LookStep == ASSUME GateInv, NEW t \in Goroutines, Look(t) PROVE GateInv'
<1>0. pc \in [Goroutines -> Places] /\ pc[t] = "lock" /\ io = "free" /\ busy' = busy
  BY Zenon DEF GateInv, PlaceInv, Look, gate
<1>1. CASE pc' = Return(t) /\ UNCHANGED <<io, want>>
  <2>1. Quiet
    BY <1>0, <1>1 DEF Look, Return, Quiet, Places, Working, gate
  <2>2. PlaceInv'
    BY <1>0, <1>1 DEF GateInv, PlaceInv, Return, Places
  <2>3. QED
    BY QuietStep, <2>1, <2>2 DEF GateInv
<1>2. CASE /\ io' = t
           /\ want' = [want EXCEPT ![t] = desired]
           /\ pc' = [pc EXCEPT ![t] = "resolve"]
  <2>1. t \notin {"free", "engine"}
    BY GateAssumption DEF Goroutines
  <2>2. UNCHANGED <<engine, radio, actual, lost>>
    BY DEF Look, gate
  <2>3. ASSUME NEW u \in Goroutines
        PROVE  pc[u] \notin Working /\ (u # t => pc'[u] = pc[u]) /\ pc'[t] = "resolve"
    BY <1>0, <1>2, NobodyWorks DEF GateInv, Radio
  <2>4. PlaceInv'
    BY <1>0, <1>2 DEF GateInv, PlaceInv, Places
  <2>5. OneAtATime'
    BY <1>2, <2>3 DEF OneAtATime, Working
  <2>6. EngineInv'
    BY <1>0, <1>2, <2>1, <2>2 DEF GateInv, Radio, EngineInv
  <2>7. ASSUME NEW u \in Goroutines
        PROVE  pc[u] \notin {"io", "answer"} /\ pc'[u] \notin {"io", "answer"}
    BY <2>3 DEF Working
  <2>8. AnswerInv'
    BY Zenon, <2>7 DEF AnswerInv
  <2>9. BeliefInv'
    BY Zenon, <2>2, <2>7 DEF GateInv, Radio, BeliefInv
  <2>10. UnlockedInv'
    BY Zenon, <2>2, <2>7 DEF GateInv, Radio, UnlockedInv
  <2>11. QED
    BY <2>4, <2>5, <2>6, <2>8, <2>9, <2>10 DEF GateInv, Radio
<1>3. QED
  BY Zenon, <1>1, <1>2 DEF Look

\* The driver goes on: it stays at work, and only the radio may change.
LEMMA DriverStep ==
  ASSUME GateInv, NEW t \in Goroutines, NEW p \in {"io", "answer"}, pc[t] \in Working,
         engine # "unlocked",
         pc' = [pc EXCEPT ![t] = p],
         UNCHANGED <<busy, io, engine, actual, lost, want>>,
         p = "answer" => radio' = want[t],
         p = "io" => radio' = radio /\ pc[t] # "answer"
  PROVE  GateInv'
<1>1. pc \in [Goroutines -> Places] /\ io = t
  BY DEF GateInv, PlaceInv, Radio, OneAtATime, Working
<1>2. ASSUME NEW u \in Goroutines, u # t PROVE pc[u] \notin Working /\ pc'[u] = pc[u]
  <2>1. pc[u] \notin Working
    BY Zenon, <1>1, <1>2, Alone DEF GateInv, Radio
  <2>2. QED
    BY Zenon, <1>1, <1>2, <2>1
<1>3. pc'[t] = p
  BY <1>1
<1>4. PlaceInv'
  BY <1>1 DEF GateInv, PlaceInv, Places, Working
<1>5. OneAtATime' /\ EngineInv'
  BY <1>1, <1>2, <1>3 DEF GateInv, Radio, OneAtATime, EngineInv, Working
<1>6. ASSUME NEW u \in Goroutines
      PROVE  (pc[u] = "answer" => u = t) /\ (pc'[u] = "answer" => u = t /\ p = "answer")
  BY <1>2, <1>3 DEF Working
<1>7. AnswerInv'
  BY Zenon, <1>6 DEF AnswerInv
<1>8. UnlockedInv'
  BY Zenon DEF UnlockedInv
<1>9. BeliefInv'
  <2>1. CASE p = "answer"
    BY Zenon, <1>3, <2>1 DEF GateInv, Radio, BeliefInv
  <2>2. CASE p = "io"
    BY Zenon, <1>6, <2>2 DEF GateInv, Radio, BeliefInv
  <2>3. QED
    BY <2>1, <2>2
<1>10. QED
  BY <1>4, <1>5, <1>7, <1>8, <1>9 DEF GateInv, Radio

\* The driver is done: it frees ioMu and leaves the radio as it is.
LEMMA DoneStep ==
  ASSUME GateInv, NEW t \in Goroutines, NEW p \in {"lock", "leaving", "idle"}, pc[t] \in Working,
         p = "idle" => t # "bg",
         pc' = [pc EXCEPT ![t] = p], io' = "free",
         UNCHANGED <<busy, engine, radio, want>>,
         lost' \in BOOLEAN,
         \/ lost' = TRUE
         \/ actual' = radio
         \/ lost' = lost /\ actual' = actual /\ pc[t] # "answer"
  PROVE  GateInv'
<1>1. pc \in [Goroutines -> Places] /\ io = t /\ t \notin {"free", "engine"}
  BY GateAssumption DEF GateInv, PlaceInv, Radio, OneAtATime, Working, Goroutines
<1>2. ASSUME NEW u \in Goroutines, u # t PROVE pc[u] \notin Working /\ pc'[u] = pc[u]
  <2>1. pc[u] \notin Working
    BY Zenon, <1>1, <1>2, Alone DEF GateInv, Radio
  <2>2. QED
    BY Zenon, <1>1, <1>2, <2>1
<1>3. pc'[t] = p
  BY <1>1
<1>4. PlaceInv'
  <2>1. "bg" \in Goroutines
    BY Zenon DEF Goroutines
  <2>2. t = "bg" => busy # FALSE
    BY Zenon DEF GateInv, PlaceInv, Working
  <2>3. QED
    BY Zenon, <1>1, <2>1, <2>2 DEF GateInv, PlaceInv, Places
<1>5. ASSUME NEW u \in Goroutines PROVE pc'[u] \notin Working /\ u # "free"
  BY <1>2, <1>3, GateAssumption DEF Working, Goroutines
<1>6. OneAtATime'
  BY <1>5 DEF OneAtATime, Working
<1>7. EngineInv'
  BY <1>1 DEF GateInv, Radio, EngineInv
<1>8. ASSUME NEW u \in Goroutines
      PROVE  (pc[u] = "answer" => u = t) /\ pc'[u] \notin {"io", "answer"}
  BY <1>2, <1>5 DEF Working
<1>9. AnswerInv'
  BY Zenon, <1>8 DEF AnswerInv
<1>10. UnlockedInv'
  BY Zenon, <1>8 DEF GateInv, Radio, UnlockedInv
<1>11. BeliefInv'
  <2>1. CASE lost' = TRUE
    <3>1. lost' # FALSE
      BY Zenon, <2>1
    <3>2. QED
      BY Zenon, <3>1 DEF BeliefInv
  <2>2. CASE actual' = radio
    BY Zenon, <2>2 DEF BeliefInv
  <2>3. CASE lost' = lost /\ actual' = actual /\ pc[t] # "answer"
    BY Zenon, <1>8, <2>3 DEF GateInv, Radio, BeliefInv
  <2>4. QED
    BY Zenon, <2>1, <2>2, <2>3
<1>12. QED
  BY <1>4, <1>6, <1>7, <1>9, <1>10, <1>11 DEF GateInv, Radio

LEMMA DrainStep == ASSUME GateInv, NEW t \in Goroutines, Resolve(t) \/ RadioActs(t) \/ Succeed(t)
                   PROVE  GateInv'
<1>1. CASE Resolve(t)
  <2>1. /\ pc[t] \in Working /\ engine # "unlocked" /\ pc[t] # "answer"
        /\ pc' = [pc EXCEPT ![t] = "io"]
        /\ UNCHANGED <<busy, io, engine, actual, lost, want, radio>>
    BY <1>1 DEF Resolve, Working, gate
  <2>2. QED
    BY Zenon, <2>1, DriverStep
<1>2. CASE RadioActs(t)
  <2>1. /\ pc[t] \in Working /\ pc[t] = "io"
        /\ pc' = [pc EXCEPT ![t] = "answer"] /\ radio' = want[t]
        /\ UNCHANGED <<busy, io, engine, actual, lost, want>>
    BY <1>2 DEF RadioActs, Working, gate
  <2>2. engine # "unlocked"
    BY Zenon, <2>1 DEF GateInv, Radio, UnlockedInv
  <2>3. QED
    BY Zenon, <2>1, <2>2, DriverStep
<1>3. CASE Succeed(t)
  <2>1. /\ pc[t] \in Working /\ pc[t] = "answer"
        /\ pc' = [pc EXCEPT ![t] = "lock"] /\ io' = "free"
        /\ actual' = want[t] /\ lost' = FALSE
        /\ UNCHANGED <<busy, engine, radio, want>>
    BY <1>3 DEF Succeed, Working
  <2>2. actual' = radio
    BY Zenon, <2>1 DEF GateInv, Radio, AnswerInv
  <2>3. QED
    BY Zenon, <2>1, <2>2, DoneStep
<1>4. QED
  BY Zenon, <1>1, <1>2, <1>3

LEMMA FailStep == ASSUME GateInv, NEW t \in Goroutines, Fail(t) PROVE GateInv'
<1> DEFINE p == IF t = "bg" THEN "leaving" ELSE "idle"
<1>1. /\ pc[t] \in Working
      /\ pc' = [pc EXCEPT ![t] = p] /\ io' = "free"
      /\ UNCHANGED <<busy, engine, radio, want, actual>>
  BY Zenon DEF Fail, Working, Return
<1>2. lost \in BOOLEAN /\ lost' = (lost \/ pc[t] = "answer")
  BY Zenon DEF GateInv, Radio, BeliefInv, Fail
<1>3. lost' \in BOOLEAN /\ (lost' = TRUE \/ (lost' = lost /\ pc[t] # "answer"))
  BY Zenon, <1>2
<1>4. p \in {"lock", "leaving", "idle"} /\ (p = "idle" => t # "bg")
  BY Zenon
<1>5. QED
  <2> HIDE DEF p
  <2>1. QED
    BY Zenon, <1>1, <1>3, <1>4, DoneStep

\* The shutdown: nobody else is at work where it takes ioMu and gives it back.
LEMMA ShutdownStep == ASSUME GateInv, ShutdownBegins \/ Shutdown PROVE GateInv'
<1>1. UNCHANGED <<pc, want, busy>>
  BY Zenon DEF ShutdownBegins, Shutdown, ShutdownLocks, ShutdownReleases, ShutdownRecords, gate
<1>2. PlaceInv'
  BY Zenon, <1>1 DEF GateInv, PlaceInv
<1>3. CASE ShutdownBegins
  <2>1. /\ UNCHANGED <<io, radio, actual, lost>>
        /\ engine = "running" /\ engine' \in {"closing", "stopped"}
    BY Zenon, <1>3 DEF ShutdownBegins
  <2>2. engine # "unlocked" /\ engine' # "unlocked" /\ engine # "releasing" /\ engine' # "releasing"
    BY <2>1
  <2>3. OneAtATime' /\ EngineInv' /\ AnswerInv' /\ BeliefInv' /\ UnlockedInv'
    BY Zenon, <1>1, <2>1, <2>2
       DEF GateInv, Radio, OneAtATime, EngineInv, AnswerInv, BeliefInv, UnlockedInv
  <2>4. QED
    BY Zenon, <1>2, <2>3 DEF GateInv, Radio
<1>4. CASE ShutdownLocks
  <2>1. /\ UNCHANGED <<radio, actual, lost>>
        /\ engine = "closing" /\ engine' = "releasing" /\ io = "free" /\ io' = "engine"
    BY Zenon, <1>4 DEF ShutdownLocks, gate
  <2>2. engine # "unlocked" /\ engine' # "unlocked"
    BY <2>1
  <2>3. ASSUME NEW u \in Goroutines PROVE pc[u] \notin Working /\ u # "engine"
    BY <2>1, NobodyWorks, GateAssumption DEF GateInv, Radio, Goroutines
  <2>4. OneAtATime' /\ EngineInv'
    BY Zenon, <1>1, <2>1, <2>3 DEF OneAtATime, EngineInv, Working
  <2>5. AnswerInv' /\ BeliefInv' /\ UnlockedInv'
    BY Zenon, <1>1, <2>1, <2>2 DEF GateInv, Radio, AnswerInv, BeliefInv, UnlockedInv
  <2>6. QED
    BY Zenon, <1>2, <2>4, <2>5 DEF GateInv, Radio
<1>5. CASE ShutdownReleases
  <2>1. actual' = actual /\ engine = "releasing" /\ io' = "free" /\ engine' \in {"unlocked", "stopped"}
    BY Zenon, <1>5 DEF ShutdownReleases, gate
  <2>2. io = "engine" /\ engine # "unlocked" /\ engine' # "releasing" /\ io' # "engine"
    BY <2>1 DEF GateInv, Radio, EngineInv
  <2>3. ASSUME NEW u \in Goroutines PROVE pc[u] \notin Working /\ u # "free"
    BY <2>2, NobodyWorks, GateAssumption DEF GateInv, Radio, Goroutines
  <2>4. OneAtATime' /\ EngineInv'
    BY Zenon, <1>1, <2>1, <2>2, <2>3 DEF OneAtATime, EngineInv, Working
  <2>5. ASSUME NEW u \in Goroutines PROVE pc[u] \notin {"io", "answer"} /\ pc[u] # "answer"
    BY <2>3 DEF Working
  <2>6. AnswerInv'
    BY Zenon, <1>1, <2>5 DEF AnswerInv
  <2>7. CASE radio' = FALSE /\ engine' = "unlocked" /\ lost' = FALSE
    BY Zenon, <1>1, <1>2, <2>4, <2>5, <2>6, <2>7 DEF GateInv, Radio, BeliefInv, UnlockedInv
  <2>8. CASE engine' = "stopped" /\ lost' = (lost \/ radio' # radio)
    <3>1. lost \in BOOLEAN /\ (lost = FALSE => actual = radio)
      BY Zenon, <2>2, <2>5 DEF GateInv, Radio, BeliefInv
    <3>2. lost' \in BOOLEAN /\ (lost' = FALSE => actual' = radio')
      BY Zenon, <2>1, <2>8, <3>1
    <3>3. engine' # "unlocked"
      BY <2>8
    <3>4. BeliefInv' /\ UnlockedInv'
      BY Zenon, <3>2, <3>3 DEF BeliefInv, UnlockedInv
    <3>5. QED
      BY Zenon, <1>2, <2>4, <2>6, <3>4 DEF GateInv, Radio
  <2>9. QED
    BY Zenon, <1>5, <2>7, <2>8 DEF ShutdownReleases
<1>6. CASE ShutdownRecords
  <2>1. /\ UNCHANGED <<io, radio, lost>> /\ actual' = FALSE
        /\ engine = "unlocked" /\ engine' = "stopped"
    BY Zenon, <1>6 DEF ShutdownRecords
  <2>2. radio = FALSE /\ engine # "releasing" /\ engine' # "releasing" /\ engine' # "unlocked"
    BY <2>1 DEF GateInv, Radio, UnlockedInv
  <2>3. OneAtATime' /\ EngineInv' /\ AnswerInv' /\ BeliefInv' /\ UnlockedInv'
    BY Zenon, <1>1, <2>1, <2>2
       DEF GateInv, Radio, OneAtATime, EngineInv, AnswerInv, BeliefInv, UnlockedInv
  <2>4. QED
    BY Zenon, <1>2, <2>3 DEF GateInv, Radio
<1>7. QED
  BY Zenon, <1>3, <1>4, <1>5, <1>6 DEF Shutdown

\* The events: counts and the tune's claim change, the radio does not.
LEMMA EventStep == ASSUME GateInv,
                          \/ \E n \in 0 .. 1 : SetSessions(n)
                          \/ \E t \in Clients : AddClient(t) \/ RemoveClient(t) \/ AcquireForQSY(t)
                          \/ RetryFires \/ RigPortBack \/ Disable \/ Leave \/ UNCHANGED vars
                   PROVE  GateInv'
<1>1. UNCHANGED <<io, engine, radio, actual, lost, want>>
  BY Zenon DEF SetSessions, AddClient, RemoveClient, AcquireForQSY, RetryFires, RigPortBack,
               Disable, Leave, vars, gate
<1>2. \/ \E s, c : Reconcile(s, c)
      \/ UNCHANGED <<busy, pc>>
      \/ \E t \in Clients : pc[t] = "idle" /\ pc' = [pc EXCEPT ![t] = "lock"] /\ busy' = busy
      \/ pc["bg"] = "leaving" /\ busy' = FALSE /\ pc' = [pc EXCEPT !["bg"] = "idle"]
  BY Zenon DEF SetSessions, AddClient, RemoveClient, AcquireForQSY, RetryFires, RigPortBack,
               Disable, Leave, vars, gate
<1> DEFINE Aside == \A t \in Goroutines :
                      pc'[t] = pc[t] \/ (pc[t] \notin Working /\ pc'[t] \notin Working)
<1>3. PlaceInv
  BY DEF GateInv
<1>4. PlaceInv' /\ Aside
  <2>1. CASE \E s, c : Reconcile(s, c)
    BY Zenon, <1>3, <2>1, ReconcileStep
  <2>2. CASE UNCHANGED <<busy, pc>>
    BY Zenon, <1>3, <2>2 DEF PlaceInv
  <2>3. ASSUME NEW t \in Clients, pc[t] = "idle", pc' = [pc EXCEPT ![t] = "lock"], busy' = busy
        PROVE  PlaceInv' /\ Aside
    <3>1. t \in Goroutines /\ t # "bg" /\ "bg" \in Goroutines
      BY GateAssumption DEF Goroutines
    <3>2. pc' \in [Goroutines -> Places] /\ pc'["bg"] = pc["bg"] /\ Aside
      BY <1>3, <2>3, <3>1 DEF PlaceInv, Places, Working
    <3>3. QED
      BY Zenon, <1>3, <2>3, <3>2 DEF PlaceInv
  <2>4. CASE pc["bg"] = "leaving" /\ busy' = FALSE /\ pc' = [pc EXCEPT !["bg"] = "idle"]
    <3>1. pc' \in [Goroutines -> Places] /\ pc'["bg"] = "idle" /\ Aside
      BY <1>3, <2>4 DEF PlaceInv, Places, Working, Goroutines
    <3>2. QED
      BY Zenon, <2>4, <3>1 DEF PlaceInv
  <2>5. QED
    BY Zenon, <1>2, <2>1, <2>2, <2>3, <2>4
<1>5. Quiet
  BY Zenon, <1>1, <1>4 DEF Quiet
<1>6. QED
  BY Zenon, <1>4, <1>5, QuietStep DEF GateInv

LEMMA GateInit == Init => GateInv
<1> SUFFICES ASSUME Init PROVE GateInv
  OBVIOUS
<1>1. /\ pc = [t \in Goroutines |-> "idle"] /\ io = "free" /\ engine = "running"
      /\ busy = FALSE /\ lost = FALSE /\ actual = FALSE /\ radio = FALSE
  BY Zenon DEF Init
<1>2. "bg" \in Goroutines /\ "free" \notin Goroutines
  BY GateAssumption DEF Goroutines
<1>3. PlaceInv
  BY Zenon, <1>1, <1>2 DEF PlaceInv, Places
<1>4. ASSUME NEW t \in Goroutines PROVE pc[t] \notin {"resolve", "io", "answer"}
  BY <1>1
<1>5. OneAtATime /\ EngineInv
  BY <1>1, <1>2, <1>4 DEF OneAtATime, EngineInv
<1>6. AnswerInv
  BY <1>4 DEF AnswerInv
<1>7. BeliefInv /\ UnlockedInv
  BY Zenon, <1>1 DEF BeliefInv, UnlockedInv
<1>8. QED
  BY <1>3, <1>5, <1>6, <1>7 DEF GateInv, Radio

LEMMA GateStep == GateInv /\ [Next]_vars => GateInv'
<1> SUFFICES ASSUME GateInv, [Next]_vars PROVE GateInv'
  OBVIOUS
<1>1. CASE \E t \in Goroutines : Drain(t) \/ Fail(t)
  BY Zenon, <1>1, LookStep, DrainStep, FailStep DEF Drain
<1>2. CASE ShutdownBegins \/ Shutdown
  BY Zenon, <1>2, ShutdownStep
<1>3. QED
  BY Zenon, <1>1, <1>2, EventStep DEF Next

LEMMA GateInvariant == Spec => []GateInv
  BY GateInit, GateStep, PTL DEF Spec

\* For any number of clients, tunes and failures, only the goroutine that holds
\* ioMu talks to the radio, the shutdown included (riggate.go, step and shutdownWith).
THEOREM RadioSerialised == Spec => []OneAtATime
<1>1. GateInv => OneAtATime
  BY DEF GateInv, Radio
<1>2. QED
  BY GateInvariant, <1>1, PTL

\* The gate's record of the radio (actual) is what the radio is in whenever ioMu
\* is free, unless an operation was carried out and reported as failed.
THEOREM BeliefIsTrue == Spec => []ActualIsTrue
<1>1. GateInv => ActualIsTrue
  <2> SUFFICES ASSUME GateInv, io = "free", engine # "unlocked", ~lost PROVE actual = radio
    BY DEF ActualIsTrue
  <2>1. ASSUME NEW t \in Goroutines PROVE pc[t] # "answer"
    BY NobodyWorks DEF GateInv, Radio, Working
  <2>2. lost = FALSE
    BY Zenon DEF GateInv, Radio, BeliefInv
  <2>3. QED
    BY Zenon, <2>1, <2>2 DEF GateInv, Radio, BeliefInv
<1>2. QED
  BY GateInvariant, <1>1, PTL
=============================================================================
