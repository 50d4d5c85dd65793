------------------------------ MODULE RigGate -------------------------------
(***************************************************************************)
(* The gate that keeps a port's radio in packet configuration while it is  *)
(* needed (bridge/riggate.go): counts kept under g.mu, radio I/O under     *)
(* g.ioMu, one background reconcile goroutine, rigctl clients that acquire *)
(* the radio inline before a tune, the retry timer, and the shutdown that  *)
(* runs on the event loop.  Every lookup of the rig (withRig) is a round   *)
(* trip through the event loop.                                            *)
(*                                                                         *)
(* An action is one critical section.  setSessions, addClient and          *)
(* removeClient update a count and then call reconcile, two sections of    *)
(* g.mu; they are one action because whatever runs between them could as   *)
(* well have run before the first or after the second.                     *)
(* TRUE is packet configuration, FALSE the operator's own.  As in L2, a    *)
(* definition named after a mistake is a faulty variant of the next one.   *)
(***************************************************************************)
EXTENDS Integers

CONSTANTS Clients,       \* rigctl connections
          MaxEvents,     \* session starts and ends, client arrivals and departures, tunes
          MaxFaults,     \* radio operations that fail
          RetryLimit,    \* len(releaseRetryDelays), 4 in the code
          MayDisable,    \* the radio may turn out not to speak the protocol
          MayStop        \* tncd may be shut down

ASSUME GateAssumption == /\ {MaxEvents, MaxFaults, RetryLimit} \subseteq Nat
                         /\ MayDisable \in BOOLEAN /\ MayStop \in BOOLEAN
                         /\ Clients \cap {"bg", "engine", "free"} = {}

VARIABLES sessions, clients, qsy, actual, busy,   \* the gate's fields under g.mu
          releaseFailures, retry, disabled,
          io,          \* who holds g.ioMu, or "free"
          pc,          \* pc[t]: where goroutine t is in drain
          want,        \* want[t]: the state t is driving the radio to
          engine,      \* the event loop: running, or how far the shutdown got
          radio,       \* what the radio is really in
          connected,   \* clients with an open connection
          events, faults,
          missed,      \* history: a change came after the reconciler's last look
          failed,      \* history: an operation that is not retried failed
          lost         \* history: the last operation was done but reported an error

gate == <<sessions, clients, qsy, actual, busy, releaseFailures, retry, disabled>>
vars == <<gate, io, pc, want, engine, radio, connected, events, faults, missed, failed, lost>>

Goroutines == Clients \cup {"bg"}

Init == /\ sessions = 0 /\ clients = 0 /\ qsy = FALSE /\ actual = FALSE /\ busy = FALSE
        /\ releaseFailures = 0 /\ retry = FALSE /\ disabled = FALSE
        /\ io = "free"
        /\ pc = [t \in Goroutines |-> "idle"]
        /\ want = [t \in Goroutines |-> FALSE]
        /\ engine = "running"
        /\ radio = FALSE
        /\ connected = {}
        /\ events = 0 /\ faults = 0
        /\ missed = FALSE /\ failed = FALSE /\ lost = FALSE

Desired(s, c, q) == (s > 0 \/ c > 0) /\ (s > 0 \/ q)
desired == Desired(sessions, clients, qsy)

Event == events < MaxEvents /\ events' = events + 1

\* reconcile, after the counts became s and c: start the goroutine unless it
\* runs already or there is nothing to do.
Reconcile(s, c) ==
  LET need == Desired(s, c, qsy) # actual
  IN  /\ IF need /\ ~busy
         THEN busy' = TRUE /\ pc' = [pc EXCEPT !["bg"] = "lock"]
         ELSE UNCHANGED <<busy, pc>>
      /\ missed' = (missed \/ (need /\ busy /\ pc["bg"] = "leaving"))

-----------------------------------------------------------------------------
(* Events.                                                                 *)

\* l2's PortSessions hook, on the event loop.
SetSessions(n) ==
  /\ engine = "running" /\ n # sessions
  /\ Event
  /\ ~disabled
  /\ sessions' = n
  /\ Reconcile(n, clients)
  /\ UNCHANGED <<clients, qsy, actual, releaseFailures, retry, disabled, io, want, engine,
                 radio, connected, faults, failed, lost>>

AddClient(t) ==
  /\ engine = "running" /\ t \notin connected /\ pc[t] = "idle"
  /\ Event
  /\ connected' = connected \cup {t}
  /\ IF disabled THEN UNCHANGED <<clients, busy, pc, missed>>
     ELSE clients' = clients + 1 /\ Reconcile(sessions, clients + 1)
  /\ UNCHANGED <<sessions, qsy, actual, releaseFailures, retry, disabled, io, want, engine,
                 radio, faults, failed, lost>>

RemoveClient(t) ==
  /\ t \in connected /\ pc[t] = "idle"
  /\ Event
  /\ connected' = connected \ {t}
  /\ clients' = IF clients > 0 THEN clients - 1 ELSE 0
  /\ Reconcile(sessions, clients')
  /\ UNCHANGED <<sessions, qsy, actual, releaseFailures, retry, disabled, io, want, engine,
                 radio, faults, failed, lost>>

\* A client tunes: acquireForQSY latches qsy and drains on the client's goroutine.
AcquireForQSY(t) ==
  /\ t \in connected /\ pc[t] = "idle"
  /\ Event
  /\ ~disabled
  /\ qsy' = TRUE
  /\ pc' = [pc EXCEPT ![t] = "lock"]
  /\ UNCHANGED <<sessions, clients, actual, busy, releaseFailures, retry, disabled, io, want,
                 engine, radio, connected, faults, missed, failed, lost>>

\* The retry timer, or the port coming back: RigPortBack calls reconcile.
RetryFires ==
  /\ retry
  /\ retry' = FALSE
  /\ Reconcile(sessions, clients)
  /\ UNCHANGED <<sessions, clients, qsy, actual, releaseFailures, disabled, io, want, engine,
                 radio, connected, events, faults, failed, lost>>
RigPortBack ==
  /\ engine = "running"
  /\ Event
  /\ Reconcile(sessions, clients)
  /\ UNCHANGED <<sessions, clients, qsy, actual, releaseFailures, retry, disabled, io, want,
                 engine, radio, connected, faults, failed, lost>>

\* DisableRigSettings: the radio did not identify itself.
Disable ==
  /\ MayDisable /\ ~disabled
  /\ disabled' = TRUE
  /\ UNCHANGED <<sessions, clients, qsy, actual, busy, releaseFailures, retry, io, pc, want,
                 engine, radio, connected, events, faults, missed, failed, lost>>

-----------------------------------------------------------------------------
(* drain, on the background goroutine or on a client's.                    *)

\* Where drain returns to: the goroutine still has to clear busy.
Return(t) == [pc EXCEPT ![t] = IF t = "bg" THEN "leaving" ELSE "idle"]

\* step takes ioMu and reads what to do under mu; nothing to do ends drain.
LookUnlocked(t) ==
  /\ pc[t] = "lock"
  /\ IF desired = actual
     THEN pc' = Return(t) /\ UNCHANGED <<io, want>>
     ELSE /\ io' = t
          /\ want' = [want EXCEPT ![t] = desired]
          /\ pc' = [pc EXCEPT ![t] = "resolve"]
  /\ UNCHANGED <<gate, engine, radio, connected, events, faults, missed, failed, lost>>
Look(t) ==
  /\ pc[t] = "lock" /\ io = "free"
  /\ IF desired = actual
     THEN pc' = Return(t) /\ UNCHANGED <<io, want>>
     ELSE /\ io' = t
          /\ want' = [want EXCEPT ![t] = desired]
          /\ pc' = [pc EXCEPT ![t] = "resolve"]
  /\ UNCHANGED <<gate, engine, radio, connected, events, faults, missed, failed, lost>>

\* withRig: the event loop looks the rig up.
Resolve(t) ==
  /\ pc[t] = "resolve" /\ engine = "running"
  /\ pc' = [pc EXCEPT ![t] = "io"]
  /\ UNCHANGED <<gate, io, want, engine, radio, connected, events, faults, missed, failed, lost>>

\* The radio takes the settings; its answer is on the way.
RadioActs(t) ==
  /\ pc[t] = "io"
  /\ radio' = want[t]
  /\ pc' = [pc EXCEPT ![t] = "answer"]
  /\ UNCHANGED <<gate, io, want, engine, connected, events, faults, missed, failed, lost>>

\* step after a success: a release also clears the tune that triggered it.
SucceedStaleBelief(t) ==
  /\ pc[t] = "answer"
  /\ actual' = desired
  /\ IF want[t] THEN UNCHANGED <<qsy, releaseFailures, retry>>
     ELSE qsy' = FALSE /\ releaseFailures' = 0 /\ retry' = FALSE
  /\ io' = "free"
  /\ pc' = [pc EXCEPT ![t] = "lock"]
  /\ UNCHANGED <<sessions, clients, busy, disabled, want, engine, radio, connected, events,
                 faults, missed, failed, lost>>
Succeed(t) ==
  /\ pc[t] = "answer"
  /\ actual' = want[t]
  /\ IF want[t] THEN UNCHANGED <<qsy, releaseFailures, retry>>
     ELSE qsy' = FALSE /\ releaseFailures' = 0 /\ retry' = FALSE
  /\ lost' = FALSE
  /\ io' = "free"
  /\ pc' = [pc EXCEPT ![t] = "lock"]
  /\ UNCHANGED <<sessions, clients, busy, disabled, want, engine, radio, connected, events,
                 faults, missed, failed>>

\* step after a failure (the port is offline, the radio refuses, its answer is
\* lost): a release stays held and is retried a bounded number of times; drain ends.
FailWithoutRetry(t) ==
  /\ pc[t] \in {"resolve", "io", "answer"} /\ faults < MaxFaults
  /\ pc[t] = "resolve" => engine = "running"
  /\ faults' = faults + 1
  /\ lost' = (lost \/ pc[t] = "answer")
  /\ releaseFailures' = IF want[t] THEN releaseFailures ELSE releaseFailures + 1
  /\ failed' = (failed \/ want[t])
  /\ io' = "free"
  /\ pc' = Return(t)
  /\ UNCHANGED <<sessions, clients, qsy, actual, busy, retry, disabled, want, engine, radio,
                 connected, events, missed>>
FailHoldingLock(t) ==
  /\ pc[t] \in {"resolve", "io", "answer"} /\ faults < MaxFaults
  /\ faults' = faults + 1
  /\ lost' = (lost \/ pc[t] = "answer")
  /\ failed' = TRUE
  /\ pc' = Return(t)
  /\ UNCHANGED <<gate, io, want, engine, radio, connected, events, missed>>
Fail(t) ==
  /\ pc[t] \in {"resolve", "io", "answer"} /\ faults < MaxFaults
  /\ pc[t] = "resolve" => engine = "running"
  /\ faults' = faults + 1
  /\ lost' = (lost \/ pc[t] = "answer")
  /\ IF want[t] THEN failed' = TRUE /\ UNCHANGED <<releaseFailures, retry>>
     ELSE /\ releaseFailures' = releaseFailures + 1
          /\ retry' = (releaseFailures < RetryLimit)
          /\ failed' = (failed \/ releaseFailures >= RetryLimit)
  /\ io' = "free"
  /\ pc' = Return(t)
  /\ UNCHANGED <<sessions, clients, qsy, actual, busy, disabled, want, engine, radio,
                 connected, events, missed>>

\* reconcile's deferred cleanup.
Leave ==
  /\ pc["bg"] = "leaving"
  /\ busy' = FALSE
  /\ pc' = [pc EXCEPT !["bg"] = "idle"]
  /\ UNCHANGED <<sessions, clients, qsy, actual, releaseFailures, retry, disabled, io, want,
                 engine, radio, connected, events, faults, missed, failed, lost>>

-----------------------------------------------------------------------------
(* shutdownWith, on the event loop.                                        *)

ShutdownBegins ==
  /\ MayStop /\ engine = "running"
  /\ sessions' = 0 /\ clients' = 0 /\ qsy' = FALSE /\ retry' = FALSE
  /\ engine' = IF actual THEN "closing" ELSE "stopped"
  /\ UNCHANGED <<actual, busy, releaseFailures, disabled, io, pc, want, radio, connected,
                 events, faults, missed, failed, lost>>

ShutdownLocks ==
  /\ engine = "closing" /\ io = "free"
  /\ io' = "engine"
  /\ engine' = "releasing"
  /\ UNCHANGED <<gate, pc, want, radio, connected, events, faults, missed, failed, lost>>

\* The rig is looked up inline and the radio released, or the release fails.
ShutdownReleases ==
  /\ engine = "releasing"
  /\ io' = "free"
  /\ \/ radio' = FALSE /\ engine' = "unlocked" /\ lost' = FALSE /\ UNCHANGED <<faults, failed>>
     \/ /\ faults < MaxFaults /\ faults' = faults + 1 /\ failed' = TRUE
        /\ engine' = "stopped"
        /\ radio' \in {radio, FALSE} /\ lost' = (lost \/ radio' # radio)
  /\ UNCHANGED <<gate, pc, want, connected, events, missed>>

ShutdownRecords ==
  /\ engine = "unlocked"
  /\ actual' = FALSE
  /\ engine' = "stopped"
  /\ UNCHANGED <<sessions, clients, qsy, busy, releaseFailures, retry, disabled, io, pc, want,
                 radio, connected, events, faults, missed, failed, lost>>

-----------------------------------------------------------------------------
Drain(t) == Look(t) \/ Resolve(t) \/ RadioActs(t) \/ Succeed(t)
Shutdown == ShutdownLocks \/ ShutdownReleases \/ ShutdownRecords

Next == \/ \E n \in 0 .. 1 : SetSessions(n)
        \/ \E t \in Clients : AddClient(t) \/ RemoveClient(t) \/ AcquireForQSY(t)
        \/ RetryFires \/ RigPortBack \/ Disable
        \/ \E t \in Goroutines : Drain(t) \/ Fail(t)
        \/ Leave \/ ShutdownBegins \/ Shutdown

Spec == Init /\ [][Next]_vars

\* Goroutines keep running, ioMu is handed over fairly (a Go mutex does not
\* starve), the radio answers, the retry timer fires, the loop runs.
FairSpec == /\ Spec
            /\ \A t \in Goroutines : SF_vars(Look(t)) /\ WF_vars(Drain(t))
            /\ WF_vars(Leave) /\ WF_vars(RetryFires) /\ SF_vars(Shutdown)

-----------------------------------------------------------------------------
(* Properties.                                                             *)

\* The gate's fields, the goroutines and the event loop have their types.
TypeOK == /\ sessions \in Nat /\ clients \in Nat /\ releaseFailures \in Nat
          /\ events \in Nat /\ faults \in Nat
          /\ qsy \in BOOLEAN /\ actual \in BOOLEAN /\ busy \in BOOLEAN /\ retry \in BOOLEAN
          /\ disabled \in BOOLEAN /\ radio \in BOOLEAN
          /\ missed \in BOOLEAN /\ failed \in BOOLEAN /\ lost \in BOOLEAN
          /\ io \in Goroutines \cup {"free", "engine"}
          /\ pc \in [Goroutines -> {"idle", "lock", "resolve", "io", "answer", "leaving"}]
          /\ want \in [Goroutines -> BOOLEAN]
          /\ engine \in {"running", "closing", "releasing", "unlocked", "stopped"}
          /\ connected \subseteq Clients

\* Only the goroutine that holds ioMu talks to the radio, so apply and release
\* never overlap ("can never run apply and release at once").
OneAtATime == \A t \in Goroutines : pc[t] \in {"resolve", "io", "answer"} <=> io = t

\* What the gate believes is what the radio is in, whenever nobody is in the
\* middle of changing it or of recording the change, and the last operation did
\* not report an error after the radio had carried it out.
ActualIsTrue == io = "free" /\ engine # "unlocked" /\ ~lost => actual = radio

\* The gate's work is settled, or the reason why it is not is on record.
Settled == desired = actual \/ missed \/ failed \/ engine # "running"

\* Every acquire and release the counts ask for is carried out, failed releases
\* being retried, unless a change slipped in after the reconciler's last look.
SettlesUnlessMissed == []<>Settled

\* Every acquire and release is carried out, without exception: reconciling "is
\* what makes a rapid acquire/release/acquire sequence land correctly instead of
\* depending on which goroutine won" (rigGate).
\* Does not hold of the code (a known gap in the README).
Settles == []<>(desired = actual \/ failed \/ engine # "running")

\* When acquireForQSY returns without an error the radio is held, so the tune
\* that follows cannot touch the operator's memory channel (acquireForQSY).
\* Does not hold of the code (a known gap in the README).
QSYHolds ==
  [][\A t \in Clients : Look(t) /\ pc'[t] = "idle" /\ ~disabled /\ engine = "running" => radio]_vars

\* A tune always gets past the gate.
QSYReturns == \A t \in Clients : pc[t] = "lock" ~> pc[t] = "idle" \/ engine # "running"

\* Once the shutdown is over the radio is the operator's again, unless a release
\* failed: "if this does not restore the radio, nothing else will" (Shutdown).
\* Does not hold of the code (a known gap in the README).
RestoredAtExit == engine = "stopped" /\ ~failed => ~radio

\* The shutdown comes to an end (shutdownWith, Shutdown).
ShutdownEnds == engine = "closing" ~> engine = "stopped"
=============================================================================
