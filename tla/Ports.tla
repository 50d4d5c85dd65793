------------------------------- MODULE Ports --------------------------------
(***************************************************************************)
(* The life of one KISS port of the bridge: connect attempts that run off  *)
(* the event loop, the slot b.ports[i] they fill, reconnect timers, manual *)
(* relinks (monitor API) and relinks by the read-side wedge watchdog.      *)
(*                                                                         *)
(* Every attempt starts by incrementing portEpoch, so an attempt and the   *)
(* kiss.Port it may produce are identified by their epoch.  The event loop *)
(* is a queue of closures; loop requests nobody waits for (a manual        *)
(* relink, a watchdog tick, a received frame) run at any point of it.      *)
(* newTransport fails only for an invalid configuration and is left out.   *)
(* As in L2, a definition named after a mistake (InstallAnyway, ...) is a  *)
(* faulty variant of the one that follows it.                              *)
(***************************************************************************)
EXTENDS Integers, Sequences

CONSTANTS Reconnect,      \* the port's reconnect option
          MaxFaults,      \* failed dials and dying transports
          MaxRelinks,     \* manual and wedge relinks
          RelinkBudget    \* relinkEscalateAfter (3 in the code)

ASSUME PortsAssumption == /\ Reconnect \in BOOLEAN
                          /\ {MaxFaults, MaxRelinks, RelinkBudget} \subseteq Nat

\* Each new epoch is due to Start, a fault or a relink.
MaxEpoch == 1 + MaxFaults + MaxRelinks
Epochs == 1 .. MaxEpoch
Sentinel == 0

VARIABLES epoch,      \* portEpoch[i]
          slot,       \* ports[i]: Sentinel, or the epoch of a kiss.Port
          attempt,    \* attempt[e]: how far attempt e, and then its port, got
          backoff,    \* epochs whose attempt is connectPortWithBackoff
          displaced,  \* displaced[e]: the port relink e closes before it dials
          loop,       \* closures queued on the event loop
          timers,     \* timers[a]: reconnect timers armed at epoch a
          awaiting,   \* portAwaitingReply: a session waits for an answer
          silent,     \* nothing was received for RXWedgeTimeout
          relinks,    \* relinks[i]: futile wedge relinks in a row
          faults, cycles,   \* faults and relinks so far
          stray,      \* history: a superseded attempt or port reported a failure
          raced,      \* history: a port died while it was not, or ceased to be, the slot's
          lost        \* history: a session ended because a port not in the slot died

vars == <<epoch, slot, attempt, backoff, displaced, loop, timers, awaiting, silent,
          relinks, faults, cycles, stray, raced, lost>>
past == <<stray, raced, lost>>
wedge == <<awaiting, silent, relinks>>

Phases == {"unborn", "closing", "dialing", "failed", "up", "failing", "down"}
Closures == [op : {"install", "retry", "offline", "timer"}, at : Epochs]

\* bridge.Start: the first attempt is a plain connectPort.
Init == /\ epoch = 1
        /\ slot = Sentinel
        /\ attempt = [e \in Epochs |-> IF e = 1 THEN "dialing" ELSE "unborn"]
        /\ backoff = {}
        /\ displaced = [e \in Epochs |-> Sentinel]
        /\ loop = << >>
        /\ timers = [e \in Epochs |-> 0]
        /\ awaiting = FALSE /\ silent = FALSE /\ relinks = 0
        /\ faults = 0 /\ cycles = 0
        /\ stray = FALSE /\ raced = FALSE /\ lost = FALSE

Post(op, e) == loop' = Append(loop, [op |-> op, at |-> e])

Online(e) == e # Sentinel /\ attempt[e] = "up"

-----------------------------------------------------------------------------
(* Off the event loop.                                                     *)

\* port.Start succeeds: reader and writer run, the result is posted.
DialSucceeds(e) ==
  /\ attempt[e] = "dialing"
  /\ attempt' = [attempt EXCEPT ![e] = "up"]
  /\ Post("install", e)
  /\ UNCHANGED <<epoch, slot, backoff, displaced, timers, wedge, faults, cycles, past>>

\* port.Start fails: connectPortWithBackoff always retries, connectPort when
\* the port reconnects.
DialFailsQuietly(e) ==
  /\ attempt[e] = "dialing" /\ faults < MaxFaults
  /\ attempt' = [attempt EXCEPT ![e] = "failed"]
  /\ faults' = faults + 1
  /\ IF e \in backoff THEN Post("retry", e) ELSE loop' = loop
  /\ UNCHANGED <<epoch, slot, backoff, displaced, timers, wedge, cycles, past>>
DialFails(e) ==
  /\ attempt[e] = "dialing" /\ faults < MaxFaults
  /\ attempt' = [attempt EXCEPT ![e] = "failed"]
  /\ faults' = faults + 1
  /\ IF e \in backoff \/ Reconnect THEN Post("retry", e) ELSE loop' = loop
  /\ UNCHANGED <<epoch, slot, backoff, displaced, timers, wedge, cycles, past>>

\* The reader or the writer hits an error and wins the race for teardown ...
TransportDies(e) ==
  /\ attempt[e] = "up" /\ faults < MaxFaults
  /\ attempt' = [attempt EXCEPT ![e] = "failing"]
  /\ faults' = faults + 1
  /\ raced' = (raced \/ slot # e)
  /\ UNCHANGED <<epoch, slot, backoff, displaced, loop, timers, wedge, cycles, stray, lost>>

\* ... then closes the transport and calls onOffline.
Teardown(e) ==
  /\ attempt[e] = "failing"
  /\ attempt' = [attempt EXCEPT ![e] = "down"]
  /\ Post("offline", e)
  /\ UNCHANGED <<epoch, slot, backoff, displaced, timers, wedge, faults, cycles, past>>

\* kiss.Port.Close: a port whose teardown already began is left to it.
Closed(f, e) == IF f[e] = "up" THEN [f EXCEPT ![e] = "down"] ELSE f

\* The relink goroutine: close the old port, then dial.
RelinkFails(e) ==
  /\ attempt[e] = "closing"
  /\ attempt' = [Closed(attempt, displaced[e]) EXCEPT ![e] = "dialing"]
  /\ IF attempt[displaced[e]] = "up" THEN Post("offline", displaced[e]) ELSE loop' = loop
  /\ UNCHANGED <<epoch, slot, backoff, displaced, timers, wedge, faults, cycles, past>>
RelinkCloses(e) ==
  /\ attempt[e] = "closing"
  /\ attempt' = [Closed(attempt, displaced[e]) EXCEPT ![e] = "dialing"]
  /\ UNCHANGED <<epoch, slot, backoff, displaced, loop, timers, wedge, faults, cycles, past>>

\* A reconnect delay ends: the closure is queued.
TimerFires(a) ==
  /\ timers[a] > 0
  /\ timers' = [timers EXCEPT ![a] = @ - 1]
  /\ Post("timer", a)
  /\ UNCHANGED <<epoch, slot, attempt, backoff, displaced, wedge, faults, cycles, past>>

-----------------------------------------------------------------------------
(* Closures on the event loop.                                             *)

Take(op, e) == loop # << >> /\ Head(loop) = [op |-> op, at |-> e] /\ loop' = Tail(loop)

\* The dial's result: only the newest attempt fills the slot.
InstallAnyway(e) ==
  /\ Take("install", e)
  /\ slot' = e
  /\ UNCHANGED <<epoch, attempt, backoff, displaced, timers, wedge, faults, cycles, past>>
Install(e) ==
  /\ Take("install", e)
  /\ IF e = epoch THEN slot' = e /\ attempt' = attempt
     ELSE slot' = slot /\ attempt' = Closed(attempt, e)
  /\ UNCHANGED <<epoch, backoff, displaced, timers, wedge, faults, cycles, past>>

\* scheduleReconnect arms a timer for the epoch current at the call.
ScheduleReconnect == timers' = [timers EXCEPT ![epoch] = @ + 1]

Retry(e) ==
  /\ Take("retry", e)
  /\ ScheduleReconnect
  /\ stray' = (stray \/ e # epoch)
  /\ UNCHANGED <<epoch, slot, attempt, backoff, displaced, wedge, faults, cycles, raced, lost>>

\* portWentOffline: L2 sessions end, the counters start afresh.
PortWentOffline(e) ==
  /\ Take("offline", e)
  /\ awaiting' = FALSE
  /\ silent' = FALSE
  /\ IF Reconnect THEN ScheduleReconnect ELSE timers' = timers
  /\ stray' = (stray \/ e # epoch)
  /\ lost' = (lost \/ (awaiting /\ slot # e))
  /\ UNCHANGED <<epoch, slot, attempt, backoff, displaced, relinks, faults, cycles, raced>>

\* scheduleReconnect's timer: stands down when a newer attempt has started.
TimerRuns(a) ==
  /\ Take("timer", a)
  /\ IF a # epoch THEN UNCHANGED <<epoch, attempt, backoff>>
     ELSE /\ epoch' = epoch + 1
          /\ attempt' = [attempt EXCEPT ![epoch + 1] = "dialing"]
          /\ backoff' = backoff \cup {epoch + 1}
  /\ UNCHANGED <<slot, displaced, timers, wedge, faults, cycles, past>>

\* reconnectPort: only a slot that holds a kiss.Port is cycled.
Relink ==
  /\ slot # Sentinel
  /\ cycles < MaxRelinks
  /\ cycles' = cycles + 1
  /\ slot' = Sentinel
  /\ epoch' = epoch + 1
  /\ attempt' = [attempt EXCEPT ![epoch + 1] = "closing"]
  /\ displaced' = [displaced EXCEPT ![epoch + 1] = slot]
  /\ silent' = FALSE
  /\ raced' = (raced \/ attempt[slot] # "up")
  /\ UNCHANGED <<backoff, loop, timers, faults, stray, lost>>

\* ReconnectPort, from the monitor API: sessions are dropped.
ManualReconnect == Relink /\ awaiting' = FALSE /\ UNCHANGED relinks

\* checkRXWedge: a silent port with a session waiting is relinked, a bounded
\* number of times in a row; the session is kept.
CheckRXWedge ==
  \/ /\ ~awaiting
     /\ relinks # 0
     /\ relinks' = 0
     /\ UNCHANGED <<epoch, slot, attempt, backoff, displaced, loop, timers, awaiting, silent,
                    faults, cycles, past>>
  \/ /\ awaiting /\ silent /\ Online(slot)
     /\ relinks < RelinkBudget
     /\ Relink
     /\ relinks' = relinks + 1
     /\ UNCHANGED awaiting

\* OnKISSFrame: a frame of any port that ever came up may still be queued.
FrameArrives ==
  /\ \E e \in Epochs : attempt[e] \in {"up", "failing", "down"}
  /\ silent' = FALSE
  /\ relinks' = 0
  /\ awaiting' \in BOOLEAN
  /\ UNCHANGED <<epoch, slot, attempt, backoff, displaced, loop, timers, faults, cycles, past>>

\* A client starts waiting for a reply on an online port; time passes in silence.
ClientCalls ==
  /\ Online(slot)
  /\ awaiting' = TRUE
  /\ UNCHANGED <<epoch, slot, attempt, backoff, displaced, loop, timers, silent, relinks,
                 faults, cycles, past>>
Silence ==
  /\ silent' = TRUE
  /\ UNCHANGED <<epoch, slot, attempt, backoff, displaced, loop, timers, awaiting, relinks,
                 faults, cycles, past>>

-----------------------------------------------------------------------------
OffLoop(e) == DialSucceeds(e) \/ Teardown(e) \/ RelinkCloses(e) \/ TimerFires(e)
OnLoop(e) == Install(e) \/ Retry(e) \/ PortWentOffline(e) \/ TimerRuns(e)
Faults(e) == DialFails(e) \/ TransportDies(e)
Environment == ManualReconnect \/ CheckRXWedge \/ FrameArrives \/ ClientCalls \/ Silence

Next == Environment \/ \E e \in Epochs : OffLoop(e) \/ OnLoop(e) \/ Faults(e)

Spec == Init /\ [][Next]_vars

\* Goroutines and the event loop keep running, timers expire, a dial ends.
FairSpec == Spec /\ \A e \in Epochs : WF_vars(OffLoop(e)) /\ WF_vars(OnLoop(e))

-----------------------------------------------------------------------------
(* Properties.                                                             *)

\* The types of the slot, the attempts, the timers and the queue; the watchdog
\* keeps to its relink budget and every new epoch has a cause.
TypeOK == /\ epoch \in Epochs
          /\ slot \in Epochs \cup {Sentinel}
          /\ attempt \in [Epochs -> Phases]
          /\ backoff \subseteq Epochs
          /\ displaced \in [Epochs -> Epochs \cup {Sentinel}]
          /\ loop \in Seq(Closures)
          /\ timers \in [Epochs -> Nat]
          /\ awaiting \in BOOLEAN /\ silent \in BOOLEAN /\ {stray, raced, lost} \subseteq BOOLEAN
          /\ relinks \in 0 .. RelinkBudget
          /\ faults \in 0 .. MaxFaults /\ cycles \in 0 .. MaxRelinks

Queued(op, e) == \E i \in 1 .. Len(loop) : loop[i] = [op |-> op, at |-> e]

\* Somebody still answers for the open port e: it is in the slot, or the loop
\* will decide about it, or a relink is about to close it.
Accounted(e) == \/ slot = e
                \/ Queued("install", e)
                \/ \E r \in Epochs : attempt[r] = "closing" /\ displaced[r] = e

\* No open port is orphaned: "otherwise a stale dial that finishes after a
\* successful relink overwrites and orphans the healthy port" (portEpoch).
\* Does not hold of the code (a known gap in the README).
NoOrphan == \A e \in Epochs : attempt[e] = "up" => Accounted(e)

\* A port is orphaned only after an attempt that was already superseded, or a
\* port already displaced, reported a failure and so armed a reconnect timer
\* for an epoch that is not its own.
OrphanOnlyFromStray == stray \/ NoOrphan

\* "an in-flight AX.25 session survives the transport cycle" (reconnectPort): the
\* report that a displaced port is gone never ends the sessions of the port.
\* Does not hold of the code (a known gap in the README).
SessionSurvives == ~lost

\* Closing a port for a relink ends no session: a session is lost to the report
\* of a port that is not in the slot only if a port died by itself after it was
\* displaced, before it filled the slot, or before a relink displaced it.
LostOnlyInRace == lost => raced

\* Once faults and relinks stop, a port that reconnects is online for good.
Recovers == Reconnect => <>[]Online(slot)
=============================================================================
