-------------------------------- MODULE PTT ---------------------------------
(***************************************************************************)
(* Keying the transmitter through rigctl (frontend/rigctl/server.go): one  *)
(* pttState shared by every connection, the safety timer with its          *)
(* generation, un-keys that fail and are retried, clients that vanish, the *)
(* server's Close and the end of the process.                              *)
(*                                                                         *)
(* st.mu is held across the radio's answer, so a key or a release is one   *)
(* action.  The rig is looked up before that: every caller works on the    *)
(* rig it resolved, whatever became of the port since.  Rigs are numbered  *)
(* by relink; NoRig is the nil of a port that is offline.  The radio has   *)
(* distinct press and release (SetPTT).  As in L2, a definition named      *)
(* after a mistake is a faulty variant of the next one.                    *)
(***************************************************************************)
EXTENDS Integers

CONSTANTS Clients,      \* rigctl connections
          MaxPresses,   \* set_ptt 1 commands
          MaxRelinks,   \* relinks of the port
          MaxFaults,    \* requests that fail on a live rig
          Retries,      \* maxReleaseRetries, 3 in the code
          MayClose      \* tncd may be shut down

ASSUME PTTAssumption == /\ {MaxPresses, MaxRelinks, MaxFaults, Retries} \subseteq Nat
                        /\ MayClose \in BOOLEAN

NoRig == -1
NoTimer == [gen |-> 0, rig |-> NoRig, press |-> 0]

VARIABLES tx,          \* the radio transmits
          keyed, timer, gen, releaseTries,     \* pttState
          firing,      \* timer callbacks that wait for st.mu
          online, rig, \* the port, and its current rig
          pc, held,    \* each connection, and the rig its command works on
          server,      \* "open", "closing", "closed", and "exited" with the process
          presses, faults,
          gaveUp       \* history: tncd stopped trying, and said so

state == <<keyed, timer, gen, releaseTries>>
port == <<online, rig>>
vars == <<tx, state, firing, port, pc, held, server, presses, faults, gaveUp>>

Init == /\ tx = FALSE
        /\ keyed = FALSE /\ timer = NoTimer /\ gen = 0 /\ releaseTries = 0
        /\ firing = {}
        /\ online = TRUE /\ rig = 0
        /\ pc = [c \in Clients |-> "idle"]
        /\ held = [c \in Clients |-> NoRig]
        /\ server = "open"
        /\ presses = 0 /\ faults = 0
        /\ gaveUp = FALSE

\* s.rig(): the provider's answer at this moment.
CurrentRig == IF online THEN rig ELSE NoRig

\* SetPTT on rig r: done, or an error, on a live rig possibly after the radio
\* obeyed.
Done(r, on) == online /\ r = rig /\ tx' = on /\ UNCHANGED faults
Errs(r, on) == IF online /\ r = rig
               THEN faults < MaxFaults /\ faults' = faults + 1 /\ tx' \in {tx, on}
               ELSE UNCHANGED <<faults, tx>>

\* armTimerLocked: the timer keeps the rig it was armed with.
ArmStopped(r, n) == gen' = gen + 1 /\ timer' = NoTimer
Arm(r, n) == gen' = gen + 1 /\ timer' = [gen |-> gen + 1, rig |-> r, press |-> n]

Clear == keyed' = FALSE /\ timer' = NoTimer /\ releaseTries' = 0 /\ UNCHANGED gen

-----------------------------------------------------------------------------
(* keyLocked and releaseLocked.                                            *)

\* A key that failed counts as keyed; a key while keyed refreshes the timer.
KeyLockedIfOk(r) ==
  /\ \/ keyed /\ UNCHANGED <<tx, faults, keyed>>
     \/ ~keyed /\ Done(r, TRUE) /\ keyed' = TRUE
     \/ ~keyed /\ Errs(r, TRUE) /\ keyed' = FALSE
  /\ IF keyed' THEN Arm(r, presses + 1) ELSE UNCHANGED <<gen, timer>>
  /\ UNCHANGED releaseTries
KeyLocked(r) ==
  /\ \/ keyed /\ UNCHANGED <<tx, faults>>
     \/ ~keyed /\ (Done(r, TRUE) \/ Errs(r, TRUE))
  /\ keyed' = TRUE
  /\ Arm(r, presses + 1)
  /\ UNCHANGED releaseTries

\* A release that fails stays keyed and is retried by a short timer, a bounded
\* number of times.
ReleaseClearsFirst(r) ==
  IF ~keyed THEN UNCHANGED <<tx, faults, state, gaveUp>>
  ELSE (Done(r, FALSE) \/ Errs(r, FALSE)) /\ keyed' = keyed /\ timer' = NoTimer
       /\ UNCHANGED <<gen, releaseTries, gaveUp>>
ReleaseLocked(r) ==
  \/ ~keyed /\ UNCHANGED <<tx, faults, state, gaveUp>>
  \/ keyed /\ Done(r, FALSE) /\ Clear /\ UNCHANGED gaveUp
  \/ /\ keyed /\ Errs(r, FALSE)
     /\ IF releaseTries < Retries
        THEN /\ Arm(r, presses)
             /\ releaseTries' = releaseTries + 1
             /\ UNCHANGED <<keyed, gaveUp>>
        ELSE Clear /\ gaveUp' = TRUE

\* forceReleasePTT when the process is going away: a failure is not retried.
ReleaseFinally(r) ==
  \/ ~keyed /\ UNCHANGED <<tx, faults, state, gaveUp>>
  \/ keyed /\ Done(r, FALSE) /\ Clear /\ UNCHANGED gaveUp
  \/ keyed /\ Errs(r, FALSE) /\ Clear /\ gaveUp' = TRUE

-----------------------------------------------------------------------------
(* A connection.                                                           *)

\* handleConn reads a line and resolves the rig; a nil rig is answered at once.
ReadLine(c) ==
  /\ pc[c] = "idle" /\ server \in {"open", "closing"} /\ presses < MaxPresses
  /\ online
  /\ pc' = [pc EXCEPT ![c] = "command"]
  /\ held' = [held EXCEPT ![c] = CurrentRig]
  /\ UNCHANGED <<tx, state, firing, port, server, presses, faults, gaveUp>>

SetPTTOn(c) ==
  /\ pc[c] = "command" /\ server # "exited" /\ presses < MaxPresses
  /\ presses' = presses + 1
  /\ KeyLocked(held[c])
  /\ pc' = [pc EXCEPT ![c] = "idle"]
  /\ UNCHANGED <<firing, port, held, server, gaveUp>>

SetPTTOff(c) ==
  /\ pc[c] = "command" /\ server # "exited"
  /\ ReleaseLocked(held[c])
  /\ pc' = [pc EXCEPT ![c] = "idle"]
  /\ UNCHANGED <<firing, port, held, server, presses>>

\* The client goes away: the deferred forceReleasePTT resolves the rig anew.
Hangup(c) ==
  /\ pc[c] = "idle" /\ server # "exited"
  /\ pc' = [pc EXCEPT ![c] = "leaving"]
  /\ held' = [held EXCEPT ![c] = CurrentRig]
  /\ UNCHANGED <<tx, state, firing, port, server, presses, faults, gaveUp>>

ForceReleasePTT(c) ==
  /\ pc[c] = "leaving" /\ server # "exited"
  /\ ReleaseLocked(held[c])
  /\ pc' = [pc EXCEPT ![c] = "gone"]
  /\ UNCHANGED <<firing, port, held, server, presses>>

-----------------------------------------------------------------------------
(* The timer, the port, the shutdown.                                      *)

TimerFires ==
  /\ timer # NoTimer /\ server # "exited"
  /\ firing' = firing \cup {timer}
  /\ timer' = NoTimer
  /\ UNCHANGED <<tx, keyed, gen, releaseTries, port, pc, held, server, presses, faults, gaveUp>>

\* timeoutFire: a callback whose generation has passed does nothing.
TimeoutFireUnchecked(t) ==
  /\ server # "exited"
  /\ firing' = firing \ {t}
  /\ ReleaseLocked(t.rig)
  /\ UNCHANGED <<port, pc, held, server, presses>>
TimeoutFire(t) ==
  /\ server # "exited"
  /\ firing' = firing \ {t}
  /\ IF t.gen = gen THEN ReleaseLocked(t.rig) ELSE UNCHANGED <<tx, faults, state, gaveUp>>
  /\ UNCHANGED <<port, pc, held, server, presses>>

GoesOffline ==
  /\ online /\ rig < MaxRelinks /\ server # "exited"
  /\ online' = FALSE
  /\ UNCHANGED <<tx, state, firing, rig, pc, held, server, presses, faults, gaveUp>>
Relinked ==
  /\ ~online /\ server # "exited"
  /\ online' = TRUE
  /\ rig' = rig + 1
  /\ UNCHANGED <<tx, state, firing, pc, held, server, presses, faults, gaveUp>>

\* Close looks at keyed first and resolves a rig only if it has to.
CloseChecks ==
  /\ MayClose /\ server = "open"
  /\ server' = IF keyed THEN "closing" ELSE "closed"
  /\ UNCHANGED <<tx, state, firing, port, pc, held, presses, faults, gaveUp>>
CloseReleases ==
  /\ server = "closing"
  /\ ReleaseFinally(CurrentRig)
  /\ server' = "closed"
  /\ UNCHANGED <<firing, port, pc, held, presses>>

\* The runtime goes on to close the ports, and the process ends.
Exit ==
  /\ server = "closed"
  /\ server' = "exited"
  /\ UNCHANGED <<tx, state, firing, port, pc, held, presses, faults, gaveUp>>

-----------------------------------------------------------------------------
Client(c) == SetPTTOn(c) \/ SetPTTOff(c) \/ ForceReleasePTT(c)

Next == \/ \E c \in Clients : ReadLine(c) \/ Hangup(c) \/ Client(c)
        \/ TimerFires \/ \E t \in firing : TimeoutFire(t)
        \/ GoesOffline \/ Relinked
        \/ CloseChecks \/ CloseReleases \/ Exit

Spec == Init /\ [][Next]_vars

\* Timers fire and their callbacks get st.mu; commands in progress end.
FairSpec == /\ Spec
            /\ WF_vars(TimerFires) /\ WF_vars(\E t \in firing : TimeoutFire(t))
            /\ \A c \in Clients : WF_vars(Client(c))

-----------------------------------------------------------------------------
(* Properties.                                                             *)

\* The types of pttState, the timer callbacks and the connections.
TypeOK == /\ tx \in BOOLEAN /\ keyed \in BOOLEAN /\ online \in BOOLEAN /\ gaveUp \in BOOLEAN
          /\ gen \in Nat /\ releaseTries \in 0 .. Retries
          /\ \A t \in firing \cup {timer} : t.gen \in 0 .. gen /\ t.rig \in NoRig .. MaxRelinks
          /\ rig \in 0 .. MaxRelinks
          /\ pc \in [Clients -> {"idle", "command", "leaving", "gone"}]
          /\ held \in [Clients -> NoRig .. MaxRelinks]
          /\ server \in {"open", "closing", "closed", "exited"}

\* The radio never transmits behind tncd's back: it is believed keyed, or tncd
\* has told the operator that it gave up.
NeverKeyedUnnoticed == tx => keyed \/ gaveUp

\* Whenever tncd believes the radio keyed, the safety timer is armed or its
\* callback is about to run: no sequence of keys, failed releases, hang-ups and
\* late callbacks disarms it.
TimerBacksKey == keyed => \E t \in (firing \cup {timer}) \ {NoTimer} : t.gen = gen

\* A callback of the safety timer ends a transmission only if no key was pressed
\* since it was armed.
RefreshHonoured == [][\A t \in firing : TimeoutFire(t) /\ tx /\ ~tx' => t.press = presses]_vars

\* A transmission ends, by the client, the timer or a retry, or tncd has said
\* that it cannot end it.
TransmissionEnds == tx ~> ~tx \/ gaveUp \/ server = "exited"

\* tncd gives up only when the port has no live rig to un-key through: "by then
\* the port may have relinked and the next attempt gets a live rig" (releaseLocked).
\* Does not hold of the code (a known gap in the README).
GivesUpOnlyOffline == [][~gaveUp /\ gaveUp' => ~online]_vars

\* After a forced release "tncd's own bookkeeping (st.keyed, the timer) is
\* cleared regardless of whether the radio ever heard about it" (forceReleasePTT).
\* Does not hold of the code (a known gap in the README).
ForcedReleaseClears == [][\A c \in Clients : ForceReleasePTT(c) => ~keyed']_vars

\* "tncd shutting down must not leave a transmitter keyed behind it" (Close).
\* Does not hold of the code (a known gap in the README).
SilentAtExit == server = "exited" /\ ~gaveUp => ~tx
=============================================================================
