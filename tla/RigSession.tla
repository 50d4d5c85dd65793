---------------------------- MODULE RigSession ------------------------------
(***************************************************************************)
(* What AcquireSession displaces on the operator's radio and how           *)
(* ReleaseSession puts it back (rig/session.go), with the tunes of rigctl  *)
(* clients (SetFreq, Teardown), an operator who keeps using the front      *)
(* panel, requests that fail before or after the radio carried them out,   *)
(* and a link that drops: RigFor then builds a new Rig, which adopts what  *)
(* the old one had recorded, while an operation already running stays on   *)
(* the old, closed one.                                                    *)
(*                                                                         *)
(* Dual watch and the A channel share the settings record, APRS is in the  *)
(* other.  "packet" is the value packet needs.  Every request is an action,  *)
(* so whatever the operator does falls between them.                       *)
(* The gate of RigGate makes the calls: one at a time, an acquire when it  *)
(* believes the radio free, a release when it believes it held and no      *)
(* client is tuning (its connection would hold the radio).  As in L2, a    *)
(* definition named after a mistake is a faulty variant of the next one.   *)
(***************************************************************************)
EXTENDS Integers

CONSTANTS MaxFaults,     \* failed requests and dropped links
          MaxTouches,    \* what the operator does on the front panel
          MaxTunes

ASSUME SessionAssumption == {MaxFaults, MaxTouches, MaxTunes} \subseteq Nat

Settings == {"dual", "chan"}        \* the settings record: dual watch, channel_a
Fields == Settings \cup {"aprs"}    \* and the BSS record
Values(f) == IF f = "aprs" THEN {"packet", "a"} ELSE {"packet", "a", "b"}
None == "none"

VARIABLES radio,      \* the value of each field
          vfo, mem,   \* the channel records: the VFO's and a memory
          own,        \* history: the fields as the operator last chose them
          touched,    \* history: fields the operator set during the session
          sess, orig, \* the current rig's record of what it displaced
          op,         \* the acquire or release the gate is running
          tune,       \* the tune a client is running
          actual,     \* the gate's belief: the radio is held
          failing,    \* the gate's releaseFailures > 0
          faults, touches, tunes,
          raced,      \* history: the operator changed a record between its read and its write
          forgot,     \* history: what was displaced is no longer recorded
          cut,        \* history: a link dropped in the middle of a release
          crossed     \* history: a rollback tore a tune down while another was in flight

records == <<vfo, mem>>
operator == <<own, touched, touches>>
memory == <<sess, orig>>
tuning == <<tune, tunes>>
gate == <<actual, failing>>
odd == <<cut, crossed>>
vars == <<radio, records, operator, memory, op, tuning, gate, faults, raced, forgot, odd>>

Nothing == [f \in Fields |-> None]
NoSession == [held |-> FALSE, was |-> Nothing]

\* live: the operation's rig is still the current one; was, held: its session
\* record; saw: the record it read last; err, lost: an error, a failed restore.
Idle == [pc |-> "idle", live |-> TRUE, rollback |-> FALSE, held |-> FALSE, was |-> Nothing,
         saw |-> Nothing, err |-> FALSE, lost |-> FALSE]

Init == /\ radio \in [Fields -> {"packet", "a"}]
        /\ vfo = "start" /\ mem = "memory"
        /\ own = radio /\ touched = {}
        /\ sess = NoSession /\ orig = None
        /\ op = Idle
        /\ tune = [pc |-> "idle", live |-> TRUE, ch |-> "vfo", freq |-> None]
        /\ actual = FALSE /\ failing = FALSE
        /\ faults = 0 /\ touches = 0 /\ tunes = 0
        /\ raced = FALSE /\ forgot = FALSE /\ cut = FALSE /\ crossed = FALSE

\* A request fails; on a closed rig every one does.
Fault(live) == IF live THEN faults < MaxFaults /\ faults' = faults + 1 ELSE UNCHANGED faults

\* The radio takes a settings record built from the one read: the fields outside
\* that record keep their value.
WriteSettings(rec) ==
  /\ radio' = [f \in Fields |-> IF f \in Settings THEN rec[f] ELSE radio[f]]
  /\ raced' = (raced \/ \E f \in Settings : radio[f] # op.saw[f])
WriteBSS(v) ==
  /\ radio' = [radio EXCEPT !["aprs"] = v]
  /\ raced' = (raced \/ radio["aprs"] # op.saw["aprs"])

-----------------------------------------------------------------------------
(* AcquireSession.                                                         *)

\* Acquiring twice does nothing.
Acquire ==
  /\ op.pc = "idle" /\ ~actual
  /\ IF sess.held THEN actual' = TRUE /\ UNCHANGED <<op, touched>>
     ELSE /\ op' = [Idle EXCEPT !.pc = "acquire"]
          /\ UNCHANGED actual
          /\ touched' = {f \in touched : radio[f] # own[f]}
  /\ UNCHANGED <<radio, records, own, touches, memory, tuning, failing, faults, raced, forgot, odd>>

\* The settings record, and the channel records it points at, are read.
AcquireReads ==
  /\ op.pc = "acquire" /\ op.live
  /\ LET was == [f \in Fields |-> IF f \in Settings /\ radio[f] # "packet" THEN radio[f] ELSE None]
     IN  op' = [op EXCEPT !.saw = radio, !.was = was,
                          !.pc = IF was = Nothing THEN "acquire BSS" ELSE "displace"]
  /\ UNCHANGED <<radio, records, operator, memory, tuning, gate, faults, raced, forgot, odd>>

AcquireWrites ==
  /\ op.pc = "displace" /\ op.live
  /\ WriteSettings([f \in Settings |-> "packet"])
  /\ op' = [op EXCEPT !.pc = "acquire BSS"]
  /\ UNCHANGED <<records, operator, memory, tuning, gate, faults, forgot, odd>>

AcquireReadsBSS ==
  /\ op.pc = "acquire BSS" /\ op.live
  /\ op' = IF radio["aprs"] = "packet" THEN [op EXCEPT !.pc = "record"]
           ELSE [op EXCEPT !.pc = "displace BSS", !.saw = radio, !.was["aprs"] = radio["aprs"]]
  /\ UNCHANGED <<radio, records, operator, memory, tuning, gate, faults, raced, forgot, odd>>

AcquireWritesBSS ==
  /\ op.pc = "displace BSS" /\ op.live
  /\ WriteBSS("packet")
  /\ op' = [op EXCEPT !.pc = "record"]
  /\ UNCHANGED <<records, operator, memory, tuning, gate, faults, forgot, odd>>

\* The session is recorded in the rig the operation runs on.
AcquireRecords ==
  /\ op.pc = "record"
  /\ IF op.live THEN sess' = [held |-> TRUE, was |-> op.was] /\ UNCHANGED forgot
     ELSE forgot' = (forgot \/ op.was # Nothing) /\ UNCHANGED sess
  /\ actual' = TRUE
  /\ op' = Idle
  /\ UNCHANGED <<radio, records, operator, orig, tuning, failing, faults, raced, odd>>

\* An error in the settings record ends the acquire, with nothing recorded; the
\* write may have been carried out all the same.
AcquireFails ==
  /\ op.pc \in {"acquire", "displace"}
  /\ Fault(op.live)
  /\ \/ UNCHANGED <<radio, raced, forgot, odd>>
     \/ /\ op.pc = "displace" /\ op.live
        /\ WriteSettings([f \in Settings |-> "packet"])
        /\ forgot' = TRUE
  /\ op' = Idle
  /\ UNCHANGED <<records, operator, memory, tuning, gate, odd>>

\* An error in the BSS record rolls the acquire back: the session is recorded as
\* held and then released.
AcquireRollsBack ==
  /\ op.pc \in {"acquire BSS", "displace BSS"}
  /\ Fault(op.live)
  /\ \/ UNCHANGED <<radio, raced>>
     \/ op.pc = "displace BSS" /\ op.live /\ WriteBSS("packet")
  /\ sess' = IF op.live THEN [held |-> TRUE, was |-> op.was] ELSE sess
  /\ op' = [op EXCEPT !.pc = "release", !.rollback = TRUE, !.held = TRUE, !.err = TRUE]
  /\ UNCHANGED <<records, operator, orig, tuning, gate, forgot, odd>>

-----------------------------------------------------------------------------
(* ReleaseSession.                                                         *)

Release ==
  /\ op.pc = "idle" /\ actual /\ tune.pc = "idle"
  /\ op' = [Idle EXCEPT !.pc = "release", !.held = sess.held, !.was = sess.was]
  /\ UNCHANGED <<radio, records, operator, memory, tuning, gate, faults, raced, forgot, odd>>

Releasing == {"release", "clear", "restore", "replace", "restore BSS", "replace BSS", "end"}

\* What follows a step of the release: records with nothing displaced are skipped.
After(pc) ==
  CASE pc = "release" /\ op.held /\ \E f \in Settings : op.was[f] # None -> "restore"
    [] pc \in {"release", "restore"} /\ op.held /\ op.was["aprs"] # None -> "restore BSS"
    [] OTHER -> "end"

\* Teardown writes the original channel record back ...
TeardownWrites ==
  /\ op.pc = "release" /\ op.live
  /\ IF orig = None
     THEN op' = [op EXCEPT !.pc = After("release")] /\ UNCHANGED vfo
     ELSE op' = [op EXCEPT !.pc = "clear"] /\ vfo' = orig
  /\ UNCHANGED <<radio, mem, operator, memory, tuning, gate, faults, raced, forgot, odd>>

\* ... and then forgets it.
TeardownClears ==
  /\ op.pc = "clear"
  /\ orig' = IF op.live THEN None ELSE orig
  /\ crossed' = (crossed \/ tune.pc = "write")
  /\ op' = [op EXCEPT !.pc = After("release")]
  /\ UNCHANGED <<radio, records, operator, sess, tuning, gate, faults, raced, forgot, cut>>

\* restoreSettings and restoreBSS read the record as it is now ...
RestoreReads ==
  /\ op.pc \in {"restore", "restore BSS"} /\ op.live
  /\ op' = [op EXCEPT !.saw = radio, !.pc = IF op.pc = "restore" THEN "replace" ELSE "replace BSS"]
  /\ UNCHANGED <<radio, records, operator, memory, tuning, gate, faults, raced, forgot, odd>>

\* ... and put back the displaced fields that still hold what tncd wrote.
RestoredBlindly(f) == IF op.was[f] # None THEN op.was[f] ELSE op.saw[f]
Restored(f) == IF op.was[f] # None /\ op.saw[f] = "packet" THEN op.was[f] ELSE op.saw[f]

Replace ==
  \/ /\ op.pc = "replace"
     /\ IF \A f \in Settings : Restored(f) = op.saw[f] THEN UNCHANGED <<radio, raced>>
        ELSE WriteSettings([f \in Settings |-> Restored(f)])
  \/ /\ op.pc = "replace BSS"
     /\ IF op.saw["aprs"] # "packet" THEN UNCHANGED <<radio, raced>> ELSE WriteBSS(op.was["aprs"])

RestoreWrites ==
  /\ op.live
  /\ Replace
  /\ op' = [op EXCEPT !.pc = IF op.pc = "replace" THEN After("restore") ELSE "end"]
  /\ UNCHANGED <<records, operator, memory, tuning, gate, faults, forgot, odd>>

\* A request of the release fails, done or not; every later step still runs.
ReleaseErrs ==
  /\ op.pc \in {"release", "restore", "replace", "restore BSS", "replace BSS"}
  /\ op.pc = "release" /\ op.live => orig # None
  /\ Fault(op.live)
  /\ \/ UNCHANGED <<radio, vfo, raced>>
     \/ op.live /\ Replace /\ UNCHANGED vfo
     \/ op.live /\ op.pc = "release" /\ vfo' = orig /\ UNCHANGED <<radio, raced>>
  /\ op' = [op EXCEPT !.pc = CASE op.pc = "release" -> After("release")
                               [] op.pc \in {"restore", "replace"} -> After("restore")
                               [] OTHER -> "end",
                      !.err = TRUE, !.lost = @ \/ op.pc # "release"]
  /\ UNCHANGED <<mem, operator, memory, tuning, gate, forgot, odd>>

\* The end of the release: the record of the session goes, restored or not.  A
\* failed release leaves the gate believing the radio held.
ReleaseEndsKeepingSession ==
  /\ op.pc = "end"
  /\ op' = Idle
  /\ IF op.rollback THEN UNCHANGED <<actual, failing>>
     ELSE actual' = op.err /\ failing' = op.err
  /\ UNCHANGED <<radio, records, operator, sess, orig, tuning, faults, raced, forgot, odd>>
ReleaseEnds ==
  /\ op.pc = "end"
  /\ sess' = IF op.live /\ op.held THEN NoSession ELSE sess
  /\ forgot' = (forgot \/ (op.held /\ op.lost /\ (op.live \/ op.rollback)))
  /\ op' = Idle
  /\ IF op.rollback THEN UNCHANGED <<actual, failing>>
     ELSE actual' = op.err /\ failing' = op.err
  /\ UNCHANGED <<radio, records, operator, orig, tuning, faults, raced, odd>>

-----------------------------------------------------------------------------
(* Tunes, the operator, the link.                                          *)

\* A client asks for a tune: acquireForQSY has returned, its acquire done or
\* failed; the tune goes ahead either way.
QSY ==
  /\ tune.pc = "idle" /\ tunes < MaxTunes
  /\ op.pc = "idle"
  /\ tunes' = tunes + 1
  /\ tune' = [tune EXCEPT !.pc = "ready", !.live = TRUE]
  /\ UNCHANGED <<radio, records, operator, memory, op, gate, faults, raced, forgot, odd>>

\* SetFreq reads the record of the active channel and refuses a memory.
SetFreqReadsAnything ==
  /\ tune.pc = "ready" /\ tune.live
  /\ tune' = IF radio["chan"] = "packet"
             THEN [pc |-> "write", live |-> TRUE, ch |-> "vfo", freq |-> vfo]
             ELSE [pc |-> "write", live |-> TRUE, ch |-> "mem", freq |-> mem]
  /\ UNCHANGED <<radio, records, operator, memory, op, tunes, gate, faults, raced, forgot, odd>>
SetFreqReads ==
  /\ tune.pc = "ready" /\ tune.live
  /\ tune' = IF radio["chan"] = "packet"
             THEN [pc |-> "write", live |-> TRUE, ch |-> "vfo", freq |-> vfo]
             ELSE [tune EXCEPT !.pc = "idle"]
  /\ UNCHANGED <<radio, records, operator, memory, op, tunes, gate, faults, raced, forgot, odd>>

\* rememberOriginal, then the write of the record that was read.
Tunes(first) ==
  /\ orig' = IF tune.live /\ (orig = None \/ ~first) THEN tune.freq ELSE orig
  /\ \/ /\ tune.live
        /\ IF tune.ch = "vfo" THEN vfo' = "qsy" /\ UNCHANGED mem ELSE mem' = "qsy" /\ UNCHANGED vfo
        /\ UNCHANGED faults
     \/ Fault(tune.live) /\ UNCHANGED <<vfo, mem>>
  /\ tune' = [tune EXCEPT !.pc = "idle"]
  /\ UNCHANGED <<radio, operator, sess, op, tunes, gate, raced, forgot, odd>>
SetFreqRemembersLast == tune.pc = "write" /\ Tunes(FALSE)
SetFreqWrites == tune.pc = "write" /\ Tunes(TRUE)

\* The tune fails before it changed anything.
SetFreqFails ==
  /\ tune.pc = "ready"
  /\ Fault(tune.live)
  /\ tune' = [tune EXCEPT !.pc = "idle"]
  /\ UNCHANGED <<radio, records, operator, memory, op, tunes, gate, raced, forgot, odd>>

\* The operator changes a field, or turns the VFO's dial, on the front panel.
Touches(f, v) ==
  /\ touches < MaxTouches /\ v # radio[f]
  /\ touches' = touches + 1
  /\ radio' = [radio EXCEPT ![f] = v]
  /\ own' = [own EXCEPT ![f] = v]
  /\ touched' = touched \cup {f}
  /\ UNCHANGED <<records, memory, op, tuning, gate, faults, raced, forgot, odd>>
Dials ==
  /\ touches < MaxTouches /\ radio["chan"] = "packet"
  /\ touches' = touches + 1
  /\ vfo' = "dial"
  /\ UNCHANGED <<radio, mem, own, touched, memory, op, tuning, gate, faults, raced, forgot, odd>>

\* The link drops and RigFor builds a new rig, which adopts sess and orig; what
\* is in flight stays on the old one.
RigForSwaps ==
  /\ faults < MaxFaults
  /\ op.pc # "idle" \/ tune.pc # "idle"
  /\ faults' = faults + 1
  /\ op' = [op EXCEPT !.live = (op.pc = "idle")]
  /\ tune' = [tune EXCEPT !.live = FALSE]
  /\ cut' = (cut \/ op.pc \in Releasing)
  /\ UNCHANGED <<radio, records, operator, memory, tunes, gate, raced, forgot, crossed>>

-----------------------------------------------------------------------------
Next == \/ Acquire \/ AcquireReads \/ AcquireWrites \/ AcquireReadsBSS \/ AcquireWritesBSS
        \/ AcquireRecords \/ AcquireFails \/ AcquireRollsBack
        \/ Release \/ TeardownWrites \/ TeardownClears \/ RestoreReads \/ RestoreWrites
        \/ ReleaseErrs \/ ReleaseEnds
        \/ QSY \/ SetFreqReads \/ SetFreqWrites \/ SetFreqFails
        \/ \E f \in Fields : \E v \in Values(f) : Touches(f, v)
        \/ Dials \/ RigForSwaps

Spec == Init /\ [][Next]_vars

-----------------------------------------------------------------------------
(* Properties.                                                             *)

\* The types of the radio's fields and of the rig's records; only fields that
\* differed from what packet needs are recorded as displaced.
TypeOK == /\ radio \in [Fields -> {"packet", "a", "b"}] /\ own \in [Fields -> {"packet", "a", "b"}]
          /\ vfo \in {"start", "qsy", "dial"} /\ mem \in {"memory", "qsy"}
          /\ touched \subseteq Fields
          /\ sess \in [held : BOOLEAN, was : [Fields -> {"a", "b", None}]]
          /\ orig \in {None, "start", "qsy", "dial"}
          /\ {actual, failing, raced, forgot, cut, crossed} \subseteq BOOLEAN

\* While nothing is held every field is as the operator last chose it.
IsOperators(f) == \/ radio[f] = own[f]
                  \/ own[f] = "packet" /\ f \in touched   \* taken for tncd's own value
GivenBack == ~actual /\ op.pc = "idle" => \A f \in Fields : IsOperators(f)

\* Whatever tncd displaced is put back, and what the operator changed meanwhile
\* is left alone, across failures, retries and rig swaps, unless the record of
\* it was lost or the operator's hand came between a read and its write.
GivenBackUnlessForgotten == forgot \/ raced \/ GivenBack

\* A release that succeeds after failed ones has put everything back: "A failed
\* release stays HELD so it can be retried" (step in riggate.go).
\* Does not hold of the code (a known gap in the README).
RetryRestores == [][failing /\ ~failing' /\ ~raced => \A f \in Fields : IsOperators(f)']_vars

\* While the gate holds the radio it is fit for packet, the fields the operator
\* changed since apart; a rig that adopts the record of a release in progress believes
\* in a session that is over, and acquires nothing for the next.
FitForPacket == actual /\ ~failing /\ ~cut /\ op.pc = "idle" =>
                  \A f \in Fields : radio[f] = "packet" \/ f \in touched

\* No tune ever writes to a memory of the operator's.
MemoryIntact == mem = "memory"

\* The original a release puts back is never a frequency tncd tuned to itself:
\* "restoring one of those would strand the radio on a frequency the operator
\* never chose" (rememberOriginal), unless a rollback's Teardown crossed the tune.
OriginalIsOperators == crossed \/ orig # "qsy"

\* A release never undoes a frequency the operator dialled: "Each field is
\* restored ONLY if the radio still holds the value tncd wrote" (ReleaseSession).
\* Does not hold of the code (a known gap in the README).
DialSurvives == [][vfo = "dial" /\ vfo' # "dial" => SetFreqWrites]_vars
=============================================================================
