------------------------------ MODULE Channel -------------------------------
(***************************************************************************)
(* What a connected-mode AX.25 link promises the two clients that use it:  *)
(* while it is up, what one client sent is handed to the other in order,   *)
(* once each and complete, and what counts as acknowledged was handed      *)
(* over.  Losing the link loses what was under way.                        *)
(***************************************************************************)
EXTENDS Integers, Sequences

CONSTANT Ends    \* the two ends

VARIABLES up,       \* both ends are connected
          sent,     \* sent[e]: what e's client sent on this link
          handed,   \* handed[e]: what was handed to e's client
          acked     \* acked[e]: how many chunks of e's client are acknowledged

vars == <<up, sent, handed, acked>>

Other(e) == CHOOSE o \in Ends : o # e

IsPrefix(s, t) == Len(s) <= Len(t) /\ s = SubSeq(t, 1, Len(s))

\* Nothing is handed over that was not sent, in the order it was sent, and
\* nothing is acknowledged that was not handed over.
Faithful == \A e \in Ends : /\ IsPrefix(handed[Other(e)], sent[e])
                            /\ acked[e] <= Len(handed[Other(e)])

Init == ~up

\* The link fails, or is down: nothing is promised.
Fail == ~up'

\* The link is up once both ends say so; by then the end that was connected
\* first may have sent something, and its first frame may have arrived.
Establish == ~up /\ up' /\ Faithful'

\* e's client sends a chunk.
Send(e) == /\ up /\ up'
           /\ Len(sent'[e]) = Len(sent[e]) + 1
           /\ IsPrefix(sent[e], sent'[e])
           /\ sent'[Other(e)] = sent[Other(e)]
           /\ UNCHANGED <<handed, acked>>

\* A frame arrives at e: its client is handed what comes next, in order, and
\* more of what e sent is acknowledged.
Arrive(e) == /\ up /\ up'
             /\ handed'[Other(e)] = handed[Other(e)]
             /\ acked'[Other(e)] = acked[Other(e)]
             /\ IsPrefix(handed[e], handed'[e])
             /\ acked[e] <= acked'[e]
             /\ sent' = sent
             /\ Faithful'

Next == Fail \/ Establish \/ \E e \in Ends : Send(e) \/ Arrive(e)

Spec == Init /\ [][Next]_vars
=============================================================================
