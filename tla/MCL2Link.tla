------------------------------ MODULE MCL2Link ------------------------------
(***************************************************************************)
(* Instances of L2Link for TLC.                                            *)
(***************************************************************************)
EXTENDS L2Link

CONSTANTS a, b

MCStations == {a, b}

Port(w, n2, version, srej, t3) ==
  [maxWindow |-> w, n2 |-> n2, version |-> version, srej |-> srej, t3 |-> t3]

\* Both speak v2.2, with the widest window the modulus admits.
ParamSrej == [s \in {a, b} |-> Port(3, 1, 22, TRUE, FALSE)]
\* a speaks v2.2 and b only v2.0.
ParamMixed == [s \in {a, b} |-> Port(2, 1, IF s = a THEN 22 ELSE 20, TRUE, FALSE)]
\* b watches for a dead link with T3, a does not.
ParamLive == [s \in {a, b} |-> Port(1, 1, 20, FALSE, s = b)]

\* How often each client connects, disconnects or sends.
Never == [s \in {a, b} |-> 0]
Each1 == [s \in {a, b} |-> 1]
OnlyA(n) == [s \in {a, b} |-> IF s = a THEN n ELSE 0]

\* a sends b more than a window of data; both call, send and hang up at once.
SafetyScenes ==
  {[param |-> ParamSrej, opens |-> OnlyA(1), closes |-> Never, data |-> OnlyA(5)],
   [param |-> ParamMixed, opens |-> Each1, closes |-> Each1, data |-> Each1]}
\* a calls, sends and hangs up.
LiveScenes == {[param |-> ParamLive, opens |-> OnlyA(1), closes |-> OnlyA(1), data |-> OnlyA(1)]}
=============================================================================
