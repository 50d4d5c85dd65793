----------------------------- MODULE MCSessions -----------------------------
(***************************************************************************)
(* The model-checking instance of Sessions: two clients, two ports and one *)
(* callsign.                                                               *)
(***************************************************************************)
EXTENDS Sessions, TLC

Symmetry == Permutations(Clients) \cup Permutations(Ports) \cup Permutations(Calls)
=============================================================================
