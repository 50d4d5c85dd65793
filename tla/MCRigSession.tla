---------------------------- MODULE MCRigSession -----------------------------
(* The radio's session with few faults, tunes and touches of the operator. *)
EXTENDS RigSession
=============================================================================
