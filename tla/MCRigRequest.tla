---------------------------- MODULE MCRigRequest ----------------------------
(* Two callers, two command types, a few requests and rigs.                *)
EXTENDS RigRequest
=============================================================================
