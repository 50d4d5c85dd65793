----------------------------- MODULE MCRigGate ------------------------------
(* The rig gate with one or two rigctl clients.                            *)
EXTENDS RigGate
=============================================================================
