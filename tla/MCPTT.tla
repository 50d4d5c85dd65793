------------------------------- MODULE MCPTT --------------------------------
(* Two rigctl connections to one radio.                                    *)
EXTENDS PTT
=============================================================================
