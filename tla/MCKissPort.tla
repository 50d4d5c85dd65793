----------------------------- MODULE MCKissPort -----------------------------
(* One port with a queue of two, three frames and one control write.       *)
EXTENDS KissPort
=============================================================================
