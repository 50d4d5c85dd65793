----------------------------- MODULE MCTraffic ------------------------------
(* Scenes for Traffic: clients that come and go, and a busy transmit path. *)
EXTENDS Traffic

CONSTANTS k1, k2, s1

MCScenes == {
  \* two KISS clients and frames of others
  [send |-> 0, airs |-> {}, hear |-> 2, who |-> {k1, k2},
   max |-> 2, sweep |-> TRUE, stop |-> FALSE],
  \* a subscriber beside a KISS client, and the shutdown
  [send |-> 1, airs |-> {1}, hear |-> 1, who |-> {k1, s1},
   max |-> 1, sweep |-> FALSE, stop |-> TRUE],
  \* more frames of ours than the ring and the queue hold
  [send |-> 4, airs |-> {1, 2}, hear |-> 0, who |-> {},
   max |-> 1, sweep |-> FALSE, stop |-> FALSE],
  \* an application that repeats what it hears
  [send |-> 1, airs |-> {1}, hear |-> 2, who |-> {k1},
   max |-> 1, sweep |-> FALSE, stop |-> FALSE],
  \* clients over the limits of the server and of the event loop, and commands
  \* the pacer charges
  [send |-> 2, airs |-> {2}, hear |-> 0, who |-> {k1, k2},
   max |-> 1, sweep |-> FALSE, stop |-> FALSE]}
=============================================================================
