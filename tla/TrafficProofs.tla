---------------------------- MODULE TrafficProofs ---------------------------
(***************************************************************************)
(* The bridge's transmit path implements the pacer of a port, so what      *)
(* PacingProofs shows of the pacer holds of the bridge.                    *)
(***************************************************************************)
EXTENDS Traffic, PacingProofs

\* The scene never changes, and its air times are those of the pacer.
SceneOK == scene \in Scenes

\* Every step of the bridge is a step of the pacer or leaves it alone.
LEMMA StepPaces == ASSUME SceneOK, [Next]_vars PROVE [PacerNext]_pacer
<1>1. CASE UNCHANGED vars
  BY <1>1 DEF vars, pacer
<1>2. CASE OnLoop
  BY <1>2 DEF OnLoop, OnKISSFrame, Add, RunSend, Remove, bus
<1>3. CASE WriterTakes
  <2>1. scene.airs \subseteq Airs
    BY TrafficAssumption DEF SceneOK
  <2>2. QED
    BY <1>3, <2>1 DEF WriterTakes, PacerNext
<1>4. CASE WriterWrites
  BY ZenonT(30), <1>4 DEF WriterWrites, PacerNext
<1>5. CASE TimePasses
  BY <1>5 DEF TimePasses, PacerNext
<1>6. CASE EchoHeard \/ L2Sends \/ FrameHeard \/ SweepIdleClients \/ Close
  BY <1>6 DEF EchoHeard, L2Sends, FrameHeard, SweepIdleClients, Close, bus
<1>7. CASE \E c \in KissClients : Dispatch(c)
  BY <1>7 DEF Dispatch, bus
<1>8. CASE \E c \in Clients : Client(c)
  BY ZenonT(30), <1>8 DEF Client, Connect, Subscribe, Asks, WriterSends, WriterEnds, ReaderEnds,
        Leave, SubscriberLeaves, bus
<1>9. QED
  BY <1>1, <1>2, <1>3, <1>4, <1>5, <1>6, <1>7, <1>8 DEF Next, Port

\* No action changes the scene.
LEMMA SceneKept == ASSUME SceneOK, [Next]_vars PROVE SceneOK'
BY ZenonT(30) DEF SceneOK, Next, vars, OnLoop, OnKISSFrame, Add, RunSend, Remove, Port, WriterTakes,
       WriterWrites, TimePasses, EchoHeard, L2Sends, FrameHeard, SweepIdleClients, Close,
       Dispatch, Client, Connect, Subscribe, Asks, WriterSends, WriterEnds, ReaderEnds, Leave,
       SubscriberLeaves, bus

\* The transmit path of the bridge (SendToKISS, txCh, writerLoop and the TNC)
\* implements the specification of the pacer.
THEOREM TrafficImplementsPacer == Spec => PacerSpec
<1>1. Init => PacerInit /\ SceneOK
  BY DEF Init, SceneOK
<1>2. QED
  BY <1>1, StepPaces, SceneKept, PTL DEF Spec, PacerSpec

\* Whatever clients and L2 queue, the TNC never has more than MaxLead and two
\* frames to transmit.
THEOREM TrafficBoundsBacklog == Spec => []BacklogBounded
BY TrafficImplementsPacer, PacingBoundsBacklog

\* Whatever clients and L2 queue, pacing starves the TNC only after a command.
THEOREM TrafficNeverStarves == Spec => []StarvedOnlyByCommands
BY TrafficImplementsPacer, PacingNeverStarves
=============================================================================
