------------------------------- MODULE L2Link -------------------------------
(***************************************************************************)
(* Two tncd stations, each with one connection to the other, over a radio  *)
(* channel that keeps frames in order, may lose any of them, and may be    *)
(* slow: every timer may expire early or late.  Each station's client      *)
(* connects, sends and disconnects as it likes, within named bounds.       *)
(***************************************************************************)
EXTENDS L2

CONSTANTS Stations,       \* the two ends
          Scenes,         \* what the two ends are and do
          MaxDeferred,    \* poll answers waiting on the event loop while a frame runs
          SetupRace,      \* T1 may expire although the peer accepted the SABM
          StaleOpen,      \* a client may reconnect while the old link's traces remain
          EarlyT3         \* T3 may expire while T1 runs

ASSUME LinkAssumption == /\ \E a, b \in Stations : a # b /\ Stations = {a, b}
                         /\ SetupRace \in BOOLEAN /\ StaleOpen \in BOOLEAN /\ EarlyT3 \in BOOLEAN
                         /\ MaxDeferred \in Nat \ {0}

\* A scene gives the port parameters of each end (param), and how often each
\* client connects (opens), disconnects (closes) and sends a chunk (data).
ASSUME SceneAssumption ==
  \A sc \in Scenes : /\ sc.param \in [Stations -> Params]
                     /\ {sc.opens, sc.closes, sc.data} \subseteq [Stations -> Nat]

VARIABLES scene,     \* the scene played, chosen once
          conn,      \* conn[s]: s's connection to its peer
          opens,     \* 'C' requests so far
          closes,    \* 'd' requests so far
          produced,  \* chunks produced so far; chunk k is the number k
          accepted   \* the peer accepted a SABM since the last 'C' request

vars == <<scene, conn, opens, closes, produced, accepted>>

Param == scene.param

Peer(s) == CHOOSE r \in Stations : r # s

Init == /\ scene \in Scenes
        /\ conn = [s \in Stations |-> NewConn]
        /\ opens = [s \in Stations |-> 0]
        /\ closes = [s \in Stations |-> 0]
        /\ produced = [s \in Stations |-> 0]
        /\ accepted = [s \in Stations |-> FALSE]

\* Nothing but connect requests on the air.
OnlySetup(tx) == \A i \in 1 .. Len(tx) : tx[i].type \in {"SABM", "SABME"}

\* No trace of an earlier link: the peer has no connection (or is calling, too).
CleanSlate(s) ==
  /\ conn[s].state = "None"
  /\ conn[Peer(s)].state \in {"None", "Connecting"}
  /\ \A r \in Stations : OnlySetup(conn[r].tx) /\ conn[r].deferred = << >>

AirIdle == \A r \in Stations : conn[r].tx = << >> /\ conn[r].deferred = << >>

\* AGWPE 'C' from the client of s.
Open(s) ==
  /\ opens[s] < scene.opens[s]
  /\ StaleOpen \/ CleanSlate(s)
  /\ opens' = [opens EXCEPT ![s] = @ + 1]
  /\ conn' = [conn EXCEPT ![s] = Connect(Param[s], @)]
  /\ accepted' = [accepted EXCEPT ![s] = FALSE]
  /\ UNCHANGED <<scene, closes, produced>>

\* AGWPE 'D': refused unless the link is up.
Send(s) ==
  /\ conn[s].state = "Connected"
  /\ produced[s] < scene.data[s]
  /\ produced' = [produced EXCEPT ![s] = @ + 1]
  /\ conn' = [conn EXCEPT ![s] = SendData(Param[s], @, produced[s] + 1)]
  /\ UNCHANGED <<scene, opens, closes, accepted>>

\* AGWPE 'd'.
Close(s) ==
  /\ conn[s].state # "None"
  /\ closes[s] < scene.closes[s]
  /\ closes' = [closes EXCEPT ![s] = @ + 1]
  /\ conn' = [conn EXCEPT ![s] = Disconnect(@)]
  /\ UNCHANGED <<scene, opens, produced, accepted>>

\* The frame is for a registered callsign, heard on the connection's port.
Here == [local |-> TRUE, elsewhere |-> "none", room |-> TRUE]

\* The oldest frame from the peer is received.  The event loop is a queue: only
\* frames already queued on it run before an answer deferred earlier.
Receive(s) ==
  LET from == conn[Peer(s)].tx
  IN  /\ from # << >>
      /\ Len(conn[s].deferred) < MaxDeferred
      /\ \E f \in Decodings(conn[s], Head(from)) :
           conn' = [conn EXCEPT ![s] = OnFrame(Here, Param[s], @, f),
                                ![Peer(s)].tx = Tail(@)]
      /\ accepted' = [accepted EXCEPT ![Peer(s)] =
                        @ \/ (Head(from).type \in {"SABM", "SABME"} /\ conn'[s].state = "Connected")]
      /\ UNCHANGED <<scene, opens, closes, produced>>

\* The oldest frame to s is lost.
Lose(s) ==
  /\ conn[s].tx # << >>
  /\ conn' = [conn EXCEPT ![s].tx = Tail(@)]
  /\ UNCHANGED <<scene, opens, closes, produced, accepted>>

T1(s) ==
  /\ conn[s].t1
  /\ \/ SetupRace
     \/ conn[s].state = "Connected"
     \/ AirIdle /\ (conn[s].state = "Connecting" => conn[Peer(s)].state # "Connected")
  /\ conn' = [conn EXCEPT ![s] = T1Expired(Param[s], @)]
  /\ UNCHANGED <<scene, opens, closes, produced, accepted>>

T2(s) ==
  /\ conn[s].t2
  /\ conn' = [conn EXCEPT ![s] = T2Expired(@)]
  /\ UNCHANGED <<scene, opens, closes, produced, accepted>>

T3(s) ==
  /\ conn[s].t3
  /\ EarlyT3 \/ ~conn[s].t1
  /\ conn' = [conn EXCEPT ![s] = T3Expired(@)]
  /\ UNCHANGED <<scene, opens, closes, produced, accepted>>

Deferred(s) ==
  /\ conn[s].deferred # << >>
  /\ conn' = [conn EXCEPT ![s] = RunDeferred(@)]
  /\ UNCHANGED <<scene, opens, closes, produced, accepted>>

Step(s) == Receive(s) \/ T1(s) \/ T2(s) \/ T3(s) \/ Deferred(s)

Next == \E s \in Stations : Step(s) \/ Lose(s) \/ Open(s) \/ Send(s) \/ Close(s)

Spec == Init /\ [][Next]_vars

\* Fairness: a station's event loop keeps running what is queued on it, frames
\* on the air arrive or are lost, and T1 and T3, once armed, expire.
LoopRuns(s) == Receive(s) \/ Lose(Peer(s)) \/ Deferred(s)
Fairness == \A s \in Stations : WF_vars(LoopRuns(s)) /\ WF_vars(T1(s)) /\ WF_vars(T3(s))
FairSpec == Spec /\ Fairness

-----------------------------------------------------------------------------
(* Properties.                                                             *)

\* Every connection record and counter stays in its declared range.
TypeOK == /\ scene \in Scenes
          /\ conn \in [Stations -> Conn]
          /\ opens \in [Stations -> Nat]
          /\ closes \in [Stations -> Nat]
          /\ produced \in [Stations -> Nat]

Up == \A s \in Stations : conn[s].state = "Connected"

\* Chunks of s's client the peer has acknowledged: neither waiting nor unacked.
Acked(s) == Len(conn[s].sent) - Len(conn[s].outQueue) - conn[s].unacked

\* The link as the channel its clients see.
Chan == INSTANCE Channel WITH
          Ends   <- Stations,
          up     <- Up,
          sent   <- [s \in Stations |-> conn[s].sent],
          handed <- [s \in Stations |-> conn[s].dlv],
          acked  <- [s \in Stations |-> Acked(s)]

\* Two linked stations implement a reliable channel: while both are connected,
\* chunks are handed over in order, once each and without gaps, and a chunk the
\* sender dropped from its retransmit buffer was handed to the peer's client,
\* although frames are lost, resent, rejected and answered late.
ImplementsChannel == Chan!Spec

\* Each end's sequence variables, count of unacknowledged frames and retransmit
\* buffer describe one window of at most MaxWindow frames, whatever frames,
\* acknowledgements, resets and timer expiries arrive in whatever order.
WindowInv == \A s \in Stations : WindowOK(Param[s], conn[s])

\* What a client was last told matches its connection: every way a link comes
\* up or goes down notifies the owner exactly once.
ViewAgrees ==
  \A s \in Stations : /\ conn[s].view = "idle" <=> conn[s].state = "None"
                      /\ conn[s].state = "Connected" => conn[s].view = "up"
                      /\ conn[s].state = "Connecting" => conn[s].view = "trying"

\* An I frame brings a calling station up only when the peer accepted a SABM of
\* this call: "UA was lost OTA but remote accepted our SABM" (dispatchI).
\* Does not hold of the code (a known gap in the README).
PromotionMeansAccepted ==
  [][\A s \in Stations :
       /\ conn[s].state = "Connecting" /\ conn'[s].state = "Connected"
       /\ Receive(s) /\ Head(conn[Peer(s)].tx).type = "I"
       => accepted[s]]_vars

\* T1 takes a link down only after N2 enquiries since it came up, or since the
\* peer last acknowledged anything, went unanswered (t1Expired).
\* Does not hold of the code (a known gap in the README).
TimeoutAfterN2Enquiries ==
  [][\A s \in Stations :
       conn[s].state = "Connected" /\ T1(s) /\ conn'[s].state = "None"
         => conn[s].asked >= Param[s].n2]_vars

Backlog(s) == conn[s].state = "Connected" /\ (conn[s].unacked > 0 \/ conn[s].outQueue # << >>)

\* A connected sender never sits on data for ever: either the peer acknowledges
\* all of it or the link is taken down, although the channel may lose everything.
DataSettles == \A s \in Stations : Backlog(s) ~> ~Backlog(s)

\* A call or a hang-up ends: answered, refused or given up after N2 tries.
RequestsEnd == \A s \in Stations : conn[s].state \in {"Connecting", "Disconnecting"}
                                     ~> conn[s].state \in {"Connected", "None"}

\* With T3 enabled, a station whose peer has forgotten the link notices.
HalfOpenEnds == \A s \in Stations :
  Param[s].t3 /\ conn[s].state = "Connected" /\ conn[Peer(s)].state = "None"
    ~> conn[s].state # "Connected" \/ conn[Peer(s)].state # "None"
=============================================================================
