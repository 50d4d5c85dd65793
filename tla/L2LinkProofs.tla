---------------------------- MODULE L2LinkProofs ----------------------------
(***************************************************************************)
(* The window invariant of two linked stations, for every pair of port     *)
(* configurations, every modulus and every number of requests.             *)
(***************************************************************************)
EXTENDS L2Link, L2RxProofs

\* The inductive invariant: a station's window depends on nothing but its own
\* record, and the frames it receives are typed because the peer's tx is.
Inv == TypeOK /\ WindowInv

\* The peer of a station is the other station, and a station.
LEMMA PeerFacts ==
  ASSUME NEW s \in Stations
  PROVE  Peer(s) \in Stations /\ Peer(s) # s
<1>1. \E r \in Stations : r # s
  BY LinkAssumption
<1>2. QED
  BY <1>1 DEF Peer

\* An action that replaces s's record by a good one.
LEMMA OneStation ==
  ASSUME Inv, NEW s \in Stations, NEW d, Good(Param[s], d),
         scene' = scene, conn' = [conn EXCEPT ![s] = d],
         opens' \in [Stations -> Nat], closes' \in [Stations -> Nat],
         produced' \in [Stations -> Nat]
  PROVE  Inv'
<1>1. conn \in [Stations -> Conn] /\ d \in Conn
  BY DEF Inv, TypeOK, Good
<1>2. conn' \in [Stations -> Conn]
  BY <1>1
<1>3. \A r \in Stations : WindowOK(Param[r], conn'[r])
  BY <1>1 DEF Inv, WindowInv, Good
<1>4. Param' = Param
  BY DEF Param
<1>5. QED
  BY <1>2, <1>3, <1>4 DEF Inv, TypeOK, WindowInv

\* Taking a frame off the air leaves the sender's window alone.
LEMMA TailGood ==
  ASSUME NEW p \in Params, NEW c, Good(p, c), c.tx # << >>
  PROVE  Good(p, [c EXCEPT !.tx = Tail(c.tx)])
<1>1. c \in Conn /\ Tail(c.tx) \in Seq(Frame)
  BY DEF Good, Conn
<1>2. /\ [c EXCEPT !.tx = Tail(c.tx)] \in Conn
      /\ SameLink(c, [c EXCEPT !.tx = Tail(c.tx)])
  BY ZenonT(60), <1>1 DEF Conn, SameLink
<1>3. QED
  BY <1>2, SameLinkGood

\* Two new stations with empty channels satisfy the invariant.
LEMMA InitInv == Init => Inv
<1> SUFFICES ASSUME Init PROVE Inv
  OBVIOUS
<1>1. NewConn \in Conn /\ \A s \in Stations : Good(Param[s], NewConn)
  <2>1. /\ NewConn.sendSeq = 0 /\ NewConn.recvSeq = 0 /\ NewConn.lastAcked = 0
        /\ NewConn.unacked = 0 /\ NewConn.outQueue = << >>
        /\ NewConn.retransmitBuf = [n \in SeqNo |-> None]
    BY DEF NewConn
  <2>2. \A s \in Stations : Param[s] \in Params
    BY SceneAssumption DEF Init, Param
  <2>3. QED
    BY <2>1, <2>2, NewConnType, FreshGood
<1>2. TypeOK
  BY <1>1 DEF Init, TypeOK
<1>3. WindowInv
  BY <1>1 DEF Init, WindowInv, Good
<1>4. QED
  BY <1>2, <1>3 DEF Inv

\* Every action preserves the invariant: one step per action of Next.
LEMMA NextInv == Inv /\ [Next]_vars => Inv'
<1> SUFFICES ASSUME Inv, [Next]_vars PROVE Inv'
  OBVIOUS
<1>1. /\ conn \in [Stations -> Conn] /\ opens \in [Stations -> Nat]
      /\ closes \in [Stations -> Nat] /\ produced \in [Stations -> Nat]
      /\ \A s \in Stations : Param[s] \in Params /\ Good(Param[s], conn[s])
  BY SceneAssumption DEF Inv, TypeOK, WindowInv, Good, Param
<1>2. ASSUME NEW s \in Stations, Open(s) PROVE Inv'
  <2>1. Good(Param[s], Connect(Param[s], conn[s]))
    BY <1>1, ConnectGood
  <2>2. conn' = [conn EXCEPT ![s] = Connect(Param[s], conn[s])]
    BY <1>2 DEF Open
  <2>3. /\ scene' = scene /\ opens' \in [Stations -> Nat]
        /\ closes' \in [Stations -> Nat] /\ produced' \in [Stations -> Nat]
    BY <1>1, <1>2 DEF Open
  <2>4. QED
    BY ZenonT(30), <2>1, <2>2, <2>3, OneStation
<1>3. ASSUME NEW s \in Stations, Send(s) PROVE Inv'
  <2>1. Good(Param[s], SendData(Param[s], conn[s], produced[s] + 1))
    <3>1. produced[s] + 1 \in Data
      BY <1>1 DEF Data, None
    <3>2. QED
      BY <1>1, <1>3, <3>1, SendDataGood DEF Send
  <2>2. conn' = [conn EXCEPT ![s] = SendData(Param[s], conn[s], produced[s] + 1)]
    BY <1>3 DEF Send
  <2>3. /\ scene' = scene /\ opens' \in [Stations -> Nat]
        /\ closes' \in [Stations -> Nat] /\ produced' \in [Stations -> Nat]
    BY <1>1, <1>3 DEF Send
  <2>4. QED
    BY ZenonT(30), <2>1, <2>2, <2>3, OneStation
<1>4. ASSUME NEW s \in Stations, Close(s) PROVE Inv'
  <2>1. Good(Param[s], Disconnect(conn[s]))
    BY <1>1, DisconnectGood
  <2>2. conn' = [conn EXCEPT ![s] = Disconnect(conn[s])]
    BY <1>4 DEF Close
  <2>3. /\ scene' = scene /\ opens' \in [Stations -> Nat]
        /\ closes' \in [Stations -> Nat] /\ produced' \in [Stations -> Nat]
    BY <1>1, <1>4 DEF Close
  <2>4. QED
    BY ZenonT(30), <2>1, <2>2, <2>3, OneStation
<1>5. ASSUME NEW s \in Stations, Receive(s) PROVE Inv'
  <2> DEFINE r == Peer(s)
             air == conn[r].tx
  <2>1. r \in Stations /\ r # s
    BY PeerFacts
  <2>2. air \in Seq(Frame) /\ air # << >>
    BY <1>1, <1>5, <2>1 DEF Conn, Receive
  <2>3. Head(air) \in Frame
    BY <2>2
  <2>4. PICK f \in Decodings(conn[s], Head(air)) :
          conn' = [conn EXCEPT ![s] = OnFrame(Here, Param[s], @, f), ![r].tx = Tail(@)]
    BY ZenonT(30), <1>5 DEF Receive
  <2> DEFINE d == OnFrame(Here, Param[s], conn[s], f)
             t == [conn[r] EXCEPT !.tx = Tail(air)]
             half == [conn EXCEPT ![s] = d]
  <2>5. Received(conn[s], f)
    BY <1>1, <2>3, DecodingsReceived
  <2>6. Good(Param[s], d)
    BY <1>1, <2>5, OnFrameGood
  <2>7. Good(Param[r], t)
    BY <1>1, <2>1, <2>2, TailGood
  <2>8. conn' = [half EXCEPT ![r] = t]
    BY <1>1, <2>1, <2>4
  <2> HIDE DEF d, t, r, air
  <2>9. conn' \in [Stations -> Conn] /\ conn'[s] = d /\ conn'[r] = t
        /\ \A q \in Stations : q # s /\ q # r => conn'[q] = conn[q]
    BY SMTT(30), <1>1, <2>1, <2>6, <2>7, <2>8 DEF Good
  <2>10. \A q \in Stations : WindowOK(Param[q], conn'[q])
    BY <1>1, <2>1, <2>6, <2>7, <2>9 DEF Good
  <2>11. scene' = scene /\ opens' = opens /\ closes' = closes /\ produced' = produced
    BY <1>5 DEF Receive
  <2>12. Param' = Param
    BY <2>11 DEF Param
  <2>13. QED
    BY <1>1, <2>9, <2>10, <2>11, <2>12 DEF Inv, TypeOK, WindowInv
<1>6. ASSUME NEW s \in Stations, Lose(s) PROVE Inv'
  <2>1. Good(Param[s], [conn[s] EXCEPT !.tx = Tail(conn[s].tx)])
    BY <1>1, <1>6, TailGood DEF Lose
  <2>2. conn' = [conn EXCEPT ![s] = [conn[s] EXCEPT !.tx = Tail(conn[s].tx)]]
    BY <1>6 DEF Lose
  <2>3. /\ scene' = scene /\ opens' \in [Stations -> Nat]
        /\ closes' \in [Stations -> Nat] /\ produced' \in [Stations -> Nat]
    BY <1>1, <1>6 DEF Lose
  <2>4. QED
    BY ZenonT(30), <2>1, <2>2, <2>3, OneStation
<1>7. ASSUME NEW s \in Stations, T1(s) PROVE Inv'
  <2>1. Good(Param[s], T1Expired(Param[s], conn[s]))
    BY <1>1, T1Good
  <2>2. conn' = [conn EXCEPT ![s] = T1Expired(Param[s], conn[s])]
    BY <1>7 DEF T1
  <2>3. /\ scene' = scene /\ opens' \in [Stations -> Nat]
        /\ closes' \in [Stations -> Nat] /\ produced' \in [Stations -> Nat]
    BY <1>1, <1>7 DEF T1
  <2>4. QED
    BY ZenonT(30), <2>1, <2>2, <2>3, OneStation
<1>8. ASSUME NEW s \in Stations, T2(s) PROVE Inv'
  <2>1. Good(Param[s], T2Expired(conn[s]))
    BY <1>1, T2T3Good
  <2>2. conn' = [conn EXCEPT ![s] = T2Expired(conn[s])]
    BY <1>8 DEF T2
  <2>3. /\ scene' = scene /\ opens' \in [Stations -> Nat]
        /\ closes' \in [Stations -> Nat] /\ produced' \in [Stations -> Nat]
    BY <1>1, <1>8 DEF T2
  <2>4. QED
    BY ZenonT(30), <2>1, <2>2, <2>3, OneStation
<1>9. ASSUME NEW s \in Stations, T3(s) PROVE Inv'
  <2>1. Good(Param[s], T3Expired(conn[s]))
    BY <1>1, T2T3Good
  <2>2. conn' = [conn EXCEPT ![s] = T3Expired(conn[s])]
    BY <1>9 DEF T3
  <2>3. /\ scene' = scene /\ opens' \in [Stations -> Nat]
        /\ closes' \in [Stations -> Nat] /\ produced' \in [Stations -> Nat]
    BY SMTT(30), <1>1, <1>9 DEF T3
  <2>4. QED
    BY ZenonT(30), <2>1, <2>2, <2>3, OneStation
<1>10. ASSUME NEW s \in Stations, Deferred(s) PROVE Inv'
  <2>1. Good(Param[s], RunDeferred(conn[s]))
    BY <1>1, <1>10, RunDeferredGood DEF Deferred
  <2>2. conn' = [conn EXCEPT ![s] = RunDeferred(conn[s])]
    BY <1>10 DEF Deferred
  <2>3. /\ scene' = scene /\ opens' \in [Stations -> Nat]
        /\ closes' \in [Stations -> Nat] /\ produced' \in [Stations -> Nat]
    BY <1>1, <1>10 DEF Deferred
  <2>4. QED
    BY ZenonT(30), <2>1, <2>2, <2>3, OneStation
<1>11. CASE UNCHANGED vars
  BY <1>11 DEF vars, Inv, TypeOK, WindowInv, Param
<1>12. QED
  BY <1>2, <1>3, <1>4, <1>5, <1>6, <1>7, <1>8, <1>9, <1>10, <1>11 DEF Next, Step

\* Every reachable state of the link satisfies the inductive invariant:
\* types and windows hold together, whatever is lost or expires (l2.go).
THEOREM InvHolds == Spec => []Inv
  BY InitInv, NextInv, PTL DEF Spec

\* Both stations' records stay well typed, whatever frames are lost, delayed or
\* misread and whichever timers expire: no handler of l2.go leaves a field out
\* of its range.
THEOREM TypeCorrect == Spec => []TypeOK
<1>1. Inv => TypeOK
  BY DEF Inv
<1>2. QED
  BY <1>1, InvHolds, PTL

\* The window of each station is consistent in every reachable state, for
\* every MaxWindow below the modulus: unackedCount is V(S) - V(A), never above
\* MaxWindow, and retransmitBuf holds exactly the frames between them.
THEOREM WindowCorrect == Spec => []WindowInv
<1>1. Inv => WindowInv
  BY DEF Inv
<1>2. QED
  BY <1>1, InvHolds, PTL
=============================================================================
