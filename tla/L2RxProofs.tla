----------------------------- MODULE L2RxProofs -----------------------------
(***************************************************************************)
(* Received frames keep a connection well typed and its window consistent. *)
(***************************************************************************)
EXTENDS L2Proofs

\* A frame as OnKISSFrame hands it on: an I or S frame decoded at the link's
\* modulus acknowledges a sequence number of that modulus.
Received(c, f) == /\ f \in FrameFields
                  /\ f.type \notin UFrames => f.nr < c.modulo

\* What a received frame's fields may be.
LEMMA ReceivedFacts ==
  ASSUME NEW p \in Params, NEW c, Good(p, c), NEW f, Received(c, f)
  PROVE  /\ c \in Conn /\ f.pf \in BOOLEAN /\ f.info \in Info
         /\ f.type \notin UFrames => f.nr \in 0 .. c.modulo - 1
         /\ f.nr \in SeqNo /\ f.ns \in SeqNo
<1>1. f.pf \in BOOLEAN /\ f.info \in Info /\ f.nr \in SeqNo /\ f.ns \in SeqNo
  BY DEF Received, FrameFields
<1>2. c \in Conn /\ c.modulo \in Nat \ {0} /\ c.modulo <= Mod128
  BY GoodFacts
<1>3. \A n \in SeqNo : n < c.modulo => n \in 0 .. c.modulo - 1
  BY <1>2, ModFacts DEF SeqNo
<1>4. QED
  BY <1>1, <1>2, <1>3 DEF Received

\* Sending a U frame keeps a connection good.
LEMMA EmitUGood ==
  ASSUME NEW p \in Params, NEW c, Good(p, c), NEW t \in UFrames,
         NEW cmd \in BOOLEAN, NEW pf \in BOOLEAN
  PROVE  Emit(c, <<U(c, t, cmd, pf)>>) \in Conn /\ Good(p, Emit(c, <<U(c, t, cmd, pf)>>))
<1>1. c \in Conn
  BY DEF Good
<1>2. QED
  BY <1>1, UType, EmitOne, SameLinkGood

\* Accepting a SABM or SABME (the reset in dispatchSABM) yields a good connection.
LEMMA AcceptGood ==
  ASSUME NEW p \in Params, NEW e, NEW c, Good(p, c), NEW f, Received(c, f),
         NEW m \in {Mod8, Mod128}
  PROVE  Good(p, Accept(e, c, f, m))
<1> DEFINE x == Emit(c, <<U(c, "UA", FALSE, f.pf)>>)
           y == [x EXCEPT !.state = "Connected", !.modulo = m]
           r == ResetSeqs(y)
           t == CancelTimers(r)
           z == TellConnected(t)
           dm == Emit(c, <<U(c, "DM", FALSE, f.pf)>>)
<1>1. f.pf \in BOOLEAN /\ "UA" \in UFrames /\ "DM" \in UFrames
  BY ReceivedFacts DEF UFrames
<1>2. x \in Conn /\ Good(p, dm)
  BY ZenonT(30), <1>1, EmitUGood
<1>3. Accept(e, c, f, m) = IF c.state = "None" /\ ~e.room THEN dm ELSE z
  BY DEF Accept
<1> HIDE DEF x, dm
<1>4. y \in Conn
  BY ZenonT(60), <1>2 DEF Conn
<1> HIDE DEF y
<1>5. r \in Conn /\ Good(p, r)
  <2>1. /\ r \in Conn /\ r.sendSeq = 0 /\ r.recvSeq = 0 /\ r.lastAcked = 0 /\ r.unacked = 0
        /\ r.outQueue = << >> /\ r.retransmitBuf = [n \in SeqNo |-> None]
    BY <1>4, ResetType
  <2>2. QED
    BY <2>1, FreshGood
<1> HIDE DEF r
<1>6. t \in Conn /\ SameLink(r, t)
  BY <1>5, TellTypes
<1> HIDE DEF t
<1>7. z \in Conn /\ SameLink(t, z)
  BY <1>6, TellTypes
<1> HIDE DEF z
<1>8. Good(p, z)
  BY <1>5, <1>6, <1>7, SameLinkTrans, SameLinkGood
<1>9. QED
  BY <1>2, <1>3, <1>8

\* dispatchSABM and dispatchSABME keep a connection good.
LEMMA DispatchSABMGood ==
  ASSUME NEW p \in Params, NEW e, NEW c, Good(p, c), NEW f, Received(c, f)
  PROVE  Good(p, DispatchSABM(e, p, c, f)) /\ Good(p, DispatchSABME(e, p, c, f))
<1>1. Good(p, Accept(e, c, f, Mod8)) /\ Good(p, Accept(e, c, f, Mod128))
  BY AcceptGood
<1>2. "DM" \in UFrames
  BY DEF UFrames
<1>3. Good(p, Emit(c, <<U(c, "DM", FALSE, TRUE)>>))
  BY ZenonT(30), <1>2, EmitUGood
<1>4. QED
  BY <1>1, <1>3 DEF DispatchSABM, DispatchSABME

\* fallbackToSABM keeps a connection good: its window is empty while Connecting.
LEMMA FallbackGood ==
  ASSUME NEW p \in Params, NEW c, Good(p, c), c.state = "Connecting"
  PROVE  Good(p, FallbackToSABM(c))
<1> DEFINE d == [c EXCEPT !.modulo = Mod8, !.triedFallback = TRUE, !.t1 = TRUE]
<1>1. c \in Conn
  BY DEF Good
<1>2. /\ d \in Conn
      /\ d.sendSeq = c.sendSeq /\ d.recvSeq = c.recvSeq /\ d.lastAcked = c.lastAcked
      /\ d.unacked = c.unacked /\ d.outQueue = c.outQueue
      /\ d.retransmitBuf = c.retransmitBuf
  BY ZenonT(60), <1>1 DEF Conn
<1>3. FallbackToSABM(c) = SendSABM(d)
  BY DEF FallbackToSABM
<1> HIDE DEF d
<1>4. Good(p, d)
  BY <1>2, ModuloGood
<1>5. QED
  BY ZenonT(30), <1>2, <1>3, <1>4, SendTypes, SameLinkGood

\* Telling the owner and removing the connection leaves a good (empty) one.
LEMMA TellRemoveGood ==
  ASSUME NEW p \in Params, NEW c \in Conn PROVE Good(p, Remove(TellDown(c)))
  BY TellTypes, RemoveType

\* Dropping a pending XID (dispatchDM, dispatchFRMR) keeps a connection good.
LEMMA WithoutXIDGood ==
  ASSUME NEW p \in Params, NEW c, Good(p, c) PROVE Good(p, WithoutXID(c))
<1>1. c \in Conn
  BY DEF Good
<1>2. WithoutXID(c) \in Conn /\ SameLink(c, WithoutXID(c))
  BY ZenonT(60), <1>1 DEF Conn, SameLink, WithoutXID
<1>3. QED
  BY <1>2, SameLinkGood

\* UA, or an I frame while Connecting, brings the link up with V(S) = V(R) = 0,
\* which they were.
LEMMA BringUpGood ==
  ASSUME NEW p \in Params, NEW c, Good(p, c), c.state = "Connecting"
  PROVE  LET up == [c EXCEPT !.state = "Connected", !.t1 = FALSE, !.sendSeq = 0,
                             !.recvSeq = 0, !.t1Polls = 0]
         IN  /\ TellConnected(up) \in Conn /\ Good(p, TellConnected(up))
             /\ TellConnected(up).modulo = c.modulo
             /\ TellConnected(up).state = "Connected"
<1> DEFINE up == [c EXCEPT !.state = "Connected", !.t1 = FALSE, !.sendSeq = 0,
                           !.recvSeq = 0, !.t1Polls = 0]
<1>1. c \in Conn /\ c.sendSeq = 0 /\ c.recvSeq = 0
  BY DEF Good, WindowOK
<1>2. /\ up \in Conn /\ up.state = "Connected" /\ up.modulo = c.modulo
      /\ up.sendSeq = c.sendSeq /\ up.recvSeq = c.recvSeq /\ up.lastAcked = c.lastAcked
      /\ up.unacked = c.unacked /\ up.outQueue = c.outQueue
      /\ up.retransmitBuf = c.retransmitBuf
  BY ZenonT(60), <1>1, ConstantTypes DEF Conn
<1> HIDE DEF up
<1>3. Good(p, up)
  BY <1>2 DEF Good, WindowOK, Ahead
<1>4. TellConnected(up) \in Conn /\ SameLink(up, TellConnected(up))
  BY <1>2, TellTypes
<1>5. /\ TellConnected(up) \in Conn /\ Good(p, TellConnected(up))
      /\ TellConnected(up).modulo = c.modulo /\ TellConnected(up).state = "Connected"
  BY <1>2, <1>3, <1>4, SameLinkGood DEF SameLink
<1>6. QED
  BY <1>5 DEF up

\* Sending an XID frame keeps a connection good.
LEMMA EmitXIDGood ==
  ASSUME NEW p \in Params, NEW c, Good(p, c), NEW cmd \in BOOLEAN, NEW i \in {0, 1},
         NEW fr, fr = [U(c, "XID", cmd, TRUE) EXCEPT !.info = i]
  PROVE  Emit(c, <<fr>>) \in Conn /\ SameLink(c, Emit(c, <<fr>>))
<1> DEFINE u == U(c, "XID", cmd, TRUE)
<1>1. c \in Conn /\ "XID" \in UFrames /\ i \in Info
  BY DEF Good, UFrames, Info
<1>2. u \in Frame
  BY ZenonT(30), <1>1, UType
<1> HIDE DEF u
<1>3. [u EXCEPT !.info = i] \in Frame
  BY <1>1, <1>2 DEF Frame, FrameFields
<1>4. QED
  BY ZenonT(30), <1>1, <1>3, EmitOne DEF u

\* dispatchUA keeps a connection good.
LEMMA DispatchUAGood ==
  ASSUME NEW p \in Params, NEW e, NEW c, Good(p, c), NEW f
  PROVE  Good(p, DispatchUA(e, p, c, f))
<1> DEFINE up == TellConnected([c EXCEPT !.state = "Connected", !.t1 = FALSE, !.sendSeq = 0,
                                         !.recvSeq = 0, !.t1Polls = 0])
           fr == [U(up, "XID", TRUE, TRUE) EXCEPT !.info = 1]
           x == Emit(up, <<fr>>)
<1>1. DispatchUA(e, p, c, f) =
        CASE c.state = "Connecting" ->
               IF p.srej /\ c.modulo = Mod128 THEN SendXIDCommand(up) ELSE up
          [] c.state = "Disconnecting" -> Remove(TellDown(c))
          [] OTHER -> c
  BY DEF DispatchUA
<1>2. CASE c.state = "Connecting"
  <2>1. Good(p, up)
    BY ZenonT(30), <1>2, BringUpGood
  <2>2. SendXIDCommand(up) = [x EXCEPT !.xidPending = TRUE]
    BY DEF SendXIDCommand
  <2> HIDE DEF up
  <2>3. x \in Conn /\ SameLink(up, x)
    BY ZenonT(30), <2>1, EmitXIDGood
  <2> HIDE DEF x
  <2>4. [x EXCEPT !.xidPending = TRUE] \in Conn /\ SameLink(x, [x EXCEPT !.xidPending = TRUE])
    BY ZenonT(60), <2>3 DEF Conn, SameLink
  <2>5. SameLink(up, [x EXCEPT !.xidPending = TRUE])
    BY <2>3, <2>4, SameLinkTrans
  <2>6. Good(p, SendXIDCommand(up))
    BY <2>1, <2>2, <2>4, <2>5, SameLinkGood
  <2>7. QED
    BY <1>1, <1>2, <2>1, <2>6
<1>3. CASE c.state = "Disconnecting"
  <2>1. c \in Conn
    BY DEF Good
  <2>2. DispatchUA(e, p, c, f) = Remove(TellDown(c))
    BY <1>1, <1>3
  <2>3. QED
    BY <2>1, <2>2, TellRemoveGood
<1>4. CASE c.state # "Connecting" /\ c.state # "Disconnecting"
  BY <1>1, <1>4
<1>5. QED
  BY <1>2, <1>3, <1>4

\* dispatchDM keeps a connection good.
LEMMA DispatchDMGood ==
  ASSUME NEW p \in Params, NEW e, NEW c, Good(p, c), NEW f
  PROVE  Good(p, DispatchDM(e, p, c, f))
<1>1. c \in Conn
  BY DEF Good
<1>2. CanFallBack(c) => Good(p, FallbackToSABM(c))
  BY FallbackGood DEF CanFallBack
<1>3. Good(p, WithoutXID(c)) /\ Good(p, Remove(TellDown(c)))
  BY <1>1, WithoutXIDGood, TellRemoveGood
<1>4. QED
  BY <1>2, <1>3 DEF DispatchDM

\* dispatchDISC keeps a connection good.
LEMMA DispatchDISCGood ==
  ASSUME NEW p \in Params, NEW e, NEW c, Good(p, c), NEW f, Received(c, f)
  PROVE  Good(p, DispatchDISC(e, p, c, f))
<1>1. f.pf \in BOOLEAN /\ "UA" \in UFrames /\ "DM" \in UFrames
  BY ReceivedFacts DEF UFrames
<1>2. Good(p, Emit(c, <<U(c, "DM", FALSE, f.pf)>>)) /\ Emit(c, <<U(c, "UA", FALSE, f.pf)>>) \in Conn
  BY ZenonT(30), <1>1, EmitUGood
<1>3. Good(p, Remove(TellDown(Emit(c, <<U(c, "UA", FALSE, f.pf)>>))))
  BY <1>2, TellRemoveGood
<1>4. QED
  BY <1>2, <1>3 DEF DispatchDISC

\* dispatchFRMR keeps a connection good: the reset empties the window.
LEMMA DispatchFRMRGood ==
  ASSUME NEW p \in Params, NEW e, NEW c, Good(p, c), NEW f
  PROVE  Good(p, DispatchFRMR(e, p, c, f))
<1> DEFINE r == ResetSeqs(c)
           t == CancelTimers(r)
           s == SendSABM(t)
           x == [s EXCEPT !.state = "Connecting", !.remoteBusy = c.remoteBusy,
                          !.t1Polls = 0, !.triedFallback = FALSE, !.t1 = TRUE]
<1>1. c \in Conn /\ c.remoteBusy \in BOOLEAN
  BY DEF Good, Conn
<1>2. /\ r \in Conn /\ r.sendSeq = 0 /\ r.recvSeq = 0 /\ r.lastAcked = 0 /\ r.unacked = 0
      /\ r.outQueue = << >> /\ r.retransmitBuf = [n \in SeqNo |-> None]
  BY <1>1, ResetType
<1>3. DispatchFRMR(e, p, c, f) =
        IF CanFallBack(c) THEN FallbackToSABM(c)
        ELSE IF XIDRefused(c) THEN WithoutXID(c)
        ELSE IF c.state # "Connected" THEN c ELSE x
  BY DEF DispatchFRMR
<1> HIDE DEF r
<1>4. t \in Conn /\ SameLink(r, t)
  BY <1>2, TellTypes
<1> HIDE DEF t
<1>5. s \in Conn /\ SameLink(t, s)
  BY ZenonT(30), <1>4, SendTypes
<1> HIDE DEF s
<1>6. /\ x \in Conn /\ x.sendSeq = s.sendSeq /\ x.recvSeq = s.recvSeq
      /\ x.lastAcked = s.lastAcked /\ x.unacked = s.unacked
      /\ x.outQueue = s.outQueue /\ x.retransmitBuf = s.retransmitBuf
  BY ZenonT(120), <1>1, <1>5 DEF Conn
<1> HIDE DEF x
<1>7. Good(p, x)
  <2>1. /\ x.sendSeq = 0 /\ x.recvSeq = 0 /\ x.lastAcked = 0 /\ x.unacked = 0
        /\ x.outQueue = << >> /\ x.retransmitBuf = [n \in SeqNo |-> None]
    BY <1>2, <1>4, <1>5, <1>6 DEF SameLink
  <2>2. QED
    BY <1>6, <2>1, FreshGood
<1>8. CanFallBack(c) => Good(p, FallbackToSABM(c))
  BY FallbackGood DEF CanFallBack
<1>9. Good(p, WithoutXID(c))
  BY WithoutXIDGood
<1>10. QED
  BY <1>3, <1>7, <1>8, <1>9

\* dispatchXID keeps a connection good.
LEMMA DispatchXIDGood ==
  ASSUME NEW p \in Params, NEW e, NEW c, Good(p, c), NEW f
  PROVE  Good(p, DispatchXID(e, p, c, f))
<1> DEFINE agreed == p.srej /\ c.modulo = Mod128 /\ f.info = 1
           i == IF agreed THEN 1 ELSE 0
           answer == [U(c, "XID", FALSE, TRUE) EXCEPT !.info = i]
           x == Emit(c, <<answer>>)
           a == [c EXCEPT !.xidPending = FALSE, !.srejEnabled = agreed]
           b == [x EXCEPT !.srejEnabled = agreed]
<1>1. c \in Conn
  BY DEF Good
<1>2. DispatchXID(e, p, c, f) =
        IF ~e.local \/ c.state = "None" THEN c
        ELSE IF ~f.cmd THEN IF c.state = "Connected" THEN a ELSE c
        ELSE IF f.pf THEN b ELSE c
  BY DEF DispatchXID
<1>3. agreed \in BOOLEAN /\ i \in {0, 1}
  BY DEF Params
<1> HIDE DEF agreed, i
<1>4. a \in Conn /\ SameLink(c, a)
  BY ZenonT(60), <1>1, <1>3 DEF Conn, SameLink
<1>5. x \in Conn /\ SameLink(c, x)
  BY ZenonT(30), <1>3, EmitXIDGood
<1> HIDE DEF x, a
<1>6. b \in Conn /\ SameLink(x, b)
  BY ZenonT(60), <1>3, <1>5 DEF Conn, SameLink
<1> HIDE DEF b
<1>7. Good(p, a) /\ Good(p, b)
  BY <1>4, <1>5, <1>6, SameLinkTrans, SameLinkGood
<1>8. QED
  BY <1>2, <1>7

-----------------------------------------------------------------------------
(* I frames.                                                               *)

\* V(R) of a connected link may move.
LEMMA RecvGood ==
  ASSUME NEW p \in Params, NEW c, Good(p, c), c.state = "Connected", NEW d \in Conn,
         d.state = c.state, d.modulo = c.modulo, d.sendSeq = c.sendSeq,
         d.lastAcked = c.lastAcked, d.unacked = c.unacked,
         d.retransmitBuf = c.retransmitBuf, d.recvSeq < d.modulo
  PROVE  Good(p, d)
  BY DEF Good, WindowOK, Ahead

\* Answering an I frame (RR now or T2) keeps a connection good.
LEMMA AnswerGood ==
  ASSUME NEW p \in Params, NEW c, Good(p, c), NEW f, f.pf \in BOOLEAN
  PROVE  Good(p, Answer(c, f))
<1> DEFINE x == [c EXCEPT !.t2 = FALSE]
           y == [c EXCEPT !.t2 = TRUE]
<1>1. c \in Conn
  BY DEF Good
<1>2. x \in Conn /\ SameLink(c, x) /\ y \in Conn /\ SameLink(c, y)
  BY ZenonT(60), <1>1 DEF Conn, SameLink
<1>3. Answer(c, f) = IF f.pf THEN SendRR(x, TRUE) ELSE y
  BY DEF Answer
<1> HIDE DEF x, y
<1>4. Good(p, x) /\ Good(p, y)
  BY <1>2, SameLinkGood
<1>5. SendRR(x, TRUE) \in Conn /\ SameLink(x, SendRR(x, TRUE))
  BY ZenonT(30), <1>2, SendTypes
<1>6. Good(p, SendRR(x, TRUE))
  BY ZenonT(30), <1>4, <1>5, SameLinkGood
<1>7. QED
  BY ZenonT(30), <1>3, <1>4, <1>6

\* The promotion at the head of dispatchI keeps a connection good.
LEMMA PromoteGood ==
  ASSUME NEW p \in Params, NEW c, Good(p, c)
  PROVE  Good(p, Promote(c)) /\ Promote(c).modulo = c.modulo
<1> DEFINE up == [c EXCEPT !.state = "Connected", !.t1 = FALSE, !.sendSeq = 0,
                           !.recvSeq = 0, !.t1Polls = 0]
<1>1. Promote(c) = IF c.state = "Connecting" THEN TellConnected(up) ELSE c
  BY DEF Promote
<1>2. QED
  BY ZenonT(30), <1>1, BringUpGood

\* sendSREJHoles keeps a connection good.
LEMMA HolesGood ==
  ASSUME NEW p \in Params, NEW c, Good(p, c), NEW upto \in SeqNo
  PROVE  Good(p, SendSREJHoles(c, upto))
<1> DEFINE Missing(n) == c.rxBuf[n] = None /\ n \notin c.srejSent
           Ask(i) == S(c, "SREJ", FALSE, i = 0, Plus(c, c.recvSeq, i))
           Due(i) == i < Ahead(c, upto, c.recvSeq) /\ Missing(Plus(c, c.recvSeq, i))
           asks == [i \in Turns |-> IF Due(i) THEN <<Ask(i)>> ELSE << >>]
           asked == {n \in SeqNo : /\ n < c.modulo
                                   /\ Ahead(c, n, c.recvSeq) < Ahead(c, upto, c.recvSeq)
                                   /\ Missing(n)}
           x == Emit(c, Loop(asks))
           y == [x EXCEPT !.srejSent = x.srejSent \cup asked]
<1>1. c \in Conn /\ c.recvSeq \in Int /\ "SREJ" \in SFrames
  BY GoodFacts DEF SFrames
<1>2. asks \in [Turns -> Seq(Frame)]
  <2>1. ASSUME NEW i \in Turns
        PROVE  Ask(i) \in Frame
    <3>1. Plus(c, c.recvSeq, i) \in SeqNo
      BY <1>1, PlusType DEF Turns
    <3>2. QED
      BY ZenonT(30), <1>1, <3>1, SType
  <2> HIDE DEF Ask, Due
  <2>2. QED
    BY <2>1
<1>3. SendSREJHoles(c, upto) = y
  BY DEF SendSREJHoles
<1>4. asked \subseteq SeqNo
  OBVIOUS
<1> HIDE DEF asks, asked
<1>5. x \in Conn /\ SameLink(c, x)
  BY <1>1, <1>2, LoopType, EmitType
<1> HIDE DEF x
<1>6. y \in Conn /\ SameLink(x, y)
  <2>1. x.srejSent \cup asked \in SUBSET SeqNo
    BY <1>4, <1>5 DEF Conn
  <2>2. QED
    BY ZenonT(60), <1>5, <2>1 DEF Conn, SameLink
<1> HIDE DEF y
<1>7. SameLink(c, y)
  BY <1>5, <1>6, SameLinkTrans
<1>8. QED
  BY <1>3, <1>6, <1>7, SameLinkGood

\* Delivering a run of buffered frames keeps a connection good.
LEMMA DeliverRunGood ==
  ASSUME NEW p \in Params, NEW c, Good(p, c), c.state = "Connected", NEW f, Received(c, f)
  PROVE  Good(p, DeliverRun(c, f))
<1> DEFINE following == [i \in Turns |->
                      IF \A j \in 0 .. i : c.rxBuf[Plus(c, f.ns, j + 1)] # None
                      THEN <<c.rxBuf[Plus(c, f.ns, i + 1)]>> ELSE << >>]
           run == BufferedRun(c, f.ns)
           done == {n \in SeqNo : n < c.modulo /\ Ahead(c, n, f.ns) <= Len(run)}
           buf == [n \in SeqNo |-> IF n \in done THEN None ELSE c.rxBuf[n]]
           d == [c EXCEPT !.dlv = Append(c.dlv, f.info) \o run,
                          !.recvSeq = Plus(c, f.ns, Len(run) + 1),
                          !.rxBuf = buf, !.srejSent = c.srejSent \ done]
<1>1. c \in Conn /\ f.ns \in SeqNo /\ f.info \in Info
  BY ReceivedFacts
<1>2. /\ c.rxBuf \in [SeqNo -> Info] /\ f.ns \in Int /\ c.dlv \in Seq(Info)
      /\ c.srejSent \in SUBSET SeqNo
  BY <1>1 DEF Conn, SeqNo
<1>3. following \in [Turns -> Seq(Info)]
  <2>1. ASSUME NEW i \in Turns PROVE c.rxBuf[Plus(c, f.ns, i + 1)] \in Info
    <3>1. Plus(c, f.ns, i + 1) \in SeqNo
      BY <1>1, <1>2, PlusType DEF Turns
    <3>2. QED
      BY <1>2, <3>1
  <2>2. QED
    BY <2>1
<1>4. DeliverRun(c, f) = d
  BY DEF DeliverRun
<1> HIDE DEF following
<1>5. run \in Seq(Info)
  <2>1. run = Loop(following)
    BY DEF BufferedRun, following
  <2>2. QED
    BY <1>3, <2>1, LoopType
<1> HIDE DEF run
<1>6. /\ Append(c.dlv, f.info) \o run \in Seq(Info)
      /\ Len(run) + 1 \in Int
  BY <1>1, <1>2, <1>5
<1>7. Plus(c, f.ns, Len(run) + 1) \in SeqNo /\ Plus(c, f.ns, Len(run) + 1) < c.modulo
  <2>1. c.modulo \in Nat
    BY GoodFacts
  <2>2. QED
    BY <1>1, <1>2, <1>6, <2>1, PlusType
<1>8. buf \in [SeqNo -> Info] /\ c.srejSent \ done \in SUBSET SeqNo
  BY <1>2, ConstantTypes
<1> HIDE DEF buf, done
<1>9. /\ d \in Conn /\ d.state = c.state /\ d.modulo = c.modulo /\ d.sendSeq = c.sendSeq
      /\ d.lastAcked = c.lastAcked /\ d.unacked = c.unacked
      /\ d.retransmitBuf = c.retransmitBuf /\ d.recvSeq = Plus(c, f.ns, Len(run) + 1)
  BY ZenonT(60), <1>1, <1>6, <1>7, <1>8 DEF Conn
<1> HIDE DEF d
<1>10. QED
  BY <1>4, <1>7, <1>9, RecvGood

\* dispatchI with SREJ enabled keeps a connection good.
LEMMA ReceiveSREJGood ==
  ASSUME NEW p \in Params, NEW c, Good(p, c), c.state = "Connected", NEW f, Received(c, f)
  PROVE  Good(p, ReceiveSREJ(p, c, f))
<1> DEFINE buf == [c.rxBuf EXCEPT ![f.ns] = f.info]
           d == [c EXCEPT !.rxBuf = buf, !.srejSent = c.srejSent \ {f.ns}, !.t2 = FALSE]
           gap == Ahead(c, f.ns, c.recvSeq)
<1>1. c \in Conn /\ f.ns \in SeqNo /\ f.info \in Info /\ f.pf \in BOOLEAN
  BY ReceivedFacts
<1>2. c.rxBuf \in [SeqNo -> Info] /\ c.srejSent \in SUBSET SeqNo
  BY <1>1 DEF Conn
<1>3. buf \in [SeqNo -> Info] /\ c.srejSent \ {f.ns} \in SUBSET SeqNo
  BY <1>1, <1>2
<1>4. ReceiveSREJ(p, c, f) = IF gap = 0 THEN Answer(DeliverRun(c, f), f)
                             ELSE IF gap > p.maxWindow THEN Answer(c, f)
                             ELSE SendSREJHoles(d, f.ns)
  BY DEF ReceiveSREJ
<1> HIDE DEF buf
<1>5. d \in Conn /\ SameLink(c, d)
  BY ZenonT(60), <1>1, <1>3 DEF Conn, SameLink
<1> HIDE DEF d, gap
<1>6. Good(p, SendSREJHoles(d, f.ns))
  BY ZenonT(30), <1>1, <1>5, SameLinkGood, HolesGood
<1>7. Good(p, Answer(c, f)) /\ Good(p, Answer(DeliverRun(c, f), f))
  BY <1>1, DeliverRunGood, AnswerGood
<1>8. QED
  BY <1>4, <1>6, <1>7

\* dispatchI without SREJ keeps a connection good.
LEMMA ReceiveREJGood ==
  ASSUME NEW p \in Params, NEW c, Good(p, c), c.state = "Connected", NEW f, Received(c, f)
  PROVE  Good(p, ReceiveREJ(p, c, f))
<1> DEFINE d == [c EXCEPT !.rejSent = FALSE, !.recvSeq = Plus(c, f.ns, 1),
                          !.dlv = Append(c.dlv, f.info)]
           x == [c EXCEPT !.t2 = FALSE, !.rejSent = TRUE]
           fr == S(c, "REJ", FALSE, f.pf, c.recvSeq)
           gap == Ahead(c, f.ns, c.recvSeq)
<1>1. c \in Conn /\ f.ns \in SeqNo /\ f.info \in Info /\ f.pf \in BOOLEAN
  BY ReceivedFacts
<1>2. /\ c.dlv \in Seq(Info) /\ f.ns \in Int /\ c.recvSeq \in SeqNo /\ "REJ" \in SFrames
      /\ c.modulo \in Nat
  <2>1. c.dlv \in Seq(Info) /\ c.recvSeq \in SeqNo /\ c.modulo \in {Mod8, Mod128}
    BY <1>1, ZenonT(60) DEF Conn
  <2>2. f.ns \in Int /\ c.modulo \in Nat
    BY <1>1, <2>1, ModFacts DEF SeqNo
  <2>3. QED
    BY <2>1, <2>2 DEF SFrames
<1>3. /\ Append(c.dlv, f.info) \in Seq(Info)
      /\ Plus(c, f.ns, 1) \in SeqNo /\ Plus(c, f.ns, 1) < c.modulo
  BY <1>1, <1>2, PlusType
<1>4. ReceiveREJ(p, c, f) = IF gap = 0 THEN Answer(d, f)
                            ELSE IF gap > p.maxWindow THEN Answer(c, f)
                            ELSE IF c.rejSent THEN IF f.pf THEN Answer(c, f) ELSE c
                            ELSE Emit(x, <<fr>>)
  BY DEF ReceiveREJ
<1>5. /\ d \in Conn /\ d.state = c.state /\ d.modulo = c.modulo /\ d.sendSeq = c.sendSeq
      /\ d.lastAcked = c.lastAcked /\ d.unacked = c.unacked
      /\ d.retransmitBuf = c.retransmitBuf /\ d.recvSeq = Plus(c, f.ns, 1)
  BY ZenonT(60), <1>1, <1>3 DEF Conn
<1>6. x \in Conn /\ SameLink(c, x)
  BY ZenonT(60), <1>1 DEF Conn, SameLink
<1>7. fr \in Frame
  BY ZenonT(30), <1>1, <1>2, SType
<1> HIDE DEF d, x, fr, gap
<1>8. Good(p, d)
  BY <1>3, <1>5, RecvGood
<1>9. Good(p, Answer(d, f)) /\ Good(p, Answer(c, f))
  BY <1>1, <1>8, AnswerGood
<1>10. Good(p, Emit(x, <<fr>>))
  <2>1. Emit(x, <<fr>>) \in Conn /\ SameLink(x, Emit(x, <<fr>>))
    BY <1>6, <1>7, EmitOne
  <2>2. QED
    BY <1>6, <2>1, SameLinkGood
<1>11. QED
  BY <1>4, <1>9, <1>10

\* dispatchI keeps a connection good.
LEMMA DispatchIGood ==
  ASSUME NEW p \in Params, NEW e, NEW c, Good(p, c), NEW f, Received(c, f), f.type = "I"
  PROVE  Good(p, DispatchI(e, p, c, f))
<1> DEFINE d == Promote(c)
           acked == AckFrames(p, d, f.nr)
<1>1. DispatchI(e, p, c, f) =
        IF d.state # "Connected"
        THEN IF e.elsewhere # "active" /\ f.pf /\ e.local
             THEN Emit(d, <<U(d, "DM", FALSE, TRUE)>>) ELSE d
        ELSE IF d.srejEnabled THEN ReceiveSREJ(p, acked, f) ELSE ReceiveREJ(p, acked, f)
  BY DEF DispatchI
<1>2. Good(p, d) /\ d.modulo = c.modulo
  BY PromoteGood
<1>3. f.type \notin UFrames /\ "DM" \in UFrames
  BY DEF UFrames
<1>4. f.nr \in 0 .. d.modulo - 1
  BY <1>2, <1>3, ReceivedFacts
<1> HIDE DEF d
<1>5. Good(p, acked) /\ acked.state = d.state /\ acked.modulo = d.modulo
  BY <1>2, <1>4, AckGood
<1>6. Received(acked, f)
  BY <1>2, <1>5 DEF Received
<1> HIDE DEF acked
<1>7. d.state = "Connected" => Good(p, ReceiveSREJ(p, acked, f)) /\ Good(p, ReceiveREJ(p, acked, f))
  BY <1>5, <1>6, ReceiveSREJGood, ReceiveREJGood
<1>8. Good(p, Emit(d, <<U(d, "DM", FALSE, TRUE)>>))
  BY ZenonT(30), <1>2, <1>3, EmitUGood
<1>9. QED
  BY <1>1, <1>2, <1>7, <1>8

-----------------------------------------------------------------------------
(* S frames.                                                               *)

\* Changing only the busy flag keeps a connection good.
LEMMA NotBusyGood ==
  ASSUME NEW p \in Params, NEW c, Good(p, c), NEW b \in BOOLEAN
  PROVE  Good(p, [c EXCEPT !.remoteBusy = b])
<1>1. c \in Conn
  BY DEF Good
<1>2. [c EXCEPT !.remoteBusy = b] \in Conn /\ SameLink(c, [c EXCEPT !.remoteBusy = b])
  BY ZenonT(60), <1>1 DEF Conn, SameLink
<1>3. QED
  BY <1>2, SameLinkGood

\* Resending the frame an SREJ asks for keeps a connection good.
LEMMA AnswerSREJGood ==
  ASSUME NEW p \in Params, NEW c, Good(p, c), NEW f, f.nr \in 0 .. c.modulo - 1
  PROVE  Good(p, AnswerSREJ(c, f))
<1> DEFINE free == [c EXCEPT !.remoteBusy = FALSE]
           fr == IFrame(c, f.nr, c.retransmitBuf[f.nr])
<1>1. AnswerSREJ(c, f) = IF c.retransmitBuf[f.nr] = None THEN free ELSE Emit(free, <<fr>>)
  BY DEF AnswerSREJ
<1>2. Good(p, free)
  BY ZenonT(30), NotBusyGood
<1>3. /\ c \in Conn /\ c.recvSeq < c.modulo /\ c.retransmitBuf \in [SeqNo -> Info]
      /\ c.modulo \in Nat /\ c.modulo <= Mod128
  BY GoodFacts
<1>4. f.nr \in SeqNo /\ f.nr < c.modulo
  BY <1>3, ModFacts DEF SeqNo
<1>5. fr \in Frame
  BY <1>3, <1>4, IFrameType
<1> HIDE DEF free, fr
<1>6. Good(p, Emit(free, <<fr>>))
  <2>1. free \in Conn
    BY <1>2 DEF Good
  <2>2. QED
    BY <1>2, <1>5, <2>1, EmitOne, SameLinkGood
<1>7. QED
  BY <1>1, <1>2, <1>6

\* The RR, RNR and REJ branches of dispatchS keep a connection good.
LEMMA FlowControlGood ==
  ASSUME NEW p \in Params, NEW c, Good(p, c), NEW f,
         f.type \in {"RR", "RNR", "REJ"}, f.nr \in 0 .. c.modulo - 1
  PROVE  Good(p, FlowControl(p, c, f))
<1> DEFINE busy == [c EXCEPT !.remoteBusy = TRUE]
           free == [c EXCEPT !.remoteBusy = FALSE]
<1>1. FlowControl(p, c, f) =
        CASE f.type = "RNR" -> busy
          [] f.type = "RR"  -> IF c.remoteBusy THEN DrainOutbound(p, free) ELSE c
          [] f.type = "REJ" -> RetransmitFrom(free, f.nr)
  BY DEF FlowControl
<1>2. Good(p, busy) /\ Good(p, free)
  BY ZenonT(30), NotBusyGood
<1>3. Good(p, DrainOutbound(p, free))
  BY <1>2, DrainGood
<1>4. f.nr \in Nat
  BY GoodFacts
<1> HIDE DEF busy, free
<1>5. Good(p, RetransmitFrom(free, f.nr))
  BY <1>2, <1>4, RetransmitType, SameLinkGood DEF RetransmitFrom
<1>6. CASE f.type = "RNR"
  BY <1>1, <1>2, <1>6
<1>7. CASE f.type = "RR"
  BY <1>1, <1>3, <1>7
<1>8. CASE f.type = "REJ"
  BY <1>1, <1>5, <1>8
<1>9. QED
  BY <1>6, <1>7, <1>8

\* The final-bit checkpoint of dispatchS keeps a connection good.
LEMMA CheckpointGood ==
  ASSUME NEW p \in Params, NEW c, Good(p, c), NEW f, NEW vs
  PROVE  Good(p, Checkpoint(c, f, vs))
<1> DEFINE d == [c EXCEPT !.polling = FALSE]
           idle == [d EXCEPT !.t1 = FALSE, !.t1Polls = 0, !.asked = 0]
           r == RetransmitRange(d, c.lastAcked, vs)
           x == [r EXCEPT !.t1 = TRUE]
<1>1. Checkpoint(c, f, vs) =
        IF f.cmd \/ ~f.pf \/ ~c.polling THEN c
        ELSE IF ~Holds(c.retransmitBuf) THEN idle
        ELSE IF f.type # "REJ" /\ ~c.remoteBusy THEN x ELSE d
  BY DEF Checkpoint
<1>2. c \in Conn /\ c.lastAcked \in Nat
  BY GoodFacts
<1>3. d \in Conn /\ SameLink(c, d)
  BY ZenonT(60), <1>2 DEF Conn, SameLink
<1> HIDE DEF d
<1>4. Good(p, d)
  BY <1>3, SameLinkGood
<1>5. idle \in Conn /\ SameLink(d, idle)
  BY ZenonT(60), <1>3 DEF Conn, SameLink
<1> HIDE DEF idle
<1>6. Good(p, idle)
  BY <1>4, <1>5, SameLinkGood
<1>7. r \in Conn /\ SameLink(d, r)
  BY <1>2, <1>4, RetransmitType
<1> HIDE DEF r
<1>8. x \in Conn /\ SameLink(r, x)
  BY ZenonT(60), <1>7 DEF Conn, SameLink
<1> HIDE DEF x
<1>9. SameLink(d, x)
  BY <1>7, <1>8, SameLinkTrans
<1>10. Good(p, x)
  BY <1>4, <1>8, <1>9, SameLinkGood
<1>11. QED
  BY <1>1, <1>4, <1>6, <1>10

\* Deferring the answer to a poll keeps a connection good.
LEMMA AnswerPollGood ==
  ASSUME NEW p \in Params, NEW c, Good(p, c), NEW f
  PROVE  Good(p, AnswerPoll(c, f))
<1> DEFINE d == [c EXCEPT !.deferred = Append(c.deferred, Live)]
<1>1. AnswerPoll(c, f) = IF ~(f.pf /\ f.cmd) THEN c
                         ELSE IF f.type = "REJ" THEN SendRR(c, TRUE) ELSE d
  BY DEF AnswerPoll
<1>2. c \in Conn
  BY DEF Good
<1>3. Append(c.deferred, Live) \in Seq(SeqNo \cup {Live, Gone})
  <2>1. c.deferred \in Seq(SeqNo \cup {Live, Gone}) /\ Live \in SeqNo \cup {Live, Gone}
    BY <1>2 DEF Conn
  <2>2. QED
    BY <2>1
<1>4. d \in Conn /\ SameLink(c, d)
  BY ZenonT(60), <1>2, <1>3 DEF Conn, SameLink
<1> HIDE DEF d
<1>5. Good(p, d)
  BY <1>4, SameLinkGood
<1>6. SendRR(c, TRUE) \in Conn /\ SameLink(c, SendRR(c, TRUE))
  BY ZenonT(30), <1>2, SendTypes
<1>7. Good(p, SendRR(c, TRUE))
  BY ZenonT(30), <1>6, SameLinkGood
<1>8. QED
  BY ZenonT(30), <1>1, <1>5, <1>7

\* dispatchS keeps a connection good.
LEMMA DispatchSGood ==
  ASSUME NEW p \in Params, NEW e, NEW c, Good(p, c), NEW f, Received(c, f), f.type \in SFrames
  PROVE  Good(p, DispatchS(e, p, c, f))
<1> DEFINE acked == AckFrames(p, c, f.nr)
           d == IF f.type = "SREJ" /\ ~f.pf THEN c ELSE acked
           flow == FlowControl(p, d, f)
           check == Checkpoint(flow, f, c.sendSeq)
<1>1. DispatchS(e, p, c, f) = IF c.state # "Connected" THEN c
                              ELSE IF f.type = "SREJ" THEN AnswerSREJ(d, f)
                              ELSE AnswerPoll(check, f)
  BY DEF DispatchS
<1>2. f.nr \in 0 .. c.modulo - 1
  <2>1. f.type \notin UFrames
    BY DEF UFrames, SFrames
  <2>2. QED
    BY <2>1, ReceivedFacts
<1>3. Good(p, acked) /\ acked.modulo = c.modulo
  BY <1>2, AckGood
<1> HIDE DEF acked
<1>4. Good(p, d) /\ d.modulo = c.modulo
  BY <1>3
<1> HIDE DEF d
<1>5. f.nr \in 0 .. d.modulo - 1
  BY <1>2, <1>4
<1>6. Good(p, AnswerSREJ(d, f))
  BY <1>4, <1>5, AnswerSREJGood
<1>7. f.type # "SREJ" => Good(p, flow)
  <2>1. f.type # "SREJ" => f.type \in {"RR", "RNR", "REJ"}
    BY DEF SFrames
  <2>2. QED
    BY <1>4, <1>5, <2>1, FlowControlGood
<1> HIDE DEF flow
<1>8. f.type # "SREJ" => Good(p, check)
  BY <1>7, CheckpointGood
<1> HIDE DEF check
<1>9. f.type # "SREJ" => Good(p, AnswerPoll(check, f))
  BY <1>8, AnswerPollGood
<1>10. QED
  BY <1>1, <1>6, <1>9

-----------------------------------------------------------------------------
(* OnFrame.                                                                *)

\* Every branch of OnFrame keeps a connection good.
LEMMA DispatchGood ==
  ASSUME NEW p \in Params, NEW e, NEW c, Good(p, c), NEW f, Received(c, f)
  PROVE  Good(p, Dispatch(e, p, c, f))
<1>1. f.type \in {"SABM", "SABME", "UA", "DM", "DISC", "FRMR", "XID", "I"} \cup SFrames
  BY DEF Received, FrameFields, UFrames
<1>2. CASE f.type \in SFrames
  <2>1. Dispatch(e, p, c, f) = DispatchS(e, p, c, f)
    BY <1>2 DEF Dispatch, SFrames
  <2>2. QED
    BY <1>2, <2>1, DispatchSGood
<1>3. CASE f.type = "I"
  <2>1. Dispatch(e, p, c, f) = DispatchI(e, p, c, f)
    BY <1>3 DEF Dispatch, SFrames
  <2>2. QED
    BY <1>3, <2>1, DispatchIGood
<1>4. CASE f.type = "SABM"
  <2>1. Dispatch(e, p, c, f) = DispatchSABM(e, p, c, f)
    BY <1>4 DEF Dispatch, SFrames
  <2>2. QED
    BY <2>1, DispatchSABMGood
<1>5. CASE f.type = "SABME"
  <2>1. Dispatch(e, p, c, f) = DispatchSABME(e, p, c, f)
    BY <1>5 DEF Dispatch, SFrames
  <2>2. QED
    BY <2>1, DispatchSABMGood
<1>6. CASE f.type = "UA"
  <2>1. Dispatch(e, p, c, f) = DispatchUA(e, p, c, f)
    BY <1>6 DEF Dispatch, SFrames
  <2>2. QED
    BY <2>1, DispatchUAGood
<1>7. CASE f.type = "DM"
  <2>1. Dispatch(e, p, c, f) = DispatchDM(e, p, c, f)
    BY <1>7 DEF Dispatch, SFrames
  <2>2. QED
    BY <2>1, DispatchDMGood
<1>8. CASE f.type = "DISC"
  <2>1. Dispatch(e, p, c, f) = DispatchDISC(e, p, c, f)
    BY <1>8 DEF Dispatch, SFrames
  <2>2. QED
    BY <2>1, DispatchDISCGood
<1>9. CASE f.type = "FRMR"
  <2>1. Dispatch(e, p, c, f) = DispatchFRMR(e, p, c, f)
    BY <1>9 DEF Dispatch, SFrames
  <2>2. QED
    BY <2>1, DispatchFRMRGood
<1>10. CASE f.type = "XID"
  <2>1. Dispatch(e, p, c, f) = DispatchXID(e, p, c, f)
    BY <1>10 DEF Dispatch, SFrames
  <2>2. QED
    BY <2>1, DispatchXIDGood
<1>11. QED
  BY <1>1, <1>2, <1>3, <1>4, <1>5, <1>6, <1>7, <1>8, <1>9, <1>10

\* Whatever frame arrives, in whatever state, the connection stays well typed
\* and its window consistent.
THEOREM OnFrameGood ==
  ASSUME NEW p \in Params, NEW e, NEW c, Good(p, c), NEW f, Received(c, f)
  PROVE  Good(p, OnFrame(e, p, c, f))
<1> DEFINE d == Dispatch(e, p, c, f)
<1>1. Good(p, d)
  BY DispatchGood
<1>2. OnFrame(e, p, c, f) = IF d.state = "Connected" THEN StartT3(p, d) ELSE d
  BY DEF OnFrame
<1> HIDE DEF d
<1>3. Good(p, StartT3(p, d))
  <2>1. d \in Conn
    BY <1>1 DEF Good
  <2>2. QED
    BY <1>1, <2>1, StartT3Type, SameLinkGood
<1>4. QED
  BY <1>1, <1>2, <1>3

\* Decoding a frame with either modulus yields a frame of the received type.
LEMMA DecodingsReceived ==
  ASSUME NEW c \in Conn, NEW f \in Frame, NEW g \in Decodings(c, f)
  PROVE  Received(c, g)
<1>1. /\ f \in FrameFields /\ f.nr < f.mod /\ f.ns < f.mod
  BY DEF Frame
<1>2. c.modulo \in {Mod8, Mod128} /\ f.mod \in {Mod8, Mod128}
  <2>1. c.modulo \in {Mod8, Mod128}
    BY DEF Conn
  <2>2. f.mod \in {Mod8, Mod128}
    BY <1>1 DEF FrameFields
  <2>3. QED
    BY <2>1, <2>2
<1>3. CASE f.mod = c.modulo \/ f.type \in UFrames
  <2>1. Decodings(c, f) = {f}
    BY <1>3 DEF Decodings
  <2>2. g = f
    BY <2>1
  <2>3. QED
    BY <1>1, <1>3, <2>2 DEF Received
<1>4. CASE ~(f.mod = c.modulo \/ f.type \in UFrames) /\ f.type = "I"
  <2> DEFINE Readings == [ns : 0 .. c.modulo - 1, nr : 0 .. c.modulo - 1, pf : BOOLEAN]
  <2>1. PICK h \in Readings :
          g = [f EXCEPT !.ns = h.ns, !.nr = h.nr, !.pf = h.pf, !.info = Corrupt]
    <3>1. g \in Misread(c, f)
      BY <1>4 DEF Decodings
    <3>2. QED
      BY ZenonT(30), <3>1 DEF Misread
  <2>2. /\ h.ns \in SeqNo /\ h.nr \in SeqNo /\ h.pf \in BOOLEAN /\ Corrupt \in Info
        /\ h.nr < c.modulo
    BY <1>2, ModFacts DEF SeqNo, Corrupt, Info
  <2>3. g \in FrameFields /\ g.nr = h.nr
    BY ZenonT(30), <1>1, <2>1, <2>2 DEF FrameFields
  <2>4. QED
    BY <2>2, <2>3 DEF Received
<1>5. CASE ~(f.mod = c.modulo \/ f.type \in UFrames) /\ f.type # "I" /\ f.mod = Mod128
  <2>1. g = [f EXCEPT !.nr = 0, !.pf = FALSE]
    BY <1>5 DEF Decodings
  <2>2. g \in FrameFields /\ g.nr = 0 /\ g.ns = f.ns
    BY ZenonT(30), <1>1, <2>1, ConstantTypes DEF FrameFields
  <2>3. QED
    BY <1>1, <1>2, <2>2, ModFacts DEF Received
<1>6. CASE ~(f.mod = c.modulo \/ f.type \in UFrames) /\ f.type # "I" /\ f.mod # Mod128
  <2>1. g = f /\ f.mod = Mod8 /\ c.modulo = Mod128
    BY <1>2, <1>6 DEF Decodings
  <2>2. f.nr \in Int /\ f.ns \in Int
    BY <1>1, ModFacts DEF FrameFields, SeqNo
  <2>3. QED
    BY <1>1, <2>1, <2>2, ModFacts DEF Received
<1>7. QED
  BY <1>3, <1>4, <1>5, <1>6
=============================================================================
