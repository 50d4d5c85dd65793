------------------------------ MODULE L2Proofs ------------------------------
(***************************************************************************)
(* Every operation of L2 keeps a connection well typed and its sender's    *)
(* window consistent, for every modulus, window size and retry limit.      *)
(***************************************************************************)
EXTENDS L2, TLAPS

\* Both moduli are naturals above one.
LEMMA ModFacts == Mod8 \in Nat /\ Mod128 \in Nat /\ 1 < Mod8 /\ Mod8 < Mod128
  BY ModAssumption

\* The bounds are naturals.
LEMMA ConstantTypes ==
  /\ 0 \in SeqNo /\ None \in Info /\ 0 \in Info /\ 1 \in Info
  /\ << >> \in Seq(Data) /\ << >> \in Seq(Info) /\ << >> \in Seq(Frame)
  /\ [n \in SeqNo |-> None] \in [SeqNo -> Info]
  BY ModFacts DEF SeqNo, None, Info

(* The arithmetic of a window.                                             *)

\* A number below the modulus is its own remainder.
LEMMA ModSmall == ASSUME NEW m \in Nat \ {0}, NEW x \in 0 .. m - 1 PROVE x % m = x
  OBVIOUS
\* One turn above the modulus.
LEMMA ModWrap == ASSUME NEW m \in Nat \ {0}, NEW x \in m .. 2 * m - 1 PROVE x % m = x - m
  OBVIOUS
\* One turn below zero.
LEMMA ModBelow == ASSUME NEW m \in Nat \ {0}, NEW x \in -m .. -1 PROVE x % m = x + m
  OBVIOUS

\* Ahead, the code's uint8 difference modulo c.modulo, by cases.
LEMMA AheadIs ==
  ASSUME NEW m \in Nat \ {0}, NEW n \in 0 .. m - 1, NEW b \in 0 .. m - 1
  PROVE  (n - b) % m = IF n >= b THEN n - b ELSE n - b + m
<1>1. CASE n >= b
  <2>1. n - b \in 0 .. m - 1
    BY <1>1
  <2>2. QED
    BY <1>1, <2>1, ModSmall
<1>2. CASE ~(n >= b)
  <2>1. n - b \in -m .. -1
    BY <1>2
  <2>2. QED
    BY <1>2, <2>1, ModBelow
<1>3. QED
  BY <1>1, <1>2

\* Plus, the code's increment modulo c.modulo, by cases.
LEMMA PlusIs ==
  ASSUME NEW m \in Nat \ {0}, NEW n \in 0 .. m - 1, NEW i \in 0 .. m - 1
  PROVE  (n + i) % m = IF n + i < m THEN n + i ELSE n + i - m
<1>1. CASE n + i < m
  <2>1. n + i \in 0 .. m - 1
    BY <1>1
  <2>2. QED
    BY <1>1, <2>1, ModSmall
<1>2. CASE ~(n + i < m)
  <2>1. n + i \in m .. 2 * m - 1
    BY <1>2
  <2>2. QED
    BY <1>2, <2>1, ModWrap
<1>3. QED
  BY <1>1, <1>2

(* Sending k more frames.                                                  *)
LEMMA WindowGrows ==
  ASSUME NEW m \in Nat \ {0}, NEW vs \in 0 .. m - 1, NEW va \in 0 .. m - 1, NEW k \in Nat,
         ((vs - va) % m) + k < m
  PROVE  /\ (vs + k) % m \in 0 .. m - 1
         /\ (((vs + k) % m) - va) % m = ((vs - va) % m) + k
         /\ \A n \in 0 .. m - 1 : (n - va) % m < ((vs - va) % m) + k
                                   <=> (n - va) % m < (vs - va) % m \/ (n - vs) % m < k
<1>1. (vs - va) % m = IF vs >= va THEN vs - va ELSE vs - va + m
  BY AheadIs
<1>2. k \in 0 .. m - 1
  BY <1>1
<1>3. (vs + k) % m = IF vs + k < m THEN vs + k ELSE vs + k - m
  BY ZenonT(30), <1>2, PlusIs
<1>4. (vs + k) % m \in 0 .. m - 1
  BY <1>2, <1>3
<1>5. (((vs + k) % m) - va) % m = ((vs - va) % m) + k
  <2> DEFINE w == (vs + k) % m
  <2>1. (w - va) % m = IF w >= va THEN w - va ELSE w - va + m
    BY ZenonT(30), <1>4, AheadIs
  <2>2. QED
    BY <1>1, <1>2, <1>3, <2>1
<1>6. ASSUME NEW n \in 0 .. m - 1
      PROVE  (n - va) % m < ((vs - va) % m) + k
               <=> (n - va) % m < (vs - va) % m \/ (n - vs) % m < k
  <2>1. (n - va) % m = IF n >= va THEN n - va ELSE n - va + m
    BY AheadIs
  <2>2. (n - vs) % m = IF n >= vs THEN n - vs ELSE n - vs + m
    BY AheadIs
  <2>3. QED
    BY <1>1, <1>2, <2>1, <2>2
<1>7. QED
  BY <1>4, <1>5, <1>6

(* Acknowledging everything before nr.                                     *)
LEMMA WindowShrinks ==
  ASSUME NEW m \in Nat \ {0}, NEW vs \in 0 .. m - 1, NEW va \in 0 .. m - 1,
         NEW nr \in 0 .. m - 1, (nr - va) % m <= (vs - va) % m
  PROVE  /\ (vs - nr) % m = ((vs - va) % m) - ((nr - va) % m)
         /\ \A n \in 0 .. m - 1 : (n - nr) % m < (vs - nr) % m
              <=> (n - va) % m < (vs - va) % m /\ ~((n - va) % m < (nr - va) % m)
<1>1. (vs - va) % m = IF vs >= va THEN vs - va ELSE vs - va + m
  BY AheadIs
<1>2. (nr - va) % m = IF nr >= va THEN nr - va ELSE nr - va + m
  BY AheadIs
<1>3. (vs - nr) % m = IF vs >= nr THEN vs - nr ELSE vs - nr + m
  BY AheadIs
<1>4. ASSUME NEW n \in 0 .. m - 1
      PROVE  (n - nr) % m < (vs - nr) % m
              <=> (n - va) % m < (vs - va) % m /\ ~((n - va) % m < (nr - va) % m)
  <2>1. (n - va) % m = IF n >= va THEN n - va ELSE n - va + m
    BY AheadIs
  <2>2. (n - nr) % m = IF n >= nr THEN n - nr ELSE n - nr + m
    BY AheadIs
  <2>3. QED
    BY <1>1, <1>2, <1>3, <2>1, <2>2
<1>5. QED
  BY <1>1, <1>2, <1>3, <1>4

(* A window operation may change everything but these fields.              *)
SameLink(c, d) ==
  /\ d.state = c.state /\ d.modulo = c.modulo
  /\ d.sendSeq = c.sendSeq /\ d.recvSeq = c.recvSeq /\ d.lastAcked = c.lastAcked
  /\ d.unacked = c.unacked /\ d.outQueue = c.outQueue /\ d.retransmitBuf = c.retransmitBuf

Good(p, c) == c \in Conn /\ WindowOK(p, c)

\* A connection is good when its link fields are those of a good one.
LEMMA SameLinkGood ==
  ASSUME NEW p, NEW c, NEW d \in Conn, Good(p, c), SameLink(c, d)
  PROVE  Good(p, d)
  BY DEF Good, SameLink, WindowOK, Ahead

\* A part of a sequence has the sequence's type.
LEMMA SubSeqType ==
  ASSUME NEW X, NEW q \in Seq(X), NEW m \in Nat
  PROVE  SubSeq(q, 1, Minimum(Len(q), m)) \in Seq(X)
<1>1. Minimum(Len(q), m) \in 0 .. Len(q)
  BY DEF Minimum
<1>2. QED
  BY <1>1

\* U frames are frames.
LEMMA UType ==
  ASSUME NEW c \in Conn, NEW t \in UFrames, NEW cmd \in BOOLEAN, NEW pf \in BOOLEAN
  PROVE  U(c, t, cmd, pf) \in Frame
<1>1. c.modulo \in {Mod8, Mod128} /\ 0 < c.modulo
  BY ModFacts DEF Conn
<1>2. U(c, t, cmd, pf) \in FrameFields
  BY <1>1, ConstantTypes DEF U, FrameFields
<1>3. QED
  BY <1>1, <1>2 DEF U, Frame

\* S frames are frames.
LEMMA SType ==
  ASSUME NEW c \in Conn, NEW t \in SFrames, NEW cmd \in BOOLEAN, NEW pf \in BOOLEAN,
         NEW nr \in SeqNo
  PROVE  S(c, t, cmd, pf, nr) \in Frame
<1>1. c.modulo \in {Mod8, Mod128} /\ c.modulo \in Nat /\ 0 < c.modulo /\ c.modulo <= Mod128
  BY ModFacts DEF Conn
<1>2. nr % c.modulo \in SeqNo /\ nr % c.modulo < c.modulo
  BY <1>1, ModFacts DEF SeqNo
<1>3. S(c, t, cmd, pf, nr) \in FrameFields
  BY <1>1, <1>2, ConstantTypes DEF S, FrameFields
<1>4. QED
  BY <1>1, <1>2, <1>3 DEF S, Frame

\* I frames are frames.
LEMMA IFrameType ==
  ASSUME NEW c \in Conn, NEW ns \in SeqNo, NEW info \in Info,
         c.recvSeq < c.modulo, ns < c.modulo
  PROVE  IFrame(c, ns, info) \in Frame
<1>1. c.modulo \in {Mod8, Mod128} /\ c.recvSeq \in SeqNo
  BY ModFacts DEF Conn
<1>2. IFrame(c, ns, info) \in FrameFields
  BY <1>1 DEF IFrame, FrameFields
<1>3. QED
  BY <1>1, <1>2 DEF IFrame, Frame

\* Putting frames on the air keeps the type.
LEMMA EmitType ==
  ASSUME NEW c \in Conn, NEW fs \in Seq(Frame)
  PROVE  Emit(c, fs) \in Conn /\ SameLink(c, Emit(c, fs))
<1> DEFINE all == c.tx \o fs
           sent == SubSeq(all, 1, Minimum(Len(all), MaxTx))
<1>1. sent \in Seq(Frame)
  <2>1. c.tx \in Seq(Frame)
    BY DEF Conn
  <2>2. all \in Seq(Frame)
    BY <2>1
  <2>3. QED
    BY ZenonT(30), <2>2, SubSeqType, QueueAssumption
<1>2. Emit(c, fs) = [c EXCEPT !.tx = sent]
  BY DEF Emit
<1> HIDE DEF sent
<1>3. [c EXCEPT !.tx = sent] \in Conn /\ SameLink(c, [c EXCEPT !.tx = sent])
  BY ZenonT(60), <1>1 DEF Conn, SameLink
<1>4. QED
  BY <1>2, <1>3

\* The frames a loop puts out, turn by turn, form a sequence of frames.
LEMMA LoopType ==
  ASSUME NEW X, NEW body \in [Turns -> Seq(X)]
  PROVE  Loop(body) \in Seq(X)
<1>1. \A i \in Turns : body[i] \in Seq(X)
  OBVIOUS
<1>2. /\ body[0] \in Seq(X) /\ body[1] \in Seq(X) /\ body[2] \in Seq(X) /\ body[3] \in Seq(X)
      /\ body[4] \in Seq(X) /\ body[5] \in Seq(X) /\ body[6] \in Seq(X)
  BY <1>1 DEF Turns
<1>3. QED
  BY <1>2 DEF Loop

\* resetSeqs keeps the type and empties the window.
LEMMA ResetType ==
  ASSUME NEW c \in Conn
  PROVE  /\ ResetSeqs(c) \in Conn
         /\ ResetSeqs(c).state = c.state /\ ResetSeqs(c).modulo = c.modulo
         /\ ResetSeqs(c).sendSeq = 0 /\ ResetSeqs(c).recvSeq = 0
         /\ ResetSeqs(c).lastAcked = 0 /\ ResetSeqs(c).unacked = 0
         /\ ResetSeqs(c).outQueue = << >>
         /\ ResetSeqs(c).retransmitBuf = [n \in SeqNo |-> None]
<1> DEFINE none == [n \in SeqNo |-> None]
           d1 == [c EXCEPT !.sendSeq = 0, !.recvSeq = 0, !.unacked = 0, !.lastAcked = 0,
                           !.outQueue = << >>, !.retransmitBuf = none]
           d2 == [d1 EXCEPT !.rxBuf = none, !.srejSent = {}, !.remoteBusy = FALSE,
                            !.polling = FALSE]
           d3 == [d2 EXCEPT !.rejSent = FALSE, !.xidPending = FALSE,
                            !.srejEnabled = FALSE, !.sent = << >>]
<1>1. d1 \in Conn /\ d1.state = c.state /\ d1.modulo = c.modulo
      /\ d1.sendSeq = 0 /\ d1.recvSeq = 0 /\ d1.lastAcked = 0 /\ d1.unacked = 0
      /\ d1.outQueue = << >> /\ d1.retransmitBuf = none
  BY ZenonT(60), ConstantTypes DEF Conn
<1>2. NewConn.retransmitBuf = none /\ NewConn.rxBuf = none
  BY DEF NewConn
<1>3. ResetSeqs(c) = d3
  BY <1>2 DEF ResetSeqs
<1> HIDE DEF d1
<1>4. d2 \in Conn /\ SameLink(d1, d2)
  BY ZenonT(60), <1>1, ConstantTypes DEF Conn, SameLink
<1> HIDE DEF d2
<1>5. d3 \in Conn /\ SameLink(d2, d3)
  BY ZenonT(60), <1>4, ConstantTypes DEF Conn, SameLink
<1> HIDE DEF d3
<1>6. QED
  BY <1>1, <1>3, <1>4, <1>5 DEF SameLink

\* Sending one frame keeps the type and the link.
LEMMA EmitOne ==
  ASSUME NEW c \in Conn, NEW f \in Frame
  PROVE  Emit(c, <<f>>) \in Conn /\ SameLink(c, Emit(c, <<f>>))
<1>1. <<f>> \in Seq(Frame)
  OBVIOUS
<1>2. QED
  BY ZenonT(30), <1>1, EmitType

\* The senders of SABM, enquiry and RR keep the type and the link.
LEMMA SendTypes ==
  ASSUME NEW c \in Conn, NEW pf \in BOOLEAN
  PROVE  /\ SendSABM(c) \in Conn /\ SameLink(c, SendSABM(c))
         /\ SendEnquiry(c) \in Conn /\ SameLink(c, SendEnquiry(c))
         /\ SendRR(c, pf) \in Conn /\ SameLink(c, SendRR(c, pf))
<1>1. SendSABM(c) \in Conn /\ SameLink(c, SendSABM(c))
  <2> DEFINE t == IF c.modulo = Mod128 THEN "SABME" ELSE "SABM"
  <2>1. t \in UFrames
    BY DEF UFrames
  <2>2. U(c, t, TRUE, TRUE) \in Frame
    BY ZenonT(30), <2>1, UType
  <2>3. QED
    BY ZenonT(30), <2>2, EmitOne DEF SendSABM
<1>2. c.recvSeq \in SeqNo
  BY DEF Conn
<1>3. SendEnquiry(c) \in Conn /\ SameLink(c, SendEnquiry(c))
  <2> DEFINE d == Emit(c, <<S(c, "RR", TRUE, TRUE, c.recvSeq)>>)
  <2>1. "RR" \in SFrames
    BY DEF SFrames
  <2>2. S(c, "RR", TRUE, TRUE, c.recvSeq) \in Frame
    BY ZenonT(30), <1>2, <2>1, SType
  <2>3. d \in Conn /\ SameLink(c, d)
    BY ZenonT(30), <2>2, EmitOne
  <2>4. SendEnquiry(c) = [d EXCEPT !.polling = TRUE, !.asked = d.asked + 1]
    BY DEF SendEnquiry
  <2> HIDE DEF d
  <2>5. /\ [d EXCEPT !.polling = TRUE, !.asked = d.asked + 1] \in Conn
        /\ SameLink(d, [d EXCEPT !.polling = TRUE, !.asked = d.asked + 1])
    <3>1. d.asked \in Nat
      BY <2>3 DEF Conn
    <3>2. d.asked + 1 \in Nat
      BY <3>1
    <3>3. QED
      BY ZenonT(60), <2>3, <3>2 DEF Conn, SameLink
  <2>6. QED
    BY <2>3, <2>4, <2>5 DEF SameLink
<1>4. SendRR(c, pf) \in Conn /\ SameLink(c, SendRR(c, pf))
  <2>1. "RR" \in SFrames
    BY DEF SFrames
  <2>2. S(c, "RR", FALSE, pf, c.recvSeq) \in Frame
    BY ZenonT(30), <1>2, <2>1, SType
  <2>3. QED
    BY ZenonT(30), <2>2, EmitOne DEF SendRR
<1>5. QED
  BY <1>1, <1>3, <1>4

\* Telling the owner keeps the type and the link.
LEMMA TellTypes ==
  ASSUME NEW c \in Conn
  PROVE  /\ TellConnected(c) \in Conn /\ SameLink(c, TellConnected(c))
         /\ TellDown(c) \in Conn /\ SameLink(c, TellDown(c))
         /\ CancelTimers(c) \in Conn /\ SameLink(c, CancelTimers(c))
<1>1. TellConnected(c) \in Conn /\ SameLink(c, TellConnected(c))
  BY ZenonT(60), ConstantTypes DEF Conn, SameLink, TellConnected
<1>2. TellDown(c) \in Conn /\ SameLink(c, TellDown(c))
  BY ZenonT(60) DEF Conn, SameLink, TellDown
<1>3. CancelTimers(c) \in Conn /\ SameLink(c, CancelTimers(c))
  BY ZenonT(60) DEF Conn, SameLink, CancelTimers
<1>4. QED
  BY <1>1, <1>2, <1>3

\* startT3 keeps the type and the link.
LEMMA StartT3Type ==
  ASSUME NEW p \in Params, NEW c \in Conn
  PROVE  StartT3(p, c) \in Conn /\ SameLink(c, StartT3(p, c))
<1>1. p.t3 \in BOOLEAN
  BY DEF Params
<1>2. QED
  BY ZenonT(60), <1>1 DEF Conn, SameLink, StartT3

(* A connection with an empty window.                                      *)
LEMMA FreshGood ==
  ASSUME NEW p \in Params, NEW c \in Conn, c.sendSeq = 0, c.recvSeq = 0, c.lastAcked = 0,
         c.unacked = 0, c.outQueue = << >>, c.retransmitBuf = [n \in SeqNo |-> None]
  PROVE  Good(p, c)
<1>1. c.modulo \in Nat \ {0} /\ 0 \in 0 .. c.modulo - 1
  BY ModFacts DEF Conn
<1>2. Ahead(c, 0, 0) = 0
  BY <1>1, ModSmall DEF Ahead
<1>3. p.maxWindow \in Nat
  BY DEF Params
<1>4. \A n \in SeqNo : n < c.modulo => Ahead(c, n, 0) \in Nat
  BY <1>1, ModFacts DEF Ahead, SeqNo
<1>5. QED
  BY <1>1, <1>2, <1>3, <1>4 DEF Good, WindowOK

\* A new connection is well typed.
LEMMA NewConnType == NewConn \in Conn
<1>1. Mod8 \in {Mod8, Mod128} /\ << >> \in Seq(SeqNo \cup {Live, Gone})
  OBVIOUS
<1>2. QED
  BY ZenonT(60), <1>1, ConstantTypes DEF NewConn, Conn

\* remove leaves a well-typed, empty connection.
LEMMA RemoveType ==
  ASSUME NEW p \in Params, NEW c \in Conn
  PROVE  Good(p, Remove(c)) /\ Remove(c).state = "None"
<1> DEFINE Old(i) == IF c.deferred[i] # Live THEN c.deferred[i]
                     ELSE IF c.state = "Connected" THEN c.recvSeq ELSE Gone
           left == [i \in 1 .. Len(c.deferred) |-> Old(i)]
           d == [NewConn EXCEPT !.tx = c.tx, !.view = c.view, !.sent = c.sent,
                                !.dlv = c.dlv, !.deferred = left]
<1>1. c.deferred \in Seq(SeqNo \cup {Live, Gone}) /\ c.recvSeq \in SeqNo
  BY DEF Conn
<1>2. left \in Seq(SeqNo \cup {Live, Gone})
  <2>1. Len(c.deferred) \in Nat
    BY <1>1
  <2>2. \A i \in 1 .. Len(c.deferred) : Old(i) \in SeqNo \cup {Live, Gone}
    BY <1>1
  <2> HIDE DEF Old
  <2>3. QED
    BY <2>1, <2>2
<1>3. Remove(c) = d
  BY DEF Remove
<1> HIDE DEF left
<1>4. d \in Conn
  BY ZenonT(60), <1>2, NewConnType DEF Conn
<1>5. SameLink(NewConn, d)
  BY NewConnType DEF SameLink, Conn
<1>6. /\ NewConn.state = "None" /\ NewConn.sendSeq = 0 /\ NewConn.recvSeq = 0
      /\ NewConn.lastAcked = 0 /\ NewConn.unacked = 0 /\ NewConn.outQueue = << >>
      /\ NewConn.retransmitBuf = [n \in SeqNo |-> None]
  BY DEF NewConn
<1>7. Good(p, NewConn)
  BY <1>6, NewConnType, FreshGood
<1> HIDE DEF d
<1>8. QED
  BY <1>3, <1>4, <1>5, <1>6, <1>7, SameLinkGood DEF SameLink

(* What holds of the window fields of a good connection.                   *)
LEMMA GoodFacts ==
  ASSUME NEW p \in Params, NEW c, Good(p, c)
  PROVE  /\ c \in Conn
         /\ c.modulo \in Nat \ {0} /\ c.modulo \in {Mod8, Mod128} /\ c.modulo <= Mod128
         /\ p.maxWindow \in 1 .. 7 /\ p.maxWindow < c.modulo
         /\ c.sendSeq \in 0 .. c.modulo - 1 /\ c.recvSeq \in 0 .. c.modulo - 1
         /\ c.lastAcked \in 0 .. c.modulo - 1 /\ c.unacked \in Nat
         /\ c.outQueue \in Seq(Data) /\ c.retransmitBuf \in [SeqNo -> Info]
         /\ c.unacked = (c.sendSeq - c.lastAcked) % c.modulo
         /\ c.unacked <= p.maxWindow
<1>1. c \in Conn /\ WindowOK(p, c)
  BY DEF Good
<1>2. /\ c.modulo \in {Mod8, Mod128} /\ c.sendSeq \in SeqNo /\ c.recvSeq \in SeqNo
      /\ c.lastAcked \in SeqNo /\ c.unacked \in Nat
      /\ c.outQueue \in Seq(Data) /\ c.retransmitBuf \in [SeqNo -> Info]
  BY <1>1 DEF Conn
<1>3. p.maxWindow \in 1 .. 7 /\ p.maxWindow < Mod8
  BY DEF Params
<1>4. /\ c.modulo \in Nat \ {0} /\ c.modulo <= Mod128
      /\ p.maxWindow < c.modulo
  BY <1>2, <1>3, ModFacts
<1>5. /\ c.sendSeq < c.modulo /\ c.recvSeq < c.modulo /\ c.lastAcked < c.modulo
      /\ c.unacked = (c.sendSeq - c.lastAcked) % c.modulo
      /\ c.unacked <= p.maxWindow
  BY <1>1 DEF WindowOK, Ahead
<1>6. \A n \in SeqNo : n < c.modulo => n \in 0 .. c.modulo - 1
  BY <1>4, ModFacts DEF SeqNo
<1>7. QED
  BY <1>1, <1>2, <1>3, <1>4, <1>5, <1>6

\* Incremented sequence numbers stay below the modulus.
LEMMA PlusType ==
  ASSUME NEW c \in Conn, NEW n \in Int, NEW i \in Int
  PROVE  Plus(c, n, i) \in SeqNo /\ Plus(c, n, i) \in 0 .. c.modulo - 1
<1>1. c.modulo \in Nat \ {0} /\ c.modulo <= Mod128
  BY ModFacts DEF Conn
<1>2. (n + i) % c.modulo \in 0 .. c.modulo - 1
  BY <1>1
<1>3. QED
  BY <1>1, <1>2, ModFacts DEF Plus, SeqNo

\* drainOutbound keeps a connection good: what it sends extends the window up
\* to maxWindow and is buffered under the numbers it was sent with.
LEMMA DrainGood ==
  ASSUME NEW p \in Params, NEW c, Good(p, c)
  PROVE  /\ Good(p, DrainOutbound(p, c))
         /\ DrainOutbound(p, c).state = c.state /\ DrainOutbound(p, c).modulo = c.modulo
         /\ DrainOutbound(p, c).recvSeq = c.recvSeq
         /\ DrainOutbound(p, c).lastAcked = c.lastAcked
<1> DEFINE k == Room(p, c)
           fresh == [i \in Turns |->
                       IF i < k THEN <<IFrame(c, Plus(c, c.sendSeq, i), c.outQueue[i + 1])>>
                       ELSE << >>]
           buf == [n \in SeqNo |-> IF n < c.modulo /\ Ahead(c, n, c.sendSeq) < k
                                  THEN c.outQueue[Ahead(c, n, c.sendSeq) + 1]
                                  ELSE c.retransmitBuf[n]]
           rest == SubSeq(c.outQueue, k + 1, Len(c.outQueue))
           out == Emit(c, Loop(fresh))
           d == [out EXCEPT !.outQueue = rest, !.retransmitBuf = buf,
                            !.sendSeq = Plus(c, c.sendSeq, k), !.unacked = c.unacked + k,
                            !.t2 = FALSE, !.t1 = TRUE]
<1>1. DrainOutbound(p, c) = IF k = 0 THEN c ELSE d
  BY DEF DrainOutbound
<1>2. /\ c \in Conn /\ c.modulo \in Nat \ {0} /\ p.maxWindow \in 1 .. 7
      /\ p.maxWindow < c.modulo /\ c.modulo <= Mod128
      /\ c.sendSeq \in 0 .. c.modulo - 1 /\ c.recvSeq \in 0 .. c.modulo - 1
      /\ c.lastAcked \in 0 .. c.modulo - 1 /\ c.unacked \in Nat
      /\ c.outQueue \in Seq(Data) /\ c.retransmitBuf \in [SeqNo -> Info]
      /\ c.unacked = (c.sendSeq - c.lastAcked) % c.modulo
      /\ c.unacked <= p.maxWindow
  BY GoodFacts
<1>3. CASE k = 0
  BY <1>1, <1>3
<1>4. CASE k # 0
  <2>1. /\ k \in Nat /\ k <= Len(c.outQueue) /\ c.unacked + k <= p.maxWindow
        /\ c.unacked + k < c.modulo
    <3>1. Len(c.outQueue) \in Nat
      BY <1>2
    <3>2. ~(c.unacked >= p.maxWindow) /\ k = Minimum(Len(c.outQueue), p.maxWindow - c.unacked)
      BY <1>4, Zenon DEF Room
    <3>3. /\ c.unacked \in Nat /\ p.maxWindow \in Nat /\ p.maxWindow < c.modulo
          /\ c.modulo \in Nat
      <4>1. /\ c.unacked \in Nat /\ p.maxWindow \in 1 .. 7 /\ p.maxWindow < c.modulo
            /\ c.modulo \in Nat \ {0}
        BY <1>2, ZenonT(60)
      <4>2. QED
        BY <4>1
    <3> HIDE DEF k
    <3>4. c.unacked < p.maxWindow
      BY <3>2, <3>3
    <3>5. QED
      BY <3>1, <3>2, <3>3, <3>4 DEF Minimum
  <2> HIDE DEF k
  <2>2. \A i \in 0 .. k - 1 : c.outQueue[i + 1] \in Data /\ c.outQueue[i + 1] \in Info
    BY <1>2, <2>1 DEF Data, Info
  <2>3. fresh \in [Turns -> Seq(Frame)]
    <3>1. ASSUME NEW i \in Turns, i < k
          PROVE  IFrame(c, Plus(c, c.sendSeq, i), c.outQueue[i + 1]) \in Frame
      <4>1. Plus(c, c.sendSeq, i) \in SeqNo /\ Plus(c, c.sendSeq, i) < c.modulo
        BY <1>2, PlusType DEF Turns
      <4>2. i \in 0 .. k - 1
        BY <3>1, <2>1 DEF Turns
      <4>3. c.outQueue[i + 1] \in Info
        BY <4>2, <2>2
      <4>4. c.recvSeq \in 0 .. c.modulo - 1 /\ c.modulo \in Nat \ {0}
        BY <1>2, ZenonT(60)
      <4>5. c.recvSeq < c.modulo
        BY <4>4
      <4>6. QED
        BY <1>2, <4>1, <4>3, <4>5, IFrameType
    <3>2. QED
      BY <3>1
  <2>4. out \in Conn /\ SameLink(c, out)
    BY ZenonT(30), <1>2, <2>3, LoopType, EmitType
  <2>5. \A n \in SeqNo : n < c.modulo => Ahead(c, n, c.sendSeq) \in Nat
    BY SMTT(40), <1>2, ModFacts DEF Ahead, SeqNo
  <2>6. buf \in [SeqNo -> Info]
    <3>1. \A n \in SeqNo : n < c.modulo /\ Ahead(c, n, c.sendSeq) < k
                            => c.outQueue[Ahead(c, n, c.sendSeq) + 1] \in Info
      BY <2>1, <2>2, <2>5
    <3>2. QED
      BY <1>2, <3>1
  <2>7. rest \in Seq(Data)
    <3>1. c.outQueue \in Seq(Data)
      BY <1>2
    <3>2. QED
      BY <3>1, <2>1, SMTT(60)
  <2>8. Plus(c, c.sendSeq, k) \in SeqNo /\ c.unacked + k \in Nat
    BY <1>2, <2>1, PlusType
  <2> DEFINE m == c.modulo
             vs == c.sendSeq
             va == c.lastAcked
  <2>w. /\ (vs + k) % m \in 0 .. m - 1
        /\ (((vs + k) % m) - va) % m = c.unacked + k
        /\ \A n \in 0 .. m - 1 : (n - va) % m < c.unacked + k
                                 <=> (n - va) % m < c.unacked \/ (n - vs) % m < k
    <3>1. m \in Nat \ {0} /\ vs \in 0 .. m - 1 /\ va \in 0 .. m - 1
          /\ ((vs - va) % m) + k < m /\ (vs - va) % m = c.unacked
      BY <1>2, <2>1
    <3> HIDE DEF m, vs, va
    <3>2. k \in Nat
      BY <2>1
    <3>3. /\ (vs + k) % m \in 0 .. m - 1
          /\ (((vs + k) % m) - va) % m = ((vs - va) % m) + k
          /\ \A n \in 0 .. m - 1 : (n - va) % m < ((vs - va) % m) + k
                                   <=> (n - va) % m < (vs - va) % m \/ (n - vs) % m < k
      BY <3>1, <3>2, WindowGrows, Zenon
    <3>4. QED
      BY <3>1, <3>3, Zenon
  <2>9. \A n \in SeqNo : buf[n] # None
                          <=> n < c.modulo /\ Ahead(c, n, c.lastAcked) < c.unacked + k
    <3>1. ASSUME NEW n \in SeqNo
          PROVE  buf[n] # None
                  <=> n < c.modulo /\ Ahead(c, n, c.lastAcked) < c.unacked + k
      <4>1. c.retransmitBuf[n] # None
              <=> n < c.modulo /\ Ahead(c, n, c.lastAcked) < c.unacked
        BY DEF Good, WindowOK
      <4>2. n < c.modulo /\ Ahead(c, n, c.sendSeq) < k
              => c.outQueue[Ahead(c, n, c.sendSeq) + 1] # None
        BY <2>1, <2>2, <2>5 DEF Data
      <4>3. n < c.modulo => (Ahead(c, n, c.lastAcked) < c.unacked + k
              <=> Ahead(c, n, c.lastAcked) < c.unacked \/ Ahead(c, n, c.sendSeq) < k)
        <5>1. n < c.modulo => n \in 0 .. c.modulo - 1
          BY ModFacts, <1>2 DEF SeqNo
        <5>2. QED
          BY <5>1, <2>w DEF Ahead
      <4>4. QED
        BY <4>1, <4>2, <4>3
    <3>2. QED
      BY <3>1
  <2>10. /\ Plus(c, c.sendSeq, k) < c.modulo
         /\ Ahead(c, Plus(c, c.sendSeq, k), c.lastAcked) = c.unacked + k
    BY SMTT(40), <1>2, <2>w DEF Plus, Ahead
  <2>11. c.state \notin {"None", "Connecting"}
    BY <1>2, <1>4, <2>1 DEF Good, WindowOK
  <2> HIDE DEF fresh, buf, rest, out
  <2>12. /\ d \in Conn /\ d.state = c.state /\ d.modulo = c.modulo
         /\ d.recvSeq = c.recvSeq /\ d.lastAcked = c.lastAcked
         /\ d.sendSeq = Plus(c, c.sendSeq, k) /\ d.unacked = c.unacked + k
         /\ d.retransmitBuf = buf
    BY ZenonT(60), <2>4, <2>6, <2>7, <2>8 DEF Conn, SameLink
  <2> HIDE DEF d
  <2>13. WindowOK(p, d)
    BY SMTT(60), <1>2, <2>1, <2>9, <2>10, <2>11, <2>12 DEF WindowOK, Ahead
  <2>14. QED
    BY <1>1, <1>4, <2>12, <2>13 DEF Good
<1>5. QED
  BY <1>3, <1>4

\* ackFrames keeps a connection good: N(R) inside the window shortens it from
\* below, any other N(R) leaves it alone.
LEMMA AckGood ==
  ASSUME NEW p \in Params, NEW c, Good(p, c), NEW nr \in 0 .. c.modulo - 1
  PROVE  /\ Good(p, AckFrames(p, c, nr))
         /\ AckFrames(p, c, nr).state = c.state /\ AckFrames(p, c, nr).modulo = c.modulo
         /\ AckFrames(p, c, nr).recvSeq = c.recvSeq
<1> DEFINE m == c.modulo
           vs == c.sendSeq
           va == c.lastAcked
           newly == Ahead(c, nr, c.lastAcked)
           left == [n \in SeqNo |-> IF n < c.modulo /\ Ahead(c, n, c.lastAcked) < newly
                                   THEN None ELSE c.retransmitBuf[n]]
           un == IF newly <= c.unacked THEN c.unacked - newly ELSE 0
           d == [c EXCEPT !.t1Polls = 0, !.asked = 0, !.retransmitBuf = left,
                          !.lastAcked = nr, !.unacked = un, !.t1 = Holds(left)]
<1>1. AckFrames(p, c, nr) = IF newly = 0 \/ newly > Ahead(c, c.sendSeq, c.lastAcked)
                            THEN c ELSE DrainOutbound(p, d)
  BY DEF AckFrames
<1>2. CASE newly = 0 \/ newly > Ahead(c, c.sendSeq, c.lastAcked)
  BY <1>1, <1>2
<1>3. CASE ~(newly = 0 \/ newly > Ahead(c, c.sendSeq, c.lastAcked))
  <2>1. /\ c \in Conn /\ m \in Nat \ {0} /\ m <= Mod128 /\ vs \in 0 .. m - 1
        /\ va \in 0 .. m - 1 /\ nr \in 0 .. m - 1
        /\ c.unacked = (vs - va) % m /\ c.retransmitBuf \in [SeqNo -> Info]
        /\ p.maxWindow \in 1 .. 7 /\ c.unacked \in Nat /\ c.unacked <= p.maxWindow
    BY GoodFacts, Zenon
  <2>2. (nr - va) % m \in Nat
    <3> HIDE DEF m, va
    <3>1. QED
      BY <2>1
  <2>3. newly \in Nat /\ newly <= c.unacked /\ newly # 0
    BY <1>3, <2>1, <2>2 DEF Ahead
  <2>4. (nr - va) % m <= (vs - va) % m
    BY <2>1, <2>3 DEF Ahead
  <2>5. /\ (vs - nr) % m = ((vs - va) % m) - ((nr - va) % m)
        /\ \A n \in 0 .. m - 1 : (n - nr) % m < (vs - nr) % m
              <=> (n - va) % m < (vs - va) % m /\ ~((n - va) % m < (nr - va) % m)
    <3> HIDE DEF m, vs, va
    <3>1. QED
      BY <2>1, <2>4, WindowShrinks, Zenon
  <2>6. un = c.unacked - newly /\ un \in Nat /\ un <= p.maxWindow
    BY <2>1, <2>3
  <2>7. un = Ahead(c, c.sendSeq, nr)
    <3>1. c.unacked = (vs - va) % m /\ (vs - nr) % m = ((vs - va) % m) - ((nr - va) % m)
      BY <2>1, <2>5, Zenon
    <3>2. un = c.unacked - ((nr - va) % m)
      BY <2>6 DEF Ahead
    <3>3. un = (vs - nr) % m
      BY <3>1, <3>2
    <3>4. QED
      BY <3>3 DEF Ahead
  <2>8. \A n \in SeqNo : left[n] # None <=> n < c.modulo /\ Ahead(c, n, nr) < un
    <3>1. ASSUME NEW n \in SeqNo
          PROVE  left[n] # None <=> n < c.modulo /\ Ahead(c, n, nr) < un
      <4>1. c.retransmitBuf[n] # None
              <=> n < c.modulo /\ Ahead(c, n, c.lastAcked) < c.unacked
        BY DEF Good, WindowOK
      <4>2. n < c.modulo => n \in 0 .. m - 1
        BY ModFacts, <2>1 DEF SeqNo
      <4>3. n < c.modulo => (Ahead(c, n, nr) < un
              <=> Ahead(c, n, c.lastAcked) < c.unacked /\ ~(Ahead(c, n, c.lastAcked) < newly))
        BY <4>2, <2>1, <2>5, <2>7 DEF Ahead
      <4>4. QED
        BY <4>1, <4>3
    <3>2. QED
      BY <3>1
  <2>9. left \in [SeqNo -> Info]
    BY <2>1, ConstantTypes
  <2>10. c.state \notin {"None", "Connecting"}
    <3>1. SUFFICES ASSUME c.state \in {"None", "Connecting"} PROVE FALSE
      OBVIOUS
    <3>2. vs = 0 /\ va = 0
      BY <3>1 DEF Good, WindowOK
    <3>3. c.unacked = 0
      BY <2>1, <3>2, ModSmall
    <3>4. QED
      BY <2>3, <3>3
  <2>11. Holds(left) \in BOOLEAN /\ nr \in SeqNo
    BY <2>1, ModFacts DEF Holds, SeqNo
  <2> HIDE DEF left, un
  <2>12. /\ d \in Conn /\ d.state = c.state /\ d.modulo = c.modulo /\ d.recvSeq = c.recvSeq
         /\ d.sendSeq = c.sendSeq /\ d.lastAcked = nr /\ d.unacked = un
         /\ d.retransmitBuf = left
    BY ZenonT(120), <2>1, <2>6, <2>9, <2>11 DEF Conn
  <2> HIDE DEF d
  <2>13. Good(p, d)
    <3>1. c.sendSeq < c.modulo /\ c.recvSeq < c.modulo /\ nr < c.modulo
      BY <2>1 DEF Good, WindowOK
    <3>2. QED
      BY <2>6, <2>7, <2>8, <2>10, <2>12, <3>1 DEF Good, WindowOK, Ahead
  <2>14. QED
    BY <1>1, <1>3, <2>12, <2>13, DrainGood
<1>4. QED
  BY <1>2, <1>3

\* Retransmission changes nothing but what is on the air.
LEMMA RetransmitType ==
  ASSUME NEW p \in Params, NEW c, Good(p, c), NEW from \in Nat, NEW to
  PROVE  /\ RetransmitRange(c, from, to) \in Conn
         /\ SameLink(c, RetransmitRange(c, from, to))
<1> DEFINE again == [i \in Turns |->
             IF /\ i < Ahead(c, to, from)
                /\ \A j \in 0 .. i : c.retransmitBuf[Plus(c, from, j)] # None
             THEN <<IFrame(c, Plus(c, from, i), c.retransmitBuf[Plus(c, from, i)])>>
             ELSE << >>]
<1>1. c \in Conn /\ c.recvSeq < c.modulo /\ c.retransmitBuf \in [SeqNo -> Info]
      /\ c.modulo \in Nat
  BY GoodFacts
<1>2. ASSUME NEW i \in Turns
      PROVE  IFrame(c, Plus(c, from, i), c.retransmitBuf[Plus(c, from, i)]) \in Frame
  <2>1. Plus(c, from, i) \in SeqNo /\ Plus(c, from, i) < c.modulo
    BY <1>1, PlusType DEF Turns
  <2>2. QED
    BY <1>1, <2>1, IFrameType
<1>3. again \in [Turns -> Seq(Frame)]
  BY <1>2
<1>4. RetransmitRange(c, from, to) = Emit(c, Loop(again))
  BY DEF RetransmitRange
<1> HIDE DEF again
<1>5. QED
  BY <1>1, <1>3, <1>4, LoopType, EmitType

-----------------------------------------------------------------------------
(* Requests of the owner and timer expiries.                               *)

\* Having the same link fields is transitive.
LEMMA SameLinkTrans ==
  ASSUME NEW c, NEW d, NEW e, SameLink(c, d), SameLink(d, e) PROVE SameLink(c, e)
  BY DEF SameLink

\* Connect keeps a connection good.
LEMMA ConnectGood ==
  ASSUME NEW p \in Params, NEW c \in Conn
  PROVE  Good(p, Connect(p, c))
<1> DEFINE r == ResetSeqs(c)
           m == IF p.version >= 22 THEN Mod128 ELSE Mod8
           fresh == [r EXCEPT !.state = "Connecting", !.t1Polls = 0,
                              !.triedFallback = FALSE, !.modulo = m, !.view = "trying"]
           d == SendSABM(fresh)
<1>1. Connect(p, c) = [d EXCEPT !.t1 = TRUE]
  BY DEF Connect
<1>2. /\ r \in Conn /\ r.sendSeq = 0 /\ r.recvSeq = 0 /\ r.lastAcked = 0 /\ r.unacked = 0
      /\ r.outQueue = << >> /\ r.retransmitBuf = [n \in SeqNo |-> None]
  BY ResetType
<1>3. m \in {Mod8, Mod128}
  OBVIOUS
<1> HIDE DEF r, m
<1>4. /\ fresh \in Conn /\ fresh.sendSeq = 0 /\ fresh.recvSeq = 0 /\ fresh.lastAcked = 0
      /\ fresh.unacked = 0 /\ fresh.outQueue = << >>
      /\ fresh.retransmitBuf = [n \in SeqNo |-> None]
  BY ZenonT(120), <1>2, <1>3 DEF Conn
<1> HIDE DEF fresh
<1>5. Good(p, fresh)
  BY <1>4, FreshGood
<1>6. d \in Conn /\ SameLink(fresh, d)
  BY ZenonT(30), <1>4, SendTypes
<1> HIDE DEF d
<1>7. [d EXCEPT !.t1 = TRUE] \in Conn /\ SameLink(d, [d EXCEPT !.t1 = TRUE])
  BY ZenonT(60), <1>6 DEF Conn, SameLink
<1>8. QED
  BY <1>1, <1>5, <1>6, <1>7, SameLinkTrans, SameLinkGood

\* Disconnect keeps a connection good.
LEMMA DisconnectGood ==
  ASSUME NEW p \in Params, NEW c, Good(p, c)
  PROVE  Good(p, Disconnect(c))
<1> DEFINE d == Emit(c, <<U(c, "DISC", TRUE, TRUE)>>)
           x == [d EXCEPT !.state = "Disconnecting", !.t1Polls = 0, !.t1 = TRUE]
<1>1. c \in Conn /\ "DISC" \in UFrames
  BY DEF Good, UFrames
<1>2. d \in Conn /\ SameLink(c, d)
  BY ZenonT(30), <1>1, UType, EmitOne
<1>3. Disconnect(c) = x
  BY DEF Disconnect
<1> HIDE DEF d
<1>4. /\ x \in Conn /\ x.state = "Disconnecting" /\ x.modulo = d.modulo
      /\ x.sendSeq = d.sendSeq /\ x.recvSeq = d.recvSeq /\ x.lastAcked = d.lastAcked
      /\ x.unacked = d.unacked /\ x.retransmitBuf = d.retransmitBuf
  BY ZenonT(60), <1>2 DEF Conn
<1> HIDE DEF x
<1>5. QED
  BY <1>2, <1>3, <1>4 DEF Good, WindowOK, Ahead, SameLink

\* SendData keeps a connection good.
LEMMA SendDataGood ==
  ASSUME NEW p \in Params, NEW c, Good(p, c), c.state = "Connected", NEW x \in Data
  PROVE  Good(p, SendData(p, c, x))
<1> DEFINE d == [c EXCEPT !.outQueue = Append(c.outQueue, x), !.sent = Append(c.sent, x)]
<1>1. SendData(p, c, x) = IF Len(c.outQueue) >= MaxOutQueue THEN DrainOutbound(p, c)
                          ELSE DrainOutbound(p, d)
  BY DEF SendData
<1>2. Append(c.outQueue, x) \in Seq(Data) /\ Append(c.sent, x) \in Seq(Data) /\ c \in Conn
  BY DEF Good, Conn
<1>3. /\ d \in Conn /\ d.state = c.state /\ d.modulo = c.modulo
      /\ d.sendSeq = c.sendSeq /\ d.recvSeq = c.recvSeq /\ d.lastAcked = c.lastAcked
      /\ d.unacked = c.unacked /\ d.retransmitBuf = c.retransmitBuf
  BY ZenonT(60), <1>2 DEF Conn
<1> HIDE DEF d
<1>4. Good(p, d)
  BY <1>3 DEF Good, WindowOK, Ahead
<1>5. QED
  BY <1>1, <1>4, DrainGood

\* Giving up after N2 keeps a connection good.
LEMMA TimeOutGood ==
  ASSUME NEW p \in Params, NEW c \in Conn
  PROVE  Good(p, TimeOut(c))
<1> DEFINE d == TellDown(c)
<1>1. d \in Conn
  BY TellTypes
<1> HIDE DEF d
<1>2. [d EXCEPT !.state = "None"] \in Conn
  BY ZenonT(60), <1>1 DEF Conn
<1>3. TimeOut(c) = Remove([d EXCEPT !.state = "None"])
  BY DEF TimeOut, d
<1>4. QED
  BY <1>2, <1>3, RemoveType

\* RemoveOwned and PortOffline leave good connections.
LEMMA RemoveOwnedGood ==
  ASSUME NEW p \in Params, NEW c \in Conn
  PROVE  Good(p, RemoveOwned(c)) /\ Good(p, PortOffline(c))
<1> DEFINE bye == IF c.state \in {"Connected", "Connecting"}
                  THEN Emit(c, <<U(c, "DISC", TRUE, TRUE)>>) ELSE c
           d == Remove(bye)
<1>1. "DISC" \in UFrames
  BY DEF UFrames
<1>2. bye \in Conn
  BY ZenonT(30), <1>1, UType, EmitOne
<1> HIDE DEF bye
<1>3. Good(p, d)
  BY <1>2, RemoveType
<1>4. RemoveOwned(c) = [d EXCEPT !.view = "idle"]
  BY DEF RemoveOwned, bye
<1> HIDE DEF d
<1>5. [d EXCEPT !.view = "idle"] \in Conn /\ SameLink(d, [d EXCEPT !.view = "idle"])
  BY ZenonT(30), <1>3 DEF Good, Conn, SameLink
<1>6. Good(p, RemoveOwned(c))
  BY <1>3, <1>4, <1>5, SameLinkGood
<1>7. Good(p, PortOffline(c))
  BY TellTypes, RemoveType DEF PortOffline
<1>8. QED
  BY <1>6, <1>7

(* T1 while calling: the SABM is repeated, perhaps after falling back.  A   *)
(* connection being set up has an empty window, so its modulus may change. *)
LEMMA ModuloGood ==
  ASSUME NEW p \in Params, NEW c, Good(p, c), c.state \in {"None", "Connecting"}, NEW d \in Conn,
         d.sendSeq = c.sendSeq, d.recvSeq = c.recvSeq, d.lastAcked = c.lastAcked,
         d.unacked = c.unacked, d.outQueue = c.outQueue, d.retransmitBuf = c.retransmitBuf
  PROVE  Good(p, d)
<1>1. /\ c \in Conn /\ c.modulo \in Nat \ {0} /\ c.unacked = Ahead(c, 0, 0)
      /\ c.sendSeq = 0 /\ c.recvSeq = 0 /\ c.lastAcked = 0 /\ c.outQueue = << >>
  <2>1. /\ c \in Conn /\ c.sendSeq = 0 /\ c.recvSeq = 0 /\ c.lastAcked = 0
        /\ c.outQueue = << >> /\ c.unacked = Ahead(c, c.sendSeq, c.lastAcked)
    BY DEF Good, WindowOK
  <2>2. c.modulo \in Nat \ {0}
    BY GoodFacts
  <2>3. QED
    BY <2>1, <2>2, Zenon
<1>2. c.unacked = 0
  BY <1>1, ModSmall DEF Ahead
<1>3. \A n \in SeqNo : c.retransmitBuf[n] = None
  <2>1. \A n \in SeqNo : n < c.modulo => ~(Ahead(c, n, c.lastAcked) < 0)
    BY <1>1, ModFacts DEF Ahead, SeqNo
  <2>2. QED
    BY <1>2, <2>1 DEF Good, WindowOK
<1>4. c.retransmitBuf \in [SeqNo -> Info]
  BY <1>1 DEF Conn
<1>5. c.retransmitBuf = [n \in SeqNo |-> None]
  BY <1>3, <1>4
<1>6. QED
  BY <1>1, <1>2, <1>5, FreshGood

\* The retransmissions of t1Expired keep a connection good.
LEMMA RetryGood ==
  ASSUME NEW p \in Params, NEW c, Good(p, c)
  PROVE  Good(p, Retry(p, c))
<1> DEFINE fall == c.modulo = Mod128 /\ ~c.triedFallback /\ c.t1Polls >= p.n2 \div 3
           m == IF fall THEN Mod8 ELSE c.modulo
           tried == fall \/ c.triedFallback
           call == [c EXCEPT !.modulo = m, !.triedFallback = tried]
           e == SendEnquiry(c)
<1>1. c \in Conn
  BY DEF Good
<1>2. Retry(p, c) =
        CASE c.state = "Disconnecting" -> Emit(c, <<U(c, "DISC", TRUE, TRUE)>>)
          [] c.state = "Connecting" -> SendSABM(call)
          [] c.state = "Connected" ->
               IF c.t1Polls > 1 THEN RetransmitFrom(e, c.lastAcked) ELSE e
          [] OTHER -> c
  BY DEF Retry
<1>3. CASE c.state = "Disconnecting"
  <2>1. "DISC" \in UFrames
    BY DEF UFrames
  <2>2. Retry(p, c) = Emit(c, <<U(c, "DISC", TRUE, TRUE)>>)
    BY <1>2, <1>3
  <2>3. QED
    BY ZenonT(30), <1>1, <2>1, <2>2, UType, EmitOne, SameLinkGood
<1>4. CASE c.state = "Connecting"
  <2>1. m \in {Mod8, Mod128} /\ tried \in BOOLEAN
    BY <1>1 DEF Conn
  <2>2. Retry(p, c) = SendSABM(call)
    BY <1>2, <1>4
  <2> HIDE DEF m, tried
  <2>3. /\ call \in Conn /\ call.sendSeq = c.sendSeq /\ call.recvSeq = c.recvSeq
        /\ call.lastAcked = c.lastAcked /\ call.unacked = c.unacked
        /\ call.outQueue = c.outQueue /\ call.retransmitBuf = c.retransmitBuf
    BY ZenonT(60), <1>1, <2>1 DEF Conn
  <2> HIDE DEF call
  <2>4. Good(p, call)
    BY <1>4, <2>3, ModuloGood
  <2>5. QED
    BY ZenonT(30), <2>2, <2>3, <2>4, SendTypes, SameLinkGood
<1>5. CASE c.state = "Connected"
  <2>1. Retry(p, c) = IF c.t1Polls > 1 THEN RetransmitFrom(e, c.lastAcked) ELSE e
    BY <1>2, <1>5
  <2>2. e \in Conn /\ Good(p, e)
    BY ZenonT(30), <1>1, SendTypes, SameLinkGood
  <2> HIDE DEF e
  <2>3. c.lastAcked \in Nat
    BY <1>1, ModFacts DEF Conn, SeqNo
  <2>4. Good(p, RetransmitFrom(e, c.lastAcked))
    BY <2>2, <2>3, RetransmitType, SameLinkGood DEF RetransmitFrom
  <2>5. QED
    BY <2>1, <2>2, <2>4
<1>6. CASE c.state \notin {"Disconnecting", "Connecting", "Connected"}
  BY <1>2, <1>6
<1>7. QED
  BY <1>3, <1>4, <1>5, <1>6

\* t1Expired keeps a connection good.
LEMMA T1Good ==
  ASSUME NEW p \in Params, NEW c, Good(p, c)
  PROVE  Good(p, T1Expired(p, c))
<1> DEFINE stop == [c EXCEPT !.t1 = FALSE]
           d == [c EXCEPT !.t1 = FALSE, !.t1Polls = c.t1Polls + 1]
           again == [d EXCEPT !.t1 = TRUE]
<1>1. c \in Conn
  BY DEF Good
<1>2. c.t1Polls + 1 \in Nat
  BY <1>1 DEF Conn
<1>3. T1Expired(p, c) = IF c.state = "None" THEN stop
                        ELSE IF d.t1Polls > p.n2 THEN TimeOut(d) ELSE Retry(p, again)
  BY DEF T1Expired
<1>4. stop \in Conn /\ SameLink(c, stop) /\ d \in Conn /\ SameLink(c, d)
  BY ZenonT(60), <1>1, <1>2 DEF Conn, SameLink
<1> HIDE DEF stop, d
<1>5. again \in Conn /\ SameLink(d, again)
  BY ZenonT(60), <1>4 DEF Conn, SameLink
<1> HIDE DEF again
<1>6. Good(p, stop) /\ Good(p, d) /\ Good(p, again)
  BY <1>4, <1>5, SameLinkGood
<1>7. Good(p, TimeOut(d)) /\ Good(p, Retry(p, again))
  BY <1>4, <1>6, TimeOutGood, RetryGood
<1>8. QED
  BY <1>3, <1>6, <1>7

\* t2Expired and t3Expired keep a connection good.
LEMMA T2T3Good ==
  ASSUME NEW p \in Params, NEW c, Good(p, c)
  PROVE  Good(p, T2Expired(c)) /\ Good(p, T3Expired(c))
<1>1. c \in Conn
  BY DEF Good
<1>2. Good(p, T2Expired(c))
  <2> DEFINE d == [c EXCEPT !.t2 = FALSE]
  <2>1. d \in Conn /\ SameLink(c, d)
    BY ZenonT(60), <1>1 DEF Conn, SameLink
  <2>2. T2Expired(c) = IF c.state = "Connected" THEN SendRR(d, FALSE) ELSE d
    BY DEF T2Expired
  <2> HIDE DEF d
  <2>3. Good(p, d)
    BY <2>1, SameLinkGood
  <2>4. SendRR(d, FALSE) \in Conn /\ SameLink(d, SendRR(d, FALSE))
    BY ZenonT(30), <2>1, SendTypes
  <2>5. QED
    BY ZenonT(30), <2>2, <2>3, <2>4, SameLinkGood
<1>3. Good(p, T3Expired(c))
  <2> DEFINE d == [c EXCEPT !.t3 = FALSE]
             e == SendEnquiry(d)
             x == [e EXCEPT !.t1Polls = 0, !.t1 = TRUE]
  <2>1. d \in Conn /\ SameLink(c, d)
    BY ZenonT(60), <1>1 DEF Conn, SameLink
  <2>2. T3Expired(c) = IF c.state = "Connected" THEN x ELSE d
    BY DEF T3Expired
  <2> HIDE DEF d
  <2>3. e \in Conn /\ SameLink(d, e)
    BY ZenonT(30), <2>1, SendTypes
  <2> HIDE DEF e
  <2>4. x \in Conn /\ SameLink(e, x)
    BY ZenonT(60), <2>3 DEF Conn, SameLink
  <2> HIDE DEF x
  <2>5. SameLink(c, x)
    BY <2>1, <2>3, <2>4, SameLinkTrans
  <2>6. QED
    BY <2>1, <2>2, <2>4, <2>5, SameLinkGood
<1>4. QED
  BY <1>2, <1>3

\* Running a deferred answer keeps a connection good.
LEMMA RunDeferredGood ==
  ASSUME NEW p \in Params, NEW c, Good(p, c), c.deferred # << >>
  PROVE  Good(p, RunDeferred(c))
<1> DEFINE d == [c EXCEPT !.deferred = Tail(c.deferred)]
           nr == IF Head(c.deferred) = Live THEN c.recvSeq ELSE Head(c.deferred)
           due == \/ Head(c.deferred) = Live /\ c.state = "Connected"
                  \/ Head(c.deferred) \in SeqNo
<1>1. /\ c \in Conn /\ c.deferred \in Seq(SeqNo \cup {Live, Gone}) /\ c.recvSeq \in SeqNo
      /\ "RR" \in SFrames
  BY DEF Good, Conn, SFrames
<1>2. Tail(c.deferred) \in Seq(SeqNo \cup {Live, Gone})
  BY <1>1
<1>3. d \in Conn /\ SameLink(c, d)
  BY ZenonT(60), <1>1, <1>2 DEF Conn, SameLink
<1>4. due => nr \in SeqNo
  BY <1>1
<1>5. RunDeferred(c) = IF due THEN Emit(d, <<S(d, "RR", FALSE, TRUE, nr)>>) ELSE d
  BY DEF RunDeferred
<1> HIDE DEF d, nr, due
<1>6. CASE due
  BY ZenonT(30), <1>1, <1>3, <1>4, <1>5, <1>6, SType, EmitOne, SameLinkTrans, SameLinkGood
<1>7. CASE ~due
  BY <1>3, <1>5, <1>7, SameLinkGood
<1>8. QED
  BY <1>6, <1>7
=============================================================================
