--------------------------------- MODULE L2 ---------------------------------
(***************************************************************************)
(* One AX.25 connection of the layer-2 table (ax25/l2): its state as a     *)
(* record and every operation of the table on it as an operator from       *)
(* record to record.  The event loop runs one operation at a time, so an   *)
(* operator is one atomic step; the modules that EXTEND this one decide    *)
(* which operation runs when.                                              *)
(*                                                                         *)
(* Abstractions.  A chunk of client data is a number (0 stands for "no     *)
(* entry" in the two buffers); chunks are full I-frames, which             *)
(* drainOutbound never coalesces.  A timer is a flag: an armed timer may   *)
(* fire at any moment, so T1's adaptive value is not kept.  A call of      *)
(* Hooks.SendAX25 appends to tx, the frames on their way to the peer; a    *)
(* call of Hooks.Connected, Data, Disconnected or ConnectFailed updates    *)
(* view, what the owner was told, and dlv, the data it was handed.  Two    *)
(* more fields are history that no operation reads: sent, the chunks       *)
(* accepted since the last reset, and asked, the enquiries sent since the  *)
(* peer last showed progress.                                              *)
(*                                                                         *)
(* A definition named after a mistake (RoomPastWindow, ...)                *)
(* is a faulty variant of the definition that follows it.  No definition   *)
(* uses it: it shows which mistake in the code a property would catch.     *)
(***************************************************************************)
EXTENDS Integers, Sequences

CONSTANTS Mod8,       \* sequence modulus of a basic link (8 in the code)
          Mod128,     \* sequence modulus of an extended link (128 in the code)
          MaxOutQueue,\* chunks outQueue holds (512 in the code)
          MaxTx       \* frames that fit between two stations (kiss.Port queue)

\* Both moduli divide 256, so the code's uint8 differences taken modulo
\* c.modulo are differences modulo c.modulo.
ASSUME ModAssumption == /\ Mod8 \in Nat \ {0, 1}
                        /\ Mod128 \in Nat
                        /\ Mod8 < Mod128
                        /\ 256 % Mod8 = 0
                        /\ 256 % Mod128 = 0
ASSUME QueueAssumption == MaxTx \in Nat \ {0} /\ MaxOutQueue \in Nat \ {0}

None == 0
Corrupt == -1
SeqNo == 0 .. Mod128 - 1
Data == Int \ {None}
Info == Int

\* PortParams: what the port's configuration lets a connection do.  The
\* configuration clamps MaxWindow to 1..7; tests and TLC use small moduli, and
\* the window always stays below the modulus.
Params == [maxWindow : {w \in 1 .. 7 : w < Mod8}, n2 : Nat \ {0},
           version : {20, 22}, srej : BOOLEAN, t3 : BOOLEAN]

UFrames == {"SABM", "SABME", "UA", "DM", "DISC", "FRMR", "XID"}
SFrames == {"RR", "RNR", "REJ", "SREJ"}

\* A frame: cmd is the command bit, pf the P/F bit, mod the modulus it was
\* encoded with.  In an XID frame info is 1 when it offers SREJ.
FrameFields == [type : UFrames \cup SFrames \cup {"I"}, cmd : BOOLEAN, pf : BOOLEAN,
                nr : SeqNo, ns : SeqNo, info : Info, mod : {Mod8, Mod128}]
Frame == {f \in FrameFields : f.nr < f.mod /\ f.ns < f.mod}

\* A poll answer queued on the event loop is Live while it refers to the
\* connection in the table.  Once that connection was removed it is the N(R)
\* it will still send, or Gone when it will find a State other than Connected.
Live == -1
Gone == -2

Conn == [state : {"None", "Connecting", "Connected", "Disconnecting"},
         modulo : {Mod8, Mod128},
         sendSeq : SeqNo, recvSeq : SeqNo, lastAcked : SeqNo, unacked : Nat,
         outQueue : Seq(Data), retransmitBuf : [SeqNo -> Info],
         rxBuf : [SeqNo -> Info], srejSent : SUBSET SeqNo,
         remoteBusy : BOOLEAN, polling : BOOLEAN, rejSent : BOOLEAN,
         xidPending : BOOLEAN, srejEnabled : BOOLEAN, triedFallback : BOOLEAN,
         t1 : BOOLEAN, t2 : BOOLEAN, t3 : BOOLEAN, t1Polls : Nat,
         tx : Seq(Frame), deferred : Seq(SeqNo \cup {Live, Gone}),
         view : {"idle", "trying", "up"}, sent : Seq(Data), dlv : Seq(Info),
         asked : Nat]

\* newConn, before the handler that creates it moves it out of Disconnected;
\* "None" is a key without an entry in the table.
NewConn == [state |-> "None", modulo |-> Mod8,
            sendSeq |-> 0, recvSeq |-> 0, lastAcked |-> 0, unacked |-> 0,
            outQueue |-> << >>, retransmitBuf |-> [n \in SeqNo |-> None],
            rxBuf |-> [n \in SeqNo |-> None], srejSent |-> {},
            remoteBusy |-> FALSE, polling |-> FALSE, rejSent |-> FALSE,
            xidPending |-> FALSE, srejEnabled |-> FALSE, triedFallback |-> FALSE,
            t1 |-> FALSE, t2 |-> FALSE, t3 |-> FALSE, t1Polls |-> 0,
            tx |-> << >>, deferred |-> << >>,
            view |-> "idle", sent |-> << >>, dlv |-> << >>, asked |-> 0]

-----------------------------------------------------------------------------
(* Sequence arithmetic and bounded loops.                                  *)

Minimum(a, b) == IF a <= b THEN a ELSE b

\* How far n lies ahead of base, modulo the connection's modulus.
Ahead(c, n, base) == (n - base) % c.modulo
Plus(c, n, i) == (n + i) % c.modulo

\* The loops of l2.go that send or deliver frames run over at most MaxWindow
\* sequence numbers, and MaxWindow is at most 7.  body[i] is what iteration i
\* contributes: one element or none.
Turns == 0 .. 6
Loop(body) ==
  body[0] \o body[1] \o body[2] \o body[3] \o body[4] \o body[5] \o body[6]

Holds(buf) == \E n \in SeqNo : buf[n] # None

-----------------------------------------------------------------------------
(* Frames on their way to the peer.                                        *)

\* Hooks.SendAX25: frames past MaxTx are dropped, as kiss.Port.Send does.
Emit(c, fs) ==
  LET all == c.tx \o fs
  IN  [c EXCEPT !.tx = SubSeq(all, 1, Minimum(Len(all), MaxTx))]

U(c, type, cmd, pf) ==
  [type |-> type, cmd |-> cmd, pf |-> pf, nr |-> 0, ns |-> 0, info |-> None, mod |-> c.modulo]
\* N(R) is cut to the width of the control field.
S(c, type, cmd, pf, nr) ==
  [type |-> type, cmd |-> cmd, pf |-> pf, nr |-> nr % c.modulo, ns |-> 0, info |-> None,
   mod |-> c.modulo]
IFrame(c, ns, info) ==
  [type |-> "I", cmd |-> TRUE, pf |-> FALSE, nr |-> c.recvSeq, ns |-> ns, info |-> info,
   mod |-> c.modulo]

SendSABM(c) == Emit(c, <<U(c, IF c.modulo = Mod128 THEN "SABME" ELSE "SABM", TRUE, TRUE)>>)
SendEnquiry(c) ==
  [Emit(c, <<S(c, "RR", TRUE, TRUE, c.recvSeq)>>) EXCEPT !.polling = TRUE, !.asked = @ + 1]
SendRR(c, pf) == Emit(c, <<S(c, "RR", FALSE, pf, c.recvSeq)>>)

-----------------------------------------------------------------------------
(* What the owner of the connection is told.                               *)

TellConnected(c) == [c EXCEPT !.view = "up", !.dlv = << >>, !.asked = 0]
TellDown(c) == [c EXCEPT !.view = "idle"]

-----------------------------------------------------------------------------
(* Connection bookkeeping.                                                 *)

ResetSeqs(c) ==
  [c EXCEPT !.sendSeq = 0, !.recvSeq = 0, !.unacked = 0, !.lastAcked = 0,
            !.outQueue = << >>, !.retransmitBuf = NewConn.retransmitBuf,
            !.rxBuf = NewConn.rxBuf, !.srejSent = {}, !.remoteBusy = FALSE,
            !.polling = FALSE, !.rejSent = FALSE, !.xidPending = FALSE,
            !.srejEnabled = FALSE, !.sent = << >>]

\* remove: timers cancelled, entry deleted.  The removed object keeps its
\* State, so an answer deferred for it is still sent when it was Connected.
Remove(c) ==
  [NewConn EXCEPT
     !.tx = c.tx, !.view = c.view, !.sent = c.sent, !.dlv = c.dlv,
     !.deferred = [i \in 1 .. Len(c.deferred) |->
                     IF c.deferred[i] # Live THEN c.deferred[i]
                     ELSE IF c.state = "Connected" THEN c.recvSeq ELSE Gone]]

\* State = Disconnected, the owner is told, the entry is deleted.
TimeOut(c) == Remove([TellDown(c) EXCEPT !.state = "None"])

CancelTimers(c) == [c EXCEPT !.t1 = FALSE, !.t2 = FALSE, !.t3 = FALSE]

StartT3Never(p, c) == c
StartT3(p, c) == [c EXCEPT !.t3 = p.t3]

-----------------------------------------------------------------------------
(* Sending data and acknowledging it.                                      *)

RoomPastWindow(p, c) ==
  IF c.remoteBusy \/ c.unacked > p.maxWindow THEN 0
  ELSE Minimum(Len(c.outQueue), p.maxWindow + 1 - c.unacked)
\* How many queued chunks the window admits.
Room(p, c) ==
  IF c.remoteBusy \/ c.unacked >= p.maxWindow THEN 0
  ELSE Minimum(Len(c.outQueue), p.maxWindow - c.unacked)

\* drainOutbound: fill the window from the queue.
DrainOutbound(p, c) ==
  LET k == Room(p, c)
      fresh == [i \in Turns |->
                  IF i < k THEN <<IFrame(c, Plus(c, c.sendSeq, i), c.outQueue[i + 1])>>
                  ELSE << >>]
  IN  IF k = 0 THEN c
      ELSE [Emit(c, Loop(fresh)) EXCEPT
              !.outQueue = SubSeq(c.outQueue, k + 1, Len(c.outQueue)),
              !.retransmitBuf =
                 [n \in SeqNo |-> IF n < c.modulo /\ Ahead(c, n, c.sendSeq) < k
                                  THEN c.outQueue[Ahead(c, n, c.sendSeq) + 1]
                                  ELSE c.retransmitBuf[n]],
              !.sendSeq = Plus(c, c.sendSeq, k),
              !.unacked = c.unacked + k,
              !.t2 = FALSE,
              !.t1 = TRUE]

\* ackFrames: N(R) = nr acknowledges everything before nr, unless it names a
\* frame that was never sent.
AckFrames(p, c, nr) ==
  LET newly == Ahead(c, nr, c.lastAcked)
      left == [n \in SeqNo |-> IF n < c.modulo /\ Ahead(c, n, c.lastAcked) < newly
                               THEN None ELSE c.retransmitBuf[n]]
  IN  IF newly = 0 \/ newly > Ahead(c, c.sendSeq, c.lastAcked) THEN c
      ELSE DrainOutbound(p, [c EXCEPT
             !.t1Polls = 0,
             !.asked = 0,
             !.retransmitBuf = left,
             !.lastAcked = nr,
             !.unacked = IF newly <= c.unacked THEN c.unacked - newly ELSE 0,
             !.t1 = Holds(left)])

\* retransmitRange: resend from..to-1, up to the first number not buffered.
RetransmitRange(c, from, to) ==
  LET again == [i \in Turns |->
        IF /\ i < Ahead(c, to, from)
           /\ \A j \in 0 .. i : c.retransmitBuf[Plus(c, from, j)] # None
        THEN <<IFrame(c, Plus(c, from, i), c.retransmitBuf[Plus(c, from, i)])>>
        ELSE << >>]
  IN  Emit(c, Loop(again))

RetransmitFrom(c, from) == RetransmitRange(c, from, c.sendSeq)

-----------------------------------------------------------------------------
(* Requests of the owner.                                                  *)

ConnectUntimed(p, c) ==
  SendSABM([ResetSeqs(c) EXCEPT
              !.state = "Connecting", !.t1Polls = 0, !.triedFallback = FALSE,
              !.modulo = IF p.version >= 22 THEN Mod128 ELSE Mod8, !.view = "trying"])
Connect(p, c) ==
  LET fresh == [ResetSeqs(c) EXCEPT
                  !.state = "Connecting", !.t1Polls = 0, !.triedFallback = FALSE,
                  !.modulo = IF p.version >= 22 THEN Mod128 ELSE Mod8,
                  !.view = "trying"]
  IN  [SendSABM(fresh) EXCEPT !.t1 = TRUE]

Disconnect(c) ==
  [Emit(c, <<U(c, "DISC", TRUE, TRUE)>>) EXCEPT
     !.state = "Disconnecting", !.t1Polls = 0, !.t1 = TRUE]

\* SendData for one chunk: dropped when the queue is full.
SendData(p, c, d) ==
  IF Len(c.outQueue) >= MaxOutQueue THEN DrainOutbound(p, c)
  ELSE DrainOutbound(p, [c EXCEPT !.outQueue = Append(@, d), !.sent = Append(@, d)])

\* RemoveOwned: the owner is gone, so nobody is told.
RemoveOwned(c) ==
  LET bye == IF c.state \in {"Connected", "Connecting"}
             THEN Emit(c, <<U(c, "DISC", TRUE, TRUE)>>) ELSE c
  IN  [Remove(bye) EXCEPT !.view = "idle"]

\* PortOffline: the port's transport died under the connection.
PortOffline(c) == Remove(TellDown(c))

-----------------------------------------------------------------------------
(* Timer expiries.                                                         *)

\* t1Expired with tries left, T1 running again.
Retry(p, c) ==
  LET \* after N2/3 unanswered SABMEs, carry on with SABM
      fall == c.modulo = Mod128 /\ ~c.triedFallback /\ c.t1Polls >= p.n2 \div 3
  IN  CASE c.state = "Disconnecting" -> Emit(c, <<U(c, "DISC", TRUE, TRUE)>>)
        [] c.state = "Connecting" ->
             SendSABM([c EXCEPT !.modulo = IF fall THEN Mod8 ELSE c.modulo,
                                !.triedFallback = fall \/ c.triedFallback])
        [] c.state = "Connected" ->
             IF c.t1Polls > 1 THEN RetransmitFrom(SendEnquiry(c), c.lastAcked)
             ELSE SendEnquiry(c)
        [] OTHER -> c

T1ExpiredOnce(p, c) ==
  LET d == [c EXCEPT !.t1 = FALSE, !.t1Polls = c.t1Polls + 1]
  IN  IF c.state = "None" THEN [c EXCEPT !.t1 = FALSE]
      ELSE IF d.t1Polls > p.n2 THEN TimeOut(d) ELSE Retry(p, d)
T1Expired(p, c) ==
  LET d == [c EXCEPT !.t1 = FALSE, !.t1Polls = c.t1Polls + 1]
  IN  IF c.state = "None" THEN [c EXCEPT !.t1 = FALSE]
      ELSE IF d.t1Polls > p.n2 THEN TimeOut(d)
      ELSE Retry(p, [d EXCEPT !.t1 = TRUE])

T2Expired(c) ==
  LET d == [c EXCEPT !.t2 = FALSE]
  IN  IF c.state = "Connected" THEN SendRR(d, FALSE) ELSE d

T3Expired(c) ==
  LET d == [c EXCEPT !.t3 = FALSE]
  IN  IF c.state = "Connected"
      THEN [SendEnquiry(d) EXCEPT !.t1Polls = 0, !.t1 = TRUE] ELSE d

\* The oldest poll answer queued on the event loop runs.
RunDeferred(c) ==
  LET d == [c EXCEPT !.deferred = Tail(@)]
      nr == IF Head(c.deferred) = Live THEN c.recvSeq ELSE Head(c.deferred)
      due == \/ Head(c.deferred) = Live /\ c.state = "Connected"
             \/ Head(c.deferred) \in SeqNo
  IN  IF due THEN Emit(d, <<S(d, "RR", FALSE, TRUE, nr)>>) ELSE d

-----------------------------------------------------------------------------
(* Received frames.  e says what the table knows beyond this connection:   *)
(* local, the frame is for a callsign a client registered; elsewhere, the  *)
(* state of a connection of the same pair on another port ("none",         *)
(* "closing" when Disconnecting, "active" when Connecting or Connected);   *)
(* room, the table has a free entry.                                       *)

\* SABM and SABME on a v2.2 port: accept, whatever the connection was doing.
Accept(e, c, f, m) ==
  IF c.state = "None" /\ ~e.room
  THEN Emit(c, <<U(c, "DM", FALSE, f.pf)>>)
  ELSE TellConnected(CancelTimers(ResetSeqs(
         [Emit(c, <<U(c, "UA", FALSE, f.pf)>>) EXCEPT !.state = "Connected", !.modulo = m])))

DispatchSABM(e, p, c, f) ==
  IF e.elsewhere = "active" \/ ~e.local THEN c ELSE Accept(e, c, f, Mod8)

DispatchSABME(e, p, c, f) ==
  IF e.elsewhere = "active" \/ ~e.local THEN c
  ELSE IF p.version < 22 THEN Emit(c, <<U(c, "DM", FALSE, TRUE)>>)
  ELSE Accept(e, c, f, Mod128)

SendXIDCommand(c) ==
  [Emit(c, <<[U(c, "XID", TRUE, TRUE) EXCEPT !.info = 1]>>) EXCEPT !.xidPending = TRUE]

DispatchUA(e, p, c, f) ==
  LET up == TellConnected([c EXCEPT !.state = "Connected", !.t1 = FALSE, !.sendSeq = 0,
                                    !.recvSeq = 0, !.t1Polls = 0])
  IN  CASE c.state = "Connecting" ->
             IF p.srej /\ c.modulo = Mod128 THEN SendXIDCommand(up) ELSE up
        [] c.state = "Disconnecting" -> Remove(TellDown(c))
        [] OTHER -> c

CanFallBack(c) == c.state = "Connecting" /\ c.modulo = Mod128 /\ ~c.triedFallback
FallbackToSABM(c) ==
  SendSABM([c EXCEPT !.modulo = Mod8, !.triedFallback = TRUE, !.t1 = TRUE])

\* A DM or FRMR that answers our XID: the peer does not know XID.
XIDRefused(c) == c.state = "Connected" /\ c.xidPending
WithoutXID(c) == [c EXCEPT !.xidPending = FALSE, !.srejEnabled = FALSE]

DispatchDM(e, p, c, f) ==
  IF c.state = "None" THEN c
  ELSE IF CanFallBack(c) THEN FallbackToSABM(c)
  ELSE IF XIDRefused(c) THEN WithoutXID(c)
  ELSE Remove(TellDown(c))

DispatchDISCQuietly(e, p, c, f) ==
  IF c.state = "None"
  THEN IF e.elsewhere = "none" /\ e.local THEN Emit(c, <<U(c, "DM", FALSE, f.pf)>>) ELSE c
  ELSE Remove(Emit(c, <<U(c, "UA", FALSE, f.pf)>>))
DispatchDISC(e, p, c, f) ==
  IF c.state = "None"
  THEN IF e.elsewhere = "none" /\ e.local THEN Emit(c, <<U(c, "DM", FALSE, f.pf)>>) ELSE c
  ELSE Remove(TellDown(Emit(c, <<U(c, "UA", FALSE, f.pf)>>)))

DispatchFRMR(e, p, c, f) ==
  IF CanFallBack(c) THEN FallbackToSABM(c)
  ELSE IF XIDRefused(c) THEN WithoutXID(c)
  ELSE IF c.state # "Connected" THEN c
  ELSE [SendSABM(CancelTimers(ResetSeqs(c))) EXCEPT
          !.state = "Connecting", !.remoteBusy = c.remoteBusy, !.t1Polls = 0,
          !.triedFallback = FALSE, !.t1 = TRUE]

\* negotiateSREJ and dispatchXID.
DispatchXID(e, p, c, f) ==
  LET agreed == p.srej /\ c.modulo = Mod128 /\ f.info = 1
      answer == [U(c, "XID", FALSE, TRUE) EXCEPT !.info = IF agreed THEN 1 ELSE 0]
  IN  IF ~e.local \/ c.state = "None" THEN c
      ELSE IF ~f.cmd
      THEN IF c.state = "Connected"
           THEN [c EXCEPT !.xidPending = FALSE, !.srejEnabled = agreed] ELSE c
      ELSE IF f.pf THEN [Emit(c, <<answer>>) EXCEPT !.srejEnabled = agreed] ELSE c

-----------------------------------------------------------------------------
(* I frames.                                                               *)

\* Acknowledge at once when polled, else after T2.
Answer(c, f) == IF f.pf THEN SendRR([c EXCEPT !.t2 = FALSE], TRUE)
                ELSE [c EXCEPT !.t2 = TRUE]

\* An I frame while Connecting: the UA is taken to be lost.
Promote(c) ==
  IF c.state = "Connecting"
  THEN TellConnected([c EXCEPT !.state = "Connected", !.t1 = FALSE, !.sendSeq = 0,
                               !.recvSeq = 0, !.t1Polls = 0])
  ELSE c

\* sendSREJHoles: one SREJ for each number before upto neither buffered nor
\* already asked for; F is set for V(R).
SendSREJHoles(c, upto) ==
  LET Missing(n) == c.rxBuf[n] = None /\ n \notin c.srejSent
      asks == [i \in Turns |->
                 IF i < Ahead(c, upto, c.recvSeq) /\ Missing(Plus(c, c.recvSeq, i))
                 THEN <<S(c, "SREJ", FALSE, i = 0, Plus(c, c.recvSeq, i))>> ELSE << >>]
      asked == {n \in SeqNo : /\ n < c.modulo
                              /\ Ahead(c, n, c.recvSeq) < Ahead(c, upto, c.recvSeq)
                              /\ Missing(n)}
  IN  [Emit(c, Loop(asks)) EXCEPT !.srejSent = @ \cup asked]

BufferedRunWithGaps(c, ns) ==
  Loop([i \in Turns |-> IF c.rxBuf[Plus(c, ns, i + 1)] # None
                        THEN <<c.rxBuf[Plus(c, ns, i + 1)]>> ELSE << >>])
\* The buffered chunks that follow ns without a gap.
BufferedRun(c, ns) ==
  Loop([i \in Turns |-> IF \A j \in 0 .. i : c.rxBuf[Plus(c, ns, j + 1)] # None
                        THEN <<c.rxBuf[Plus(c, ns, i + 1)]>> ELSE << >>])

\* In sequence with SREJ: deliver f and the buffered run that follows it.
DeliverRun(c, f) ==
  LET run == BufferedRun(c, f.ns)
      done == {n \in SeqNo : n < c.modulo /\ Ahead(c, n, f.ns) <= Len(run)}
  IN  [c EXCEPT !.dlv = Append(@, f.info) \o run,
                !.recvSeq = Plus(c, f.ns, Len(run) + 1),
                !.rxBuf = [n \in SeqNo |-> IF n \in done THEN None ELSE c.rxBuf[n]],
                !.srejSent = @ \ done]

ReceiveSREJ(p, c, f) ==
  LET gap == Ahead(c, f.ns, c.recvSeq)
  IN  IF gap = 0 THEN Answer(DeliverRun(c, f), f)
      ELSE IF gap > p.maxWindow THEN Answer(c, f)
      ELSE SendSREJHoles([c EXCEPT !.rxBuf[f.ns] = f.info, !.srejSent = @ \ {f.ns},
                                   !.t2 = FALSE], f.ns)

ReceiveREJ(p, c, f) ==
  LET gap == Ahead(c, f.ns, c.recvSeq)
  IN  IF gap = 0
      THEN Answer([c EXCEPT !.rejSent = FALSE, !.recvSeq = Plus(c, f.ns, 1),
                            !.dlv = Append(@, f.info)], f)
      ELSE IF gap > p.maxWindow THEN Answer(c, f)
      ELSE IF c.rejSent THEN IF f.pf THEN Answer(c, f) ELSE c
      ELSE Emit([c EXCEPT !.t2 = FALSE, !.rejSent = TRUE],
                <<S(c, "REJ", FALSE, f.pf, c.recvSeq)>>)

DispatchI(e, p, c, f) ==
  LET d == Promote(c)
      acked == AckFrames(p, d, f.nr)
  IN  IF d.state # "Connected"
      THEN IF e.elsewhere # "active" /\ f.pf /\ e.local
           THEN Emit(d, <<U(d, "DM", FALSE, TRUE)>>) ELSE d
      ELSE IF d.srejEnabled THEN ReceiveSREJ(p, acked, f) ELSE ReceiveREJ(p, acked, f)

-----------------------------------------------------------------------------
(* S frames.                                                               *)

\* Only the frame the SREJ names is resent.
AnswerSREJ(c, f) ==
  LET free == [c EXCEPT !.remoteBusy = FALSE]
  IN  IF c.retransmitBuf[f.nr] = None THEN free
      ELSE Emit(free, <<IFrame(c, f.nr, c.retransmitBuf[f.nr])>>)

FlowControl(p, c, f) ==
  CASE f.type = "RNR" -> [c EXCEPT !.remoteBusy = TRUE]
    [] f.type = "RR"  -> IF c.remoteBusy THEN DrainOutbound(p, [c EXCEPT !.remoteBusy = FALSE])
                         ELSE c
    [] f.type = "REJ" -> RetransmitFrom([c EXCEPT !.remoteBusy = FALSE], f.nr)

\* An F=1 response answers our enquiry: resend what was sent before it and is
\* still unacknowledged; vs is V(S) when the frame arrived.
Checkpoint(c, f, vs) ==
  LET d == [c EXCEPT !.polling = FALSE]
  IN  IF f.cmd \/ ~f.pf \/ ~c.polling THEN c
      ELSE IF ~Holds(c.retransmitBuf) THEN [d EXCEPT !.t1 = FALSE, !.t1Polls = 0, !.asked = 0]
      ELSE IF f.type # "REJ" /\ ~c.remoteBusy
      THEN [RetransmitRange(d, c.lastAcked, vs) EXCEPT !.t1 = TRUE]
      ELSE d

\* A command with P=1 is answered: a REJ at once, the others once the frames
\* already queued on the event loop have run.
AnswerPoll(c, f) ==
  IF ~(f.pf /\ f.cmd) THEN c
  ELSE IF f.type = "REJ" THEN SendRR(c, TRUE)
  ELSE [c EXCEPT !.deferred = Append(@, Live)]

DispatchS(e, p, c, f) ==
  LET d == IF f.type = "SREJ" /\ ~f.pf THEN c ELSE AckFrames(p, c, f.nr)
  IN  IF c.state # "Connected" THEN c
      ELSE IF f.type = "SREJ" THEN AnswerSREJ(d, f)
      ELSE AnswerPoll(Checkpoint(FlowControl(p, d, f), f, c.sendSeq), f)

-----------------------------------------------------------------------------
(* OnFrame: dispatch, then restart T3 on a connected link.                 *)

Dispatch(e, p, c, f) ==
  CASE f.type = "SABM"   -> DispatchSABM(e, p, c, f)
    [] f.type = "SABME"  -> DispatchSABME(e, p, c, f)
    [] f.type = "UA"     -> DispatchUA(e, p, c, f)
    [] f.type = "DM"     -> DispatchDM(e, p, c, f)
    [] f.type = "DISC"   -> DispatchDISC(e, p, c, f)
    [] f.type = "FRMR"   -> DispatchFRMR(e, p, c, f)
    [] f.type = "I"      -> DispatchI(e, p, c, f)
    [] f.type \in SFrames -> DispatchS(e, p, c, f)
    [] f.type = "XID"    -> DispatchXID(e, p, c, f)

OnFrame(e, p, c, f) ==
  LET d == Dispatch(e, p, c, f)
  IN  IF d.state = "Connected" THEN StartT3(p, d) ELSE d

\* OnKISSFrame re-decodes an I or S frame at the link's modulus.  Decoded at
\* the wrong one, an extended S frame reads N(R)=0, P/F=0, a basic S frame is
\* too short and keeps its basic reading, and an I frame reads anything.
Misread(c, f) ==
  {[f EXCEPT !.ns = h.ns, !.nr = h.nr, !.pf = h.pf, !.info = Corrupt] :
     h \in [ns : 0 .. c.modulo - 1, nr : 0 .. c.modulo - 1, pf : BOOLEAN]}
Decodings(c, f) ==
  IF f.mod = c.modulo \/ f.type \in UFrames THEN {f}
  ELSE IF f.type = "I" THEN Misread(c, f)
  ELSE IF f.mod = Mod128 THEN {[f EXCEPT !.nr = 0, !.pf = FALSE]} ELSE {f}

-----------------------------------------------------------------------------
(* The sender's window.                                                    *)

\* V(S), V(R) and V(A) are below the modulus; the count of unacknowledged
\* frames is the distance from V(A) to V(S) and within the window; exactly
\* those frames are buffered for retransmission; and a connection that is not
\* yet up has nothing outstanding, so that UA may zero V(S) and V(R).
WindowOK(p, c) ==
  /\ c.sendSeq < c.modulo /\ c.recvSeq < c.modulo /\ c.lastAcked < c.modulo
  /\ c.unacked = Ahead(c, c.sendSeq, c.lastAcked)
  /\ c.unacked <= p.maxWindow
  /\ \A n \in SeqNo : c.retransmitBuf[n] # None
                        <=> n < c.modulo /\ Ahead(c, n, c.lastAcked) < c.unacked
  /\ c.state \in {"None", "Connecting"} =>
       c.sendSeq = 0 /\ c.recvSeq = 0 /\ c.lastAcked = 0 /\ c.outQueue = << >>
=============================================================================
