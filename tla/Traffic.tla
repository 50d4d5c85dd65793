------------------------------- MODULE Traffic ------------------------------
(***************************************************************************)
(* The path of frames through the bridge: KISS-over-TCP clients and the L2 *)
(* engine hand frames to SendToKISS, the port paces them to its TNC, the   *)
(* TNC echoes some of them, and what OnKISSFrame takes for traffic of      *)
(* others is fanned out to the KISS clients and to the subscribers of the  *)
(* monitoring API (/api/events).                                           *)
(*                                                                         *)
(* A closure that waits on the event loop because of what precedes it      *)
(* there (a client's frame, a received frame, add, remove) is in loop; a   *)
(* closure nobody waits for (a frame of L2, the idle sweep, the shutdown)  *)
(* runs at any point.  The port is online throughout (Ports has its life). *)
(* A packet the writer has in its hand counts to its channel.              *)
(* As in L2, a definition named after a mistake (EnqueueOrDrop, ...) is a  *)
(* faulty variant of the one that follows it.                              *)
(***************************************************************************)
EXTENDS Pacing, Sequences, FiniteSets

CONSTANTS KissClients, Subscribers,  \* clients of the two servers
          WriteCap,                  \* channel of a client (256 in the code)
          MaxInflight,               \* frames of a client on the loop (256)
          RingSize,                  \* echoRingSize (20)
          TxCap,                     \* txCh of the port (64)
          Scenes                     \* bounds on what the environment does

Clients == KissClients \cup Subscribers

\* A scene bounds the frames sent, their air times, the frames heard and who
\* connects, fixes max_clients (0: no limit), and says whether the idle sweep and
\* the shutdown happen.
ASSUME TrafficAssumption ==
  /\ {WriteCap, MaxInflight, RingSize, TxCap} \subseteq Nat \ {0}
  /\ KissClients \cap Subscribers = {}
  /\ \A s \in Scenes : /\ {s.send, s.hear, s.max} \subseteq Nat
                       /\ s.who \subseteq Clients /\ s.airs \subseteq Airs
                       /\ {s.sweep, s.stop} \subseteq BOOLEAN

VARIABLES scene,
          loop,      \* closures queued on the event loop
          ring,      \* sentFrames, normalised
          txCh,      \* frames queued on the port
          hand,      \* the frame in writerLoop's hand, as a sequence
          tnc,       \* frames the TNC has, whose echo may still come
          client,    \* client[c]: see ClientState
          inflight,  \* inflight[c]: frames of a KISS client on the loop
          members,   \* the clients maps of the two servers
          up,        \* the servers' sinks are registered
          sent, heard,   \* frames of clients and L2, transmissions of others, so far
          events,    \* history: everything handed to the sinks
          marks      \* history: echoes fanned out and foreign frames discarded

path == <<ring, txCh, hand, tnc>>
history == <<events, marks>>
clients == <<client, inflight, members>>
vars == <<scene, loop, path, clients, up, sent, heard, history, pacer>>

\* A frame by its origin and number; h: a digipeater has repeated it.
Frames == [by : {"us", "them", "command"}, n : Nat, h : BOOLEAN]
Frame(by, n) == [by |-> by, n |-> n, h |-> FALSE]
Repeated(f) == [f EXCEPT !.h = TRUE]

\* normalizeHBits: a repeated copy compares equal.
NormalizeNothing(f) == f
NormalizeHBits(f) == [f EXCEPT !.h = FALSE]

\* stage: closing once the reader ended; writer: the writer goroutine, or the
\* loop of handleEvents; missed: an event found a subscriber's channel full.
ClientState == [stage : {"idle", "adding", "open", "closing", "leaving", "gone"},
                writing : BOOLEAN, closed : BOOLEAN,
                ch : Seq([tx : BOOLEAN, f : Frames]), got : Seq([tx : BOOLEAN, f : Frames]),
                since : Nat, missed : BOOLEAN]
NewClient == [stage |-> "idle", writing |-> TRUE, closed |-> FALSE, ch |-> << >>,
              got |-> << >>, since |-> 0, missed |-> FALSE]

Init == /\ scene \in Scenes
        /\ loop = << >>
        /\ ring = << >> /\ txCh = << >> /\ hand = << >> /\ tnc = << >>
        /\ client = [c \in Clients |-> NewClient]
        /\ inflight = [c \in KissClients |-> 0]
        /\ members = {} /\ up = TRUE
        /\ sent = 0 /\ heard = 0
        /\ events = << >> /\ marks = {}
        /\ PacerInit

Post(cl) == loop' = Append(loop, cl)
Take(op) == loop # << >> /\ Head(loop).op = op /\ loop' = Tail(loop)

-----------------------------------------------------------------------------
(* The sinks.                                                              *)

\* client.close: idempotent; closes the connection and the channel.
Closed(r) == [r EXCEPT !.closed = TRUE]

\* client.enqueue: a full channel closes the slow client.
EnqueueOrDrop(r, e) ==
  IF r.closed \/ Len(r.ch) >= WriteCap THEN r ELSE [r EXCEPT !.ch = Append(@, e)]
Enqueue(r, e) == IF r.closed THEN r
                 ELSE IF Len(r.ch) >= WriteCap THEN Closed(r)
                 ELSE [r EXCEPT !.ch = Append(@, e)]

\* api push: a full channel loses the event.
Push(r, e) == IF Len(r.ch) >= WriteCap THEN [r EXCEPT !.missed = TRUE]
              ELSE [r EXCEPT !.ch = Append(@, e)]

\* OnRawRX: KISS clients hear received frames only.
OnRawRX(r, e) == IF e.tx THEN r ELSE Enqueue(r, e)

\* emitTXFrame, or emitRawRX and emitMonitor, to the sinks registered.
Emit(e) ==
  /\ events' = IF up THEN Append(events, e) ELSE events
  /\ client' = [c \in Clients |->
       IF ~up \/ c \notin members THEN client[c]
       ELSE IF c \in Subscribers THEN Push(client[c], e)
       ELSE OnRawRX(client[c], e)]

-----------------------------------------------------------------------------
(* Transmitting.                                                           *)

\* trackSent: the ring forgets the oldest frame.
TrackSent(f) == Append(IF Len(ring) >= RingSize THEN Tail(ring) ELSE ring, NormalizeHBits(f))

\* kiss.Port.Send and SendCommand: a full queue loses the frame.
Queued(f) == IF Len(txCh) < TxCap THEN Append(txCh, f) ELSE txCh

\* SendToKISS: remember the frame, queue it, tell the monitors.
SendToKISS(f) ==
  /\ ring' = TrackSent(f)
  /\ txCh' = Queued(f)
  /\ Emit([tx |-> TRUE, f |-> f])

\* The L2 engine transmits.
L2Sends == /\ up /\ sent < scene.send
           /\ sent' = sent + 1
           /\ SendToKISS(Frame("us", sent + 1))
           /\ UNCHANGED <<scene, loop, hand, tnc, inflight, members, up, heard, marks, pacer>>

\* writerLoop takes a frame, waits for its turn, and writes it.
WriterTakes == /\ txCh # << >>
               /\ \E a \in scene.airs : TakeFrame(a)
               /\ hand' = <<Head(txCh)>> /\ txCh' = Tail(txCh)
               /\ UNCHANGED <<scene, loop, ring, tnc, clients, up, sent, heard, history>>
WriterWrites == /\ hand # << >>
                /\ LET command == hand[1].by = "command" IN
                     /\ HandOver(command)
                     /\ tnc' = IF command THEN tnc ELSE tnc \o hand
                /\ hand' = << >>
                /\ UNCHANGED <<scene, loop, ring, txCh, clients, up, sent, heard, history>>
TimePasses == /\ lead + wait + backlog > 0 /\ Tick
              /\ UNCHANGED <<scene, loop, path, clients, up, sent, heard, history>>

\* The TNC has transmitted a frame: it, or a digipeater, lets us hear it, or not.
EchoHeard == /\ tnc # << >> /\ tnc' = Tail(tnc)
             /\ \/ loop' = loop
                \/ \E f \in {Head(tnc), Repeated(Head(tnc))} :
                      Post([op |-> "rx", f |-> f, echo |-> TRUE])
             /\ UNCHANGED <<scene, ring, txCh, hand, clients, up, sent, heard, history, pacer>>

-----------------------------------------------------------------------------
(* Receiving.                                                              *)

\* Another station transmits a frame, new or once more.
FrameHeard == /\ up /\ heard < scene.hear
              /\ heard' = heard + 1
              /\ \E n \in {1, heard + 1} :
                    Post([op |-> "rx", f |-> Frame("them", n), echo |-> FALSE])
              /\ UNCHANGED <<scene, path, clients, up, sent, history, pacer>>

\* isEcho
IsEcho(f) == \E i \in 1 .. Len(ring) : ring[i] = NormalizeHBits(f)

\* The history's view: f, repeated or not, is among the last n frames transmitted.
AmongLast(n, f) == LET tx == SelectSeq(events, LAMBDA e : e.tx) IN
  \E i \in 1 .. Len(tx) : Len(tx) - i < n /\ tx[i].f \in {f, Repeated(f)}

\* OnKISSFrame: what the ring holds is an echo; the rest is fanned out.
OnKISSFrame ==
  /\ Take("rx")
  /\ LET cl == Head(loop)
         f == [cl.f EXCEPT !.h = FALSE]
         mark == [echo |-> cl.echo, recent |-> AmongLast(RingSize, f), ever |-> AmongLast(sent, f)]
     IN IF IsEcho(cl.f)
        THEN /\ marks' = IF cl.echo THEN marks ELSE marks \cup {mark}
             /\ UNCHANGED <<client, events>>
        ELSE /\ marks' = IF cl.echo /\ up THEN marks \cup {mark} ELSE marks
             /\ Emit([tx |-> FALSE, f |-> cl.f])
  /\ UNCHANGED <<scene, path, inflight, members, up, sent, heard, pacer>>

-----------------------------------------------------------------------------
(* Clients.                                                                *)

bus == <<scene, path, up, heard, history, pacer>>
Peers(c) == IF c \in KissClients THEN KissClients ELSE Subscribers

\* run, and handleEvents: ask the loop to be admitted.
Asks(c) ==
  /\ up /\ c \in scene.who /\ client[c].stage = "idle"
  /\ client' = [client EXCEPT ![c].stage = "adding"]
  /\ Post([op |-> "add", c |-> c])
  /\ UNCHANGED <<bus, sent, inflight, members>>
Connect(c) == c \in KissClients /\ Asks(c)
Subscribe(c) == c \in Subscribers /\ Asks(c)

\* add, and the closure of handleEvents: refused above max_clients.
Add ==
  /\ Take("add")
  /\ LET c == Head(loop).c IN
       IF scene.max > 0 /\ Cardinality(members \cap Peers(c)) >= scene.max
       THEN /\ client' = [client EXCEPT ![c] = [Closed(@) EXCEPT !.stage = "gone"]]
            /\ UNCHANGED members
       ELSE /\ client' = [client EXCEPT ![c] = [@ EXCEPT !.stage = "open", !.since = Len(events)]]
            /\ members' = members \cup {c}
  /\ UNCHANGED <<bus, sent, inflight>>

\* What an application sends: a frame of its own, one it heard and repeats, or a
\* KISS command (1..6; others are dropped by dispatch).
FromApplication(c) ==
  {Frame(by, sent + 1) : by \in {"us", "command"}}
    \cup {Repeated(client[c].got[i].f) : i \in 1 .. Len(client[c].got)}

\* dispatch and post: to the loop; above the cap the client is closed and its
\* reader ends.
Dispatch(c) ==
  /\ client[c].stage = "open" /\ sent < scene.send
  /\ sent' = sent + 1
  /\ IF inflight[c] >= MaxInflight
     THEN /\ client' = [client EXCEPT ![c] = [Closed(@) EXCEPT !.stage = "closing"]]
          /\ UNCHANGED <<loop, inflight>>
     ELSE /\ \E f \in FromApplication(c) : Post([op |-> "send", f |-> f, c |-> c])
          /\ inflight' = [inflight EXCEPT ![c] = @ + 1]
          /\ UNCHANGED client
  /\ UNCHANGED <<bus, members>>

\* The closure of post: SendToKISS or SendKISSCommand.
RunSend ==
  /\ Take("send")
  /\ LET cl == Head(loop) IN
       /\ inflight' = [inflight EXCEPT ![cl.c] = @ - 1]
       /\ IF cl.f.by = "command"
          THEN txCh' = Queued(cl.f) /\ UNCHANGED <<ring, client, events>>
          ELSE SendToKISS(cl.f)
  /\ UNCHANGED <<scene, hand, tnc, members, up, sent, heard, marks, pacer>>

\* The writer sends a packet of its channel to an application that reads.
WriterSends(c) ==
  /\ client[c].stage # "gone" /\ client[c].writing
  /\ ~client[c].closed /\ client[c].ch # << >>
  /\ client' = [client EXCEPT ![c].got = Append(@, Head(client[c].ch)), ![c].ch = Tail(@)]
  /\ UNCHANGED <<bus, loop, sent, inflight, members>>

\* A closed connection, or the end of the closed channel, ends the writer; so
\* does a failed write, which leaves the client to its reader.
WriterEndsOnError(c) ==
  /\ c \in KissClients /\ client[c].stage \in {"open", "closing"} /\ client[c].writing
  /\ client[c].ch # << >>
  /\ client' = [client EXCEPT ![c].writing = FALSE]
  /\ UNCHANGED <<bus, loop, sent, inflight, members>>
WriterEnds(c) ==
  /\ c \in KissClients /\ client[c].stage \in {"open", "closing"} /\ client[c].writing
  /\ client[c].closed \/ client[c].ch # << >>
  /\ client' = [client EXCEPT ![c].writing = FALSE]
  /\ UNCHANGED <<bus, loop, sent, inflight, members>>

\* The reader ends: the application left, or the connection was closed here.
ReaderEnds(c) ==
  /\ c \in KissClients /\ client[c].stage = "open"
  /\ client' = [client EXCEPT ![c] = [Closed(@) EXCEPT !.stage = "closing"]]
  /\ UNCHANGED <<bus, loop, sent, inflight, members>>

\* run goes on once the writer is done: ask the loop to be removed.
Leave(c) ==
  /\ c \in KissClients /\ client[c].stage = "closing" /\ ~client[c].writing
  /\ client' = [client EXCEPT ![c].stage = "leaving"]
  /\ Post([op |-> "remove", c |-> c])
  /\ UNCHANGED <<bus, sent, inflight, members>>

\* handleEvents returns: the browser left, a write failed, or push's channel was
\* closed.
SubscriberLeaves(c) ==
  /\ c \in Subscribers /\ client[c].stage = "open"
  /\ client' = [client EXCEPT ![c] = [Closed(@) EXCEPT !.stage = "leaving", !.writing = FALSE]]
  /\ Post([op |-> "remove", c |-> c])
  /\ UNCHANGED <<bus, sent, inflight, members>>

Remove ==
  /\ Take("remove")
  /\ LET c == Head(loop).c IN
       /\ client' = [client EXCEPT ![c].stage = "gone"]
       /\ members' = members \ {c}
  /\ UNCHANGED <<bus, sent, inflight>>

\* sweepIdleClients: idle clients are closed; they leave by themselves.
SweepIdleClients ==
  /\ up /\ scene.sweep
  /\ \E idle \in SUBSET (members \cap KissClients) :
       /\ idle # {}
       /\ client' = [c \in Clients |-> IF c \in idle THEN Closed(client[c]) ELSE client[c]]
  /\ UNCHANGED <<bus, loop, sent, inflight, members>>

\* Close of the two servers: the sinks go, the members are closed; the API also
\* empties its map.
CloseKISS(r, c) == IF c \in members THEN Closed(r) ELSE r
CloseAPI(r, c) == IF c \in members THEN Closed(r) ELSE r

\* The closure of app.Shutdown that closes the servers.
Close ==
  /\ up /\ scene.stop
  /\ up' = FALSE
  /\ client' = [c \in Clients |-> IF c \in KissClients THEN CloseKISS(client[c], c)
                                 ELSE CloseAPI(client[c], c)]
  /\ members' = members \ Subscribers
  /\ UNCHANGED <<scene, path, loop, sent, heard, inflight, history, pacer>>

-----------------------------------------------------------------------------
OnLoop == OnKISSFrame \/ Add \/ RunSend \/ Remove
Port == WriterTakes \/ WriterWrites \/ TimePasses \/ EchoHeard
Ends(c) == (client[c].closed /\ (ReaderEnds(c) \/ WriterEnds(c) \/ SubscriberLeaves(c))) \/ Leave(c)
Client(c) == \/ Connect(c) \/ Subscribe(c) \/ WriterSends(c) \/ WriterEnds(c)
             \/ ReaderEnds(c) \/ Leave(c) \/ SubscriberLeaves(c)

Next == \/ OnLoop \/ Port
        \/ L2Sends \/ FrameHeard \/ SweepIdleClients \/ Close
        \/ \E c \in KissClients : Dispatch(c)
        \/ \E c \in Clients : Client(c)

Spec == Init /\ [][Next]_vars

\* The event loop runs its closures; the goroutines of a closed client end.
FairSpec == /\ Spec
            /\ WF_vars(OnLoop)
            /\ \A c \in Clients : WF_vars(Ends(c))

-----------------------------------------------------------------------------
(* Properties.                                                             *)

\* Clients, queues and the ring have their types, and the queues their bounds.
TypeOK == /\ scene \in Scenes
          /\ client \in [Clients -> ClientState]
          /\ inflight \in [KissClients -> 0 .. MaxInflight]
          /\ members \subseteq Clients /\ up \in BOOLEAN
          /\ {ring, txCh, hand, tnc} \subseteq Seq(Frames)
          /\ Len(ring) <= RingSize /\ Len(txCh) <= TxCap /\ Len(hand) <= 1

\* The part of the events since c was admitted that c is to hear.
ToHear(c) == SelectSeq(SubSeq(events, client[c].since + 1, Len(events)),
                       LAMBDA e : c \in Subscribers \/ ~e.tx)

Prefix(s, t) == Len(s) <= Len(t) /\ s = SubSeq(t, 1, Len(s))

\* "Connected clients hear every frame received from the air": what a client got
\* is, in order, everything heard since it was admitted, with nothing left out;
\* an open client will get the rest too (it is in its channel).  Only a
\* subscriber whose channel was once full has lost events.
HeardWithoutGaps ==
  \A c \in Clients : client[c].missed \/ LET r == client[c] IN
    r.stage \in {"open", "closing", "leaving"} =>
      /\ Prefix(r.got, ToHear(c))
      /\ up /\ ~r.closed /\ r.writing => r.got \o r.ch = ToHear(c)

\* "discard frames that are our own transmissions", and no others.
\* Does not hold of the code (a known gap in the README).
EchoFilterExact == marks = {}

\* The echo of a frame, repeated by a digipeater or not, is fanned out only if
\* RingSize other frames were sent before it came back; a frame of another
\* station is taken for an echo only after an application here repeated it.
EchoFilterSound == \A m \in marks : IF m.echo THEN ~m.recent ELSE m.ever

\* A client that was closed, for whatever reason, gives back its place among
\* max_clients, unless the program is shut down.
ClosedClientsLeave ==
  \A c \in Clients : client[c].closed ~> (c \notin members \/ ~up)
=============================================================================
