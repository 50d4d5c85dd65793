------------------------------ MODULE Sessions ------------------------------
(***************************************************************************)
(* AGWPE clients and the connections they own: the client goroutines       *)
(* (agwpe/server.go), the frame handler (agwpe/handler.go), the connection *)
(* table as its owners see it (ax25/l2/l2.go) and the notifications of the *)
(* bridge to clients and to API subscribers (internal/bridge/bridge.go).   *)
(*                                                                         *)
(* One remote station; a connection is keyed by port and local callsign.   *)
(* What the peer and the timers do to a connection is any sequence of the  *)
(* events the dispatchers tell apart; module L2 has their detail.          *)
(*                                                                         *)
(* A definition named after a mistake is a faulty variant of the one that  *)
(* follows it.                                                             *)
(***************************************************************************)
EXTENDS Naturals, FiniteSets

CONSTANTS
    Clients,      \* TCP connections of AGWPE applications
    Ports, Calls,
    MaxClients,   \* server.max_clients
    MaxConns,     \* maxConnections of the table
    MaxOthers,    \* bound: connections on ports outside the model
    MaxReg,       \* maxRegisteredCalls of a client
    MaxInflight,  \* frames a client may have posted
    WriteCap      \* capacity of a client's writeCh

ASSUME SessionsAssumption ==
    /\ MaxClients \in Nat /\ MaxConns \in Nat /\ MaxReg \in Nat
    /\ MaxInflight \in Nat \ {0} /\ WriteCap \in Nat \ {0}
    /\ MaxOthers \in 0 .. MaxConns
    /\ "nobody" \notin Clients

VARIABLES
    phase,      \* per client: gone, connected, or closed and not yet removed
    reg,        \* per client, its registered callsigns
    inflight,   \* per client, frames posted to the engine and not yet run
    outq,       \* per client, frames in writeCh
    conn,       \* the connection table
    view,       \* per client, the connections it was told are up
    api,        \* the connections API subscribers were told are up
    online,     \* per port: up, offline with PortOffline to come, or down
    stolen,     \* history: a connection changed owner under a live client
    silent,     \* history: a connection ended without an API event
    others      \* connections the table holds for other ports

vars == <<phase, reg, inflight, outq, conn, view, api, online, stolen, silent,
          others>>

Keys == Ports \X Calls

Absent == [state |-> "Absent", owner |-> "nobody"]

Up(k) == conn[k] # Absent

Owned(c) == {k \in Keys : conn[k].owner = c}

(* Counters stay within the caps of post and SendAGWPE, and every entry of  *)
(* the table has a state and an owner.                                      *)
TypeOK ==
    /\ phase \in [Clients -> {"gone", "in", "leaving"}]
    /\ reg \in [Clients -> SUBSET Calls]
    /\ inflight \in [Clients -> 0 .. MaxInflight]
    /\ outq \in [Clients -> 0 .. WriteCap]
    /\ conn \in [Keys -> {Absent} \cup
                   [state : {"Connecting", "Connected", "Disconnecting"}, owner : Clients]]
    /\ view \in [Clients -> SUBSET Keys] /\ api \subseteq Keys
    /\ online \in [Ports -> {"up", "dying", "down"}]
    /\ stolen \in BOOLEAN /\ silent \in BOOLEAN /\ others \in 0 .. MaxOthers

Init ==
    /\ phase = [c \in Clients |-> "gone"] /\ reg = [c \in Clients |-> {}]
    /\ inflight = [c \in Clients |-> 0] /\ outq = [c \in Clients |-> 0]
    /\ conn = [k \in Keys |-> Absent]
    /\ view = [c \in Clients |-> {}] /\ api = {}
    /\ online = [p \in Ports |-> "up"]
    /\ stolen = FALSE /\ silent = FALSE /\ others \in 0 .. MaxOthers

-----------------------------------------------------------------------------
(* SendAGWPE, for n frames to each client: queued, unless the client is     *)
(* closed; a client that does not keep up is closed.  up and down are the   *)
(* connections the frames announce and end.                                 *)
Tell(n, up, down) ==
    LET full == {c \in Clients : phase[c] = "in" /\ outq[c] + n[c] > WriteCap}
        told == {c \in Clients : phase[c] = "in"} \ full
    IN  /\ phase' = [c \in Clients |-> IF c \in full THEN "leaving" ELSE phase[c]]
        /\ outq' = [c \in Clients |-> IF c \in told THEN outq[c] + n[c] ELSE 0]
        /\ view' = [c \in Clients |->
                      IF c \in told THEN (view[c] \cup up[c]) \ down[c] ELSE {}]

OneTo(c) == [d \in Clients |-> IF d = c THEN 1 ELSE 0]

Nothing == [c \in Clients |-> {}]

Only(c, keys) == [d \in Clients |-> IF d = c THEN keys ELSE {}]

-----------------------------------------------------------------------------
(* A client connects and is added; its read loop posts frames, one closure  *)
(* each; the writer goroutine empties writeCh; the connection ends.         *)
Join(c) ==
    /\ phase[c] = "gone"
    /\ Cardinality({d \in Clients : phase[d] # "gone"}) < MaxClients
    /\ phase' = [phase EXCEPT ![c] = "in"]
    /\ UNCHANGED <<reg, inflight, outq, conn, view, api, online, stolen, silent, others>>

Close(c) ==
    /\ phase' = [phase EXCEPT ![c] = "leaving"]
    /\ outq' = [outq EXCEPT ![c] = 0] /\ view' = [view EXCEPT ![c] = {}]

Post(c) ==
    /\ phase[c] = "in"
    /\ IF inflight[c] >= MaxInflight
       THEN Close(c) /\ UNCHANGED inflight
       ELSE inflight' = [inflight EXCEPT ![c] = @ + 1] /\ UNCHANGED <<phase, outq, view>>
    /\ UNCHANGED <<reg, conn, api, online, stolen, silent, others>>

Drain(c) ==
    /\ outq[c] > 0
    /\ outq' = [outq EXCEPT ![c] = @ - 1]
    /\ UNCHANGED <<phase, reg, inflight, conn, view, api, online, stolen, silent, others>>

Hangup(c) ==
    /\ phase[c] = "in"
    /\ Close(c)
    /\ UNCHANGED <<reg, inflight, conn, api, online, stolen, silent, others>>

(* RemoveClient, posted behind the client's last frame: its connections go  *)
(* with a DISC on the air and no hook, its callsigns are forgotten.         *)
RemoveClientEarly(c) ==
    /\ phase[c] = "leaving"
    /\ phase' = [phase EXCEPT ![c] = "gone"]
    /\ reg' = [reg EXCEPT ![c] = {}]
    /\ conn' = [k \in Keys |-> IF k \in Owned(c) THEN Absent ELSE conn[k]]
    /\ silent' = (silent \/ Owned(c) \cap api # {})
    /\ UNCHANGED <<inflight, outq, view, api, online, stolen, others>>

RemoveClient(c) ==
    /\ phase[c] = "leaving" /\ inflight[c] = 0
    /\ phase' = [phase EXCEPT ![c] = "gone"]
    /\ reg' = [reg EXCEPT ![c] = {}]
    /\ conn' = [k \in Keys |-> IF k \in Owned(c) THEN Absent ELSE conn[k]]
    /\ silent' = (silent \/ Owned(c) \cap api # {})
    /\ UNCHANGED <<inflight, outq, view, api, online, stolen, others>>

-----------------------------------------------------------------------------
(* handleFrame runs one posted frame.                                       *)
Handle(c) ==
    /\ inflight[c] > 0
    /\ inflight' = [inflight EXCEPT ![c] = @ - 1]

(* 'X': refused when another client has the callsign or this one has        *)
(* enough.  'x' never refuses.                                              *)
Register(c, call) ==
    /\ Handle(c)
    /\ reg' = IF \/ \E d \in Clients \ {c} : call \in reg[d]
                 \/ Cardinality(reg[c]) >= MaxReg
              THEN reg
              ELSE [reg EXCEPT ![c] = @ \cup {call}]
    /\ Tell(OneTo(c), Nothing, Nothing)
    /\ UNCHANGED <<conn, api, online, stolen, silent, others>>

Unregister(c, call) ==
    /\ Handle(c)
    /\ reg' = [reg EXCEPT ![c] = @ \ {call}]
    /\ UNCHANGED <<phase, outq, conn, view, api, online, stolen, silent, others>>

(* getOrCreate finds the entry or a place for one.                          *)
Room(k) == Up(k) \/ others + Cardinality({j \in Keys : Up(j)}) < MaxConns

(* 'C' and 'v' refuse on an offline port, 'c' does not look; all refuse a   *)
(* connection that somebody else has, and a full table.  Otherwise Connect  *)
(* starts the handshake afresh and the client becomes the owner.            *)
MayConnectAny(c, k) == Room(k)

MayConnect(c, k) == (Up(k) => conn[k].owner = c) /\ Room(k)

Connect(c, k, looks) ==
    /\ Handle(c)
    /\ IF (looks => online[k[1]] = "up") /\ MayConnect(c, k)
       THEN /\ conn' = [conn EXCEPT ![k] = [state |-> "Connecting", owner |-> c]]
            /\ UNCHANGED <<phase, outq, view>>
       ELSE /\ Tell(OneTo(c), Nothing, Only(c, {k}))
            /\ UNCHANGED conn
    /\ UNCHANGED <<reg, api, online, stolen, silent, others>>

(* 'd' from the owner sends DISC; from anybody else it is ignored.          *)
Disconnect(c, k) ==
    /\ Handle(c)
    /\ conn' = IF Up(k) /\ conn[k].owner = c
               THEN [conn EXCEPT ![k].state = "Disconnecting"] ELSE conn
    /\ UNCHANGED <<phase, reg, outq, view, api, online, stolen, silent, others>>

(* The queries are answered.  The other types ('m', 'k', UNPROTO, 'D' and   *)
(* raw frames, the last two only from an owner) leave this state alone.     *)
Query(c) ==
    /\ Handle(c)
    /\ Tell(OneTo(c), Nothing, Nothing)
    /\ UNCHANGED <<reg, conn, api, online, stolen, silent, others>>

SendFrame(c) ==
    /\ Handle(c)
    /\ UNCHANGED <<phase, reg, outq, conn, view, api, online, stolen, silent, others>>

(* A monitoring client is sent what is heard on the air.                    *)
Monitor(c) ==
    /\ phase[c] = "in"
    /\ Tell(OneTo(c), Nothing, Nothing)
    /\ UNCHANGED <<reg, inflight, conn, api, online, stolen, silent, others>>

-----------------------------------------------------------------------------
(* notifyConnected, notifyConnectFailed and notifyDisconnected.  Only the   *)
(* first and the last emit an API event.                                    *)
NotifyConnectedQuietly(k, owner) ==
    /\ Tell(OneTo(owner), Only(owner, {k}), Nothing)
    /\ api' = api

NotifyConnected(k, owner) ==
    /\ Tell(OneTo(owner), Only(owner, {k}), Nothing)
    /\ api' = api \cup {k}

NotifyFailed(k) ==
    /\ Tell(OneTo(conn[k].owner), Nothing, Only(conn[k].owner, {k}))
    /\ api' = api
    /\ silent' = (silent \/ k \in api)

NotifyDisconnected(k) ==
    /\ Tell(OneTo(conn[k].owner), Nothing, Only(conn[k].owner, {k}))
    /\ api' = api \ {k}
    /\ UNCHANGED silent

Remove(k) == conn' = [conn EXCEPT ![k] = Absent]

(* Frames of a port are dispatched until its PortOffline closure has run.   *)
Receiving(k) == online[k[1]] # "down"

Local(call) == {c \in Clients : call \in reg[c]}

(* A SABM or an accepted SABME to a registered callsign: unless the pair is *)
(* busy on another port the entry becomes Connected, whatever it was, and   *)
(* belongs to the client that registered the callsign.                      *)
HeardElsewhere(k) ==
    \E j \in Keys \ {k} : j[2] = k[2] /\ conn[j].state \in {"Connecting", "Connected"}

DispatchSABMKeepsOwner(k) ==
    /\ Receiving(k) /\ Local(k[2]) # {} /\ ~HeardElsewhere(k) /\ Room(k)
    /\ \E owner \in Local(k[2]) :
          /\ conn' = [conn EXCEPT ![k] =
                        [state |-> "Connected", owner |-> IF Up(k) THEN @.owner ELSE owner]]
          /\ NotifyConnected(k, owner)
          /\ UNCHANGED stolen
    /\ UNCHANGED <<reg, inflight, online, silent, others>>

DispatchSABM(k) ==
    /\ Receiving(k) /\ Local(k[2]) # {} /\ ~HeardElsewhere(k) /\ Room(k)
    /\ \E owner \in Local(k[2]) :
          /\ conn' = [conn EXCEPT ![k] = [state |-> "Connected", owner |-> owner]]
          /\ NotifyConnected(k, owner)
          /\ stolen' = (stolen \/ (Up(k) /\ conn[k].owner # owner))
    /\ UNCHANGED <<reg, inflight, online, silent, others>>

(* UA, or an I-frame, to a connection that is being set up.                 *)
DispatchAccept(k) ==
    /\ Receiving(k) /\ conn[k].state = "Connecting"
    /\ conn' = [conn EXCEPT ![k].state = "Connected"]
    /\ NotifyConnected(k, conn[k].owner)
    /\ UNCHANGED <<reg, inflight, online, stolen, silent, others>>

(* A connection ends as a failed attempt: DM, or N2 spent on SABMs.         *)
AttemptFails(k) ==
    /\ conn[k].state = "Connecting"
    /\ NotifyFailed(k) /\ Remove(k)
    /\ UNCHANGED <<reg, inflight, online, stolen, others>>

(* Or as a disconnect: UA or DM to our DISC, the peer's DISC at any time, a *)
(* DM to an established link, N2 spent on polls or DISCs.                   *)
LinkEnds(k) ==
    /\ Up(k)
    /\ NotifyDisconnected(k) /\ Remove(k)
    /\ UNCHANGED <<reg, inflight, online, stolen, others>>

(* FRMR resets an established link with a fresh SABM and tells nobody.      *)
DispatchFRMR(k) ==
    /\ Receiving(k) /\ conn[k].state = "Connected"
    /\ conn' = [conn EXCEPT ![k].state = "Connecting"]
    /\ UNCHANGED <<phase, reg, inflight, outq, view, api, online, stolen, silent, others>>

(* Received data goes to the owner.                                         *)
DeliverData(k) ==
    /\ Receiving(k) /\ conn[k].state = "Connected"
    /\ Tell(OneTo(conn[k].owner), Nothing, Nothing)
    /\ UNCHANGED <<reg, inflight, conn, api, online, stolen, silent, others>>

-----------------------------------------------------------------------------
(* A port goes offline at once and its closure runs later, ending every     *)
(* connection of the port; a reconnect brings the port back.  (The relink   *)
(* that keeps the connections is in module Ports.)                          *)
PortDies(p) ==
    /\ online[p] = "up" /\ online' = [online EXCEPT ![p] = "dying"]
    /\ UNCHANGED <<phase, reg, inflight, outq, conn, view, api, stolen, silent, others>>

PortOffline(p) ==
    /\ online[p] = "dying" /\ online' = [online EXCEPT ![p] = "down"]
    /\ LET ended(c) == {k \in Owned(c) : k[1] = p}
       IN  Tell([c \in Clients |-> Cardinality(ended(c))], Nothing,
                [c \in Clients |-> ended(c)])
    /\ conn' = [k \in Keys |-> IF k[1] = p THEN Absent ELSE conn[k]]
    /\ api' = api \ {k \in Keys : k[1] = p /\ Up(k)}
    /\ UNCHANGED <<reg, inflight, stolen, silent, others>>

PortBack(p) ==
    /\ online[p] = "down" /\ online' = [online EXCEPT ![p] = "up"]
    /\ UNCHANGED <<phase, reg, inflight, outq, conn, view, api, stolen, silent, others>>

Next ==
    \/ \E c \in Clients :
          \/ Join(c) \/ Post(c) \/ Drain(c) \/ Hangup(c) \/ RemoveClient(c)
          \/ Query(c) \/ SendFrame(c) \/ Monitor(c)
          \/ \E call \in Calls : Register(c, call) \/ Unregister(c, call)
          \/ \E k \in Keys :
                Disconnect(c, k) \/ \E looks \in BOOLEAN : Connect(c, k, looks)
    \/ \E k \in Keys :
          \/ DispatchSABM(k) \/ DispatchAccept(k) \/ AttemptFails(k)
          \/ LinkEnds(k) \/ DispatchFRMR(k) \/ DeliverData(k)
    \/ \E p \in Ports : PortDies(p) \/ PortOffline(p) \/ PortBack(p)

Spec == Init /\ [][Next]_vars

-----------------------------------------------------------------------------
(* A connection in the table always has an owner, and one that is still     *)
(* among the bridge's clients: no frame that was posted before a client     *)
(* left, and no SABM to its callsign, leaves an entry behind that nobody    *)
(* can disconnect (RemoveClient runs behind the client's own frames).       *)
OwnersPresent == \A k \in Keys : Up(k) => phase[conn[k].owner] # "gone"

(* The owner of an established connection has been told of it, however it   *)
(* came up: by its own request, by the peer's, or by both at once.          *)
ToldOfEvery ==
    \A k \in Keys :
        conn[k].state = "Connected" /\ phase[conn[k].owner] = "in" /\ online[k[1]] = "up"
            => k \in view[conn[k].owner]

(* A live client that was told of a connection and not of its end still     *)
(* owns it; the exception is a SABM that hands the connection to the client *)
(* that registered the callsign.                                            *)
ViewsTrue ==
    stolen \/ \A c \in Clients : phase[c] = "in" => view[c] \subseteq Owned(c)

(* API subscribers have seen every established connection come up, and go   *)
(* again when it ended through one of the L2 hooks that report it.          *)
ApiFollows ==
    /\ \A k \in Keys : conn[k].state = "Connected" => k \in api
    /\ silent \/ \A k \in api : Up(k)

(* What the comment on notifyDisconnected says: API consumers see a         *)
(* disconnect event for every connection.                                   *)
(* Does not hold of the code (a known gap in the README).                   *)
ApiSeesEveryEnd == \A k \in api : Up(k)
=============================================================================
