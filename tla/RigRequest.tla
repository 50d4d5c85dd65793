----------------------------- MODULE RigRequest -----------------------------
(***************************************************************************)
(* Request and reply between tncd and a Benshi radio (internal/rig/rig.go) *)
(* with replies that carry no correlation id: one request at a time under  *)
(* reqMu, a quiet period after a reply timeout, a rig closed for good      *)
(* after a write timeout, and bridge.RigFor, which builds a new rig on the *)
(* same link once the old one is closed.                                   *)
(*                                                                         *)
(* Requests cross three queues in order: writes that wait for the link,    *)
(* requests the radio has taken, replies on their way back.  Time is       *)
(* whatever order the timers fire in.                                      *)
(*                                                                         *)
(* A definition named after a mistake is a faulty variant of the one that  *)
(* follows it.                                                             *)
(***************************************************************************)
EXTENDS Naturals, Sequences

CONSTANTS
    Clients,      \* goroutines that use the rig
    Commands,     \* command types
    MaxRequests,  \* bound: requests begun
    MaxRigs,      \* bound: rigs built
    PatientRadio  \* a reply comes before the quiet period is over, or never

ASSUME RequestAssumption ==
    /\ MaxRequests \in Nat /\ MaxRigs \in Nat \ {0} /\ PatientRadio \in BOOLEAN

VARIABLES
    rig,        \* number of the rig RigFor hands out; 0 before the first
    closed,     \* rigs that are closed
    reqMu,      \* per rig, who holds its request lock
    waiting,    \* per rig, the request a reply would go to
    replyCh,    \* per rig, the reply buffered for that request
    call,       \* per client, where its request is
    outgoing,   \* writes not yet on the link
    atRadio,    \* requests the radio has not answered
    incoming,   \* replies not yet dispatched
    answers,    \* history: request and reply pairs returned to callers
    inherited,  \* history: a closed rig left a write behind on the link
    begun       \* bounded counter; also the identity of the next request

vars == <<rig, closed, reqMu, waiting, replyCh, call, outgoing, atRadio,
          incoming, answers, inherited, begun>>

link == <<outgoing, atRadio, incoming>>

Rigs == 1 .. MaxRigs

None == [id |-> 0, cmd |-> "none"]

Requests == [id : 1 .. MaxRequests, cmd : Commands]

TypeOK ==
    /\ rig \in 0 .. MaxRigs /\ closed \subseteq Rigs
    /\ reqMu \in [Rigs -> Clients \cup {"free"}]
    /\ waiting \in [Rigs -> Requests \cup {None}]
    /\ replyCh \in [Rigs -> Requests \cup {None}]
    /\ call \in [Clients -> [pc : {"idle", "locking", "writing", "awaiting", "quiet"},
                             rig : 0 .. MaxRigs, req : Requests \cup {None}]]
    /\ outgoing \in Seq(Requests) /\ atRadio \in Seq(Requests)
    /\ incoming \in Seq(Requests)
    /\ answers \subseteq Requests \X Requests
    /\ inherited \in BOOLEAN
    /\ begun \in 0 .. MaxRequests

Idle == [pc |-> "idle", rig |-> 0, req |-> None]

Init ==
    /\ rig = 0 /\ closed = {}
    /\ reqMu = [r \in Rigs |-> "free"]
    /\ waiting = [r \in Rigs |-> None] /\ replyCh = [r \in Rigs |-> None]
    /\ call = [c \in Clients |-> Idle]
    /\ outgoing = <<>> /\ atRadio = <<>> /\ incoming = <<>>
    /\ answers = {} /\ inherited = FALSE /\ begun = 0

Usable == rig # 0 /\ rig \notin closed

-----------------------------------------------------------------------------
(* A client looks its rig up: RigFor hands out the cached one, or a new one *)
(* when that is closed.  Then it calls request.                             *)
Begin(c, cmd) ==
    /\ call[c].pc = "idle" /\ begun < MaxRequests
    /\ Usable \/ rig < MaxRigs
    /\ rig' = IF Usable THEN rig ELSE rig + 1
    /\ begun' = begun + 1
    /\ call' = [call EXCEPT ![c] = [pc |-> "locking", rig |-> rig',
                                    req |-> [id |-> begun + 1, cmd |-> cmd]]]
    /\ UNCHANGED <<closed, reqMu, waiting, replyCh, link, answers, inherited>>

(* reqMu and the closed check; the reply channel is registered before the   *)
(* write starts.                                                            *)
Start(c) ==
    LET r == call[c].rig
    IN  /\ call[c].pc = "locking" /\ reqMu[r] = "free"
        /\ r \notin closed
        /\ call' = [call EXCEPT ![c].pc = "writing"]
        /\ reqMu' = [reqMu EXCEPT ![r] = c]
        /\ waiting' = [waiting EXCEPT ![r] = call[c].req]
        /\ replyCh' = [replyCh EXCEPT ![r] = None]
        /\ outgoing' = Append(outgoing, call[c].req)
        /\ UNCHANGED <<rig, closed, atRadio, incoming, answers, inherited, begun>>

RefuseClosed(c) ==
    /\ call[c].pc = "locking" /\ reqMu[call[c].rig] = "free"
    /\ call[c].rig \in closed
    /\ call' = [call EXCEPT ![c] = Idle]
    /\ UNCHANGED <<rig, closed, reqMu, waiting, replyCh, link, answers,
                   inherited, begun>>

(* request returns: the deferred cleanup forgets the reply channel and      *)
(* frees the lock.                                                          *)
ReturnHoldingLock(c) ==
    LET r == call[c].rig
    IN  /\ call' = [call EXCEPT ![c] = Idle]
        /\ waiting' = [waiting EXCEPT ![r] = None]
        /\ UNCHANGED reqMu

Return(c) ==
    LET r == call[c].rig
    IN  /\ call' = [call EXCEPT ![c] = Idle]
        /\ waiting' = [waiting EXCEPT ![r] = None]
        /\ reqMu' = [reqMu EXCEPT ![r] = "free"]

-----------------------------------------------------------------------------
(* The write: it lands, which its goroutine reports to a caller still       *)
(* waiting for it; or it fails, with nothing a radio would answer sent; or  *)
(* the deadline comes first and closes the rig.                             *)
Land ==
    /\ outgoing # <<>>
    /\ outgoing' = Tail(outgoing)
    /\ atRadio' = Append(atRadio, Head(outgoing))
    /\ call' = [c \in Clients |->
                  IF call[c].pc = "writing" /\ call[c].req = Head(outgoing)
                  THEN [call[c] EXCEPT !.pc = "awaiting"] ELSE call[c]]
    /\ UNCHANGED <<rig, closed, reqMu, waiting, replyCh, incoming, answers,
                   inherited, begun>>

WriteError(c) ==
    /\ call[c].pc = "writing" /\ outgoing # <<>> /\ Head(outgoing) = call[c].req
    /\ outgoing' = Tail(outgoing)
    /\ Return(c)
    /\ UNCHANGED <<rig, closed, replyCh, atRadio, incoming, answers, inherited,
                   begun>>

WriteTimeout(c) ==
    /\ call[c].pc = "writing"
    /\ closed' = closed \cup {call[c].rig}
    /\ inherited' = (inherited \/ \E i \in DOMAIN outgoing : outgoing[i] = call[c].req)
    /\ Return(c)
    /\ UNCHANGED <<rig, replyCh, link, answers, begun>>

-----------------------------------------------------------------------------
(* The radio answers in order, or does not answer.                          *)
Answer ==
    /\ atRadio # <<>>
    /\ atRadio' = Tail(atRadio)
    /\ incoming' = Append(incoming, Head(atRadio))
    /\ UNCHANGED <<rig, closed, reqMu, waiting, replyCh, call, outgoing, answers,
                   inherited, begun>>

Ignore ==
    /\ atRadio # <<>>
    /\ atRadio' = Tail(atRadio)
    /\ UNCHANGED <<rig, closed, reqMu, waiting, replyCh, call, outgoing, incoming,
                   answers, inherited, begun>>

(* readLoop and dispatch: a reply goes to the waiting request of its type,  *)
(* if that has none yet; otherwise it is dropped.                           *)
Takes(reply) ==
    /\ Usable /\ waiting[rig] # None
    /\ waiting[rig].cmd = reply.cmd
    /\ replyCh[rig] = None

Dispatch ==
    /\ incoming # <<>>
    /\ incoming' = Tail(incoming)
    /\ replyCh' = IF Takes(Head(incoming))
                  THEN [replyCh EXCEPT ![rig] = Head(incoming)] ELSE replyCh
    /\ UNCHANGED <<rig, closed, reqMu, waiting, call, outgoing, atRadio, answers,
                   inherited, begun>>

-----------------------------------------------------------------------------
(* The reply is returned; or the deadline passes and the quiet period       *)
(* begins, in which a reply is dropped and ends it; or it runs out.         *)
Receive(c) ==
    /\ call[c].pc = "awaiting" /\ replyCh[call[c].rig] # None
    /\ answers' = answers \cup {<<call[c].req, replyCh[call[c].rig]>>}
    /\ Return(c)
    /\ UNCHANGED <<rig, closed, replyCh, link, inherited, begun>>

ReplyTimeoutReturns(c) ==
    /\ call[c].pc = "awaiting"
    /\ Return(c)
    /\ UNCHANGED <<rig, closed, replyCh, link, answers, inherited, begun>>

ReplyTimeout(c) ==
    /\ call[c].pc = "awaiting"
    /\ call' = [call EXCEPT ![c].pc = "quiet"]
    /\ UNCHANGED <<rig, closed, reqMu, waiting, replyCh, link, answers, inherited,
                   begun>>

InFlight(req) ==
    \E q \in {atRadio, incoming} : \E i \in DOMAIN q : q[i] = req

QuietEnds(c) ==
    /\ call[c].pc = "quiet"
    /\ \/ replyCh[call[c].rig] # None
       \/ PatientRadio => ~InFlight(call[c].req)
    /\ Return(c)
    /\ UNCHANGED <<rig, closed, replyCh, link, answers, inherited, begun>>

(* closedCh wakes a request wherever it waits.                              *)
Wake(c) ==
    /\ call[c].pc \in {"writing", "awaiting", "quiet"} /\ call[c].rig \in closed
    /\ Return(c)
    /\ UNCHANGED <<rig, closed, replyCh, link, answers, inherited, begun>>

(* The link drops: readLoop closes the rig, and the next link is empty.     *)
LinkDrops ==
    /\ Usable
    /\ closed' = closed \cup {rig}
    /\ outgoing' = <<>> /\ atRadio' = <<>> /\ incoming' = <<>>
    /\ UNCHANGED <<rig, reqMu, waiting, replyCh, call, answers, inherited, begun>>

Next ==
    \/ \E c \in Clients :
          \/ \E cmd \in Commands : Begin(c, cmd)
          \/ Start(c) \/ RefuseClosed(c) \/ WriteError(c) \/ WriteTimeout(c)
          \/ Receive(c) \/ ReplyTimeout(c) \/ QuietEnds(c) \/ Wake(c)
    \/ Land \/ Answer \/ Ignore \/ Dispatch \/ LinkDrops

Spec == Init /\ [][Next]_vars

(* Timers fire, the reader goroutine runs, a freed lock is taken in turn,   *)
(* and the radio settles each request one way or the other.                 *)
Fairness ==
    /\ \A c \in Clients :
          /\ SF_vars(Start(c)) /\ SF_vars(RefuseClosed(c))
          /\ WF_vars(WriteTimeout(c)) /\ WF_vars(ReplyTimeout(c))
          /\ WF_vars(QuietEnds(c)) /\ WF_vars(Wake(c))
    /\ WF_vars(Dispatch) /\ WF_vars(Answer \/ Ignore)

FairSpec == Init /\ [][Next]_vars /\ Fairness

-----------------------------------------------------------------------------
(* A caller gets the reply to its own request, never a straggler's: after   *)
(* any number of timeouts, write errors and dropped links, as long as no    *)
(* closed rig left a write behind on the link (request,                     *)
(* waitOutQuietPeriod, dispatch).                                           *)
OwnAnswerOnOneRig ==
    inherited \/ \A a \in answers : a[1] = a[2]

(* Every request returns, with an answer, an error or a timeout, whatever   *)
(* the link and the radio do, and the rig serves the next caller.           *)
RequestsReturn == \A c \in Clients : (call[c].pc # "idle") ~> (call[c].pc = "idle")

(* What the comments on Rig and in request's write-timeout branch promise:  *)
(* no request ever receives an abandoned write's answer.                    *)
(* Does not hold of the code (a known gap in the README).                   *)
OwnAnswer == \A a \in answers : a[1] = a[2]
=============================================================================
