------------------------------ MODULE KissPort ------------------------------
(***************************************************************************)
(* One kiss.Port (kiss/port.go): the reader and the writer goroutines that *)
(* share a transport with the rig-control channel, and the teardown that   *)
(* any of them, or Close, may start.                                       *)
(*                                                                         *)
(* Every party that can end the port races for one compare-and-swap on     *)
(* `closed`; the winner takes the teardown steps one at a time.  A write   *)
(* runs in a goroutine of its own (a job) that holds the transmit slot     *)
(* until the transport's Write returns, even when whoever asked for it has *)
(* given up.  The transport may wedge: its Write may then never return,    *)
(* not even when the transport is closed.                                  *)
(*                                                                         *)
(* A definition named after a mistake is a faulty variant of the one that  *)
(* follows it.                                                             *)
(***************************************************************************)
EXTENDS Naturals

CONSTANTS
    TxQueueSize,   \* capacity of txCh
    MaxFrames,     \* bound: frames handed to Send
    MaxControls,   \* bound: control writes
    ExitWrites     \* the transport's ExitKISS writes to the device (serial)

ASSUME PortAssumption ==
    /\ TxQueueSize \in Nat \ {0} /\ MaxFrames \in Nat /\ MaxControls \in Nat
    /\ ExitWrites \in BOOLEAN

VARIABLES
    closed,    \* the flag the compare-and-swap is on
    online,    \* what Online() reports
    stop,      \* stopCh is closed
    open,      \* the transport is open
    reader,    \* the reader goroutine
    writer,    \* the writer goroutine
    control,   \* a caller of the control channel's Write
    listener,  \* a caller of the control channel's Read (rig.readLoop)
    closer,    \* a caller of Close
    owner,     \* who won the compare-and-swap
    slot,      \* txSem: who started the write that holds it
    job,       \* per requester, its write goroutine and that one's result
    queue,     \* frames in txCh
    wedged,    \* the transport accepts nothing
    offlines,  \* calls of onOffline
    frames, controls   \* bounded counters of the callers

vars == <<closed, online, stop, open, reader, writer, control, listener,
          closer, owner, slot, job, queue, wedged, offlines, frames, controls>>

callers == <<frames, controls>>

Requesters == {"writer", "control"}

Tearing == {"offline", "stopping", "closing", "notifying"}

TypeOK ==
    /\ closed \in BOOLEAN /\ online \in BOOLEAN /\ stop \in BOOLEAN
    /\ open \in BOOLEAN /\ wedged \in BOOLEAN
    /\ reader \in {"unborn", "reading", "done"} \cup Tearing
    /\ writer \in {"unborn", "idle", "pacing", "acquiring", "waiting",
                   "failing", "done"} \cup Tearing
    /\ control \in {"idle", "acquiring", "waiting", "failing"} \cup Tearing
    /\ listener \in {"blocked", "eof"}
    /\ closer \in {"idle", "stopping", "exiting", "closing",
                   "joining", "returned"}
    /\ owner \in {"none", "reader", "writer", "control", "closer"}
    /\ slot \in {"free"} \cup Requesters
    /\ job \in [Requesters -> {"none", "writing", "ok", "error"}]
    /\ queue \in 0 .. TxQueueSize
    /\ offlines \in 0 .. 1
    /\ frames \in 0 .. MaxFrames /\ controls \in 0 .. MaxControls

Init ==
    /\ closed = FALSE /\ online = FALSE /\ stop = FALSE /\ open = FALSE
    /\ reader = "unborn" /\ writer = "unborn"
    /\ control = "idle" /\ listener = "blocked" /\ closer = "idle"
    /\ owner = "none" /\ slot = "free"
    /\ job = [w \in Requesters |-> "none"]
    /\ queue = 0 /\ wedged = FALSE /\ offlines = 0
    /\ frames = 0 /\ controls = 0

-----------------------------------------------------------------------------
(* Start opens the transport, enters KISS mode, sends the parameters and    *)
(* spawns the two loops; when opening or entering fails the port stays down *)
(* and nobody keeps it.                                                     *)
Start ==
    /\ reader = "unborn" /\ closer = "idle"
    /\ open' = TRUE /\ online' = TRUE
    /\ reader' = "reading" /\ writer' = "idle"
    /\ UNCHANGED <<closed, stop, control, listener, closer, owner, slot, job,
                   queue, wedged, offlines, callers>>

Started == reader # "unborn"

-----------------------------------------------------------------------------
(* The teardown of readerLoop's error path and of failTX: whoever swaps     *)
(* `closed` first takes the port offline, stops the others, closes the      *)
(* transport and reports; a loser only leaves.                              *)
Swap(self) ==
    /\ closed' = TRUE
    /\ owner' = IF closed THEN owner ELSE self

TakeOffline(pc) == pc = "offline" /\ online' = FALSE /\ UNCHANGED <<stop, open, offlines>>

StopAll(pc) == pc = "stopping" /\ stop' = TRUE /\ UNCHANGED <<online, open, offlines>>

CloseTransport(pc) == pc = "closing" /\ open' = FALSE /\ UNCHANGED <<online, stop, offlines>>

Notify(pc) == pc = "notifying" /\ offlines' = offlines + 1 /\ UNCHANGED <<online, stop, open>>

NotifyFirst(pc, last) ==
    CASE pc = "offline" -> "stopping"
      [] pc = "stopping" -> "notifying"
      [] pc = "notifying" -> "closing"
      [] pc = "closing" -> last

NextTearing(pc, last) ==
    CASE pc = "offline" -> "stopping"
      [] pc = "stopping" -> "closing"
      [] pc = "closing" -> "notifying"
      [] pc = "notifying" -> last

TearDownStep(pc, last, next) ==
    /\ TakeOffline(pc) \/ StopAll(pc) \/ CloseTransport(pc) \/ Notify(pc)
    /\ next = NextTearing(pc, last)

-----------------------------------------------------------------------------
(* readerLoop: a read error comes from the link at any time, and from a     *)
(* closed transport.  The loser of the swap returns at once.                *)
ReadError ==
    /\ reader = "reading"
    /\ Swap("reader")
    /\ reader' = IF closed THEN "done" ELSE "offline"
    /\ UNCHANGED <<online, stop, open, writer, control, listener, closer, slot,
                   job, queue, wedged, offlines, callers>>

ReaderTearDown ==
    /\ \E next \in Tearing \cup {"done"} :
          TearDownStep(reader, "done", next) /\ reader' = next
    /\ UNCHANGED <<closed, writer, control, listener, closer, owner, slot, job,
                   queue, wedged, callers>>

-----------------------------------------------------------------------------
(* Send and SendCommand queue a frame, or drop it when txCh is full.        *)
Send ==
    /\ Started /\ frames < MaxFrames
    /\ queue' = IF queue < TxQueueSize THEN queue + 1 ELSE queue
    /\ frames' = frames + 1
    /\ UNCHANGED <<closed, online, stop, open, reader, writer, control, listener,
                   closer, owner, slot, job, wedged, offlines, controls>>

(* writerLoop takes a frame or sees stopCh closed; a frame may first wait   *)
(* out its pacing delay, which stopCh cuts short.                           *)
TakeFrame ==
    /\ writer = "idle" /\ queue > 0
    /\ queue' = queue - 1
    /\ writer' \in {"pacing", "acquiring"}
    /\ UNCHANGED <<closed, online, stop, open, reader, control, listener, closer,
                   owner, slot, job, wedged, offlines, callers>>

Paced ==
    /\ writer = "pacing" /\ writer' = "acquiring"
    /\ UNCHANGED <<closed, online, stop, open, reader, control, listener, closer,
                   owner, slot, job, queue, wedged, offlines, callers>>

(* The writer selects on stopCh wherever it waits.                          *)
WriterIgnoresStop ==
    /\ stop /\ writer \in {"idle", "pacing", "waiting"}
    /\ writer' = "done"
    /\ UNCHANGED <<closed, online, stop, open, reader, control, listener, closer,
                   owner, slot, job, queue, wedged, offlines, callers>>

WriterStops ==
    /\ stop /\ writer \in {"idle", "pacing", "acquiring", "waiting"}
    /\ writer' = "done"
    /\ UNCHANGED <<closed, online, stop, open, reader, control, listener, closer,
                   owner, slot, job, queue, wedged, offlines, callers>>

-----------------------------------------------------------------------------
(* acquireTxSem and the goroutine that then writes, for either requester;   *)
(* the write's end frees the slot and leaves its result, awaited or not.    *)
BeginWrite(w) ==
    /\ slot = "free"
    /\ slot' = w
    /\ job' = [job EXCEPT ![w] = "writing"]

WriteReturns(w) ==
    /\ job[w] = "writing"
    /\ ~wedged \/ ~open
    /\ \E result \in IF open THEN {"ok", "error"} ELSE {"error"} :
          job' = [job EXCEPT ![w] = result]
    /\ slot' = "free"
    /\ UNCHANGED <<closed, online, stop, open, reader, writer, control, listener,
                   closer, owner, queue, wedged, offlines, callers>>

WriterBegins ==
    /\ writer = "acquiring" /\ BeginWrite("writer")
    /\ writer' = "waiting"
    /\ UNCHANGED <<closed, online, stop, open, reader, control, listener, closer,
                   owner, queue, wedged, offlines, callers>>

(* The result: a good one sends the loop back to the queue, an error fails  *)
(* the port, and so does a write that is not over after txWriteTimeout.     *)
WriterResult ==
    /\ writer = "waiting" /\ job["writer"] \in {"ok", "error"}
    /\ writer' = IF job["writer"] = "ok" THEN "idle" ELSE "failing"
    /\ UNCHANGED <<closed, online, stop, open, reader, control, listener, closer,
                   owner, slot, job, queue, wedged, offlines, callers>>

WriteTimeoutFreesSlot ==
    /\ writer = "waiting" /\ job["writer"] = "writing"
    /\ writer' = "failing"
    /\ slot' = "free"
    /\ UNCHANGED <<closed, online, stop, open, reader, control, listener, closer,
                   owner, job, queue, wedged, offlines, callers>>

WriteTimeout ==
    /\ writer = "waiting" /\ job["writer"] = "writing"
    /\ writer' = "failing"
    /\ UNCHANGED <<closed, online, stop, open, reader, control, listener, closer,
                   owner, slot, job, queue, wedged, offlines, callers>>

WriterFailTX ==
    /\ \/ /\ writer = "failing" /\ Swap("writer")
          /\ writer' = IF closed THEN "done" ELSE "offline"
          /\ UNCHANGED <<online, stop, open, offlines>>
       \/ /\ \E next \in Tearing \cup {"done"} :
                TearDownStep(writer, "done", next) /\ writer' = next
          /\ UNCHANGED <<closed, owner>>
    /\ UNCHANGED <<reader, control, listener, closer, slot, job, queue, wedged,
                   callers>>

-----------------------------------------------------------------------------
(* portControlChannel.Write: refused once stopCh is closed, otherwise the   *)
(* same slot, the same goroutine and the same bound; only a timeout fails   *)
(* the port, an error is the caller's to handle.                            *)
ControlWrite ==
    /\ Started /\ control = "idle" /\ ~stop /\ controls < MaxControls
    /\ control' = "acquiring"
    /\ controls' = controls + 1
    /\ UNCHANGED <<closed, online, stop, open, reader, writer, listener, closer,
                   owner, slot, job, queue, wedged, offlines, frames>>

ControlBegins ==
    /\ control = "acquiring" /\ BeginWrite("control")
    /\ control' = "waiting"
    /\ UNCHANGED <<closed, online, stop, open, reader, writer, listener, closer,
                   owner, queue, wedged, offlines, callers>>

ControlReturns ==
    /\ \/ control \in {"acquiring", "waiting"} /\ stop
       \/ control = "waiting" /\ job["control"] \in {"ok", "error"}
    /\ control' = "idle"
    /\ UNCHANGED <<closed, online, stop, open, reader, writer, listener, closer,
                   owner, slot, job, queue, wedged, offlines, callers>>

ControlTimeoutKeepsPort ==
    /\ control = "waiting" /\ job["control"] = "writing"
    /\ control' = "idle"
    /\ UNCHANGED <<closed, online, stop, open, reader, writer, listener, closer,
                   owner, slot, job, queue, wedged, offlines, callers>>

ControlTimeout ==
    /\ control = "waiting" /\ job["control"] = "writing"
    /\ control' = "failing"
    /\ UNCHANGED <<closed, online, stop, open, reader, writer, listener, closer,
                   owner, slot, job, queue, wedged, offlines, callers>>

ControlFailTX ==
    /\ \/ /\ control = "failing" /\ Swap("control")
          /\ control' = IF closed THEN "idle" ELSE "offline"
          /\ UNCHANGED <<online, stop, open, offlines>>
       \/ /\ \E next \in Tearing \cup {"idle"} :
                TearDownStep(control, "idle", next) /\ control' = next
          /\ UNCHANGED <<closed, owner>>
    /\ UNCHANGED <<reader, writer, listener, closer, slot, job, queue, wedged,
                   callers>>

(* portControlChannel.Read ends with the port.                              *)
ReadEOF ==
    /\ listener = "blocked" /\ stop
    /\ listener' = "eof"
    /\ UNCHANGED <<closed, online, stop, open, reader, writer, control, closer,
                   owner, slot, job, queue, wedged, offlines, callers>>

-----------------------------------------------------------------------------
(* Close: the loser of the swap returns at once.  The winner closes stopCh, *)
(* clears online, lets the transport write its exit sequence (without the   *)
(* transmit slot), closes it and waits for the two loops.                   *)
Close ==
    /\ Started /\ closer = "idle"
    /\ Swap("closer")
    /\ closer' = IF closed THEN "returned" ELSE "stopping"
    /\ UNCHANGED <<online, stop, open, reader, writer, control, listener, slot,
                   job, queue, wedged, offlines, callers>>

CloseStops ==
    /\ closer = "stopping"
    /\ stop' = TRUE /\ online' = FALSE
    /\ closer' = IF ExitWrites THEN "exiting" ELSE "closing"
    /\ UNCHANGED <<closed, open, reader, writer, control, listener, owner, slot,
                   job, queue, wedged, offlines, callers>>

ExitKISS ==
    /\ closer = "exiting" /\ ~wedged
    /\ closer' = "closing"
    /\ UNCHANGED <<closed, online, stop, open, reader, writer, control, listener,
                   owner, slot, job, queue, wedged, offlines, callers>>

CloseLeavesOpen ==
    /\ closer = "closing"
    /\ closer' = "joining"
    /\ UNCHANGED <<closed, online, stop, open, reader, writer, control, listener,
                   owner, slot, job, queue, wedged, offlines, callers>>

CloseCloses ==
    /\ closer = "closing"
    /\ open' = FALSE
    /\ closer' = "joining"
    /\ UNCHANGED <<closed, online, stop, reader, writer, control, listener, owner,
                   slot, job, queue, wedged, offlines, callers>>

Join ==
    /\ closer = "joining" /\ reader = "done" /\ writer = "done"
    /\ closer' = "returned"
    /\ UNCHANGED <<closed, online, stop, open, reader, writer, control, listener,
                   owner, slot, job, queue, wedged, offlines, callers>>

-----------------------------------------------------------------------------
(* The radio stops taking bytes, or takes them again.                       *)
Wedge ==
    /\ Started /\ wedged' = ~wedged
    /\ UNCHANGED <<closed, online, stop, open, reader, writer, control, listener,
                   closer, owner, slot, job, queue, offlines, callers>>

Next ==
    \/ Start \/ ReadError \/ ReaderTearDown
    \/ Send \/ TakeFrame \/ Paced \/ WriterStops \/ WriterBegins \/ WriterResult
    \/ WriteTimeout \/ WriterFailTX
    \/ ControlWrite \/ ControlBegins \/ ControlReturns \/ ControlTimeout
    \/ ControlFailTX \/ ReadEOF
    \/ Close \/ CloseStops \/ ExitKISS \/ CloseCloses \/ Join
    \/ \E w \in Requesters : WriteReturns(w)
    \/ Wedge

Spec == Init /\ [][Next]_vars

(* The Go scheduler runs every goroutine that can run, a timer fires, and a *)
(* read on a closed transport returns.  Nothing makes a write on a wedged   *)
(* transport return, not even closing it.                                   *)
Fairness ==
    /\ WF_vars(ReadError /\ ~open) /\ WF_vars(ReaderTearDown)
    /\ WF_vars(TakeFrame) /\ WF_vars(Paced) /\ WF_vars(WriterStops)
    /\ SF_vars(WriterBegins) /\ WF_vars(WriterResult)
    /\ WF_vars(WriteTimeout) /\ WF_vars(WriterFailTX)
    /\ WF_vars(ControlReturns) /\ WF_vars(ControlTimeout)
    /\ WF_vars(ControlFailTX) /\ WF_vars(ReadEOF)
    /\ WF_vars(CloseStops) /\ SF_vars(ExitKISS) /\ WF_vars(CloseCloses)
    /\ WF_vars(Join)
    /\ \A w \in Requesters : WF_vars(WriteReturns(w) /\ ~wedged)

FairSpec == Init /\ [][Next]_vars /\ Fairness

-----------------------------------------------------------------------------
(* A KISS write and a control write never overlap on the transport, not     *)
(* even when one was given up on after its timeout and is still in flight   *)
(* (txSem; "nothing else may write while its bytes might still land").      *)
OneOnTheWire ==
    ~(job["writer"] = "writing" /\ job["control"] = "writing")

(* The bridge hears of a dead port at most once, only from the party that   *)
(* won the teardown and never because of Close, and by then the transport   *)
(* is closed, so that the reconnect can open the device again.  A Close     *)
(* that did the teardown has joined both loops and closed the transport     *)
(* when it returns.                                                         *)
TeardownOnce ==
    /\ offlines <= 1
    /\ offlines = 1 => owner \notin {"none", "closer"} /\ ~open /\ stop /\ ~online
    /\ closer = "returned" /\ owner = "closer" =>
        reader = "done" /\ writer = "done" /\ ~open /\ offlines = 0

(* Close hangs in the exit sequence of a serial transport, which is written *)
(* with no bound.                                                           *)
ExitHangs == []<>(closer = "exiting" /\ wedged)

(* A teardown completes whoever began it and whatever the transport does:   *)
(* both loops end, and a port that failed is reported offline and its       *)
(* control reader sees the end (failTX, readerLoop, writerLoop, Close).     *)
TeardownCompletes ==
    /\ ExitHangs \/ (closed ~> (reader = "done" /\ writer = "done"))
    /\ (owner \in {"reader", "writer", "control"}) ~> (offlines = 1 /\ listener = "eof")

(* A queued frame is written or the port is failed: neither a wedged KISS   *)
(* write nor a wedged control write that holds the slot for good can leave  *)
(* the port online and silent.                                              *)
QueueDrains == (queue > 0) ~> (queue = 0 \/ closed)

(* What the comment on Close promises of every call: the goroutines are     *)
(* joined before it returns, also when the reader won the race.             *)
(* Does not hold of the code (a known gap in the README).                   *)
CloseJoins == closer = "returned" => reader = "done" /\ writer = "done"

(* Close returns although writes on a wedged transport never do, unless the *)
(* exit sequence itself hangs (Close, txWriteTimeout).                      *)
CloseReturnsUnlessExitHangs ==
    ExitHangs \/ ((closer # "idle") ~> (closer = "returned"))

(* What the comment on txWriteTimeout says of every write path: it is       *)
(* bounded, so a Close on a wedged transport returns.                       *)
(* Does not hold of the code (a known gap in the README).                   *)
CloseReturns == (closer # "idle") ~> (closer = "returned")

(* What the comment on txSem says of every write to the transport.          *)
(* Does not hold of the code (a known gap in the README).                   *)
EveryWriteSerialised ==
    ~(closer = "exiting" /\ \E w \in Requesters : job[w] = "writing")
=============================================================================
