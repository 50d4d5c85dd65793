--------------------------- MODULE KissPortProofs ---------------------------
(***************************************************************************)
(* Proofs for KissPort: one write at a time on the transport, and one      *)
(* teardown of the port, for every queue size and any number of frames and *)
(* control writes.                                                         *)
(*                                                                         *)
(* TeardownOnce is not inductive: it says nothing of a teardown half done. *)
(* PortInv adds who may be tearing down (only the winner of the swap), and *)
(* what the winner has done by the time it is at each step.                *)
(***************************************************************************)
EXTENDS KissPort, TLAPS

\* A write in flight holds the transmit slot.
SlotInv == \A w \in Requesters : job[w] = "writing" => slot = w

\* What a winner of the swap has done when it is at step pc of the teardown ...
Done(pc) == /\ pc \in {"stopping", "closing", "notifying"} => online = FALSE
            /\ pc \in {"closing", "notifying"} => stop = TRUE
            /\ pc = "notifying" => open = FALSE
            /\ offlines = 0

\* ... and when it is through.
Over == online = FALSE /\ stop = TRUE /\ open = FALSE /\ offlines = 1

Torn(pc) == IF pc \in Tearing THEN Done(pc) ELSE Over

\* Only the winner tears down.
OwnerInv == /\ closed = FALSE <=> owner = "none"
            /\ reader \in Tearing => owner = "reader"
            /\ writer \in Tearing => owner = "writer"
            /\ control \in Tearing => owner = "control"
            /\ closer \notin {"idle", "returned"} => owner = "closer"

TornInv == /\ owner = "none" => offlines = 0 /\ closer = "idle"
           /\ owner = "reader" => Torn(reader) /\ reader \in Tearing \cup {"done"}
           /\ owner = "writer" => Torn(writer)
           /\ owner = "control" => Torn(control)
           /\ owner = "closer" => /\ offlines = 0 /\ closer # "idle"
                                  /\ closer \in {"joining", "returned"} => open = FALSE
                                  /\ closer = "returned" => reader = "done" /\ writer = "done"

\* Before Start nobody does anything.
BirthInv == /\ reader = "unborn" => /\ owner = "none" /\ writer = "unborn"
                                    /\ control = "idle" /\ closer = "idle"
            /\ writer = "unborn" => reader = "unborn"

PortInv == TypeOK /\ SlotInv /\ OwnerInv /\ TornInv /\ BirthInv

\* The initial state satisfies the invariant.
LEMMA InitInv == Init => PortInv
<1> SUFFICES ASSUME Init PROVE PortInv
  OBVIOUS
<1>0. 0 \in 0 .. TxQueueSize /\ 0 \in 0 .. MaxFrames /\ 0 \in 0 .. MaxControls /\ 0 \in 0 .. 1
  BY PortAssumption
<1>1. TypeOK
  BY ZenonT(30), <1>0 DEF Init, TypeOK, Requesters
<1>2. SlotInv /\ OwnerInv /\ TornInv /\ BirthInv
  BY DEF Init, SlotInv, OwnerInv, TornInv, BirthInv, Tearing
<1>3. QED
  BY <1>1, <1>2 DEF PortInv

-----------------------------------------------------------------------------
(* The transmit slot.                                                      *)

\* Only the holder of the slot writes, and only the end of its write frees it.
LEMMA SlotStep == ASSUME TypeOK, SlotInv, [Next]_vars PROVE SlotInv'
<1>1. CASE WriterBegins \/ ControlBegins
  BY <1>1 DEF WriterBegins, ControlBegins, BeginWrite, SlotInv, TypeOK, Requesters
<1>2. CASE \E w \in Requesters : WriteReturns(w)
  <2>1. PICK w \in Requesters : WriteReturns(w)
    BY <1>2
  <2>2. PICK r \in {"ok", "error"} : job' = [job EXCEPT ![w] = r]
    BY Zenon, <2>1 DEF WriteReturns
  <2>3. QED
    BY <2>1, <2>2 DEF WriteReturns, SlotInv, TypeOK, Requesters
<1>3. CASE UNCHANGED <<slot, job>>
  BY <1>3 DEF SlotInv
<1>4. ASSUME ~(WriterBegins \/ ControlBegins), ~(\E w \in Requesters : WriteReturns(w))
      PROVE UNCHANGED <<slot, job>>
  BY <1>4, Zenon DEF Next, vars, Start, ReadError, ReaderTearDown, Send, TakeFrame, Paced,
     WriterStops, WriterResult, WriteTimeout, WriterFailTX, ControlWrite, ControlReturns,
     ControlTimeout, ControlFailTX, ReadEOF, Close, CloseStops, ExitKISS, CloseCloses, Join, Wedge
<1>5. QED
  BY <1>1, <1>2, <1>3, <1>4

-----------------------------------------------------------------------------
(* The teardown.                                                           *)

Rest == OwnerInv /\ TornInv /\ BirthInv

\* A step of the teardown by its winner.
LEMMA StepDone == ASSUME TypeOK, NEW pc, NEW last, NEW next, pc \in Tearing => Done(pc),
                         last \notin Tearing, TearDownStep(pc, last, next)
                  PROVE  /\ pc \in Tearing
                         /\ next \in Tearing \cup {last}
                         /\ Torn(next)'
                         /\ offlines' \in 0 .. 1
                         /\ {online', stop', open'} \subseteq BOOLEAN
<1>1. CASE pc = "offline"
  BY Zenon, <1>1 DEF TearDownStep, TakeOffline, StopAll, CloseTransport, Notify,
                      NextTearing, Tearing,
              Torn, Done, Over, TypeOK
<1>2. CASE pc = "stopping"
  BY <1>2 DEF TearDownStep, TakeOffline, StopAll, CloseTransport, Notify,
                      NextTearing, Tearing,
              Torn, Done, Over, TypeOK
<1>3. CASE pc = "closing"
  BY Zenon, <1>3 DEF TearDownStep, TakeOffline, StopAll, CloseTransport, Notify,
                      NextTearing, Tearing,
              Torn, Done, Over, TypeOK
<1>4. CASE pc = "notifying"
  BY <1>4 DEF TearDownStep, TakeOffline, StopAll, CloseTransport, Notify,
                      NextTearing, Tearing,
              Torn, Done, Over, TypeOK
<1>5. QED
  BY <1>1, <1>2, <1>3, <1>4 DEF TearDownStep, TakeOffline, StopAll, CloseTransport, Notify

\* The reader, the writer and the control writer tear down.
LEMMA ReaderStep == ASSUME PortInv, ReadError \/ ReaderTearDown PROVE TypeOK' /\ Rest'
<1>1. CASE ReadError
  BY <1>1 DEF ReadError, Swap, PortInv, TypeOK, Rest, OwnerInv, TornInv, BirthInv, Torn, Done,
              Over, Tearing, callers
<1>2. CASE ReaderTearDown
  <2>1. PICK next \in Tearing \cup {"done"} : TearDownStep(reader, "done", next) /\ reader' = next
    BY <1>2 DEF ReaderTearDown
  <2>2. reader \in Tearing => Done(reader)
    BY DEF PortInv, OwnerInv, TornInv, Torn
  <2>3. /\ reader \in Tearing /\ Torn(next)' /\ offlines' \in 0 .. 1
        /\ {online', stop', open'} \subseteq BOOLEAN
    BY <2>1, <2>2, StepDone DEF PortInv, Tearing
  <2>4. QED
    BY <1>2, <2>1, <2>3 DEF ReaderTearDown, PortInv, TypeOK, Rest, OwnerInv, TornInv, BirthInv,
              Torn, Done, Over, Tearing, callers
<1>3. QED
  BY <1>1, <1>2

LEMMA WriterFailStep == ASSUME PortInv, WriterFailTX PROVE TypeOK' /\ Rest'
<1>1. CASE writer = "failing" /\ Swap("writer")
  BY <1>1 DEF WriterFailTX, Swap, TearDownStep, TakeOffline, StopAll, CloseTransport, Notify,
              PortInv, TypeOK, Rest, OwnerInv, TornInv, BirthInv,
              Torn, Done, Over, Tearing, callers
<1>2. CASE \E next \in Tearing \cup {"done"} :
             TearDownStep(writer, "done", next) /\ writer' = next
  <2>1. PICK next \in Tearing \cup {"done"} : TearDownStep(writer, "done", next) /\ writer' = next
    BY <1>2
  <2>2. writer \in Tearing => Done(writer)
    BY DEF PortInv, OwnerInv, TornInv, Torn
  <2>3. /\ writer \in Tearing /\ Torn(next)' /\ offlines' \in 0 .. 1
        /\ {online', stop', open'} \subseteq BOOLEAN
    BY <2>1, <2>2, StepDone DEF PortInv, Tearing
  <2>4. QED
    BY <2>1, <2>3 DEF WriterFailTX, PortInv, TypeOK, Rest, OwnerInv, TornInv, BirthInv,
              Torn, Done, Over, Tearing, callers
<1>3. QED
  BY <1>1, <1>2 DEF WriterFailTX

LEMMA ControlFailStep == ASSUME PortInv, ControlFailTX PROVE TypeOK' /\ Rest'
<1>1. CASE control = "failing" /\ Swap("control")
  BY <1>1 DEF ControlFailTX, Swap, TearDownStep, TakeOffline, StopAll, CloseTransport, Notify,
              PortInv, TypeOK, Rest, OwnerInv, TornInv, BirthInv,
              Torn, Done, Over, Tearing, callers
<1>2. CASE \E next \in Tearing \cup {"idle"} :
             TearDownStep(control, "idle", next) /\ control' = next
  <2>1. PICK next \in Tearing \cup {"idle"} : TearDownStep(control, "idle", next) /\ control' = next
    BY <1>2
  <2>2. control \in Tearing => Done(control)
    BY DEF PortInv, OwnerInv, TornInv, Torn
  <2>3. /\ control \in Tearing /\ Torn(next)' /\ offlines' \in 0 .. 1
        /\ {online', stop', open'} \subseteq BOOLEAN
    BY <2>1, <2>2, StepDone DEF PortInv, Tearing
  <2>4. QED
    BY <2>1, <2>3 DEF ControlFailTX, PortInv, TypeOK, Rest, OwnerInv, TornInv, BirthInv,
              Torn, Done, Over, Tearing, callers
<1>3. QED
  BY <1>1, <1>2 DEF ControlFailTX

\* Close: the loser returns at once, the winner joins both loops.
LEMMA CloseStep == ASSUME PortInv, Close \/ CloseStops \/ ExitKISS \/ CloseCloses \/ Join
                   PROVE  TypeOK' /\ Rest'
<1>1. CASE Close
  BY <1>1 DEF Close, Swap, Started, PortInv, TypeOK, Rest, OwnerInv, TornInv, BirthInv, Torn, Done,
              Over, Tearing, callers
<1>2. CASE CloseStops
  <2>1. owner = "closer" /\ closer' # "idle" /\ closer' # "returned"
    BY <1>2 DEF CloseStops, PortInv, OwnerInv
  <2>2. TypeOK'
    <3>1. closer' \in {"exiting", "closing"} /\ stop' \in BOOLEAN /\ online' \in BOOLEAN
      BY Zenon, <1>2 DEF CloseStops
    <3>2. UNCHANGED <<closed, open, reader, writer, control, listener, owner, slot,
                      job, queue, wedged, offlines, callers>>
      BY <1>2 DEF CloseStops
    <3>3. QED
      BY <3>1, <3>2 DEF PortInv, TypeOK, callers
  <2>3. Rest'
    BY <1>2, <2>1 DEF CloseStops, PortInv, Rest, OwnerInv, TornInv, BirthInv, callers
  <2>4. QED
    BY <2>2, <2>3
<1>3. CASE ExitKISS
  BY <1>3 DEF ExitKISS, PortInv, TypeOK, Rest, OwnerInv, TornInv, BirthInv, Torn, Done,
              Over, Tearing, callers
<1>4. CASE CloseCloses
  <2>1. owner = "closer" /\ closer' # "idle" /\ closer' # "returned"
    BY <1>4 DEF CloseCloses, PortInv, OwnerInv
  <2>2. TypeOK'
    <3>1. closer' = "joining" /\ open' \in BOOLEAN
      BY Zenon, <1>4 DEF CloseCloses
    <3>2. UNCHANGED <<closed, online, stop, reader, writer, control, listener, owner, slot,
                      job, queue, wedged, offlines, callers>>
      BY <1>4 DEF CloseCloses
    <3>3. QED
      BY <3>1, <3>2 DEF PortInv, TypeOK, callers
  <2>3. Rest'
    BY <1>4, <2>1 DEF CloseCloses, PortInv, Rest, OwnerInv, TornInv, BirthInv, callers
  <2>4. QED
    BY <2>2, <2>3
<1>5. CASE Join
  BY <1>5 DEF Join, PortInv, TypeOK, Rest, OwnerInv, TornInv, BirthInv, Torn, Done,
              Over, Tearing, callers
<1>6. QED
  BY <1>1, <1>2, <1>3, <1>4, <1>5

\* The other steps of the reader, the writer and the control channel end no
\* teardown and begin none.
LEMMA QuietStep ==
  ASSUME PortInv,
         \/ Start \/ Send \/ TakeFrame \/ Paced \/ WriterStops \/ WriterBegins \/ WriterResult
         \/ WriteTimeout \/ ControlWrite \/ ControlBegins \/ ControlReturns \/ ControlTimeout
         \/ ReadEOF \/ Wedge \/ \E w \in Requesters : WriteReturns(w)
  PROVE  TypeOK' /\ Rest'
<1>1. CASE Start
  BY <1>1 DEF Start, PortInv, TypeOK, Rest, OwnerInv, TornInv, BirthInv, Torn, Done,
              Over, Tearing, callers
<1>2. CASE Send \/ TakeFrame
  BY SMTT(30), <1>2, PortAssumption DEF Send, TakeFrame, Started, PortInv, TypeOK, Rest,
              OwnerInv, TornInv, BirthInv, Torn, Done, Over, Tearing, callers
<1>3. CASE Paced \/ WriterStops \/ WriterResult \/ WriteTimeout
  BY SMTT(30), <1>3 DEF Paced, WriterStops, WriterResult, WriteTimeout, PortInv, TypeOK, Rest,
              OwnerInv, TornInv, BirthInv, Torn, Done, Over, Tearing, callers
<1>4. CASE WriterBegins \/ ControlBegins
  BY SMTT(30), <1>4 DEF WriterBegins, ControlBegins, BeginWrite, Requesters, PortInv, TypeOK,
              Rest, OwnerInv, TornInv, BirthInv, Torn, Done, Over, Tearing, callers
<1>5. CASE ControlWrite
  BY <1>5, PortAssumption DEF ControlWrite, Started, PortInv, TypeOK, Rest,
                               OwnerInv, TornInv, BirthInv, Torn, Done,
              Over, Tearing, callers
<1>6. CASE ControlReturns \/ ControlTimeout
  BY <1>6 DEF ControlReturns, ControlTimeout, PortInv, TypeOK, Rest,
               OwnerInv, TornInv, BirthInv, Torn, Done,
              Over, Tearing, callers
<1>7. CASE ReadEOF \/ Wedge
  <2>1. TypeOK'
    <3>1. listener' \in {"blocked", "eof"} /\ wedged' \in BOOLEAN
      BY Zenon, <1>7 DEF ReadEOF, Wedge, PortInv, TypeOK
    <3>2. UNCHANGED <<closed, online, stop, open, reader, writer, control, closer, owner,
                      slot, job, queue, offlines, callers>>
      BY Zenon, <1>7 DEF ReadEOF, Wedge
    <3>3. QED
      BY <3>1, <3>2 DEF PortInv, TypeOK, callers
  <2>2. Rest'
    BY <1>7 DEF ReadEOF, Wedge, PortInv, Rest, OwnerInv, TornInv, BirthInv, Torn, Done, Over,
                 Tearing, callers
  <2>3. QED
    BY <2>1, <2>2
<1>8. CASE \E w \in Requesters : WriteReturns(w)
  <2>1. UNCHANGED <<closed, online, stop, open, reader, writer, control, listener,
                    closer, owner, queue, wedged, offlines, callers>>
    BY Zenon, <1>8 DEF WriteReturns
  <2>2. slot' = "free" /\ job' \in [Requesters -> {"none", "writing", "ok", "error"}]
    BY <1>8 DEF WriteReturns, PortInv, TypeOK
  <2>3. QED
    BY <2>1, <2>2 DEF PortInv, TypeOK, Rest, OwnerInv, TornInv, BirthInv, Torn, Done,
              Over, Tearing, callers
<1>9. QED
  BY <1>1, <1>2, <1>3, <1>4, <1>5, <1>6, <1>7, <1>8

\* Every step preserves the invariant.
LEMMA PortStep == PortInv /\ [Next]_vars => PortInv'
<1> SUFFICES ASSUME PortInv, [Next]_vars PROVE PortInv'
  OBVIOUS
<1>1. SlotInv'
  BY SlotStep DEF PortInv
<1>2. TypeOK' /\ Rest'
  <2>1. CASE UNCHANGED vars
    BY <2>1 DEF vars, PortInv, TypeOK, Rest, OwnerInv, TornInv, BirthInv, Torn, Done, Over
  <2>2. CASE Next
    BY Zenon, <2>2, ReaderStep, WriterFailStep, ControlFailStep, CloseStep, QuietStep DEF Next
  <2>3. QED
    BY <2>1, <2>2
<1>3. QED
  BY <1>1, <1>2 DEF PortInv, Rest

\* The invariant holds throughout.
LEMMA PortInvariant == Spec => []PortInv
BY InitInv, PortStep, PTL DEF Spec

\* txSem serialises KISS writes and control writes, those that were given up on
\* after their timeout included, for any number of either.
THEOREM WritesSerialised == Spec => []OneOnTheWire
<1>1. PortInv => OneOnTheWire
  BY DEF PortInv, SlotInv, OneOnTheWire, Requesters
<1>2. QED
  BY <1>1, PortInvariant, PTL

\* The swap on closed makes the teardown happen once, complete and reported by
\* its winner, whichever of the reader, the writer, a control write and Close
\* that is.
THEOREM TornDownOnce == Spec => []TeardownOnce
<1>1. PortInv => TeardownOnce
  BY DEF PortInv, TypeOK, TornInv, Torn, Done, Over, TeardownOnce
<1>2. QED
  BY <1>1, PortInvariant, PTL
=============================================================================
