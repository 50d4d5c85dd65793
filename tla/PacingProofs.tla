---------------------------- MODULE PacingProofs ----------------------------
(***************************************************************************)
(* The backlog of a paced port is bounded, and pacing never starves the    *)
(* TNC, for every set of frame lengths and every length of hold-up.        *)
(***************************************************************************)
EXTENDS Pacing, TLAPS

PacerTypeOK == /\ lead \in Nat /\ wait \in Nat /\ backlog \in Nat
               /\ overcharged \in {0, 1}
               /\ air \in 0 .. MaxAir

\* What the writer knows of the TNC: the estimate never exceeds the truth by
\* more than the frame in its hand, and falls short of it by at most one frame.
PacerInv ==
  Paced =>
    /\ overcharged = 0 => lead - air <= backlog
    /\ air = 0 => wait = 0 /\ backlog <= lead + MaxAir /\ lead <= MaxLead + MaxAir
    /\ air # 0 => /\ backlog = 0 \/ backlog + air <= lead + MaxAir
                  /\ wait <= MaxAir
                  /\ wait > 0 => lead = MaxLead + wait + air
                  /\ wait = 0 => lead <= MaxLead + air

IPacer == PacerTypeOK /\ PacerInv /\ (~Paced => wait = 0)

\* The pacer starts with nothing outstanding.
LEMMA PacerStarts == PacerInit => IPacer
BY PacingAssumption DEF PacerInit, IPacer, PacerTypeOK, PacerInv

\* A frame taken off the queue is charged on top of what was outstanding.
LEMMA TakeFrameKeeps == ASSUME IPacer, NEW a \in Airs, TakeFrame(a) PROVE IPacer'
<1>1. a \in 1 .. MaxAir
  BY PacingAssumption
<1>2. CASE Paced
  BY <1>1, <1>2, PacingAssumption DEF IPacer, PacerTypeOK, PacerInv, TakeFrame, DelayFor
<1>3. CASE ~Paced
  BY <1>1, <1>3, PacingAssumption DEF IPacer, PacerTypeOK, PacerInv, TakeFrame, DelayFor
<1>4. QED
  BY <1>2, <1>3

\* A frame handed over moves from the writer's hand to the TNC's backlog.
LEMMA HandOverKeeps == ASSUME IPacer, NEW command \in BOOLEAN, HandOver(command) PROVE IPacer'
BY PacingAssumption DEF IPacer, PacerTypeOK, PacerInv, HandOver

\* Time drains estimate, wait and backlog alike.
LEMMA TickKeeps == ASSUME IPacer, Tick PROVE IPacer'
<1>1. PacerTypeOK'
  BY PacingAssumption DEF IPacer, PacerTypeOK, Tick, Less
<1>2. (~Paced => wait = 0)'
  BY DEF IPacer, PacerTypeOK, Tick, Less
<1>3. PacerInv'
  BY PacingAssumption DEF IPacer, PacerTypeOK, PacerInv, Tick, Less
<1>4. QED
  BY <1>1, <1>2, <1>3 DEF IPacer

\* Both promises of the pacing comment follow from the invariant.
LEMMA PacerPromises == IPacer => BacklogBounded /\ StarvedOnlyByCommands
BY PacingAssumption
   DEF IPacer, PacerTypeOK, PacerInv, BacklogBounded, NeverStarved, StarvedOnlyByCommands

\* The invariant of the pacer (delayFor and the writer loop that obeys it).
THEOREM PacerInvariant == PacerSpec => []IPacer
<1>1. IPacer /\ [PacerNext]_pacer => IPacer'
  <2>1. CASE UNCHANGED pacer
    BY <2>1 DEF pacer, IPacer, PacerTypeOK, PacerInv
  <2>2. CASE PacerNext
    BY <2>2, TakeFrameKeeps, HandOverKeeps, TickKeeps DEF PacerNext
  <2>3. QED
    BY <2>1, <2>2
<1>2. QED
  BY <1>1, PacerStarts, PTL DEF PacerSpec

\* A paced port never has more than MaxLead and two frames of air time at its
\* TNC, however long the write of a frame is held up after its delay.
THEOREM PacingBoundsBacklog == PacerSpec => []BacklogBounded
BY PacerInvariant, PacerPromises, PTL

\* A paced port keeps a frame back only while the TNC has more than MaxLead left
\* to transmit, so that pacing costs no throughput, as long as no KISS command
\* was charged as if it were transmitted.
THEOREM PacingNeverStarves == PacerSpec => []StarvedOnlyByCommands
BY PacerInvariant, PacerPromises, PTL
=============================================================================
