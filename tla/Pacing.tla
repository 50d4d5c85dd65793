------------------------------- MODULE Pacing -------------------------------
(***************************************************************************)
(* Transmit pacing of a KISS port: writerLoop takes a frame off txCh,      *)
(* charges its estimated air time to the pacer, waits, then hands it to    *)
(* the TNC, which transmits it.  Time is counted in ticks; the TNC drains  *)
(* as fast as the estimate says.  A hand-over may come any time after the  *)
(* wait: the write slot is taken by rig control, or the write blocks.      *)
(* The pacer keeps an absolute time avail; lead is what is left of it      *)
(* (avail - now, or 0 once avail is past), which is all delayFor reads.    *)
(***************************************************************************)
EXTENDS Integers

CONSTANTS Paced,     \* OTABaud > 0: the port paces
          Airs,      \* air times of frames, in ticks
          MaxAir,    \* the longest of them
          MaxLead    \* maxLead: the air time of a frame of 276 bytes

ASSUME PacingAssumption == /\ Paced \in BOOLEAN
                           /\ MaxAir \in Nat /\ MaxLead \in Nat
                           /\ Airs \subseteq 1 .. MaxAir

VARIABLES lead,      \* how far pacer.avail is ahead of now
          air,       \* air time of the frame the writer holds, 0 for none
          wait,      \* what is left of that frame's pacing delay
          backlog,   \* air time the TNC still has to transmit
          overcharged   \* history: 1 once a KISS command was charged as if transmitted

pacer == <<lead, air, wait, backlog, overcharged>>

PacerInit == lead = 0 /\ air = 0 /\ wait = 0 /\ backlog = 0 /\ overcharged = 0

\* delayFor: wait until at most MaxLead is outstanding, and charge the frame.
DelayForUncharged(a) == /\ wait' = (IF lead > MaxLead THEN lead - MaxLead ELSE 0)
                        /\ lead' = lead
DelayForIdle(a) == wait' = lead /\ lead' = lead + a
DelayFor(a) ==
  IF Paced THEN /\ wait' = (IF lead > MaxLead THEN lead - MaxLead ELSE 0)
                /\ lead' = lead + a
  ELSE UNCHANGED <<lead, wait>>

\* writerLoop: a frame comes off txCh, ...
TakeFrame(a) == air = 0 /\ air' = a /\ DelayFor(a) /\ UNCHANGED <<backlog, overcharged>>

\* ... and its delay over is written to the TNC, which transmits it, unless it
\* is a KISS command.
HandOver(command) ==
  /\ air # 0 /\ wait = 0
  /\ air' = 0
  /\ backlog' = IF command THEN backlog ELSE backlog + air
  /\ overcharged' = IF command THEN 1 ELSE overcharged
  /\ UNCHANGED <<lead, wait>>

Less(n) == IF n = 0 THEN 0 ELSE n - 1

Tick == /\ lead' = Less(lead) /\ wait' = Less(wait) /\ backlog' = Less(backlog)
        /\ UNCHANGED <<air, overcharged>>

PacerNext == \/ Tick
             \/ \E command \in BOOLEAN : HandOver(command)
             \/ \E a \in Airs : TakeFrame(a)
PacerSpec == PacerInit /\ [][PacerNext]_pacer

-----------------------------------------------------------------------------
(* Properties.                                                             *)

\* The TNC never holds more air time than "at most maxLead of air time
\* outstanding at the TNC" (pacing.go): it may be told of a frame while
\* MaxLead is outstanding, and delayFor looks at lead before it charges.
\* Does not hold of the code (a known gap in the README).
BacklogWithinLead == Paced => backlog <= MaxLead

\* However long writes are held up, the TNC never has more than MaxLead and two
\* frames to transmit: the frame delayFor let through with MaxLead outstanding,
\* and one whose write was held up while its charge ran out.
BacklogBounded == Paced => backlog <= MaxLead + 2 * MaxAir

\* "The TNC always has work queued, so throughput is unaffected": a frame is
\* kept waiting only while the TNC has MaxLead and the rest of the wait to send.
\* Does not hold of the code (a known gap in the README).
NeverStarved == wait > 0 => backlog >= MaxLead + wait

\* Data frames alone never starve the TNC: a frame waits needlessly only after
\* a KISS command, which delayFor charges like a transmission.
StarvedOnlyByCommands == overcharged = 1 \/ NeverStarved
=============================================================================
