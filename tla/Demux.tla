-------------------------------- MODULE Demux --------------------------------
(***************************************************************************)
(* The receive side of a kiss.Port: one byte stream that carries KISS      *)
(* frames and the radio's Gaia (Benshi) frames, split by kiss/demux.go and *)
(* decoded by kiss/framing.go.                                             *)
(*                                                                         *)
(* The peer writes whole frames, or any bytes at all; Feed takes the       *)
(* stream in chunks of any size.  A second, bare Decoder reads the same    *)
(* bytes as the reference for a stream without control frames.  Bytes have *)
(* their real values.                                                      *)
(*                                                                         *)
(* A definition named after a mistake is a faulty variant of the one that  *)
(* follows it.                                                             *)
(***************************************************************************)
EXTENDS Integers, Sequences, SequencesExt

CONSTANTS
    MaxFrameSize,  \* the decoder's cap on a frame
    CtrlRXQueue,   \* capacity of the control channel
    Payloads,      \* AX.25 frames the peer sends (byte sequences)
    GaiaBodies,    \* message header and data of the radio's replies
    Alphabet,      \* bytes of an arbitrary stream
    MaxSent,       \* bound: frames the peer writes
    MaxBytes       \* bound: bytes of an arbitrary stream

FEND == 192
FESC == 219
TFEND == 220
TFESC == 221
gaiaStart == 255
gaiaVersion == 1
gaiaHeaderLen == 4
gaiaMsgHeaderLen == 4

ASSUME DemuxAssumption ==
    /\ MaxFrameSize \in Nat \ {0} /\ CtrlRXQueue \in Nat \ {0}
    /\ MaxSent \in Nat /\ MaxBytes \in Nat
    /\ \A p \in Payloads : \A i \in DOMAIN p : p[i] \in 0 .. 255
    /\ \A g \in GaiaBodies : Len(g) >= gaiaMsgHeaderLen
    /\ Alphabet \subseteq 0 .. 255

VARIABLES
    wire,      \* bytes the peer has written and Feed has not seen
    dx,        \* the demux
    bare,      \* a bare Decoder on the same bytes
    rx,        \* the control channel; <<>> with no consumer attached
    attached,  \* a control consumer is attached
    sentK, sentG,      \* frames the peer wrote, in order
    gotK, gotG,        \* frames that came out, in order
    gotBare,   \* frames of the bare decoder
    lost,      \* Gaia frames dropped: channel full or nobody attached
    boundary,  \* what the peer wrote last
    filled,    \* history: the peer wrote a FEND that closes no frame
    started,   \* history: 0xFF stood outside a frame
    sent       \* bounded counter

vars == <<wire, dx, bare, rx, attached, sentK, sentG, gotK, gotG, gotBare,
          lost, boundary, filled, started, sent>>

NewDecoder == [buf |-> <<>>, inFrame |-> FALSE, esc |-> FALSE]

NewDemux == [dec |-> NewDecoder, inKISS |-> FALSE, gaia |-> <<>>, shared |-> FALSE]

Init ==
    /\ wire = <<>> /\ dx = NewDemux /\ bare = NewDecoder
    /\ rx = <<>> /\ attached = FALSE
    /\ sentK = <<>> /\ sentG = <<>> /\ gotK = <<>> /\ gotG = <<>> /\ gotBare = <<>>
    /\ lost = 0 /\ boundary = "none" /\ filled = FALSE /\ started = FALSE
    /\ sent = 0

-----------------------------------------------------------------------------
(* framing.go: WrapData escapes the payload between two FENDs.              *)
Escaped(b) ==
    CASE b = FEND -> <<FESC, TFEND>>
      [] b = FESC -> <<FESC, TFESC>>
      [] OTHER -> <<b>>

WrapData(p) ==
    <<FEND, 0>> \o FlattenSeq([i \in DOMAIN p |-> Escaped(p[i])]) \o <<FEND>>

(* Decoder.Feed, one byte: the new decoder and the frames it completes.     *)
Append1(d, b) ==
    IF Len(d.buf) >= MaxFrameSize
    THEN [dec |-> NewDecoder, out |-> <<>>]
    ELSE [dec |-> [d EXCEPT !.buf = Append(@, b), !.esc = FALSE], out |-> <<>>]

Unescaped(b) ==
    CASE b = TFEND -> FEND
      [] b = TFESC -> FESC
      [] OTHER -> b

DecodeByte(d, b) ==
    CASE ~d.inFrame ->
            [dec |-> IF b = FEND THEN [NewDecoder EXCEPT !.inFrame = TRUE] ELSE d,
             out |-> <<>>]
      [] d.inFrame /\ d.esc -> Append1(d, Unescaped(b))
      [] d.inFrame /\ ~d.esc /\ b = FESC -> [dec |-> [d EXCEPT !.esc = TRUE], out |-> <<>>]
      [] d.inFrame /\ ~d.esc /\ b = FEND ->
            [dec |-> [d EXCEPT !.buf = <<>>],
             out |-> IF d.buf = <<>> THEN <<>> ELSE <<d.buf>>]
      [] OTHER -> Append1(d, b)

-----------------------------------------------------------------------------
(* demux.go, one byte: the new demux, the KISS frames and the Gaia frames   *)
(* it completes.                                                            *)
ToKISS(x, b, still) ==
    LET r == DecodeByte(x.dec, b)
    IN  [dx |-> [x EXCEPT !.dec = r.dec, !.inKISS = still, !.shared = ~still],
         kiss |-> r.out, gaia |-> <<>>]

Quiet(x) == [dx |-> x, kiss |-> <<>>, gaia |-> <<>>]

(* feedKISSRun: a FEND closes the frame, and may open the next one.         *)
FeedKISSRunStays(x, b) == ToKISS(x, b, TRUE)

FeedKISSRun(x, b) == ToKISS(x, b, b # FEND)

(* scan: outside a frame a FEND opens one, 0xFF may open a Gaia frame, and  *)
(* any other byte belongs to a frame only right after a closing FEND.       *)
ScanDropsShared(x, b) ==
    LET y == [x EXCEPT !.shared = FALSE]
    IN  CASE b = FEND -> ToKISS(y, b, TRUE)
          [] b = gaiaStart -> Quiet([y EXCEPT !.gaia = <<b>>])
          [] OTHER -> Quiet(y)

Scan(x, b) ==
    LET y == [x EXCEPT !.shared = FALSE]
    IN  CASE b = FEND -> ToKISS(y, b, TRUE)
          [] b = gaiaStart -> Quiet([y EXCEPT !.gaia = <<b>>])
          [] b \notin {FEND, gaiaStart} /\ x.shared -> FeedKISSRun(y, b)
          [] OTHER -> Quiet(y)

(* feedGaia: a byte after 0xFF that is not the version is looked at again;  *)
(* once the header is in, the announced number of bytes belong to the frame *)
(* whatever they are.                                                       *)
GaiaTotalNoChecksum(header) == gaiaHeaderLen + header[4] + gaiaMsgHeaderLen

GaiaTotal(header) ==
    gaiaHeaderLen + header[4] + gaiaMsgHeaderLen + (header[3] % 2)

FeedGaia(x, b) ==
    LET g == Append(x.gaia, b)
    IN  IF Len(x.gaia) = 1 /\ b # gaiaVersion
        THEN Scan([x EXCEPT !.gaia = <<>>], b)
        ELSE IF Len(x.gaia) >= gaiaHeaderLen /\ Len(g) >= GaiaTotal(g)
        THEN [dx |-> [x EXCEPT !.gaia = <<>>], kiss |-> <<>>, gaia |-> <<g>>]
        ELSE Quiet([x EXCEPT !.gaia = g])

FeedByte(x, b) ==
    IF x.gaia # <<>> THEN FeedGaia(x, b)
    ELSE IF x.inKISS THEN FeedKISSRun(x, b)
    ELSE Scan(x, b)

(* Feed, a chunk: the state and what came out accumulate over the bytes, and *)
(* whether a Gaia candidate was opened on the way.                          *)
FeedChunk(x, bytes) ==
    LET fed[n \in 0 .. Len(bytes)] ==
          IF n = 0 THEN [dx |-> x, kiss |-> <<>>, gaia |-> <<>>, start |-> FALSE]
          ELSE LET acc == fed[n - 1]
                   r == FeedByte(acc.dx, bytes[n])
               IN  [kiss |-> acc.kiss \o r.kiss, gaia |-> acc.gaia \o r.gaia, dx |-> r.dx,
                    start |-> acc.start \/ r.dx.gaia # <<>>]
    IN  fed[Len(bytes)]

DecodeChunk(d, bytes) ==
    LET fed[n \in 0 .. Len(bytes)] ==
          IF n = 0 THEN [dec |-> d, out |-> <<>>]
          ELSE LET acc == fed[n - 1]
                   r == DecodeByte(acc.dec, bytes[n])
               IN  [out |-> acc.out \o r.out, dec |-> r.dec]
    IN  fed[Len(bytes)]

(* readerLoop keeps the data frames: a command byte with low nibble 0.      *)
IsData(frame) == frame[1] % 16 = 0

DataOf(frames) == [i \in DOMAIN SelectSeq(frames, IsData) |-> Tail(SelectSeq(frames, IsData)[i])]

-----------------------------------------------------------------------------
(* The reader goroutine feeds what a Read returned.  A Gaia frame goes to   *)
(* the consumer without waiting for it (deliverGaia).                       *)
Room == IF attached THEN CtrlRXQueue - Len(rx) ELSE 0

Deliver(frames, room) ==
    LET fit == SubSeq(frames, 1, IF Len(frames) <= room THEN Len(frames) ELSE room)
    IN  /\ rx' = rx \o fit
        /\ lost' = lost + Len(frames) - Len(fit)

Feed ==
    /\ wire # <<>>
    /\ \E n \in 1 .. Len(wire) :
          LET chunk == SubSeq(wire, 1, n)
              r == FeedChunk(dx, chunk)
              s == DecodeChunk(bare, chunk)
          IN  /\ wire' = SubSeq(wire, n + 1, Len(wire))
              /\ dx' = r.dx /\ gotK' = gotK \o DataOf(r.kiss)
              /\ bare' = s.dec /\ gotBare' = gotBare \o DataOf(s.out)
              /\ Deliver(r.gaia, Room)
              /\ started' = (started \/ r.start)
    /\ UNCHANGED <<attached, sentK, sentG, gotG, boundary, filled, sent>>

(* ControlChannel, Read and Close of the control consumer.                  *)
Attach ==
    /\ ~attached /\ attached' = TRUE
    /\ UNCHANGED <<wire, dx, bare, rx, sentK, sentG, gotK, gotG, gotBare, lost,
                   boundary, filled, started, sent>>

Detach ==
    /\ attached /\ attached' = FALSE
    /\ lost' = lost + Len(rx) /\ rx' = <<>>
    /\ UNCHANGED <<wire, dx, bare, sentK, sentG, gotK, gotG, gotBare,
                   boundary, filled, started, sent>>

Read ==
    /\ rx # <<>>
    /\ gotG' = Append(gotG, Head(rx)) /\ rx' = Tail(rx)
    /\ UNCHANGED <<wire, dx, bare, attached, sentK, sentG, gotK, gotBare, lost,
                   boundary, filled, started, sent>>

-----------------------------------------------------------------------------
(* The peer: a TNC that delimits each frame, or shares one FEND between two *)
(* frames in a row; a radio that replies between frames; a TNC that fills   *)
(* with FENDs; and, in a stream of its own, any bytes.                      *)
Writes(bytes, what) ==
    /\ sent' = sent + 1
    /\ wire' = wire \o bytes
    /\ boundary' = what
    /\ UNCHANGED <<dx, bare, rx, attached, gotK, gotG, gotBare, lost, started>>

Framed == boundary # "byte"

PeerFrame ==
    /\ Framed /\ sent < MaxSent
    /\ \E p \in Payloads, compact \in BOOLEAN :
          /\ compact => boundary = "kiss"
          /\ Writes(IF compact THEN Tail(WrapData(p)) ELSE WrapData(p), "kiss")
          /\ sentK' = Append(sentK, p)
    /\ UNCHANGED <<sentG, filled>>

RadioReply ==
    /\ Framed /\ sent < MaxSent
    /\ \E body \in GaiaBodies, sum \in {0, 1} :
          LET g == <<gaiaStart, gaiaVersion, sum, Len(body) - gaiaMsgHeaderLen>>
                      \o body \o IF sum = 1 THEN <<FEND>> ELSE <<>>
          IN  /\ Writes(g, "gaia")
              /\ sentG' = Append(sentG, g)
    /\ UNCHANGED <<sentK, filled>>

Fill ==
    /\ boundary \notin {"none", "byte"} /\ sent < MaxSent
    /\ Writes(<<FEND>>, "fill")
    /\ filled' = TRUE
    /\ UNCHANGED <<sentK, sentG>>

AnyByte ==
    /\ boundary \in {"none", "byte"} /\ sent < MaxBytes /\ wire = <<>>
    /\ \E b \in Alphabet : Writes(<<b>>, "byte")
    /\ UNCHANGED <<sentK, sentG, filled>>

Next ==
    \/ PeerFrame \/ RadioReply \/ Fill \/ AnyByte
    \/ Feed \/ Attach \/ Detach \/ Read

Spec == Init /\ [][Next]_vars

-----------------------------------------------------------------------------
(* The demux holds one partial frame at most, each within its bound, and    *)
(* the control channel within its capacity (demux, Decoder, ctrlRXQueue).   *)
TypeOK ==
    /\ Len(dx.dec.buf) <= MaxFrameSize /\ Len(bare.buf) <= MaxFrameSize
    /\ Len(dx.gaia) < gaiaHeaderLen + 255 + gaiaMsgHeaderLen + 1
    /\ ~(dx.inKISS /\ dx.gaia # <<>>) /\ ~(dx.inKISS /\ dx.shared)
    /\ Len(rx) <= CtrlRXQueue
    /\ Framed => lost <= Len(sentG)
    /\ dx.dec.esc => dx.dec.inFrame

(* Once the stream is read, both kinds of frame have come out whole and in  *)
(* order, whatever the chunks were, in the delimited and in the compact     *)
(* form: bytes of a Gaia frame never entered a KISS frame nor the other way *)
(* around, and every reply reached the channel unless it was full or nobody *)
(* was attached (Feed, scan, feedGaia, deliverGaia).  With FENDs for fill    *)
(* the peer's own frames still all come out, among what a reply that        *)
(* followed a fill byte may have been taken for.                            *)
NothingMissing ==
    wire = <<>> =>
        /\ \A i \in DOMAIN sentK : \E j \in DOMAIN gotK : gotK[j] = sentK[i]
        /\ Framed /\ ~filled =>
            /\ gotK = sentK
            /\ lost = 0 => gotG \o rx = sentG

(* On any bytes without a 0xFF outside a frame the demux is the bare        *)
(* decoder: the same data frames after the same byte, oversize frames and   *)
(* malformed escapes included (readerLoop's claim for Feed).                *)
Passthrough == started \/ gotK = gotBare

(* From any state the bytes seen so far can leave behind, outside a Gaia    *)
(* frame, two well-formed frames in a row bring at least the second out:    *)
(* a broken stream costs a bounded number of frames.                        *)
Resyncs ==
    dx.gaia \in {<<>>, <<gaiaStart>>} =>
        LET f == WrapData(<<2>>)
            r == FeedChunk(dx, f \o f)
        IN  r.kiss # <<>> /\ Last(r.kiss) = <<0, 2>> /\ ~r.dx.inKISS

(* What the comment in readerLoop says: with no consumer attached Feed      *)
(* behaves as the bare decoder on every stream.  It does not hold: a 0xFF   *)
(* outside a frame opens a Gaia candidate whether or not anybody listens.   *)
BehavesAsBare == gotK = gotBare
=============================================================================
