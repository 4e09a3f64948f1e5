------------------------------ MODULE Datagram ------------------------------
(***************************************************************************)
(* The video datagrams (loom-proto/src/datagram.rs): a frame body cut into *)
(* fragments behind a header, and a receiver that validates each datagram  *)
(* on its own, with the streams of the host's command line.                *)
(*                                                                         *)
(* The wire keeps what it was given: a datagram arrives late, out of       *)
(* order, more than once or never.  A body is the sequence of its bytes'   *)
(* positions, so a chunk out of place shows.                               *)
(***************************************************************************)
EXTENDS Integers, Sequences, SequencesExt, FiniteSets, Functions

CONSTANTS
  MAX_PAYLOAD,   \* body bytes per datagram, 1338 in the code
  U16,           \* 2^16
  Displays,      \* how many displays the host was told to serve
  Foreign,       \* datagrams of hosts that are not this crate's
  Bodies,        \* lengths of frame bodies
  MaxFrames      \* bound on the frames sent

\* The fields of a header, unsigned on the wire.
Headers ==
  [magic : Nat, stream : Nat, seq : Nat, index : Nat, count : Nat, flags : Nat]

ASSUME DatagramAssumption ==
  /\ MAX_PAYLOAD \in Nat \ {0} /\ U16 \in Nat /\ U16 > 1 /\ Displays \in 1 .. U16 - 2
  /\ MaxFrames \in Nat /\ Bodies \subseteq Nat
  /\ \A d \in Foreign : d.bytes \in Nat /\ d.header \in Headers

KEYFRAME == 1   \* FLAG_KEYFRAME
LAST == 2       \* FLAG_LAST_FRAGMENT
MAGIC == 76
HEADER_LEN == 12

\* resolve_streams: 0 for the first display, then 2, 3, ...; 1 is audio.
StreamId(i) == IF i = 0 THEN 0 ELSE i + 1

Displayed == 0 .. Displays - 1
ExtraStreams == {StreamId(i) : i \in Displayed \ {0}}

VARIABLES
  frames,    \* per display, the frames sent: length of the body, keyframe or not
  wire,      \* the datagrams sent
  accepted,  \* the datagrams of this host the receiver took
  dropped,   \* and those it dropped
  judged     \* what it made of the foreign datagram that came just now

wireVars == <<frames, wire, accepted, dropped, judged>>

WireInit ==
  /\ frames = [i \in Displayed |-> <<>>]
  /\ wire = {} /\ accepted = {} /\ dropped = {} /\ judged = <<>>

-----------------------------------------------------------------------------
(* Sending.                                                                *)

Body(len) == [i \in 1 .. len |-> i]

\* Faulty: LAST_FRAGMENT goes by the count, not by the last index.
HeaderLastPastEnd(keyframe, stream, seq, index, count) ==
  [ magic |-> MAGIC, stream |-> stream, seq |-> seq, index |-> index, count |-> count,
    flags |-> (IF keyframe THEN KEYFRAME ELSE 0) + (IF index = count THEN LAST ELSE 0) ]

\* DatagramHeader::new and flags.
Header(keyframe, stream, seq, index, count) ==
  [ magic |-> MAGIC, stream |-> stream, seq |-> seq, index |-> index, count |-> count,
    flags |-> (IF keyframe THEN KEYFRAME ELSE 0)
                + (IF count > 0 /\ index = count - 1 THEN LAST ELSE 0) ]

\* encode: the header's twelve bytes and the payload.
Encode(h, payload) == [bytes |-> HEADER_LEN + Len(payload), header |-> h, payload |-> payload]

CountOf(len) == IF len = 0 THEN 1 ELSE (len + MAX_PAYLOAD - 1) \div MAX_PAYLOAD

\* The n-th of the body's chunks, or nothing for an empty body.
Chunk(body, n) ==
  SubSeq(body, n * MAX_PAYLOAD + 1,
         IF (n + 1) * MAX_PAYLOAD < Len(body) THEN (n + 1) * MAX_PAYLOAD ELSE Len(body))

\* Faulty: a body that fills its last datagram gets no fragment for the rest.
FragmentFloor(stream, seq, keyframe, body) ==
  LET count == IF Len(body) < MAX_PAYLOAD THEN 1 ELSE Len(body) \div MAX_PAYLOAD
  IN  {Encode(Header(keyframe, stream, seq, n % U16, count % U16), Chunk(body, n)) : n \in 0 .. count - 1}

\* fragment: index and count are cast to u16.
Fragment(stream, seq, keyframe, body) ==
  LET count == CountOf(Len(body))
  IN  {Encode(Header(keyframe, stream, seq, n % U16, count % U16), Chunk(body, n)) : n \in 0 .. count - 1}

SendFrame(i, len, keyframe) ==
  /\ FoldFunction(LAMBDA fs, n : Len(fs) + n, 0, frames) < MaxFrames
  /\ frames' = [frames EXCEPT ![i] = Append(@, [len |-> len, keyframe |-> keyframe])]
  /\ wire' = wire \cup Fragment(StreamId(i), Len(frames[i]), keyframe, Body(len))
  /\ judged' = <<>>
  /\ UNCHANGED <<accepted, dropped>>

-----------------------------------------------------------------------------
(* Receiving.                                                              *)

Has(flags, bit) == (flags \div bit) % 2 = 1

\* The checks of decode_with_streams in their order, each with its DropReason.
Checks(d) ==
  LET h == d.header IN
  << <<"too_short", d.bytes < HEADER_LEN>>,
     <<"oversize", d.bytes > HEADER_LEN + MAX_PAYLOAD>>,
     <<"bad_magic", h.magic # MAGIC>>,
     <<"frag_count_zero", h.count < 1>>,
     <<"frag_index_range", h.index >= h.count>>,
     <<"last_fragment_mismatch", Has(h.flags, LAST) # (h.index = h.count - 1)>>,
     <<"unknown_stream", h.stream \notin {0, 1} \cup ExtraStreams>> >>

Failing(d) == {n \in 1 .. Len(Checks(d)) : Checks(d)[n][2]}

\* Faulty: the index range is not checked, the flag being right.
ReasonNoRange(d) ==
  IF Failing(d) \ {5} = {} THEN "none" ELSE Checks(d)[Min(Failing(d) \ {5})][1]

\* The first check that fails names the reason.
Reason(d) == IF Failing(d) = {} THEN "none" ELSE Checks(d)[Min(Failing(d))][1]

Receive(d) ==
  /\ d \in wire \ (accepted \cup dropped)
  /\ IF Reason(d) = "none"
     THEN accepted' = accepted \cup {d} /\ UNCHANGED dropped
     ELSE dropped' = dropped \cup {d} /\ UNCHANGED accepted
  /\ judged' = <<>>
  /\ UNCHANGED <<frames, wire>>

\* decode_with_streams keeps no state: a foreign datagram is judged the same
\* whatever came before it, and the model looks at it before anything else.
ReceiveForeign(d) ==
  /\ wire = {}
  /\ judged' = <<d, Reason(d)>>
  /\ UNCHANGED <<frames, wire, accepted, dropped>>

WireNext ==
  \/ \E i \in Displayed, len \in Bodies, keyframe \in BOOLEAN : SendFrame(i, len, keyframe)
  \/ \E d \in wire : Receive(d)
  \/ \E d \in Foreign : ReceiveForeign(d)

WireSpec == WireInit /\ [][WireNext]_wireVars

-----------------------------------------------------------------------------
WireTypeOK ==
  /\ \A i \in Displayed, n \in 1 .. MaxFrames :
       n <= Len(frames[i]) => frames[i][n].len \in Bodies /\ frames[i][n].keyframe \in BOOLEAN
  /\ accepted \cup dropped \subseteq wire
  /\ \A d \in wire : /\ d.bytes \in HEADER_LEN .. HEADER_LEN + MAX_PAYLOAD
                     /\ d.header.index \in 0 .. U16 - 1 /\ d.header.count \in 0 .. U16 - 1

\* The fragments taken of one frame of one display.
Pieces(i, seq) == {d \in accepted : d.header.stream = StreamId(i) /\ d.header.seq = seq}

\* All of the frame is there, by the count its fragments name.
Whole(pieces) ==
  /\ pieces # {}
  /\ \A d \in pieces : 0 .. d.header.count - 1 = {e.header.index : e \in pieces}

Joined(pieces) ==
  LET count == Cardinality({d.header.index : d \in pieces})
  IN  FlattenSeq([n \in 1 .. count |-> (CHOOSE d \in pieces : d.header.index = n - 1).payload])

\* A frame whose fragments all came is the body that was sent, byte for byte, on
\* the stream and with the key flag it was sent with, whatever arrived of other
\* frames and in whatever order.
WholeIsSent ==
  \A i \in Displayed : \A n \in 1 .. Len(frames[i]) :
    LET pieces == Pieces(i, n - 1)
    IN  Whole(pieces) =>
          /\ Joined(pieces) = Body(frames[i][n].len)
          /\ \A d \in pieces : Has(d.header.flags, KEYFRAME) <=> frames[i][n].keyframe

\* The receiver's validation never turns down what this host sends.
HostNeverDropped == dropped = {}

(* A frame whose fragments all came is the frame sent, and validation turns *)
(* none of them down (datagram.rs).                                         *)
FramesRestored == WholeIsSent /\ HostNeverDropped

\* A datagram is accepted exactly when some host could have built it: its header
\* is what DatagramHeader::new makes of its fields, reserved bits aside, and its
\* stream is known.
AcceptedAsBuilt ==
  judged # <<>> =>
    LET d == judged[1]
        h == d.header
    IN  judged[2] = "none" <=>
          /\ d.bytes \in HEADER_LEN .. HEADER_LEN + MAX_PAYLOAD
          /\ h.stream \in {1} \cup {StreamId(i) : i \in Displayed}
          /\ h.index \in 0 .. h.count - 1
          /\ \E keyframe \in BOOLEAN :
               [h EXCEPT !.flags = @ % 4] = Header(keyframe, h.stream, h.seq, h.index, h.count)
=============================================================================
