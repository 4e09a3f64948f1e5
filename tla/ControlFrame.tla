---------------------------- MODULE ControlFrame ----------------------------
(***************************************************************************)
(* The control stream between a peer and the host: encode_frame and        *)
(* decode_frame of loom-proto/src/control.rs, over the bytes of a QUIC     *)
(* stream read by read_frame of loomd/src/conn.rs.                         *)
(*                                                                         *)
(* A peer of this crate writes messages with encode_frame; a foreign one   *)
(* writes whatever CBOR it likes behind a length.  Bytes arrive in pieces  *)
(* of any size, the peer may finish the stream anywhere, and the stream or *)
(* its connection may break at any time.                                   *)
(***************************************************************************)
EXTENDS CborValue

CONSTANTS
  LenBytes,        \* 4 in the code
  MAX_FRAME_BODY,
  EncodeItem(_),   \* to_canonical, and the items at the head of a body
  DecodeItem(_),
  WireMessages,    \* what a peer of this crate sends: [type, body]
  Foreign,         \* bodies of other peers: [cbor, means]
  MaxFrames        \* bound on the frames a peer writes

Envelope(m) == Array(<<Int_(m.type), Map(m.body)>>)

IsBody(cbor) == cbor \in Seq(Nat) /\ Len(cbor) <= MAX_FRAME_BODY

\* A length up to the limit, and the first beyond it, fit in front of a frame.
ASSUME ControlFrameAssumption ==
  /\ LenBytes \in Nat \ {0} /\ MAX_FRAME_BODY \in Nat /\ MaxFrames \in Nat
  /\ Shifted(MAX_FRAME_BODY + 1, LenBytes) = 0
  /\ \A m \in WireMessages : IsBody(EncodeItem(Envelope(m)))
  /\ \A f \in Foreign : IsBody(f.cbor)

\* The registered messages and the keys of each; the type codes are the code's.
Registered == (1 .. 5) \cup {16, 32, 33, 34, 48, 49, 64, 65} \cup (80 .. 83)

KnownKeys(type) ==
  CASE type = 5 -> {}
    [] type \in {4, 34, 48, 65, 80, 82} -> {0}
    [] type \in {16, 32, 64, 81, 83} -> 0 .. 1
    [] type = 49 -> 0 .. 2
    [] type = 2 -> 0 .. 3
    [] type = 1 -> 0 .. 5
    [] type = 3 -> 0 .. 6
    [] type = 33 -> 0 .. 7

VARIABLES
  sent,      \* history: where each frame written so far ends, and what it means
  wire,      \* bytes written and not yet arrived
  fin,       \* the peer has finished the stream
  torn,      \* history: it did so inside a frame
  broken,    \* the stream was reset, or its connection lost
  arrived,   \* bytes that have arrived and are not yet read
  need,      \* body bytes read_frame waits for, or -1 while it reads a length
  inbox,     \* what decode_frame returned, frame by frame
  ended      \* how the reading ended, or "no"

frameVars == <<sent, wire, fin, torn, broken, arrived, need, inbox, ended>>

Ignored == [ignored |-> TRUE]
Violation == [violation |-> TRUE]
Message(type, body) == [type |-> type, body |-> body]

FrameInit ==
  /\ sent = <<>> /\ wire = <<>> /\ fin = FALSE /\ torn = FALSE /\ broken = FALSE
  /\ arrived = <<>> /\ need = -1 /\ inbox = <<>> /\ ended = "no"

-----------------------------------------------------------------------------
(* The sending side.                                                       *)

Frame(cbor) == Digits(Len(cbor), LenBytes) \o cbor

EncodeFrame(m) == Frame(EncodeItem(Envelope(m)))

\* What a message means to its receiver: unknown types are ignored, unknown keys
\* are not seen, and the order of the entries does not matter.
Means(m) ==
  IF m.type \notin Registered THEN Ignored
  ELSE Message(m.type, {m.body[i] : i \in {j \in DOMAIN m.body :
                          is(m.body[j][1], "int") /\ m.body[j][1].int \in KnownKeys(m.type)}})

\* Where the first i frames end in all that is written.
EndOf(i) == IF i = 0 THEN 0 ELSE sent[i].end
Written == EndOf(Len(sent))

Writes(bytes, means) ==
  /\ ~fin /\ ~broken /\ Len(sent) < MaxFrames
  /\ wire' = wire \o bytes
  /\ sent' = Append(sent, [end |-> Written + Len(bytes), means |-> means])
  /\ UNCHANGED <<fin, torn, broken, arrived, need, inbox, ended>>

WriteMessage(m) == Writes(EncodeFrame(m), Means(m))
WriteForeign(f) == Writes(Frame(f.cbor), f.means)

\* A length over the limit: no body is needed to reject it.
WriteOverLimit == Writes(Digits(MAX_FRAME_BODY + 1, LenBytes), Violation)

\* The peer finishes the stream, at the end of a frame or inside one.  The end is
\* seen once nothing is left to arrive, so losing some bytes of `wire` is having
\* sent the others and losing them all.
Finish(k) ==
  /\ ~fin /\ ~broken /\ fin' = TRUE
  /\ wire' = SubSeq(wire, 1, k)
  /\ torn' = (Written - (Len(wire) - k) \notin {EndOf(i) : i \in 0 .. Len(sent)})
  /\ UNCHANGED <<sent, broken, arrived, need, inbox, ended>>

\* RESET_STREAM arrives, or the connection is lost: nothing more arrives.
Break ==
  /\ ~broken /\ broken' = TRUE
  /\ UNCHANGED <<sent, wire, fin, torn, arrived, need, inbox, ended>>

\* A byte arrives; a piece of any size is so many of these steps.
Transmit ==
  /\ ~broken /\ wire # <<>>
  /\ arrived' = Append(arrived, Head(wire)) /\ wire' = Tail(wire)
  /\ UNCHANGED <<sent, fin, torn, broken, need, inbox, ended>>

-----------------------------------------------------------------------------
(* The receiving side.                                                     *)

\* `[msg_type, body]`, with a type that is not negative and a body that is a map.
IsEnvelope(v) ==
  /\ is(v, "array") /\ Len(v.array) = 2
  /\ is(v.array[1], "int") /\ v.array[1].int >= 0
  /\ is(v.array[2], "map")

\* The entries with a known integer key.
Filtered(type, pairs) ==
  {pairs[i] : i \in {j \in DOMAIN pairs :
     is(pairs[j][1], "int") /\ pairs[j][1].int \in KnownKeys(type)}}

\* decode_frame past the length: the envelope first, then the type, then the keys.
DecodeBody(cbor) ==
  LET envelopes == {v \in DecodeItem(cbor) : IsEnvelope(v)}
      v == CHOOSE v \in envelopes : TRUE
      type == v.array[1].int
  IN  IF envelopes = {} THEN Violation
      ELSE IF type \in Registered THEN Message(type, Filtered(type, v.array[2].map))
      ELSE Ignored

\* The codec says what the peer meant: what a peer of this crate encodes decodes to
\* its meaning, and a foreign body to what it is judged to be.
CodecFaithful ==
  /\ \A m \in WireMessages : DecodeBody(EncodeItem(Envelope(m))) = Means(m)
  /\ \A f \in Foreign : DecodeBody(f.cbor) = f.means

\* read_exact fills its buffer, or fails once the stream has ended short of it.
Available(n) == ended = "no" /\ Len(arrived) >= n
Short(n) == ended = "no" /\ fin /\ wire = <<>> /\ Len(arrived) < n
Takes(n) == arrived' = SubSeq(arrived, n + 1, Len(arrived))
Ends(why) == ended' = why /\ UNCHANGED <<sent, wire, fin, torn, broken, arrived, need, inbox>>

ReadLength ==
  /\ need = -1 /\ Available(LenBytes)
  /\ LET len == Number(SubSeq(arrived, 1, LenBytes))
     IN  IF len > MAX_FRAME_BODY
         THEN ended' = "error" /\ UNCHANGED need
         ELSE need' = len /\ UNCHANGED ended
  /\ Takes(LenBytes)
  /\ UNCHANGED <<sent, wire, fin, torn, broken, inbox>>

\* FinishedEarly(0) alone is the end of the stream.
ReadEof == need = -1 /\ Short(LenBytes) /\ arrived = <<>> /\ Ends("eof")

\* Faulty: any end inside a length counts as the end of the stream.
ReadShortIsEof ==
  \/ need = -1 /\ Short(LenBytes) /\ arrived # <<>> /\ Ends("eof")
  \/ need >= 0 /\ Short(need) /\ Ends("error")

\* Faulty: a body cut short is waited for.
ReadShortInLengthOnly == need = -1 /\ Short(LenBytes) /\ arrived # <<>> /\ Ends("error")

ReadShort ==
  \/ need = -1 /\ Short(LenBytes) /\ arrived # <<>> /\ Ends("error")
  \/ need >= 0 /\ Short(need) /\ Ends("error")

\* Any other error of read_exact, at the start of a frame or inside one; what had
\* arrived before may still be read first, or not.
ReadFails == ended = "no" /\ broken /\ Ends("error")

ReadBody ==
  /\ need >= 0 /\ Available(need)
  /\ Takes(need) /\ need' = -1
  /\ UNCHANGED <<sent, wire, fin, torn, broken>>
  /\ \E cbor \in {SubSeq(arrived, 1, need)} : \E got \in {DecodeBody(cbor)} :
       IF got = Violation THEN ended' = "violation" /\ UNCHANGED inbox
       ELSE inbox' = Append(inbox, got) /\ UNCHANGED ended

Read == ReadLength \/ ReadEof \/ ReadShort \/ ReadFails \/ ReadBody

Peer ==
  \/ \E m \in WireMessages : WriteMessage(m)
  \/ \E f \in Foreign : WriteForeign(f)
  \/ WriteOverLimit
  \/ Finish(0) \/ Finish(Len(wire))

FrameNext == Peer \/ Break \/ Transmit \/ Read

\* While bytes are under way or can be read, some arrive or are read.
FrameFairness == WF_frameVars(Transmit \/ Read)

FrameSpec == FrameInit /\ [][FrameNext]_frameVars /\ FrameFairness

-----------------------------------------------------------------------------
FrameTypeOK ==
  /\ wire \in Seq(Nat) /\ arrived \in Seq(Nat)
  /\ need \in -1 .. MAX_FRAME_BODY
  /\ ended \in {"no", "eof", "error", "violation"}
  /\ fin \in BOOLEAN /\ broken \in BOOLEAN
  /\ Len(sent) <= MaxFrames
  /\ \A i \in DOMAIN inbox : inbox[i] = Ignored \/ inbox[i].type \in Registered

\* The host sees the frames the peer wrote, in order and with their meaning,
\* however the bytes were cut on the way: framing never slips, every width of
\* integer survives, and what forward compatibility ignores is all that is lost.
FramesArriveInOrder ==
  /\ Len(inbox) <= Len(sent)
  /\ \A i \in DOMAIN inbox : inbox[i] = sent[i].means

\* The frame the reader was at when it stopped broke the rules.
AtFault == Len(inbox) < Len(sent) /\ sent[Len(inbox) + 1].means = Violation

\* A peer is accused only over a frame that breaks the rules, and dropped with an
\* error only over one, a stream finished inside a frame or a broken stream; and
\* only a stream finished at the end of a frame is taken for one that ended cleanly.
EndsForCause ==
  /\ ended = "violation" => AtFault
  /\ ended = "error" => torn \/ broken \/ AtFault
  /\ ended = "eof" => fin /\ ~torn

(* The reader sees what the peer did, no less and no more: the frames it   *)
(* wrote in order and with their meaning, and an accusation, an error or a *)
(* clean end only for cause (conn.rs, control.rs).                         *)
StreamReadFaithfully == FramesArriveInOrder /\ EndsForCause

\* A stream that is finished is read to the end, and one that breaks is given up:
\* no reader is left waiting for bytes that will not come.
FinishedIsNoticed == fin \/ broken ~> ended # "no"
=============================================================================
