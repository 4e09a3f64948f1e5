------------------------------- MODULE AnnexB -------------------------------
(***************************************************************************)
(* The bitstream of the VideoToolbox encoder: annexb::append, which turns  *)
(* an access unit of length-prefixed NAL units into Annex B, and convert   *)
(* of videotoolbox.rs, which puts the parameter sets before an IDR.        *)
(*                                                                         *)
(* The bytes are any bytes: well-formed, cut short, or garbage.  Each pass *)
(* of append's loop is a step.  A NAL unit written behind a start code is  *)
(* an element of `out`; that no NAL unit contains a start code is the      *)
(* codec's business.                                                       *)
(***************************************************************************)
EXTENDS Integers, Sequences, SequencesExt

CONSTANTS
  Bytes,       \* byte values that occur in an access unit
  MaxLen,      \* bound on its length
  Sizes,       \* nal_length_size, 1 .. 4 as the format description reports
  Sets         \* the parameter sets, VPS, SPS and PPS, as NAL units

ASSUME AnnexBAssumption ==
  /\ Bytes \subseteq 0 .. 255 /\ MaxLen \in Nat /\ Sizes \subseteq 1 .. 4
  /\ Sets \in Seq(Seq(0 .. 255))

VARIABLES
  src, size, repeat,   \* the access unit, nal_length_size, repeat_headers
  offset,              \* how far append has come
  out,                 \* the NAL units written
  keyframe,            \* one of them was an IDR slice
  result               \* "walking", the access unit is done, or the error

inputs == <<src, size, repeat>>
bitVars == <<inputs, offset, out, keyframe, result>>

BitInit ==
  /\ src \in BoundedSeq(Bytes, MaxLen) /\ size \in Sizes /\ repeat \in BOOLEAN
  /\ offset = 0 /\ out = <<>> /\ keyframe = FALSE /\ result = "walking"

-----------------------------------------------------------------------------
BigEndian(bytes) ==
  LET value[n \in 0 .. Len(bytes)] == IF n = 0 THEN 0 ELSE 256 * value[n - 1] + bytes[n]
  IN value[Len(bytes)]

\* Faulty: the first byte of the prefix is taken for the length.
LengthAtShort(o) == src[o + 1]

\* The prefix at offset o, and the position after the NAL unit behind it.
LengthAt(o) == BigEndian(SubSeq(src, o + 1, o + size))
End == offset + size + LengthAt(offset)

IdrSlices == {19, 20}
IsIdr(nal) == (nal[1] \div 2) % 64 \in IdrSlices

Fails(why) == result' = why /\ UNCHANGED <<inputs, offset, out, keyframe>>

HasPrefix == result = "walking" /\ offset < Len(src) /\ offset + size <= Len(src)

TruncatedPrefix ==
  /\ result = "walking" /\ offset < Len(src) /\ offset + size > Len(src)
  /\ Fails("truncated")

NalExceeds == HasPrefix /\ End > Len(src) /\ Fails("exceeds")

ZeroLength == HasPrefix /\ LengthAt(offset) = 0 /\ Fails("empty")

\* Faulty: the last NAL unit alone decides.
AppendNalForgetting ==
  /\ HasPrefix /\ End <= Len(src) /\ LengthAt(offset) # 0
  /\ LET nal == SubSeq(src, offset + size + 1, End)
     IN  out' = Append(out, nal) /\ keyframe' = IsIdr(nal)
  /\ offset' = End
  /\ UNCHANGED <<inputs, result>>

AppendNal ==
  /\ HasPrefix /\ End <= Len(src) /\ LengthAt(offset) # 0
  /\ LET nal == SubSeq(src, offset + size + 1, End)
     IN  out' = Append(out, nal) /\ keyframe' = (keyframe \/ IsIdr(nal))
  /\ offset' = End
  /\ UNCHANGED <<inputs, result>>

\* append returns; convert leads an IDR with the parameter sets, all or none.
Finish ==
  /\ result = "walking" /\ offset >= Len(src)
  /\ \/ ~(keyframe /\ repeat) /\ result' = "done" /\ UNCHANGED out
     \/ keyframe /\ repeat /\ result' = "done" /\ out' = Sets \o out
     \/ keyframe /\ repeat /\ result' = "no set" /\ UNCHANGED out
  /\ UNCHANGED <<inputs, offset, keyframe>>

BitNext == TruncatedPrefix \/ NalExceeds \/ ZeroLength \/ AppendNal \/ Finish

BitSpec == BitInit /\ [][BitNext]_bitVars

-----------------------------------------------------------------------------
(* Properties.                                                             *)

BitTypeOK ==
  /\ offset \in 0 .. Len(src) /\ keyframe \in BOOLEAN
  /\ out \in Seq(Seq(0 .. 255))
  /\ result \in {"walking", "done", "truncated", "exceeds", "empty", "no set"}

\* n >> (8 * k), for the k a prefix needs.
Shifted(n, k) ==
  <<n, n \div 256, (n \div 256) \div 256, ((n \div 256) \div 256) \div 256>>[k + 1]

\* The prefix that stands for a length, where the length fits in it.
Digits(n, k) == [i \in 1 .. k |-> Shifted(n, k - i) % 256]

Fits(length) == Shifted(length, size - 1) < 256

Prefixed(nal) == Digits(Len(nal), size) \o nal

\* A cut of the first n bytes into length-prefixed NAL units, by the positions at
\* which they begin and the last one ends.
CutOf(S, n) ==
  /\ {0, n} \subseteq S
  /\ \A s \in S \ {n} :
       \E t \in S : /\ t > s + size /\ Fits(t - (s + size))
                    /\ \A u \in S : u <= s \/ u >= t
                    /\ SubSeq(src, s + 1, t) = Prefixed(SubSeq(src, s + size + 1, t))

IsCut(S) == CutOf(S, Len(src))

\* An access unit is refused for its bytes exactly when it is no sequence of
\* length-prefixed NAL units: an intact frame never costs the stream its encoder,
\* and a damaged one is never sent.
RefusedExactly ==
  result # "walking" =>
    (result \in {"truncated", "exceeds", "empty"}
       <=> ~\E S \in SUBSET (0 .. Len(src)) : IsCut(S))

\* What is sent is the access unit, every NAL unit in its place; it is called a
\* keyframe when any of them is an IDR slice, and then, with headers repeated,
\* all parameter sets come before it, so that a client can start there.
UnitRestored ==
  result = "done" =>
    LET lead == IF keyframe /\ repeat THEN Sets ELSE <<>>
        body == SubSeq(out, Len(lead) + 1, Len(out))
    IN  /\ IsPrefix(lead, out)
        /\ FlattenSeq([i \in DOMAIN body |-> Prefixed(body[i])]) = src
        /\ keyframe <=> \E i \in DOMAIN body : IsIdr(body[i])

(* The conversion is exact: a unit is refused just when it is no sequence   *)
(* of NAL units (annexb.rs), and sent as it is otherwise, led by the        *)
(* parameter sets when it is an IDR (videotoolbox.rs).                      *)
ConversionExact == RefusedExactly /\ UnitRestored
=============================================================================
