---------------------------- MODULE MCControlPlane ---------------------------
(* A small instance of the control stream (ControlStream), with the CBOR of *)
(* module Cbor in its frames.                                               *)
EXTENDS ControlStream, Cbor

(* Two sizes to ask for, one the initial size and one beyond every ceiling, *)
(* and a client whose maximum is below the host's or absent.                *)
MCHostMax == [w |-> 8, h |-> 6]
MCInitSize == [w |-> 6, h |-> 4]
MCDims == {5, 6, 8}
MCStreamKeys == {0}

Hello(max, multi) ==
  [type |-> "HELLO", version1 |-> TRUE, hevc |-> TRUE, max |-> max, multi |-> multi]
AskFor(w, h) == [type |-> "VIEWPORT", req |-> {[w |-> w, h |-> h]}]

MCClientHellos == {Hello({}, TRUE), Hello({[w |-> 8, h |-> 5]}, FALSE)}
MCClientRequests ==
  {AskFor(6, 5), AskFor(8, 8), [type |-> "IDR_REQUEST", stream |-> 0], [type |-> "CLOCK_PING"]}

Pair(k, v) == <<Int_(k), v>>

\* Types and integers on both sides of every width; entries out of order; an
\* unknown key, a key that is a text, and an unregistered type.
MCWireMessages ==
  { [type |-> 5, body |-> <<>>],
    [type |-> 34, body |-> <<Pair(1, Int_(-1)), Pair(0, Int_(80))>>],
    [type |-> 64, body |-> <<Pair(1, Text(2)), Pair(0, Int_(-3))>>],
    [type |-> 48, body |-> <<<<Text(1), Int_(0)>>, Pair(0, Int_(81))>>],
    [type |-> 33, body |-> <<Pair(3, Int_(9)), Pair(2, Int_(8)), Pair(-2, Int_(2))>>],
    [type |-> 127, body |-> <<Pair(0, Int_(1))>>] }

\* What other peers may write behind a length, and what it means: an argument
\* that is not in its shortest form, bytes after the message, a tag; and the
\* envelopes of the tests: not CBOR, not an array, three items, a body that is no
\* map, a negative type.
Loose == EncodeHead(4, 2) \o <<HeadByte(0, Inline + 1), 1, 2>> \o EncodeHead(5, 0)

Judged(cbor, means) == [cbor |-> cbor, means |-> means]
IsViolation(cbor) == Judged(cbor, [violation |-> TRUE])
IsIgnored(cbor) == Judged(cbor, [ignored |-> TRUE])
IsStart(cbor) == Judged(cbor, [type |-> 5, body |-> {}])

MCForeign ==
  { IsStart(Loose),
    IsStart(Encode(Array(<<Int_(5), Map(<<>>)>>)) \o <<0>>),
    IsIgnored(<<HeadByte(6, 0)>> \o Encode(Array(<<Int_(127), Map(<<>>)>>))) }
  \cup {IsViolation(cbor) : cbor \in
    { <<>>,
      EncodeHead(4, 2) \o EncodeHead(0, 1),
      Encode(Map(<<Pair(1, Null)>>)),
      Encode(Array(<<Int_(1), Map(<<>>), Int_(1)>>)),
      Encode(Array(<<Int_(5), Array(<<Int_(1)>>)>>)),
      Encode(Array(<<Int_(-5), Map(<<>>)>>)) }}

MCThetas == {-3, 0, 2}
MCStarts == {-2, 5}

=============================================================================
