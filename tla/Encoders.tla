------------------------------ MODULE Encoders ------------------------------
(***************************************************************************)
(* One encoder of loom-encode, from its opening to its drop: HevcEncoder   *)
(* (x265), NvencEncoder or VideoToolboxEncoder, used as loomd's media loop *)
(* uses it, which breaks off at the first error.                           *)
(*                                                                         *)
(* The codecs are external.  x265 and NVENC may hold up to MaxHeld frames  *)
(* before they give the first one out (0 is what `zerolatency` and         *)
(* `delay=0` ask for).  VideoToolbox calls back on a thread of its own,    *)
(* at any time from the submission of a frame until its session is         *)
(* invalidated, and leaves the outcome in a sink the encoder owns.         *)
(***************************************************************************)
EXTENDS Naturals, Sequences

CONSTANTS
  MaxCalls,      \* bound on the calls of encode_i420
  MaxHeld,       \* frames a codec may hold back
  Hints,         \* properties or options of the latency recipe
  Constraints,   \* properties or options the stream's shape depends on
  NoAu           \* `last` before any access unit

Au == [n : 1 .. MaxCalls, keyframe : BOOLEAN]

ASSUME EncodersAssumption ==
  MaxCalls \in Nat /\ MaxHeld \in Nat /\ NoAu \notin Au /\ Hints \cap Constraints = {}

VARIABLES
  backend,    \* [kind, holds]: which of the three, and the frames its codec may hold back
  accepts,    \* the codec's answer to each property: ok, unsupported, rejected
  state,      \* where the encoder is, and its caller with it
  calls,      \* calls of encode_i420 that have returned
  force,      \* force_idr of the current call
  started,    \* x265's flag; for the others, the codec has coded a frame
  held,       \* access units inside the codec, in order
  pending,    \* VideoToolbox: the frame submitted and not called back, {} or one
  sink,       \* VideoToolbox: [au, error], sets of at most one element
  sinkAlive,  \* the sink's memory has not been released
  last,       \* the last access unit returned to the caller
  dangling    \* a callback touched a released sink

codec == <<started, held>>
toolbox == <<pending, sink, sinkAlive, dangling>>
vars == <<backend, accepts, state, calls, force, codec, toolbox, last>>

Backends == [kind : {"x265", "nvenc"}, holds : 0 .. MaxHeld]
              \cup [kind : {"videotoolbox"}, holds : {0}]

Init ==
  /\ backend \in Backends
  /\ accepts \in [Hints \cup Constraints -> {"ok", "unsupported", "rejected"}]
  /\ backend.kind = "x265" => accepts = [k \in Hints \cup Constraints |-> "ok"]
  /\ state = "unopened" /\ calls = 0 /\ force = FALSE /\ started = FALSE /\ held = <<>>
  /\ pending = {} /\ sink = [au |-> {}, error |-> {}] /\ sinkAlive = TRUE
  /\ last = NoAu /\ dangling = FALSE

-----------------------------------------------------------------------------
(* Opening.                                                                *)

\* VideoToolbox's configure: a hint may be unsupported, a constraint must be accepted.
Configures ==
  /\ \A k \in Hints : accepts[k] \in {"ok", "unsupported"}
  /\ \A k \in Constraints : accepts[k] = "ok"

\* set_opt and set_opt_int, NVENC's private options: each one must be accepted.
OptionsSet == \A k \in Hints \cup Constraints : accepts[k] = "ok"

Opened ==
  /\ state = "unopened" /\ state' = "idle"
  /\ UNCHANGED <<backend, accepts, calls, force, codec, toolbox, last>>

OpenX265 == backend.kind = "x265" /\ Opened
OpenNvenc == backend.kind = "nvenc" /\ OptionsSet /\ Opened
OpenVideoToolbox == backend.kind = "videotoolbox" /\ Configures /\ Opened

\* The codec or its session cannot be had, or an NVENC option is refused: there is
\* no encoder to drop.
OpenFails ==
  /\ state = "unopened" /\ state' = "released"
  /\ sinkAlive' = FALSE
  /\ UNCHANGED <<backend, accepts, calls, force, codec, pending, sink, dangling, last>>

\* configure fails on a session that exists: the new encoder is dropped.
ConfigureFails ==
  /\ backend.kind = "videotoolbox" /\ state = "unopened" /\ ~Configures
  /\ state' = "failed"
  /\ UNCHANGED <<backend, accepts, calls, force, codec, toolbox, last>>

-----------------------------------------------------------------------------
(* encode_i420.  The frame of the current call is calls + 1.               *)

Call ==
  /\ state = "idle" /\ calls < MaxCalls
  /\ state' = "calling" /\ force' \in BOOLEAN
  /\ UNCHANGED <<backend, accepts, calls, codec, toolbox, last>>

Return(next) == state' = next /\ calls' = calls + 1

\* Faulty: the media loop goes on after an error.
ReturnsErrAndGoesOn ==
  /\ state \in {"calling", "flushing"} /\ Return("idle")
  /\ UNCHANGED <<backend, accepts, force, codec, toolbox, last>>

\* A call into the codec fails: encode, send, receive; VideoToolbox's pixel
\* buffer, submission or flush.  Callbacks under way are not waited for.
ReturnsErr ==
  /\ state \in {"calling", "flushing"} /\ Return("failed")
  /\ UNCHANGED <<backend, accepts, force, codec, toolbox, last>>

\* Faulty: the newest frame is given out first.
GiveNewest(q) ==
  \/ Len(q) <= backend.holds /\ held' = q /\ last' = last
  \/ held' = SubSeq(q, 1, Len(q) - 1) /\ last' = q[Len(q)]

\* Faulty: the output of the codec is never asked for.
GiveNothing(q) == held' = q /\ last' = last

\* The codec has output for this call, or holds everything back (Ok(None)).
Give(q) ==
  \/ Len(q) <= backend.holds /\ held' = q /\ last' = last
  \/ held' = Tail(q) /\ last' = Head(q)

\* Faulty: the first frame is left to force_idr.
X265TypeForcedOnly == force

\* sliceType: IDR when forced or not yet started, P otherwise.
X265Type == force \/ ~started

EncodeX265 ==
  /\ backend.kind = "x265" /\ state = "calling" /\ Return("idle")
  /\ Give(Append(held, [n |-> calls + 1, keyframe |-> X265Type]))
  /\ started' = TRUE
  /\ UNCHANGED <<backend, accepts, force, toolbox>>

\* send_frame, then one receive_packet; pict_type I is an IDR (forced-idr),
\* and the codec starts with one.
EncodeNvenc ==
  /\ backend.kind = "nvenc" /\ state = "calling" /\ Return("idle")
  /\ Give(Append(held, [n |-> calls + 1, keyframe |-> force \/ ~started]))
  /\ started' = TRUE
  /\ UNCHANGED <<backend, accepts, force, toolbox>>

(* VideoToolbox: submit, flush, and take what the callback left.           *)

Submit ==
  /\ backend.kind = "videotoolbox" /\ state = "calling"
  /\ state' = "flushing" /\ pending' = {calls + 1}
  /\ UNCHANGED <<backend, accepts, calls, force, codec, sink, sinkAlive, dangling, last>>

Calls(n) == n \in pending /\ pending' = {} /\ dangling' = (dangling \/ ~sinkAlive)

\* output_callback with an access unit that converts.
CallbackAu(n) ==
  /\ Calls(n)
  /\ sink' = [sink EXCEPT !.au = {[n |-> n, keyframe |-> force \/ ~started]}]
  /\ started' = TRUE
  /\ UNCHANGED <<backend, accepts, state, calls, force, held, sinkAlive, last>>

\* A failing status, or a bitstream convert cannot interpret: get_or_insert.
CallbackError(n) ==
  /\ Calls(n)
  /\ sink' = [sink EXCEPT !.error = IF @ = {} THEN {n} ELSE @]
  /\ UNCHANGED <<backend, accepts, state, calls, force, codec, sinkAlive, last>>

\* No sample buffer: a dropped frame, not an error.
CallbackDropped(n) ==
  /\ Calls(n)
  /\ UNCHANGED <<backend, accepts, state, calls, force, codec, sink, sinkAlive, last>>

\* complete_frames succeeded: an error first, else the access unit, if any.
TakeSink ==
  /\ state = "flushing" /\ pending = {}
  /\ IF sink.error # {}
     THEN Return("failed") /\ sink' = [sink EXCEPT !.error = {}] /\ last' = last
     ELSE /\ Return("idle") /\ sink' = [sink EXCEPT !.au = {}]
          /\ last' = IF sink.au = {} THEN last ELSE CHOOSE au \in sink.au : TRUE
  /\ UNCHANGED <<backend, accepts, force, codec, pending, sinkAlive, dangling>>

-----------------------------------------------------------------------------
(* Drop: after an error, or when the media loop is done with the encoder.  *)

\* Faulty: the sink goes first.
ReleaseFirst ==
  /\ state \in {"idle", "failed"} /\ state' = "invalidated"
  /\ sinkAlive' = FALSE
  /\ UNCHANGED <<backend, accepts, calls, force, codec, pending, sink, dangling, last>>

\* session.invalidate(): no callback runs after it.
Invalidate ==
  /\ state \in {"idle", "failed"} /\ state' = "invalidated"
  /\ pending' = {}
  /\ UNCHANGED <<backend, accepts, calls, force, codec, sink, sinkAlive, dangling, last>>

ReleaseSink ==
  /\ state = "invalidated" /\ state' = "released"
  /\ sinkAlive' = FALSE
  /\ UNCHANGED <<backend, accepts, calls, force, codec, pending, sink, dangling, last>>

Callback ==
  \E n \in pending : CallbackAu(n) \/ CallbackError(n) \/ CallbackDropped(n)

Next ==
  \/ OpenX265 \/ OpenNvenc \/ OpenVideoToolbox \/ OpenFails \/ ConfigureFails
  \/ Call \/ ReturnsErr \/ EncodeX265 \/ EncodeNvenc
  \/ Submit \/ Callback \/ TakeSink
  \/ Invalidate \/ ReleaseSink

Spec == Init /\ [][Next]_vars

-----------------------------------------------------------------------------
(* Properties.                                                             *)

TypeOK ==
  /\ backend \in Backends
  /\ accepts \in [Hints \cup Constraints -> {"ok", "unsupported", "rejected"}]
  /\ state \in {"unopened", "idle", "calling", "flushing", "failed", "invalidated", "released"}
  /\ calls \in 0 .. MaxCalls /\ force \in BOOLEAN /\ started \in BOOLEAN
  /\ held \in Seq(Au) /\ Len(held) <= backend.holds
  /\ pending \subseteq 1 .. MaxCalls
  /\ sink \in [au : SUBSET Au, error : SUBSET (1 .. MaxCalls)]
  /\ sinkAlive \in BOOLEAN /\ dangling \in BOOLEAN
  /\ last \in Au \cup {NoAu}

(* A callback touches the call it belongs to and nothing else.  Between    *)
(* two calls none is under way, and there is no error that the next call   *)
(* would report for its own and no access unit that it would return for    *)
(* its own.  And as the drop "invalidates the session ... before `sink`,   *)
(* which the callback dereferences, is released", none meets a released    *)
(* sink, not after an error that left a frame in flight either.            *)
SinkEmptyBetweenCalls ==
  state \in {"idle", "calling"} => pending = {} /\ sink.au = {} /\ sink.error = {}

NoDanglingCallback == ~dangling /\ (pending # {} => sinkAlive)

CallbackContained == SinkEmptyBetweenCalls /\ NoDanglingCallback

(* Access units come out in the order their frames went in, each once, the *)
(* first of them an IDR, however many frames a codec holds back and        *)
(* whatever it drops.                                                      *)
InOrder ==
  [][last' # last =>
       IF last = NoAu THEN last'.keyframe ELSE last'.n > last.n]_vars

(* With a codec that holds nothing back, each of the three encoders is     *)
(* what the media loop takes it for; with one that does, as much of it as  *)
(* EncoderSeam leaves.                                                     *)
Seam == INSTANCE EncoderSeam WITH exact <- backend.holds = 0, asked <- force

ImplementsSeam == Seam!Spec
=============================================================================
