----------------------------- MODULE MediaThread -----------------------------
(***************************************************************************)
(* One media pipeline of the host: the thread media::run of                *)
(* loomd/src/media/mod.rs, its MediaHandle (two mpsc channels) and the     *)
(* encoder and frame source it owns.                                       *)
(*                                                                         *)
(* The thread runs a loop of ticks.  The session's task posts into the two *)
(* channels at any point of a tick, and the connection may close at any    *)
(* point, so each read of shared state in a tick is a step of its own.     *)
(***************************************************************************)
EXTENDS Integers, Sequences

CONSTANTS
  Sizes,         \* the resolutions a session may ask for
  U32,           \* 2^32, the modulus of frame_seq.wrapping_add
  QueueBound,    \* bound on each channel's backlog
  DamageDriven,  \* the source has no frame until the first damage (Portal, SCK)
  NoFrame        \* `sent` before the first frame

Frame == [seq : 0 .. U32 - 1, size : Sizes, keyframe : BOOLEAN]

ASSUME MediaThreadAssumption ==
  /\ Sizes # {} /\ U32 \in Nat \ {0, 1} /\ QueueBound \in Nat \ {0}
  /\ DamageDriven \in BOOLEAN
  /\ NoFrame \notin Frame

VARIABLES
  pc,           \* where the thread is
  closed,       \* connection.close_reason().is_some()
  size,         \* params (w, h)
  idrQueue,     \* requests in the idr channel
  reconfigQueue,\* sizes in the reconfig channel
  encoder,      \* [size, fresh, skips]: its resolution, whether it coded nothing yet,
                \* and whether it may return Ok(None) for a frame
  have,         \* the source has produced a frame
  reconfigured, \* this tick re-opened source and encoder
  forceIdr,     \* force_idr of this tick
  frameSeq,     \* frame_seq
  sent,         \* the last frame handed to the connection, NoFrame before any
  wanted,       \* history: the last size posted
  owed          \* history: an IDR was asked for and taken, no IDR was sent since

channels == <<idrQueue, reconfigQueue>>
history == <<wanted, owed>>
vars == <<pc, closed, size, channels, encoder, have, reconfigured, forceIdr,
          frameSeq, sent, history>>

Pcs == {"openEncoder", "openSource", "top", "reconfig", "idr", "produce", "encode", "stopped"}

Init ==
  /\ pc = "openEncoder" /\ closed = FALSE
  /\ size \in Sizes
  /\ idrQueue = 0 /\ reconfigQueue = <<>>
  /\ \E skips \in BOOLEAN : encoder = [size |-> size, fresh |-> TRUE, skips |-> skips]
  /\ have = ~DamageDriven
  /\ reconfigured = FALSE /\ forceIdr = FALSE
  /\ frameSeq = 0 /\ sent = NoFrame
  /\ wanted = size /\ owed = FALSE

-----------------------------------------------------------------------------
(* The session's side: MediaHandle, and the connection.                    *)

\* A send to a stopped thread fails and the failure is ignored.
RequestIdr ==
  /\ pc # "stopped"
  /\ idrQueue < QueueBound
  /\ idrQueue' = idrQueue + 1
  /\ UNCHANGED <<pc, closed, size, reconfigQueue, encoder, have, reconfigured, forceIdr,
                 frameSeq, sent, history>>

PostReconfigure(s) ==
  /\ pc # "stopped"
  /\ Len(reconfigQueue) < QueueBound
  /\ reconfigQueue' = Append(reconfigQueue, s)
  /\ wanted' = s
  /\ UNCHANGED <<pc, closed, size, idrQueue, encoder, have, reconfigured, forceIdr,
                 frameSeq, sent, owed>>

ConnectionCloses ==
  /\ ~closed /\ closed' = TRUE
  /\ UNCHANGED <<pc, size, channels, encoder, have, reconfigured, forceIdr,
                 frameSeq, sent, history>>

-----------------------------------------------------------------------------
(* The thread.                                                             *)

Goto(from, to) == pc = from /\ pc' = to

\* Any of the opens, and the encoder, may fail: the thread ends.
Fail ==
  /\ \E from \in {"openEncoder", "openSource", "encode"} : Goto(from, "stopped")
  /\ UNCHANGED <<closed, size, channels, encoder, have, reconfigured, forceIdr,
                 frameSeq, sent, history>>

OpenEncoder ==
  /\ Goto("openEncoder", "openSource")
  /\ UNCHANGED <<closed, size, channels, encoder, have, reconfigured, forceIdr,
                 frameSeq, sent, history>>

OpenSource ==
  /\ Goto("openSource", "top")
  /\ UNCHANGED <<closed, size, channels, encoder, have, reconfigured, forceIdr,
                 frameSeq, sent, history>>

\* Faulty: the loop does not look at the connection.
CheckClosedNever ==
  /\ Goto("top", "reconfig")
  /\ UNCHANGED <<closed, size, channels, encoder, have, reconfigured, forceIdr,
                 frameSeq, sent, history>>

CheckClosed ==
  /\ Goto("top", IF closed THEN "stopped" ELSE "reconfig")
  /\ UNCHANGED <<closed, size, channels, encoder, have, reconfigured, forceIdr,
                 frameSeq, sent, history>>

NothingToReconfigure ==
  /\ reconfigQueue = <<>>
  /\ Goto("reconfig", "idr")
  /\ reconfigured' = FALSE
  /\ UNCHANGED <<closed, size, channels, encoder, have, forceIdr, frameSeq, sent, history>>

\* Faulty: the oldest size of the backlog is taken, the rest is dropped.
TakeOldest(q) == Head(q)

\* reconfig_rx.try_iter().last(): the backlog is drained, its newest size kept.
TakeNewest(q) == q[Len(q)]

\* Faulty: the live encoder is resized, and nothing forces an IDR.
ResizeInPlace ==
  /\ reconfigQueue # <<>>
  /\ Goto("reconfig", "idr")
  /\ reconfigQueue' = <<>>
  /\ size' = TakeNewest(reconfigQueue)
  /\ encoder' = [encoder EXCEPT !.size = size']
  /\ have' = ~DamageDriven
  /\ reconfigured' = FALSE
  /\ UNCHANGED <<closed, idrQueue, forceIdr, frameSeq, sent, history>>

\* Faulty: the frame counter restarts with the new encoder.
ReopenResettingSeq ==
  /\ reconfigQueue # <<>>
  /\ Goto("reconfig", "idr")
  /\ reconfigQueue' = <<>>
  /\ size' = TakeNewest(reconfigQueue)
  /\ encoder' = [encoder EXCEPT !.size = size', !.fresh = TRUE]
  /\ have' = ~DamageDriven
  /\ reconfigured' = TRUE
  /\ frameSeq' = 0
  /\ UNCHANGED <<closed, idrQueue, forceIdr, sent, history>>

\* reopen succeeds: source and encoder are replaced together.
Reopen ==
  /\ reconfigQueue # <<>>
  /\ Goto("reconfig", "idr")
  /\ reconfigQueue' = <<>>
  /\ size' = TakeNewest(reconfigQueue)
  /\ encoder' = [encoder EXCEPT !.size = size', !.fresh = TRUE]
  /\ have' = ~DamageDriven
  /\ reconfigured' = TRUE
  /\ UNCHANGED <<closed, idrQueue, forceIdr, frameSeq, sent, history>>

ReopenFails ==
  /\ reconfigQueue # <<>>
  /\ Goto("reconfig", "stopped")
  /\ reconfigQueue' = <<>>
  /\ UNCHANGED <<closed, size, idrQueue, encoder, have, reconfigured, forceIdr,
                 frameSeq, sent, history>>

\* Faulty: the channel is drained and a single request does not count.
TakeIdrAboveOne ==
  /\ Goto("idr", "produce")
  /\ forceIdr' = (reconfigured \/ idrQueue > 1)
  /\ idrQueue' = 0
  /\ owed' = (owed \/ idrQueue > 0)
  /\ UNCHANGED <<closed, size, reconfigQueue, encoder, have, reconfigured,
                 frameSeq, sent, wanted>>

\* `reconfigured || idr_rx.try_iter().count() > 0`: the channel is drained,
\* except on a tick that re-opened, where the right side is not evaluated.
TakeIdr ==
  /\ Goto("idr", "produce")
  /\ forceIdr' = (reconfigured \/ idrQueue > 0)
  /\ idrQueue' = IF reconfigured THEN idrQueue ELSE 0
  /\ owed' = (owed \/ idrQueue > 0)
  /\ UNCHANGED <<closed, size, reconfigQueue, encoder, have, reconfigured,
                 frameSeq, sent, wanted>>

\* A damage-driven source without a first frame ends the tick: force_idr is
\* forgotten, the encoder has still coded nothing.
WaitForDamage ==
  /\ ~have
  /\ Goto("produce", "top")
  /\ UNCHANGED <<closed, size, channels, encoder, have, reconfigured, forceIdr,
                 frameSeq, sent, history>>

\* fill() brought a frame, or the held one repeats.
Produce ==
  /\ Goto("produce", "encode")
  /\ have' = TRUE
  /\ UNCHANGED <<closed, size, channels, encoder, reconfigured, forceIdr,
                 frameSeq, sent, history>>

(* The encoder (external): an IDR when forced and for the first frame it   *)
(* codes, a P frame otherwise; never an unrequested IDR.                   *)
IsIdr == forceIdr \/ encoder.fresh

NextSeqUnwrapped(n) == n + 1   \* faulty: the counter does not wrap

NextSeq(n) == (n + 1) % U32

EncodeFrame ==
  /\ Goto("encode", "top")
  /\ sent' = [seq |-> frameSeq, size |-> encoder.size, keyframe |-> IsIdr]
  /\ encoder' = [encoder EXCEPT !.fresh = FALSE]
  /\ frameSeq' = NextSeq(frameSeq)
  /\ owed' = (owed /\ ~IsIdr)
  /\ UNCHANGED <<closed, size, channels, have, reconfigured, forceIdr, wanted>>

\* Ok(None): nothing is sent and frame_seq does not advance.
EncodeNothing ==
  /\ encoder.skips
  /\ Goto("encode", "top")
  /\ UNCHANGED <<closed, size, channels, encoder, have, reconfigured, forceIdr,
                 frameSeq, sent, history>>

Tick ==
  \/ OpenEncoder \/ OpenSource \/ CheckClosed
  \/ NothingToReconfigure \/ Reopen \/ ReopenFails
  \/ TakeIdr \/ WaitForDamage \/ Produce
  \/ EncodeFrame \/ EncodeNothing

Next ==
  \/ RequestIdr \/ (\E s \in Sizes : PostReconfigure(s)) \/ ConnectionCloses
  \/ Tick \/ Fail

(* A thread the operating system runs, whose opens and encodes return.     *)
Spec == Init /\ [][Next]_vars /\ WF_vars(Tick)

-----------------------------------------------------------------------------
(* Properties.                                                             *)

TypeOK ==
  /\ pc \in Pcs /\ closed \in BOOLEAN
  /\ size \in Sizes /\ wanted \in Sizes
  /\ idrQueue \in 0 .. QueueBound
  /\ reconfigQueue \in Seq(Sizes) /\ Len(reconfigQueue) <= QueueBound
  /\ encoder \in [size : Sizes, fresh : BOOLEAN, skips : BOOLEAN]
  /\ have \in BOOLEAN /\ reconfigured \in BOOLEAN
  /\ forceIdr \in BOOLEAN /\ owed \in BOOLEAN
  /\ frameSeq \in 0 .. U32 - 1
  /\ sent \in Frame \cup {NoFrame}

FrameSent == sent' # sent

(* The resolution changes only at an IDR, and every pipeline starts with   *)
(* one: a decoder never meets a P frame of parameters it has not seen      *)
(* (media/mod.rs, "the new VPS/SPS/PPS must lead the new generation").     *)
ResolutionChangesAtIdr ==
  [][FrameSent /\ (IF sent = NoFrame THEN TRUE ELSE sent.size # sent'.size)
       => sent'.keyframe]_vars

(* frame_seq counts the frames sent, without a hole or a repeat, across    *)
(* skipped frames and reconfigurations: the client's reassembly counter    *)
(* continues.                                                              *)
SeqContinues ==
  [][FrameSent =>
       sent'.seq = (IF sent = NoFrame THEN 0 ELSE (sent.seq + 1) % U32)]_vars

(* A request taken from the channel is answered by the very next frame     *)
(* sent: not lost on a tick without a frame, nor on a tick that re-opens,  *)
(* with an encoder that gives a frame for each it is fed.                  *)
RequestNotLost ==
  [][FrameSent /\ owed /\ ~encoder.skips => sent'.keyframe]_vars

(* "Ask the encoder to emit an IDR on its next frame" (media/mod.rs): the  *)
(* same of every encoder.                                                  *)
NextFrameAnswersRequest ==
  [][FrameSent /\ owed => sent'.keyframe]_vars

(* The last size the session asked for comes into force, unless it asks    *)
(* for another or the pipeline stops: draining the backlog loses no wish.  *)
NewestSizeWins ==
  \A s \in Sizes : wanted = s ~> size = s \/ wanted # s \/ pc = "stopped"

(* A closed connection stops the thread, which the session's task joins.   *)
ClosedStopsThread == closed ~> pc = "stopped"
=============================================================================
