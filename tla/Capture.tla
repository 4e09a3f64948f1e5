------------------------------ MODULE Capture ------------------------------
(***************************************************************************)
(* The Linux capture: PortalCapture of loom-capture/src/lib.rs and the     *)
(* PipeWire thread behind it, loom-capture/src/stream.rs.                  *)
(*                                                                         *)
(* Three parties share state.  The caller (a media thread) starts, fills   *)
(* and drops the capture.  The capture thread runs the PipeWire main loop  *)
(* and its callbacks state_changed, param_changed and the stop timer.  The *)
(* process callback runs on PipeWire's data thread, since the stream is    *)
(* connected with RT_PROCESS, and borrows the StreamData meanwhile.        *)
(*                                                                         *)
(* A buffer's pixels are the frames that its two halves come from, so that *)
(* a copy made while another is written would show as a mix.               *)
(***************************************************************************)
EXTENDS Integers, Sequences, FiniteSets

CONSTANTS
  Buffers,     \* I420Buffers the allocator may hand out
  MaxFrames    \* bound on the frames PipeWire delivers

ASSUME CaptureAssumption == Cardinality(Buffers) >= 3 /\ IsFiniteSet(Buffers) /\ MaxFrames \in Nat

VARIABLES
  caller,     \* where the caller is
  loop,       \* where the capture thread is
  stop,       \* the stop flag
  ready,      \* the reports sent on the ready channel, Ok or Err
  fmt,        \* the pixel layout locked in: fmt.is_some()
  pixels,     \* what each buffer's top and bottom half show
  slot,       \* the shared slot, {} or one buffer
  spare,      \* the displaced buffer, {} or one buffer
  filling,    \* the buffer the process callback converts into, {} or one
  stage,      \* how far that conversion is
  lock,       \* who holds the slot's mutex
  half,       \* the half a fill under way has copied
  dst,        \* the caller's frame, after its last fill
  captured,   \* frames PipeWire has delivered
  aborted     \* a callback panicked: the process is gone

frames == <<pixels, slot, spare, filling, stage, captured>>
callers == <<caller, stop, lock, half, dst>>
vars == <<callers, loop, ready, fmt, frames, aborted>>

Blank == [top |-> 0, bottom |-> 0]

Init ==
  /\ caller = "new" /\ loop = "none" /\ stop = FALSE /\ ready = <<>> /\ fmt = FALSE
  /\ pixels = [b \in Buffers |-> Blank]
  /\ slot = {} /\ spare = {} /\ filling = {} /\ stage = "idle" /\ captured = 0
  /\ lock = "free" /\ half = 0 /\ dst = Blank /\ aborted = FALSE

-----------------------------------------------------------------------------
(* PortalCapture::start.                                                   *)

\* The portal handshake (picker dialog) fails or is cancelled, or the spawn.
HandshakeFails ==
  /\ caller = "new" /\ caller' = "refused"
  /\ UNCHANGED <<loop, stop, ready, fmt, frames, lock, half, dst, aborted>>

Spawn ==
  /\ caller = "new" /\ caller' = "waiting"
  /\ loop' = "init"
  /\ UNCHANGED <<stop, ready, fmt, frames, lock, half, dst, aborted>>

\* Faulty: a failed start returns without joining the thread.
StartReturnsUnjoined ==
  /\ caller = "waiting" /\ ready # <<>>
  /\ caller' = IF Head(ready) = "ok" THEN "running" ELSE "refused"
  /\ UNCHANGED <<loop, stop, ready, fmt, frames, lock, half, dst, aborted>>

\* ready_rx.recv(): the first report decides; a thread that ends without one
\* drops the sender (StartupAborted).
StartReturns ==
  /\ caller = "waiting" /\ (ready # <<>> \/ loop = "ended")
  /\ caller' = IF ready # <<>> /\ Head(ready) = "ok" THEN "running" ELSE "joining"
  /\ UNCHANGED <<loop, stop, ready, fmt, frames, lock, half, dst, aborted>>

Joined ==
  /\ loop = "ended"
  /\ \/ caller = "joining" /\ caller' = "refused"
     \/ caller = "dropping" /\ caller' = "dropped"
  /\ UNCHANGED <<loop, stop, ready, fmt, frames, lock, half, dst, aborted>>

-----------------------------------------------------------------------------
(* PortalCapture::fill, under the slot's mutex, and drop.                  *)

FillLocks ==
  /\ caller = "running" /\ lock = "free" /\ slot # {}
  /\ caller' = "copying" /\ lock' = "caller"
  /\ \E b \in slot : half' = pixels[b].top
  /\ UNCHANGED <<loop, stop, ready, fmt, frames, dst, aborted>>

FillCopies ==
  /\ caller = "copying"
  /\ caller' = "running" /\ lock' = "free"
  /\ \E b \in slot : dst' = [top |-> half, bottom |-> pixels[b].bottom]
  /\ UNCHANGED <<loop, stop, ready, fmt, frames, half, aborted>>

\* Faulty: the flag is left alone, only the join remains.
DropSilently ==
  /\ caller = "running" /\ caller' = "dropping"
  /\ UNCHANGED <<loop, stop, ready, fmt, frames, lock, half, dst, aborted>>

Drop ==
  /\ caller = "running" /\ caller' = "dropping"
  /\ stop' = TRUE
  /\ UNCHANGED <<loop, ready, fmt, frames, lock, half, dst, aborted>>

-----------------------------------------------------------------------------
(* The capture thread: run, and its callbacks.                             *)

\* Faulty: the sender is not taken, every event reports.
ReportAlways(result) == ready' = Append(ready, result)

\* report: ready.take() lets only the first through.
Report(result) == ready' = IF ready = <<>> THEN <<result>> ELSE ready

\* Main loop, context, connect_fd, stream, listener, format or connect fails.
SetupFails ==
  /\ loop = "init" /\ Report("err")
  /\ loop' = "ended"
  /\ UNCHANGED <<callers, fmt, frames, aborted>>

Connect ==
  /\ loop = "init" /\ loop' = "looping"
  /\ UNCHANGED <<callers, ready, fmt, frames, aborted>>

\* A Format param that is cleared, or not raw video, changes nothing.
FormatAccepted ==
  /\ loop = "looping" /\ Report("ok")
  /\ fmt' = TRUE
  /\ UNCHANGED <<callers, loop, frames, aborted>>

\* Unparsable, an unexpected pixel format, or a size other than the expected;
\* or state_changed to Error: report and quit the loop.
FormatRefused ==
  /\ loop = "looping" /\ Report("err")
  /\ loop' = "quitting"
  /\ UNCHANGED <<callers, fmt, frames, aborted>>

TimerFires ==
  /\ loop = "looping" /\ stop
  /\ loop' = "quitting"
  /\ UNCHANGED <<callers, ready, fmt, frames, aborted>>

\* mainloop.run() returns; destroying the stream ends the callbacks, after a
\* process callback under way.
LoopReturns ==
  /\ \/ loop = "quitting" /\ loop' = "destroying"
     \/ loop = "destroying" /\ stage = "idle" /\ loop' = "ended"
  /\ UNCHANGED <<callers, ready, fmt, frames, aborted>>

\* The main loop's callbacks borrow the StreamData that process has borrowed:
\* the RefCell panics inside a C callback (or, racing, does not notice).
BorrowPanics ==
  /\ loop = "looping" /\ stage # "idle"
  /\ aborted' = TRUE
  /\ UNCHANGED <<callers, loop, ready, fmt, frames>>

-----------------------------------------------------------------------------
(* on_process, on the data thread.                                         *)

\* A usable buffer arrives: spare.take(), or a new I420Buffer.
ProcessStarts ==
  /\ loop \in {"looping", "quitting"} /\ fmt /\ stage = "idle" /\ captured < MaxFrames
  /\ filling' \in {{b} : b \in IF spare # {} THEN spare ELSE Buffers \ slot}
  /\ captured' = captured + 1 /\ spare' = {} /\ stage' = "top"
  /\ UNCHANGED <<callers, loop, ready, fmt, pixels, slot, aborted>>

\* convert::to_i420, in two steps.
Convert(part, next) ==
  /\ stage = part /\ stage' = next
  /\ pixels' = [b \in Buffers |-> IF b \in filling THEN [pixels[b] EXCEPT ![part] = captured]
                                                  ELSE pixels[b]]
  /\ UNCHANGED <<callers, loop, ready, fmt, slot, spare, filling, captured, aborted>>

\* Faulty: the slot is replaced without its lock.
PublishUnlocked ==
  /\ stage = "publish" /\ stage' = "idle"
  /\ slot' = filling /\ spare' = slot /\ filling' = {}
  /\ UNCHANGED <<callers, loop, ready, fmt, pixels, captured, aborted>>

\* Faulty: the displaced buffer is not kept.
PublishForgetting ==
  /\ stage = "publish" /\ stage' = "idle" /\ lock = "free"
  /\ slot' = filling /\ spare' = filling /\ filling' = {}
  /\ UNCHANGED <<callers, loop, ready, fmt, pixels, captured, aborted>>

\* slot.replace(frame), and the displaced buffer becomes the spare.
Publish ==
  /\ stage = "publish" /\ stage' = "idle" /\ lock = "free"
  /\ slot' = filling /\ spare' = slot /\ filling' = {}
  /\ UNCHANGED <<callers, loop, ready, fmt, pixels, captured, aborted>>

-----------------------------------------------------------------------------
Caller == Spawn \/ StartReturns \/ Joined \/ FillLocks \/ FillCopies \/ Drop
Events == Connect \/ SetupFails \/ FormatAccepted \/ FormatRefused
OnProcess == ProcessStarts \/ Convert("top", "bottom") \/ Convert("bottom", "publish") \/ Publish

Next ==
  /\ ~aborted
  /\ \/ HandshakeFails \/ Caller
     \/ Events \/ TimerFires \/ LoopReturns \/ BorrowPanics
     \/ OnProcess

(* The operating system runs the threads and the 50 ms timer fires.        *)
(* Nothing obliges PipeWire to negotiate a format, and a fill never waits  *)
(* longer than a publish.                                                  *)
Fairness ==
  /\ WF_vars(~aborted /\ (TimerFires \/ LoopReturns))
  /\ WF_vars(~aborted /\ Joined)
  /\ WF_vars(~aborted /\ FillCopies)
  /\ WF_vars(~aborted /\ stage # "idle" /\ OnProcess)

Spec == Init /\ [][Next]_vars /\ Fairness

-----------------------------------------------------------------------------
(* Properties.                                                             *)

AtMostOne(S) == S = {} \/ \E b \in Buffers : S = {b}
Shot == [top : Nat, bottom : Nat]

TypeOK ==
  /\ caller \in {"new", "waiting", "joining", "refused", "running", "copying", "dropping", "dropped"}
  /\ loop \in {"none", "init", "looping", "quitting", "destroying", "ended"}
  /\ stop \in BOOLEAN /\ fmt \in BOOLEAN /\ aborted \in BOOLEAN
  /\ ready \in Seq({"ok", "err"})
  /\ pixels \in [Buffers -> Shot]
  /\ AtMostOne(slot) /\ AtMostOne(spare) /\ AtMostOne(filling)
  /\ stage \in {"idle", "top", "bottom", "publish"}
  /\ lock \in {"free", "caller"}
  /\ half \in Nat /\ dst \in Shot /\ captured \in Nat

(* "Reports first-format success (or failure) exactly once": never twice,  *)
(* and never not at all when the thread ends, so that start is not left    *)
(* with StartupAborted; and success only once a layout is locked in.       *)
ReportedOnce ==
  /\ Len(ready) <= 1
  /\ loop = "ended" => ready # <<>>
  /\ ready = <<"ok">> => fmt

(* No capture thread outlives its owner: once start has failed, or the     *)
(* drop has returned, the thread has ended.                                *)
NoOrphanThread == caller \in {"refused", "dropped"} => loop \in {"none", "ended"}

(* The slot, the spare and the buffer being written are never the same     *)
(* buffer: nothing is written while it can be read, and nothing is read    *)
(* that was given up.                                                      *)
BuffersApart ==
  /\ slot \cap spare = {} /\ slot \cap filling = {} /\ spare \cap filling = {}
  /\ stage = "idle" <=> filling = {}

(* A drop, or the join of a failed start, returns: the stop flag reaches   *)
(* the loop through its timer and the thread ends.                         *)
JoinsReturn ==
  caller \in {"joining", "dropping"} ~> caller \in {"refused", "dropped"} \/ aborted

(* The media loop takes whole frames, each time the newest published, and  *)
(* never an older one than before: the capture implements FreshFrames.  A  *)
(* buffer whose halves differ is no frame at all.                          *)
Shown(p) == IF p.top = p.bottom THEN p.top ELSE -1

Fresh == INSTANCE FreshFrames WITH
  newest <- IF slot = {} THEN 0 ELSE Shown(pixels[CHOOSE b \in Buffers : b \in slot]),
  taken <- Shown(dst)

ImplementsFreshFrames == Fresh!Spec

(* "State owned by the PipeWire thread and its callbacks" (stream.rs): no  *)
(* callback finds that state borrowed by another.                          *)
NeverBorrowedTwice == ~aborted
=============================================================================
