--------------------------- MODULE ScreenCapture ---------------------------
(***************************************************************************)
(* The macOS capture: ScreenCapture of loom-capture/src/sck.rs.            *)
(*                                                                         *)
(* start asks ScreenCaptureKit (SCK) twice, for the displays and for the   *)
(* stream's start, and waits for each reply no longer than REPLY_TIMEOUT;  *)
(* a reply may come later than that, or never.  Sample buffers arrive on a *)
(* serial queue, from before start returns until the delegate is released; *)
(* publish locks `spare`, then `slot`, then `spare` again, and fill runs   *)
(* in between.  Pixels are modelled as in module Capture.                  *)
(***************************************************************************)
EXTENDS Integers, Sequences, FiniteSets

CONSTANTS
  Buffers,     \* I420Buffers the allocator may hand out
  MaxFrames,   \* bound on the sample buffers delivered
  Displays     \* CGDirectDisplayIDs that may be connected

ScreenCaptureAssumption ==
  /\ IsFiniteSet(Buffers) /\ Cardinality(Buffers) >= 3
  /\ MaxFrames \in Nat /\ IsFiniteSet(Displays)

VARIABLES
  nullPlanes, \* a pixel buffer of this machine may report a null plane
  caller,     \* where the caller of start, fill and drop is
  target,     \* the display asked for, {} for the main one
  display,    \* the display picked, {} before
  stream,     \* the SCStream
  pixels, slot, spare, filling, displaced, stage, captured,   \* publish
  dst         \* the caller's frame

starting == <<caller, target, display, stream>>
frames == <<pixels, slot, spare, filling, displaced, stage, captured>>
vars == <<nullPlanes, starting, frames, dst>>

Blank == [top |-> 0, bottom |-> 0]

Init ==
  /\ nullPlanes \in BOOLEAN
  /\ caller = "new" /\ target \in {{}} \cup {{d} : d \in Displays} /\ display = {}
  /\ stream = "none"
  /\ pixels = [b \in Buffers |-> Blank]
  /\ slot = {} /\ spare = {} /\ filling = {} /\ displaced = {} /\ stage = "idle" /\ captured = 0
  /\ dst = Blank

-----------------------------------------------------------------------------
(* ScreenCapture::start.                                                   *)

RequestContent ==
  /\ caller = "new" /\ caller' = "enumerating"
  /\ UNCHANGED <<nullPlanes, target, display, stream, frames, dst>>

\* Faulty: a missing target falls back to the main display.
PickOrFirst(list) ==
  LET found == {n \in 1 .. Len(list) : list[n] \in target} IN
  IF found # {} THEN {list[n] : n \in found} ELSE {list[n] : n \in 1 .. Len(list) \cap {1}}

\* pick_display: the main display is SCK's first; {} is an error.
Pick(list) ==
  IF target = {} THEN {list[n] : n \in 1 .. Len(list) \cap {1}}
  ELSE {list[n] : n \in 1 .. Len(list)} \cap target

\* The displays arrive and the target is among them: the stream is made, its
\* output added, and its start requested.
ContentReply(list) ==
  /\ caller = "enumerating" /\ Pick(list) # {}
  /\ caller' = "starting"
  /\ display' = Pick(list)
  /\ stream' = "requested"
  /\ UNCHANGED <<nullPlanes, target, frames, dst>>

\* An error (permission, no content), no such display, or addStreamOutput fails.
ContentRefused ==
  /\ caller = "enumerating" /\ caller' = "failed"
  /\ UNCHANGED <<nullPlanes, target, display, stream, frames, dst>>

\* Faulty: the second wait has no bound.
TimeOutEnumeratingOnly ==
  /\ caller = "enumerating" /\ caller' = "failed"
  /\ UNCHANGED <<nullPlanes, target, display, stream, frames, dst>>

\* recv_timeout: whoever answers later finds the receiver gone.
TimeOut ==
  /\ caller \in {"enumerating", "starting"} /\ caller' = "failed"
  /\ UNCHANGED <<nullPlanes, target, display, stream, frames, dst>>

\* startCapture's completion handler, in time or late.
StartReply(ok) ==
  /\ stream = "requested"
  /\ stream' = IF ok THEN "capturing" ELSE "refused"
  /\ caller' = IF caller # "starting" THEN caller ELSE IF ok THEN "running" ELSE "failed"
  /\ UNCHANGED <<nullPlanes, target, display, frames, dst>>

Fill ==
  /\ caller = "running"
  /\ \E b \in slot : dst' = pixels[b]
  /\ UNCHANGED <<nullPlanes, starting, frames>>

\* stopCapture is requested and not waited for.
Drop ==
  /\ caller = "running" /\ caller' = "dropped"
  /\ stream' = "stopped"
  /\ UNCHANGED <<nullPlanes, target, display, frames, dst>>

-----------------------------------------------------------------------------
(* StreamOutput::publish, on SCK's serial queue.  A sample buffer that is  *)
(* no screen frame, or has no image buffer, changes nothing.               *)

\* The delegate lives as long as start or the capture holds it.
TakeSpare ==
  /\ stage = "idle" /\ captured < MaxFrames
  /\ caller \in {"starting", "running"}
  /\ filling' \in {{b} : b \in IF spare # {} THEN spare ELSE Buffers \ slot}
  /\ spare' = {} /\ captured' = captured + 1 /\ stage' = "top"
  /\ UNCHANGED <<nullPlanes, starting, pixels, slot, displaced, dst>>

\* An unexpected pixel format, or the lock fails: the buffer taken is lost.
DiscardSample ==
  /\ stage = "top" /\ stage' = "idle" /\ filling' = {}
  /\ UNCHANGED <<nullPlanes, starting, pixels, slot, spare, displaced, captured, dst>>

\* nv12::to_i420, in two steps.
Convert(part, next) ==
  /\ stage = part /\ stage' = next
  /\ pixels' = [b \in Buffers |-> IF b \in filling THEN [pixels[b] EXCEPT ![part] = captured]
                                                  ELSE pixels[b]]
  /\ UNCHANGED <<nullPlanes, starting, slot, spare, filling, displaced, captured, dst>>

\* A plane is null: the conversion is left out, nothing else.
SkipConversion ==
  /\ nullPlanes /\ stage = "top" /\ stage' = "replace"
  /\ UNCHANGED <<nullPlanes, starting, pixels, slot, spare, filling, displaced, captured, dst>>

\* Faulty: what is published becomes the spare as well.
ReplaceKeeping ==
  /\ stage = "replace" /\ stage' = "store"
  /\ slot' = filling /\ displaced' = filling /\ filling' = {}
  /\ UNCHANGED <<nullPlanes, starting, pixels, spare, captured, dst>>

Replace ==
  /\ stage = "replace" /\ stage' = "store"
  /\ slot' = filling /\ displaced' = slot /\ filling' = {}
  /\ UNCHANGED <<nullPlanes, starting, pixels, spare, captured, dst>>

StoreSpare ==
  /\ stage = "store" /\ stage' = "idle"
  /\ spare' = displaced /\ displaced' = {}
  /\ UNCHANGED <<nullPlanes, starting, pixels, slot, filling, captured, dst>>

PublishSteps ==
  \/ TakeSpare \/ DiscardSample \/ SkipConversion
  \/ Convert("top", "bottom") \/ Convert("bottom", "replace") \/ Replace \/ StoreSpare

Lists == UNION {[1 .. n -> Displays] : n \in 0 .. Cardinality(Displays)}

Next ==
  \/ RequestContent \/ (\E list \in Lists : ContentReply(list)) \/ ContentRefused
  \/ (\E ok \in BOOLEAN : StartReply(ok)) \/ TimeOut \/ Fill \/ Drop
  \/ PublishSteps

(* The clock goes on; SCK owes nothing.                                    *)
Fairness == WF_vars(TimeOut)

Spec == Init /\ [][Next]_vars /\ Fairness

-----------------------------------------------------------------------------
(* Properties.                                                             *)

AtMostOne(S, T) == S = {} \/ \E x \in T : S = {x}
Shot == [top : Nat, bottom : Nat]

TypeOK ==
  /\ nullPlanes \in BOOLEAN
  /\ caller \in {"new", "enumerating", "starting", "running", "failed", "dropped"}
  /\ AtMostOne(target, Displays) /\ AtMostOne(display, Displays)
  /\ stream \in {"none", "requested", "capturing", "refused", "stopped"}
  /\ pixels \in [Buffers -> Shot] /\ dst \in Shot /\ captured \in Nat
  /\ stage \in {"idle", "top", "bottom", "replace", "store"}
  /\ \A S \in {slot, spare, filling, displaced} : AtMostOne(S, Buffers)

(* No buffer is in two hands while the three locks of publish are taken in *)
(* turn: what is written cannot be read, and what is displaced is neither  *)
(* in the slot nor still a spare.                                          *)
BuffersApart ==
  /\ slot \cap spare = {} /\ slot \cap filling = {} /\ slot \cap displaced = {}
  /\ spare \cap filling = {}
  /\ displaced # {} => spare = {} /\ filling = {}

(* "an id that no longer exists is DisplayNotFound rather than a silent    *)
(* fall-back to main": a capture shows the display asked for, or, asked    *)
(* for none, some display; and only a capture that SCK confirmed is handed *)
(* out.                                                                    *)
TargetHonoured ==
  caller \in {"running", "dropped"} =>
    /\ stream \in {"capturing", "stopped"}
    /\ display # {} /\ (target # {} => display = target)

(* "a wedged callback fails loudly instead of hanging loomd forever":      *)
(* start returns whatever SCK does, or does not.                           *)
StartReturns ==
  caller \in {"enumerating", "starting"} ~> caller \in {"running", "failed", "dropped"}

(* The media loop takes whole frames, each time the newest published, and  *)
(* never an older one than before: where every plane is mapped the capture *)
(* implements FreshFrames.                                                 *)
Shown(p) == IF p.top = p.bottom THEN p.top ELSE -1
InSlot == IF slot = {} THEN 0 ELSE Shown(pixels[CHOOSE b \in Buffers : b \in slot])

Fresh == INSTANCE FreshFrames WITH
  newest <- IF nullPlanes THEN 0 ELSE InSlot,
  taken <- IF nullPlanes THEN 0 ELSE Shown(dst)

ImplementsFreshFrames == Fresh!Spec
=============================================================================
