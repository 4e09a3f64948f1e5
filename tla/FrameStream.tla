---------------------------- MODULE FrameStream ----------------------------
(***************************************************************************)
(* A receiver as its sender needs to know it: frames complete in the order *)
(* of their numbers, with holes; a frame is decoded when it is an IDR or   *)
(* directly follows the last one decoded; any other one asks for an IDR,   *)
(* unless that was done less than RateLimit before.  Fragments, duplicates *)
(* and the window are left to module Reassembler, which implements this.   *)
(***************************************************************************)
EXTENDS Integers, Sequences

CONSTANTS LastSeq, Keyframes, RateLimit, MaxTime

VARIABLES newestComplete, lastDecoded, delivered, idrTimes, idrLast, now

Init ==
  /\ newestComplete = -1 /\ lastDecoded = -1 /\ delivered = <<>>
  /\ idrTimes = <<>> /\ idrLast = {} /\ now = 0

Decode(s) ==
  /\ s \in Keyframes \/ (lastDecoded # -1 /\ s = lastDecoded + 1)
  /\ lastDecoded' = s /\ delivered' = Append(delivered, s)
  /\ UNCHANGED <<idrTimes, idrLast>>

Discard(s) ==
  /\ s \notin Keyframes /\ (lastDecoded = -1 \/ s # lastDecoded + 1)
  /\ IF \E t \in idrLast : now - t < RateLimit
     THEN UNCHANGED <<idrTimes, idrLast>>
     ELSE idrTimes' = Append(idrTimes, now) /\ idrLast' = {now}
  /\ UNCHANGED <<lastDecoded, delivered>>

Complete(s) ==
  /\ s > newestComplete /\ newestComplete' = s
  /\ Decode(s) \/ Discard(s)
  /\ UNCHANGED now

ClockAdvances ==
  /\ now < MaxTime /\ now' = now + 1
  /\ UNCHANGED <<newestComplete, lastDecoded, delivered, idrTimes, idrLast>>

Next == (\E s \in 0 .. LastSeq : Complete(s)) \/ ClockAdvances

Spec == Init /\ [][Next]_<<newestComplete, lastDecoded, delivered, idrTimes, idrLast, now>>
=============================================================================
