---------------------------- MODULE EncoderSeam ----------------------------
(***************************************************************************)
(* The seam between loomd's media loop and any of its three encoders, as   *)
(* the doc comments of encode_i420 state it: frames are handed over one by *)
(* one, a call returns the access unit for this frame, nothing, or an      *)
(* error, and the unit is an IDR when that was forced or it is the first.  *)
(* Of an encoder whose codec holds frames back only the order is left, and *)
(* that the first unit is an IDR.                                          *)
(***************************************************************************)
EXTENDS Naturals

CONSTANT NoAu   \* `last` before any access unit

VARIABLES
  exact,   \* the codec holds nothing back
  calls,   \* calls that have returned
  asked,   \* whether the current or last call forces an IDR
  last     \* the last access unit returned: its frame, and whether it is an IDR

Init == exact \in BOOLEAN /\ calls = 0 /\ asked = FALSE /\ last = NoAu

Ask == asked' \in BOOLEAN /\ UNCHANGED <<exact, calls, last>>

ReturnAu(n, keyframe) ==
  /\ IF last = NoAu THEN keyframe ELSE n > last.n
  /\ exact => n = calls + 1 /\ keyframe = (asked \/ last = NoAu)
  /\ calls' = calls + 1
  /\ last' = [n |-> n, keyframe |-> keyframe]
  /\ UNCHANGED <<exact, asked>>

ReturnNothing == calls' = calls + 1 /\ UNCHANGED <<exact, asked, last>>

Next ==
  \/ Ask \/ ReturnNothing
  \/ \E n \in 1 .. calls + 1, keyframe \in BOOLEAN : ReturnAu(n, keyframe)

Spec == Init /\ [][Next]_<<exact, calls, asked, last>>
=============================================================================
