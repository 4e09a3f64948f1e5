---------------------------- MODULE FreshFrames ----------------------------
(***************************************************************************)
(* What a capture promises to the media loop, in the words of              *)
(* loom-capture/src/lib.rs: "the newest frame lives in a shared slot", and *)
(* fill copies "the newest captured frame".  Frames are numbered in the    *)
(* order the screen produced them; 0 stands for none.  A frame may be      *)
(* skipped, and the same frame may be taken again; a frame is never mixed  *)
(* with another, and nothing older comes back.                             *)
(***************************************************************************)
EXTENDS Integers

VARIABLES
  newest,   \* the frame in the slot
  taken     \* the frame the media loop holds

Init == newest = 0 /\ taken = 0

Publish == newest' \in Nat /\ newest' > newest /\ UNCHANGED taken

Take == newest > 0 /\ taken' = newest /\ UNCHANGED newest

Spec == Init /\ [][Publish \/ Take]_<<newest, taken>>
=============================================================================
