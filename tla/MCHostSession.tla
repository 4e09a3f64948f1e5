---------------------------- MODULE MCHostSession ----------------------------
(* A small instance of HostSession: one unit stands for 160 pixels, so the  *)
(* floor is 4, the host's ceiling 9 x 7 (odd, to exercise the rounding) and *)
(* the casts wrap at 16.                                                    *)
EXTENDS HostSession

MCHostMax == [w |-> 9, h |-> 7]
MCInitSize == [w |-> 7, h |-> 6]
MCDims == {-1, 2, 5, 8}
MCStreamKeys == {-1, 0, 5}
=============================================================================
