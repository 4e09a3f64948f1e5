---------------------------- MODULE MCMediaThread ----------------------------
(* A small instance of MediaThread: two resolutions, two entries   *)
(* per channel, a frame counter that wraps.                                 *)
EXTENDS MediaThread
=============================================================================
