----------------------------- MODULE MCCapture -----------------------------
(* The captures of the two platforms, one of them at a time: a build has   *)
(* either.  Three buffers, so that a fourth holder of pixels would have to *)
(* share one, and frames enough to go round more than once; two displays.  *)
EXTENDS Capture

CONSTANT Displays

VARIABLES
  platform,   \* linux or macos; the other capture rests in an initial state
  nullPlanes, caller_, target, display, stream, pixels_, slot_, spare_, filling_,
  displaced, stage_, captured_, dst_

macVars == <<nullPlanes, caller_, target, display, stream, pixels_, slot_, spare_, filling_,
             displaced, stage_, captured_, dst_>>

Mac == INSTANCE ScreenCapture WITH
  caller <- caller_, pixels <- pixels_, slot <- slot_, spare <- spare_,
  filling <- filling_, stage <- stage_, captured <- captured_, dst <- dst_

ASSUME Mac!ScreenCaptureAssumption

MCInit ==
  /\ platform \in {"linux", "macos"}
  /\ Init
  /\ Mac!Init
  /\ platform = "linux" => ~nullPlanes /\ target = {}

MCNext ==
  \/ platform = "linux" /\ Next /\ UNCHANGED <<platform, macVars>>
  \/ platform = "macos" /\ Mac!Next /\ UNCHANGED <<platform, vars>>

\* A resting capture has none of its fair actions enabled.
MCSpec == MCInit /\ [][MCNext]_<<platform, vars, macVars>> /\ Fairness /\ Mac!Fairness

(* Types of the two captures; and no buffer of either is in two hands:     *)
(* nothing is written while it can be read (stream.rs, sck.rs).            *)
BuffersKeptApart == TypeOK /\ Mac!TypeOK /\ BuffersApart /\ Mac!BuffersApart

(* Nobody who starts or drops a capture waits forever: a failed start and  *)
(* a drop on Linux (lib.rs), a start on macOS whatever SCK does (sck.rs).  *)
CallersReturn == JoinsReturn /\ Mac!StartReturns

(* A macOS capture that runs shows the display asked for (sck.rs).         *)
TargetHonoured == Mac!TargetHonoured

(* The macOS capture implements FreshFrames, where every plane is mapped.  *)
MacImplementsFreshFrames == Mac!ImplementsFreshFrames
=============================================================================
