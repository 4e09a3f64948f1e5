----------------------------- MODULE ControlStream -----------------------------
(***************************************************************************)
(* The control stream in three views, one of them at a time: the session   *)
(* over a queue of messages (ControlPlane), the bytes those messages       *)
(* travel as (ControlFrame), and the clock exchanges that run over them    *)
(* (ClockFilter).                                                          *)
(***************************************************************************)
EXTENDS ControlPlane, ControlFrame, ClockFilter

VARIABLE part      \* which of the three; the others rest in an initial state

PartsInit ==
  /\ part \in {"plane", "bytes", "clock"}
  /\ PlaneInit /\ FrameInit /\ ClockInit
  /\ part # "clock" => theta = 0

PartsNext ==
  \/ part = "plane" /\ PlaneNext /\ UNCHANGED <<part, frameVars, clockVars>>
  \/ part = "bytes" /\ FrameNext /\ UNCHANGED <<part, planeVars, clockVars>>
  \/ part = "clock" /\ ClockNext /\ UNCHANGED <<part, planeVars, frameVars>>

\* A part at rest has none of its fair actions enabled.
PartsSpec ==
  /\ PartsInit /\ [][PartsNext]_<<part, planeVars, frameVars, clockVars>>
  /\ PlaneFairness /\ FrameFairness

(* Types of the three parts.                                               *)
PartsTypeOK == PlaneTypeOK /\ FrameTypeOK /\ ClockTypeOK
=============================================================================
