----------------------------- MODULE ControlPlane ----------------------------
(***************************************************************************)
(* One session over a healthy connection: HostSession, the driver that     *)
(* writes its outputs (conn.rs), the two directions of the control stream  *)
(* as FIFO queues, and a client that follows the protocol the way the      *)
(* clients of loomd/tests do.  The client answers every CONFIG, in order   *)
(* and at a moment of its own choosing, and asks for what it likes in      *)
(* between: the interleavings of VIEWPORT, CONFIG and CONFIG_ACK in flight *)
(* are what this module is about.                                          *)
(***************************************************************************)
EXTENDS HostSession

CONSTANTS
  ClientHellos,   \* the HELLOs a client of this protocol may open with
  ClientRequests, \* the frames it may send at any time while streaming
  QueueBound      \* frames in flight in each direction (the stream's flow control)

ASSUME ControlPlaneAssumption ==
  /\ ClientHellos \subseteq {m \in Hellos : m.version1 /\ m.hevc}
  /\ ClientRequests \subseteq
       Viewports \cup IdrRequests \cup [type : {"STATS", "INPUT", "CLOCK_PING"}]
  /\ QueueBound \in Nat \ {0}

VARIABLES
  toHost,     \* frames the client wrote and the host has not read
  toClient,   \* frames the host wrote and the client has not read
  active,     \* {size the primary media thread was told}, {} before START
  phase,      \* the client: new, waiting, streaming, gone, refused
  known,      \* {[gen, size] of the last CONFIG the client read}
  owes,       \* CONFIGs read and not yet acknowledged, oldest first
  acked       \* sizes the client has acknowledged

clientVars == <<phase, known, owes, acked>>
planeVars == <<vars, toHost, toClient, active, clientVars>>

PlaneInit ==
  /\ Init
  /\ toHost = <<>> /\ toClient = <<>>
  /\ active = {}
  /\ phase = "new" /\ known = {} /\ owes = <<>> /\ acked = {}

-----------------------------------------------------------------------------
(* The host: session_loop reads when the last outputs are driven.          *)

HostReads ==
  /\ out = <<>> /\ state # "Closed"
  /\ toHost # <<>>
  /\ OnFrame(Head(toHost))
  /\ toHost' = Tail(toHost)
  /\ UNCHANGED <<toClient, active, clientVars>>

Driving(kinds) == out # <<>> /\ Head(out).kind \in kinds

\* write_all waits for the stream's flow control.
DriveSend ==
  /\ Driving({"Send", "ClockPong"})
  /\ Len(toClient) < QueueBound
  /\ toClient' = Append(toClient, Head(out))
  /\ out' = Tail(out)
  /\ UNCHANGED <<sessionVars, toHost, active, clientVars>>

(* StartMedia spawns the primary with its configured parameters, which are *)
(* those of the first CONFIG.                                              *)
DriveStartMedia ==
  /\ Driving({"StartMedia"})
  /\ active' = {InitSize}
  /\ out' = Tail(out)
  /\ UNCHANGED <<sessionVars, toHost, toClient, clientVars>>

DriveReconfigure ==
  /\ Driving({"Reconfigure"})
  /\ active' = {Head(out).size}
  /\ out' = Tail(out)
  /\ UNCHANGED <<sessionVars, toHost, toClient, clientVars>>

\* No effect on the control plane.
DriveQuietly ==
  /\ Driving({"RequestIdr", "Stats"})
  /\ out' = Tail(out)
  /\ UNCHANGED <<sessionVars, toHost, toClient, active, clientVars>>

DriveClose ==
  /\ Driving({"Close"})
  /\ out' = <<>>
  /\ UNCHANGED <<sessionVars, toHost, toClient, active, clientVars>>

Drive ==
  DriveSend \/ DriveStartMedia \/ DriveReconfigure \/ DriveQuietly \/ DriveClose

-----------------------------------------------------------------------------
(* The client.                                                             *)

ClientWrites(m) ==
  /\ Len(toHost) < QueueBound
  /\ toHost' = Append(toHost, m)
  /\ UNCHANGED <<vars, toClient, active>>

ClientHello ==
  /\ phase = "new"
  /\ \E m \in ClientHellos : ClientWrites(m)
  /\ phase' = "waiting"
  /\ UNCHANGED <<known, owes, acked>>

ClientReads ==
  /\ toClient # <<>> /\ phase \in {"waiting", "streaming"}
  /\ toClient' = Tail(toClient)
  /\ LET m == Head(toClient)
         isConfig == m.kind = "Send" /\ m.msg = "CONFIG"
         config == IF isConfig THEN {[gen |-> m.gen, size |-> m.size]} ELSE {}
     IN  /\ phase' = CASE m.kind = "Send" /\ m.msg = "START" -> "streaming"
                       [] m.kind = "Send" /\ m.msg = "ERROR" -> "refused"
                       [] OTHER -> phase
         /\ known' = IF isConfig THEN config ELSE known
         /\ \E q \in IF isConfig THEN {Append(owes, c) : c \in config} ELSE {owes} :
              owes' = q
  /\ UNCHANGED <<vars, toHost, active, acked>>

ClientAcks ==
  /\ owes # <<>> /\ phase \in {"waiting", "streaming"}
  /\ ClientWrites([type |-> "CONFIG_ACK", gen |-> Head(owes).gen])
  /\ owes' = Tail(owes)
  /\ acked' = acked \cup {Head(owes).size}
  /\ UNCHANGED <<phase, known>>

ClientAsks ==
  /\ phase = "streaming"
  /\ \E m \in ClientRequests : ClientWrites(m)
  /\ UNCHANGED clientVars

ClientLeaves ==
  /\ phase \in {"waiting", "streaming"}
  /\ ClientWrites([type |-> "BYE"])
  /\ phase' = "gone"
  /\ UNCHANGED <<known, owes, acked>>

PlaneNext ==
  \/ HostReads \/ Drive
  \/ ClientHello \/ ClientReads \/ ClientAcks \/ ClientAsks \/ ClientLeaves

(* The host's task is scheduled by tokio and its writes complete because   *)
(* the client reads; a conforming client reads and acknowledges.  Nothing  *)
(* obliges it to ask for anything, nor to leave.                           *)
PlaneFairness ==
  /\ WF_planeVars(HostReads) /\ WF_planeVars(Drive)
  /\ WF_planeVars(ClientReads) /\ SF_planeVars(ClientAcks)

PlaneSpec == PlaneInit /\ [][PlaneNext]_planeVars /\ PlaneFairness

-----------------------------------------------------------------------------
(* Properties.                                                             *)

(* Types of what this module adds to HostSession.                          *)
PlaneTypeOK ==
  /\ toHost \in Seq(Messages) /\ Len(toHost) <= QueueBound
  /\ toClient \in Seq(Outputs) /\ Len(toClient) <= QueueBound
  /\ active \subseteq Size
  /\ phase \in {"new", "waiting", "streaming", "gone", "refused"}
  /\ known \subseteq [gen : Nat, size : Size]
  /\ owes \in Seq([gen : Nat, size : Size])
  /\ acked \subseteq Size

(* The session never accuses a client that follows the protocol: whatever  *)
(* is in flight when a VIEWPORT, a CONFIG or an ACK is handled, only a BYE *)
(* closes it (session.rs, protocol_violation and on_reconfig_ack).         *)
NoFalseAccusation == state = "Closed" => phase = "gone"

(* The media thread is only ever told a size the client has acknowledged:  *)
(* "media continues at the old resolution" until the ACK (session.rs,      *)
(* pending_generation).                                                    *)
ActiveIsAcked == active \subseteq acked

(* When nothing is in flight the two ends agree on the generation and on   *)
(* the size, and the media thread has been told that size: no VIEWPORT,    *)
(* however it raced, leaves the ends apart.                                *)
Quiet == toHost = <<>> /\ toClient = <<>> /\ out = <<>> /\ owes = <<>>

QuietAgreement ==
  Quiet /\ phase = "streaming" =>
    /\ pending = NoGen
    /\ known = {[gen |-> generation, size |-> size]}
    /\ active = {size}

(* No negotiation stays half done: a client that said HELLO gets to stream, *)
(* and the gate that ignores every further VIEWPORT opens again, unless the *)
(* client leaves.                                                           *)
HandshakeCompletes ==
  phase = "waiting" ~> phase \in {"streaming", "gone"}

ReconfigurationCompletes ==
  pending # NoGen ~> pending = NoGen \/ phase = "gone"

NegotiationsComplete == HandshakeCompletes /\ ReconfigurationCompletes
=============================================================================
