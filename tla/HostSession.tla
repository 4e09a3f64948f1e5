----------------------------- MODULE HostSession -----------------------------
(***************************************************************************)
(* The host side of one Loom session: the sans-io state machine of         *)
(* loomd/src/session.rs.  One decoded control frame goes in, a list of     *)
(* outputs for the async driver comes out.                                 *)
(*                                                                         *)
(* `out` is the Vec<Output> returned by the latest on_frame: a driver      *)
(* (ControlPlane, Host) consumes it from the front before it reads again.  *)
(***************************************************************************)
EXTENDS Integers, Sequences

CONSTANTS
  MinDim,         \* MIN_DIM, the floor of a VIEWPORT clamp
  HostMax,        \* [w, h]: HOST_MAX_WIDTH, HOST_MAX_HEIGHT
  U64,            \* 2^64, the modulus of the `as u64` casts
  U16,            \* 2^16, the modulus of the `as u16` cast
  InitSize,       \* [w, h] of the configured primary stream
  HasExtras,      \* whether the host has streams beyond the primary
  Dims,           \* the integers a peer puts in a width or a height
  StreamKeys,     \* the integers a peer puts in IDR_REQUEST key 1
  MaxGeneration   \* bound on CONFIG generations in a behaviour

ASSUME HostSessionAssumption ==
  /\ U64 \in Nat \ {0} /\ U16 \in Nat \ {0}
  /\ MinDim \in Nat \ {0} /\ MinDim % 2 = 0
  /\ HostMax \in [w : MinDim .. U64 - 1, h : MinDim .. U64 - 1]
  /\ InitSize \in [w : 0 .. U64 - 1, h : 0 .. U64 - 1]
  /\ HasExtras \in BOOLEAN
  /\ Dims \subseteq Int /\ StreamKeys \subseteq Int
  /\ MaxGeneration \in Nat \ {0}

VARIABLES
  state,        \* State: WaitHello, WaitConfigAck, Streaming, Closed
  size,         \* params.width, params.height
  generation,   \* generation of the last CONFIG, 0 before HELLO
  clientMax,    \* client_max_width, client_max_height
  pending,      \* pending_generation, NoGen for None
  multiActive,  \* multi_active
  out           \* outputs of the last on_frame still to be driven

sessionVars == <<state, size, generation, clientMax, pending, multiActive>>
vars == <<sessionVars, out>>

States == {"WaitHello", "WaitConfigAck", "Streaming", "Closed"}
Size == [w : 0 .. U64 - 1, h : 0 .. U64 - 1]
NoGen == 0

-----------------------------------------------------------------------------
(* What a peer may put in a frame.  An optional value is a set with at most *)
(* one element.  A generation that is absent can equal no generation, like  *)
(* a wrong one: -1 stands for it.                                           *)

OptionalPair == {{}} \cup {{p} : p \in [w : Dims, h : Dims]}

Hellos == [type : {"HELLO"}, version1 : BOOLEAN, hevc : BOOLEAN,
           max : OptionalPair, multi : BOOLEAN]
ConfigAcks == [type : {"CONFIG_ACK"}, gen : -1 .. MaxGeneration + 1]
Viewports == [type : {"VIEWPORT"}, req : OptionalPair]
IdrRequests == [type : {"IDR_REQUEST"}, stream : StreamKeys]
\* "WELCOME" stands for every known type a client must not send.
Plain == [type : {"BYE", "CLOCK_PING", "STATS", "INPUT", "WELCOME", "unknown"}]
Messages == Hellos \cup ConfigAcks \cup Viewports \cup IdrRequests \cup Plain

-----------------------------------------------------------------------------
(* Outputs.                                                                *)

Codes == {"NONE", "VERSION_UNSUPPORTED", "NO_COMMON_CODEC", "PROTOCOL_VIOLATION"}

Send(msg) == [kind |-> "Send", msg |-> msg]
SendConfig(g, s, m) == [kind |-> "Send", msg |-> "CONFIG", gen |-> g, size |-> s, multi |-> m]
SendWelcome(m) == [kind |-> "Send", msg |-> "WELCOME", multi |-> m]
SendError(code) == [kind |-> "Send", msg |-> "ERROR", code |-> code]
StartMedia(m) == [kind |-> "StartMedia", multi |-> m]
RequestIdr(stream) == [kind |-> "RequestIdr", stream |-> stream]
Reconfigure(s) == [kind |-> "Reconfigure", size |-> s]
ClockPong == [kind |-> "ClockPong"]
Stats == [kind |-> "Stats"]
Close(code) == [kind |-> "Close", code |-> code]

Outputs ==
  [kind : {"Send"}, msg : {"START"}]
    \cup [kind : {"Send"}, msg : {"WELCOME"}, multi : BOOLEAN]
    \cup [kind : {"Send"}, msg : {"CONFIG"}, gen : Nat, size : Size, multi : BOOLEAN]
    \cup [kind : {"Send"}, msg : {"ERROR"}, code : Codes]
    \cup [kind : {"StartMedia"}, multi : BOOLEAN]
    \cup [kind : {"RequestIdr"}, stream : 0 .. U16 - 1]
    \cup [kind : {"Reconfigure"}, size : Size]
    \cup [kind : {"ClockPong", "Stats"}]
    \cup [kind : {"Close"}, code : Codes]

-----------------------------------------------------------------------------
(* Arithmetic of the casts and of clamp_viewport.                          *)

UnwrappedAsU64(p) == p   \* a faulty cast, for the mutant runs

AsU64(p) == [w |-> p.w % U64, h |-> p.h % U64]

Smaller(a, b) == IF a <= b THEN a ELSE b
Larger(a, b) == IF a >= b THEN a ELSE b

\* A faulty clamp, for the mutant runs.
ClampDimToClient(x, hostMax, clientDim) ==
  LET clamped == Smaller(Larger(x, MinDim), Larger(clientDim, MinDim))
  IN  clamped - (clamped % 2)

ClampDim(x, hostMax, clientDim) ==
  LET ceiling == Larger(Smaller(hostMax, clientDim), MinDim)
      clamped == Smaller(Larger(x, MinDim), ceiling)
  IN  clamped - (clamped % 2)

ClampViewport(p, max) ==
  [w |-> ClampDim(p.w, HostMax.w, max.w), h |-> ClampDim(p.h, HostMax.h, max.h)]

-----------------------------------------------------------------------------
Init ==
  /\ state = "WaitHello"
  /\ size = InitSize
  /\ generation = 0
  /\ clientMax = InitSize
  /\ pending = NoGen
  /\ multiActive = FALSE
  /\ out = <<>>

(* HostSession::new, for a driver that makes one session after another.    *)
NewSession ==
  /\ state' = "WaitHello" /\ size' = InitSize
  /\ generation' = 0 /\ clientMax' = InitSize /\ pending' = NoGen
  /\ multiActive' = FALSE /\ out' = <<>>

(* fatal: ERROR followed by the matching close; the session is over.       *)
Fatal(code) ==
  /\ state' = "Closed"
  /\ out' = <<SendError(code), Close(code)>>
  /\ UNCHANGED <<size, generation, clientMax, pending, multiActive>>

ProtocolViolation == Fatal("PROTOCOL_VIOLATION")

(* The frame changes nothing; the driver gets outputs o.                   *)
Answer(o) == out' = o /\ UNCHANGED sessionVars

(* on_frame, before the dispatch on the phase.                             *)
Unheeded(m) ==
  /\ m.type = "unknown" \/ state = "Closed"
  /\ Answer(<<>>)

Heeded(m) == m.type # "unknown" /\ state # "Closed"

OnBye(m) ==
  /\ Heeded(m) /\ m.type = "BYE"
  /\ state' = "Closed"
  /\ out' = <<Close("NONE")>>
  /\ UNCHANGED <<size, generation, clientMax, pending, multiActive>>

OnClockPing(m) ==
  /\ Heeded(m) /\ m.type = "CLOCK_PING"
  /\ Answer(<<ClockPong>>)

Dispatched(m, phase) ==
  /\ Heeded(m) /\ m.type \notin {"BYE", "CLOCK_PING"}
  /\ state = phase

(* on_hello.                                                               *)
RefuseHello(m) ==
  /\ Dispatched(m, "WaitHello")
  /\ \/ m.type # "HELLO" /\ ProtocolViolation
     \/ m.type = "HELLO" /\ ~m.version1 /\ Fatal("VERSION_UNSUPPORTED")
     \/ m.type = "HELLO" /\ m.version1 /\ ~m.hevc /\ Fatal("NO_COMMON_CODEC")

AcceptHello(m) ==
  /\ Dispatched(m, "WaitHello")
  /\ m.type = "HELLO" /\ m.version1 /\ m.hevc
  /\ clientMax' \in IF m.max = {} THEN {clientMax} ELSE {AsU64(p) : p \in m.max}
  /\ multiActive' = (m.multi /\ HasExtras)
  /\ generation' = 1
  /\ state' = "WaitConfigAck"
  /\ out' = <<SendWelcome(multiActive'), SendConfig(1, size, multiActive')>>
  /\ UNCHANGED <<size, pending>>

(* on_config_ack.                                                          *)
IsAckOf(m, g) == m.type = "CONFIG_ACK" /\ m.gen = g

RefuseConfigAck(m) ==
  /\ Dispatched(m, "WaitConfigAck")
  /\ ~IsAckOf(m, generation)
  /\ ProtocolViolation

\* Faulty: media starts and the client is not told.
AcceptConfigAckSilently(m) ==
  /\ Dispatched(m, "WaitConfigAck")
  /\ IsAckOf(m, generation)
  /\ state' = "Streaming"
  /\ out' = <<StartMedia(multiActive)>>
  /\ UNCHANGED <<size, generation, clientMax, pending, multiActive>>

AcceptConfigAck(m) ==
  /\ Dispatched(m, "WaitConfigAck")
  /\ IsAckOf(m, generation)
  /\ state' = "Streaming"
  /\ out' = <<Send("START"), StartMedia(multiActive)>>
  /\ UNCHANGED <<size, generation, clientMax, pending, multiActive>>

(* on_streaming.                                                           *)
OnIdrRequest(m) ==
  /\ Dispatched(m, "Streaming") /\ m.type = "IDR_REQUEST"
  /\ Answer(<<RequestIdr(m.stream % U16)>>)

OnStats(m) ==
  /\ Dispatched(m, "Streaming") /\ m.type = "STATS"
  /\ Answer(<<Stats>>)

OnInput(m) ==
  /\ Dispatched(m, "Streaming") /\ m.type = "INPUT"
  /\ Answer(<<>>)

(* on_viewport: one reconfiguration at a time, and only to a new size.     *)
IsNewSizeAnyTime(p) == ClampViewport(AsU64(p), clientMax) # size   \* faulty

IsNewSize(p) == pending = NoGen /\ ClampViewport(AsU64(p), clientMax) # size

IgnoreViewport(m) ==
  /\ Dispatched(m, "Streaming") /\ m.type = "VIEWPORT"
  /\ \A p \in m.req : ~IsNewSize(p)
  /\ Answer(<<>>)

\* Faulty: the media thread is told at once, not at the ACK.
AcceptViewportEagerly(m) ==
  /\ Dispatched(m, "Streaming") /\ m.type = "VIEWPORT"
  /\ generation < MaxGeneration
  /\ \E p \in m.req :
       /\ IsNewSize(p)
       /\ size' = ClampViewport(AsU64(p), clientMax)
  /\ generation' = generation + 1
  /\ pending' = generation'
  /\ out' = <<SendConfig(generation', size', multiActive), Reconfigure(size')>>
  /\ UNCHANGED <<state, clientMax, multiActive>>

AcceptViewport(m) ==
  /\ Dispatched(m, "Streaming") /\ m.type = "VIEWPORT"
  /\ generation < MaxGeneration
  /\ \E p \in m.req :
       /\ IsNewSize(p)
       /\ size' = ClampViewport(AsU64(p), clientMax)
  /\ generation' = generation + 1
  /\ pending' = generation'
  /\ out' = <<SendConfig(generation', size', multiActive)>>
  /\ UNCHANGED <<state, clientMax, multiActive>>

(* on_reconfig_ack.                                                        *)
\* Faulty: the gate stays closed.
AcceptReconfigAckKeepingGate(m) ==
  /\ Dispatched(m, "Streaming")
  /\ pending # NoGen /\ IsAckOf(m, pending)
  /\ Answer(<<Reconfigure(size)>>)

AcceptReconfigAck(m) ==
  /\ Dispatched(m, "Streaming")
  /\ pending # NoGen /\ IsAckOf(m, pending)
  /\ pending' = NoGen
  /\ out' = <<Reconfigure(size)>>
  /\ UNCHANGED <<state, size, generation, clientMax, multiActive>>

RefuseReconfigAck(m) ==
  /\ Dispatched(m, "Streaming") /\ m.type = "CONFIG_ACK"
  /\ pending = NoGen \/ ~IsAckOf(m, pending)
  /\ ProtocolViolation

(* Every other message is out of place while streaming.                    *)
RefuseStreaming(m) ==
  /\ Dispatched(m, "Streaming")
  /\ m.type \notin {"IDR_REQUEST", "STATS", "VIEWPORT", "CONFIG_ACK", "INPUT"}
  /\ ProtocolViolation

OnFrame(m) ==
  \/ Unheeded(m) \/ OnBye(m) \/ OnClockPing(m)
  \/ RefuseHello(m) \/ AcceptHello(m)
  \/ RefuseConfigAck(m) \/ AcceptConfigAck(m)
  \/ OnIdrRequest(m) \/ OnStats(m) \/ OnInput(m)
  \/ IgnoreViewport(m) \/ AcceptViewport(m)
  \/ AcceptReconfigAck(m) \/ RefuseReconfigAck(m)
  \/ RefuseStreaming(m)

Next == \E m \in Messages : OnFrame(m)

Spec == Init /\ [][Next]_vars

-----------------------------------------------------------------------------
(* Properties.                                                             *)

(* Every field stays in its domain, whatever integers the peer sends: the  *)
(* casts of on_hello and on_viewport wrap, they never go negative.         *)
TypeOK ==
  /\ state \in States
  /\ size \in Size /\ clientMax \in Size
  /\ generation \in Nat /\ pending \in Nat
  /\ multiActive \in BOOLEAN
  /\ out \in Seq(Outputs)

(* The only CONFIG_ACK a streaming session waits for is that of the newest *)
(* CONFIG, and it waits for one only after a VIEWPORT: the gate of         *)
(* on_viewport and on_reconfig_ack never holds a superseded generation.    *)
PendingIsNewest ==
  /\ pending # NoGen => /\ pending = generation
                        /\ generation >= 2
                        /\ state \in {"Streaming", "Closed"}
  /\ state = "WaitHello" => generation = 0
  /\ state \in {"WaitConfigAck", "Streaming"} => generation >= 1

(* The driver ends the connection on Close and the session refuses frames  *)
(* once Closed: the two must agree, and Close is the last output.          *)
CloseMeansClosed ==
  \A i \in 1 .. Len(out) :
    out[i].kind = "Close" => state = "Closed" /\ i = Len(out)

(* After a VIEWPORT the announced size is one the encoder accepts: even    *)
(* for 4:2:0, at least MIN_DIM and at most the host's ceiling.             *)
Encodable(s) ==
  /\ s.w % 2 = 0 /\ s.w \in MinDim .. HostMax.w
  /\ s.h % 2 = 0 /\ s.h \in MinDim .. HostMax.h

ReconfiguredSizeEncodable == generation >= 2 => Encodable(size)

(* Size and generation change together, one CONFIG announces both in the   *)
(* same call, and never while the ACK of an earlier CONFIG is awaited: so  *)
(* a generation names one size, and the size applied at the ACK is the one *)
(* that was announced.                                                     *)
ConfigNamesSize ==
  [][size' # size \/ generation' # generation =>
       /\ pending = NoGen /\ state # "WaitConfigAck"
       /\ generation' = generation + 1
       /\ out'[Len(out')] = SendConfig(generation', size', multiActive')]_vars

(* The constant's comment: "A requested size is clamped to this and to the *)
(* client's HELLO max before reconfiguring."                               *)
WithinClientMax ==
  pending # NoGen => size.w <= clientMax.w /\ size.h <= clientMax.h

=============================================================================
