------------------------- MODULE ControlPlaneProofs -------------------------
(***************************************************************************)
(* What ControlPlane promises for any client that follows the protocol,    *)
(* any sizes it asks for and queues of any length.                         *)
(*                                                                         *)
(* The argument: at most one CONFIG is unacknowledged at any time, it is   *)
(* the newest, and it is in exactly one of four places (the host's         *)
(* outputs, the stream to the client, the client's hands, and, as an ACK,  *)
(* the stream to the host).  The session waits for an ACK exactly while it *)
(* is in one of them.  Everything else follows.                            *)
(***************************************************************************)
EXTENDS ControlPlane, HostSessionProofs, SequenceTheorems

(* The CONFIG in a queue of outputs.                                       *)
IsConfig(o) == o.kind = "Send" /\ o.msg = "CONFIG"
NoConfig(q) == \A i \in 1 .. Len(q) : ~IsConfig(q[i])
OneConfig(q, g, s) ==
  \E i \in 1 .. Len(q) :
    /\ IsConfig(q[i]) /\ q[i].gen = g /\ q[i].size = s
    /\ \A j \in 1 .. Len(q) : j # i => ~IsConfig(q[j])

(* The ACK in a queue of frames.                                           *)
IsAck(m) == m.type = "CONFIG_ACK"
NoAck(q) == \A i \in 1 .. Len(q) : ~IsAck(q[i])
OneAck(q, g) ==
  \E i \in 1 .. Len(q) :
    /\ IsAck(q[i]) /\ q[i].gen = g
    /\ \A j \in 1 .. Len(q) : j # i => ~IsAck(q[j])

-----------------------------------------------------------------------------
(* The four places of the CONFIG that is awaited.                          *)
Announced == [gen |-> generation, size |-> size]

AtHost ==
  /\ OneConfig(out, generation, size) /\ NoConfig(toClient) /\ owes = <<>> /\ NoAck(toHost)
OnItsWay ==
  /\ NoConfig(out) /\ OneConfig(toClient, generation, size) /\ owes = <<>> /\ NoAck(toHost)
Owed ==
  /\ NoConfig(out) /\ NoConfig(toClient) /\ owes = <<Announced>> /\ NoAck(toHost)
  /\ known = {Announced}
OnItsWayBack ==
  /\ NoConfig(out) /\ NoConfig(toClient) /\ owes = <<>> /\ OneAck(toHost, generation)
  /\ known = {Announced} /\ size \in acked
Nowhere ==
  /\ NoConfig(out) /\ NoConfig(toClient) /\ owes = <<>> /\ NoAck(toHost)

Awaiting == state = "WaitConfigAck" \/ (state = "Streaming" /\ pending # NoGen)

Accounted ==
  \/ state = "Closed"
  \/ state = "WaitHello" /\ Nowhere
  \/ Awaiting /\ (AtHost \/ OnItsWay \/ Owed \/ OnItsWayBack)
  \/ state = "Streaming" /\ pending = NoGen /\ Nowhere /\ known = {Announced}

(* What the client is waiting for, and what it may have written.           *)
Phases ==
  /\ phase = "new" => state = "WaitHello" /\ toHost = <<>>
  /\ phase # "refused"
  /\ phase = "streaming" => state = "Streaming"
  /\ NoFalseAccusation

Expected(m) ==
  \/ m.type = "BYE" /\ phase = "gone"
  \/ m.type = "CONFIG_ACK"                    \* which one, Accounted says
  \/ m \in ClientRequests /\ state = "Streaming"

ClientWrote ==
  \/ state = "Closed"
  \/ /\ state = "WaitHello" /\ phase # "new" => toHost # <<>> /\ toHost[1] \in ClientHellos
     /\ \A i \in 1 .. Len(toHost) :
          Expected(toHost[i]) \/ (state = "WaitHello" /\ i = 1)

(* What the host has still to drive, and what that says of the session.    *)
StartIn(q) == \E i \in 1 .. Len(q) : q[i].kind = "Send" /\ q[i].msg = "START"

Driven ==
  \/ out = <<>>
  \/ /\ state = "WaitConfigAck"
     /\ out \in {<<SendWelcome(multiActive), SendConfig(generation, size, multiActive)>>,
                 <<SendConfig(generation, size, multiActive)>>}
  \/ /\ state = "Streaming" /\ pending = NoGen /\ size = InitSize /\ size \in acked
     /\ out \in {<<Send("START"), StartMedia(multiActive)>>, <<StartMedia(multiActive)>>}
  \/ state = "Streaming" /\ pending # NoGen /\ out = <<SendConfig(generation, size, multiActive)>>
  \/ state = "Streaming" /\ pending = NoGen /\ size \in acked /\ out = <<Reconfigure(size)>>
  \/ out \in {<<ClockPong>>, <<Stats>>} \cup {<<RequestIdr(n)>> : n \in 0 .. U16 - 1}
  \/ state = "Closed" /\ out = <<Close("NONE")>>

Told ==
  /\ \A i \in 1 .. Len(toClient) :
       /\ toClient[i].kind \in {"Send", "ClockPong"}
       /\ toClient[i].kind = "Send" => toClient[i].msg # "ERROR"
  /\ StartIn(toClient) => state \in {"Streaming", "Closed"}

(* What the media thread has been told, or is about to be.                 *)
Media ==
  /\ ActiveIsAcked
  /\ state \in {"WaitHello", "WaitConfigAck"} => size = InitSize
  /\ state = "Streaming" /\ pending = NoGen =>
       \/ active = {size}
       \/ out # <<>> /\ Head(out).kind \in {"Send", "StartMedia", "Reconfigure"}

PlaneInv ==
  /\ TypeOK /\ PendingIsNewest /\ PlaneTypeOK /\ generation <= MaxGeneration
  /\ Accounted /\ Phases /\ ClientWrote /\ Driven /\ Told /\ Media

-----------------------------------------------------------------------------
(* Queues: what a write at the end and a read at the front do to them.     *)

LEMMA ConfigWritten ==
  ASSUME NEW S, NEW q \in Seq(S), NEW o \in S
  PROVE  /\ NoConfig(q) /\ ~IsConfig(o) => NoConfig(Append(q, o))
         /\ \A g, s : OneConfig(q, g, s) /\ ~IsConfig(o) => OneConfig(Append(q, o), g, s)
         /\ NoConfig(q) /\ IsConfig(o) => OneConfig(Append(q, o), o.gen, o.size)
<1> DEFINE r == Append(q, o)
<1>1. /\ Len(q) \in Nat /\ Len(r) = Len(q) + 1 /\ r[Len(r)] = o
      /\ \A i \in 1 .. Len(q) : r[i] = q[i]
  BY AppendProperties, LenProperties
<1> HIDE DEF r
<1>2. NoConfig(q) /\ ~IsConfig(o) => NoConfig(r)
  BY <1>1 DEF NoConfig
<1>3. ASSUME NEW g, NEW s, OneConfig(q, g, s), ~IsConfig(o) PROVE OneConfig(r, g, s)
  <2>1. PICK i \in 1 .. Len(q) : /\ IsConfig(q[i]) /\ q[i].gen = g /\ q[i].size = s
                                 /\ \A j \in 1 .. Len(q) : j # i => ~IsConfig(q[j])
    BY <1>3 DEF OneConfig
  <2>2. i \in 1 .. Len(r) /\ r[i] = q[i]
    BY <1>1
  <2>3. \A j \in 1 .. Len(r) : j # i => ~IsConfig(r[j])
    BY <1>1, <1>3, <2>1
  <2> QED
    BY <2>1, <2>2, <2>3 DEF OneConfig
<1>4. ASSUME NoConfig(q), IsConfig(o) PROVE OneConfig(r, o.gen, o.size)
  <2>1. \A j \in 1 .. Len(r) : j # Len(r) => ~IsConfig(r[j])
    BY <1>1, <1>4 DEF NoConfig
  <2> QED
    BY <1>1, <1>4, <2>1 DEF OneConfig
<1> QED
  BY <1>2, <1>3, <1>4 DEF r

LEMMA ConfigRead ==
  ASSUME NEW S, NEW q \in Seq(S), q # <<>>
  PROVE  /\ NoConfig(q) => NoConfig(Tail(q)) /\ ~IsConfig(Head(q))
         /\ \A g, s : OneConfig(q, g, s) /\ ~IsConfig(Head(q)) => OneConfig(Tail(q), g, s)
         /\ \A g, s : OneConfig(q, g, s) /\ IsConfig(Head(q)) =>
              NoConfig(Tail(q)) /\ Head(q).gen = g /\ Head(q).size = s
<1> DEFINE r == Tail(q)
<1>1. /\ Len(q) \in Nat \ {0} /\ Len(r) = Len(q) - 1
      /\ \A i \in 1 .. Len(r) : r[i] = q[i + 1]
  BY HeadTailProperties, LenProperties, EmptySeq
<1>2. Head(q) = q[1]
  OBVIOUS
<1> HIDE DEF r
<1>3. NoConfig(q) => NoConfig(r) /\ ~IsConfig(Head(q))
  BY <1>1, <1>2 DEF NoConfig
<1>4. ASSUME NEW g, NEW s, OneConfig(q, g, s)
      PROVE  /\ ~IsConfig(Head(q)) => OneConfig(r, g, s)
             /\ IsConfig(Head(q)) => NoConfig(r) /\ Head(q).gen = g /\ Head(q).size = s
  <2>1. PICK i \in 1 .. Len(q) : /\ IsConfig(q[i]) /\ q[i].gen = g /\ q[i].size = s
                                 /\ \A j \in 1 .. Len(q) : j # i => ~IsConfig(q[j])
    BY <1>4 DEF OneConfig
  <2>2. CASE i = 1
    BY <1>1, <1>2, <2>1, <2>2 DEF NoConfig
  <2>3. CASE i # 1
    <3>1. i - 1 \in 1 .. Len(r) /\ r[i - 1] = q[i]
      BY <1>1, <2>3
    <3>2. \A j \in 1 .. Len(r) : j # i - 1 => ~IsConfig(r[j])
      BY <1>1, <2>1
    <3>3. ~IsConfig(Head(q))
      BY <1>1, <1>2, <2>1, <2>3
    <3> QED
      BY <2>1, <3>1, <3>2, <3>3 DEF OneConfig
  <2> QED
    BY <2>2, <2>3
<1> QED
  BY <1>3, <1>4 DEF r

LEMMA AckWritten ==
  ASSUME NEW S, NEW q \in Seq(S), NEW m \in S
  PROVE  /\ NoAck(q) /\ ~IsAck(m) => NoAck(Append(q, m))
         /\ \A g : OneAck(q, g) /\ ~IsAck(m) => OneAck(Append(q, m), g)
         /\ NoAck(q) /\ IsAck(m) => OneAck(Append(q, m), m.gen)
<1> DEFINE r == Append(q, m)
<1>1. /\ Len(q) \in Nat /\ Len(r) = Len(q) + 1 /\ r[Len(r)] = m
      /\ \A i \in 1 .. Len(q) : r[i] = q[i]
  BY AppendProperties, LenProperties
<1> HIDE DEF r
<1>2. NoAck(q) /\ ~IsAck(m) => NoAck(r)
  BY <1>1 DEF NoAck
<1>3. ASSUME NEW g, OneAck(q, g), ~IsAck(m) PROVE OneAck(r, g)
  <2>1. PICK i \in 1 .. Len(q) : /\ IsAck(q[i]) /\ q[i].gen = g
                                 /\ \A j \in 1 .. Len(q) : j # i => ~IsAck(q[j])
    BY <1>3 DEF OneAck
  <2>2. i \in 1 .. Len(r) /\ r[i] = q[i]
    BY <1>1
  <2>3. \A j \in 1 .. Len(r) : j # i => ~IsAck(r[j])
    BY <1>1, <1>3, <2>1
  <2> QED
    BY <2>1, <2>2, <2>3 DEF OneAck
<1>4. ASSUME NoAck(q), IsAck(m) PROVE OneAck(r, m.gen)
  <2>1. \A j \in 1 .. Len(r) : j # Len(r) => ~IsAck(r[j])
    BY <1>1, <1>4 DEF NoAck
  <2> QED
    BY <1>1, <1>4, <2>1 DEF OneAck
<1> QED
  BY <1>2, <1>3, <1>4 DEF r

LEMMA AckRead ==
  ASSUME NEW S, NEW q \in Seq(S), q # <<>>
  PROVE  /\ NoAck(q) => NoAck(Tail(q)) /\ ~IsAck(Head(q))
         /\ \A g : OneAck(q, g) /\ ~IsAck(Head(q)) => OneAck(Tail(q), g)
         /\ \A g : OneAck(q, g) /\ IsAck(Head(q)) => NoAck(Tail(q)) /\ Head(q).gen = g
<1> DEFINE r == Tail(q)
<1>1. /\ Len(q) \in Nat \ {0} /\ Len(r) = Len(q) - 1
      /\ \A i \in 1 .. Len(r) : r[i] = q[i + 1]
  BY HeadTailProperties, LenProperties, EmptySeq
<1>2. Head(q) = q[1]
  OBVIOUS
<1> HIDE DEF r
<1>3. NoAck(q) => NoAck(r) /\ ~IsAck(Head(q))
  BY <1>1, <1>2 DEF NoAck
<1>4. ASSUME NEW g, OneAck(q, g)
      PROVE  /\ ~IsAck(Head(q)) => OneAck(r, g)
             /\ IsAck(Head(q)) => NoAck(r) /\ Head(q).gen = g
  <2>1. PICK i \in 1 .. Len(q) : /\ IsAck(q[i]) /\ q[i].gen = g
                                 /\ \A j \in 1 .. Len(q) : j # i => ~IsAck(q[j])
    BY <1>4 DEF OneAck
  <2>2. CASE i = 1
    BY <1>1, <1>2, <2>1, <2>2 DEF NoAck
  <2>3. CASE i # 1
    <3>1. i - 1 \in 1 .. Len(r) /\ r[i - 1] = q[i]
      BY <1>1, <2>3
    <3>2. \A j \in 1 .. Len(r) : j # i - 1 => ~IsAck(r[j])
      BY <1>1, <2>1
    <3>3. ~IsAck(Head(q))
      BY <1>1, <1>2, <2>1, <2>3
    <3> QED
      BY <2>1, <3>1, <3>2, <3>3 DEF OneAck
  <2> QED
    BY <2>2, <2>3
<1> QED
  BY <1>3, <1>4 DEF r

-----------------------------------------------------------------------------
LEMMA InitInv == PlaneInit => PlaneInv
<1> SUFFICES ASSUME PlaneInit PROVE PlaneInv
  OBVIOUS
<1>1. TypeOK /\ PendingIsNewest /\ generation <= MaxGeneration
  BY InitTypeOK, HostSessionAssumption DEF PlaneInit, Init, PendingIsNewest, NoGen
<1>2. PlaneTypeOK
  BY ControlPlaneAssumption DEF PlaneInit, PlaneTypeOK
<1>3. Accounted /\ Phases /\ ClientWrote
  BY DEF PlaneInit, Init, Accounted, Nowhere, NoConfig, NoAck, Phases, NoFalseAccusation,
         ClientWrote
<1>4. Driven /\ Told /\ Media
  BY DEF PlaneInit, Init, Driven, Told, StartIn, Media, ActiveIsAcked
<1> QED
  BY <1>1, <1>2, <1>3, <1>4 DEF PlaneInv

-----------------------------------------------------------------------------
(* What the host can find in its queue.  Of the fifteen handlers a client  *)
(* that follows the protocol meets these, and none that is fatal.          *)
HelloHandled(m) == AcceptHello(m) /\ m \in ClientHellos
AckHandled(m) == OnItsWayBack /\ (AcceptConfigAck(m) \/ AcceptReconfigAck(m))
RequestHandled(m) ==
  /\ m \in ClientRequests /\ state = "Streaming"
  /\ \/ OnClockPing(m) \/ OnIdrRequest(m) \/ OnStats(m) \/ OnInput(m)
     \/ IgnoreViewport(m) \/ AcceptViewport(m)
ByeHandled(m) == OnBye(m) /\ phase = "gone"

LEMMA HeadWritten ==
  ASSUME PlaneInv, toHost # <<>>, state # "Closed"
  PROVE  /\ Head(toHost) \in Messages
         /\ Tail(toHost) \in Seq(Messages) /\ Len(Tail(toHost)) = Len(toHost) - 1
         /\ \A i \in 1 .. Len(Tail(toHost)) : Expected(Tail(toHost)[i])
         /\ IF state = "WaitHello" THEN Head(toHost) \in ClientHellos
                                   ELSE Expected(Head(toHost))
<1>1. toHost \in Seq(Messages) /\ ClientWrote
  BY DEF PlaneInv, PlaneTypeOK
<1>2. /\ Head(toHost) \in Messages /\ Tail(toHost) \in Seq(Messages)
      /\ Len(toHost) \in Nat \ {0} /\ Len(Tail(toHost)) = Len(toHost) - 1
      /\ \A i \in 1 .. Len(Tail(toHost)) : Tail(toHost)[i] = toHost[i + 1]
  BY <1>1, HeadTailProperties, LenProperties, EmptySeq
<1>3. Head(toHost) = toHost[1]
  OBVIOUS
<1>4. \A i \in 1 .. Len(Tail(toHost)) : Expected(Tail(toHost)[i])
  BY <1>1, <1>2 DEF ClientWrote
<1>5. IF state = "WaitHello" THEN Head(toHost) \in ClientHellos ELSE Expected(Head(toHost))
  BY <1>1, <1>2, <1>3 DEF ClientWrote, PlaneInv, Phases
<1> QED
  BY <1>2, <1>4, <1>5

(* An ACK is in the host's queue only as the one that is awaited.          *)
LEMMA HeadIsAck ==
  ASSUME PlaneInv, toHost # <<>>, state # "Closed", IsAck(Head(toHost))
  PROVE  /\ Awaiting /\ OnItsWayBack /\ Head(toHost).gen = generation
         /\ NoAck(Tail(toHost))
<1>1. ~NoAck(toHost)
  BY AckRead DEF PlaneInv, PlaneTypeOK
<1>2. Awaiting /\ OnItsWayBack
  BY <1>1 DEF PlaneInv, Accounted, AtHost, OnItsWay, Owed, Nowhere
<1> QED
  BY <1>2, AckRead DEF OnItsWayBack, PlaneInv, PlaneTypeOK

(* Which handlers a heeded frame can reach, by its type and the phase of   *)
(* the session: the dispatch of on_frame.                                  *)
LEMMA Dispatch ==
  ASSUME NEW m, OnFrame(m), Heeded(m)
  PROVE  /\ m.type = "BYE" => OnBye(m)
         /\ m.type = "CLOCK_PING" => OnClockPing(m)
         /\ m.type \notin {"BYE", "CLOCK_PING"} =>
              /\ state = "WaitHello" => RefuseHello(m) \/ AcceptHello(m)
              /\ state = "WaitConfigAck" => RefuseConfigAck(m) \/ AcceptConfigAck(m)
              /\ state = "Streaming" =>
                   \/ OnIdrRequest(m) \/ OnStats(m) \/ OnInput(m) \/ IgnoreViewport(m)
                   \/ AcceptViewport(m) \/ AcceptReconfigAck(m) \/ RefuseReconfigAck(m)
                   \/ RefuseStreaming(m)
<1>1. ~Unheeded(m)
  BY DEF Unheeded, Heeded
<1>2. OnBye(m) => m.type = "BYE"
  BY DEF OnBye
<1>3. OnClockPing(m) => m.type = "CLOCK_PING"
  BY DEF OnClockPing
<1>4. RefuseHello(m) \/ AcceptHello(m) => Dispatched(m, "WaitHello")
  BY DEF RefuseHello, AcceptHello
<1>5. RefuseConfigAck(m) \/ AcceptConfigAck(m) => Dispatched(m, "WaitConfigAck")
  BY DEF RefuseConfigAck, AcceptConfigAck
<1>6. \/ OnIdrRequest(m) \/ OnStats(m) \/ OnInput(m) \/ IgnoreViewport(m)
      \/ AcceptViewport(m) \/ AcceptReconfigAck(m) \/ RefuseReconfigAck(m)
      \/ RefuseStreaming(m)
      => Dispatched(m, "Streaming")
  BY DEF OnIdrRequest, OnStats, OnInput, IgnoreViewport, AcceptViewport,
         AcceptReconfigAck, RefuseReconfigAck, RefuseStreaming
<1> QED
  BY <1>1, <1>2, <1>3, <1>4, <1>5, <1>6 DEF OnFrame, Dispatched

LEMMA HostHandles ==
  ASSUME PlaneInv, HostReads
  PROVE  \E m \in Messages :
           /\ m = Head(toHost)
           /\ HelloHandled(m) \/ AckHandled(m) \/ RequestHandled(m) \/ ByeHandled(m)
<1>a. toHost # <<>> /\ state # "Closed" /\ state \in States
  BY DEF HostReads, PlaneInv, TypeOK
<1>1. PICK m \in Messages : m = Head(toHost) /\ OnFrame(m)
  BY <1>a, HeadWritten DEF HostReads
<1>0. OnFrame(m) /\ state # "Closed" /\ state \in States
  BY <1>a, <1>1
<1> SUFFICES HelloHandled(m) \/ AckHandled(m) \/ RequestHandled(m) \/ ByeHandled(m)
  BY <1>1
<1>2. CASE state = "WaitHello"
  <2>1. m \in ClientHellos
    BY <1>a, <1>1, <1>2, HeadWritten
  <2>2. m.type = "HELLO" /\ m.version1 /\ m.hevc
    BY <2>1, ControlPlaneAssumption DEF Hellos
  <2>3. RefuseHello(m) \/ AcceptHello(m)
    BY <1>0, <1>2, <2>2, Dispatch DEF Heeded
  <2>4. ~RefuseHello(m)
    BY <2>2 DEF RefuseHello
  <2> QED
    BY <2>1, <2>3, <2>4 DEF HelloHandled
<1>3. CASE state # "WaitHello"
  <2>0. Expected(m)
    BY <1>a, <1>1, <1>3, HeadWritten
  <2>1. CASE m.type = "BYE" /\ phase = "gone"
    BY <1>0, <2>1, Dispatch DEF ByeHandled, Heeded
  <2>2. CASE m.type = "CONFIG_ACK"
    <3>1. Awaiting /\ OnItsWayBack /\ m.gen = generation
      BY <1>a, <1>1, <2>2, HeadIsAck DEF IsAck
    <3>2. state = "Streaming" => pending = generation /\ pending # NoGen
      BY <3>1 DEF Awaiting, PlaneInv, PendingIsNewest
    <3>3. CASE state = "WaitConfigAck"
      BY <1>0, <2>2, <3>1, <3>3, Dispatch DEF AckHandled, Heeded, RefuseConfigAck, IsAckOf
    <3>4. CASE state = "Streaming"
      <4>1. ~(OnIdrRequest(m) \/ OnStats(m) \/ OnInput(m) \/ IgnoreViewport(m)
              \/ AcceptViewport(m) \/ RefuseStreaming(m))
        BY <2>2 DEF OnIdrRequest, OnStats, OnInput, IgnoreViewport, AcceptViewport,
                    RefuseStreaming
      <4>2. ~RefuseReconfigAck(m)
        BY <2>2, <3>1, <3>2, <3>4 DEF RefuseReconfigAck, IsAckOf
      <4> QED
        BY <1>0, <2>2, <3>1, <3>4, <4>1, <4>2, Dispatch DEF AckHandled, Heeded
    <3> QED
      BY <3>1, <3>3, <3>4 DEF Awaiting
  <2>3. CASE m \in ClientRequests /\ state = "Streaming"
    <3>1. m.type \in {"VIEWPORT", "IDR_REQUEST", "STATS", "INPUT", "CLOCK_PING"}
      BY <2>3, ControlPlaneAssumption DEF Viewports, IdrRequests
    <3>2. ~(AcceptReconfigAck(m) \/ RefuseReconfigAck(m))
      BY <3>1 DEF AcceptReconfigAck, RefuseReconfigAck, IsAckOf
    <3>3. m.type # "CLOCK_PING" => ~RefuseStreaming(m)
      BY <3>1 DEF RefuseStreaming
    <3> QED
      BY <1>0, <2>3, <3>1, <3>2, <3>3, Dispatch DEF RequestHandled, Heeded
  <2> QED
    BY <2>0, <2>1, <2>2, <2>3 DEF Expected
<1> QED
  BY <1>2, <1>3

-----------------------------------------------------------------------------
(* The outputs of the handlers, as queues.                                 *)
LEMMA OutputQueues ==
  /\ NoConfig(<<>>) /\ \A g, s : ~OneConfig(<<>>, g, s)
  /\ NoConfig(<<ClockPong>>) /\ NoConfig(<<Stats>>) /\ NoConfig(<<Close("NONE")>>)
  /\ \A n : NoConfig(<<RequestIdr(n)>>)
  /\ \A b : NoConfig(<<Send("START"), StartMedia(b)>>)
  /\ \A s : NoConfig(<<Reconfigure(s)>>)
  /\ \A g, s, b : /\ OneConfig(<<SendConfig(g, s, b)>>, g, s)
                  /\ OneConfig(<<SendWelcome(b), SendConfig(g, s, b)>>, g, s)
<1> USE DEF NoConfig, OneConfig, IsConfig
<1>1. NoConfig(<<>>) /\ \A g, s : ~OneConfig(<<>>, g, s)
  OBVIOUS
<1>2. NoConfig(<<ClockPong>>) /\ NoConfig(<<Stats>>) /\ NoConfig(<<Close("NONE")>>)
  BY DEF ClockPong, Stats, Close
<1>3. \A n : NoConfig(<<RequestIdr(n)>>)
  BY DEF RequestIdr
<1>4. \A b : NoConfig(<<Send("START"), StartMedia(b)>>)
  BY DEF Send, StartMedia
<1>5. \A s : NoConfig(<<Reconfigure(s)>>)
  BY DEF Reconfigure
<1>6. ASSUME NEW g, NEW s, NEW b
      PROVE  /\ OneConfig(<<SendConfig(g, s, b)>>, g, s)
             /\ OneConfig(<<SendWelcome(b), SendConfig(g, s, b)>>, g, s)
  <2> DEFINE config == SendConfig(g, s, b)
             welcome == SendWelcome(b)
  <2>1. /\ IsConfig(config) /\ config.gen = g /\ config.size = s /\ ~IsConfig(welcome)
    BY DEF SendConfig, SendWelcome
  <2> HIDE DEF config, welcome
  <2>2. OneConfig(<<config>>, g, s)
    BY <2>1
  <2>3. OneConfig(<<welcome, config>>, g, s)
    <3>1. 2 \in 1 .. Len(<<welcome, config>>)
      OBVIOUS
    <3>2. \A j \in 1 .. Len(<<welcome, config>>) : j # 2 => ~IsConfig(<<welcome, config>>[j])
      BY <2>1
    <3> QED
      BY <2>1, <3>1, <3>2
  <2> QED
    BY <2>2, <2>3 DEF config, welcome
<1> QED
  BY <1>1, <1>2, <1>3, <1>4, <1>5, <1>6

(* Every handler a request can reach, other than the accepted VIEWPORT,    *)
(* leaves the session as it is and says little.                            *)
Quietly ==
  /\ UNCHANGED sessionVars
  /\ out' \in {<<>>, <<ClockPong>>, <<Stats>>} \cup {<<RequestIdr(n)>> : n \in 0 .. U16 - 1}

LEMMA RequestsAreQuiet ==
  ASSUME NEW m \in Messages, RequestHandled(m)
  PROVE  /\ Quietly \/ AcceptViewport(m)
         /\ ~IsAck(m) /\ m.type # "BYE"
<1>1. m.type \in {"VIEWPORT", "IDR_REQUEST", "STATS", "INPUT", "CLOCK_PING"}
  BY ControlPlaneAssumption DEF RequestHandled, Viewports, IdrRequests
<1>2. OnIdrRequest(m) => Quietly
  <2>1. m.type = "IDR_REQUEST" => m.stream % U16 \in 0 .. U16 - 1
    BY RequestedStream
  <2> QED
    BY <2>1 DEF OnIdrRequest, Answer, Quietly
<1>3. OnClockPing(m) \/ OnStats(m) \/ OnInput(m) \/ IgnoreViewport(m) => Quietly
  BY DEF OnClockPing, OnStats, OnInput, IgnoreViewport, Answer, Quietly
<1> QED
  BY <1>1, <1>2, <1>3 DEF RequestHandled, IsAck

(* The driver takes the first output and leaves the session alone.         *)
LEMMA DriveTakes ==
  ASSUME PlaneInv, Drive
  PROVE  /\ out # <<>> /\ Head(out) \in Outputs /\ Tail(out) \in Seq(Outputs)
         /\ UNCHANGED <<sessionVars, toHost, clientVars>>
         /\ \/ DriveSend
            \/ UNCHANGED toClient /\ out' = Tail(out) /\ ~IsConfig(Head(out))
            \/ UNCHANGED <<toClient, active>> /\ out' = <<>> /\ DriveClose
<1>1. out # <<>>
  BY DEF Drive, DriveSend, DriveStartMedia, DriveReconfigure, DriveQuietly, DriveClose, Driving
<1>2. Head(out) \in Outputs /\ Tail(out) \in Seq(Outputs)
  BY <1>1, HeadTailProperties DEF PlaneInv, TypeOK
<1> QED
  BY <1>1, <1>2 DEF Drive, DriveSend, DriveStartMedia, DriveReconfigure, DriveQuietly,
                    DriveClose, Driving, IsConfig

-----------------------------------------------------------------------------
(* Types.                                                                  *)
LEMMA GenerationStep == PlaneInv /\ [PlaneNext]_planeVars => generation' <= MaxGeneration
<1> SUFFICES ASSUME PlaneInv, [PlaneNext]_planeVars PROVE generation' <= MaxGeneration
  OBVIOUS
<1>1. CASE HostReads
  <2>1. PICK m : OnFrame(m)
    BY <1>1 DEF HostReads
  <2>2. CASE AcceptHello(m)
    BY <2>2, HostSessionAssumption DEF AcceptHello
  <2>3. CASE AcceptViewport(m)
    BY <2>3, HostSessionAssumption DEF AcceptViewport, PlaneInv, TypeOK
  <2>4. CASE ~AcceptHello(m) /\ ~AcceptViewport(m)
    <3>1. UNCHANGED generation
      BY <2>1, <2>4 DEF OnFrame, Unheeded, OnBye, OnClockPing, RefuseHello, RefuseConfigAck,
         AcceptConfigAck, OnIdrRequest, OnStats, OnInput, IgnoreViewport,
         AcceptReconfigAck, RefuseReconfigAck, RefuseStreaming, Answer, Fatal,
         ProtocolViolation, sessionVars
    <3> QED
      BY <3>1 DEF PlaneInv
  <2> QED
    BY <2>2, <2>3, <2>4
<1>2. CASE ~HostReads
  <2>1. UNCHANGED generation
    BY <1>2, DriveTakes DEF PlaneNext, ClientHello, ClientReads, ClientAcks, ClientAsks,
       ClientLeaves, ClientWrites, planeVars, vars, sessionVars
  <2> QED
    BY <2>1 DEF PlaneInv
<1> QED
  BY <1>1, <1>2

LEMMA TypeStep ==
  PlaneInv /\ [PlaneNext]_planeVars => TypeOK' /\ PendingIsNewest' /\ PlaneTypeOK'
<1> SUFFICES ASSUME PlaneInv, [PlaneNext]_planeVars
             PROVE  TypeOK' /\ PendingIsNewest' /\ PlaneTypeOK'
  OBVIOUS
<1>0. TypeOK /\ PendingIsNewest /\ PlaneTypeOK
  BY DEF PlaneInv
<1>1. CASE HostReads
  <2>1. PICK m \in Messages : m = Head(toHost) /\ OnFrame(m)
    BY <1>1, HeadWritten DEF HostReads
  <2>2. TypeOK' /\ PendingIsNewest'
    BY <1>0, <2>1, FrameStepTypeOK, FramePending
  <2>3. Tail(toHost) \in Seq(Messages) /\ Len(Tail(toHost)) <= QueueBound
    BY <1>0, <1>1, HeadWritten, LenProperties, ControlPlaneAssumption DEF HostReads, PlaneTypeOK
  <2> QED
    BY <1>0, <1>1, <2>2, <2>3 DEF HostReads, clientVars, PlaneTypeOK
<1>2. CASE Drive
  <2>1. /\ out # <<>> /\ Head(out) \in Outputs /\ Tail(out) \in Seq(Outputs)
        /\ UNCHANGED <<sessionVars, toHost, clientVars>>
    BY <1>2, DriveTakes
  <2>2. out' \in Seq(Outputs)
    <3>1. out' = Tail(out) \/ out' = <<>>
      BY <1>2, DriveTakes DEF DriveSend
    <3> QED
      BY <2>1, <3>1, OutputTypes
  <2>3. TypeOK' /\ PendingIsNewest'
    BY <1>0, <2>1, <2>2 DEF TypeOK, PendingIsNewest, sessionVars
  <2>4. toClient' \in Seq(Outputs) /\ Len(toClient') <= QueueBound
    <3>1. CASE DriveSend
      BY <1>0, <2>1, <3>1, AppendProperties, LenProperties, ControlPlaneAssumption
         DEF DriveSend, PlaneTypeOK
    <3>2. CASE UNCHANGED toClient
      BY <1>0, <3>2 DEF PlaneTypeOK
    <3> QED
      BY <1>2, <3>1, <3>2, DriveTakes
  <2>5. active' \subseteq Size
    <3>1. InitSize \in Size
      BY HostSessionAssumption DEF Size
    <3>2. Head(out).kind = "Reconfigure" => Head(out).size \in Size
      BY <2>1 DEF Outputs
    <3> QED
      BY <1>0, <1>2, <3>1, <3>2 DEF PlaneTypeOK, Drive, DriveSend, DriveStartMedia,
         DriveReconfigure, DriveQuietly, DriveClose, Driving
  <2> QED
    BY <1>0, <2>1, <2>3, <2>4, <2>5 DEF PlaneTypeOK, clientVars
<1>3. ASSUME NEW m \in Messages, ClientWrites(m)
      PROVE  /\ TypeOK' /\ PendingIsNewest'
             /\ toHost' \in Seq(Messages) /\ Len(toHost') <= QueueBound
             /\ UNCHANGED <<toClient, active>>
  <2>1. TypeOK' /\ PendingIsNewest'
    BY <1>0, <1>3 DEF ClientWrites, TypeOK, PendingIsNewest, vars, sessionVars
  <2>2. toHost' \in Seq(Messages) /\ Len(toHost') <= QueueBound
    BY <1>0, <1>3, AppendProperties, LenProperties, ControlPlaneAssumption
       DEF ClientWrites, PlaneTypeOK
  <2> QED
    BY <1>3, <2>1, <2>2 DEF ClientWrites
<1>4. CASE ClientHello
  <2>1. PICK m \in Messages : ClientWrites(m)
    BY <1>4, ControlPlaneAssumption DEF ClientHello, Messages
  <2> QED
    BY <1>0, <1>3, <1>4, <2>1 DEF ClientHello, PlaneTypeOK
<1>5. CASE ClientReads
  <2>1. /\ Head(toClient) \in Outputs
        /\ Tail(toClient) \in Seq(Outputs) /\ Len(Tail(toClient)) <= QueueBound
    BY <1>0, <1>5, HeadTailProperties, LenProperties, ControlPlaneAssumption
       DEF ClientReads, PlaneTypeOK
  <2>2. IsConfig(Head(toClient)) =>
          [gen |-> Head(toClient).gen, size |-> Head(toClient).size] \in [gen : Nat, size : Size]
    BY <2>1 DEF IsConfig, Outputs
  <2>3. known' \subseteq [gen : Nat, size : Size]
    BY <1>0, <1>5, <2>2 DEF ClientReads, PlaneTypeOK, IsConfig
  <2>4. owes' \in Seq([gen : Nat, size : Size])
    <3>1. CASE IsConfig(Head(toClient))
      <4>1. owes' = Append(owes, [gen |-> Head(toClient).gen, size |-> Head(toClient).size])
        BY <1>5, <3>1 DEF ClientReads, IsConfig
      <4> QED
        BY <1>0, <2>2, <3>1, <4>1, AppendProperties DEF PlaneTypeOK
    <3>2. CASE ~IsConfig(Head(toClient))
      BY <1>0, <1>5, <3>2 DEF ClientReads, PlaneTypeOK, IsConfig
    <3> QED
      BY <3>1, <3>2
  <2>5. phase' \in {"new", "waiting", "streaming", "gone", "refused"}
    BY <1>0, <1>5 DEF ClientReads, PlaneTypeOK
  <2>6. TypeOK' /\ PendingIsNewest'
    BY <1>0, <1>5 DEF ClientReads, TypeOK, PendingIsNewest, vars, sessionVars
  <2> QED
    BY <1>0, <1>5, <2>1, <2>3, <2>4, <2>5, <2>6 DEF ClientReads, PlaneTypeOK
<1>6. CASE ClientAcks
  <2>1. Head(owes) \in [gen : Nat, size : Size] /\ Tail(owes) \in Seq([gen : Nat, size : Size])
    BY <1>0, <1>6, HeadTailProperties DEF ClientAcks, PlaneTypeOK
  <2>2. PICK m : m = [type |-> "CONFIG_ACK", gen |-> Head(owes).gen] /\ ClientWrites(m)
    BY <1>6 DEF ClientAcks
  <2>3. state # "Closed"
    BY <1>6 DEF ClientAcks, PlaneInv, Phases, NoFalseAccusation
  <2>4. owes = <<Announced>>
    BY <1>6, <2>3 DEF ClientAcks, PlaneInv, Accounted, AtHost, OnItsWay, Owed, OnItsWayBack,
                      Nowhere
  <2>5. m \in Messages
    <3>1. Head(owes).gen = generation /\ generation \in 0 .. MaxGeneration
      BY <1>0, <2>4 DEF Announced, TypeOK, PlaneInv
    <3>2. Head(owes).gen \in -1 .. MaxGeneration + 1
      BY <3>1, HostSessionAssumption
    <3> QED
      BY <2>2, <3>2 DEF Messages, ConfigAcks
  <2>6. acked' \subseteq Size
    BY <1>0, <1>6, <2>1 DEF ClientAcks, PlaneTypeOK
  <2> QED
    BY <1>0, <1>3, <1>6, <2>1, <2>2, <2>5, <2>6 DEF ClientAcks, PlaneTypeOK
<1>7. CASE ClientAsks
  <2>1. PICK m \in Messages : ClientWrites(m)
    BY <1>7, ControlPlaneAssumption DEF ClientAsks, Messages, Plain
  <2> QED
    BY <1>0, <1>3, <1>7, <2>1 DEF ClientAsks, PlaneTypeOK, clientVars
<1>8. CASE ClientLeaves
  <2>1. [type |-> "BYE"] \in Messages
    BY DEF Messages, Plain
  <2> QED
    BY <1>0, <1>3, <1>8, <2>1 DEF ClientLeaves, PlaneTypeOK
<1>9. CASE UNCHANGED planeVars
  BY <1>0, <1>9 DEF planeVars, vars, sessionVars, clientVars, TypeOK, PendingIsNewest, PlaneTypeOK
<1> QED
  BY <1>1, <1>2, <1>4, <1>5, <1>6, <1>7, <1>8, <1>9 DEF PlaneNext

-----------------------------------------------------------------------------
(* The CONFIG in flight: where each step takes it.                         *)
LEMMA AccountedStep == PlaneInv /\ [PlaneNext]_planeVars => Accounted'
<1> SUFFICES ASSUME PlaneInv, [PlaneNext]_planeVars PROVE Accounted'
  OBVIOUS
<1>0. /\ TypeOK /\ PendingIsNewest /\ Accounted /\ Driven
      /\ toHost \in Seq(Messages) /\ toClient \in Seq(Outputs) /\ out \in Seq(Outputs)
      /\ owes \in Seq([gen : Nat, size : Size])
  BY DEF PlaneInv, TypeOK, PlaneTypeOK
<1>1. CASE HostReads
  <2>1. PICK m \in Messages :
          /\ m = Head(toHost)
          /\ HelloHandled(m) \/ AckHandled(m) \/ RequestHandled(m) \/ ByeHandled(m)
    BY <1>1, HostHandles
  <2>2. /\ out = <<>> /\ state # "Closed" /\ toHost # <<>> /\ toHost' = Tail(toHost)
        /\ UNCHANGED <<toClient, known, owes, acked>>
    BY <1>1 DEF HostReads, clientVars
  <2>3. NoConfig(out) /\ ~AtHost
    BY <2>2, OutputQueues DEF AtHost
  <2>4. CASE HelloHandled(m)
    <3>1. state = "WaitHello" /\ Nowhere
      BY <1>0, <2>4 DEF HelloHandled, AcceptHello, Dispatched, Accounted, Awaiting
    <3>2. /\ state' = "WaitConfigAck" /\ generation' = 1 /\ size' = size
          /\ out' = <<SendWelcome(multiActive'), SendConfig(1, size, multiActive')>>
      BY <2>4 DEF HelloHandled, AcceptHello
    <3>3. OneConfig(out', generation', size')
      BY <3>2, OutputQueues
    <3>4. AtHost'
      BY <1>0, <2>2, <3>1, <3>3, AckRead DEF AtHost, Nowhere
    <3> QED
      BY <3>2, <3>4 DEF Accounted, Awaiting
  <2>5. CASE AckHandled(m)
    <3>1. OnItsWayBack
      BY <2>5 DEF AckHandled
    <3>2. IsAck(m)
      BY <2>5 DEF AckHandled, AcceptConfigAck, AcceptReconfigAck, IsAckOf, IsAck
    <3>3. NoAck(toHost')
      BY <1>0, <2>1, <2>2, <3>1, <3>2, AckRead DEF OnItsWayBack
    <3>4. state' = "Streaming" /\ pending' = NoGen /\ UNCHANGED <<size, generation>>
      BY <1>0, <2>5 DEF AckHandled, AcceptConfigAck, AcceptReconfigAck, Dispatched, PendingIsNewest
    <3>5. NoConfig(out')
      BY <2>5, OutputQueues DEF AckHandled, AcceptConfigAck, AcceptReconfigAck
    <3> QED
      BY <2>2, <3>1, <3>3, <3>4, <3>5 DEF Accounted, Nowhere, OnItsWayBack, Announced
  <2>6. CASE RequestHandled(m) /\ AcceptViewport(m)
    <3>1. ~IsAck(m)
      BY <2>6, RequestsAreQuiet
    <3>2. state = "Streaming" /\ pending = NoGen
      BY <2>6 DEF AcceptViewport, Dispatched, IsNewSize
    <3>3. Nowhere
      BY <1>0, <3>2 DEF Accounted, Awaiting
    <3>4. /\ state' = "Streaming" /\ pending' = generation' /\ generation' = generation + 1
          /\ out' = <<SendConfig(generation', size', multiActive)>>
      BY <2>6, <3>2 DEF AcceptViewport
    <3>5. OneConfig(out', generation', size')
      BY <3>4, OutputQueues
    <3>6. AtHost'
      BY <1>0, <2>2, <3>3, <3>5, AckRead DEF AtHost, Nowhere
    <3>7. pending' # NoGen
      BY <1>0, <3>4 DEF TypeOK, NoGen
    <3> QED
      BY <3>4, <3>6, <3>7 DEF Accounted, Awaiting
  <2>7. CASE RequestHandled(m) /\ Quietly
    <3>1. ~IsAck(m)
      BY <2>7, RequestsAreQuiet
    <3>2. UNCHANGED sessionVars /\ NoConfig(out')
      BY <2>7, OutputQueues DEF Quietly
    <3>3. /\ NoAck(toHost) => NoAck(toHost')
          /\ \A g : OneAck(toHost, g) => OneAck(toHost', g)
      BY <1>0, <2>1, <2>2, <3>1, AckRead
    <3>4. /\ OnItsWay => OnItsWay'
          /\ Owed => Owed'
          /\ OnItsWayBack => OnItsWayBack'
          /\ Nowhere => Nowhere'
      BY <2>2, <3>2, <3>3 DEF OnItsWay, Owed, OnItsWayBack, Nowhere, Announced, sessionVars
    <3> QED
      BY <1>0, <2>2, <2>3, <3>2, <3>4 DEF Accounted, Awaiting, Announced, sessionVars
  <2>8. CASE ByeHandled(m)
    BY <2>8 DEF ByeHandled, OnBye, Accounted
  <2> QED
    BY <2>1, <2>4, <2>5, <2>6, <2>7, <2>8, RequestsAreQuiet
<1>2. CASE Drive
  <2>1. /\ out # <<>> /\ UNCHANGED <<sessionVars, toHost, known, owes, acked>>
    BY <1>2, DriveTakes DEF clientVars
  <2>2. CASE DriveSend /\ IsConfig(Head(out))
    <3>1. ~NoConfig(out)
      BY <1>0, <2>1, <2>2, ConfigRead
    <3>2. ~OnItsWay /\ ~Owed /\ ~OnItsWayBack /\ ~Nowhere
      BY <3>1 DEF OnItsWay, Owed, OnItsWayBack, Nowhere
    <3>3. AtHost => OnItsWay'
      <4>1. out' = Tail(out) /\ toClient' = Append(toClient, Head(out)) /\ Head(out) \in Outputs
        BY <1>2, <2>2, DriveTakes DEF DriveSend
      <4>2. AtHost => NoConfig(out') /\ OneConfig(toClient', generation, size)
        BY <1>0, <2>1, <2>2, <4>1, ConfigRead, ConfigWritten DEF AtHost
      <4> QED
        BY <2>1, <4>2 DEF AtHost, OnItsWay, sessionVars
    <3>4. state = "Closed" \/ (Awaiting /\ AtHost)
      BY <1>0, <3>2 DEF Accounted
    <3> QED
      BY <2>1, <3>3, <3>4 DEF Accounted, Awaiting, sessionVars
  <2>3. CASE DriveSend /\ ~IsConfig(Head(out))
    <3>1. out' = Tail(out) /\ toClient' = Append(toClient, Head(out)) /\ Head(out) \in Outputs
      BY <1>2, <2>3, DriveTakes DEF DriveSend
    <3>2. /\ NoConfig(out) => NoConfig(out')
          /\ NoConfig(toClient) => NoConfig(toClient')
          /\ \A g, s : OneConfig(out, g, s) => OneConfig(out', g, s)
          /\ \A g, s : OneConfig(toClient, g, s) => OneConfig(toClient', g, s)
      BY <1>0, <2>1, <2>3, <3>1, ConfigRead, ConfigWritten
    <3>3. /\ AtHost => AtHost'
          /\ OnItsWay => OnItsWay'
          /\ Owed => Owed'
          /\ OnItsWayBack => OnItsWayBack'
          /\ Nowhere => Nowhere'
      BY <2>1, <3>2 DEF AtHost, OnItsWay, Owed, OnItsWayBack, Nowhere, Announced, sessionVars
    <3> QED
      BY <1>0, <2>1, <3>3 DEF Accounted, Awaiting, Announced, sessionVars
  <2>4. CASE UNCHANGED toClient /\ out' = Tail(out) /\ ~IsConfig(Head(out))
    <3>1. /\ NoConfig(out) => NoConfig(out')
          /\ \A g, s : OneConfig(out, g, s) => OneConfig(out', g, s)
      BY <1>0, <2>1, <2>4, ConfigRead
    <3>2. /\ AtHost => AtHost'
          /\ OnItsWay => OnItsWay'
          /\ Owed => Owed'
          /\ OnItsWayBack => OnItsWayBack'
          /\ Nowhere => Nowhere'
      BY <2>1, <2>4, <3>1 DEF AtHost, OnItsWay, Owed, OnItsWayBack, Nowhere, Announced, sessionVars
    <3> QED
      BY <1>0, <2>1, <3>2 DEF Accounted, Awaiting, Announced, sessionVars
  <2>5. CASE DriveClose
    <3>1. Head(out).kind = "Close"
      BY <2>5 DEF DriveClose, Driving
    <3>2. state = "Closed"
      BY <1>0, <2>1, <3>1 DEF Driven, SendWelcome, SendConfig, Send, StartMedia, Reconfigure,
                             ClockPong, Stats, RequestIdr
    <3> QED
      BY <2>1, <3>2 DEF Accounted, sessionVars
  <2> QED
    BY <1>2, <2>2, <2>3, <2>4, <2>5, DriveTakes
<1>3. ASSUME NEW m \in Messages, ClientWrites(m), ~IsAck(m), UNCHANGED <<known, owes, acked>>
      PROVE  Accounted'
  <2>1. UNCHANGED <<vars, toClient>> /\ toHost' = Append(toHost, m)
    BY <1>3 DEF ClientWrites
  <2>2. /\ NoAck(toHost) => NoAck(toHost')
        /\ \A g : OneAck(toHost, g) => OneAck(toHost', g)
    BY <1>0, <1>3, <2>1, AckWritten
  <2>3. /\ AtHost => AtHost'
        /\ OnItsWay => OnItsWay'
        /\ Owed => Owed'
        /\ OnItsWayBack => OnItsWayBack'
        /\ Nowhere => Nowhere'
    BY <1>3, <2>1, <2>2 DEF AtHost, OnItsWay, Owed, OnItsWayBack, Nowhere, Announced,
                            vars, sessionVars
  <2> QED
    BY <1>0, <1>3, <2>1, <2>3 DEF Accounted, Awaiting, Announced, vars, sessionVars
<1>4. CASE ClientHello
  <2>1. PICK m \in Messages : ClientWrites(m) /\ ~IsAck(m)
    BY <1>4, ControlPlaneAssumption DEF ClientHello, Messages, Hellos, IsAck
  <2> QED
    BY <1>3, <1>4, <2>1 DEF ClientHello
<1>5. CASE ClientAsks
  <2>1. PICK m \in Messages : ClientWrites(m) /\ ~IsAck(m)
    BY <1>5, ControlPlaneAssumption
       DEF ClientAsks, Messages, Viewports, IdrRequests, Plain, IsAck
  <2> QED
    BY <1>3, <1>5, <2>1 DEF ClientAsks, clientVars
<1>6. CASE ClientLeaves
  <2>1. [type |-> "BYE"] \in Messages /\ ~IsAck([type |-> "BYE"])
    BY DEF Messages, Plain, IsAck
  <2> QED
    BY <1>3, <1>6, <2>1 DEF ClientLeaves
<1>7. CASE ClientReads
  <2> DEFINE o == Head(toClient)
  <2>1. /\ toClient # <<>> /\ toClient' = Tail(toClient)
        /\ UNCHANGED <<vars, toHost, acked>>
    BY <1>7 DEF ClientReads
  <2>2. CASE IsConfig(o)
    <3>1. ~NoConfig(toClient)
      BY <1>0, <2>1, <2>2, ConfigRead
    <3>2. ~AtHost /\ ~Owed /\ ~OnItsWayBack /\ ~Nowhere
      BY <3>1 DEF AtHost, Owed, OnItsWayBack, Nowhere
    <3>3. OnItsWay => o.gen = generation /\ o.size = size /\ NoConfig(toClient')
      BY <1>0, <2>1, <2>2, ConfigRead DEF OnItsWay
    <3>4. OnItsWay => known' = {Announced} /\ owes' = <<Announced>>
      <4>1. /\ known' = {[gen |-> o.gen, size |-> o.size]}
            /\ owes' = Append(owes, [gen |-> o.gen, size |-> o.size])
        BY <1>7, <2>2 DEF ClientReads, IsConfig
      <4>2. \A c : Append(<<>>, c) = <<c>>
        OBVIOUS
      <4> QED
        BY <3>3, <4>1, <4>2 DEF OnItsWay, Announced
    <3>5. OnItsWay => Owed'
      BY <2>1, <3>3, <3>4 DEF OnItsWay, Owed, Announced, vars, sessionVars
    <3>6. state = "Closed" \/ (Awaiting /\ OnItsWay)
      BY <1>0, <3>2 DEF Accounted
    <3> QED
      BY <2>1, <3>5, <3>6 DEF Accounted, Awaiting, vars, sessionVars
  <2>3. CASE ~IsConfig(o)
    <3>1. UNCHANGED <<known, owes>>
      BY <1>7, <2>3 DEF ClientReads, IsConfig
    <3>2. /\ NoConfig(toClient) => NoConfig(toClient')
          /\ \A g, s : OneConfig(toClient, g, s) => OneConfig(toClient', g, s)
      BY <1>0, <2>1, <2>3, ConfigRead
    <3>3. /\ AtHost => AtHost'
          /\ OnItsWay => OnItsWay'
          /\ Owed => Owed'
          /\ OnItsWayBack => OnItsWayBack'
          /\ Nowhere => Nowhere'
      BY <2>1, <3>1, <3>2 DEF AtHost, OnItsWay, Owed, OnItsWayBack, Nowhere, Announced,
                              vars, sessionVars
    <3> QED
      BY <1>0, <2>1, <3>1, <3>3 DEF Accounted, Awaiting, Announced, vars, sessionVars
  <2> QED
    BY <2>2, <2>3
<1>8. CASE ClientAcks
  <2>1. /\ owes # <<>> /\ owes' = Tail(owes) /\ acked' = acked \cup {Head(owes).size}
        /\ UNCHANGED <<vars, toClient, known>>
    BY <1>8 DEF ClientAcks, ClientWrites
  <2>2. state = "Closed" \/ (Awaiting /\ Owed)
    <3>1. ~AtHost /\ ~OnItsWay /\ ~OnItsWayBack /\ ~Nowhere
      BY <2>1 DEF AtHost, OnItsWay, OnItsWayBack, Nowhere
    <3> QED
      BY <1>0, <3>1 DEF Accounted
  <2>3. Owed => OnItsWayBack'
    <3>1. PICK m : m = [type |-> "CONFIG_ACK", gen |-> Head(owes).gen] /\ ClientWrites(m)
      BY <1>8 DEF ClientAcks
    <3>2. ASSUME Owed PROVE Head(owes) = Announced /\ Tail(owes) = <<>>
      BY <3>2 DEF Owed
    <3>3. ASSUME Owed PROVE OneAck(toHost', generation)
      <4>1. toHost' = Append(toHost, m) /\ IsAck(m) /\ m.gen = generation
        BY <3>1, <3>2, <3>3 DEF ClientWrites, IsAck, Announced
      <4>2. toHost \in Seq(Messages \cup {m})
        BY <1>0, SeqMonotonic
      <4> QED
        BY <3>3, <4>1, <4>2, AckWritten DEF Owed
    <3> QED
      BY <2>1, <3>2, <3>3 DEF Owed, OnItsWayBack, Announced, vars, sessionVars
  <2> QED
    BY <2>1, <2>2, <2>3 DEF Accounted, Awaiting, vars, sessionVars
<1>9. CASE UNCHANGED planeVars
  BY <1>0, <1>9 DEF planeVars, vars, sessionVars, clientVars, Accounted, Awaiting, AtHost,
                    OnItsWay, Owed, OnItsWayBack, Nowhere, Announced
<1> QED
  BY <1>1, <1>2, <1>4, <1>5, <1>6, <1>7, <1>8, <1>9 DEF PlaneNext

-----------------------------------------------------------------------------
(* What the driver finds at the front of the outputs: eight cases.         *)
LEMMA HeadDriven ==
  ASSUME Driven, out # <<>>
  PROVE  \/ /\ state = "WaitConfigAck" /\ Head(out) = SendWelcome(multiActive)
            /\ Tail(out) = <<SendConfig(generation, size, multiActive)>>
         \/ /\ state = "WaitConfigAck" \/ (state = "Streaming" /\ pending # NoGen)
            /\ Head(out) = SendConfig(generation, size, multiActive) /\ Tail(out) = <<>>
         \/ /\ state = "Streaming" /\ pending = NoGen /\ size = InitSize /\ size \in acked
            /\ Head(out) = Send("START") /\ Tail(out) = <<StartMedia(multiActive)>>
         \/ /\ state = "Streaming" /\ pending = NoGen /\ size = InitSize /\ size \in acked
            /\ Head(out) = StartMedia(multiActive) /\ Tail(out) = <<>>
         \/ /\ state = "Streaming" /\ pending = NoGen /\ size \in acked
            /\ Head(out) = Reconfigure(size) /\ Tail(out) = <<>>
         \/ /\ Head(out) \in {ClockPong, Stats} \cup {RequestIdr(n) : n \in 0 .. U16 - 1}
            /\ Tail(out) = <<>>
         \/ state = "Closed" /\ Head(out) = Close("NONE") /\ Tail(out) = <<>>
<1>1. /\ \A a : Head(<<a>>) = a /\ Tail(<<a>>) = <<>>
      /\ \A a, b : Head(<<a, b>>) = a /\ Tail(<<a, b>>) = <<b>>
  OBVIOUS
<1> HIDE DEF NoGen
<1>2. CASE /\ state = "WaitConfigAck"
           /\ out = <<SendWelcome(multiActive), SendConfig(generation, size, multiActive)>>
  BY <1>1, <1>2
<1>3. CASE /\ state = "WaitConfigAck" \/ (state = "Streaming" /\ pending # NoGen)
           /\ out = <<SendConfig(generation, size, multiActive)>>
  BY <1>1, <1>3
<1>4. CASE /\ state = "Streaming" /\ pending = NoGen /\ size = InitSize /\ size \in acked
           /\ out = <<Send("START"), StartMedia(multiActive)>>
  BY <1>1, <1>4
<1>5. CASE /\ state = "Streaming" /\ pending = NoGen /\ size = InitSize /\ size \in acked
           /\ out = <<StartMedia(multiActive)>>
  BY <1>1, <1>5
<1>6. CASE /\ state = "Streaming" /\ pending = NoGen /\ size \in acked
           /\ out = <<Reconfigure(size)>>
  BY <1>1, <1>6
<1>7. CASE out \in {<<ClockPong>>, <<Stats>>} \cup {<<RequestIdr(n)>> : n \in 0 .. U16 - 1}
  <2>1. PICK o \in {ClockPong, Stats} \cup {RequestIdr(n) : n \in 0 .. U16 - 1} : out = <<o>>
    BY <1>7
  <2> QED
    BY <1>1, <2>1
<1>8. CASE state = "Closed" /\ out = <<Close("NONE")>>
  BY <1>1, <1>8
<1> QED
  BY <1>2, <1>3, <1>4, <1>5, <1>6, <1>7, <1>8 DEF Driven

(* What the outputs are, told apart by their kind.                         *)
LEMMA Kinds ==
  /\ \A msg : Send(msg).kind = "Send" /\ Send(msg).msg = msg
  /\ \A g, s, b : SendConfig(g, s, b).kind = "Send" /\ SendConfig(g, s, b).msg = "CONFIG"
  /\ \A b : SendWelcome(b).kind = "Send" /\ SendWelcome(b).msg = "WELCOME"
  /\ \A b : StartMedia(b).kind = "StartMedia"
  /\ \A s : Reconfigure(s).kind = "Reconfigure" /\ Reconfigure(s).size = s
  /\ \A n : RequestIdr(n).kind = "RequestIdr"
  /\ ClockPong.kind = "ClockPong" /\ Stats.kind = "Stats"
  /\ \A code : Close(code).kind = "Close"
BY DEF Send, SendConfig, SendWelcome, StartMedia, Reconfigure, RequestIdr, ClockPong, Stats,
       Close

(* Which of the host's handlers moves the session, and where to.           *)
LEMMA HostMoves ==
  ASSUME PlaneInv, HostReads
  PROVE  \/ /\ state = "WaitHello" /\ state' = "WaitConfigAck"
            /\ generation' = 1 /\ UNCHANGED <<size, pending>>
            /\ out' = <<SendWelcome(multiActive'), SendConfig(1, size, multiActive')>>
         \/ /\ state = "WaitConfigAck" /\ state' = "Streaming" /\ size \in acked
            /\ UNCHANGED <<size, generation, pending, multiActive>>
            /\ out' = <<Send("START"), StartMedia(multiActive)>>
         \/ /\ state = "Streaming" /\ state' = "Streaming" /\ size \in acked
            /\ pending' = NoGen /\ UNCHANGED <<size, generation, multiActive>>
            /\ out' = <<Reconfigure(size)>>
         \/ /\ state = "Streaming" /\ state' = "Streaming" /\ pending' # NoGen
            /\ UNCHANGED multiActive
            /\ out' = <<SendConfig(generation', size', multiActive)>>
         \/ state = "Streaming" /\ Quietly
         \/ /\ state' = "Closed" /\ phase = "gone" /\ out' = <<Close("NONE")>>
            /\ UNCHANGED <<size, generation, pending, multiActive>>
<1>1. PICK m \in Messages :
        HelloHandled(m) \/ AckHandled(m) \/ RequestHandled(m) \/ ByeHandled(m)
  BY HostHandles
<1>2. CASE HelloHandled(m)
  BY <1>2 DEF HelloHandled, AcceptHello, Dispatched
<1>3. CASE AckHandled(m)
  BY <1>3 DEF AckHandled, OnItsWayBack, AcceptConfigAck, AcceptReconfigAck, Dispatched
<1>4. CASE RequestHandled(m)
  <2>1. state = "Streaming" /\ (Quietly \/ AcceptViewport(m))
    BY <1>4, RequestsAreQuiet DEF RequestHandled
  <2>2. AcceptViewport(m) => pending' # NoGen
    BY DEF AcceptViewport, PlaneInv, TypeOK, NoGen
  <2> QED
    BY <2>1, <2>2 DEF AcceptViewport
<1>5. CASE ByeHandled(m)
  BY <1>5 DEF ByeHandled, OnBye
<1> QED
  BY <1>1, <1>2, <1>3, <1>4, <1>5

(* Everything but the host and its driver leaves the session alone, and    *)
(* what the client has acknowledged stays acknowledged.                    *)
LEMMA ClientMoves ==
  ASSUME [PlaneNext]_planeVars, ~HostReads, ~Drive
  PROVE  /\ UNCHANGED <<vars, active>> /\ acked \subseteq acked'
         /\ UNCHANGED toClient \/ ClientReads
BY DEF PlaneNext, ClientHello, ClientReads, ClientAcks, ClientAsks, ClientLeaves,
       ClientWrites, planeVars, clientVars

-----------------------------------------------------------------------------
(* The client streams only with a streaming host, and only BYE closes.     *)
LEMMA PhasesStep == PlaneInv /\ [PlaneNext]_planeVars => Phases'
<1> SUFFICES ASSUME PlaneInv, [PlaneNext]_planeVars PROVE Phases'
  OBVIOUS
<1>0. Phases /\ Told /\ toClient \in Seq(Outputs)
  BY DEF PlaneInv, PlaneTypeOK
<1>1. CASE HostReads
  <2>1. UNCHANGED phase /\ toHost # <<>>
    BY <1>1 DEF HostReads, clientVars
  <2>2. phase # "new"
    BY <1>0, <2>1 DEF Phases
  <2>3. state = "Streaming" => state' \in {"Streaming", "Closed"}
    BY <1>1, HostMoves DEF Quietly, sessionVars
  <2>4. state' = "Closed" => phase = "gone"
    BY <1>0, <1>1, HostMoves DEF Quietly, sessionVars
  <2> QED
    BY <1>0, <2>1, <2>2, <2>3, <2>4 DEF Phases, NoFalseAccusation
<1>2. CASE Drive
  BY <1>0, <1>2, DriveTakes DEF Phases, NoFalseAccusation, sessionVars, clientVars
<1>3. CASE ClientHello \/ ClientAcks \/ ClientAsks \/ ClientLeaves
  BY <1>0, <1>3 DEF ClientHello, ClientAcks, ClientAsks, ClientLeaves, ClientWrites, Phases,
                    NoFalseAccusation, vars, sessionVars, clientVars
<1>4. CASE ClientReads
  <2>1. /\ toClient # <<>> /\ phase \in {"waiting", "streaming"}
        /\ UNCHANGED <<vars, toHost>>
    BY <1>4 DEF ClientReads
  <2>2. 1 \in 1 .. Len(toClient) /\ Head(toClient) = toClient[1]
    BY <1>0, <2>1, LenProperties, EmptySeq
  <2>3. /\ Head(toClient).kind = "Send" => Head(toClient).msg # "ERROR"
        /\ Head(toClient).kind = "Send" /\ Head(toClient).msg = "START" =>
             state \in {"Streaming", "Closed"}
    BY <1>0, <2>2 DEF Told, StartIn
  <2>4. state # "Closed"
    BY <1>0, <2>1 DEF Phases, NoFalseAccusation
  <2>5. /\ phase' \in {phase, "streaming"}
        /\ phase' = "streaming" => state = "Streaming"
    BY <1>0, <1>4, <2>3, <2>4 DEF ClientReads, Phases
  <2> QED
    BY <1>0, <2>1, <2>4, <2>5 DEF Phases, NoFalseAccusation, vars, sessionVars
<1>5. CASE UNCHANGED planeVars
  BY <1>0, <1>5 DEF Phases, NoFalseAccusation, planeVars, vars, sessionVars, clientVars
<1> QED
  BY <1>1, <1>2, <1>3, <1>4, <1>5 DEF PlaneNext

(* The outputs still to be driven fit the session that made them.          *)
LEMMA DrivenStep == PlaneInv /\ [PlaneNext]_planeVars => Driven'
<1> SUFFICES ASSUME PlaneInv, [PlaneNext]_planeVars PROVE Driven'
  OBVIOUS
<1>0. Driven /\ PendingIsNewest /\ Media
  BY DEF PlaneInv
<1>1. CASE HostReads
  <2>1. UNCHANGED acked
    BY <1>1 DEF HostReads, clientVars
  <2>2. state = "WaitConfigAck" => pending = NoGen /\ size = InitSize
    BY <1>0 DEF PendingIsNewest, Media
  <2> QED
    BY <1>1, <2>1, <2>2, HostMoves DEF Driven, Quietly
<1>2. CASE Drive
  <2>1. /\ out # <<>> /\ UNCHANGED <<sessionVars, acked>>
        /\ out' = Tail(out) \/ out' = <<>>
    BY <1>2, DriveTakes DEF DriveSend, clientVars
  <2> QED
    BY <1>0, <2>1, HeadDriven DEF Driven, sessionVars
<1>3. CASE ~HostReads /\ ~Drive
  BY <1>0, <1>3, ClientMoves DEF Driven, vars, sessionVars
<1> QED
  BY <1>1, <1>2, <1>3

(* What is on its way to the client, and when START may be among it.       *)
LEMMA ToldStep == PlaneInv /\ [PlaneNext]_planeVars => Told'
<1> SUFFICES ASSUME PlaneInv, [PlaneNext]_planeVars PROVE Told'
  OBVIOUS
<1>0. Told /\ Driven /\ toClient \in Seq(Outputs)
  BY DEF PlaneInv, PlaneTypeOK
<1>1. CASE HostReads
  <2>1. UNCHANGED toClient /\ state # "Closed"
    BY <1>1 DEF HostReads
  <2>2. state = "Streaming" => state' \in {"Streaming", "Closed"}
    BY <1>1, HostMoves DEF Quietly, sessionVars
  <2> QED
    BY <1>0, <2>1, <2>2 DEF Told, StartIn
<1>2. CASE DriveSend
  <2> DEFINE o == Head(out)
             r == Append(toClient, o)
  <2>1. /\ out # <<>> /\ o \in Outputs /\ UNCHANGED sessionVars /\ toClient' = r
        /\ o.kind \in {"Send", "ClockPong"}
    BY <1>2, DriveTakes DEF DriveSend, Drive, Driving
  <2>2. /\ o.kind = "Send" => o.msg # "ERROR"
        /\ o.kind = "Send" /\ o.msg = "START" => state = "Streaming"
    BY <1>0, <2>1, HeadDriven, Kinds
  <2>3. \A i \in 1 .. Len(r) : r[i] = o \/ (i \in 1 .. Len(toClient) /\ r[i] = toClient[i])
    BY <1>0, <2>1, AppendProperties, LenProperties
  <2> HIDE DEF o, r
  <2> QED
    BY <1>0, <2>1, <2>2, <2>3 DEF Told, StartIn, sessionVars
<1>3. CASE Drive /\ ~DriveSend
  BY <1>0, <1>3, DriveTakes DEF Told, StartIn, sessionVars
<1>4. CASE ClientReads
  <2> DEFINE r == Tail(toClient)
  <2>1. toClient # <<>> /\ toClient' = r /\ UNCHANGED state
    BY <1>4 DEF ClientReads, vars, sessionVars
  <2>2. \A i \in 1 .. Len(r) : i + 1 \in 1 .. Len(toClient) /\ r[i] = toClient[i + 1]
    BY <1>0, <2>1, HeadTailProperties, LenProperties, EmptySeq
  <2> HIDE DEF r
  <2> QED
    BY <1>0, <2>1, <2>2 DEF Told, StartIn
<1>5. CASE ~HostReads /\ ~Drive /\ ~ClientReads
  BY <1>0, <1>5, ClientMoves DEF Told, StartIn, vars, sessionVars
<1> QED
  BY <1>1, <1>2, <1>3, <1>4, <1>5

(* The media thread is told sizes the client has acknowledged, the newest  *)
(* one as soon as its ACK is in.                                           *)
LEMMA MediaStep == PlaneInv /\ [PlaneNext]_planeVars => Media'
<1> SUFFICES ASSUME PlaneInv, [PlaneNext]_planeVars PROVE Media'
  OBVIOUS
<1>0. Media /\ Driven
  BY DEF PlaneInv
<1>1. CASE HostReads
  <2>1. out = <<>> /\ UNCHANGED <<active, acked>>
    BY <1>1 DEF HostReads, clientVars
  <2>2. ActiveIsAcked'
    BY <1>0, <2>1 DEF Media, ActiveIsAcked
  <2>3. state' \in {"WaitHello", "WaitConfigAck"} => size' = InitSize
    BY <1>0, <1>1, HostMoves DEF Media, Quietly, sessionVars
  <2>4. /\ \A a : Head(<<a>>) = a /\ <<a>> # <<>>
        /\ \A a, b : Head(<<a, b>>) = a /\ <<a, b>> # <<>>
    OBVIOUS
  <2>5. ASSUME state' = "Streaming", pending' = NoGen
        PROVE  \/ active' = {size'}
               \/ out' # <<>> /\ Head(out').kind \in {"Send", "StartMedia", "Reconfigure"}
    BY <1>0, <1>1, <2>1, <2>4, <2>5, HostMoves, Kinds DEF Media, Quietly, sessionVars
  <2> QED
    BY <2>2, <2>3, <2>5 DEF Media
<1>2. CASE Drive
  <2>1. out # <<>> /\ UNCHANGED <<sessionVars, acked>>
    BY <1>2, DriveTakes DEF clientVars
  <2>2. /\ Head(out).kind = "StartMedia" => active' = {InitSize} /\ out' = Tail(out)
        /\ Head(out).kind = "Reconfigure" => active' = {Head(out).size} /\ out' = Tail(out)
        /\ Head(out).kind = "Send" => active' = active /\ out' = Tail(out)
        /\ Head(out).kind \notin {"StartMedia", "Reconfigure"} => active' = active
    BY <1>2 DEF Drive, DriveSend, DriveStartMedia, DriveReconfigure, DriveQuietly, DriveClose,
                Driving
  <2>3. ActiveIsAcked'
    <3>1. active \subseteq acked
      BY <1>0 DEF Media, ActiveIsAcked
    <3>2. /\ Head(out).kind = "StartMedia" => InitSize \in acked
          /\ Head(out).kind = "Reconfigure" => Head(out).size \in acked
      BY <1>0, <2>1, HeadDriven, Kinds
    <3>3. active' \subseteq acked
      BY <2>2, <3>1, <3>2
    <3> QED
      BY <2>1, <3>3 DEF ActiveIsAcked
  <2>4. state' \in {"WaitHello", "WaitConfigAck"} => size' = InitSize
    BY <1>0, <2>1 DEF Media, sessionVars
  <2>5. ASSUME state' = "Streaming", pending' = NoGen
        PROVE  \/ active' = {size'}
               \/ out' # <<>> /\ Head(out').kind \in {"Send", "StartMedia", "Reconfigure"}
    <3>1. state = "Streaming" /\ pending = NoGen /\ size' = size
      BY <2>1, <2>5 DEF sessionVars
    <3>2. CASE Head(out) = Send("START") /\ Tail(out) = <<StartMedia(multiActive)>>
      <4>1. out' = <<StartMedia(multiActive)>>
        BY <2>2, <3>2, Kinds
      <4>2. \A a : Head(<<a>>) = a /\ <<a>> # <<>>
        OBVIOUS
      <4> QED
        BY <4>1, <4>2, Kinds
    <3>3. CASE Head(out) = StartMedia(multiActive) /\ size = InitSize
      BY <2>2, <3>1, <3>3, Kinds
    <3>4. CASE Head(out) = Reconfigure(size)
      BY <2>2, <3>1, <3>4, Kinds
    <3>5. CASE Head(out) \in {ClockPong, Stats} \cup {RequestIdr(n) : n \in 0 .. U16 - 1}
      <4>1. Head(out).kind \notin {"Send", "StartMedia", "Reconfigure"}
        BY <3>5, Kinds
      <4> QED
        BY <1>0, <2>2, <3>1, <4>1 DEF Media
    <3> QED
      BY <1>0, <2>1, <3>1, <3>2, <3>3, <3>4, <3>5, HeadDriven
  <2> QED
    BY <2>3, <2>4, <2>5 DEF Media
<1>3. CASE ~HostReads /\ ~Drive
  <2>1. UNCHANGED <<vars, active>> /\ acked \subseteq acked'
    BY <1>3, ClientMoves
  <2> QED
    BY <1>0, <2>1 DEF Media, ActiveIsAcked, vars, sessionVars
<1> QED
  BY <1>1, <1>2, <1>3

(* What is on its way to the host: a HELLO first, then what a streaming    *)
(* client may send.                                                        *)
LEMMA ClientWroteStep == PlaneInv /\ [PlaneNext]_planeVars => ClientWrote'
<1> SUFFICES ASSUME PlaneInv, [PlaneNext]_planeVars PROVE ClientWrote'
  OBVIOUS
<1>0. ClientWrote /\ Phases /\ toHost \in Seq(Messages)
  BY DEF PlaneInv, PlaneTypeOK
<1>1. CASE HostReads
  <2>1. /\ toHost # <<>> /\ state # "Closed" /\ toHost' = Tail(toHost) /\ UNCHANGED phase
    BY <1>1 DEF HostReads, clientVars
  <2>2. \A i \in 1 .. Len(toHost') : Expected(toHost'[i])
    BY <2>1, HeadWritten
  <2>3. /\ state' # "WaitHello"
        /\ state = "Streaming" => state' \in {"Streaming", "Closed"}
    BY <1>1, HostMoves DEF Quietly, sessionVars
  <2>4. state' = "Closed" \/ \A m : Expected(m) => Expected(m)'
    BY <2>1, <2>3 DEF Expected
  <2> QED
    BY <2>2, <2>3, <2>4 DEF ClientWrote
<1>2. CASE UNCHANGED <<state, phase, toHost>>
  BY <1>0, <1>2 DEF ClientWrote, Expected
<1>3. CASE Drive
  BY <1>2, <1>3, DriveTakes DEF sessionVars, clientVars
<1>4. CASE ClientHello
  <2>1. PICK m \in ClientHellos : ClientWrites(m)
    BY <1>4 DEF ClientHello
  <2>2. toHost = <<>> /\ state = "WaitHello"
    BY <1>0, <1>4 DEF ClientHello, Phases
  <2>3. toHost' = <<m>> /\ state' = "WaitHello"
    BY <2>1, <2>2 DEF ClientWrites, vars, sessionVars
  <2>4. <<m>> # <<>> /\ <<m>>[1] = m /\ Len(<<m>>) = 1
    OBVIOUS
  <2> QED
    BY <2>3, <2>4 DEF ClientWrote
<1>5. CASE ClientReads
  <2>1. /\ phase' \in {"waiting", "streaming", "refused"} /\ phase \in {"waiting", "streaming"}
        /\ UNCHANGED <<state, toHost>>
    BY <1>5 DEF ClientReads, vars, sessionVars
  <2>2. \A m : Expected(m) => Expected(m)'
    BY <2>1 DEF Expected
  <2> QED
    BY <1>0, <2>1, <2>2 DEF ClientWrote
(* A write of a client that has said HELLO.                                *)
<1>6. ASSUME NEW m, ClientWrites(m), Expected(m)', phase # "new",
             phase = "gone" => phase' = "gone"
      PROVE  ClientWrote'
  <2>1. UNCHANGED state /\ toHost' = Append(toHost, m)
    BY <1>6 DEF ClientWrites, vars, sessionVars
  <2>2. toHost \in Seq(Messages \cup {m})
    BY <1>0, SeqMonotonic
  <2>3. /\ \A i \in 1 .. Len(toHost') :
             toHost'[i] = m \/ (i \in 1 .. Len(toHost) /\ toHost'[i] = toHost[i])
        /\ toHost' # <<>>
        /\ toHost # <<>> => toHost'[1] = toHost[1]
    BY <2>1, <2>2, AppendProperties, LenProperties, EmptySeq
  <2>4. \A n : Expected(n) => Expected(n)'
    BY <1>6, <2>1 DEF Expected
  <2> QED
    BY <1>0, <1>6, <2>1, <2>3, <2>4 DEF ClientWrote
<1>7. CASE ClientAcks
  <2>1. PICK m : m = [type |-> "CONFIG_ACK", gen |-> Head(owes).gen] /\ ClientWrites(m)
    BY <1>7 DEF ClientAcks
  <2>2. Expected(m)'
    BY <2>1 DEF Expected
  <2> QED
    BY <1>6, <1>7, <2>1, <2>2 DEF ClientAcks
<1>8. CASE ClientAsks
  <2>1. PICK m \in ClientRequests : ClientWrites(m)
    BY <1>8 DEF ClientAsks
  <2>2. Expected(m)'
    BY <1>0, <1>8, <2>1 DEF ClientAsks, ClientWrites, Phases, Expected, vars, sessionVars
  <2> QED
    BY <1>6, <1>8, <2>1, <2>2 DEF ClientAsks, clientVars
<1>9. CASE ClientLeaves
  <2>1. PICK m : m = [type |-> "BYE"] /\ ClientWrites(m)
    BY <1>9 DEF ClientLeaves
  <2>2. Expected(m)'
    BY <1>9, <2>1 DEF ClientLeaves, Expected
  <2> QED
    BY <1>6, <1>9, <2>1, <2>2 DEF ClientLeaves
<1>10. CASE UNCHANGED planeVars
  BY <1>2, <1>10 DEF planeVars, vars, sessionVars, clientVars
<1> QED
  BY <1>1, <1>3, <1>4, <1>5, <1>7, <1>8, <1>9, <1>10 DEF PlaneNext

-----------------------------------------------------------------------------
(* The invariant holds in every state of every behaviour.                  *)
LEMMA PlaneStep == PlaneInv /\ [PlaneNext]_planeVars => PlaneInv'
  BY TypeStep, GenerationStep, AccountedStep, PhasesStep, ClientWroteStep, DrivenStep, ToldStep,
     MediaStep DEF PlaneInv

LEMMA InvAlways == PlaneSpec => []PlaneInv
  BY InitInv, PlaneStep, PTL DEF PlaneSpec

(* Types: the queues stay within the stream's flow control and hold what   *)
(* the two ends write (conn.rs, session_loop and drive).                   *)
THEOREM PlaneTypeCorrect == PlaneSpec => []PlaneTypeOK
<1>1. PlaneInv => PlaneTypeOK
  BY DEF PlaneInv
<1> QED
  BY InvAlways, <1>1, PTL

(* The session never closes on a client that follows the protocol, however *)
(* its VIEWPORTs, the CONFIGs and the ACKs cross on the wire: the ACK the  *)
(* host finds is always the one it waits for (session.rs, on_config_ack,   *)
(* on_reconfig_ack).                                                       *)
THEOREM NoFalseAccusationCorrect == PlaneSpec => []NoFalseAccusation
<1>1. PlaneInv => NoFalseAccusation
  BY DEF PlaneInv, Phases
<1> QED
  BY InvAlways, <1>1, PTL

(* The media thread is never told a size before the client acknowledged it *)
(* (session.rs, StartMedia and Reconfigure after the ACK only).            *)
THEOREM ActiveCorrect == PlaneSpec => []ActiveIsAcked
<1>1. PlaneInv => ActiveIsAcked
  BY DEF PlaneInv, Media
<1> QED
  BY InvAlways, <1>1, PTL

(* With nothing in flight, host, client and media thread agree on one size *)
(* and one generation (session.rs, on_viewport and on_reconfig_ack).       *)
THEOREM QuietCorrect == PlaneSpec => []QuietAgreement
<1>1. PlaneInv => QuietAgreement
  <2> SUFFICES ASSUME PlaneInv, Quiet, phase = "streaming"
               PROVE  /\ pending = NoGen /\ known = {Announced} /\ active = {size}
    BY DEF QuietAgreement, Announced
  <2>1. state = "Streaming"
    BY DEF PlaneInv, Phases
  <2>2. \A g : ~OneAck(<<>>, g)
    BY DEF OneAck
  <2>3. ~AtHost /\ ~OnItsWay /\ ~Owed /\ ~OnItsWayBack
    BY <2>2, OutputQueues DEF Quiet, AtHost, OnItsWay, Owed, OnItsWayBack
  <2>4. pending = NoGen /\ known = {Announced}
    BY <2>1, <2>3 DEF PlaneInv, Accounted
  <2> QED
    BY <2>1, <2>4 DEF PlaneInv, Media, Quiet
<1> QED
  BY InvAlways, <1>1, PTL
=============================================================================
