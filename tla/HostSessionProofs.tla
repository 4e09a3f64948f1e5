-------------------------- MODULE HostSessionProofs ---------------------------
(***************************************************************************)
(* What HostSession promises for every instance of its constants: every    *)
(* host ceiling, every initial size, every integer a peer may send.        *)
(*                                                                         *)
(* The safety properties are inductive together with TypeOK: the phase and *)
(* the two generations (PendingIsNewest) are what ConfigNamesSize rests on.*)
(***************************************************************************)
EXTENDS HostSession, TLAPS

-----------------------------------------------------------------------------
(* The arithmetic.                                                         *)

(* `as u64` of any pair of integers is a size: session.rs, on_hello and    *)
(* on_viewport never make a negative dimension out of a peer's integer.    *)
LEMMA AsU64Type ==
  ASSUME NEW p \in [w : Int, h : Int]
  PROVE  AsU64(p) \in Size
<1>1. ASSUME NEW n \in Int PROVE n % U64 \in 0 .. U64 - 1
  BY <1>1, HostSessionAssumption
<1>2. p.w \in Int /\ p.h \in Int
  OBVIOUS
<1> QED
  BY <1>1, <1>2 DEF AsU64, Size

(* clamp_viewport's one-dimensional clamp ends at an even number between   *)
(* the floor and the host's ceiling, whatever the client's maximum is.     *)
LEMMA ClampDimBounds ==
  ASSUME NEW x \in Nat, NEW c \in Nat, NEW m \in Nat, MinDim <= m
  PROVE  /\ ClampDim(x, m, c) \in MinDim .. m
         /\ ClampDim(x, m, c) % 2 = 0
<1> DEFINE ceiling == Larger(Smaller(m, c), MinDim)
           clamped == Smaller(Larger(x, MinDim), ceiling)
<1>0. MinDim \in Nat /\ MinDim % 2 = 0
  BY HostSessionAssumption
<1>1. ceiling \in MinDim .. m
  BY <1>0 DEF Larger, Smaller
<1>2. clamped \in MinDim .. m
  BY <1>0, <1>1 DEF Larger, Smaller
<1>3. ClampDim(x, m, c) = clamped - (clamped % 2)
  BY DEF ClampDim
<1> HIDE DEF clamped
<1>4. /\ clamped - (clamped % 2) \in MinDim .. m
      /\ (clamped - (clamped % 2)) % 2 = 0
  BY <1>0, <1>2
<1> QED
  BY <1>3, <1>4

(* A size clamp_viewport returns is one the encoder accepts.               *)
LEMMA ClampViewportEncodable ==
  ASSUME NEW p \in Size, NEW max \in Size
  PROVE  Encodable(ClampViewport(p, max)) /\ ClampViewport(p, max) \in Size
<1>1. /\ MinDim \in Nat /\ U64 \in Nat
      /\ HostMax.w \in MinDim .. U64 - 1 /\ HostMax.h \in MinDim .. U64 - 1
      /\ HostMax.w \in Nat /\ HostMax.h \in Nat
      /\ MinDim <= HostMax.w /\ MinDim <= HostMax.h
  BY HostSessionAssumption
<1>2. p.w \in Nat /\ p.h \in Nat /\ max.w \in Nat /\ max.h \in Nat
  BY <1>1 DEF Size
<1>3. /\ ClampDim(p.w, HostMax.w, max.w) \in MinDim .. HostMax.w
      /\ ClampDim(p.w, HostMax.w, max.w) % 2 = 0
  BY <1>1, <1>2, ClampDimBounds
<1>4. /\ ClampDim(p.h, HostMax.h, max.h) \in MinDim .. HostMax.h
      /\ ClampDim(p.h, HostMax.h, max.h) % 2 = 0
  BY <1>1, <1>2, ClampDimBounds
<1> QED
  BY <1>1, <1>3, <1>4 DEF ClampViewport, Encodable, Size

-----------------------------------------------------------------------------
(* What a frame carries.                                                   *)

(* A pair in a HELLO or a VIEWPORT is a pair of integers.                  *)
LEMMA HelloPair ==
  ASSUME NEW m \in Messages, m.type = "HELLO", NEW p \in m.max
  PROVE  p \in [w : Int, h : Int]
<1>1. m \in Hellos
  BY DEF Messages, ConfigAcks, Viewports, IdrRequests, Plain
<1>2. m.max \in OptionalPair
  BY <1>1 DEF Hellos
<1> QED
  BY <1>2, HostSessionAssumption DEF OptionalPair

(* The same for a VIEWPORT.                                                *)
LEMMA ViewportPair ==
  ASSUME NEW m \in Messages, m.type = "VIEWPORT", NEW p \in m.req
  PROVE  p \in [w : Int, h : Int]
<1>1. m \in Viewports
  BY DEF Messages, Hellos, ConfigAcks, IdrRequests, Plain
<1>2. m.req \in OptionalPair
  BY <1>1 DEF Viewports
<1> QED
  BY <1>2, HostSessionAssumption DEF OptionalPair

(* The flag of a HELLO is a Boolean, the stream of an IDR_REQUEST an       *)
(* integer whose `as u16` fits.                                            *)
LEMMA RequestedStream ==
  ASSUME NEW m \in Messages, m.type = "IDR_REQUEST"
  PROVE  m.stream % U16 \in 0 .. U16 - 1
<1>1. m.stream \in Int
  BY HostSessionAssumption DEF Messages, Hellos, ConfigAcks, Viewports, IdrRequests, Plain
<1> QED
  BY <1>1, HostSessionAssumption

(* A decoded flag is a Boolean.                                            *)
LEMMA HelloMulti ==
  ASSUME NEW m \in Messages, m.type = "HELLO"
  PROVE  m.multi \in BOOLEAN
BY DEF Messages, Hellos, ConfigAcks, Viewports, IdrRequests, Plain

-----------------------------------------------------------------------------
(* Type correctness.                                                       *)

(* Every output the session makes is one of Outputs.                       *)
LEMMA OutputTypes ==
  /\ <<>> \in Seq(Outputs)
  /\ \A code \in Codes : <<SendError(code), Close(code)>> \in Seq(Outputs)
  /\ <<Close("NONE")>> \in Seq(Outputs)
  /\ <<ClockPong>> \in Seq(Outputs) /\ <<Stats>> \in Seq(Outputs)
  /\ \A multi \in BOOLEAN : <<Send("START"), StartMedia(multi)>> \in Seq(Outputs)
  /\ \A stream \in 0 .. U16 - 1 : <<RequestIdr(stream)>> \in Seq(Outputs)
  /\ \A s \in Size : <<Reconfigure(s)>> \in Seq(Outputs)
  /\ \A g \in Nat, s \in Size, multi \in BOOLEAN :
       /\ <<SendConfig(g, s, multi)>> \in Seq(Outputs)
       /\ <<SendWelcome(multi), SendConfig(g, s, multi)>> \in Seq(Outputs)
<1>1. \A code \in Codes : SendError(code) \in Outputs /\ Close(code) \in Outputs
  BY DEF SendError, Close, Outputs
<1>2. "NONE" \in Codes
  BY DEF Codes
<1>3. ClockPong \in Outputs /\ Stats \in Outputs /\ Send("START") \in Outputs
  BY DEF ClockPong, Stats, Send, Outputs
<1>4. \A multi \in BOOLEAN : StartMedia(multi) \in Outputs /\ SendWelcome(multi) \in Outputs
  BY DEF StartMedia, SendWelcome, Outputs
<1>5. \A stream \in 0 .. U16 - 1 : RequestIdr(stream) \in Outputs
  BY DEF RequestIdr, Outputs
<1>6. \A s \in Size : Reconfigure(s) \in Outputs
  BY DEF Reconfigure, Outputs
<1>7. \A g \in Nat, s \in Size, multi \in BOOLEAN : SendConfig(g, s, multi) \in Outputs
  BY DEF SendConfig, Outputs
<1> QED
  BY <1>1, <1>2, <1>3, <1>4, <1>5, <1>6, <1>7

(* The state HostSession::new makes is well typed.                         *)
LEMMA InitTypeOK == Init => TypeOK
<1>1. InitSize \in Size
  BY HostSessionAssumption DEF Size
<1>2. 0 \in Nat /\ FALSE \in BOOLEAN /\ <<>> \in Seq(Outputs)
  BY OutputTypes
<1> QED
  BY <1>1, <1>2 DEF Init, TypeOK, States, NoGen

(* fatal keeps the fields in their domains.                                *)
LEMMA FatalType ==
  ASSUME TypeOK, NEW code \in Codes, Fatal(code)
  PROVE  TypeOK'
BY OutputTypes DEF TypeOK, Fatal, States

(* on_frame keeps every field in its domain.                               *)
LEMMA FrameStepTypeOK ==
  ASSUME TypeOK, NEW m \in Messages, OnFrame(m)
  PROVE  TypeOK'
<1> USE DEF TypeOK
<1>0. /\ "PROTOCOL_VIOLATION" \in Codes
      /\ "VERSION_UNSUPPORTED" \in Codes
      /\ "NO_COMMON_CODEC" \in Codes
  BY DEF Codes
<1>1. CASE Unheeded(m)
  BY <1>1, OutputTypes DEF Unheeded, Answer, sessionVars
<1>2. CASE OnBye(m)
  BY <1>2, OutputTypes DEF OnBye, States
<1>3. CASE OnClockPing(m)
  BY <1>3, OutputTypes DEF OnClockPing, Answer, sessionVars
<1>4. CASE RefuseHello(m)
  BY <1>0, <1>4, FatalType DEF RefuseHello, ProtocolViolation
<1>5. CASE AcceptHello(m)
  <2>1. m.type = "HELLO"
    BY <1>5 DEF AcceptHello
  <2>2. clientMax' \in Size
    <3>1. \A p \in m.max : AsU64(p) \in Size
      BY <2>1, HelloPair, AsU64Type
    <3> QED
      BY <1>5, <3>1 DEF AcceptHello
  <2>3. multiActive' \in BOOLEAN
    BY <1>5, <2>1, HelloMulti, HostSessionAssumption DEF AcceptHello
  <2>4. out' \in Seq(Outputs)
    BY <1>5, <2>3, OutputTypes DEF AcceptHello
  <2> QED
    BY <1>5, <2>2, <2>3, <2>4 DEF AcceptHello, States
<1>6. CASE RefuseConfigAck(m)
  BY <1>0, <1>6, FatalType DEF RefuseConfigAck, ProtocolViolation
<1>7. CASE AcceptConfigAck(m)
  BY <1>7, OutputTypes DEF AcceptConfigAck, States
<1>8. CASE OnIdrRequest(m)
  BY <1>8, OutputTypes, RequestedStream DEF OnIdrRequest, Answer, sessionVars
<1>9. CASE OnStats(m)
  BY <1>9, OutputTypes DEF OnStats, Answer, sessionVars
<1>10. CASE OnInput(m)
  BY <1>10, OutputTypes DEF OnInput, Answer, sessionVars
<1>11. CASE IgnoreViewport(m)
  BY <1>11, OutputTypes DEF IgnoreViewport, Answer, sessionVars
<1>12. CASE AcceptViewport(m)
  <2>1. size' \in Size
    BY <1>12, ViewportPair, AsU64Type, ClampViewportEncodable DEF AcceptViewport
  <2>2. generation' \in Nat /\ pending' \in Nat
    BY <1>12 DEF AcceptViewport
  <2>3. out' \in Seq(Outputs)
    BY <1>12, <2>1, <2>2, OutputTypes DEF AcceptViewport
  <2> QED
    BY <1>12, <2>1, <2>2, <2>3 DEF AcceptViewport
<1>13. CASE AcceptReconfigAck(m)
  BY <1>13, OutputTypes DEF AcceptReconfigAck, NoGen
<1>14. CASE RefuseReconfigAck(m)
  BY <1>0, <1>14, FatalType DEF RefuseReconfigAck, ProtocolViolation
<1>15. CASE RefuseStreaming(m)
  BY <1>0, <1>15, FatalType DEF RefuseStreaming, ProtocolViolation
<1> QED
  BY <1>1, <1>2, <1>3, <1>4, <1>5, <1>6, <1>7, <1>8, <1>9, <1>10, <1>11,
     <1>12, <1>13, <1>14, <1>15 DEF OnFrame

(* A session is well typed for ever, whatever the peer sends: the casts    *)
(* of on_hello, on_viewport and on_streaming wrap instead of failing.      *)
THEOREM TypeCorrect == Spec => []TypeOK
<1>1. TypeOK /\ [Next]_vars => TypeOK'
  <2> SUFFICES ASSUME TypeOK, [Next]_vars PROVE TypeOK'
    OBVIOUS
  <2>1. CASE Next
    BY <2>1, FrameStepTypeOK DEF Next
  <2>2. CASE UNCHANGED vars
    BY <2>2 DEF TypeOK, vars, sessionVars
  <2> QED
    BY <2>1, <2>2
<1> QED
  BY InitTypeOK, <1>1, PTL DEF Spec

-----------------------------------------------------------------------------
(* The generations.                                                        *)

(* No handler leaves a superseded generation pending.                      *)
LEMMA FramePending ==
  ASSUME TypeOK, PendingIsNewest, NEW m \in Messages, OnFrame(m)
  PROVE  PendingIsNewest'
<1> USE DEF PendingIsNewest, NoGen
<1>1. generation \in Nat /\ state \in States
  BY DEF TypeOK
<1>2. ASSUME UNCHANGED sessionVars PROVE PendingIsNewest'
  BY <1>2 DEF sessionVars
<1>3. ASSUME NEW code, Fatal(code) PROVE PendingIsNewest'
  <2>1. pending # NoGen => state' = "Closed" /\ pending' = generation' /\ generation' >= 2
    BY <1>3 DEF Fatal
  <2> QED
    BY <1>3, <2>1 DEF Fatal
<1>4. CASE Unheeded(m) \/ OnClockPing(m) \/ OnIdrRequest(m) \/ OnStats(m) \/ OnInput(m)
             \/ IgnoreViewport(m)
  BY <1>2, <1>4 DEF Unheeded, OnClockPing, OnIdrRequest, OnStats, OnInput, IgnoreViewport, Answer
<1>5. CASE OnBye(m)
  BY <1>5 DEF OnBye
<1>6. CASE RefuseHello(m) \/ RefuseConfigAck(m) \/ RefuseReconfigAck(m) \/ RefuseStreaming(m)
  BY <1>3, <1>6 DEF RefuseHello, RefuseConfigAck, RefuseReconfigAck, RefuseStreaming,
                    ProtocolViolation
<1>7. CASE AcceptHello(m)
  \* Nothing can be pending yet.
  BY <1>7 DEF AcceptHello, Dispatched
<1>8. CASE AcceptConfigAck(m)
  BY <1>8 DEF AcceptConfigAck, Dispatched
<1>9. CASE AcceptViewport(m)
  \* The generation of a streaming session is at least 1: the next is at least 2.
  BY <1>1, <1>9 DEF AcceptViewport, Dispatched
<1>10. CASE AcceptReconfigAck(m)
  BY <1>10 DEF AcceptReconfigAck, Dispatched
<1> QED
  BY <1>4, <1>5, <1>6, <1>7, <1>8, <1>9, <1>10 DEF OnFrame

(* The CONFIG_ACK a streaming session waits for is that of its newest      *)
(* CONFIG: on_viewport and on_reconfig_ack keep pending_generation and     *)
(* generation together.                                                    *)
THEOREM PendingCorrect == Spec => []PendingIsNewest
<1>1. Init => PendingIsNewest
  BY DEF Init, PendingIsNewest, NoGen
<1>2. TypeOK /\ PendingIsNewest /\ [Next]_vars => PendingIsNewest'
  <2> SUFFICES ASSUME TypeOK, PendingIsNewest, [Next]_vars PROVE PendingIsNewest'
    OBVIOUS
  <2>1. CASE Next
    BY <2>1, FramePending DEF Next
  <2>2. CASE UNCHANGED vars
    BY <2>2 DEF PendingIsNewest, vars, sessionVars
  <2> QED
    BY <2>1, <2>2
<1> QED
  BY TypeCorrect, <1>1, <1>2, PTL DEF Spec

-----------------------------------------------------------------------------
(* The sizes.                                                              *)

(* on_viewport is the only handler that announces a generation above 1,    *)
(* and it announces a size clamp_viewport made.                            *)
LEMMA FrameEncodable ==
  ASSUME TypeOK, ReconfiguredSizeEncodable, NEW m \in Messages, OnFrame(m)
  PROVE  ReconfiguredSizeEncodable'
<1>1. CASE AcceptHello(m)
  BY <1>1 DEF AcceptHello, ReconfiguredSizeEncodable
<1>2. CASE AcceptViewport(m)
  <2>1. Encodable(size')
    BY <1>2, ViewportPair, AsU64Type, ClampViewportEncodable DEF AcceptViewport, TypeOK
  <2> QED
    BY <2>1 DEF ReconfiguredSizeEncodable, Encodable
<1>3. CASE ~AcceptHello(m) /\ ~AcceptViewport(m)
  <2>1. size' = size /\ generation' = generation
    BY <1>3 DEF OnFrame, Unheeded, OnBye, OnClockPing, RefuseHello, RefuseConfigAck,
                AcceptConfigAck, OnIdrRequest, OnStats, OnInput, IgnoreViewport,
                AcceptReconfigAck, RefuseReconfigAck, RefuseStreaming, Answer, Fatal,
                ProtocolViolation, sessionVars
  <2> QED
    BY <2>1 DEF ReconfiguredSizeEncodable, Encodable
<1> QED
  BY <1>1, <1>2, <1>3

(* A reconfigured stream has a size the encoder accepts, whatever the      *)
(* client asked for and whatever maximum it declared.                      *)
THEOREM ReconfiguredEncodable == Spec => []ReconfiguredSizeEncodable
<1>1. Init => ReconfiguredSizeEncodable
  BY DEF Init, ReconfiguredSizeEncodable
<1>2. TypeOK /\ ReconfiguredSizeEncodable /\ [Next]_vars => ReconfiguredSizeEncodable'
  <2> SUFFICES ASSUME TypeOK, ReconfiguredSizeEncodable, [Next]_vars
               PROVE  ReconfiguredSizeEncodable'
    OBVIOUS
  <2>1. CASE Next
    BY <2>1, FrameEncodable DEF Next
  <2>2. CASE UNCHANGED vars
    BY <2>2 DEF ReconfiguredSizeEncodable, Encodable, vars, sessionVars
  <2> QED
    BY <2>1, <2>2
<1> QED
  BY TypeCorrect, <1>1, <1>2, PTL DEF Spec

(* A generation names one size for ever: both change in one call that      *)
(* announces them, and only when no ACK is awaited.  This is why applying  *)
(* params at the ACK applies what the client acknowledged.                 *)
THEOREM GenerationNamesSize == Spec => ConfigNamesSize
<1> DEFINE Announced ==
      /\ pending = NoGen /\ state # "WaitConfigAck"
      /\ generation' = generation + 1
      /\ out'[Len(out')] = SendConfig(generation', size', multiActive')
<1>1. ASSUME TypeOK, PendingIsNewest, NEW m \in Messages, OnFrame(m),
             size' # size \/ generation' # generation
      PROVE  Announced
  <2>1. CASE AcceptHello(m)
    <3>1. pending = NoGen /\ generation = 0 /\ state = "WaitHello"
      BY <2>1, <1>1 DEF AcceptHello, Dispatched, PendingIsNewest
    <3>2. out'[Len(out')] = SendConfig(1, size, multiActive')
      BY <2>1 DEF AcceptHello
    <3> QED
      BY <2>1, <3>1, <3>2 DEF AcceptHello
  <2>2. CASE AcceptViewport(m)
    <3>1. pending = NoGen /\ state = "Streaming"
      BY <2>2 DEF AcceptViewport, Dispatched, IsNewSize
    <3>2. out'[Len(out')] = SendConfig(generation', size', multiActive)
      BY <2>2 DEF AcceptViewport
    <3> QED
      BY <2>2, <3>1, <3>2 DEF AcceptViewport
  <2>3. CASE ~AcceptHello(m) /\ ~AcceptViewport(m)
    \* No other handler touches either.
    BY <1>1, <2>3 DEF OnFrame, Unheeded, OnBye, OnClockPing, RefuseHello, RefuseConfigAck,
                AcceptConfigAck, OnIdrRequest, OnStats, OnInput, IgnoreViewport,
                AcceptReconfigAck, RefuseReconfigAck, RefuseStreaming, Answer, Fatal,
                ProtocolViolation, sessionVars
  <2> QED
    BY <2>1, <2>2, <2>3
<1>2. TypeOK /\ PendingIsNewest /\ [Next]_vars
        => [size' # size \/ generation' # generation => Announced]_vars
  BY <1>1 DEF Next
<1> QED
  BY TypeCorrect, PendingCorrect, <1>2, PTL DEF Spec, ConfigNamesSize

-----------------------------------------------------------------------------
(* The close.                                                              *)

(* The driver is told to close exactly when the session has ended, and     *)
(* last: no output is driven on a connection it closed.                    *)
THEOREM CloseCorrect == Spec => []CloseMeansClosed
<1>1. Init => CloseMeansClosed
  BY DEF Init, CloseMeansClosed
<1>2. ASSUME NEW m \in Messages, OnFrame(m) PROVE CloseMeansClosed'
  <2> USE DEF CloseMeansClosed
  <2>1. ASSUME NEW code, Fatal(code) PROVE CloseMeansClosed'
    BY <2>1 DEF Fatal, SendError, Close
  <2>2. CASE RefuseHello(m) \/ RefuseConfigAck(m) \/ RefuseReconfigAck(m) \/ RefuseStreaming(m)
    BY <2>1, <2>2 DEF RefuseHello, RefuseConfigAck, RefuseReconfigAck, RefuseStreaming,
                      ProtocolViolation
  <2>3. CASE OnBye(m)
    BY <2>3 DEF OnBye, Close
  <2>4. CASE Unheeded(m) \/ OnInput(m) \/ IgnoreViewport(m)
    BY <2>4 DEF Unheeded, OnInput, IgnoreViewport, Answer
  <2>5. CASE OnClockPing(m) \/ OnStats(m) \/ OnIdrRequest(m)
    BY <2>5 DEF OnClockPing, OnStats, OnIdrRequest, Answer, ClockPong, Stats, RequestIdr
  <2>6. CASE AcceptHello(m)
    BY <2>6 DEF AcceptHello, SendWelcome, SendConfig
  <2>7. CASE AcceptConfigAck(m)
    BY <2>7 DEF AcceptConfigAck, Send, StartMedia
  <2>8. CASE AcceptViewport(m)
    BY <2>8 DEF AcceptViewport, SendConfig
  <2>9. CASE AcceptReconfigAck(m)
    BY <2>9 DEF AcceptReconfigAck, Reconfigure
  <2> QED
    BY <1>2, <2>2, <2>3, <2>4, <2>5, <2>6, <2>7, <2>8, <2>9 DEF OnFrame
<1>3. CloseMeansClosed /\ [Next]_vars => CloseMeansClosed'
  <2> SUFFICES ASSUME CloseMeansClosed, [Next]_vars PROVE CloseMeansClosed'
    OBVIOUS
  <2>1. CASE Next
    BY <2>1, <1>2 DEF Next
  <2>2. CASE UNCHANGED vars
    BY <2>2 DEF CloseMeansClosed, vars, sessionVars
  <2> QED
    BY <2>1, <2>2
<1> QED
  BY <1>1, <1>3, PTL DEF Spec
=============================================================================
