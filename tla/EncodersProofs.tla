--------------------------- MODULE EncodersProofs ---------------------------
(***************************************************************************)
(* Theorems about Encoders, for any number of calls, any frames held back  *)
(* and any answers of VideoToolbox to the properties it is asked to set,   *)
(* and about AnnexB, for access units of any length and bytes.             *)
(*                                                                         *)
(* The conversion walks from one position to the next.  What it has walked *)
(* over is a cut of the bytes so far, with the NAL units it wrote behind   *)
(* their prefixes; and as a prefix is the only way to write the length it  *)
(* gives, every cut of the access unit goes through where it stands, so    *)
(* that where it gives up there is none.                                   *)
(***************************************************************************)
EXTENDS MCEncoders, TLAPS, SequenceTheorems, WellFoundedInduction

(* Where a callback can still come from, and what it can still reach.      *)
SinkInv ==
  /\ state \in {"unopened", "idle", "calling", "invalidated", "released"} => pending = {}
  /\ state \in {"unopened", "idle", "calling"} => sink.au = {} /\ sink.error = {}
  /\ state = "flushing" => /\ pending # {} => sink.au = {} /\ sink.error = {}
                           /\ sink.error # {} => sink.au = {}
  /\ state # "released" => sinkAlive
  /\ ~dangling

(* A call is only made when there is room for one more.                    *)
CallsInv ==
  /\ state \in {"calling", "flushing"} => calls < MaxCalls
  /\ state = "flushing" => pending \subseteq {calls + 1} /\ \A au \in sink.au : au.n = calls + 1

EncodersInv == TypeOK /\ SinkInv /\ CallsInv

-----------------------------------------------------------------------------
LEMMA AuType ==
  ASSUME NEW n \in 1 .. MaxCalls, NEW k \in BOOLEAN
  PROVE  [n |-> n, keyframe |-> k] \in Au
BY DEF Au

LEMMA HoldsType ==
  ASSUME backend \in Backends
  PROVE  backend.holds \in Nat
BY EncodersAssumption DEF Backends

LEMMA GiveType ==
  ASSUME TypeOK, NEW au \in Au, Give(Append(held, au))
  PROVE  held' \in Seq(Au) /\ Len(held') <= backend.holds /\ last' \in Au \cup {NoAu}
<1> DEFINE q == Append(held, au)
<1>1. q \in Seq(Au) /\ Len(q) = Len(held) + 1 /\ q # <<>> /\ Len(held) <= backend.holds
  BY DEF TypeOK
<1>2. CASE Len(q) <= backend.holds /\ held' = q /\ last' = last
  BY <1>1, <1>2 DEF TypeOK
<1>3. CASE held' = Tail(q) /\ last' = Head(q)
  <2>1. Tail(q) \in Seq(Au) /\ Len(Tail(q)) = Len(q) - 1 /\ Head(q) \in Au
    BY <1>1
  <2> QED
    BY <1>1, <1>3, <2>1, HoldsType DEF TypeOK
<1> QED
  BY <1>2, <1>3 DEF Give

LEMMA InitInv == Init => EncodersInv
<1> SUFFICES ASSUME Init PROVE EncodersInv
  OBVIOUS
<1>1. accepts \in [Hints \cup Constraints -> {"ok", "unsupported", "rejected"}]
  BY DEF Init
<1>2. held \in Seq(Au) /\ Len(held) <= backend.holds
  BY HoldsType DEF Init
<1>3. sink \in [au : SUBSET Au, error : SUBSET (1 .. MaxCalls)]
  BY DEF Init
<1>4. TypeOK
  <2>1. calls \in 0 .. MaxCalls /\ pending \subseteq 1 .. MaxCalls
    BY EncodersAssumption DEF Init
  <2>2. /\ backend \in Backends /\ state = "unopened"
        /\ force \in BOOLEAN /\ started \in BOOLEAN /\ sinkAlive \in BOOLEAN
        /\ dangling \in BOOLEAN /\ last = NoAu
    BY DEF Init
  <2> QED
    BY <1>1, <1>2, <1>3, <2>1, <2>2 DEF TypeOK
<1>5. SinkInv /\ CallsInv
  BY DEF Init, SinkInv, CallsInv
<1> QED
  BY <1>4, <1>5 DEF EncodersInv

LEMMA TypeStep == EncodersInv /\ [Next]_vars => TypeOK'
<1> SUFFICES ASSUME EncodersInv, [Next]_vars PROVE TypeOK'
  OBVIOUS
<1> USE EncodersAssumption
<1>0. TypeOK /\ CallsInv
  BY DEF EncodersInv
<1>1. CASE OpenX265 \/ OpenNvenc \/ OpenVideoToolbox \/ OpenFails \/ ConfigureFails
  BY <1>0, <1>1 DEF OpenX265, OpenNvenc, OpenVideoToolbox, Opened, OpenFails, ConfigureFails, TypeOK, codec, toolbox
<1>2. CASE Call
  BY <1>0, <1>2 DEF Call, TypeOK, codec, toolbox
<1>3. CASE ReturnsErr
  <2>1. calls + 1 \in 0 .. MaxCalls
    BY <1>0, <1>3 DEF ReturnsErr, CallsInv, TypeOK
  <2> QED
    BY <1>0, <1>3, <2>1 DEF ReturnsErr, Return, TypeOK, codec, toolbox
<1>4. CASE EncodeX265 \/ EncodeNvenc
  <2>1. calls + 1 \in 1 .. MaxCalls /\ calls' = calls + 1 /\ state' = "idle" /\ started' = TRUE
    BY <1>0, <1>4 DEF EncodeX265, EncodeNvenc, CallsInv, TypeOK, Return
  <2>2. \E k \in BOOLEAN : Give(Append(held, [n |-> calls + 1, keyframe |-> k]))
    <3>1. (force \/ ~started) \in BOOLEAN
      OBVIOUS
    <3> QED
      BY <1>4, <3>1 DEF EncodeX265, EncodeNvenc, X265Type
  <2>3. PICK k \in BOOLEAN : Give(Append(held, [n |-> calls + 1, keyframe |-> k]))
    BY <2>2
  <2>4. held' \in Seq(Au) /\ Len(held') <= backend.holds /\ last' \in Au \cup {NoAu}
    BY <1>0, <2>1, <2>3, AuType, GiveType
  <2>5. UNCHANGED <<backend, accepts, force, toolbox>>
    BY <1>4 DEF EncodeX265, EncodeNvenc
  <2> QED
    BY <1>0, <2>1, <2>4, <2>5 DEF TypeOK, toolbox
<1>5. CASE Submit
  <2>1. calls + 1 \in 1 .. MaxCalls
    BY <1>0, <1>5 DEF Submit, CallsInv, TypeOK
  <2> QED
    BY <1>0, <1>5, <2>1 DEF Submit, TypeOK, codec
<1>6. ASSUME NEW n \in pending, CallbackAu(n) PROVE TypeOK'
  <2>1. [n |-> n, keyframe |-> force \/ ~started] \in Au
    BY <1>0, <1>6, AuType DEF TypeOK
  <2>2. sink' \in [au : SUBSET Au, error : SUBSET (1 .. MaxCalls)]
    BY <1>0, <1>6, <2>1 DEF CallbackAu, TypeOK
  <2>3. /\ pending' = {} /\ started' = TRUE /\ dangling' \in BOOLEAN
        /\ UNCHANGED <<backend, accepts, state, calls, force, held, sinkAlive, last>>
    BY <1>6 DEF CallbackAu, Calls
  <2> QED
    BY <1>0, <2>2, <2>3 DEF TypeOK
<1>7. ASSUME NEW n \in pending, CallbackError(n) \/ CallbackDropped(n) PROVE TypeOK'
  <2>1. n \in 1 .. MaxCalls
    BY <1>0 DEF TypeOK
  <2>2. sink' \in [au : SUBSET Au, error : SUBSET (1 .. MaxCalls)]
    BY <1>0, <1>7, <2>1 DEF CallbackError, CallbackDropped, TypeOK
  <2>3. /\ pending' = {} /\ dangling' \in BOOLEAN
        /\ UNCHANGED <<backend, accepts, state, calls, force, codec, sinkAlive, last>>
    BY <1>7 DEF CallbackError, CallbackDropped, Calls
  <2> QED
    BY <1>0, <2>2, <2>3 DEF TypeOK, codec
<1>8. CASE TakeSink
  <2>1. calls + 1 \in 0 .. MaxCalls /\ calls' = calls + 1 /\ state' \in {"idle", "failed"}
    BY <1>0, <1>8 DEF TakeSink, CallsInv, TypeOK, Return
  <2>2. sink' \in [au : SUBSET Au, error : SUBSET (1 .. MaxCalls)]
    BY <1>0, <1>8 DEF TakeSink, TypeOK
  <2>3. last' \in Au \cup {NoAu}
    BY <1>0, <1>8 DEF TakeSink, TypeOK
  <2> QED
    BY <1>0, <1>8, <2>1, <2>2, <2>3 DEF TakeSink, TypeOK, codec
<1>9. CASE Invalidate \/ ReleaseSink
  BY <1>0, <1>9 DEF Invalidate, ReleaseSink, TypeOK, codec
<1>10. CASE UNCHANGED vars
  BY <1>0, <1>10 DEF vars, codec, toolbox, TypeOK
<1> QED
  BY <1>1, <1>2, <1>3, <1>4, <1>5, <1>6, <1>7, <1>8, <1>9, <1>10 DEF Next, Callback

LEMMA SinkStep == EncodersInv /\ [Next]_vars => SinkInv'
<1> SUFFICES ASSUME EncodersInv, [Next]_vars PROVE SinkInv'
  OBVIOUS
<1>0. SinkInv /\ TypeOK
  BY DEF EncodersInv
<1>1. CASE OpenX265 \/ OpenNvenc \/ OpenVideoToolbox \/ OpenFails \/ ConfigureFails \/ Call \/ ReturnsErr
  BY <1>0, <1>1 DEF OpenX265, OpenNvenc, OpenVideoToolbox, Opened, OpenFails, ConfigureFails, Call, ReturnsErr, Return, SinkInv, toolbox
<1>2. CASE EncodeX265 \/ EncodeNvenc
  BY <1>0, <1>2 DEF EncodeX265, EncodeNvenc, Return, SinkInv, toolbox
<1>3. CASE Submit
  BY <1>0, <1>3 DEF Submit, SinkInv
<1>4. ASSUME NEW n \in pending, CallbackAu(n) \/ CallbackError(n) \/ CallbackDropped(n)
      PROVE  SinkInv'
  <2>1. pending # {} /\ state \in {"flushing", "failed"} /\ sinkAlive
    BY <1>0 DEF SinkInv, TypeOK
  <2>2. pending' = {} /\ ~dangling' /\ state' = state /\ sinkAlive' = sinkAlive
    BY <1>0, <1>4, <2>1 DEF CallbackAu, CallbackError, CallbackDropped, Calls, SinkInv
  <2>3. state = "flushing" /\ sink'.error # {} => sink'.au = {}
    BY <1>0, <1>4, <2>1 DEF CallbackAu, CallbackError, CallbackDropped, SinkInv, TypeOK
  <2> QED
    BY <2>1, <2>2, <2>3 DEF SinkInv
<1>5. CASE TakeSink
  <2>1. state' = "idle" => sink'.au = {} /\ sink'.error = {}
    BY <1>0, <1>5 DEF TakeSink, Return, TypeOK
  <2> QED
    BY <1>0, <1>5, <2>1 DEF TakeSink, Return, SinkInv
<1>6. CASE Invalidate \/ ReleaseSink
  BY <1>0, <1>6 DEF Invalidate, ReleaseSink, SinkInv
<1>7. CASE UNCHANGED vars
  BY <1>0, <1>7 DEF vars, toolbox, SinkInv
<1> QED
  BY <1>1, <1>2, <1>3, <1>4, <1>5, <1>6, <1>7 DEF Next, Callback

LEMMA CallsStep == EncodersInv /\ [Next]_vars => CallsInv'
<1> SUFFICES ASSUME EncodersInv, [Next]_vars PROVE CallsInv'
  OBVIOUS
<1>0. SinkInv /\ TypeOK /\ CallsInv
  BY DEF EncodersInv
<1> USE DEF CallsInv
<1>1. CASE OpenX265 \/ OpenNvenc \/ OpenVideoToolbox \/ OpenFails \/ ConfigureFails \/ Call \/ ReturnsErr
  BY <1>0, <1>1 DEF OpenX265, OpenNvenc, OpenVideoToolbox, Opened, OpenFails, ConfigureFails,
                    Call, ReturnsErr, Return
<1>2. CASE EncodeX265 \/ EncodeNvenc
  BY <1>0, <1>2 DEF EncodeX265, EncodeNvenc, Return
<1>3. CASE Submit
  BY <1>0, <1>3 DEF Submit, SinkInv
<1>4. ASSUME NEW n \in pending, CallbackAu(n) \/ CallbackError(n) \/ CallbackDropped(n)
      PROVE  CallsInv'
  <2>1. pending' = {} /\ UNCHANGED <<state, calls>>
    BY <1>4 DEF CallbackAu, CallbackError, CallbackDropped, Calls
  <2>2. state = "flushing" => \A au \in sink'.au : au.n = calls + 1
    BY <1>0, <1>4 DEF CallbackAu, CallbackError, CallbackDropped, TypeOK
  <2> QED
    BY <1>0, <2>1, <2>2
<1>5. CASE TakeSink \/ Invalidate \/ ReleaseSink
  BY <1>0, <1>5 DEF TakeSink, Return, Invalidate, ReleaseSink
<1>6. CASE UNCHANGED vars
  BY <1>0, <1>6 DEF vars, toolbox
<1> QED
  BY <1>1, <1>2, <1>3, <1>4, <1>5, <1>6 DEF Next, Callback

LEMMA InvAlways == Spec => []EncodersInv
<1>1. EncodersInv /\ [Next]_vars => EncodersInv'
  BY TypeStep, SinkStep, CallsStep DEF EncodersInv
<1> QED
  BY InitInv, <1>1, PTL DEF Spec

-----------------------------------------------------------------------------
(* An encoder's state is well typed for any number of calls.               *)
THEOREM TypeCorrect == Spec => []TypeOK
<1>1. EncodersInv => TypeOK
  BY DEF EncodersInv
<1> QED
  BY InvAlways, <1>1, PTL

(* No callback of one call leaves anything for the next, and none reaches  *)
(* a sink that has been released, on any path (videotoolbox.rs).           *)
THEOREM CallbackCorrect == Spec => []CallbackContained
<1>1. EncodersInv => SinkEmptyBetweenCalls
  BY DEF EncodersInv, SinkInv, SinkEmptyBetweenCalls
<1>2. EncodersInv => NoDanglingCallback
  BY DEF EncodersInv, SinkInv, NoDanglingCallback, TypeOK
<1>3. EncodersInv => CallbackContained
  BY <1>1, <1>2 DEF CallbackContained
<1> QED
  BY InvAlways, <1>3, PTL

-----------------------------------------------------------------------------
(* Order.  Numbers only grow from the last unit returned, through those    *)
(* the codec holds, to the call under way; and as long as none has been    *)
(* returned the next one to come is an IDR.                                *)
Numbered ==
  /\ \A i \in 1 .. Len(held) : held[i].n <= calls /\ (last # NoAu => last.n < held[i].n)
  /\ \A i, j \in 1 .. Len(held) : i < j => held[i].n < held[j].n
  /\ last # NoAu => last.n <= calls

FirstIsIdr ==
  /\ last = NoAu /\ held # <<>> => held[1].keyframe = TRUE
  /\ last = NoAu /\ held = <<>> /\ state \in {"unopened", "idle", "calling"} => started = FALSE
  /\ last = NoAu /\ state = "flushing" =>
       /\ sink.au = {} => started = FALSE
       /\ \A au \in sink.au : au.keyframe = TRUE
  /\ backend.kind = "videotoolbox" => held = <<>>
  /\ state = "flushing" => backend.kind = "videotoolbox"

OrderInv == EncodersInv /\ Numbered /\ FirstIsIdr

LEMMA AuNumber ==
  ASSUME NEW au \in Au
  PROVE  au.n \in 1 .. MaxCalls /\ au.n \in Nat
BY EncodersAssumption DEF Au

LEMMA NextUnit ==
  ASSUME OrderInv, NEW k \in BOOLEAN, calls < MaxCalls, backend.kind # "videotoolbox",
         state = "calling", state' = "idle", UNCHANGED backend,
         last = NoAu /\ held = <<>> => k = TRUE,
         calls' = calls + 1, Give(Append(held, [n |-> calls + 1, keyframe |-> k]))
  PROVE  /\ Numbered' /\ FirstIsIdr'
         /\ last' # last => IF last = NoAu THEN last'.keyframe = TRUE ELSE last'.n > last.n
<1> DEFINE au == [n |-> calls + 1, keyframe |-> k]
           q == Append(held, au)
<1>0. MaxCalls \in Nat /\ held \in Seq(Au) /\ calls \in Nat /\ last \in Au \cup {NoAu} /\ NoAu \notin Au
  BY EncodersAssumption DEF OrderInv, EncodersInv, TypeOK
<1>1. au \in Au
  BY <1>0, EncodersAssumption, AuType
<1>2. /\ q \in Seq(Au) /\ Len(q) = Len(held) + 1 /\ q[Len(q)] = au
      /\ \A i \in 1 .. Len(held) : q[i] = held[i]
  BY <1>0, <1>1
<1>3. \A i \in 1 .. Len(q) : q[i].n \in Nat /\ q[i].n <= calls + 1
                            /\ (last # NoAu => last.n < q[i].n)
  <2> SUFFICES ASSUME NEW i \in 1 .. Len(q)
               PROVE  q[i].n \in Nat /\ q[i].n <= calls + 1 /\ (last # NoAu => last.n < q[i].n)
    OBVIOUS
  <2>0. q[i] \in Au
    BY <1>2
  <2>1. q[i].n \in Nat /\ (last # NoAu => last.n \in Nat)
    BY <1>0, <2>0, AuNumber
  <2>2. CASE i = Len(q)
    BY <1>0, <1>2, <2>1, <2>2 DEF OrderInv, Numbered
  <2>3. CASE i \in 1 .. Len(held)
    BY <1>0, <1>2, <2>1, <2>3 DEF OrderInv, Numbered
  <2> QED
    BY <1>0, <1>2, <2>2, <2>3
<1>4. \A i, j \in 1 .. Len(q) : i < j => q[i].n < q[j].n
  <2> SUFFICES ASSUME NEW i \in 1 .. Len(q), NEW j \in 1 .. Len(q), i < j
               PROVE  q[i].n < q[j].n
    OBVIOUS
  <2>0. i \in 1 .. Len(held)
    BY <1>0, <1>2
  <2>1. q[i] = held[i] /\ held[i] \in Au /\ held[i].n \in Nat
    BY <1>0, <1>2, <2>0, AuNumber
  <2>2. CASE j = Len(q)
    BY <1>0, <1>2, <2>0, <2>1, <2>2 DEF OrderInv, Numbered
  <2>3. CASE j \in 1 .. Len(held)
    BY <1>2, <2>0, <2>1, <2>3 DEF OrderInv, Numbered
  <2> QED
    BY <1>0, <1>2, <2>2, <2>3
<1>5. last = NoAu => q[1].keyframe = TRUE
  <2>1. CASE held = <<>>
    BY <1>2, <2>1
  <2>2. CASE held # <<>>
    BY <1>0, <1>2, <2>2 DEF OrderInv, FirstIsIdr
  <2> QED
    BY <2>1, <2>2
<1>6. CASE held' = q /\ last' = last
  <2>1. Numbered'
    BY <1>0, <1>3, <1>4, <1>6 DEF Numbered, OrderInv, Au
  <2>2. FirstIsIdr'
    BY <1>0, <1>2, <1>5, <1>6 DEF FirstIsIdr
  <2> QED
    BY <1>6, <2>1, <2>2
<1>7. CASE held' = Tail(q) /\ last' = Head(q)
  <2>1. /\ last' = q[1] /\ last' \in Au /\ last' # NoAu
        /\ Len(held') = Len(q) - 1 /\ \A i \in 1 .. Len(held') : held'[i] = q[i + 1]
    BY <1>0, <1>2, <1>7
  <2>2. Numbered'
    <3>0. Len(q) \in Nat /\ Len(q) >= 1
      BY <1>2
    <3>1. \A i \in 1 .. Len(held') : held'[i].n <= calls' /\ last'.n < held'[i].n
      <4> SUFFICES ASSUME NEW i \in 1 .. Len(held')
                   PROVE  held'[i].n <= calls' /\ last'.n < held'[i].n
        OBVIOUS
      <4>1. i + 1 \in 1 .. Len(q) /\ 1 \in 1 .. Len(q) /\ 1 < i + 1
        BY <2>1, <3>0
      <4>2. q[i + 1].n <= calls + 1 /\ q[1].n < q[i + 1].n
        BY <1>3, <1>4, <4>1
      <4> QED
        BY <2>1, <4>2
    <3>2. \A i, j \in 1 .. Len(held') : i < j => held'[i].n < held'[j].n
      <4> SUFFICES ASSUME NEW i \in 1 .. Len(held'), NEW j \in 1 .. Len(held'), i < j
                   PROVE  held'[i].n < held'[j].n
        OBVIOUS
      <4>1. i + 1 \in 1 .. Len(q) /\ j + 1 \in 1 .. Len(q) /\ i + 1 < j + 1
        BY <2>1, <3>0
      <4> QED
        BY <1>4, <2>1, <4>1
    <3>3. last'.n <= calls'
      BY <1>0, <1>2, <1>3, <2>1
    <3> QED
      BY <3>1, <3>2, <3>3 DEF Numbered
  <2>3. FirstIsIdr'
    BY <2>1 DEF FirstIsIdr
  <2> QED
    BY <1>0, <1>2, <1>3, <1>5, <2>1, <2>2, <2>3
<1> QED
  BY <1>6, <1>7 DEF Give

(* What InOrder says of a step.                                            *)
NextIsLater == last' # last => IF last = NoAu THEN last'.keyframe ELSE last'.n > last.n

LEMMA OrderStep == OrderInv /\ [Next]_vars => Numbered' /\ FirstIsIdr' /\ NextIsLater
<1> SUFFICES ASSUME OrderInv, [Next]_vars PROVE Numbered' /\ FirstIsIdr' /\ NextIsLater
  OBVIOUS
<1>0. TypeOK /\ CallsInv /\ SinkInv /\ Numbered /\ FirstIsIdr
  BY DEF OrderInv, EncodersInv
<1>00. /\ calls \in Nat /\ held \in Seq(Au) /\ last \in Au \cup {NoAu}
       /\ \A i \in 1 .. Len(held) : held[i].n \in Nat
       /\ last # NoAu => last.n \in Nat
  BY <1>0, EncodersAssumption, AuNumber DEF TypeOK
<1>1. CASE OpenX265 \/ OpenNvenc \/ OpenVideoToolbox \/ OpenFails \/ ConfigureFails \/ Call \/ Invalidate \/ ReleaseSink
  <2>1. UNCHANGED <<backend, calls, held, last, started>>
    BY <1>1 DEF OpenX265, OpenNvenc, OpenVideoToolbox, Opened, OpenFails, ConfigureFails, Call, Invalidate, ReleaseSink, codec
  <2>2. state' # "flushing" /\ (state' \in {"idle", "calling"} => state \in {"unopened", "idle"})
        /\ state' # "unopened"
    BY <1>1 DEF OpenX265, OpenNvenc, OpenVideoToolbox, Opened, OpenFails, ConfigureFails, Call, Invalidate, ReleaseSink
  <2> QED
    BY <1>0, <2>1, <2>2 DEF Numbered, FirstIsIdr, NextIsLater
<1>2. CASE ReturnsErr
  <2>1. UNCHANGED <<backend, held, last>> /\ calls' = calls + 1 /\ state' = "failed"
    BY <1>2 DEF ReturnsErr, Return, codec
  <2>2. Numbered'
    BY <1>0, <1>00, <2>1 DEF Numbered
  <2> QED
    BY <1>0, <2>1, <2>2 DEF FirstIsIdr, NextIsLater
<1>3. CASE EncodeX265 \/ EncodeNvenc
  <2>1. /\ state = "calling" /\ state' = "idle" /\ calls' = calls + 1 /\ backend.kind # "videotoolbox"
        /\ UNCHANGED backend /\ calls < MaxCalls
        /\ Give(Append(held, [n |-> calls + 1, keyframe |-> force \/ ~started]))
    BY <1>0, <1>3 DEF EncodeX265, EncodeNvenc, X265Type, Return, CallsInv
  <2>2. last = NoAu /\ held = <<>> => (force \/ ~started) = TRUE
    BY <1>0, <2>1 DEF FirstIsIdr
  <2>3. (force \/ ~started) \in BOOLEAN
    OBVIOUS
  <2>4. PICK k \in BOOLEAN : k = (force \/ ~started)
    BY <2>3
  <2>5. Give(Append(held, [n |-> calls + 1, keyframe |-> k]))
    BY <2>1, <2>4
  <2>6. last = NoAu /\ held = <<>> => k = TRUE
    BY <2>2, <2>4
  <2> QED
    BY <2>1, <2>5, <2>6, NextUnit DEF NextIsLater
<1>4. CASE Submit
  <2>1. /\ backend.kind = "videotoolbox" /\ state = "calling" /\ state' = "flushing"
        /\ UNCHANGED <<backend, calls, held, last, started, sink>>
    BY <1>4 DEF Submit, codec
  <2>2. sink'.au = {} /\ held' = <<>> /\ (last = NoAu => started = FALSE)
    BY <1>0, <2>1 DEF SinkInv, FirstIsIdr
  <2> QED
    BY <1>0, <2>1, <2>2 DEF Numbered, FirstIsIdr, NextIsLater
<1>5. ASSUME NEW n \in pending, CallbackAu(n) \/ CallbackError(n) \/ CallbackDropped(n)
      PROVE  Numbered' /\ FirstIsIdr' /\ NextIsLater
  <2>1. /\ UNCHANGED <<backend, state, calls, force, held, last>> /\ pending # {}
        /\ state \in {"flushing", "failed"}
    BY <1>0, <1>5 DEF CallbackAu, CallbackError, CallbackDropped, codec, SinkInv, TypeOK
  <2>2. CASE state = "failed"
    BY <1>0, <2>1, <2>2 DEF Numbered, FirstIsIdr, NextIsLater
  <2>3. CASE state = "flushing" /\ CallbackAu(n)
    <3>1. sink'.au = {[n |-> n, keyframe |-> force \/ ~started]}
      BY <1>0, <2>3 DEF CallbackAu, TypeOK
    <3>2. last = NoAu => started = FALSE
      BY <1>0, <2>1, <2>3 DEF FirstIsIdr, SinkInv
    <3>3. last = NoAu => (force \/ ~started) = TRUE
      BY <3>2
    <3>4. last = NoAu => sink'.au = {[n |-> n, keyframe |-> TRUE]}
      BY <3>1, <3>3, Zenon
    <3>5. last' = NoAu => \A au \in sink'.au : au.keyframe = TRUE
      BY <2>1, <3>4
    <3> QED
      BY <1>0, <2>1, <2>3, <3>1, <3>5 DEF Numbered, FirstIsIdr, NextIsLater
  <2>4. CASE state = "flushing" /\ (CallbackError(n) \/ CallbackDropped(n))
    <3>1. sink'.au = sink.au /\ started' = started
      BY <1>0, <2>4 DEF CallbackError, CallbackDropped, codec, TypeOK
    <3> QED
      BY <1>0, <2>1, <2>4, <3>1 DEF Numbered, FirstIsIdr, NextIsLater
  <2> QED
    BY <1>5, <2>1, <2>2, <2>3, <2>4
<1>6. CASE TakeSink
  <2>1. /\ UNCHANGED <<backend, held, started>> /\ calls' = calls + 1 /\ state = "flushing"
        /\ state' \in {"idle", "failed"} /\ backend.kind = "videotoolbox" /\ held = <<>>
    BY <1>0, <1>6 DEF TakeSink, Return, codec, FirstIsIdr
  <2>2. CASE last' = last
    <3>1. last = NoAu /\ state' = "idle" => started = FALSE
      <4> SUFFICES ASSUME last = NoAu, state' = "idle" PROVE started = FALSE
        OBVIOUS
      <4>1. sink.au # {} => last' \in sink.au
        BY <1>0, <1>6 DEF TakeSink, Return
      <4>2. NoAu \notin sink.au
        BY <1>0, EncodersAssumption DEF TypeOK
      <4> QED
        BY <1>0, <2>1, <2>2, <4>1, <4>2 DEF FirstIsIdr
    <3> QED
      BY <1>0, <1>00, <2>1, <2>2, <3>1 DEF Numbered, FirstIsIdr, NextIsLater
  <2>3. CASE last' # last
    <3>1. last' \in sink.au
      BY <1>6, <2>3 DEF TakeSink
    <3>2. last' \in Au /\ last'.n = calls + 1 /\ last' # NoAu /\ (last = NoAu => last'.keyframe = TRUE)
      BY <1>0, <2>1, <3>1, EncodersAssumption DEF TypeOK, CallsInv, FirstIsIdr
    <3> QED
      BY <1>0, <1>00, <2>1, <3>2 DEF Numbered, FirstIsIdr, NextIsLater
  <2> QED
    BY <2>2, <2>3
<1>7. CASE UNCHANGED vars
  BY <1>0, <1>7 DEF vars, codec, toolbox, Numbered, FirstIsIdr, NextIsLater
<1> QED
  BY <1>1, <1>2, <1>3, <1>4, <1>5, <1>6, <1>7 DEF Next, Callback

(* Whatever a codec holds back or drops, its units come out in the order   *)
(* of their frames, and the first is an IDR.                               *)
THEOREM OrderCorrect == Spec => InOrder
<1>1. Init => OrderInv
  BY InitInv DEF OrderInv, Numbered, FirstIsIdr, Init
<1>2. OrderInv /\ [Next]_vars => OrderInv' /\ [NextIsLater]_vars
  BY TypeStep, SinkStep, CallsStep, OrderStep DEF OrderInv, EncodersInv
<1>3. [][NextIsLater]_vars => InOrder
  BY DEF InOrder, NextIsLater
<1> QED
  BY <1>1, <1>2, <1>3, PTL DEF Spec

-----------------------------------------------------------------------------
(* The seam.  A codec that has put out a unit has coded a frame, and what  *)
(* VideoToolbox left in the sink is an IDR when that was due.              *)
StartedInv == last # NoAu \/ held # <<>> \/ sink.au # {} => started = TRUE

KeyInv ==
  state = "flushing" => \A au \in sink.au : au.keyframe = TRUE <=> force = TRUE \/ last = NoAu

SeamInv == OrderInv /\ StartedInv /\ KeyInv

(* A call into x265 or NVENC, with the type the frame was given.           *)
Coded(k) ==
  /\ state = "calling" /\ state' = "idle" /\ calls' = calls + 1
  /\ backend.kind # "videotoolbox" /\ UNCHANGED <<backend, force, sink>>
  /\ k \in BOOLEAN /\ (k = TRUE <=> force = TRUE \/ started = FALSE)
  /\ started' = TRUE
  /\ Give(Append(held, [n |-> calls + 1, keyframe |-> k]))

LEMMA CodedType ==
  ASSUME SeamInv, EncodeX265 \/ EncodeNvenc
  PROVE  \E k \in BOOLEAN : Coded(k)
<1>0. force \in BOOLEAN /\ started \in BOOLEAN
  BY DEF SeamInv, OrderInv, EncodersInv, TypeOK
<1>1. PICK k \in BOOLEAN : k = (force \/ ~started)
  OBVIOUS
<1>2. k = TRUE <=> force = TRUE \/ started = FALSE
  BY <1>0, <1>1
<1>3. Give(Append(held, [n |-> calls + 1, keyframe |-> k]))
  BY <1>1 DEF EncodeX265, EncodeNvenc, X265Type
<1>4. /\ state = "calling" /\ state' = "idle" /\ calls' = calls + 1 /\ started' = TRUE
      /\ backend.kind # "videotoolbox" /\ UNCHANGED <<backend, force, sink>>
  BY DEF EncodeX265, EncodeNvenc, Return, toolbox
<1> QED
  BY <1>2, <1>3, <1>4 DEF Coded

LEMMA StartedStep == SeamInv /\ [Next]_vars => StartedInv' /\ KeyInv'
<1> SUFFICES ASSUME SeamInv, [Next]_vars PROVE StartedInv' /\ KeyInv'
  OBVIOUS
<1>0. TypeOK /\ SinkInv /\ CallsInv /\ StartedInv /\ KeyInv /\ FirstIsIdr
  BY DEF SeamInv, OrderInv, EncodersInv
<1>1. CASE OpenX265 \/ OpenNvenc \/ OpenVideoToolbox \/ OpenFails \/ ConfigureFails \/ Call
           \/ Invalidate \/ ReleaseSink \/ ReturnsErr
  <2>1. UNCHANGED <<held, last, started, sink>> /\ state' # "flushing"
    BY <1>1 DEF OpenX265, OpenNvenc, OpenVideoToolbox, Opened, OpenFails, ConfigureFails, Call,
         Invalidate, ReleaseSink, ReturnsErr, Return, codec, toolbox
  <2> QED
    BY <1>0, <2>1 DEF StartedInv, KeyInv
<1>2. CASE EncodeX265 \/ EncodeNvenc
  <2>1. state' = "idle" /\ started' = TRUE
    BY <1>2 DEF EncodeX265, EncodeNvenc, Return
  <2> QED
    BY <2>1 DEF StartedInv, KeyInv
<1>3. CASE Submit
  <2>1. UNCHANGED <<held, last, started, sink>> /\ sink.au = {}
    BY <1>0, <1>3 DEF Submit, codec, SinkInv
  <2> QED
    BY <1>0, <2>1 DEF StartedInv, KeyInv
<1>4. ASSUME NEW n \in pending, CallbackAu(n) PROVE StartedInv' /\ KeyInv'
  <2>1. /\ UNCHANGED <<state, force, held, last>> /\ started' = TRUE
        /\ sink'.au = {[n |-> n, keyframe |-> force \/ ~started]}
    BY <1>0, <1>4 DEF CallbackAu, TypeOK
  <2>2. state = "flushing" => (started = FALSE <=> last = NoAu)
    BY <1>0, <1>4 DEF SinkInv, FirstIsIdr, StartedInv, TypeOK
  <2>3. PICK k \in BOOLEAN : k = (force \/ ~started)
    OBVIOUS
  <2>4. k = TRUE <=> force = TRUE \/ started = FALSE
    BY <1>0, <2>3 DEF TypeOK
  <2>5. sink'.au = {[n |-> n, keyframe |-> k]}
    BY <2>1, <2>3
  <2> QED
    BY <2>1, <2>2, <2>4, <2>5 DEF StartedInv, KeyInv
<1>5. ASSUME NEW n \in pending, CallbackError(n) \/ CallbackDropped(n)
      PROVE  StartedInv' /\ KeyInv'
  <2>1. UNCHANGED <<state, force, held, last, started>> /\ sink'.au = sink.au
    BY <1>0, <1>5 DEF CallbackError, CallbackDropped, codec, TypeOK
  <2> QED
    BY <1>0, <2>1 DEF StartedInv, KeyInv
<1>6. CASE TakeSink
  <2>1. UNCHANGED <<held, started>> /\ state' # "flushing" /\ sink'.au \subseteq sink.au
        /\ (last' # last => sink.au # {})
    BY <1>0, <1>6 DEF TakeSink, Return, codec, TypeOK
  <2> QED
    BY <1>0, <2>1 DEF StartedInv, KeyInv
<1>7. CASE UNCHANGED vars
  BY <1>0, <1>7 DEF vars, codec, toolbox, StartedInv, KeyInv
<1> QED
  BY <1>1, <1>2, <1>3, <1>4, <1>5, <1>6, <1>7 DEF Next, Callback

view == <<backend.holds = 0, calls, force, last>>

(* A step that returns a unit is one of the seam.                          *)
LEMMA ReturnIsSeam ==
  ASSUME SeamInv, SeamInv', NextIsLater, last' # last, last' \in Au, calls' = calls + 1,
         UNCHANGED <<backend, force>>,
         backend.holds = 0 =>
           /\ last'.n = calls + 1
           /\ (last'.keyframe = TRUE <=> force = TRUE \/ last = NoAu)
  PROVE  Seam!Next
<1>0. calls \in Nat /\ force \in BOOLEAN
  BY EncodersAssumption DEF SeamInv, OrderInv, EncodersInv, TypeOK
<1>1. last' # NoAu /\ last'.n <= calls'
  BY EncodersAssumption DEF SeamInv, OrderInv, Numbered
<1>2. PICK n \in 1 .. MaxCalls, k \in BOOLEAN : last' = [n |-> n, keyframe |-> k]
  BY DEF Au
<1>3. n \in 1 .. calls + 1
  BY <1>0, <1>1, <1>2, EncodersAssumption
<1>4. IF last = NoAu THEN k ELSE n > last.n
  BY <1>2 DEF NextIsLater
<1>5. backend.holds = 0 => n = calls + 1 /\ k = (force \/ last = NoAu)
  BY <1>0, <1>2
<1>6. Seam!ReturnAu(n, k)
  BY <1>2, <1>4, <1>5 DEF Seam!ReturnAu
<1> QED
  BY <1>3, <1>6 DEF Seam!Next

LEMMA SeamStep ==
  ASSUME SeamInv, SeamInv', NextIsLater, [Next]_vars
  PROVE  [Seam!Next]_view
<1>0. TypeOK /\ CallsInv /\ StartedInv /\ KeyInv /\ FirstIsIdr
  BY DEF SeamInv, OrderInv, EncodersInv
<1>1. CASE OpenX265 \/ OpenNvenc \/ OpenVideoToolbox \/ OpenFails \/ ConfigureFails
           \/ Submit \/ Invalidate \/ ReleaseSink \/ UNCHANGED vars
  BY <1>1 DEF OpenX265, OpenNvenc, OpenVideoToolbox, Opened, OpenFails, ConfigureFails, Submit,
       Invalidate, ReleaseSink, vars, view
<1>2. CASE Call
  BY <1>2 DEF Call, Seam!Next, Seam!Ask
<1>3. CASE ReturnsErr
  BY <1>3 DEF ReturnsErr, Return, Seam!Next, Seam!ReturnNothing
<1>4. CASE EncodeX265 \/ EncodeNvenc
  <2>1. PICK k \in BOOLEAN : Coded(k)
    BY <1>4, CodedType
  <2>2. CASE last' = last
    BY <2>1, <2>2 DEF Coded, Seam!Next, Seam!ReturnNothing
  <2>3. CASE last' # last
    <3>1. backend.holds = 0 =>
            /\ last'.n = calls + 1
            /\ (last'.keyframe = TRUE <=> force = TRUE \/ last = NoAu)
      <4> SUFFICES ASSUME backend.holds = 0
                   PROVE  /\ last'.n = calls + 1
                          /\ (last'.keyframe = TRUE <=> force = TRUE \/ last = NoAu)
        OBVIOUS
      <4>1. held = <<>> /\ held \in Seq(Au)
        BY <1>0 DEF TypeOK
      <4>2. last' = [n |-> calls + 1, keyframe |-> k]
        BY <2>1, <2>3, <4>1 DEF Coded, Give
      <4>3. started = FALSE <=> last = NoAu
        BY <1>0, <2>1, <4>1 DEF Coded, FirstIsIdr, StartedInv, TypeOK
      <4> QED
        BY <2>1, <4>2, <4>3 DEF Coded
    <3>2. last' \in Au
      <4> DEFINE au == [n |-> calls + 1, keyframe |-> k]
      <4>1. au \in Au
        BY <1>0, <2>1, AuType, EncodersAssumption DEF Coded, CallsInv, TypeOK
      <4>2. Append(held, au) \in Seq(Au) /\ Append(held, au) # <<>>
        BY <1>0, <4>1 DEF TypeOK
      <4> QED
        BY <2>1, <2>3, <4>2 DEF Coded, Give
    <3> QED
      BY <2>1, <2>3, <3>1, <3>2, ReturnIsSeam DEF Coded
  <2> QED
    BY <2>2, <2>3
<1>5. ASSUME NEW n \in pending, CallbackAu(n) \/ CallbackError(n) \/ CallbackDropped(n)
      PROVE  [Seam!Next]_view
  BY <1>5 DEF CallbackAu, CallbackError, CallbackDropped, view
<1>6. CASE TakeSink
  <2>1. state = "flushing" /\ calls' = calls + 1 /\ UNCHANGED <<backend, force>>
        /\ (last' # last => last' \in sink.au)
    BY <1>6 DEF TakeSink, Return
  <2>2. CASE last' = last
    BY <2>1, <2>2 DEF Seam!Next, Seam!ReturnNothing
  <2>3. CASE last' # last
    <3>1. last' \in Au /\ last'.n = calls + 1 /\ (last'.keyframe = TRUE <=> force = TRUE \/ last = NoAu)
      BY <1>0, <2>1, <2>3 DEF CallsInv, KeyInv, TypeOK
    <3> QED
      BY <2>1, <2>3, <3>1, ReturnIsSeam
  <2> QED
    BY <2>2, <2>3
<1> QED
  BY <1>1, <1>2, <1>3, <1>4, <1>5, <1>6 DEF Next, Callback

(* Each of the three encoders is what EncoderSeam says an encoder is,      *)
(* however many frames its codec holds back, whenever the callback comes   *)
(* and whatever fails.                                                     *)
THEOREM SeamCorrect == Spec => ImplementsSeam
<1>1. Init => SeamInv /\ Seam!Init
  BY InitInv DEF SeamInv, OrderInv, Numbered, FirstIsIdr, StartedInv, KeyInv, Init, Seam!Init
<1>2. SeamInv /\ [Next]_vars => SeamInv' /\ NextIsLater
  BY TypeStep, SinkStep, CallsStep, OrderStep, StartedStep DEF SeamInv, OrderInv, EncodersInv
<1>3. SeamInv /\ [Next]_vars => [Seam!Next]_view
  BY <1>2, SeamStep
<1> QED
  BY <1>1, <1>2, <1>3, PTL DEF Spec, ImplementsSeam, Seam!Spec, view

-----------------------------------------------------------------------------
(* The bitstream: AnnexB.                                                  *)
(*                                                                         *)
(* A set of naturals that is not empty has a least element.                *)
LEMMA LeastExists ==
  ASSUME NEW S \in SUBSET Nat, S # {}
  PROVE  \E n \in S : \A m \in S : n <= m
<1>1. PICK Less : /\ IsWellFoundedOn(Less, Nat)
                  /\ \A x, y \in Nat : <<y, x>> \in Less <=> y < x
  <2>1. IsWellFoundedOn(OpToRel(<, Nat), Nat)
    BY NatLessThanWellFounded
  <2>2. \A x, y \in Nat : <<y, x>> \in OpToRel(<, Nat) <=> y < x
    BY DEF OpToRel
  <2> QED
    BY <2>1, <2>2, Zenon
<1>2. PICK x \in S : \A y \in S : ~(<<y, x>> \in Less)
  BY <1>1, WFMin
<1>3. ASSUME NEW y \in S PROVE x <= y
  <2>1. ~(y < x)
    BY <1>1, <1>2, Zenon
  <2> QED
    BY <2>1
<1> QED
  BY <1>3

-----------------------------------------------------------------------------
(* Length prefixes.                                                        *)
Byte == 0 .. 255

Values(f, b) == f = [n \in 0 .. Len(b) |-> IF n = 0 THEN 0 ELSE 256 * f[n - 1] + b[n]]

(* The number so many bytes make, by their count.                          *)
Number(b, n) ==
  IF n = 0 THEN 0
  ELSE IF n = 1 THEN b[1]
  ELSE IF n = 2 THEN 256 * b[1] + b[2]
  ELSE IF n = 3 THEN 256 * (256 * b[1] + b[2]) + b[3]
  ELSE 256 * (256 * (256 * b[1] + b[2]) + b[3]) + b[4]

LEMMA ByteAt ==
  ASSUME NEW b \in Seq(Byte), NEW i \in 1 .. Len(b)
  PROVE  b[i] \in 0 .. 255
  BY ElementOfSeq DEF Byte

LEMMA Horner ==
  ASSUME NEW b, NEW n \in 0 .. 4, \A i \in 1 .. n : b[i] \in 0 .. 255
  PROVE  /\ Number(b, n) \in Nat
         /\ Number(b, n) = IF n = 0 THEN 0 ELSE 256 * Number(b, n - 1) + b[n]
<1>0. n = 0 \/ n = 1 \/ n = 2 \/ n = 3 \/ n = 4
  OBVIOUS
<1> DEFINE b1 == b[1]
           b2 == 256 * b1 + b[2]
           b3 == 256 * b2 + b[3]
<1>n. /\ Number(b, 0) = 0 /\ Number(b, 1) = b1 /\ Number(b, 2) = b2 /\ Number(b, 3) = b3
      /\ Number(b, 4) = 256 * b3 + b[4]
  BY DEF Number
<1>a. n >= 1 => b1 \in Nat
  BY SMT
<1>b. n >= 2 => b2 \in Nat
  <2>1. n >= 2 => b[2] \in Nat
    BY SMT
  <2> HIDE DEF b1
  <2> QED
    BY <1>a, <2>1, SMT
<1>c. n >= 3 => b3 \in Nat
  <2>1. n >= 3 => b[3] \in Nat
    BY SMT
  <2> HIDE DEF b1, b2
  <2> QED
    BY <1>b, <2>1, SMT
<1>d. n >= 4 => 256 * b3 + b[4] \in Nat
  <2>1. n >= 4 => b[4] \in Nat
    BY SMT
  <2> HIDE DEF b1, b2, b3
  <2> QED
    BY <1>c, <2>1, SMT
<1>e. b1 = b[1] /\ b2 = 256 * b1 + b[2] /\ b3 = 256 * b2 + b[3]
  OBVIOUS
<1> HIDE DEF b1, b2, b3
<1>1. CASE n = 0
  BY <1>1, <1>n, SMT
<1>2. CASE n = 1
  BY <1>2, <1>n, <1>a, <1>e, SMT
<1>3. CASE n = 2
  BY <1>3, <1>n, <1>b, <1>e, SMT
<1>4. CASE n = 3
  BY <1>4, <1>n, <1>c, <1>e, SMT
<1>5. CASE n = 4
  BY <1>5, <1>n, <1>d, SMT
<1> QED
  BY <1>0, <1>1, <1>2, <1>3, <1>4, <1>5

LEMMA BigEndianIs ==
  ASSUME NEW b \in Seq(Byte), Len(b) \in 1 .. 4
  PROVE  BigEndian(b) = Number(b, Len(b))
<1> DEFINE g == [n \in 0 .. Len(b) |-> Number(b, n)]
           h == CHOOSE f : Values(f, b)
<1>0. /\ Len(b) = 1 \/ Len(b) = 2 \/ Len(b) = 3 \/ Len(b) = 4
      /\ \A i \in 1 .. Len(b) : b[i] \in 0 .. 255
  BY ByteAt
<1>5. \A n \in 0 .. Len(b) : g[n] = IF n = 0 THEN 0 ELSE 256 * g[n - 1] + b[n]
  <2> SUFFICES ASSUME NEW n \in 0 .. Len(b)
               PROVE  g[n] = IF n = 0 THEN 0 ELSE 256 * g[n - 1] + b[n]
    OBVIOUS
  <2>1. Number(b, n) = IF n = 0 THEN 0 ELSE 256 * Number(b, n - 1) + b[n]
    <3>1. n \in 0 .. 4 /\ \A i \in 1 .. n : b[i] \in 0 .. 255
      BY <1>0
    <3> QED
      BY <3>1, Horner
  <2>2. g[n] = Number(b, n) /\ (n # 0 => g[n - 1] = Number(b, n - 1))
    BY <1>0
  <2> QED
    BY <2>1, <2>2
<1>1. Values(g, b)
  BY <1>5 DEF Values
<1>2. Values(h, b)
  BY <1>1
<1>3. BigEndian(b) = h[Len(b)]
  BY DEF BigEndian, Values
<1>4. \A n \in 0 .. Len(b) : h[n] = IF n = 0 THEN 0 ELSE 256 * h[n - 1] + b[n]
  BY <1>2, Zenon DEF Values
<1>g. g[Len(b)] = Number(b, Len(b))
  BY <1>0
<1> HIDE DEF g, h
<1>6. h[0] = g[0]
  BY <1>0, <1>4, <1>5
<1>7. 1 <= Len(b) => h[1] = g[1]
  BY <1>0, <1>4, <1>5, <1>6
<1>8. 2 <= Len(b) => h[2] = g[2]
  BY <1>0, <1>4, <1>5, <1>7
<1>9. 3 <= Len(b) => h[3] = g[3]
  BY <1>0, <1>4, <1>5, <1>8
<1>10. 4 <= Len(b) => h[4] = g[4]
  BY <1>0, <1>4, <1>5, <1>9
<1>11. h[Len(b)] = g[Len(b)]
  <2>1. CASE Len(b) = 1
    BY <1>7, <2>1
  <2>2. CASE Len(b) = 2
    BY <1>8, <2>2
  <2>3. CASE Len(b) = 3
    BY <1>9, <2>3
  <2>4. CASE Len(b) = 4
    BY <1>10, <2>4
  <2> QED
    BY <1>0, <2>1, <2>2, <2>3, <2>4
<1> QED
  BY <1>3, <1>11, <1>g

LEMMA Shifts ==
  ASSUME NEW n
  PROVE  /\ Shifted(n, 0) = n /\ Shifted(n, 1) = n \div 256
         /\ Shifted(n, 2) = (n \div 256) \div 256
         /\ Shifted(n, 3) = ((n \div 256) \div 256) \div 256
  BY DEF Shifted

(* The last byte of a number and the number before it.                     *)
LEMMA SplitByte ==
  ASSUME NEW n \in Nat
  PROVE  /\ n \div 256 \in Nat /\ (n % 256) \in 0 .. 255
         /\ n = 256 * (n \div 256) + (n % 256)
         /\ n < 256 => n \div 256 = 0 /\ n % 256 = n
  BY SMT

(* The bytes of a prefix are the digits of the length they make.           *)
LEMMA DigitsOfNumber ==
  ASSUME NEW b \in Seq(Byte), Len(b) \in 1 .. 4
  PROVE  /\ BigEndian(b) \in Nat
         /\ Shifted(BigEndian(b), Len(b) - 1) < 256
         /\ Digits(BigEndian(b), Len(b)) = b
<1> DEFINE N(n) == Number(b, n)
           k == Len(b)
<1>0. k \in 1 .. 4 /\ b = [i \in 1 .. k |-> b[i]] /\ \A i \in 1 .. k : b[i] \in 0 .. 255
  BY ByteAt
<1>1. BigEndian(b) = N(k)
  BY BigEndianIs
<1>2. \A n \in 0 .. k : N(n) \in Nat
  <2> SUFFICES ASSUME NEW n \in 0 .. k PROVE N(n) \in Nat
    OBVIOUS
  <2>1. n \in 0 .. 4 /\ \A i \in 1 .. n : b[i] \in 0 .. 255
    BY <1>0
  <2> QED
    BY <2>1, Horner
<1>3. \A n \in 1 .. k : N(n) \div 256 = N(n - 1) /\ N(n) % 256 = b[n]
  <2> SUFFICES ASSUME NEW n \in 1 .. k
               PROVE  N(n) \div 256 = N(n - 1) /\ N(n) % 256 = b[n]
    OBVIOUS
  <2>1. n \in 0 .. 4 /\ n # 0 /\ n - 1 \in 0 .. k /\ \A i \in 1 .. n : b[i] \in 0 .. 255
    BY <1>0
  <2>2. N(n) = 256 * N(n - 1) + b[n]
    BY <2>1, Horner
  <2> HIDE DEF N
  <2>a. N(n) \in Nat /\ N(n - 1) \in Nat /\ b[n] \in 0 .. 255
    BY <1>0, <1>2, <2>1
  <2>3. PICK p \in Nat, q \in Nat, r \in 0 .. 255 : p = N(n) /\ q = N(n - 1) /\ r = b[n]
    BY <2>a, Zenon
  <2>4. p = 256 * q + r
    BY <2>2, <2>3, Zenon
  <2>5. p \div 256 = q /\ p % 256 = r
    BY <2>4
  <2>6. N(n) \div 256 = N(n - 1)
    BY <2>3, <2>5
  <2>7. N(n) % 256 = b[n]
    BY <2>3, <2>5
  <2> QED
    BY <2>6, <2>7
<1>4. N(0) = 0 /\ N(1) = b[1]
  BY DEF Number
<1> HIDE DEF N, k
<1>5. \A i \in 1 .. k : Shifted(N(k), k - i) = N(i)
  <2>1. CASE k = 1
    BY <2>1, Shifts
  <2>2. CASE k = 2
    <3>1. N(2) \div 256 = N(1)
      BY <1>3, <2>2
    <3> QED
      BY <2>2, <3>1, Shifts
  <2>3. CASE k = 3
    <3>1. N(3) \div 256 = N(2) /\ N(2) \div 256 = N(1)
      BY <1>3, <2>3
    <3> QED
      BY <2>3, <3>1, Shifts
  <2>4. CASE k = 4
    <3>1. N(4) \div 256 = N(3) /\ N(3) \div 256 = N(2) /\ N(2) \div 256 = N(1)
      BY <1>3, <2>4
    <3> QED
      BY <2>4, <3>1, Shifts
  <2> QED
    BY <1>0, <2>1, <2>2, <2>3, <2>4
<1>6. Shifted(N(k), k - 1) < 256
  <2>0. 1 \in 1 .. k
    BY <1>0
  <2>1. Shifted(N(k), k - 1) = b[1]
    BY <1>4, <1>5, <2>0, Zenon
  <2>2. b[1] \in 0 .. 255
    BY <1>0, <2>0, Zenon
  <2>3. ASSUME NEW x \in 0 .. 255 PROVE x < 256
    OBVIOUS
  <2> QED
    BY <2>1, <2>2, <2>3, Zenon
<1>7. \A i \in 1 .. k : Shifted(N(k), k - i) % 256 = b[i]
  BY <1>3, <1>5
<1>8. Digits(N(k), k) = b
  BY <1>0, <1>7 DEF Digits
<1> QED
  BY <1>0, <1>1, <1>2, <1>6, <1>8 DEF k

(* And a length that fits is the number of its digits.                     *)
LEMMA NumberOfDigits ==
  ASSUME NEW k \in 1 .. 4, NEW n \in Nat, Shifted(n, k - 1) < 256
  PROVE  /\ Digits(n, k) \in Seq(Byte) /\ Len(Digits(n, k)) = k
         /\ BigEndian(Digits(n, k)) = n
<1> DEFINE b == Digits(n, k)
           s1 == n \div 256
           s2 == s1 \div 256
           s3 == s2 \div 256
<1>0. k = 1 \/ k = 2 \/ k = 3 \/ k = 4
  OBVIOUS
<1>1. /\ s1 \in Nat /\ (n % 256) \in 0 .. 255 /\ n = 256 * s1 + (n % 256)
      /\ n < 256 => s1 = 0 /\ n % 256 = n
  BY SplitByte
<1>2. /\ s2 \in Nat /\ (s1 % 256) \in 0 .. 255 /\ s1 = 256 * s2 + (s1 % 256)
      /\ s1 < 256 => s2 = 0 /\ s1 % 256 = s1
  BY <1>1, SplitByte
<1>3. /\ s3 \in Nat /\ (s2 % 256) \in 0 .. 255 /\ s2 = 256 * s3 + (s2 % 256)
      /\ s2 < 256 => s3 = 0 /\ s2 % 256 = s2
  BY <1>2, SplitByte
<1>4. (s3 % 256) \in 0 .. 255 /\ (s3 < 256 => s3 % 256 = s3)
  BY <1>3, SplitByte
<1>5. /\ Shifted(n, 0) = n /\ Shifted(n, 1) = s1 /\ Shifted(n, 2) = s2 /\ Shifted(n, 3) = s3
  BY Shifts
<1> HIDE DEF s1, s2, s3
<1>6. \A i \in 1 .. k : (Shifted(n, k - i) % 256) \in 0 .. 255
  <2> SUFFICES ASSUME NEW i \in 1 .. k
               PROVE  (Shifted(n, k - i) % 256) \in 0 .. 255
    OBVIOUS
  <2>1. k - i = 0 \/ k - i = 1 \/ k - i = 2 \/ k - i = 3
    BY <1>0
  <2>2. /\ (Shifted(n, 0) % 256) \in 0 .. 255 /\ (Shifted(n, 1) % 256) \in 0 .. 255
        /\ (Shifted(n, 2) % 256) \in 0 .. 255 /\ (Shifted(n, 3) % 256) \in 0 .. 255
    BY <1>1, <1>2, <1>3, <1>4, <1>5, ZenonT(40)
  <2> QED
    BY <2>1, <2>2, ZenonT(40)
<1>7. b \in Seq(Byte) /\ Len(b) = k /\ \A i \in 1 .. k : b[i] = Shifted(n, k - i) % 256
  BY <1>6 DEF Digits, Byte
<1> HIDE DEF b
<1>8. BigEndian(b) = Number(b, k)
  BY <1>7, BigEndianIs
<1>9. Number(b, k) = n
  <2>1. CASE k = 1
    <3>1. n < 256 /\ b[1] = n % 256
      BY <1>5, <1>7, <2>1
    <3> QED
      BY <1>1, <2>1, <3>1 DEF Number
  <2>2. CASE k = 2
    <3>1. s1 < 256 /\ b[1] = s1 % 256 /\ b[2] = n % 256
      BY <1>5, <1>7, <2>2
    <3>2. b[1] = s1
      BY <1>2, <3>1
    <3> QED
      BY <1>1, <2>2, <3>1, <3>2 DEF Number
  <2>3. CASE k = 3
    <3>1. s2 < 256 /\ b[1] = s2 % 256 /\ b[2] = s1 % 256 /\ b[3] = n % 256
      BY <1>5, <1>7, <2>3
    <3>2. b[1] = s2
      BY <1>3, <3>1
    <3>3. 256 * b[1] + b[2] = s1
      BY <1>2, <3>1, <3>2
    <3> QED
      BY <1>1, <2>3, <3>1, <3>3 DEF Number
  <2>4. CASE k = 4
    <3>1. /\ s3 < 256 /\ b[1] = s3 % 256 /\ b[2] = s2 % 256 /\ b[3] = s1 % 256
          /\ b[4] = n % 256
      BY <1>5, <1>7, <2>4
    <3>2. b[1] = s3
      BY <1>4, <3>1
    <3>3. 256 * b[1] + b[2] = s2
      BY <1>3, <3>1, <3>2
    <3>4. 256 * (256 * b[1] + b[2]) + b[3] = s1
      BY <1>2, <3>1, <3>3
    <3> QED
      BY <1>1, <2>4, <3>1, <3>4 DEF Number
  <2> QED
    BY <1>0, <2>1, <2>2, <2>3, <2>4
<1> QED
  BY <1>7, <1>8, <1>9 DEF b

-----------------------------------------------------------------------------
(* What append has walked over: from each position to the next, a prefix   *)
(* and the NAL unit it announces.                                          *)
Unit(s, t, nal) ==
  /\ t > s + size /\ Fits(t - (s + size))
  /\ nal = SubSeq(src, s + size + 1, t)
  /\ SubSeq(src, s + 1, t) = Prefixed(nal)

Walked(at, nals) ==
  /\ at \in [0 .. Len(nals) -> 0 .. Len(src)] /\ at[0] = 0 /\ at[Len(nals)] = offset
  /\ \A k \in 1 .. Len(nals) : Unit(at[k - 1], at[k], nals[k])

Lead == IF result = "done" /\ keyframe /\ repeat THEN Sets ELSE <<>>

InputsOK == src \in Seq(Byte) /\ size \in 1 .. 4 /\ repeat \in BOOLEAN

Refused == {"truncated", "exceeds", "empty"}

OutInv ==
  \E nals \in Seq(Seq(Byte)) :
    /\ \E at : Walked(at, nals)
    /\ out = Lead \o nals
    /\ keyframe <=> \E i \in DOMAIN nals : IsIdr(nals[i])

(* No cut of the access unit misses the position append has come to: each  *)
(* prefix leaves it one way on, and none where append gives up.            *)
CutInv ==
  /\ \A S \in SUBSET (0 .. Len(src)) : IsCut(S) => offset \in S /\ result \notin Refused
  /\ result \in {"done", "no set"} => offset = Len(src)

BitInv ==
  /\ InputsOK
  /\ offset \in 0 .. Len(src) /\ keyframe \in BOOLEAN
  /\ result \in {"walking", "done", "no set"} \cup Refused
  /\ OutInv /\ CutInv

(* The one way on.                                                         *)
LEMMA PrefixAt ==
  ASSUME InputsOK, NEW o \in 0 .. Len(src), o + size <= Len(src)
  PROVE  LET b == SubSeq(src, o + 1, o + size)
         IN  b \in Seq(Byte) /\ Len(b) = size /\ LengthAt(o) = BigEndian(b)
<1>1. o + 1 \in Int /\ o + size \in Int /\ Len(src) \in Nat /\ size \in 1 .. 4
  BY DEF InputsOK
<1>2. \A i \in o + 1 .. o + size : src[i] \in Byte
  <2>1. \A i \in 1 .. Len(src) : src[i] \in Byte
    BY ElementOfSeq DEF InputsOK
  <2> QED
    BY <1>1, <2>1
<1>3. SubSeq(src, o + 1, o + size) \in Seq(Byte)
  BY <1>1, <1>2, SubSeqProperties
<1>4. Len(SubSeq(src, o + 1, o + size)) = size
  BY <1>1, <1>2, SubSeqProperties
<1> QED
  BY <1>3, <1>4 DEF LengthAt

LEMMA NalAt ==
  ASSUME InputsOK, NEW o \in 0 .. Len(src), NEW t \in 0 .. Len(src), o + size < t
  PROVE  LET b   == SubSeq(src, o + 1, o + size)
             nal == SubSeq(src, o + size + 1, t)
         IN  /\ nal \in Seq(Byte) /\ Len(nal) = t - (o + size)
             /\ SubSeq(src, o + 1, t) = b \o nal
<1>1. o + size + 1 \in Int /\ t \in Int /\ Len(src) \in Nat /\ size \in 1 .. 4
  BY DEF InputsOK
<1>2. \A i \in o + size + 1 .. t : src[i] \in Byte
  <2>1. \A i \in 1 .. Len(src) : src[i] \in Byte
    BY ElementOfSeq DEF InputsOK
  <2> QED
    BY <1>1, <2>1
<1>3. SubSeq(src, o + size + 1, t) \in Seq(Byte)
  BY <1>1, <1>2, SubSeqProperties
<1>4. Len(SubSeq(src, o + size + 1, t)) = t - (o + size)
  <2>1. Len(SubSeq(src, o + size + 1, t)) = t - (o + size + 1) + 1
    BY <1>1, <1>2, SubSeqProperties
  <2> QED
    BY <1>1, <2>1
<1>5. SubSeq(src, o + 1, o + size) \o SubSeq(src, o + size + 1, t) = SubSeq(src, o + 1, t)
  <2>1. /\ o + 1 \in 1 .. Len(src) + 1 /\ o + size \in (o + 1) - 1 .. Len(src)
        /\ t \in o + size .. Len(src)
    BY <1>1
  <2> QED
    BY <2>1, ConcatAdjacentSubSeq DEF InputsOK
<1> QED
  BY <1>3, <1>4, <1>5

LEMMA UnitAt ==
  ASSUME InputsOK, NEW o \in 0 .. Len(src), o + size + LengthAt(o) <= Len(src),
         o + size <= Len(src), LengthAt(o) # 0
  PROVE  LET t == o + size + LengthAt(o)
         IN  /\ t \in 0 .. Len(src) /\ SubSeq(src, o + size + 1, t) \in Seq(Byte)
             /\ Unit(o, t, SubSeq(src, o + size + 1, t))
<1> DEFINE b == SubSeq(src, o + 1, o + size)
           n == LengthAt(o)
           t == o + size + n
           nal == SubSeq(src, o + size + 1, t)
<1>0. size \in 1 .. 4 /\ Len(src) \in Nat
  BY DEF InputsOK
<1>1. b \in Seq(Byte) /\ Len(b) = size /\ n = BigEndian(b)
  BY PrefixAt
<1>2. n \in Nat /\ Shifted(n, size - 1) < 256 /\ Digits(n, size) = b
  BY <1>0, <1>1, DigitsOfNumber
<1> HIDE DEF b, n
<1>3. t \in 0 .. Len(src) /\ o + size < t /\ t - (o + size) = n
  BY <1>0, <1>2 DEF n
<1>4. nal \in Seq(Byte) /\ Len(nal) = n /\ SubSeq(src, o + 1, t) = b \o nal
  BY <1>3, NalAt DEF b
<1> QED
  BY <1>2, <1>3, <1>4 DEF Unit, Fits, Prefixed, n

LEMMA OnlyUnit ==
  ASSUME InputsOK, NEW o \in 0 .. Len(src), NEW t \in 0 .. Len(src),
         Unit(o, t, SubSeq(src, o + size + 1, t))
  PROVE  o + size < t /\ LengthAt(o) = t - (o + size) /\ LengthAt(o) # 0
<1> DEFINE b == SubSeq(src, o + 1, o + size)
           nal == SubSeq(src, o + size + 1, t)
           n == t - (o + size)
<1>0. size \in 1 .. 4 /\ Len(src) \in Nat
  BY DEF InputsOK
<1>1. o + size < t /\ Shifted(n, size - 1) < 256 /\ SubSeq(src, o + 1, t) = Prefixed(nal)
  BY <1>0 DEF Unit, Fits
<1>2. b \in Seq(Byte) /\ Len(b) = size /\ LengthAt(o) = BigEndian(b)
  BY <1>0, <1>1, PrefixAt
<1>3. nal \in Seq(Byte) /\ Len(nal) = n /\ SubSeq(src, o + 1, t) = b \o nal
  BY <1>1, NalAt
<1>4. n \in Nat /\ n # 0
  BY <1>0, <1>1
<1> HIDE DEF b, n, nal
<1>5. /\ Digits(n, size) \in Seq(Byte) /\ Len(Digits(n, size)) = size
      /\ BigEndian(Digits(n, size)) = n
  BY <1>0, <1>1, <1>4, NumberOfDigits
<1>6. Digits(n, size) \o nal = b \o nal
  BY <1>1, <1>3 DEF Prefixed
<1>7. Digits(n, size) = b
  <2> DEFINE d == Digits(n, size)
  <2> HIDE DEF d
  <2>1. d \in Seq(Byte) /\ Len(d) = Len(b) /\ d \o nal = b \o nal
    BY <1>2, <1>5, <1>6 DEF d
  <2>2. \A i \in 1 .. Len(b) : d[i] = b[i]
    <3> TAKE i \in 1 .. Len(b)
    <3>1. i <= Len(d) /\ i \in 1 .. Len(d) + Len(nal) /\ i \in 1 .. Len(b) + Len(nal)
      BY <1>0, <1>2, <1>3, <1>4, <2>1
    <3>2. (d \o nal)[i] = d[i] /\ (b \o nal)[i] = b[i]
      BY <1>2, <1>3, <2>1, <3>1, ConcatProperties
    <3> QED
      BY <2>1, <3>2
  <2> QED
    BY <1>2, <2>1, <2>2, SeqEqual DEF d
<1> QED
  BY <1>1, <1>2, <1>4, <1>5, <1>7 DEF n

LEMMA NextCut ==
  ASSUME InputsOK, NEW S \in SUBSET (0 .. Len(src)), IsCut(S), offset \in S,
         offset < Len(src)
  PROVE  offset + size <= Len(src) /\ LengthAt(offset) # 0 /\ End <= Len(src) /\ End \in S
<1>0. size \in 1 .. 4 /\ Len(src) \in Nat /\ offset \in 0 .. Len(src)
  BY DEF InputsOK
<1>1. PICK t \in S : /\ t > offset + size /\ Fits(t - (offset + size))
                     /\ SubSeq(src, offset + 1, t) = Prefixed(SubSeq(src, offset + size + 1, t))
  BY <1>0 DEF IsCut, CutOf
<1>2. Unit(offset, t, SubSeq(src, offset + size + 1, t)) /\ t \in 0 .. Len(src)
  BY <1>1 DEF Unit
<1>3. offset + size < t /\ LengthAt(offset) = t - (offset + size) /\ LengthAt(offset) # 0
  BY <1>0, <1>2, OnlyUnit
<1>4. End = t
  BY <1>0, <1>2, <1>3 DEF End
<1> QED
  BY <1>0, <1>2, <1>3, <1>4

LEMMA WalkedMeans ==
  ASSUME InputsOK, NEW nals \in Seq(Seq(Byte)), NEW at, Walked(at, nals),
         NEW m, m = Len(nals)
  PROVE  /\ m \in Nat /\ size \in 1 .. 4 /\ Len(src) \in Nat /\ src \in Seq(Byte)
         /\ \A k \in 0 .. m : at[k] \in 0 .. Len(src)
         /\ at[0] = 0 /\ at[m] = offset
         /\ \A k \in 1 .. m : /\ k - 1 \in 0 .. m /\ k \in 0 .. m
                              /\ at[k - 1] \in 0 .. Len(src) /\ at[k] \in 0 .. Len(src)
                              /\ Unit(at[k - 1], at[k], nals[k])
<1>1. m \in Nat /\ size \in 1 .. 4 /\ Len(src) \in Nat /\ src \in Seq(Byte)
  BY DEF InputsOK
<1>2. /\ at \in [0 .. m -> 0 .. Len(src)] /\ at[0] = 0 /\ at[m] = offset
      /\ \A k \in 1 .. m : Unit(at[k - 1], at[k], nals[k])
  BY DEF Walked
<1>3. \A k \in 0 .. m : at[k] \in 0 .. Len(src)
  BY <1>2
<1>4. \A k \in 1 .. m : k - 1 \in 0 .. m /\ k \in 0 .. m
  BY <1>1
<1> QED
  BY <1>1, <1>2, <1>3, <1>4, Zenon

(* The positions append has walked over are a cut.                         *)
LEMMA WalkedIsCut ==
  ASSUME InputsOK, NEW nals \in Seq(Seq(Byte)), NEW at, Walked(at, nals), offset = Len(src)
  PROVE  \E S \in SUBSET (0 .. Len(src)) : IsCut(S)
<1> DEFINE m == Len(nals)
           S == {at[k] : k \in 0 .. m}
<1>0. /\ m \in Nat /\ size \in 1 .. 4 /\ Len(src) \in Nat
      /\ \A k \in 0 .. m : at[k] \in 0 .. Len(src)
      /\ at[0] = 0 /\ at[m] = Len(src)
      /\ \A k \in 1 .. m : Unit(at[k - 1], at[k], nals[k])
  BY WalkedMeans
<1> HIDE DEF m
<1>1. \A k \in 1 .. m : at[k - 1] < at[k]
  <2> TAKE k \in 1 .. m
  <2>1. k - 1 \in 0 .. m /\ k \in 0 .. m /\ at[k] > at[k - 1] + size
    BY <1>0 DEF Unit
  <2> QED
    BY <1>0, <2>1
<1>2. \A k \in 0 .. m : \A j \in 0 .. k : at[j] <= at[k]
  <2> DEFINE Bad == {k \in 0 .. m : \E j \in 0 .. k : ~(at[j] <= at[k])}
  <2> SUFFICES ASSUME Bad # {} PROVE FALSE
    OBVIOUS
  <2>1. Bad \in SUBSET Nat
    BY <1>0
  <2>2. PICK k \in Bad : \A i \in Bad : k <= i
    BY <2>1, LeastExists
  <2>3. PICK j \in 0 .. k : ~(at[j] <= at[k])
    OBVIOUS
  <2>4. k \in 1 .. m /\ j \in 0 .. k - 1 /\ k - 1 \in 0 .. m /\ j \in 0 .. m
    <3>1. k \in 0 .. m /\ at[k] \in 0 .. Len(src)
      BY <1>0
    <3>2. at[k] <= at[k]
      BY <1>0, <3>1
    <3>3. j # k
      BY <2>3, <3>2, Zenon
    <3> HIDE DEF Bad
    <3> QED
      BY <1>0, <3>1, <3>3
  <2>5. at[j] <= at[k - 1]
    <3>1. ~(k - 1 \in Bad)
      BY <1>0, <2>2, <2>4
    <3> QED
      BY <2>4, <3>1
  <2>6. at[j] \in 0 .. Len(src) /\ at[k - 1] \in 0 .. Len(src) /\ at[k] \in 0 .. Len(src)
    BY <1>0, <2>4
  <2>7. at[k - 1] < at[k]
    BY <1>1, <2>4
  <2> HIDE DEF Bad
  <2> QED
    BY <1>0, <2>3, <2>5, <2>6, <2>7
<1>3. S \in SUBSET (0 .. Len(src)) /\ {0, Len(src)} \subseteq S
  <2>1. 0 \in 0 .. m /\ m \in 0 .. m
    BY <1>0
  <2> QED
    BY <1>0, <2>1
<1>4. ASSUME NEW s \in S \ {Len(src)}
      PROVE  \E t \in S : /\ t > s + size /\ Fits(t - (s + size))
                          /\ \A u \in S : u <= s \/ u >= t
                          /\ SubSeq(src, s + 1, t) = Prefixed(SubSeq(src, s + size + 1, t))
  <2>1. PICK j \in 0 .. m : s = at[j]
    BY DEF S
  <2>2. j + 1 \in 1 .. m /\ (j + 1) - 1 = j /\ j + 1 \in 0 .. m
    BY <1>0, <2>1
  <2>3. Unit(s, at[j + 1], nals[j + 1])
    BY <1>0, <2>1, <2>2
  <2>4. at[j + 1] \in S
    BY <2>2
  <2>5. ASSUME NEW u \in S PROVE u <= s \/ u >= at[j + 1]
    <3>1. PICK i \in 0 .. m : u = at[i]
      BY DEF S
    <3>2. CASE i <= j
      <4>1. i \in 0 .. j
        BY <2>1, <3>1, <3>2
      <4> QED
        BY <1>2, <2>1, <3>1, <4>1
    <3>3. CASE i > j
      <4>1. j + 1 \in 0 .. i
        BY <2>1, <3>1, <3>3
      <4>2. at[j + 1] <= at[i]
        BY <1>2, <3>1, <4>1
      <4>3. at[i] \in 0 .. Len(src) /\ at[j + 1] \in 0 .. Len(src)
        BY <1>0, <2>2, <3>1
      <4> QED
        BY <3>1, <4>2, <4>3
    <3> QED
      BY <2>1, <3>1, <3>2, <3>3
  <2> HIDE DEF S
  <2> QED
    BY <2>3, <2>4, <2>5 DEF Unit
<1> HIDE DEF S
<1>5. IsCut(S)
  BY <1>3, <1>4 DEF IsCut, CutOf
<1> QED
  BY <1>3, <1>5

(* And the NAL units behind their prefixes are what it has read.           *)
Flattens(f, s) == f = [i \in 1 .. Len(s) |-> IF i = 1 THEN s[i] ELSE f[i - 1] \o s[i]]

LEMMA FlattenIs ==
  ASSUME NEW s, Len(s) # 0, NEW g, Flattens(g, s)
  PROVE  \E f : Flattens(f, s) /\ FlattenSeq(s) = f[Len(s)]
<1> DEFINE h == CHOOSE f : Flattens(f, s)
<1>1. Flattens(h, s)
  OBVIOUS
<1>2. FlattenSeq(s) = h[Len(s)]
  BY DEF FlattenSeq, Flattens
<1> QED
  BY <1>1, <1>2

LEMMA WalkedRestores ==
  ASSUME InputsOK, NEW nals \in Seq(Seq(Byte)), NEW at, Walked(at, nals)
  PROVE  FlattenSeq([i \in DOMAIN nals |-> Prefixed(nals[i])]) = SubSeq(src, 1, offset)
<1> DEFINE m == Len(nals)
           s == [i \in DOMAIN nals |-> Prefixed(nals[i])]
           g == [k \in 1 .. m |-> SubSeq(src, 1, at[k])]
<1>0. /\ m \in Nat /\ size \in 1 .. 4 /\ Len(src) \in Nat /\ src \in Seq(Byte)
      /\ \A k \in 0 .. m : at[k] \in 0 .. Len(src)
      /\ at[0] = 0 /\ at[m] = offset
      /\ \A k \in 1 .. m : Unit(at[k - 1], at[k], nals[k])
  BY WalkedMeans
<1>1. DOMAIN nals = 1 .. m /\ Len(s) = m /\ \A k \in 1 .. m : s[k] = Prefixed(nals[k])
  OBVIOUS
<1>2. ASSUME NEW k \in 1 .. m
      PROVE  /\ k = 1 => SubSeq(src, 1, at[k]) = s[k]
             /\ k # 1 => SubSeq(src, 1, at[k - 1]) \o s[k] = SubSeq(src, 1, at[k])
  <2>1. Unit(at[k - 1], at[k], nals[k]) /\ s[k] = Prefixed(nals[k])
    BY <1>0, <1>1
  <2> HIDE DEF m, s
  <2>2. at[k - 1] \in 0 .. Len(src) /\ at[k] \in 0 .. Len(src)
    <3>1. k - 1 \in 0 .. m /\ k \in 0 .. m
      BY <1>0
    <3> QED
      BY <1>0, <3>1, Zenon
  <2>3. at[k - 1] < at[k] /\ s[k] = SubSeq(src, at[k - 1] + 1, at[k])
    <3>1. at[k] > at[k - 1] + size /\ s[k] = SubSeq(src, at[k - 1] + 1, at[k])
      BY <2>1, Zenon DEF Unit
    <3>2. size \in 1 .. 4 /\ Len(src) \in Nat
      BY <1>0
    <3> QED
      BY <2>2, <3>1, <3>2
  <2>4. SubSeq(src, 1, at[k - 1]) \o s[k] = SubSeq(src, 1, at[k])
    <3>1. /\ 1 \in 1 .. Len(src) + 1 /\ at[k - 1] \in 1 - 1 .. Len(src)
          /\ at[k] \in at[k - 1] .. Len(src)
      BY <1>0, <2>2, <2>3
    <3> QED
      BY <1>0, <2>3, <3>1, ConcatAdjacentSubSeq
  <2>5. k = 1 => at[k - 1] = 0
    <3>1. k = 1 => k - 1 = 0
      OBVIOUS
    <3> QED
      BY <1>0, <3>1, Zenon
  <2>6. k = 1 => s[k] = SubSeq(src, 1, at[k])
    <3>1. k = 1 => at[k - 1] + 1 = 1
      BY <2>5
    <3> QED
      BY <2>3, <3>1, Zenon
  <2> QED
    BY <2>4, <2>6, Zenon
<1>3. CASE m = 0
  <2>1. s = <<>> /\ FlattenSeq(s) = s
    BY <1>1, <1>3 DEF FlattenSeq
  <2>2. SubSeq(src, 1, offset) = <<>>
    BY <1>0, <1>3, SubSeqEmpty
  <2> QED
    BY <2>1, <2>2
<1>4. CASE m # 0
  <2>1. Flattens(g, s)
    <3>1. ASSUME NEW k \in 1 .. m
          PROVE  g[k] = IF k = 1 THEN s[k] ELSE g[k - 1] \o s[k]
      <4>0. k # 1 => k - 1 \in 1 .. m
        BY <1>0
      <4>1. g[k] = SubSeq(src, 1, at[k]) /\ (k # 1 => g[k - 1] = SubSeq(src, 1, at[k - 1]))
        BY <4>0, Zenon
      <4> HIDE DEF g, s, m
      <4> QED
        BY <1>2, <4>1
    <3>2. g = [k \in 1 .. m |-> g[k]]
      OBVIOUS
    <3>3. Len(s) = m
      BY <1>1
    <3> HIDE DEF g, s, m
    <3>4. g = [k \in 1 .. m |-> IF k = 1 THEN s[k] ELSE g[k - 1] \o s[k]]
      BY <3>1, <3>2
    <3> QED
      BY <3>3, <3>4, Zenon DEF Flattens
  <2>2. PICK f : Flattens(f, s) /\ FlattenSeq(s) = f[Len(s)]
    BY <1>1, <1>4, <2>1, FlattenIs
  <2>3. \A k \in 1 .. m : f[k] = IF k = 1 THEN s[k] ELSE f[k - 1] \o s[k]
    BY <1>1, <2>2 DEF Flattens
  <2> HIDE DEF g, s, m
  <2>4. \A k \in 1 .. m : f[k] = SubSeq(src, 1, at[k])
    <3> DEFINE Bad == {k \in 1 .. m : f[k] # SubSeq(src, 1, at[k])}
    <3> SUFFICES ASSUME Bad # {} PROVE FALSE
      OBVIOUS
    <3>1. Bad \in SUBSET Nat
      BY <1>0
    <3>2. PICK k \in Bad : \A i \in Bad : k <= i
      BY <3>1, LeastExists
    <3>3. CASE k = 1
      BY <1>2, <2>3, <3>2, <3>3
    <3>4. CASE k # 1
      <4>1. k \in 1 .. m /\ k - 1 \in 1 .. m /\ ~(k - 1 \in Bad)
        BY <1>0, <3>2, <3>4
      <4>2. f[k - 1] = SubSeq(src, 1, at[k - 1])
        BY <4>1
      <4> QED
        BY <1>2, <2>3, <3>2, <3>4, <4>2
    <3> QED
      BY <3>3, <3>4
  <2>5. m \in 1 .. m
    BY <1>0, <1>4
  <2> QED
    BY <1>0, <1>1, <2>2, <2>4, <2>5 DEF s
<1> QED
  BY <1>3, <1>4

-----------------------------------------------------------------------------
LEMMA BitInitial == BitInit => BitInv
<1> SUFFICES ASSUME BitInit PROVE BitInv
  OBVIOUS
<1>1. InputsOK
  <2>1. ASSUME NEW b \in BoundedSeq(Bytes, MaxLen) PROVE b \in Seq(Byte)
    <3>1. PICK m \in 0 .. MaxLen : b \in [1 .. m -> Bytes]
      BY DEF BoundedSeq, SeqOf
    <3>2. m \in Nat /\ Bytes \subseteq Byte
      BY AnnexBAssumption DEF Byte
    <3>3. b \in [1 .. m -> Byte]
      BY <3>1, <3>2
    <3> QED
      BY <3>2, <3>3, IsASeq
  <2> QED
    BY <2>1, AnnexBAssumption DEF BitInit, InputsOK
<1>2. Len(src) \in Nat
  BY <1>1 DEF InputsOK
<1>3. OutInv
  <2>1. <<>> \in Seq(Seq(Byte)) /\ Len(<<>>) = 0 /\ <<>> \o <<>> = <<>> /\ DOMAIN <<>> = {}
    OBVIOUS
  <2>2. Walked([k \in 0 .. 0 |-> 0], <<>>)
    BY <1>2, <2>1 DEF Walked, BitInit
  <2>3. Lead = <<>>
    BY DEF Lead, BitInit
  <2> QED
    BY <2>1, <2>2, <2>3 DEF OutInv, BitInit
<1>4. CutInv
  BY DEF CutInv, BitInit, IsCut, CutOf, Refused
<1>5. offset = 0 /\ keyframe = FALSE /\ result = "walking"
  BY DEF BitInit
<1>6. offset \in 0 .. Len(src)
  BY <1>2, <1>5
<1>7. keyframe \in BOOLEAN /\ result \in {"walking", "done", "no set"} \cup Refused
  BY <1>5
<1> QED
  BY <1>1, <1>3, <1>4, <1>6, <1>7, Zenon DEF BitInv

LEMMA InputsStay ==
  ASSUME UNCHANGED inputs
  PROVE  /\ InputsOK' <=> InputsOK
         /\ \A s, t, nal : Unit(s, t, nal)' <=> Unit(s, t, nal)
         /\ \A S : IsCut(S)' <=> IsCut(S)
<1>1. src' = src /\ size' = size /\ repeat' = repeat
  BY DEF inputs
<1>2. InputsOK' <=> InputsOK
  BY <1>1 DEF InputsOK
<1>3. ASSUME NEW s, NEW t, NEW nal PROVE Unit(s, t, nal)' <=> Unit(s, t, nal)
  BY <1>1 DEF Unit, Fits, Prefixed
<1>4. ASSUME NEW S PROVE IsCut(S)' <=> IsCut(S)
  BY <1>1 DEF IsCut, CutOf, Fits, Prefixed
<1> QED
  BY <1>2, <1>3, <1>4

LEMMA OutStays ==
  ASSUME OutInv, UNCHANGED <<inputs, offset, out, keyframe>>, Lead' = Lead
  PROVE  OutInv'
<1>1. PICK nals \in Seq(Seq(Byte)) :
        /\ \E at : Walked(at, nals)
        /\ out = Lead \o nals
        /\ keyframe <=> \E i \in DOMAIN nals : IsIdr(nals[i])
  BY DEF OutInv
<1>2. PICK at : Walked(at, nals)
  BY <1>1
<1>3. Walked(at, nals)'
  <2>1. \A s, t, nal : Unit(s, t, nal)' <=> Unit(s, t, nal)
    BY InputsStay
  <2>2. \A k \in 1 .. Len(nals) : Unit(at[k - 1], at[k], nals[k])'
    BY <1>2, <2>1, Zenon DEF Walked
  <2> QED
    BY <1>2, <2>2 DEF Walked, inputs
<1>4. out' = Lead' \o nals /\ (keyframe' <=> \E i \in DOMAIN nals : IsIdr(nals[i]))
  BY <1>1, Zenon
<1> QED
  BY <1>3, <1>4, Zenon DEF OutInv

(* append gives up: no cut had a way on from here.                         *)
LEMMA GivesUp ==
  ASSUME BitInv, TruncatedPrefix \/ NalExceeds \/ ZeroLength
  PROVE  BitInv'
<1>0. /\ InputsOK /\ size \in 1 .. 4 /\ Len(src) \in Nat /\ offset \in 0 .. Len(src)
      /\ offset < Len(src) /\ result = "walking" /\ result' \in Refused
      /\ UNCHANGED <<inputs, offset, out, keyframe>>
  <2>1. InputsOK /\ offset \in 0 .. Len(src)
    BY DEF BitInv
  <2>2. size \in 1 .. 4 /\ Len(src) \in Nat
    BY <2>1 DEF InputsOK
  <2>3. CASE TruncatedPrefix
    BY <2>1, <2>2, <2>3, Zenon DEF TruncatedPrefix, Fails, Refused
  <2>4. CASE NalExceeds
    BY <2>1, <2>2, <2>4, Zenon DEF NalExceeds, HasPrefix, Fails, Refused
  <2>5. CASE ZeroLength
    BY <2>1, <2>2, <2>5, Zenon DEF ZeroLength, HasPrefix, Fails, Refused
  <2> QED
    BY <2>3, <2>4, <2>5, Zenon
<1>1. offset + size > Len(src) \/ End > Len(src) \/ LengthAt(offset) = 0
  BY DEF TruncatedPrefix, NalExceeds, ZeroLength, HasPrefix
<1>2. ASSUME NEW S \in SUBSET (0 .. Len(src)) PROVE ~IsCut(S)
  <2> SUFFICES ASSUME IsCut(S) PROVE FALSE
    OBVIOUS
  <2>1. offset \in S
    BY DEF BitInv, CutInv
  <2>2. offset + size <= Len(src) /\ LengthAt(offset) # 0 /\ End <= Len(src) /\ End \in S
    BY <1>0, <2>1, NextCut
  <2>3. End \in Nat
    BY <2>2, <1>0
  <2> QED
    BY <1>0, <1>1, <2>2, <2>3
<1>3. CutInv'
  <2>1. \A S : IsCut(S)' <=> IsCut(S)
    BY <1>0, InputsStay
  <2>2. ASSUME NEW S \in SUBSET (0 .. Len(src')) PROVE ~IsCut(S)'
    BY <1>0, <1>2, <2>1 DEF inputs
  <2>3. result' \notin {"done", "no set"}
    BY <1>0 DEF Refused
  <2> QED
    BY <2>2, <2>3 DEF CutInv
<1>4. OutInv'
  <2>1. Lead = <<>> /\ Lead' = <<>>
    BY <1>0 DEF Lead, Refused
  <2> QED
    BY <1>0, <2>1, OutStays DEF BitInv
<1>5. InputsOK'
  BY <1>0, InputsStay
<1>6. offset' \in 0 .. Len(src') /\ keyframe' \in BOOLEAN
  BY <1>0 DEF BitInv, inputs
<1> QED
  BY <1>0, <1>3, <1>4, <1>5, <1>6 DEF BitInv

LEMMA Appends ==
  ASSUME BitInv, AppendNal
  PROVE  BitInv'
<1>p. PICK end, nal : end = End /\ nal = SubSeq(src, offset + size + 1, End)
  OBVIOUS
<1>0. /\ InputsOK /\ size \in 1 .. 4 /\ Len(src) \in Nat /\ offset \in 0 .. Len(src)
      /\ offset < Len(src) /\ offset + size <= Len(src) /\ end <= Len(src)
      /\ LengthAt(offset) # 0 /\ result = "walking"
      /\ out' = Append(out, nal) /\ keyframe' = (keyframe \/ IsIdr(nal)) /\ offset' = end
      /\ UNCHANGED <<inputs, result>>
  BY <1>p DEF BitInv, InputsOK, AppendNal, HasPrefix
<1>1. end \in 0 .. Len(src) /\ nal \in Seq(Byte) /\ Unit(offset, end, nal)
  BY <1>0, <1>p, UnitAt DEF End
<1>2. Lead = <<>> /\ Lead' = <<>>
  BY <1>0 DEF Lead
<1>3. OutInv'
  <2>1. PICK nals \in Seq(Seq(Byte)) :
          /\ \E at : Walked(at, nals)
          /\ out = Lead \o nals
          /\ keyframe <=> \E i \in DOMAIN nals : IsIdr(nals[i])
    BY DEF BitInv, OutInv
  <2>2. PICK at : Walked(at, nals)
    BY <2>1
  <2> DEFINE m == Len(nals)
             more == Append(nals, nal)
             to == [k \in 0 .. m + 1 |-> IF k = m + 1 THEN end ELSE at[k]]
  <2>3. /\ m \in Nat /\ more \in Seq(Seq(Byte)) /\ Len(more) = m + 1
        /\ \A k \in 1 .. m : more[k] = nals[k]
        /\ more[m + 1] = nal /\ DOMAIN more = 1 .. m + 1 /\ DOMAIN nals = 1 .. m
    BY <1>1
  <2>4. out = nals /\ out' = Lead' \o more
    <3>1. <<>> \o nals = nals /\ <<>> \o more = more
      BY <2>3, ConcatEmptySeq
    <3> QED
      BY <1>0, <1>2, <2>1, <3>1
  <2>5. keyframe' <=> \E i \in DOMAIN more : IsIdr(more[i])
    <3> HIDE DEF more, m
    <3>1. \A i \in 1 .. m + 1 : i \in 1 .. m \/ i = m + 1
      BY <2>3
    <3>2. \A i \in 1 .. m : i \in 1 .. m + 1
      BY <2>3
    <3>3. m + 1 \in 1 .. m + 1
      BY <2>3
    <3>4. (\E i \in 1 .. m + 1 : IsIdr(more[i])) <=> (\E i \in 1 .. m : IsIdr(nals[i])) \/ IsIdr(nal)
      BY <2>3, <3>1, <3>2, <3>3, Zenon
    <3> QED
      BY <1>0, <2>1, <2>3, <3>4, Zenon
  <2>6. Walked(to, more)'
    <3>1. /\ at[0] = 0 /\ at[m] = offset
          /\ \A k \in 0 .. m : at[k] \in 0 .. Len(src)
          /\ \A k \in 1 .. m : Unit(at[k - 1], at[k], nals[k])
      BY <1>0, <2>2, WalkedMeans
    <3> HIDE DEF m, more
    <3>2. /\ to \in [0 .. m + 1 -> 0 .. Len(src)]
          /\ to[0] = 0 /\ to[m + 1] = end /\ \A k \in 0 .. m : to[k] = at[k]
      BY <1>1, <2>3, <3>1
    <3> HIDE DEF to
    <3>3. ASSUME NEW k \in 1 .. m + 1 PROVE Unit(to[k - 1], to[k], more[k])
      <4>1. CASE k = m + 1
        <5>1. k - 1 = m /\ m \in 0 .. m
          BY <2>3, <4>1
        <5>2. to[k - 1] = offset /\ to[k] = end /\ more[k] = nal
          BY <2>3, <3>1, <3>2, <4>1, <5>1, Zenon
        <5> QED
          BY <1>1, <5>2, Zenon
      <4>2. CASE k # m + 1
        <5>1. k \in 1 .. m /\ k \in 0 .. m /\ k - 1 \in 0 .. m
          BY <2>3, <4>2
        <5>2. to[k - 1] = at[k - 1] /\ to[k] = at[k] /\ more[k] = nals[k]
          BY <2>3, <3>2, <5>1, Zenon
        <5> QED
          BY <3>1, <5>1, <5>2, Zenon
      <4> QED
        BY <4>1, <4>2
    <3>4. \A s, t, x : Unit(s, t, x)' <=> Unit(s, t, x)
      BY <1>0, InputsStay
    <3>5. \A k \in 1 .. Len(more) : Unit(to[k - 1], to[k], more[k])'
      BY <2>3, <3>3, <3>4, Zenon
    <3> QED
      BY <1>0, <2>3, <3>2, <3>5 DEF Walked, inputs
  <2> HIDE DEF m, more, to
  <2> QED
    BY <2>3, <2>4, <2>5, <2>6, Zenon DEF OutInv
<1>4. CutInv'
  <2>1. \A S : IsCut(S)' <=> IsCut(S)
    BY <1>0, InputsStay
  <2>2. ASSUME NEW S \in SUBSET (0 .. Len(src')), IsCut(S)' PROVE offset' \in S
    <3>1. S \in SUBSET (0 .. Len(src)) /\ IsCut(S)
      BY <1>0, <2>1, <2>2 DEF inputs
    <3>2. offset \in S
      BY <3>1 DEF BitInv, CutInv
    <3> QED
      BY <1>0, <1>p, <3>1, <3>2, NextCut
  <2> QED
    BY <1>0, <2>2 DEF CutInv, Refused
<1>5. InputsOK'
  BY <1>0, InputsStay
<1>6. offset' \in 0 .. Len(src') /\ keyframe' \in BOOLEAN
  BY <1>0, <1>1 DEF BitInv, inputs, IsIdr
<1> QED
  BY <1>0, <1>3, <1>4, <1>5, <1>6 DEF BitInv

LEMMA LedBy ==
  ASSUME NEW T, NEW s \in Seq(T), NEW t \in Seq(T)
  PROVE  SubSeq(s \o t, Len(s) + 1, Len(s \o t)) = t /\ IsPrefix(s, s \o t)
<1>1. /\ s \o t \in Seq(T) /\ Len(s \o t) = Len(s) + Len(t)
      /\ \A i \in 1 .. Len(s) + Len(t) : (s \o t)[i] = IF i <= Len(s) THEN s[i] ELSE t[i - Len(s)]
  BY ConcatProperties
<1>2. Len(s) \in Nat /\ Len(t) \in Nat
  OBVIOUS
<1> DEFINE all == s \o t
           m == Len(s)
           n == Len(t)
<1>3. all \in Seq(T) /\ Len(all) = m + n /\ m \in Nat /\ n \in Nat
      /\ \A i \in 1 .. m + n : all[i] = IF i <= m THEN s[i] ELSE t[i - m]
  BY <1>1, <1>2
<1>4. \A i \in 1 .. m + n : all[i] \in T
  BY <1>3, ElementOfSeq
<1> HIDE DEF all
<1>5. SubSeq(all, m + 1, m + n) = t
  <2> DEFINE r == SubSeq(all, m + 1, m + n)
  <2>1. \A i \in m + 1 .. m + n : all[i] \in T
    BY <1>3, <1>4
  <2>2. /\ r \in Seq(T) /\ Len(r) = IF m + 1 <= m + n THEN m + n - (m + 1) + 1 ELSE 0
        /\ \A i \in 1 .. m + n - (m + 1) + 1 : r[i] = all[m + 1 + i - 1]
    BY <1>3, <2>1, SubSeqProperties
  <2> HIDE DEF r, m, n
  <2>3. Len(r) = n
    BY <1>3, <2>2
  <2>4. \A i \in 1 .. n : r[i] = t[i]
    <3> TAKE i \in 1 .. n
    <3>1. /\ i \in 1 .. m + n - (m + 1) + 1 /\ m + 1 + i - 1 = m + i
          /\ m + i \in 1 .. m + n /\ ~(m + i <= m) /\ (m + i) - m = i
      BY <1>3
    <3> QED
      BY <1>3, <2>2, <3>1
  <2> QED
    BY <1>3, <2>2, <2>3, <2>4, SeqEqual DEF n, r
<1>6. SubSeq(all, 1, m) = SubSeq(s, 1, m)
  <2>1. SubSeq(s, 1, m) = s
    BY SubSeqFull
  <2> DEFINE r == SubSeq(all, 1, m)
  <2>2. \A i \in 1 .. m : all[i] \in T
    BY <1>3, <1>4
  <2>3. /\ r \in Seq(T) /\ Len(r) = IF 1 <= m THEN m - 1 + 1 ELSE 0
        /\ \A i \in 1 .. m - 1 + 1 : r[i] = all[1 + i - 1]
    BY <1>3, <2>2, SubSeqProperties
  <2> HIDE DEF r, m, n
  <2>4. Len(r) = m
    BY <1>3, <2>3
  <2>5. \A i \in 1 .. m : r[i] = s[i]
    <3> TAKE i \in 1 .. m
    <3>1. i \in 1 .. m - 1 + 1 /\ 1 + i - 1 = i /\ i \in 1 .. m + n /\ i <= m
      BY <1>3
    <3> QED
      BY <1>3, <2>3, <3>1
  <2> QED
    BY <2>1, <2>3, <2>4, <2>5, SeqEqual DEF m, r
<1>7. m <= m + n
  BY <1>3
<1> HIDE DEF m, n
<1> QED
  BY <1>3, <1>5, <1>6, <1>7 DEF all, m, n, IsPrefix

LEMMA SetsType == Sets \in Seq(Seq(Byte))
  BY AnnexBAssumption DEF Byte

LEMMA Finishes ==
  ASSUME BitInv, Finish
  PROVE  BitInv'
<1>0. /\ InputsOK /\ Len(src) \in Nat /\ offset = Len(src) /\ result = "walking"
      /\ UNCHANGED <<inputs, offset, keyframe>>
  <2>1. /\ InputsOK /\ offset \in 0 .. Len(src) /\ offset >= Len(src) /\ result = "walking"
        /\ UNCHANGED <<inputs, offset, keyframe>>
    BY Zenon DEF BitInv, Finish
  <2>2. Len(src) \in Nat
    BY <2>1 DEF InputsOK
  <2>3. offset = Len(src)
    BY <2>1, <2>2
  <2> QED
    BY <2>1, <2>2, <2>3, Zenon
<1>1. PICK nals \in Seq(Seq(Byte)) :
        /\ \E at : Walked(at, nals)
        /\ out = Lead \o nals
        /\ keyframe <=> \E i \in DOMAIN nals : IsIdr(nals[i])
  BY DEF BitInv, OutInv
<1>2. PICK at : Walked(at, nals)
  BY <1>1
<1>3. <<>> \o nals = nals
  BY ConcatEmptySeq
<1>4. out = nals
  BY <1>0, <1>1, <1>3 DEF Lead
<1>5. result' \in {"done", "no set"} /\ out' = Lead' \o nals
  <2>1. CASE ~(keyframe /\ repeat) /\ result' = "done" /\ UNCHANGED out
    BY <1>0, <1>3, <1>4, <2>1 DEF Lead, inputs
  <2>2. CASE keyframe /\ repeat /\ result' = "done" /\ out' = Sets \o out
    BY <1>0, <1>4, <2>2 DEF Lead, inputs
  <2>3. CASE keyframe /\ repeat /\ result' = "no set" /\ UNCHANGED out
    BY <1>3, <1>4, <2>3 DEF Lead
  <2> QED
    BY <2>1, <2>2, <2>3 DEF Finish
<1>6. Walked(at, nals)'
  <2>1. \A s, t, nal : Unit(s, t, nal)' <=> Unit(s, t, nal)
    BY <1>0, InputsStay
  <2>2. \A k \in 1 .. Len(nals) : Unit(at[k - 1], at[k], nals[k])'
    BY <1>2, <2>1, Zenon DEF Walked
  <2> QED
    BY <1>0, <1>2, <2>2 DEF Walked, inputs
<1>7. OutInv'
  <2>1. keyframe' <=> \E i \in DOMAIN nals : IsIdr(nals[i])
    BY <1>0, <1>1, Zenon
  <2> QED
    BY <1>5, <1>6, <2>1, Zenon DEF OutInv
<1>8. CutInv'
  <2>1. \A S : IsCut(S)' <=> IsCut(S)
    BY <1>0, InputsStay
  <2>2. ASSUME NEW S \in SUBSET (0 .. Len(src')), IsCut(S)' PROVE offset' \in S
    BY <1>0, <2>1, <2>2 DEF BitInv, CutInv, inputs
  <2>3. result' \notin Refused
    BY <1>5 DEF Refused
  <2> QED
    BY <1>0, <2>2, <2>3 DEF CutInv, inputs
<1>9. InputsOK'
  BY <1>0, InputsStay
<1>10. offset' \in 0 .. Len(src') /\ keyframe' \in BOOLEAN
  BY <1>0 DEF BitInv, inputs
<1> QED
  BY <1>5, <1>7, <1>8, <1>9, <1>10 DEF BitInv

LEMMA BitStep == BitInv /\ [BitNext]_bitVars => BitInv'
<1> SUFFICES ASSUME BitInv, [BitNext]_bitVars PROVE BitInv'
  OBVIOUS
<1>1. CASE UNCHANGED bitVars
  <2>0. UNCHANGED inputs /\ UNCHANGED <<offset, out, keyframe, result>>
    BY <1>1 DEF bitVars
  <2>1. Lead' = Lead
    BY <2>0 DEF Lead, inputs
  <2>2. OutInv'
    BY <2>0, <2>1, OutStays DEF BitInv
  <2>3. InputsOK' /\ \A S : IsCut(S)' <=> IsCut(S)
    BY <2>0, InputsStay DEF BitInv
  <2>4. CutInv'
    BY <2>0, <2>3 DEF BitInv, CutInv, inputs
  <2> QED
    BY <2>0, <2>2, <2>3, <2>4 DEF BitInv, inputs
<1> QED
  BY <1>1, GivesUp, Appends, Finishes DEF BitNext

LEMMA BitInvariant == BitSpec => []BitInv
  BY BitInitial, BitStep, PTL DEF BitSpec

LEMMA BitInvTypes == BitInv => BitTypeOK
<1> SUFFICES ASSUME BitInv PROVE BitTypeOK
  OBVIOUS
<1>1. PICK nals \in Seq(Seq(Byte)) : out = Lead \o nals
  BY DEF BitInv, OutInv
<1>2. Lead \in Seq(Seq(Byte))
  BY SetsType DEF Lead
<1>3. out \in Seq(Seq(Byte))
  BY <1>1, <1>2, ConcatProperties
<1> QED
  BY <1>3 DEF BitInv, BitTypeOK, Byte, Refused

LEMMA BitInvExact == BitInv => ConversionExact
<1> SUFFICES ASSUME BitInv PROVE ConversionExact
  OBVIOUS
<1>1. PICK nals \in Seq(Seq(Byte)) :
        /\ \E at : Walked(at, nals)
        /\ out = Lead \o nals
        /\ keyframe <=> \E i \in DOMAIN nals : IsIdr(nals[i])
  BY DEF BitInv, OutInv
<1>2. PICK at : Walked(at, nals)
  BY <1>1
<1>0. InputsOK
  BY DEF BitInv
<1>3. RefusedExactly
  <2>1. CASE result \in Refused
    BY <2>1 DEF BitInv, CutInv, RefusedExactly, Refused
  <2>2. CASE result \in {"done", "no set"}
    <3>1. \E S \in SUBSET (0 .. Len(src)) : IsCut(S)
      BY <1>0, <1>2, <2>2, WalkedIsCut DEF BitInv, CutInv
    <3> QED
      BY <2>2, <3>1 DEF RefusedExactly
  <2> QED
    BY <2>1, <2>2 DEF BitInv, RefusedExactly
<1>4. UnitRestored
  <2> SUFFICES ASSUME result = "done" PROVE UnitRestored
    BY DEF UnitRestored
  <2>1. Lead \in Seq(Seq(Byte)) /\ Lead = IF keyframe /\ repeat THEN Sets ELSE <<>>
    BY SetsType DEF Lead
  <2>2. SubSeq(out, Len(Lead) + 1, Len(out)) = nals /\ IsPrefix(Lead, out)
    BY <1>1, <2>1, LedBy
  <2>3. FlattenSeq([i \in DOMAIN nals |-> Prefixed(nals[i])]) = src
    <3>1. offset = Len(src) /\ src \in Seq(Byte)
      BY <1>0 DEF BitInv, CutInv, InputsOK
    <3>2. SubSeq(src, 1, Len(src)) = src
      BY <3>1, SubSeqFull
    <3> QED
      BY <1>0, <1>2, <3>1, <3>2, WalkedRestores
  <2> QED
    BY <1>1, <2>1, <2>2, <2>3 DEF UnitRestored
<1> QED
  BY <1>3, <1>4 DEF ConversionExact

(* The types of append and convert, for any access unit.                   *)
THEOREM BitTypeCorrect == BitSpec => []BitTypeOK
  BY BitInvariant, BitInvTypes, PTL

(* annexb.rs and convert refuse an access unit exactly when it is no       *)
(* sequence of length-prefixed NAL units, whatever its length and bytes,   *)
(* and what they let through is that unit, its sets first when it is an    *)
(* IDR.                                                                    *)
THEOREM ConversionCorrect == BitSpec => []ConversionExact
  BY BitInvariant, BitInvExact, PTL

LEMMA PartsAre == MCSpec => Spec /\ BitSpec
<1>1. MCInit => Init /\ BitInit
  BY DEF MCInit
<1>2. [MCNext]_<<part, vars, bitVars>> => [Next]_vars /\ [BitNext]_bitVars
  BY DEF MCNext
<1> QED
  BY <1>1, <1>2, PTL DEF MCSpec, Spec, BitSpec

(* An encoder's state, and the bitstream's, are well typed together        *)
(* (the three encoders, annexb.rs).                                        *)
THEOREM PartsTypeCorrect == MCSpec => []PartsTypeOK
<1>1. TypeOK /\ BitTypeOK => PartsTypeOK
  BY DEF PartsTypeOK
<1> QED
  BY <1>1, PartsAre, TypeCorrect, BitTypeCorrect, PTL
=============================================================================
