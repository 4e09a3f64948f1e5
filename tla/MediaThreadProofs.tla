-------------------------- MODULE MediaThreadProofs ---------------------------
(***************************************************************************)
(* The encode loop for any set of sizes, any modulus of the frame counter, *)
(* any backlog, and any source.                                            *)
(*                                                                         *)
(* Two facts tie the encoder to what was sent and asked for: an encoder    *)
(* that has coded a frame has the size of the last frame sent (Continuity),*)
(* and a request that was taken and not yet answered is still carried by   *)
(* force_idr or by an encoder that has coded nothing (RequestCarried).     *)
(***************************************************************************)
EXTENDS MediaThread, TLAPS

-----------------------------------------------------------------------------
(* What the newest size of a backlog is: a size somebody posted.           *)
LEMMA NewestType ==
  ASSUME NEW q \in Seq(Sizes), q # <<>>
  PROVE  TakeNewest(q) \in Sizes
BY DEF TakeNewest

(* The counter wraps into its width.                                       *)
LEMMA NextSeqType ==
  ASSUME NEW n \in 0 .. U32 - 1
  PROVE  NextSeq(n) \in 0 .. U32 - 1 /\ NextSeq(n) # n
<1>0. U32 \in Nat /\ U32 > 1
  BY MediaThreadAssumption
<1>1. CASE n = U32 - 1
  BY <1>0, <1>1 DEF NextSeq
<1>2. CASE n < U32 - 1
  BY <1>0, <1>2 DEF NextSeq
<1> QED
  BY <1>0, <1>1, <1>2

(* A well-typed thread stays so through every step.                        *)
LEMMA StepTypeOK ==
  ASSUME TypeOK, [Next]_vars
  PROVE  TypeOK'
<1> USE DEF TypeOK
<1>0. U32 \in Nat /\ QueueBound \in Nat /\ DamageDriven \in BOOLEAN
  BY MediaThreadAssumption
<1>1. CASE RequestIdr
  <2>1. idrQueue' \in 0 .. QueueBound
    BY <1>0, <1>1 DEF RequestIdr
  <2> QED
    BY <1>1, <2>1 DEF RequestIdr, history
<1>2. ASSUME NEW s \in Sizes, PostReconfigure(s) PROVE TypeOK'
  <2>1. reconfigQueue' \in Seq(Sizes) /\ Len(reconfigQueue') <= QueueBound
    BY <1>0, <1>2 DEF PostReconfigure
  <2> QED
    BY <1>2, <2>1 DEF PostReconfigure
<1>3. CASE ConnectionCloses
  BY <1>3 DEF ConnectionCloses, channels, history
<1>4. CASE OpenEncoder \/ OpenSource \/ CheckClosed
  <2>1. pc' \in {"openSource", "top", "reconfig", "stopped"}
    BY <1>4 DEF OpenEncoder, OpenSource, CheckClosed, Goto
  <2>2. UNCHANGED <<closed, size, channels, encoder, have, reconfigured, forceIdr,
                    frameSeq, sent, history>>
    BY <1>4 DEF OpenEncoder, OpenSource, CheckClosed
  <2> QED
    BY <2>1, <2>2 DEF Pcs, channels, history
<1>5. CASE NothingToReconfigure
  BY <1>5 DEF NothingToReconfigure, Goto, Pcs, channels, history
<1>6. CASE Reopen
  <2>1. size' \in Sizes /\ encoder' \in [size : Sizes, fresh : BOOLEAN, skips : BOOLEAN]
    BY <1>6, NewestType DEF Reopen
  <2>2. reconfigQueue' \in Seq(Sizes) /\ Len(reconfigQueue') <= QueueBound
    BY <1>0, <1>6 DEF Reopen
  <2> QED
    BY <1>0, <1>6, <2>1, <2>2 DEF Reopen, Goto, Pcs, history
<1>7. CASE ReopenFails
  <2>1. reconfigQueue' \in Seq(Sizes) /\ Len(reconfigQueue') <= QueueBound
    BY <1>0, <1>7 DEF ReopenFails
  <2> QED
    BY <1>7, <2>1 DEF ReopenFails, Goto, Pcs, history
<1>8. CASE TakeIdr
  BY <1>0, <1>8 DEF TakeIdr, Goto, Pcs
<1>9. CASE WaitForDamage \/ Produce
  BY <1>9 DEF WaitForDamage, Produce, Goto, Pcs, channels, history
<1>10. CASE EncodeFrame
  <2>1. IsIdr \in BOOLEAN
    BY DEF IsIdr
  <2>2. sent' \in Frame
    BY <1>10, <2>1 DEF EncodeFrame, Frame
  <2>3. frameSeq' \in 0 .. U32 - 1
    BY <1>10, NextSeqType DEF EncodeFrame
  <2>4. encoder' \in [size : Sizes, fresh : BOOLEAN, skips : BOOLEAN] /\ owed' \in BOOLEAN
    BY <1>10, <2>1 DEF EncodeFrame
  <2> QED
    BY <1>10, <2>2, <2>3, <2>4 DEF EncodeFrame, Goto, Pcs, channels
<1>11. CASE EncodeNothing \/ Fail
  BY <1>11 DEF EncodeNothing, Fail, Goto, Pcs, channels, history
<1>12. CASE UNCHANGED vars
  BY <1>12 DEF vars, channels, history
<1> QED
  BY <1>1, <1>2, <1>3, <1>4, <1>5, <1>6, <1>7, <1>8, <1>9, <1>10, <1>11, <1>12 DEF Next, Tick

(* The thread's state is well typed for ever.                              *)
THEOREM TypeCorrect == Spec => []TypeOK
<1>1. Init => TypeOK
  <2>1. 0 \in 0 .. U32 - 1 /\ 0 \in 0 .. QueueBound
    BY MediaThreadAssumption
  <2>2. <<>> \in Seq(Sizes) /\ Len(<<>>) <= QueueBound
    BY MediaThreadAssumption
  <2>3. (~DamageDriven) \in BOOLEAN
    OBVIOUS
  <2> SUFFICES ASSUME Init PROVE TypeOK
    OBVIOUS
  <2>4. have \in BOOLEAN
    BY <2>3 DEF Init
  <2>5. size \in Sizes /\ encoder \in [size : Sizes, fresh : BOOLEAN, skips : BOOLEAN]
    BY DEF Init
  <2> QED
    BY <2>1, <2>2, <2>4, <2>5 DEF Init, TypeOK, Pcs
<1> QED
  BY <1>1, StepTypeOK, PTL DEF Spec

-----------------------------------------------------------------------------
(* Frames.                                                                 *)

(* Only EncodeFrame sends.                                                 *)
LEMMA OnlyEncodeFrameSends ==
  ASSUME [Next]_vars, sent' # sent
  PROVE  EncodeFrame
BY DEF Next, Tick, RequestIdr, PostReconfigure, ConnectionCloses, OpenEncoder, OpenSource,
       CheckClosed, NothingToReconfigure, Reopen, ReopenFails, TakeIdr, WaitForDamage, Produce,
       EncodeNothing, Fail, vars

(* An encoder that coded a frame coded the last one sent.                  *)
Continuity ==
  ~encoder.fresh => sent # NoFrame /\ sent.size = encoder.size

(* Only EncodeFrame uses an encoder up; the others keep it or replace it.  *)
LEMMA ContinuityStep ==
  ASSUME TypeOK, Continuity, [Next]_vars
  PROVE  Continuity'
<1> USE DEF Continuity
<1>1. CASE EncodeFrame
  <2>1. sent' \in Frame /\ sent'.size = encoder'.size
    <3>1. IsIdr \in BOOLEAN
      BY DEF IsIdr, TypeOK
    <3> QED
      BY <1>1, <3>1 DEF EncodeFrame, TypeOK, Frame
  <2> QED
    BY <2>1, MediaThreadAssumption
<1>2. CASE Reopen
  BY <1>2 DEF Reopen
<1>3. CASE ~EncodeFrame /\ ~Reopen
  <2>1. encoder' = encoder /\ sent' = sent
    BY <1>3 DEF Next, Tick, RequestIdr, PostReconfigure, ConnectionCloses, OpenEncoder, OpenSource,
         CheckClosed, NothingToReconfigure, ReopenFails, TakeIdr, WaitForDamage, Produce,
         EncodeNothing, Fail, vars
  <2> QED
    BY <2>1
<1> QED
  BY <1>1, <1>2, <1>3

(* A pipeline starts with an IDR and changes its resolution with one: the  *)
(* reopen branch of run replaces the encoder, never resizes it.            *)
THEOREM ResolutionCorrect == Spec => ResolutionChangesAtIdr
<1>1. Init => Continuity
  BY DEF Init, Continuity
<1>2. TypeOK /\ Continuity /\ [Next]_vars => Continuity'
  BY ContinuityStep
<1> DEFINE AtIdr == FrameSent /\ (IF sent = NoFrame THEN TRUE ELSE sent.size # sent'.size)
                      => sent'.keyframe
<1>3. Continuity /\ [Next]_vars => [AtIdr]_vars
  <2> SUFFICES ASSUME Continuity, [Next]_vars, FrameSent,
                      IF sent = NoFrame THEN TRUE ELSE sent.size # sent'.size
               PROVE  sent'.keyframe
    OBVIOUS
  <2>1. EncodeFrame
    BY OnlyEncodeFrameSends DEF FrameSent
  <2>2. encoder.fresh
    BY <2>1 DEF EncodeFrame, Continuity
  <2> QED
    BY <2>1, <2>2 DEF EncodeFrame, IsIdr
<1> QED
  BY TypeCorrect, <1>1, <1>2, <1>3, PTL DEF Spec, ResolutionChangesAtIdr

(* frame_seq is the number after that of the last frame sent.              *)
SeqFollows == frameSeq = IF sent = NoFrame THEN 0 ELSE (sent.seq + 1) % U32

(* The frames are numbered without a hole or a repeat: nothing but sending *)
(* a frame advances frame_seq, and a reconfiguration does not reset it.    *)
THEOREM SeqCorrect == Spec => SeqContinues
<1>1. Init => SeqFollows
  BY DEF Init, SeqFollows
<1>2. TypeOK /\ SeqFollows /\ [Next]_vars => SeqFollows'
  <2> SUFFICES ASSUME TypeOK, SeqFollows, [Next]_vars PROVE SeqFollows'
    OBVIOUS
  <2>1. CASE EncodeFrame
    <3>1. sent' \in Frame
      <4>1. IsIdr \in BOOLEAN
        BY DEF IsIdr, TypeOK
      <4> QED
        BY <2>1, <4>1 DEF EncodeFrame, TypeOK, Frame
    <3>2. sent' # NoFrame
      BY <3>1, MediaThreadAssumption
    <3> QED
      BY <2>1, <3>2 DEF EncodeFrame, SeqFollows, NextSeq
  <2>2. CASE ~EncodeFrame
    <3>1. frameSeq' = frameSeq /\ sent' = sent
      BY <2>2 DEF Next, Tick, RequestIdr, PostReconfigure, ConnectionCloses, OpenEncoder,
           OpenSource, CheckClosed, NothingToReconfigure, Reopen, ReopenFails, TakeIdr,
           WaitForDamage, Produce, EncodeNothing, Fail, vars
    <3> QED
      BY <3>1 DEF SeqFollows
  <2> QED
    BY <2>1, <2>2
<1> DEFINE Numbered == FrameSent =>
             sent'.seq = (IF sent = NoFrame THEN 0 ELSE (sent.seq + 1) % U32)
<1>3. SeqFollows /\ [Next]_vars => [Numbered]_vars
  <2> SUFFICES ASSUME SeqFollows, [Next]_vars, FrameSent
               PROVE  sent'.seq = (IF sent = NoFrame THEN 0 ELSE (sent.seq + 1) % U32)
    OBVIOUS
  <2>1. EncodeFrame
    BY OnlyEncodeFrameSends DEF FrameSent
  <2> QED
    BY <2>1 DEF EncodeFrame, SeqFollows
<1> QED
  BY TypeCorrect, <1>1, <1>2, <1>3, PTL DEF Spec, SeqContinues

-----------------------------------------------------------------------------
(* Requests.                                                               *)

(* A source without a frame feeds an encoder without one, and the encoder  *)
(* is fed after the source had one.                                        *)
SourceLeads ==
  /\ ~have => encoder.fresh
  /\ pc = "encode" => have

(* What keeps a taken request alive until the next frame.                  *)
RequestCarried ==
  owed /\ ~encoder.skips => encoder.fresh \/ (pc \in {"produce", "encode", "stopped"} /\ forceIdr)

(* No step drops a request when every frame fed gives one.                 *)
LEMMA CarriedStep ==
  ASSUME TypeOK, SourceLeads, RequestCarried, [Next]_vars
  PROVE  SourceLeads' /\ RequestCarried'
<1> USE DEF SourceLeads, RequestCarried
<1>1. CASE RequestIdr \/ ConnectionCloses \/ \E s \in Sizes : PostReconfigure(s)
  BY <1>1 DEF RequestIdr, ConnectionCloses, PostReconfigure, history
<1>2. CASE OpenEncoder \/ OpenSource \/ CheckClosed \/ NothingToReconfigure \/ ReopenFails
  BY <1>2 DEF OpenEncoder, OpenSource, CheckClosed, NothingToReconfigure, ReopenFails, Goto, history
<1>3. CASE Reopen
  <2>1. encoder' = [encoder EXCEPT !.size = size', !.fresh = TRUE] /\ pc' = "idr"
    BY <1>3 DEF Reopen, Goto
  <2> QED
    BY <2>1 DEF TypeOK
<1>4. CASE TakeIdr
  \* A request just taken sets force_idr; an older one has a fresh encoder.
  BY <1>4 DEF TakeIdr, Goto
<1>5. CASE WaitForDamage
  \* force_idr is forgotten, and the encoder has coded nothing.
  BY <1>5 DEF WaitForDamage, Goto, history
<1>6. CASE Produce
  BY <1>6 DEF Produce, Goto, history
<1>7. CASE EncodeFrame
  <2>1. have /\ (owed /\ ~encoder.skips => IsIdr)
    BY <1>7 DEF EncodeFrame, Goto, IsIdr
  <2>2. have' /\ (owed' => encoder'.skips) /\ pc' = "top"
    BY <1>7, <2>1 DEF EncodeFrame, Goto, TypeOK
  <2> QED
    BY <2>2
<1>8. CASE EncodeNothing
  BY <1>8 DEF EncodeNothing, Goto, history
<1>9. CASE Fail
  <2>1. /\ pc' = "stopped" /\ pc \in {"openEncoder", "openSource", "encode"}
        /\ UNCHANGED <<have, encoder, owed, forceIdr>>
    BY <1>9 DEF Fail, Goto, history
  <2> QED
    BY <2>1
<1>10. CASE UNCHANGED vars
  BY <1>10 DEF vars, history
<1> QED
  BY <1>1, <1>2, <1>3, <1>4, <1>5, <1>6, <1>7, <1>8, <1>9, <1>10 DEF Next, Tick

(* With an encoder that returns a frame for each it is fed, the first      *)
(* frame after a taken request is an IDR: neither a tick without damage    *)
(* nor one that re-opens loses the request.                                *)
THEOREM RequestAnswered == Spec => RequestNotLost
<1>1. Init => SourceLeads /\ RequestCarried
  BY DEF Init, SourceLeads, RequestCarried
<1>2. TypeOK /\ (SourceLeads /\ RequestCarried) /\ [Next]_vars => (SourceLeads /\ RequestCarried)'
  BY CarriedStep
<1> DEFINE Answers == FrameSent /\ owed /\ ~encoder.skips => sent'.keyframe
<1>3. RequestCarried /\ [Next]_vars => [Answers]_vars
  <2> SUFFICES ASSUME RequestCarried, [Next]_vars, FrameSent, owed, ~encoder.skips
               PROVE  sent'.keyframe
    OBVIOUS
  <2>1. EncodeFrame
    BY OnlyEncodeFrameSends DEF FrameSent
  <2>2. IsIdr
    BY <2>1 DEF RequestCarried, EncodeFrame, Goto, IsIdr
  <2> QED
    BY <2>1, <2>2 DEF EncodeFrame
<1> QED
  BY TypeCorrect, <1>1, <1>2, <1>3, PTL DEF Spec, RequestNotLost
=============================================================================
