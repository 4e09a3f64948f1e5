------------------------------ MODULE Recovery ------------------------------
(***************************************************************************)
(* The recovery loop: a media thread of loomd that sends a frame per tick, *)
(* a network (or the --drop-percent injector) that loses and reorders      *)
(* them, a receiver as in module FrameStream, and its IDR_REQUESTs, which  *)
(* travel back over the control stream and through the session to the      *)
(* thread's IDR channel.                                                   *)
(*                                                                         *)
(* The stream has no end, so frames are not numbered but known by their    *)
(* age: how many frames were sent after them.  Ages above Horizon are all  *)
(* alike, since no such frame is in flight any more.                       *)
(***************************************************************************)
EXTENDS Naturals, FiniteSets

CONSTANTS
  InFlight,     \* bound on the age of a frame that still may arrive
  MaxAsked,     \* bound on the requests travelling at once, where they merge
  RateLimit     \* 250 ms, in steps of the clock

RecoveryAssumption == InFlight \in Nat /\ MaxAsked \in Nat \ {0} /\ RateLimit \in Nat \ {0}

Horizon == InFlight + 2

VARIABLES
  fresh,       \* the encoder has coded nothing yet
  queued,      \* the IDR channel holds a request
  flight,      \* frames that may still arrive whole: [age, keyframe]
  complete,    \* age of the newest complete frame (newest_complete)
  decoded,     \* age of the last decoded frame (last_decoded)
  asked,       \* IDR_REQUESTs on their way to the host
  sinceAsk,    \* time since the last request, RateLimit when longer ago or never
  frozen       \* the newest complete frame could not be decoded, or there is none

sender == <<fresh, queued>>
receiver == <<complete, decoded, frozen>>
vars == <<sender, flight, receiver, asked, sinceAsk>>

Init ==
  /\ fresh = TRUE /\ queued = FALSE /\ flight = {}
  /\ complete = Horizon /\ decoded = Horizon /\ frozen = TRUE
  /\ asked = 0 /\ sinceAsk = RateLimit

-----------------------------------------------------------------------------
(* The host.                                                               *)

Older(age) == IF age < Horizon THEN age + 1 ELSE Horizon

Aged(frames) == {[f EXCEPT !.age = @ + 1] : f \in {g \in frames : g.age < InFlight}}

\* force_idr, or the encoder's first frame.
IsIdr == queued \/ fresh

\* Faulty: force_idr stays set once it is.
SendSticky(whole) ==
  /\ flight' = Aged(flight) \cup (IF whole THEN {[age |-> 0, keyframe |-> IsIdr]} ELSE {})
  /\ complete' = Older(complete) /\ decoded' = Older(decoded)
  /\ fresh' = FALSE /\ UNCHANGED <<queued, frozen, asked, sinceAsk>>

\* A tick encodes a frame and sends its fragments; frame_seq advances.  A
\* fragment dropped by the injector, refused by the connection or lost on the
\* wire loses the frame.
Send(whole) ==
  /\ flight' = Aged(flight) \cup (IF whole THEN {[age |-> 0, keyframe |-> IsIdr]} ELSE {})
  /\ complete' = Older(complete) /\ decoded' = Older(decoded)
  /\ fresh' = FALSE /\ queued' = FALSE
  /\ UNCHANGED <<frozen, asked, sinceAsk>>

\* The encoder gives nothing for this frame: the request taken is forgotten.
EncodeNothing ==
  /\ queued' = FALSE
  /\ UNCHANGED <<fresh, flight, receiver, asked, sinceAsk>>

\* IDR_REQUEST: Output::RequestIdr, MediaHandle::request_idr.
HostTakes ==
  /\ asked > 0 /\ asked' = asked - 1
  /\ queued' = TRUE
  /\ UNCHANGED <<fresh, flight, receiver, sinceAsk>>

-----------------------------------------------------------------------------
(* The network and the receiver.                                           *)

Lose(f) ==
  /\ f \in flight /\ flight' = flight \ {f}
  /\ UNCHANGED <<sender, receiver, asked, sinceAsk>>

\* Reassembler's rule 3.
Decodable(f) == f.keyframe \/ decoded = f.age + 1

\* Faulty: a request is sent once, and never repeated.
AskOnce ==
  IF sinceAsk = RateLimit /\ decoded = Horizon /\ complete = Horizon
  THEN asked' = (IF asked < MaxAsked THEN asked + 1 ELSE MaxAsked) /\ sinceAsk' = 0
  ELSE UNCHANGED <<asked, sinceAsk>>

\* maybe_idr, and the client sends the request.
Ask ==
  IF sinceAsk = RateLimit
  THEN asked' = (IF asked < MaxAsked THEN asked + 1 ELSE MaxAsked) /\ sinceAsk' = 0
  ELSE UNCHANGED <<asked, sinceAsk>>

\* The last fragment of a frame arrives; stale when a newer one is complete.
Arrive(f) ==
  /\ f \in flight /\ flight' = flight \ {f}
  /\ IF f.age >= complete THEN UNCHANGED <<receiver, asked, sinceAsk>>
     ELSE /\ complete' = f.age /\ frozen' = ~Decodable(f)
          /\ IF Decodable(f) THEN decoded' = f.age /\ UNCHANGED <<asked, sinceAsk>>
             ELSE Ask /\ UNCHANGED decoded
  /\ UNCHANGED sender

ClockAdvances ==
  /\ sinceAsk < RateLimit /\ sinceAsk' = sinceAsk + 1
  /\ UNCHANGED <<sender, flight, receiver, asked>>

Next ==
  \/ (\E whole \in BOOLEAN : Send(whole)) \/ EncodeNothing \/ HostTakes
  \/ (\E f \in flight : Lose(f) \/ Arrive(f))
  \/ ClockAdvances

ArriveNew(keyframes) == \E f \in flight : f.age < complete /\ f.keyframe \in keyframes /\ Arrive(f)

(* The media thread ticks, the control stream delivers, the clock goes on. *)
(* A network that loses any number of frames does not lose all of them: of *)
(* infinitely many frames sent some are sent whole and some arrive in      *)
(* time, and so of infinitely many IDRs.                                   *)
Fairness ==
  /\ WF_vars(HostTakes) /\ WF_vars(ClockAdvances)
  /\ WF_vars(Send(TRUE)) /\ SF_vars(IsIdr /\ Send(TRUE))
  /\ SF_vars(ArriveNew(BOOLEAN)) /\ SF_vars(ArriveNew({TRUE}))

Spec == Init /\ [][Next]_vars /\ Fairness

-----------------------------------------------------------------------------
(* Properties.                                                             *)

TypeOK ==
  /\ fresh \in BOOLEAN /\ queued \in BOOLEAN /\ frozen \in BOOLEAN
  /\ flight \subseteq [age : 0 .. InFlight, keyframe : BOOLEAN]
  /\ complete \in 0 .. Horizon /\ decoded \in 0 .. Horizon
  /\ asked \in 0 .. MaxAsked /\ sinceAsk \in 0 .. RateLimit

(* "A lost recovery IDR does not stall recovery": whatever is lost, the    *)
(* first IDR, the request's answer or several answers in a row, a picture  *)
(* comes and a frozen one moves again.                                     *)
FreezeEnds == frozen ~> ~frozen

(* Recovery does not feed on itself: unless frames go on being lost or     *)
(* overtaken, requests come to an end, and with them the IDRs.             *)
Overtaken == \E f \in flight : Arrive(f) /\ \E g \in flight : g.age > f.age
Vanishing == Send(TRUE) /\ \E f \in flight : f.age = InFlight
Disturbed == Send(FALSE) \/ Vanishing \/ (\E f \in flight : Lose(f)) \/ Overtaken

RequestsEnd == []<><<Disturbed>>_vars \/ <>[](asked = 0 /\ ~queued)
=============================================================================
