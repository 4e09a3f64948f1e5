----------------------------- MODULE Reassembler -----------------------------
(***************************************************************************)
(* The receiving end of a video stream: Reassembler::push of               *)
(* loom-proto/src/reassembly.rs, fed by a network that loses, duplicates,  *)
(* reorders and delays datagrams at will.                                  *)
(*                                                                         *)
(* Frame s of the stream was sent as the fragments 0 .. Count[s] - 1, and  *)
(* is a keyframe when s is in Keyframes.  Every fragment may arrive at any *)
(* time, any number of times, or never.                                    *)
(***************************************************************************)
EXTENDS Integers, Sequences, FiniteSets

CONSTANTS
  LastSeq,     \* the frames are 0 .. LastSeq
  Count,       \* fragments of each frame
  Keyframes,   \* the frames coded as IDR
  Window,      \* 2: incomplete frames held
  RateLimit,   \* 250 ms, in steps of the clock
  MaxTime,     \* bound on the clock
  StaleCap     \* bound on the stale_fragments counter, where it saturates

Seqs == 0 .. LastSeq

ASSUME ReassemblerAssumption ==
  /\ LastSeq \in Nat
  /\ Count \in [Seqs -> Nat \ {0}]
  /\ Keyframes \subseteq Seqs
  /\ Window \in Nat \ {0}
  /\ RateLimit \in Nat \ {0} /\ MaxTime \in Nat /\ StaleCap \in Nat

VARIABLES
  newestComplete,    \* newest_complete, -1 before any
  lastDecoded,       \* last_decoded, -1 for None
  incomplete,        \* seq |-> the fragment indices held (BTreeMap, Incomplete.have)
  delivered,         \* frames delivered, in order (Event::Deliver)
  idrTimes,          \* times of the IDR requests, in order (Event::IdrRequest)
  droppedIncomplete, \* Counters
  discardedGap,
  staleFragments,
  idrLast,           \* {idr_last_t}, {} for None
  now,               \* t_ms of the next push
  fate               \* history: what became of each frame

counters == <<droppedIncomplete, discardedGap, staleFragments>>
vars == <<newestComplete, lastDecoded, incomplete, delivered, idrTimes, counters,
          idrLast, now, fate>>

Fates == {"unseen", "open", "dropped", "gap", "delivered"}
None == -1

Init ==
  /\ newestComplete = -1 /\ lastDecoded = None
  /\ incomplete = [s \in {} |-> {}]
  /\ delivered = <<>> /\ idrTimes = <<>>
  /\ droppedIncomplete = 0 /\ discardedGap = 0 /\ staleFragments = 0
  /\ idrLast = {} /\ now = 0
  /\ fate = [s \in Seqs |-> "unseen"]

-----------------------------------------------------------------------------
Held == DOMAIN incomplete
Oldest(S) == CHOOSE s \in S : \A t \in S : s <= t

BelowWindowNever(s) == FALSE   \* faulty: no frame is too old for the window

(* Rules 1 and 2: the fragments that are counted as stale and forgotten.   *)
BelowWindow(s) ==
  s \notin Held /\ Cardinality(Held) >= Window /\ s <= Oldest(Held)

IsStale(s) == s <= newestComplete \/ BelowWindow(s)

PushStale(s) ==
  /\ IsStale(s)
  /\ staleFragments' = IF staleFragments < StaleCap THEN staleFragments + 1 ELSE StaleCap
  /\ UNCHANGED <<newestComplete, lastDecoded, incomplete, delivered, idrTimes,
                 droppedIncomplete, discardedGap, idrLast, now, fate>>

(* Rule 2: the frames that make room for a new one.                        *)
Evicted(s) ==
  IF s \notin Held /\ Cardinality(Held) >= Window THEN {Oldest(Held)} ELSE {}

Kept(s) == Held \ Evicted(s)

\* The fragments of s held once i is among them; duplicates change nothing.
Gathered(s, i) == {i} \cup (IF s \in Held THEN incomplete[s] ELSE {})

Completes(s, i) == Cardinality(Gathered(s, i)) = Count[s]

\* Faulty: an eviction is not counted.
PushPartialUncounted(s, i) ==
  /\ ~IsStale(s) /\ ~Completes(s, i)
  /\ incomplete' = [t \in Kept(s) \cup {s} |-> IF t = s THEN Gathered(s, i) ELSE incomplete[t]]
  /\ fate' = [t \in Seqs |-> IF t \in Evicted(s) THEN "dropped"
                             ELSE IF t = s THEN "open" ELSE fate[t]]
  /\ UNCHANGED <<newestComplete, lastDecoded, delivered, idrTimes, counters, idrLast, now>>

(* A fragment that leaves its frame incomplete.                            *)
PushPartial(s, i) ==
  /\ ~IsStale(s) /\ ~Completes(s, i)
  /\ incomplete' = [t \in Kept(s) \cup {s} |-> IF t = s THEN Gathered(s, i) ELSE incomplete[t]]
  /\ droppedIncomplete' = droppedIncomplete + Cardinality(Evicted(s))
  /\ fate' = [t \in Seqs |-> IF t \in Evicted(s) THEN "dropped"
                             ELSE IF t = s THEN "open" ELSE fate[t]]
  /\ UNCHANGED <<newestComplete, lastDecoded, delivered, idrTimes, discardedGap,
                 staleFragments, idrLast, now>>

\* Faulty: any frame above the last decoded passes the gate.
DecodableLoosely(s) == s \in Keyframes \/ (lastDecoded # None /\ lastDecoded < s)

(* Rule 3: a keyframe, or the frame that directly follows the last decoded. *)
Decodable(s) == s \in Keyframes \/ (lastDecoded # None /\ lastDecoded = s - 1)

(* The frames a completion of s leaves behind.                             *)
Overtaken(s) == {t \in Kept(s) \ {s} : t <= s}

\* Faulty: the limit is taken from the wrong side of the interval.
MayAskIdrEarly == \A t \in idrLast : now - t > 0

(* maybe_idr: at most one request per RateLimit.                           *)
MayAskIdr == \A t \in idrLast : now - t >= RateLimit

Complete(s, outcome) ==
  LET gone == Evicted(s) \cup Overtaken(s) IN
  /\ incomplete' = [t \in Kept(s) \ (Overtaken(s) \cup {s}) |-> incomplete[t]]
  /\ newestComplete' = s
  /\ droppedIncomplete' = droppedIncomplete + Cardinality(gone)
  /\ fate' = [t \in Seqs |-> IF t \in gone THEN "dropped"
                             ELSE IF t = s THEN outcome ELSE fate[t]]

\* Faulty: the next frame expected is kept instead of the last one decoded.
PushDeliveredNext(s, i) ==
  /\ ~IsStale(s) /\ Completes(s, i) /\ Decodable(s)
  /\ Complete(s, "delivered")
  /\ delivered' = Append(delivered, s)
  /\ lastDecoded' = s + 1
  /\ UNCHANGED <<idrTimes, discardedGap, staleFragments, idrLast, now>>

(* The fragment completes a frame the decoder can take.                    *)
PushDelivered(s, i) ==
  /\ ~IsStale(s) /\ Completes(s, i) /\ Decodable(s)
  /\ Complete(s, "delivered")
  /\ delivered' = Append(delivered, s)
  /\ lastDecoded' = s
  /\ UNCHANGED <<idrTimes, discardedGap, staleFragments, idrLast, now>>

\* Faulty: only the first gap asks.
PushGapAskingOnce(s, i) ==
  /\ ~IsStale(s) /\ Completes(s, i) /\ ~Decodable(s)
  /\ Complete(s, "gap")
  /\ discardedGap' = discardedGap + 1
  /\ IF idrLast = {}
     THEN idrTimes' = Append(idrTimes, now) /\ idrLast' = {now}
     ELSE UNCHANGED <<idrTimes, idrLast>>
  /\ UNCHANGED <<delivered, lastDecoded, staleFragments, now>>

(* It completes a frame whose predecessor the decoder lacks.               *)
PushGap(s, i) ==
  /\ ~IsStale(s) /\ Completes(s, i) /\ ~Decodable(s)
  /\ Complete(s, "gap")
  /\ discardedGap' = discardedGap + 1
  /\ IF MayAskIdr
     THEN idrTimes' = Append(idrTimes, now) /\ idrLast' = {now}
     ELSE UNCHANGED <<idrTimes, idrLast>>
  /\ UNCHANGED <<delivered, lastDecoded, staleFragments, now>>

ClockAdvances ==
  /\ now < MaxTime
  /\ now' = now + 1
  /\ UNCHANGED <<newestComplete, lastDecoded, incomplete, delivered, idrTimes, counters,
                 idrLast, fate>>

Push(s, i) ==
  PushStale(s) \/ PushPartial(s, i) \/ PushDelivered(s, i) \/ PushGap(s, i)

Next ==
  \/ \E s \in Seqs : \E i \in 0 .. Count[s] - 1 : Push(s, i)
  \/ ClockAdvances

Spec == Init /\ [][Next]_vars

-----------------------------------------------------------------------------
(* Properties.                                                             *)

TypeOK ==
  /\ newestComplete \in Seqs \cup {-1}
  /\ lastDecoded \in Seqs \cup {None}
  /\ Held \subseteq Seqs
  /\ \A s \in Held : incomplete[s] \subseteq 0 .. Count[s] - 1
  /\ delivered \in Seq(Seqs) /\ idrTimes \in Seq(Nat)
  /\ droppedIncomplete \in Nat /\ discardedGap \in Nat
  /\ staleFragments \in 0 .. StaleCap
  /\ idrLast \in SUBSET Nat /\ now \in Nat
  /\ fate \in [Seqs -> Fates]

(* At most Window frames are in flight, each of them newer than the newest *)
(* complete frame and still short of a fragment.                           *)
WindowHolds ==
  /\ Cardinality(Held) <= Window
  /\ \A s \in Held : s > newestComplete /\ Cardinality(incomplete[s]) < Count[s]

(* A frame that was given up, discarded or delivered is never taken up     *)
(* again, however late or often its fragments arrive: the window has no    *)
(* room for it until something newer has completed.                        *)
FateIsFinal ==
  [][\A s \in Seqs : fate[s] \in {"dropped", "gap", "delivered"} => fate'[s] = fate[s]]_vars

(* The frames handed to the decoder form a decodable stream: in the order  *)
(* sent, and each frame that is not an IDR right after its reference.      *)
DecodableStream ==
  \A k \in 1 .. Len(delivered) :
    /\ k > 1 => delivered[k - 1] < delivered[k]
    /\ delivered[k] \notin Keyframes => k > 1 /\ delivered[k - 1] = delivered[k] - 1

(* Every frame that was ever opened is accounted for once: held, counted   *)
(* as dropped, counted as a gap, or delivered.                             *)
Number(f) == Cardinality({s \in Seqs : fate[s] = f})

CountersBalance ==
  /\ Held = {s \in Seqs : fate[s] = "open"}
  /\ droppedIncomplete = Number("dropped")
  /\ discardedGap = Number("gap")
  /\ Len(delivered) = Number("delivered")

(* "at most one IDR request per 250 ms".                                   *)
IdrRateLimited ==
  \A k \in 2 .. Len(idrTimes) : idrTimes[k] - idrTimes[k - 1] >= RateLimit

(* "A lost recovery IDR does not stall recovery": whenever a frame is      *)
(* discarded, a request went out less than 250 ms before.                  *)
GapKeepsAsking ==
  [][discardedGap' > discardedGap =>
       idrTimes' # <<>> /\ now - idrTimes'[Len(idrTimes')] < RateLimit]_vars

(* Seen from the frames alone, reassembly is module FrameStream: loss,     *)
(* repetition, reordering and eviction of fragments can only make frames   *)
(* miss, never change which one decodes or when a request is sent.         *)
Frames == INSTANCE FrameStream

ImplementsFrameStream == Frames!Spec
=============================================================================
