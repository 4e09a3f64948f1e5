-------------------------- MODULE ReassemblerProofs ---------------------------
(***************************************************************************)
(* Reassembly for any stream, any division into fragments, any window and  *)
(* any rate limit, against a network that does what it likes.              *)
(*                                                                         *)
(* The argument is about what is behind the window: a frame that was given *)
(* up is at or below newest_complete, or below every frame of a full       *)
(* window (WindowInv), and rules 1 and 2 take no such frame.               *)
(*                                                                         *)
(* Datagrams, for bodies of any length and any number of displays: what is *)
(* on the wire is a fragment of a frame that was sent (WireInv), so that a *)
(* frame whose fragments all came is restored.  And the types of the       *)
(* recovery loop: what it counts stays within its bounds.                  *)
(***************************************************************************)
EXTENDS MCReassembler, TLAPS, FiniteSetTheorems, SequenceTheorems, WellFoundedInduction

-----------------------------------------------------------------------------
(* Sets of frames.                                                         *)

(* The frames are finitely many naturals.                                  *)
LEMMA SeqsFinite ==
  /\ Seqs \subseteq Nat
  /\ \A S \in SUBSET Seqs : IsFiniteSet(S) /\ Cardinality(S) \in Nat
<1>1. Seqs \subseteq Nat
  BY ReassemblerAssumption DEF Seqs
<1>2. IsFiniteSet(Seqs)
  BY FS_Interval, ReassemblerAssumption DEF Seqs
<1>3. ASSUME NEW S \in SUBSET Seqs PROVE IsFiniteSet(S) /\ Cardinality(S) \in Nat
  BY <1>2, FS_Subset, FS_CardinalityType
<1> QED
  BY <1>1, <1>3

(* A set of naturals that is not empty has a least element.                *)
LEMMA LeastExists ==
  ASSUME NEW S \in SUBSET Nat, S # {}
  PROVE  \E n \in S : \A m \in S : n <= m
<1>1. PICK Less : /\ IsWellFoundedOn(Less, Nat)
                  /\ \A x, y \in Nat : <<y, x>> \in Less <=> y < x
  <2>1. IsWellFoundedOn(OpToRel(<, Nat), Nat)
    BY NatLessThanWellFounded
  <2>2. \A x, y \in Nat : <<y, x>> \in OpToRel(<, Nat) <=> y < x
    BY DEF OpToRel
  <2> QED
    BY <2>1, <2>2, Zenon
<1>2. PICK x \in S : \A y \in S : ~(<<y, x>> \in Less)
  BY <1>1, WFMin
<1>3. ASSUME NEW y \in S PROVE x <= y
  <2>1. ~(y < x)
    BY <1>1, <1>2, Zenon
  <2> QED
    BY <2>1
<1> QED
  BY <1>3

(* BTreeMap's first key is the least one.                                  *)
LEMMA OldestIsLeast ==
  ASSUME NEW S \in SUBSET Seqs, S # {}
  PROVE  Oldest(S) \in S /\ \A t \in S : Oldest(S) <= t
<1> DEFINE Least(s) == \A t \in S : s <= t
<1>1. S \in SUBSET Nat
  BY SeqsFinite
<1>2. \E s \in S : Least(s)
  BY <1>1, LeastExists
<1>3. Oldest(S) = CHOOSE s \in S : Least(s)
  BY DEF Oldest
<1>4. Oldest(S) \in S /\ Least(Oldest(S))
  <2> HIDE DEF Least
  <2> QED
    BY <1>2, <1>3, Zenon
<1> QED
  BY <1>4

(* What a fragment that is not stale finds: its frame is above the newest  *)
(* complete one, and above the frame it evicts, the least of the window.   *)
LEMMA NotStale ==
  ASSUME TypeOK, NEW s \in Seqs, ~IsStale(s)
  PROVE  /\ newestComplete < s
         /\ Evicted(s) \subseteq Held /\ s \notin Evicted(s)
         /\ \A e \in Evicted(s) : e < s /\ \A t \in Held : e <= t
<1>0. s \in Nat /\ newestComplete \in Int /\ Held \in SUBSET Seqs /\ Held \subseteq Nat
  BY SeqsFinite DEF TypeOK
<1>1. newestComplete < s
  BY <1>0 DEF IsStale
<1>2. CASE s \notin Held /\ Cardinality(Held) >= Window
  <2>1. Held # {}
    BY <1>2, FS_EmptySet, ReassemblerAssumption
  <2>2. Oldest(Held) \in Held /\ \A t \in Held : Oldest(Held) <= t
    BY <1>0, <2>1, OldestIsLeast
  <2>3. ~(s <= Oldest(Held))
    BY <1>2 DEF IsStale, BelowWindow
  <2>4. Evicted(s) = {Oldest(Held)}
    BY <1>2 DEF Evicted
  <2>5. Oldest(Held) < s
    <3>1. Oldest(Held) \in Nat
      BY <1>0, <2>2
    <3> QED
      BY <1>0, <2>3, <3>1
  <2> QED
    BY <1>1, <1>2, <2>2, <2>4, <2>5
<1>3. CASE ~(s \notin Held /\ Cardinality(Held) >= Window)
  BY <1>1, <1>3 DEF Evicted
<1> QED
  BY <1>2, <1>3

(* Cardinality of the window with a frame in and its victim out.           *)
LEMMA WindowCardinality ==
  ASSUME TypeOK, NEW s \in Seqs, ~IsStale(s)
  PROVE  /\ Kept(s) \cup {s} \in SUBSET Seqs
         /\ Cardinality(Kept(s) \cup {s}) \in Nat
         /\ Cardinality(Held) <= Window => Cardinality(Kept(s) \cup {s}) <= Window
         /\ Cardinality(Held) >= Window => Cardinality(Kept(s) \cup {s}) >= Window
<1>0. /\ Held \in SUBSET Seqs /\ IsFiniteSet(Held) /\ Cardinality(Held) \in Nat
      /\ Window \in Nat \ {0}
  BY SeqsFinite, ReassemblerAssumption DEF TypeOK
<1>1. Kept(s) \cup {s} \in SUBSET Seqs
  BY <1>0 DEF Kept
<1>2. CASE s \in Held
  <2>1. Kept(s) \cup {s} = Held
    BY <1>2 DEF Kept, Evicted
  <2> QED
    BY <1>0, <1>1, <2>1
<1>3. CASE s \notin Held /\ Cardinality(Held) < Window
  <2>1. Kept(s) = Held
    BY <1>0, <1>3 DEF Kept, Evicted
  <2>2. Cardinality(Held \cup {s}) = Cardinality(Held) + 1
    BY <1>0, <1>3, FS_AddElement
  <2> QED
    BY <1>0, <1>1, <1>3, <2>1, <2>2
<1>4. CASE s \notin Held /\ Cardinality(Held) >= Window
  <2>1. Held # {}
    BY <1>4, FS_EmptySet, ReassemblerAssumption
  <2>2. Oldest(Held) \in Held
    BY <1>0, <2>1, OldestIsLeast
  <2>3. Kept(s) = Held \ {Oldest(Held)}
    BY <1>4 DEF Kept, Evicted
  <2>4. IsFiniteSet(Kept(s)) /\ Cardinality(Kept(s)) = Cardinality(Held) - 1
    BY <1>0, <2>2, <2>3, FS_RemoveElement
  <2>5. Cardinality(Kept(s) \cup {s}) = Cardinality(Kept(s)) + 1
    BY <1>4, <2>3, <2>4, FS_AddElement
  <2> QED
    BY <1>0, <1>1, <2>4, <2>5
<1> QED
  BY <1>0, <1>2, <1>3, <1>4

-----------------------------------------------------------------------------
(* Type correctness.                                                       *)

Counted == <<newestComplete, lastDecoded, incomplete, delivered, idrTimes, droppedIncomplete,
             discardedGap, idrLast, fate>>

(* A step is a fragment that matters, or leaves all but the clock and the  *)
(* count of stale fragments alone.                                         *)
LEMMA Steps ==
  ASSUME [Next]_vars
  PROVE  \/ UNCHANGED Counted
         \/ \E s \in Seqs : \E i \in 0 .. Count[s] - 1 :
              PushPartial(s, i) \/ PushDelivered(s, i) \/ PushGap(s, i)
BY DEF Next, Push, PushStale, ClockAdvances, Counted, vars, counters

(* The fragments gathered are indices of the frame's fragments.            *)
LEMMA GatheredType ==
  ASSUME TypeOK, NEW s \in Seqs, NEW i \in 0 .. Count[s] - 1
  PROVE  /\ Gathered(s, i) \subseteq 0 .. Count[s] - 1
         /\ Cardinality(Gathered(s, i)) \in Nat
         /\ Cardinality(Gathered(s, i)) <= Count[s]
<1>0. Count[s] \in Nat \ {0}
  BY ReassemblerAssumption
<1>1. Gathered(s, i) \subseteq 0 .. Count[s] - 1
  BY DEF Gathered, TypeOK
<1>2. IsFiniteSet(0 .. Count[s] - 1) /\ Cardinality(0 .. Count[s] - 1) = Count[s]
  <2>1. 0 \in Int /\ Count[s] - 1 \in Int /\ ~(0 > Count[s] - 1)
    BY <1>0
  <2>2. /\ IsFiniteSet(0 .. Count[s] - 1)
        /\ Cardinality(0 .. Count[s] - 1) = (Count[s] - 1) - 0 + 1
    BY <2>1, FS_Interval
  <2> QED
    BY <1>0, <2>2
<1> QED
  BY <1>0, <1>1, <1>2, FS_Subset, FS_CardinalityType

(* What a completion does to the window and to the counter of drops.       *)
LEMMA CompleteType ==
  ASSUME TypeOK, NEW s \in Seqs, ~IsStale(s), NEW outcome \in Fates, Complete(s, outcome)
  PROVE  /\ Held' = Kept(s) \ (Overtaken(s) \cup {s})
         /\ Held' \subseteq Held
         /\ \A t \in Held' : incomplete'[t] = incomplete[t]
         /\ newestComplete' = s
         /\ droppedIncomplete' \in Nat
         /\ fate' \in [Seqs -> Fates]
<1>1. /\ Held' = Kept(s) \ (Overtaken(s) \cup {s})
      /\ \A t \in Held' : incomplete'[t] = incomplete[t]
  BY DEF Complete, Held
<1>2. Held' \subseteq Held
  BY <1>1 DEF Kept
<1>3. Evicted(s) \cup Overtaken(s) \in SUBSET Seqs
  BY NotStale DEF Overtaken, Kept, TypeOK
<1>4. droppedIncomplete' \in Nat
  <2>1. Cardinality(Evicted(s) \cup Overtaken(s)) \in Nat
    BY <1>3, SeqsFinite
  <2> QED
    BY <2>1 DEF Complete, TypeOK
<1>5. newestComplete' = s /\ fate' \in [Seqs -> Fates]
  BY DEF Complete, TypeOK, Fates
<1> QED
  BY <1>1, <1>2, <1>4, <1>5

(* The reassembler is well typed for ever.                                 *)
THEOREM TypeCorrect == Spec => []TypeOK
<1>1. Init => TypeOK
  <2> SUFFICES ASSUME Init PROVE TypeOK
    OBVIOUS
  <2>1. Held = {}
    BY DEF Init, Held
  <2>2. staleFragments \in 0 .. StaleCap
    BY ReassemblerAssumption DEF Init
  <2>3. fate \in [Seqs -> Fates]
    BY DEF Init, Fates
  <2> QED
    BY <2>1, <2>2, <2>3 DEF Init, TypeOK, None
<1>2. ASSUME TypeOK, [Next]_vars PROVE TypeOK'
  <2>0. now' \in Nat /\ staleFragments' \in 0 .. StaleCap
    <3>1. now \in Nat /\ staleFragments \in 0 .. StaleCap /\ StaleCap \in Nat
      BY <1>2, ReassemblerAssumption DEF TypeOK
    <3>2. /\ now' = now \/ now' = now + 1
          /\ \/ staleFragments' = staleFragments
             \/ staleFragments' = IF staleFragments < StaleCap THEN staleFragments + 1 ELSE StaleCap
      BY <1>2 DEF Next, Push, PushStale, PushPartial, PushDelivered, PushGap, ClockAdvances, vars,
                  counters
    <3> QED
      BY <3>1, <3>2
  <2>1. CASE UNCHANGED Counted
    BY <1>2, <2>0, <2>1 DEF TypeOK, Counted, Held
  <2>2. ASSUME NEW s \in Seqs, NEW i \in 0 .. Count[s] - 1, PushPartial(s, i) PROVE TypeOK'
    <3>1. ~IsStale(s)
      BY <2>2 DEF PushPartial
    <3>2. Held' = Kept(s) \cup {s} /\ Held' \subseteq Seqs
      BY <1>2, <2>2 DEF PushPartial, Kept, TypeOK, Held
    <3>3. \A t \in Held' : incomplete'[t] \subseteq 0 .. Count[t] - 1
      BY <1>2, <2>2, <3>2, GatheredType DEF PushPartial, Kept, TypeOK
    <3>4. droppedIncomplete' \in Nat
      <4>1. Evicted(s) \in SUBSET Seqs
        BY <1>2, <3>1, NotStale DEF TypeOK
      <4>2. Cardinality(Evicted(s)) \in Nat
        BY <4>1, SeqsFinite
      <4> QED
        BY <1>2, <2>2, <4>2 DEF PushPartial, TypeOK
    <3>5. fate' \in [Seqs -> Fates]
      BY <1>2, <2>2 DEF PushPartial, TypeOK, Fates
    <3> QED
      BY <1>2, <2>0, <2>2, <3>2, <3>3, <3>4, <3>5 DEF PushPartial, TypeOK
  <2>3. ASSUME NEW s \in Seqs, NEW outcome \in Fates, ~IsStale(s), Complete(s, outcome)
        PROVE  /\ newestComplete' \in Seqs \cup {-1} /\ Held' \subseteq Seqs
               /\ \A t \in Held' : incomplete'[t] \subseteq 0 .. Count[t] - 1
               /\ droppedIncomplete' \in Nat /\ fate' \in [Seqs -> Fates]
    BY <1>2, <2>3, CompleteType DEF TypeOK
  <2>4. "delivered" \in Fates /\ "gap" \in Fates
    BY DEF Fates
  <2>5. ASSUME NEW s \in Seqs, NEW i \in 0 .. Count[s] - 1, PushDelivered(s, i) PROVE TypeOK'
    <3>1. delivered' \in Seq(Seqs) /\ lastDecoded' \in Seqs
      BY <1>2, <2>5 DEF PushDelivered, TypeOK
    <3> QED
      BY <1>2, <2>0, <2>3, <2>4, <2>5, <3>1 DEF PushDelivered, TypeOK
  <2>6. ASSUME NEW s \in Seqs, NEW i \in 0 .. Count[s] - 1, PushGap(s, i) PROVE TypeOK'
    <3>1. idrTimes' \in Seq(Nat) /\ idrLast' \in SUBSET Nat
      <4>1. idrTimes \in Seq(Nat) /\ idrLast \in SUBSET Nat /\ now \in Nat
        BY <1>2 DEF TypeOK
      <4>2. CASE MayAskIdr
        <5>1. idrTimes' = Append(idrTimes, now) /\ idrLast' = {now}
          BY <2>6, <4>2 DEF PushGap
        <5> QED
          BY <4>1, <5>1
      <4>3. CASE ~MayAskIdr
        BY <2>6, <4>1, <4>3 DEF PushGap
      <4> QED
        BY <4>2, <4>3
    <3>2. discardedGap' \in Nat
      BY <1>2, <2>6 DEF PushGap, TypeOK
    <3> QED
      BY <1>2, <2>0, <2>3, <2>4, <2>6, <3>1, <3>2 DEF PushGap, TypeOK
  <2> QED
    BY <1>2, <2>1, <2>2, <2>5, <2>6, Steps
<1> QED
  BY <1>1, <1>2, PTL DEF Spec

-----------------------------------------------------------------------------
(* The window and the frames behind it.                                    *)

Final == {"dropped", "gap", "delivered"}

(* The history says "open" of the frames that are held, and only of them.  *)
HeldOpen == Held = {s \in Seqs : fate[s] = "open"}

(* A frame whose fate is final is out of the window's reach.               *)
FateInv ==
  \A t \in Seqs : fate[t] \in Final =>
    \/ t <= newestComplete
    \/ Cardinality(Held) >= Window /\ \A u \in Held : t < u

WindowInv == WindowHolds /\ HeldOpen /\ FateInv

(* Rules 1 and 2 refuse every frame whose fate is final.                   *)
LEMMA FinalIsStale ==
  ASSUME TypeOK, FateInv, NEW t \in Seqs, fate[t] \in Final
  PROVE  IsStale(t)
<1>0. t \in Nat /\ newestComplete \in Int /\ Held \in SUBSET Seqs
  BY SeqsFinite DEF TypeOK
<1>1. CASE t <= newestComplete
  BY <1>1 DEF IsStale
<1>2. CASE Cardinality(Held) >= Window /\ \A u \in Held : t < u
  <2>1. Held # {}
    BY <1>2, FS_EmptySet, ReassemblerAssumption
  <2>2. Oldest(Held) \in Held
    BY <1>0, <2>1, OldestIsLeast
  <2>3. t < Oldest(Held) /\ Oldest(Held) \in Nat
    BY <1>0, <1>2, <2>2, SeqsFinite
  <2>4. t \notin Held
    BY <1>0, <1>2
  <2>5. t <= Oldest(Held)
    BY <1>0, <2>3
  <2> QED
    BY <1>2, <2>4, <2>5 DEF IsStale, BelowWindow
<1> QED
  BY <1>1, <1>2 DEF FateInv

(* A fragment that leaves its frame incomplete keeps the window's facts.   *)
LEMMA PartialWindow ==
  ASSUME TypeOK, WindowInv, NEW s \in Seqs, NEW i \in 0 .. Count[s] - 1, PushPartial(s, i)
  PROVE  WindowInv'
<1>1. ~IsStale(s) /\ newestComplete' = newestComplete
  BY DEF PushPartial
<1>2. /\ newestComplete < s
      /\ Evicted(s) \subseteq Held /\ s \notin Evicted(s)
      /\ \A e \in Evicted(s) : e < s /\ \A t \in Held : e <= t
  BY <1>1, NotStale
<1>3. /\ Held' = Kept(s) \cup {s} /\ Held' \in SUBSET Seqs
      /\ \A t \in Held' : incomplete'[t] = IF t = s THEN Gathered(s, i) ELSE incomplete[t]
  BY DEF PushPartial, Kept, TypeOK, Held
<1>4. WindowHolds'
  <2>1. Cardinality(Held') <= Window
    BY <1>1, <1>3, WindowCardinality DEF WindowInv, WindowHolds
  <2>2. Cardinality(Gathered(s, i)) < Count[s]
    <3>1. Count[s] \in Nat
      BY ReassemblerAssumption
    <3> QED
      BY <3>1, GatheredType DEF PushPartial, Completes
  <2>3. \A t \in Held' : t > newestComplete' /\ Cardinality(incomplete'[t]) < Count[t]
    BY <1>1, <1>2, <1>3, <2>2 DEF WindowInv, WindowHolds, Kept
  <2> QED
    BY <2>1, <2>3 DEF WindowHolds
<1>5. HeldOpen'
  <2>1. \A t \in Seqs : fate'[t] = "open" <=> t \in Kept(s) \cup {s}
    BY <1>2 DEF PushPartial, WindowInv, HeldOpen, Kept, TypeOK
  <2> QED
    BY <1>3, <2>1 DEF HeldOpen
<1>6. FateInv'
  <2> SUFFICES ASSUME NEW t \in Seqs, fate'[t] \in Final
               PROVE  \/ t <= newestComplete'
                      \/ Cardinality(Held') >= Window /\ \A u \in Held' : t < u
    BY DEF FateInv
  <2>0. /\ Seqs \subseteq Nat /\ Window \in Nat /\ Held \in SUBSET Seqs
        /\ Cardinality(Held) \in Nat
    BY SeqsFinite, ReassemblerAssumption DEF TypeOK
  <2>1. CASE t \in Evicted(s)
    \* The victim is the least of a full window, and s is above it.
    <3>1. Cardinality(Held) >= Window
      BY <2>1 DEF Evicted
    <3>2. Cardinality(Held') >= Window
      BY <1>1, <1>3, <3>1, WindowCardinality
    <3>3. Evicted(s) = {t}
      BY <2>1 DEF Evicted
    <3>4. \A u \in Held' : t < u
      BY <1>2, <1>3, <2>0, <2>1, <3>3 DEF Kept
    <3> QED
      BY <3>2, <3>4
  <2>2. CASE t \notin Evicted(s)
    <3>1. t # s /\ fate[t] \in Final
      BY <2>2 DEF PushPartial, Final, TypeOK
    <3>2. CASE t <= newestComplete
      BY <1>1, <3>2
    <3>3. CASE Cardinality(Held) >= Window /\ \A u \in Held : t < u
      <4>1. Cardinality(Held') >= Window
        BY <1>1, <1>3, <3>3, WindowCardinality
      <4>2. t < s
        \* s is held, or above the window's least.
        <5>1. CASE s \in Held
          BY <3>3, <5>1
        <5>2. CASE s \notin Held
          <6>1. Held # {}
            BY <3>3, FS_EmptySet, ReassemblerAssumption
          <6>2. Oldest(Held) \in Held /\ Evicted(s) = {Oldest(Held)}
            BY <2>0, <3>3, <5>2, <6>1, OldestIsLeast DEF Evicted
          <6>3. t < Oldest(Held) /\ Oldest(Held) < s /\ Oldest(Held) \in Nat
            BY <1>2, <2>0, <3>3, <6>2
          <6> QED
            BY <2>0, <6>3
        <5> QED
          BY <5>1, <5>2
      <4> QED
        BY <1>3, <3>3, <4>1, <4>2 DEF Kept
    <3> QED
      BY <3>1, <3>2, <3>3 DEF WindowInv, FateInv
  <2> QED
    BY <2>1, <2>2
<1> QED
  BY <1>4, <1>5, <1>6 DEF WindowInv

(* A completion clears the window up to its frame.                         *)
LEMMA CompleteWindow ==
  ASSUME TypeOK, WindowInv, NEW s \in Seqs, ~IsStale(s),
         NEW outcome \in Final, Complete(s, outcome)
  PROVE  WindowInv'
<1>0. /\ Seqs \subseteq Nat /\ Window \in Nat /\ Held \in SUBSET Seqs /\ IsFiniteSet(Held)
      /\ Cardinality(Held) \in Nat /\ newestComplete \in Int
  BY SeqsFinite, ReassemblerAssumption DEF TypeOK
<1>1. /\ newestComplete < s
      /\ Evicted(s) \subseteq Held /\ s \notin Evicted(s)
      /\ \A e \in Evicted(s) : e < s
  BY NotStale
<1>2. outcome \in Fates
  BY DEF Final, Fates
<1>3. /\ Held' = Kept(s) \ (Overtaken(s) \cup {s}) /\ Held' \subseteq Held
      /\ \A t \in Held' : incomplete'[t] = incomplete[t]
      /\ newestComplete' = s
  BY <1>2, CompleteType
<1>4. \A t \in Held' : s < t
  BY <1>0, <1>3 DEF Overtaken
<1>5. WindowHolds'
  <2>1. Cardinality(Held') <= Cardinality(Held) /\ Cardinality(Held') \in Nat
    BY <1>0, <1>3, FS_Subset, FS_CardinalityType
  <2>2. Cardinality(Held') <= Window
    BY <1>0, <2>1 DEF WindowInv, WindowHolds
  <2>3. \A t \in Held' : Cardinality(incomplete'[t]) < Count[t]
    BY <1>3 DEF WindowInv, WindowHolds
  <2>4. \A t \in Held' : t > newestComplete'
    BY <1>0, <1>3, <1>4
  <2> QED
    BY <2>2, <2>3, <2>4 DEF WindowHolds
<1>6. HeldOpen'
  <2>1. \A t \in Seqs : fate'[t] = "open" <=> t \in Held'
    BY <1>1, <1>3 DEF Complete, WindowInv, HeldOpen, Kept, Final, TypeOK
  <2> QED
    BY <1>0, <1>3, <2>1 DEF HeldOpen
<1>7. FateInv'
  <2> SUFFICES ASSUME NEW t \in Seqs, fate'[t] \in Final
               PROVE  \/ t <= newestComplete'
                      \/ Cardinality(Held') >= Window /\ \A u \in Held' : t < u
    BY DEF FateInv
  <2>1. CASE t = s \/ t \in Evicted(s) \cup Overtaken(s)
    <3>1. t <= s
      BY <1>0, <1>1, <2>1 DEF Overtaken
    <3> QED
      BY <1>3, <3>1
  <2>2. CASE t # s /\ t \notin Evicted(s) \cup Overtaken(s)
    <3>1. fate[t] \in Final
      BY <2>2 DEF Complete, TypeOK
    \* A final frame was below what came before, so it is below s.
    <3>2. CASE t <= newestComplete
      BY <1>0, <1>1, <1>3, <3>2
    <3>3. CASE Cardinality(Held) >= Window /\ \A u \in Held : t < u
      <4>1. CASE s \in Held
        BY <1>0, <1>3, <3>3, <4>1
      <4>2. CASE s \notin Held
        <5>1. Held # {}
          BY <3>3, FS_EmptySet, ReassemblerAssumption
        <5>2. Oldest(Held) \in Held /\ Evicted(s) = {Oldest(Held)}
          BY <1>0, <3>3, <4>2, <5>1, OldestIsLeast DEF Evicted
        <5>3. t < Oldest(Held) /\ Oldest(Held) < s /\ Oldest(Held) \in Nat
          BY <1>0, <1>1, <3>3, <5>2
        <5> QED
          BY <1>0, <1>3, <5>3
      <4> QED
        BY <4>1, <4>2
    <3> QED
      BY <3>1, <3>2, <3>3 DEF WindowInv, FateInv
  <2> QED
    BY <2>1, <2>2
<1> QED
  BY <1>5, <1>6, <1>7 DEF WindowInv

(* The three facts are an invariant.                                       *)
LEMMA WindowInductive == Spec => []WindowInv
<1>1. Init => WindowInv
  <2> SUFFICES ASSUME Init PROVE WindowInv
    OBVIOUS
  <2>1. Held = {} /\ \A t \in Seqs : fate[t] = "unseen"
    BY DEF Init, Held
  <2>2. Cardinality(Held) = 0 /\ Window \in Nat
    BY <2>1, FS_EmptySet, ReassemblerAssumption
  <2> QED
    BY <2>1, <2>2 DEF WindowInv, WindowHolds, HeldOpen, FateInv, Final
<1>2. TypeOK /\ WindowInv /\ [Next]_vars => WindowInv'
  <2> SUFFICES ASSUME TypeOK, WindowInv, [Next]_vars PROVE WindowInv'
    OBVIOUS
  <2>1. CASE UNCHANGED Counted
    <3>1. Held' = Held /\ incomplete' = incomplete /\ fate' = fate /\ newestComplete' = newestComplete
      BY <2>1 DEF Counted, Held
    <3> QED
      BY <3>1 DEF WindowInv, WindowHolds, HeldOpen, FateInv
  <2>2. ASSUME NEW s \in Seqs, NEW i \in 0 .. Count[s] - 1, PushPartial(s, i) PROVE WindowInv'
    BY <2>2, PartialWindow
  <2>3. ASSUME NEW s \in Seqs, NEW i \in 0 .. Count[s] - 1, PushDelivered(s, i) \/ PushGap(s, i)
        PROVE  WindowInv'
    <3>1. "delivered" \in Final /\ "gap" \in Final
      BY DEF Final
    <3>2. ~IsStale(s) /\ (Complete(s, "delivered") \/ Complete(s, "gap"))
      BY <2>3 DEF PushDelivered, PushGap
    <3> QED
      BY <3>1, <3>2, CompleteWindow
  <2> QED
    BY <2>1, <2>2, <2>3, Steps
<1> QED
  BY TypeCorrect, <1>1, <1>2, PTL DEF Spec

(* push never holds more than the window, nor a frame that is complete or  *)
(* overtaken.                                                              *)
THEOREM WindowCorrect == Spec => []WindowHolds
<1>1. WindowInv => WindowHolds
  BY DEF WindowInv
<1> QED
  BY WindowInductive, <1>1, PTL

(* A frame delivered, discarded or given up stays so: rules 1 and 2 of     *)
(* push leave no way back, however the network reorders and repeats.       *)
THEOREM FateCorrect == Spec => FateIsFinal
<1> DEFINE Settled ==
      \A s \in Seqs : fate[s] \in {"dropped", "gap", "delivered"} => fate'[s] = fate[s]
<1>1. TypeOK /\ WindowInv /\ [Next]_vars => [Settled]_vars
  <2> SUFFICES ASSUME TypeOK, WindowInv, [Next]_vars, NEW t \in Seqs, fate[t] \in Final
               PROVE  fate'[t] = fate[t]
    BY DEF Final
  <2>1. CASE UNCHANGED Counted
    BY <2>1 DEF Counted
  <2>2. ASSUME NEW s \in Seqs, ~IsStale(s) PROVE t # s /\ t \notin Evicted(s) \cup Overtaken(s)
    <3>1. IsStale(t)
      BY FinalIsStale DEF WindowInv
    <3>2. t \notin Held
      BY DEF WindowInv, HeldOpen, Final
    <3>3. Evicted(s) \subseteq Held
      BY <2>2, NotStale
    <3> QED
      BY <2>2, <3>1, <3>2, <3>3 DEF Overtaken, Kept
  <2>3. ASSUME NEW s \in Seqs, NEW i \in 0 .. Count[s] - 1, PushPartial(s, i)
        PROVE  fate'[t] = fate[t]
    BY <2>2, <2>3 DEF PushPartial
  <2>4. ASSUME NEW s \in Seqs, NEW i \in 0 .. Count[s] - 1, PushDelivered(s, i) \/ PushGap(s, i)
        PROVE  fate'[t] = fate[t]
    BY <2>2, <2>4 DEF PushDelivered, PushGap, Complete
  <2> QED
    BY <2>1, <2>3, <2>4, Steps
<1> QED
  BY TypeCorrect, WindowInductive, <1>1, PTL DEF Spec, FateIsFinal

-----------------------------------------------------------------------------
(* The stream.                                                             *)

(* last_decoded is the last frame delivered, and at most newest_complete.  *)
StreamInv ==
  /\ DecodableStream
  /\ lastDecoded <= newestComplete
  /\ delivered = <<>> => lastDecoded = None
  /\ delivered # <<>> => lastDecoded = delivered[Len(delivered)]

(* What the decoder is handed is decodable: in order, and every frame that *)
(* is not an IDR right after its reference, whatever the network lost.     *)
THEOREM StreamCorrect == Spec => []DecodableStream
<1>1. Init => StreamInv
  BY DEF Init, StreamInv, DecodableStream, None
<1>2. TypeOK /\ StreamInv /\ [Next]_vars => StreamInv'
  <2> SUFFICES ASSUME TypeOK, StreamInv, [Next]_vars PROVE StreamInv'
    OBVIOUS
  <2>0. /\ newestComplete \in Int /\ lastDecoded \in Int /\ delivered \in Seq(Seqs)
        /\ Seqs \subseteq Nat
    BY SeqsFinite DEF TypeOK, None
  <2>1. CASE UNCHANGED Counted
    BY <2>1 DEF Counted, StreamInv, DecodableStream
  <2>2. ASSUME NEW s \in Seqs, NEW i \in 0 .. Count[s] - 1, PushPartial(s, i) PROVE StreamInv'
    BY <2>2 DEF PushPartial, StreamInv, DecodableStream
  <2>3. ASSUME NEW s \in Seqs, NEW i \in 0 .. Count[s] - 1, PushGap(s, i) PROVE StreamInv'
    <3>1. newestComplete < s /\ newestComplete' = s /\ s \in Int
      BY <2>0, <2>3, NotStale DEF PushGap, Complete
    <3>2. UNCHANGED <<delivered, lastDecoded>>
      BY <2>3 DEF PushGap
    <3> QED
      BY <2>0, <3>1, <3>2 DEF StreamInv, DecodableStream
  <2>4. ASSUME NEW s \in Seqs, NEW i \in 0 .. Count[s] - 1, PushDelivered(s, i) PROVE StreamInv'
    <3>1. newestComplete < s /\ newestComplete' = s /\ s \in Int /\ Decodable(s)
      BY <2>0, <2>4, NotStale DEF PushDelivered, Complete
    <3>2. delivered' = Append(delivered, s) /\ lastDecoded' = s
      BY <2>4 DEF PushDelivered
    <3>3. /\ Len(delivered') = Len(delivered) + 1 /\ delivered' # <<>>
          /\ delivered'[Len(delivered')] = s
          /\ \A k \in 1 .. Len(delivered) : delivered'[k] = delivered[k]
      BY <2>0, <3>2
    <3>4. ASSUME NEW k \in 1 .. Len(delivered')
          PROVE  /\ k > 1 => delivered'[k - 1] < delivered'[k]
                 /\ delivered'[k] \notin Keyframes => k > 1 /\ delivered'[k - 1] = delivered'[k] - 1
      <4>1. CASE k \in 1 .. Len(delivered)
        BY <2>0, <3>3, <4>1 DEF StreamInv, DecodableStream
      <4>2. CASE k = Len(delivered) + 1
        <5>1. delivered'[k] = s
          BY <3>3, <4>2
        <5>2. CASE delivered = <<>>
          <6>1. k = 1 /\ s \in Keyframes
            BY <2>0, <3>1, <4>2, <5>2 DEF StreamInv, Decodable
          <6> QED
            BY <5>1, <6>1
        <5>3. CASE delivered # <<>>
          <6>1. k > 1 /\ delivered'[k - 1] = lastDecoded
            BY <2>0, <3>3, <4>2, <5>3 DEF StreamInv
          <6>2. lastDecoded < s
            BY <2>0, <3>1 DEF StreamInv
          <6>3. s \notin Keyframes => lastDecoded = s - 1
            BY <3>1 DEF Decodable
          <6> QED
            BY <5>1, <6>1, <6>2, <6>3
        <5> QED
          BY <5>2, <5>3
      <4> QED
        BY <2>0, <3>3, <4>1, <4>2
    <3>5. DecodableStream'
      BY <3>4 DEF DecodableStream
    <3> QED
      BY <3>1, <3>2, <3>3, <3>5 DEF StreamInv
  <2> QED
    BY <2>1, <2>2, <2>3, <2>4, Steps
<1>3. StreamInv => DecodableStream
  BY DEF StreamInv
<1> QED
  BY TypeCorrect, <1>1, <1>2, <1>3, PTL DEF Spec

-----------------------------------------------------------------------------
(* The IDR requests.                                                       *)

(* idr_last_t is the time of the last request.                             *)
IdrInv ==
  /\ IdrRateLimited
  /\ idrTimes = <<>> => idrLast = {}
  /\ idrTimes # <<>> => idrLast = {idrTimes[Len(idrTimes)]}

(* Only a gap asks.                                                        *)
LEMMA IdrStep ==
  ASSUME TypeOK, IdrInv, [Next]_vars
  PROVE  IdrInv'
<1>0. idrTimes \in Seq(Nat) /\ now \in Nat /\ RateLimit \in Nat
  BY ReassemblerAssumption DEF TypeOK
<1>1. CASE UNCHANGED <<idrTimes, idrLast>>
  BY <1>1 DEF IdrInv, IdrRateLimited
<1>2. ASSUME MayAskIdr, idrTimes' = Append(idrTimes, now), idrLast' = {now} PROVE IdrInv'
  <2>1. /\ Len(idrTimes') = Len(idrTimes) + 1 /\ idrTimes' # <<>>
        /\ idrTimes'[Len(idrTimes')] = now
        /\ \A k \in 1 .. Len(idrTimes) : idrTimes'[k] = idrTimes[k]
    BY <1>0, <1>2
  <2>2. ASSUME NEW k \in 2 .. Len(idrTimes') PROVE idrTimes'[k] - idrTimes'[k - 1] >= RateLimit
    <3>1. CASE k \in 2 .. Len(idrTimes)
      BY <1>0, <2>1, <3>1 DEF IdrInv, IdrRateLimited
    <3>2. CASE k = Len(idrTimes) + 1
      <4>1. idrTimes # <<>> /\ idrTimes'[k - 1] = idrTimes[Len(idrTimes)]
        BY <1>0, <2>1, <2>2, <3>2
      <4>2. now - idrTimes[Len(idrTimes)] >= RateLimit
        BY <1>2, <4>1 DEF IdrInv, MayAskIdr
      <4> QED
        BY <2>1, <3>2, <4>1, <4>2
    <3> QED
      BY <1>0, <2>1, <2>2, <3>1, <3>2
  <2>3. IdrRateLimited'
    BY <2>2 DEF IdrRateLimited
  <2> QED
    BY <1>2, <2>1, <2>3 DEF IdrInv
<1>3. ASSUME NEW s \in Seqs, NEW i \in 0 .. Count[s] - 1, PushGap(s, i) PROVE IdrInv'
  <2>1. CASE MayAskIdr
    <3>1. idrTimes' = Append(idrTimes, now) /\ idrLast' = {now}
      BY <1>3, <2>1 DEF PushGap
    <3> QED
      BY <1>2, <2>1, <3>1
  <2>2. CASE ~MayAskIdr
    BY <1>1, <1>3, <2>2 DEF PushGap
  <2> QED
    BY <2>1, <2>2
<1> QED
  BY <1>1, <1>3, Steps DEF Counted, PushPartial, PushDelivered

(* maybe_idr: two requests are at least the rate limit apart.              *)
THEOREM RateCorrect == Spec => []IdrRateLimited
<1>1. Init => IdrInv
  BY DEF Init, IdrInv, IdrRateLimited
<1>2. IdrInv => IdrRateLimited
  BY DEF IdrInv
<1> QED
  BY TypeCorrect, <1>1, <1>2, IdrStep, PTL DEF Spec

(* A decoder that is stuck keeps asking: no frame is discarded unless a    *)
(* request goes out with it or went out less than the rate limit before.   *)
THEOREM AskingCorrect == Spec => GapKeepsAsking
<1> DEFINE Asked ==
      discardedGap' > discardedGap =>
        idrTimes' # <<>> /\ now - idrTimes'[Len(idrTimes')] < RateLimit
<1>1. Init => IdrInv
  BY DEF Init, IdrInv, IdrRateLimited
<1>2. TypeOK /\ IdrInv /\ [Next]_vars => [Asked]_vars
  <2> SUFFICES ASSUME TypeOK, IdrInv, [Next]_vars, discardedGap' > discardedGap
               PROVE  idrTimes' # <<>> /\ now - idrTimes'[Len(idrTimes')] < RateLimit
    OBVIOUS
  <2>0. /\ idrTimes \in Seq(Nat) /\ now \in Nat /\ RateLimit \in Nat /\ RateLimit > 0
        /\ discardedGap \in Nat
    BY ReassemblerAssumption DEF TypeOK
  <2>1. discardedGap' # discardedGap
    BY <2>0
  <2>2. \E s \in Seqs : \E i \in 0 .. Count[s] - 1 : PushGap(s, i)
    BY <2>1, Steps DEF Counted, PushPartial, PushDelivered
  <2>3. CASE MayAskIdr
    <3>1. idrTimes' = Append(idrTimes, now)
      BY <2>2, <2>3 DEF PushGap
    <3>2. idrTimes' # <<>> /\ idrTimes'[Len(idrTimes')] = now
      BY <2>0, <3>1
    <3> QED
      BY <2>0, <3>2
  <2>4. CASE ~MayAskIdr
    <3>1. idrTimes' = idrTimes
      BY <2>2, <2>4 DEF PushGap
    <3>2. PICK t \in idrLast : ~(now - t >= RateLimit)
      BY <2>4 DEF MayAskIdr
    <3>3. idrTimes # <<>> /\ t = idrTimes[Len(idrTimes)]
      BY <3>2 DEF IdrInv
    <3>4. t \in Nat
      BY <2>0, <3>3
    <3> QED
      BY <2>0, <3>1, <3>2, <3>3, <3>4
  <2> QED
    BY <2>3, <2>4
<1> QED
  BY TypeCorrect, <1>1, <1>2, IdrStep, PTL DEF Spec, GapKeepsAsking

-----------------------------------------------------------------------------
(* Reassembly implements FrameStream: for any loss, repetition, reordering *)
(* and eviction of fragments, what is decoded and when an IDR is asked for *)
(* follow from the order in which frames complete.                         *)
THEOREM FramesCorrect == Spec => ImplementsFrameStream
<1> DEFINE view == <<newestComplete, lastDecoded, delivered, idrTimes, idrLast, now>>
<1>1. Init => Frames!Init
  BY DEF Init, Frames!Init, None
<1>2. TypeOK /\ [Next]_vars => [Frames!Next]_view
  <2> SUFFICES ASSUME TypeOK, Next PROVE [Frames!Next]_view
    BY DEF vars
  <2>0. Seqs \subseteq Nat /\ Seqs = 0 .. LastSeq
    BY SeqsFinite DEF Seqs
  <2>1. CASE ClockAdvances
    BY <2>1 DEF ClockAdvances, Frames!Next, Frames!ClockAdvances
  <2>2. ASSUME NEW s \in Seqs, NEW i \in 0 .. Count[s] - 1, PushDelivered(s, i)
        PROVE  Frames!Next
    <3>1. s > newestComplete /\ newestComplete' = s /\ UNCHANGED now
      BY <2>0, <2>2 DEF PushDelivered, Complete, IsStale, TypeOK
    <3>2. Frames!Decode(s)
      BY <2>0, <2>2 DEF PushDelivered, Decodable, Frames!Decode, None, TypeOK
    <3> QED
      BY <2>0, <3>1, <3>2 DEF Frames!Next, Frames!Complete
  <2>3. ASSUME NEW s \in Seqs, NEW i \in 0 .. Count[s] - 1, PushGap(s, i)
        PROVE  Frames!Next
    <3>1. s > newestComplete /\ newestComplete' = s /\ UNCHANGED <<now, lastDecoded, delivered>>
      BY <2>0, <2>3 DEF PushGap, Complete, IsStale, TypeOK
    <3>2. s \notin Keyframes /\ (lastDecoded = -1 \/ s # lastDecoded + 1)
      BY <2>0, <2>3 DEF PushGap, Decodable, None, TypeOK
    <3>3. MayAskIdr <=> ~ \E t \in idrLast : now - t < RateLimit
      BY ReassemblerAssumption DEF MayAskIdr, TypeOK
    <3>4. Frames!Discard(s)
      BY <2>3, <3>1, <3>2, <3>3 DEF PushGap, Frames!Discard
    <3> QED
      BY <2>0, <3>1, <3>4 DEF Frames!Next, Frames!Complete
  <2>4. ASSUME NEW s \in Seqs, NEW i \in 0 .. Count[s] - 1, PushStale(s) \/ PushPartial(s, i)
        PROVE  UNCHANGED view
    BY <2>4 DEF PushStale, PushPartial
  <2> QED
    BY <2>1, <2>2, <2>3, <2>4 DEF Next, Push
<1> QED
  BY TypeCorrect, <1>1, <1>2, PTL DEF Spec, ImplementsFrameStream, Frames!Spec

-----------------------------------------------------------------------------
(* The books.                                                              *)

Fated(f) == {t \in Seqs : fate[t] = f}

(* What a push that gives up the frames of `gone` and settles s as f does  *)
(* to the number of frames of each fate.                                   *)
LEMMA FatesCounted ==
  ASSUME TypeOK, HeldOpen, NEW s \in Seqs, NEW f \in {"open", "gap", "delivered"},
         NEW gone, gone \subseteq Held, s \notin gone, fate[s] \notin Final,
         fate' = [t \in Seqs |-> IF t \in gone THEN "dropped" ELSE IF t = s THEN f ELSE fate[t]]
  PROVE  /\ Number("dropped")' = Number("dropped") + Cardinality(gone)
         /\ \A g \in {"gap", "delivered"} :
              Number(g)' = IF g = f THEN Number(g) + 1 ELSE Number(g)
<1>1. gone \in SUBSET Seqs /\ \A t \in gone : fate[t] = "open"
  BY DEF HeldOpen
<1>2. ASSUME NEW g PROVE Number(g) = Cardinality(Fated(g)) /\ Number(g)' = Cardinality(Fated(g)')
  BY DEF Number, Fated
<1>3. /\ IsFiniteSet(gone) /\ Cardinality(gone) \in Nat
      /\ \A g : IsFiniteSet(Fated(g)) /\ Cardinality(Fated(g)) \in Nat
  BY <1>1, SeqsFinite DEF Fated
<1>4. Number("dropped")' = Number("dropped") + Cardinality(gone)
  <2>1. Fated("dropped")' = Fated("dropped") \cup gone
    <3>1. \A t \in Seqs : fate'[t] = "dropped" <=> fate[t] = "dropped" \/ t \in gone
      BY DEF Final
    <3> QED
      BY <1>1, <3>1 DEF Fated
  <2>2. Fated("dropped") \cap gone = {}
    BY <1>1 DEF Fated
  <2>3. Cardinality(Fated("dropped") \cup gone) = Cardinality(Fated("dropped")) + Cardinality(gone)
    <3> DEFINE D == Fated("dropped")
    <3>1. IsFiniteSet(D) /\ Cardinality(D) \in Nat
      BY <1>3
    <3>2. Cardinality(D \cap gone) = 0
      BY <2>2, FS_EmptySet
    <3> HIDE DEF D
    <3>3. Cardinality(D \cup gone) = Cardinality(D) + Cardinality(gone) - Cardinality(D \cap gone)
      BY <1>3, <3>1, FS_Union
    <3>4. Cardinality(D \cup gone) = Cardinality(D) + Cardinality(gone)
      BY <1>3, <3>1, <3>2, <3>3
    <3> QED
      BY <3>4 DEF D
  <2> QED
    BY <1>2, <2>1, <2>3
<1>5. ASSUME NEW g \in {"gap", "delivered"}
      PROVE  Number(g)' = IF g = f THEN Number(g) + 1 ELSE Number(g)
  <2>1. s \notin Fated(g)
    BY DEF Fated, Final
  <2>2. CASE g = f
    <3>1. Fated(g)' = Fated(g) \cup {s}
      BY <1>1, <2>2 DEF Fated
    <3>2. Cardinality(Fated(g) \cup {s}) = Cardinality(Fated(g)) + 1
      BY <1>3, <2>1, FS_AddElement
    <3> QED
      BY <1>2, <2>2, <3>1, <3>2
  <2>3. CASE g # f
    <3>1. Fated(g)' = Fated(g)
      BY <1>1, <2>1, <2>3 DEF Fated
    <3> QED
      BY <1>2, <2>3, <3>1
  <2> QED
    BY <2>2, <2>3
<1> QED
  BY <1>4, <1>5

(* Every frame ever opened is in exactly one of the four books: held,      *)
(* dropped_incomplete, discarded_gap, delivered (reassembly.rs, Counters). *)
THEOREM BalanceCorrect == Spec => []CountersBalance
<1>1. Init => CountersBalance
  <2> SUFFICES ASSUME Init PROVE CountersBalance
    OBVIOUS
  <2>1. \A f \in Fates \ {"unseen"} : {s \in Seqs : fate[s] = f} = {}
    BY DEF Init
  <2>2. \A f \in Fates \ {"unseen"} : Number(f) = 0
    BY <2>1, FS_EmptySet DEF Number
  <2>3. Held = {}
    BY DEF Init, Held
  <2> QED
    BY <2>1, <2>2, <2>3 DEF Init, CountersBalance, Fates
<1>2. TypeOK /\ WindowInv /\ CountersBalance /\ WindowInv' /\ [Next]_vars => CountersBalance'
  <2> SUFFICES ASSUME TypeOK, WindowInv, CountersBalance, WindowInv', [Next]_vars
               PROVE  CountersBalance'
    OBVIOUS
  <2>0. HeldOpen /\ FateInv /\ HeldOpen'
    BY DEF WindowInv
  <2>1. CASE UNCHANGED Counted
    <3>1. UNCHANGED <<fate, droppedIncomplete, discardedGap, delivered>>
      BY <2>1 DEF Counted
    <3> QED
      BY <2>0, <3>1 DEF CountersBalance, Number, HeldOpen
  <2>2. ASSUME NEW s \in Seqs, ~IsStale(s)
        PROVE  /\ fate[s] \notin Final
               /\ Evicted(s) \subseteq Held /\ s \notin Evicted(s)
               /\ Overtaken(s) \subseteq Held /\ s \notin Overtaken(s)
    BY <2>0, <2>2, FinalIsStale, NotStale DEF Overtaken, Kept
  <2>3. ASSUME NEW s \in Seqs, NEW i \in 0 .. Count[s] - 1, PushPartial(s, i)
        PROVE  CountersBalance'
    <3>1. /\ ~IsStale(s) /\ UNCHANGED <<discardedGap, delivered>>
          /\ droppedIncomplete' = droppedIncomplete + Cardinality(Evicted(s))
      BY <2>3 DEF PushPartial
    <3>2. /\ Number("dropped")' = Number("dropped") + Cardinality(Evicted(s))
          /\ Number("gap")' = Number("gap") /\ Number("delivered")' = Number("delivered")
      BY <2>0, <2>2, <2>3, <3>1, FatesCounted DEF PushPartial
    <3> QED
      BY <2>0, <3>1, <3>2 DEF CountersBalance, HeldOpen
  <2>4. ASSUME NEW s \in Seqs, ~IsStale(s), NEW f \in {"gap", "delivered"}, Complete(s, f)
        PROVE  /\ droppedIncomplete' = Number("dropped")'
               /\ \A g \in {"gap", "delivered"} :
                    Number(g)' = IF g = f THEN Number(g) + 1 ELSE Number(g)
    <3> DEFINE gone == Evicted(s) \cup Overtaken(s)
    <3>1. gone \subseteq Held /\ s \notin gone /\ fate[s] \notin Final
      BY <2>2, <2>4
    <3>2. /\ droppedIncomplete' = droppedIncomplete + Cardinality(gone)
          /\ fate' = [t \in Seqs |-> IF t \in gone THEN "dropped" ELSE IF t = s THEN f ELSE fate[t]]
      BY <2>4 DEF Complete
    <3> HIDE DEF gone
    <3>3. /\ Number("dropped")' = Number("dropped") + Cardinality(gone)
          /\ \A g \in {"gap", "delivered"} :
               Number(g)' = IF g = f THEN Number(g) + 1 ELSE Number(g)
      BY <2>0, <3>1, <3>2, FatesCounted
    <3> QED
      BY <3>2, <3>3 DEF CountersBalance
  <2>5. ASSUME NEW s \in Seqs, NEW i \in 0 .. Count[s] - 1, PushDelivered(s, i)
        PROVE  CountersBalance'
    <3>1. ~IsStale(s) /\ Complete(s, "delivered") /\ UNCHANGED discardedGap
      BY <2>5 DEF PushDelivered
    <3>2. Len(delivered') = Len(delivered) + 1
      BY <2>5 DEF PushDelivered, TypeOK
    <3> QED
      BY <2>0, <2>4, <3>1, <3>2 DEF CountersBalance, HeldOpen
  <2>6. ASSUME NEW s \in Seqs, NEW i \in 0 .. Count[s] - 1, PushGap(s, i)
        PROVE  CountersBalance'
    <3>1. /\ ~IsStale(s) /\ Complete(s, "gap") /\ UNCHANGED delivered
          /\ discardedGap' = discardedGap + 1
      BY <2>6 DEF PushGap
    <3> QED
      BY <2>0, <2>4, <3>1 DEF CountersBalance, HeldOpen
  <2> QED
    BY <2>1, <2>3, <2>5, <2>6, Steps
<1> QED
  BY TypeCorrect, WindowInductive, <1>1, <1>2, PTL DEF Spec

-----------------------------------------------------------------------------
(***************************************************************************)
(* The datagrams.  The invariant WireInv says where each datagram of the   *)
(* wire has its place: it is a fragment of one frame of one display.       *)
(***************************************************************************)
(* Headers and streams.                                                    *)

LEMMA Constants ==
  /\ MAX_PAYLOAD \in Nat /\ MAX_PAYLOAD >= 1
  /\ U16 \in Nat /\ U16 > 1 /\ HEADER_LEN = 12
  BY DatagramAssumption DEF HEADER_LEN

LEMMA StreamsDistinct ==
  /\ \A i \in Displayed : StreamId(i) \in Nat \ {1}
  /\ \A i, j \in Displayed : StreamId(i) = StreamId(j) => i = j
  /\ {0, 1} \cup ExtraStreams = {1} \cup {StreamId(i) : i \in Displayed}
  BY DatagramAssumption DEF Displayed, StreamId, ExtraStreams

(* The two flags are two bits of one number.                               *)
LEMMA Bits ==
  ASSUME NEW f \in 0 .. 3
  PROVE  (Has(f, LAST) <=> f \in {2, 3}) /\ (Has(f, KEYFRAME) <=> f \in {1, 3})
<1>1. f = 0 \/ f = 1 \/ f = 2 \/ f = 3
  OBVIOUS
<1> QED
  BY <1>1 DEF Has, LAST, KEYFRAME

LEMMA FlagsOf ==
  ASSUME NEW keyframe \in BOOLEAN, NEW stream, NEW seq, NEW index \in Nat,
         NEW count \in Nat \ {0}
  PROVE  LET flags == Header(keyframe, stream, seq, index, count).flags
         IN  /\ flags \in 0 .. 3
             /\ Has(flags, LAST) <=> index = count - 1
             /\ Has(flags, KEYFRAME) <=> keyframe
<1> DEFINE flags == Header(keyframe, stream, seq, index, count).flags
<1>1. flags = (IF keyframe THEN 1 ELSE 0) + (IF index = count - 1 THEN 2 ELSE 0)
  BY DEF Header, KEYFRAME, LAST
<1> HIDE DEF flags
<1>2. /\ flags \in 0 .. 3
      /\ flags \in {2, 3} <=> index = count - 1
      /\ flags \in {1, 3} <=> keyframe
  BY <1>1
<1>3. (Has(flags, LAST) <=> flags \in {2, 3}) /\ (Has(flags, KEYFRAME) <=> flags \in {1, 3})
  BY <1>2, Bits
<1> QED
  BY <1>2, <1>3, Zenon DEF flags

(* A datagram is taken when none of the seven checks fails.                *)
Passes(d) ==
  /\ ~(d.bytes < HEADER_LEN) /\ ~(d.bytes > HEADER_LEN + MAX_PAYLOAD)
  /\ d.header.magic = MAGIC
  /\ ~(d.header.count < 1) /\ ~(d.header.index >= d.header.count)
  /\ Has(d.header.flags, LAST) = (d.header.index = d.header.count - 1)
  /\ d.header.stream \in {0, 1} \cup ExtraStreams

LEMMA ReasonIs ==
  ASSUME NEW d
  PROVE  Reason(d) = "none" <=> Passes(d)
<1> DEFINE c == Checks(d)
<1>1. /\ Len(c) = 7
      /\ c[1] = <<"too_short", d.bytes < HEADER_LEN>>
      /\ c[2] = <<"oversize", d.bytes > HEADER_LEN + MAX_PAYLOAD>>
      /\ c[3] = <<"bad_magic", d.header.magic # MAGIC>>
      /\ c[4] = <<"frag_count_zero", d.header.count < 1>>
      /\ c[5] = <<"frag_index_range", d.header.index >= d.header.count>>
      /\ c[6] = <<"last_fragment_mismatch",
                  Has(d.header.flags, LAST) # (d.header.index = d.header.count - 1)>>
      /\ c[7] = <<"unknown_stream", d.header.stream \notin {0, 1} \cup ExtraStreams>>
  BY DEF Checks
<1> HIDE DEF c
<1>2. Failing(d) = {n \in 1 .. 7 : c[n][2]}
  BY <1>1 DEF Failing, c
<1>3. Failing(d) = {} <=> Passes(d)
  <2>1. Failing(d) = {} <=> /\ ~c[1][2] /\ ~c[2][2] /\ ~c[3][2] /\ ~c[4][2]
                            /\ ~c[5][2] /\ ~c[6][2] /\ ~c[7][2]
    <3>1. \A n : n \in 1 .. 7 <=> n \in {1, 2, 3, 4, 5, 6, 7}
      OBVIOUS
    <3> QED
      BY <1>2, <3>1, Zenon
  <2>2. /\ c[1][2] = (d.bytes < HEADER_LEN) /\ c[2][2] = (d.bytes > HEADER_LEN + MAX_PAYLOAD)
        /\ c[3][2] = (d.header.magic # MAGIC) /\ c[4][2] = (d.header.count < 1)
        /\ c[5][2] = (d.header.index >= d.header.count)
        /\ c[6][2] = (Has(d.header.flags, LAST) # (d.header.index = d.header.count - 1))
        /\ c[7][2] = (d.header.stream \notin {0, 1} \cup ExtraStreams)
    BY <1>1
  <2> QED
    BY <2>1, <2>2, Zenon DEF Passes
<1>4. \A n \in 1 .. 7 : c[n][1] # "none"
  BY <1>1
<1>5. ASSUME Failing(d) # {} PROVE Reason(d) # "none"
  <2>1. Failing(d) \in SUBSET Nat
    BY <1>2
  <2>2. Min(Failing(d)) \in Failing(d)
    <3>1. \E n \in Failing(d) : \A m \in Failing(d) : n <= m
      BY <1>5, <2>1, LeastExists
    <3> QED
      BY <3>1, Zenon DEF Min
  <2> QED
    BY <1>2, <1>4, <1>5, <2>2 DEF Reason, c
<1> QED
  BY <1>3, <1>5 DEF Reason

(* A header is one that DatagramHeader::new could have made, its reserved  *)
(* bits aside, just when index and LAST_FRAGMENT fit its count.            *)
LEMMA BuiltIs ==
  ASSUME NEW h \in Headers
  PROVE  (/\ h.index \in 0 .. h.count - 1
          /\ \E keyframe \in BOOLEAN :
               [h EXCEPT !.flags = @ % 4] = Header(keyframe, h.stream, h.seq, h.index, h.count))
           <=> /\ h.magic = MAGIC /\ ~(h.count < 1) /\ ~(h.index >= h.count)
               /\ Has(h.flags, LAST) = (h.index = h.count - 1)
<1> DEFINE f == h.flags % 4
<1>0. /\ h.index \in Nat /\ h.count \in Nat /\ h.flags \in Nat /\ f \in 0 .. 3
      /\ h = [magic |-> h.magic, stream |-> h.stream, seq |-> h.seq, index |-> h.index,
              count |-> h.count, flags |-> h.flags]
  BY DEF Headers
<1>1. [h EXCEPT !.flags = @ % 4] =
        [magic |-> h.magic, stream |-> h.stream, seq |-> h.seq, index |-> h.index,
         count |-> h.count, flags |-> f]
  BY <1>0
<1>2. Has(h.flags, LAST) <=> f \in {2, 3}
  <2>1. h.flags = 4 * (h.flags \div 4) + f /\ h.flags \div 4 \in Nat
    <3>1. \A n \in Nat : n = 4 * (n \div 4) + (n % 4) /\ n \div 4 \in Nat
      OBVIOUS
    <3> QED
      BY <1>0, <3>1
  <2>2. ASSUME NEW q \in Nat, NEW r \in 0 .. 3, h.flags = 4 * q + r
        PROVE  Has(h.flags, LAST) <=> r \in {2, 3}
    <3>1. h.flags \div 2 = 2 * q + (IF r \in {2, 3} THEN 1 ELSE 0)
      BY <2>2
    <3>2. (h.flags \div 2) % 2 = IF r \in {2, 3} THEN 1 ELSE 0
      BY <3>1
    <3> QED
      BY <3>2 DEF Has, LAST
  <2> QED
    BY <1>0, <2>1, <2>2
<1> HIDE DEF f
<1>3. ASSUME h.index \in 0 .. h.count - 1
      PROVE  (\E keyframe \in BOOLEAN :
                [h EXCEPT !.flags = @ % 4] = Header(keyframe, h.stream, h.seq, h.index, h.count))
               <=> h.magic = MAGIC /\ (f \in {2, 3} <=> h.index = h.count - 1)
  <2>1. ASSUME NEW keyframe \in BOOLEAN
        PROVE  [h EXCEPT !.flags = @ % 4] = Header(keyframe, h.stream, h.seq, h.index, h.count)
                 <=> /\ h.magic = MAGIC
                     /\ f = (IF keyframe THEN 1 ELSE 0) + (IF h.index = h.count - 1 THEN 2 ELSE 0)
    <3>1. Header(keyframe, h.stream, h.seq, h.index, h.count) =
            [magic |-> MAGIC, stream |-> h.stream, seq |-> h.seq, index |-> h.index,
             count |-> h.count,
             flags |-> (IF keyframe THEN 1 ELSE 0) + (IF h.index = h.count - 1 THEN 2 ELSE 0)]
      BY <1>0, <1>3 DEF Header, KEYFRAME, LAST
    <3> QED
      BY <1>1, <3>1
  <2>2. (\E keyframe \in BOOLEAN :
           f = (IF keyframe THEN 1 ELSE 0) + (IF h.index = h.count - 1 THEN 2 ELSE 0))
          <=> (f \in {2, 3} <=> h.index = h.count - 1)
    <3>1. CASE h.index = h.count - 1
      <4>1. \A n : n \in BOOLEAN <=> n = TRUE \/ n = FALSE
        OBVIOUS
      <4>2. f = 0 \/ f = 1 \/ f = 2 \/ f = 3
        BY <1>0
      <4> QED
        BY <3>1, <4>1, <4>2
    <3>2. CASE h.index # h.count - 1
      <4>1. \A n : n \in BOOLEAN <=> n = TRUE \/ n = FALSE
        OBVIOUS
      <4>2. f = 0 \/ f = 1 \/ f = 2 \/ f = 3
        BY <1>0
      <4> QED
        BY <3>2, <4>1, <4>2
    <3> QED
      BY <3>1, <3>2
  <2> QED
    BY <2>1, <2>2
<1>4. h.index \in 0 .. h.count - 1 <=> ~(h.count < 1) /\ ~(h.index >= h.count)
  BY <1>0
<1>5. (Has(h.flags, LAST) = (h.index = h.count - 1)) <=> (f \in {2, 3} <=> h.index = h.count - 1)
  BY <1>2, Zenon DEF Has
<1> QED
  BY <1>3, <1>4, <1>5, Zenon

-----------------------------------------------------------------------------
(* Fragments.                                                              *)

LEMMA Ordered ==
  ASSUME NEW a \in Nat, NEW b \in Nat, NEW m \in Nat, a <= b
  PROVE  a * m <= b * m /\ a * m \in Nat /\ (a + 1) * m = a * m + m
  OBVIOUS

(* A body's fragments are as many as it takes, and one at least.           *)
LEMMA CountIs ==
  ASSUME NEW len \in Nat
  PROVE  LET count == CountOf(len)
         IN  count \in Nat \ {0} /\ len <= count * MAX_PAYLOAD /\ (count - 1) * MAX_PAYLOAD <= len
<1>1. CASE len = 0
  BY <1>1, Constants DEF CountOf
<1>2. CASE len # 0
  <2> DEFINE a == len + MAX_PAYLOAD - 1
             q == a \div MAX_PAYLOAD
  <2>1. a \in Nat /\ a >= MAX_PAYLOAD
    BY <1>2, Constants
  <2>2. q \in Nat /\ q * MAX_PAYLOAD <= a /\ a < (q + 1) * MAX_PAYLOAD
    <3> HIDE DEF a
    <3> QED
      BY <2>1, Constants
  <2>3. q # 0
    <3> HIDE DEF a, q
    <3>1. ASSUME q = 0 PROVE FALSE
      BY <2>1, <2>2, <3>1, Constants
    <3> QED
      BY <3>1
  <2>4. (q + 1) * MAX_PAYLOAD = q * MAX_PAYLOAD + MAX_PAYLOAD
        /\ (q - 1) * MAX_PAYLOAD = q * MAX_PAYLOAD - MAX_PAYLOAD
        /\ q * MAX_PAYLOAD \in Nat
    <3> HIDE DEF q
    <3> QED
      BY <2>2, Constants
  <2>5. len <= q * MAX_PAYLOAD /\ (q - 1) * MAX_PAYLOAD <= len
    <3>1. a = len + MAX_PAYLOAD - 1
      OBVIOUS
    <3> HIDE DEF a, q
    <3> DEFINE p == q * MAX_PAYLOAD
    <3>2. p \in Nat /\ p <= a /\ a < p + MAX_PAYLOAD /\ (q - 1) * MAX_PAYLOAD = p - MAX_PAYLOAD
      BY <2>2, <2>4
    <3> HIDE DEF p
    <3>3. len <= p /\ p - MAX_PAYLOAD <= len
      BY <3>1, <3>2, Constants
    <3> QED
      BY <3>2, <3>3 DEF p
  <2> QED
    BY <1>2, <2>2, <2>3, <2>5 DEF CountOf
<1> QED
  BY <1>1, <1>2

LEMMA ChunkIs ==
  ASSUME NEW len \in Nat, NEW n \in 0 .. CountOf(len) - 1
  PROVE  LET lo == n * MAX_PAYLOAD
             hi == IF (n + 1) * MAX_PAYLOAD < len THEN (n + 1) * MAX_PAYLOAD ELSE len
         IN  /\ lo \in 0 .. len /\ hi \in lo .. len /\ hi - lo <= MAX_PAYLOAD
             /\ (n + 1) * MAX_PAYLOAD = lo + MAX_PAYLOAD
             /\ Body(len) \in Seq(Nat) /\ Len(Body(len)) = len
             /\ Chunk(Body(len), n) = SubSeq(Body(len), lo + 1, hi)
             /\ Chunk(Body(len), n) \in Seq(Nat) /\ Len(Chunk(Body(len), n)) \in 0 .. MAX_PAYLOAD
<1> DEFINE lo == n * MAX_PAYLOAD
           up == (n + 1) * MAX_PAYLOAD
           hi == IF up < len THEN up ELSE len
           b == Body(len)
<1>1. CountOf(len) \in Nat \ {0} /\ (CountOf(len) - 1) * MAX_PAYLOAD <= len
  BY CountIs
<1>2. n \in Nat /\ lo \in Nat /\ lo <= (CountOf(len) - 1) * MAX_PAYLOAD
      /\ (CountOf(len) - 1) * MAX_PAYLOAD \in Nat
  <2> HIDE DEF CountOf
  <2> QED
    BY <1>1, Ordered, Constants
<1>3. up = lo + MAX_PAYLOAD
  BY <1>2, Ordered, Constants
<1>4. b \in Seq(Nat) /\ Len(b) = len
  BY DEF Body
<1>5. Chunk(b, n) = SubSeq(b, lo + 1, hi)
  BY <1>4 DEF Chunk
<1> HIDE DEF lo, up, b
<1>6. lo \in 0 .. len /\ hi \in lo .. len /\ hi - lo <= MAX_PAYLOAD
  BY <1>1, <1>2, <1>3, Constants
<1>7. SubSeq(b, lo + 1, hi) \in Seq(Nat) /\ Len(SubSeq(b, lo + 1, hi)) \in 0 .. MAX_PAYLOAD
  <2>1. \A i \in lo + 1 .. hi : b[i] \in Nat
    BY <1>4, <1>6
  <2>2. lo + 1 \in Int /\ hi \in Int /\ lo \in Int /\ lo <= hi
    BY <1>6
  <2> HIDE DEF hi
  <2>3. Len(SubSeq(b, lo + 1, hi)) = IF lo + 1 <= hi THEN hi - (lo + 1) + 1 ELSE 0
    BY <2>1, <2>2, SubSeqProperties
  <2>4. SubSeq(b, lo + 1, hi) \in Seq(Nat)
    BY <2>1, <2>2, SubSeqProperties
  <2>5. Len(SubSeq(b, lo + 1, hi)) = hi - lo
    BY <2>2, <2>3
  <2> QED
    BY <1>6, <2>2, <2>4, <2>5, Constants
<1> QED
  BY <1>3, <1>4, <1>5, <1>6, <1>7 DEF lo, up, b

(* The chunks in a row are the body: after the first k of them as much of  *)
(* it as k datagrams carry.                                                *)
ChunksOf(len) == [n \in 1 .. CountOf(len) |-> Chunk(Body(len), n - 1)]

Flattens(f, s) == f = [i \in 1 .. Len(s) |-> IF i = 1 THEN s[i] ELSE f[i - 1] \o s[i]]

Upto(len, k) == IF k * MAX_PAYLOAD < len THEN k * MAX_PAYLOAD ELSE len

LEMMA NextChunk ==
  ASSUME NEW len \in Nat, NEW k \in 1 .. CountOf(len)
  PROVE  /\ k = 1 => ChunksOf(len)[k] = SubSeq(Body(len), 1, Upto(len, k))
         /\ k # 1 => SubSeq(Body(len), 1, Upto(len, k - 1)) \o ChunksOf(len)[k]
                       = SubSeq(Body(len), 1, Upto(len, k))
<1> DEFINE lo == (k - 1) * MAX_PAYLOAD
           b == Body(len)
<1>0. /\ CountOf(len) \in Nat /\ k - 1 \in 0 .. CountOf(len) - 1 /\ k - 1 + 1 = k
  BY CountIs
<1>1. /\ lo \in 0 .. len /\ Upto(len, k) \in lo .. len
      /\ b \in Seq(Nat) /\ Len(b) = len
      /\ ChunksOf(len)[k] = SubSeq(b, lo + 1, Upto(len, k))
  BY <1>0, ChunkIs DEF Upto, ChunksOf
<1>2. CASE k = 1
  <2>1. lo = 0
    BY <1>2, Constants
  <2> QED
    BY <1>1, <1>2, <2>1
<1>3. CASE k # 1
  <2>1. Upto(len, k - 1) = lo
    BY <1>1 DEF Upto
  <2>2. SubSeq(b, 1, lo) \o SubSeq(b, lo + 1, Upto(len, k)) = SubSeq(b, 1, Upto(len, k))
    <3> HIDE DEF lo, b
    <3>1. 1 \in 1 .. len + 1 /\ lo \in 1 - 1 .. len /\ Upto(len, k) \in lo .. len
      BY <1>1
    <3> QED
      BY <1>1, <3>1, ConcatAdjacentSubSeq
  <2> QED
    BY <1>1, <1>3, <2>1, <2>2
<1> QED
  BY <1>2, <1>3

LEMMA FlattenIs ==
  ASSUME NEW s, Len(s) # 0, NEW g, Flattens(g, s)
  PROVE  \E f : Flattens(f, s) /\ FlattenSeq(s) = f[Len(s)]
<1> DEFINE h == CHOOSE f : Flattens(f, s)
<1>1. Flattens(h, s)
  OBVIOUS
<1>2. FlattenSeq(s) = h[Len(s)]
  BY DEF FlattenSeq, Flattens
<1> QED
  BY <1>1, <1>2

LEMMA ChunksRestore ==
  ASSUME NEW len \in Nat
  PROVE  FlattenSeq(ChunksOf(len)) = Body(len)
<1> DEFINE s == ChunksOf(len)
           b == Body(len)
           g == [k \in 1 .. CountOf(len) |-> SubSeq(b, 1, Upto(len, k))]
<1>0. CountOf(len) \in Nat \ {0} /\ len <= CountOf(len) * MAX_PAYLOAD /\ Len(s) = CountOf(len)
  BY CountIs DEF ChunksOf
<1>1. Flattens(g, s)
  <2>1. ASSUME NEW k \in 1 .. CountOf(len)
        PROVE  g[k] = IF k = 1 THEN s[k] ELSE g[k - 1] \o s[k]
    <3>1. CASE k = 1
      BY <3>1, NextChunk
    <3>2. CASE k # 1
      <4>1. k - 1 \in 1 .. CountOf(len)
        BY <1>0, <3>2
      <4>2. g[k - 1] = SubSeq(b, 1, Upto(len, k - 1)) /\ g[k] = SubSeq(b, 1, Upto(len, k))
        BY <4>1
      <4> HIDE DEF g
      <4> QED
        BY <3>2, <4>2, NextChunk
    <3> QED
      BY <3>1, <3>2
  <2> QED
    BY <1>0, <2>1 DEF Flattens
<1>2. PICK f : Flattens(f, s) /\ FlattenSeq(s) = f[Len(s)]
  BY <1>0, <1>1, FlattenIs
<1>3. ASSUME NEW k \in 1 .. CountOf(len) PROVE f[k] = SubSeq(b, 1, Upto(len, k))
  <2> DEFINE Bad == {m \in 1 .. CountOf(len) : f[m] # SubSeq(b, 1, Upto(len, m))}
  <2> SUFFICES ASSUME Bad # {} PROVE FALSE
    OBVIOUS
  <2>1. PICK m \in Bad : \A i \in Bad : m <= i
    <3>1. Bad \in SUBSET Nat
      BY <1>0
    <3> QED
      BY <3>1, LeastExists
  <2>2. m \in 1 .. CountOf(len) /\ f[m] = IF m = 1 THEN s[m] ELSE f[m - 1] \o s[m]
    BY <1>0, <1>2 DEF Flattens
  <2>3. CASE m = 1
    BY <2>1, <2>2, <2>3, NextChunk
  <2>4. CASE m # 1
    <3>1. m - 1 \in 1 .. CountOf(len) /\ m - 1 < m
      BY <1>0, <2>2, <2>4
    <3>2. f[m - 1] = SubSeq(b, 1, Upto(len, m - 1))
      BY <1>0, <2>1, <2>2, <3>1
    <3> QED
      BY <2>1, <2>2, <2>4, <3>2, NextChunk
  <2> QED
    BY <2>3, <2>4
<1>4. Upto(len, CountOf(len)) = len
  <2>1. CountOf(len) * MAX_PAYLOAD \in Nat
    BY <1>0, Ordered, Constants
  <2> QED
    BY <1>0, <2>1 DEF Upto
<1>5. b \in Seq(Nat) /\ Len(b) = len
  BY DEF Body
<1>6. SubSeq(b, 1, len) = b
  BY <1>5, SubSeqFull
<1>7. FlattenSeq(s) = SubSeq(b, 1, len)
  <2> HIDE DEF s, b
  <2>1. CountOf(len) \in 1 .. CountOf(len)
    BY <1>0
  <2> QED
    BY <1>0, <1>2, <1>3, <1>4, <2>1, Zenon
<1> QED
  BY <1>6, <1>7, Zenon

-----------------------------------------------------------------------------
(* What the host sends, and what becomes of it.                            *)

(* Every frame fits in U16 fragments; else fragment's casts wrap.          *)
BodiesFit == \A len \in Bodies : CountOf(len) < U16

(* The n-th frame of display i is there in the n-th place.                 *)
FrameAt(i, n) == Fragment(StreamId(i), n - 1, frames[i][n].keyframe, Body(frames[i][n].len))

FramesOK == frames \in [Displayed -> Seq([len : Bodies, keyframe : BOOLEAN])]

FromFrames == \A d \in wire : \E i \in Displayed : \E n \in 1 .. Len(frames[i]) : d \in FrameAt(i, n)

WireInv ==
  /\ FramesOK
  /\ FromFrames
  /\ accepted \cup dropped \subseteq wire
  /\ \A d \in accepted : Reason(d) = "none"
  /\ \A d \in dropped : Reason(d) # "none"
  /\ judged # <<>> => judged[1] \in Foreign /\ judged[2] = Reason(judged[1])

(* What there is in a fragment.                                            *)
LEMMA FragmentIs ==
  ASSUME NEW stream, NEW seq, NEW keyframe, NEW len \in Nat,
         NEW d \in Fragment(stream, seq, keyframe, Body(len))
  PROVE  \E n \in 0 .. CountOf(len) - 1 :
           /\ d.header = Header(keyframe, stream, seq, n % U16, CountOf(len) % U16)
           /\ d.payload = Chunk(Body(len), n)
           /\ d.bytes \in HEADER_LEN .. HEADER_LEN + MAX_PAYLOAD
<1>1. Len(Body(len)) = len
  BY DEF Body
<1>2. PICK n \in 0 .. CountOf(len) - 1 :
        d = Encode(Header(keyframe, stream, seq, n % U16, CountOf(len) % U16), Chunk(Body(len), n))
  BY <1>1 DEF Fragment
<1>3. Len(Chunk(Body(len), n)) \in 0 .. MAX_PAYLOAD
  BY ChunkIs, Constants
<1>4. d.bytes = HEADER_LEN + Len(Chunk(Body(len), n)) /\ d.payload = Chunk(Body(len), n)
      /\ d.header = Header(keyframe, stream, seq, n % U16, CountOf(len) % U16)
  BY <1>2 DEF Encode
<1>5. d.bytes \in HEADER_LEN .. HEADER_LEN + MAX_PAYLOAD
  BY <1>3, <1>4, Constants
<1> QED
  BY <1>4, <1>5

LEMMA FragmentPasses ==
  ASSUME NEW i \in Displayed, NEW seq, NEW keyframe \in BOOLEAN, NEW len \in Nat, CountOf(len) < U16,
         NEW d \in Fragment(StreamId(i), seq, keyframe, Body(len))
  PROVE  \E n \in 0 .. CountOf(len) - 1 :
           /\ d.header = Header(keyframe, StreamId(i), seq, n, CountOf(len))
           /\ d.header.index = n /\ d.header.count = CountOf(len)
           /\ d.header.stream = StreamId(i) /\ d.header.seq = seq
           /\ Has(d.header.flags, KEYFRAME) <=> keyframe
           /\ d.payload = Chunk(Body(len), n)
           /\ Reason(d) = "none"
<1>1. PICK n \in 0 .. CountOf(len) - 1 :
           /\ d.header = Header(keyframe, StreamId(i), seq, n % U16, CountOf(len) % U16)
           /\ d.payload = Chunk(Body(len), n)
           /\ d.bytes \in HEADER_LEN .. HEADER_LEN + MAX_PAYLOAD
  BY FragmentIs
<1>2. CountOf(len) \in Nat \ {0} /\ n \in Nat /\ n < CountOf(len)
  <2>1. CountOf(len) \in Nat \ {0}
    BY CountIs
  <2> QED
    BY <2>1
<1>3. n % U16 = n /\ CountOf(len) % U16 = CountOf(len)
  <2>1. \A a \in Nat : a < U16 => a % U16 = a
    BY Constants
  <2> QED
    BY <1>2, <2>1, Constants
<1>4. d.header = Header(keyframe, StreamId(i), seq, n, CountOf(len))
  BY <1>1, <1>3
<1>5. /\ d.header.magic = MAGIC /\ d.header.index = n /\ d.header.count = CountOf(len)
      /\ d.header.stream = StreamId(i) /\ d.header.seq = seq
  BY <1>4 DEF Header
<1>6. /\ Has(d.header.flags, LAST) <=> n = CountOf(len) - 1
      /\ Has(d.header.flags, KEYFRAME) <=> keyframe
  BY <1>2, <1>4, FlagsOf
<1>7. Passes(d)
  <2>1. ~(d.bytes < HEADER_LEN) /\ ~(d.bytes > HEADER_LEN + MAX_PAYLOAD)
    BY <1>1, Constants
  <2>2. ~(d.header.count < 1) /\ ~(d.header.index >= d.header.count)
    BY <1>2, <1>5
  <2>3. d.header.stream \in {0, 1} \cup ExtraStreams
    BY <1>5, StreamsDistinct
  <2>4. Has(d.header.flags, LAST) = (d.header.index = d.header.count - 1)
    BY <1>5, <1>6, Zenon DEF Has
  <2> QED
    BY <1>5, <2>1, <2>2, <2>3, <2>4 DEF Passes
<1>8. Reason(d) = "none"
  BY <1>7, ReasonIs
<1> QED
  BY <1>1, <1>4, <1>5, <1>6, <1>8, Zenon

LEMMA WireInitInv == WireInit => WireInv
  BY DEF WireInit, WireInv, FramesOK, FromFrames

LEMMA SendStep ==
  ASSUME WireInv, NEW i \in Displayed, NEW len \in Bodies, NEW keyframe \in BOOLEAN,
         SendFrame(i, len, keyframe)
  PROVE  WireInv'
<1> DEFINE f == [len |-> len, keyframe |-> keyframe]
           F == [len : Bodies, keyframe : BOOLEAN]
<1>1. /\ frames \in [Displayed -> Seq(F)] /\ f \in F
      /\ frames' = [frames EXCEPT ![i] = Append(@, f)]
      /\ wire' = wire \cup Fragment(StreamId(i), Len(frames[i]), keyframe, Body(len))
      /\ UNCHANGED <<accepted, dropped>> /\ judged' = <<>>
  BY DEF WireInv, FramesOK, SendFrame
<1>2. /\ FramesOK'
      /\ Len(frames'[i]) = Len(frames[i]) + 1 /\ frames'[i][Len(frames[i]) + 1] = f
      /\ \A j \in Displayed : \A n \in 1 .. Len(frames[j]) :
           n \in 1 .. Len(frames'[j]) /\ frames'[j][n] = frames[j][n]
  <2>1. Append(frames[i], f) \in Seq(F)
        /\ Len(Append(frames[i], f)) = Len(frames[i]) + 1
        /\ \A n \in 1 .. Len(frames[i]) : Append(frames[i], f)[n] = frames[i][n]
        /\ Append(frames[i], f)[Len(frames[i]) + 1] = f
    <3>1. frames[i] \in Seq(F)
      BY <1>1
    <3> HIDE DEF f, F
    <3>2. f \in F
      BY <1>1
    <3> QED
      BY <3>1, <3>2, AppendProperties
  <2>2. \A j \in Displayed : Len(frames[j]) \in Nat
    BY <1>1
  <2>3. /\ frames'[i] = Append(frames[i], f)
        /\ \A j \in Displayed : j # i => frames'[j] = frames[j]
        /\ DOMAIN frames' = Displayed
    BY <1>1
  <2>4. FramesOK'
    BY <1>1, <2>1, <2>3 DEF FramesOK
  <2> HIDE DEF f, F
  <2>5. ASSUME NEW j \in Displayed, NEW n \in 1 .. Len(frames[j])
        PROVE  n \in 1 .. Len(frames'[j]) /\ frames'[j][n] = frames[j][n]
    <3>1. CASE j = i
      BY <2>1, <2>2, <2>3, <3>1
    <3>2. CASE j # i
      BY <2>3, <3>2
    <3> QED
      BY <3>1, <3>2
  <2> QED
    BY <2>1, <2>3, <2>4, <2>5
<1>3. FromFrames'
  <2> SUFFICES ASSUME NEW d \in wire'
               PROVE  \E j \in Displayed : \E n \in 1 .. Len(frames'[j]) : d \in FrameAt(j, n)'
    BY DEF FromFrames
  <2>1. CASE d \in wire
    <3>0. PICK j \in Displayed : \E n \in 1 .. Len(frames[j]) : d \in FrameAt(j, n)
      BY <2>1 DEF WireInv, FromFrames
    <3>1. PICK n \in 1 .. Len(frames[j]) : d \in FrameAt(j, n)
      BY <3>0
    <3>2. FrameAt(j, n)' = FrameAt(j, n)
      BY <1>2 DEF FrameAt
    <3> QED
      BY <1>2, <3>1, <3>2
  <2>2. CASE d \in Fragment(StreamId(i), Len(frames[i]), keyframe, Body(len))
    <3>1. Len(frames[i]) \in Nat
      BY <1>1
    <3>2. PICK n \in Nat : n = Len(frames[i]) + 1 /\ n - 1 = Len(frames[i])
      BY <3>1
    <3>3. n \in 1 .. Len(frames'[i]) /\ frames'[i][n].len = len /\ frames'[i][n].keyframe = keyframe
      BY <1>2, <3>1, <3>2
    <3>4. d \in FrameAt(i, n)'
      BY <2>2, <3>2, <3>3 DEF FrameAt
    <3> QED
      BY <3>3, <3>4
  <2> QED
    BY <1>1, <2>1, <2>2
<1>4. \A d : Reason(d)' = Reason(d)
  BY DEF Reason, Failing, Checks
<1> QED
  BY <1>1, <1>2, <1>3, <1>4 DEF WireInv

LEMMA WireInvAlways == WireSpec => []WireInv
<1>1. WireInv /\ [WireNext]_wireVars => WireInv'
  <2> SUFFICES ASSUME WireInv, [WireNext]_wireVars PROVE WireInv'
    OBVIOUS
  <2>1. ASSUME NEW i \in Displayed, NEW len \in Bodies, NEW keyframe \in BOOLEAN,
               SendFrame(i, len, keyframe)
        PROVE  WireInv'
    BY <2>1, SendStep
  <2>2. ASSUME NEW d \in wire, Receive(d) PROVE WireInv'
    <3>1. FramesOK' /\ FromFrames'
      BY <2>2 DEF Receive, WireInv, FramesOK, FromFrames, FrameAt
    <3>2. judged' = <<>> /\ wire' = wire /\ d \in wire
      BY <2>2 DEF Receive
    <3>3. CASE Reason(d) = "none"
      BY <2>2, <3>1, <3>2, <3>3 DEF Receive, WireInv
    <3>4. CASE Reason(d) # "none"
      BY <2>2, <3>1, <3>2, <3>4 DEF Receive, WireInv
    <3> QED
      BY <3>3, <3>4
  <2>3. ASSUME NEW d \in Foreign, ReceiveForeign(d) PROVE WireInv'
    BY <2>3 DEF ReceiveForeign, WireInv, FramesOK, FromFrames, FrameAt
  <2>4. CASE UNCHANGED wireVars
    BY <2>4 DEF wireVars, WireInv, FramesOK, FromFrames, FrameAt
  <2> QED
    BY <2>1, <2>2, <2>3, <2>4 DEF WireNext
<1> QED
  BY WireInitInv, <1>1, PTL DEF WireSpec

(* The sizes, indices and counts of what the host sends are within their   *)
(* fields, whatever it sends (datagram.rs, fragment).                      *)
THEOREM WireTypeCorrect == WireSpec => []WireTypeOK
<1>1. WireInv => WireTypeOK
  <2> SUFFICES ASSUME WireInv PROVE WireTypeOK
    OBVIOUS
  <2>1. \A i \in Displayed, n \in 1 .. MaxFrames :
          n <= Len(frames[i]) => frames[i][n].len \in Bodies /\ frames[i][n].keyframe \in BOOLEAN
    <3> SUFFICES ASSUME NEW i \in Displayed, NEW n \in 1 .. MaxFrames, n <= Len(frames[i])
                 PROVE  frames[i][n].len \in Bodies /\ frames[i][n].keyframe \in BOOLEAN
      OBVIOUS
    <3>1. frames[i] \in Seq([len : Bodies, keyframe : BOOLEAN])
      BY DEF WireInv, FramesOK
    <3>0. n \in 1 .. Len(frames[i])
      <4>1. n \in Nat /\ n >= 1 /\ Len(frames[i]) \in Nat
        BY <3>1, DatagramAssumption
      <4> QED
        BY <4>1
    <3>2. frames[i][n] \in [len : Bodies, keyframe : BOOLEAN]
      BY <3>0, <3>1, ElementOfSeq
    <3> QED
      BY <3>2
  <2>2. ASSUME NEW d \in wire
        PROVE  /\ d.bytes \in HEADER_LEN .. HEADER_LEN + MAX_PAYLOAD
               /\ d.header.index \in 0 .. U16 - 1 /\ d.header.count \in 0 .. U16 - 1
    <3>0. PICK i \in Displayed : \E n \in 1 .. Len(frames[i]) : d \in FrameAt(i, n)
      BY DEF WireInv, FromFrames
    <3>1. PICK n \in 1 .. Len(frames[i]) : d \in FrameAt(i, n)
      BY <3>0
    <3>2. frames[i][n] \in [len : Bodies, keyframe : BOOLEAN]
      BY ElementOfSeq DEF WireInv, FramesOK
    <3>3. frames[i][n].len \in Nat
      BY <3>2, DatagramAssumption
    <3>4. PICK m \in 0 .. CountOf(frames[i][n].len) - 1 :
            /\ d.header = Header(frames[i][n].keyframe, StreamId(i), n - 1, m % U16,
                                 CountOf(frames[i][n].len) % U16)
            /\ d.bytes \in HEADER_LEN .. HEADER_LEN + MAX_PAYLOAD
      BY <3>1, <3>3, FragmentIs DEF FrameAt
    <3>5. \A a \in Nat : a % U16 \in 0 .. U16 - 1
      BY Constants
    <3>6. m \in Nat /\ CountOf(frames[i][n].len) \in Nat
      <4>1. CountOf(frames[i][n].len) \in Nat
        BY <3>3, CountIs
      <4> QED
        BY <4>1
    <3> QED
      BY <3>4, <3>5, <3>6 DEF Header
  <2> QED
    BY <2>1, <2>2 DEF WireTypeOK, WireInv
<1> QED
  BY WireInvAlways, <1>1, PTL

(* A datagram of any peer is accepted exactly when a host could have built *)
(* it: the seven checks leave nothing out and turn nothing else down       *)
(* (datagram.rs, decode_with_streams).                                     *)
THEOREM AcceptedCorrect == WireSpec => []AcceptedAsBuilt
<1>1. WireInv => AcceptedAsBuilt
  <2> SUFFICES ASSUME WireInv, judged # <<>> PROVE AcceptedAsBuilt
    BY DEF AcceptedAsBuilt
  <2> DEFINE d == judged[1]
             h == d.header
  <2>1. d \in Foreign /\ (judged[2] = "none" <=> Passes(d))
    BY ReasonIs DEF WireInv
  <2>2. d.bytes \in Nat /\ h \in Headers
    BY <2>1, DatagramAssumption
  <2>3. d.bytes \in HEADER_LEN .. HEADER_LEN + MAX_PAYLOAD
          <=> ~(d.bytes < HEADER_LEN) /\ ~(d.bytes > HEADER_LEN + MAX_PAYLOAD)
    BY <2>2, Constants
  <2>4. (/\ h.index \in 0 .. h.count - 1
         /\ \E keyframe \in BOOLEAN :
              [h EXCEPT !.flags = @ % 4] = Header(keyframe, h.stream, h.seq, h.index, h.count))
          <=> /\ h.magic = MAGIC /\ ~(h.count < 1) /\ ~(h.index >= h.count)
              /\ Has(h.flags, LAST) = (h.index = h.count - 1)
    BY <2>2, BuiltIs
  <2>5. h.stream \in {1} \cup {StreamId(i) : i \in Displayed} <=> h.stream \in {0, 1} \cup ExtraStreams
    BY StreamsDistinct
  <2> HIDE DEF d, h
  <2>6. Passes(d) <=> /\ ~(d.bytes < HEADER_LEN) /\ ~(d.bytes > HEADER_LEN + MAX_PAYLOAD)
                      /\ h.magic = MAGIC
                      /\ ~(h.count < 1) /\ ~(h.index >= h.count)
                      /\ Has(h.flags, LAST) = (h.index = h.count - 1)
                      /\ h.stream \in {0, 1} \cup ExtraStreams
    BY Zenon DEF Passes, h
  <2> QED
    BY <2>1, <2>3, <2>4, <2>5, <2>6, Zenon DEF AcceptedAsBuilt, d, h
<1> QED
  BY WireInvAlways, <1>1, PTL

(* A frame has one place: no fragment of one can pass for one of another.  *)
LEMMA PieceIs ==
  ASSUME WireInv, BodiesFit, NEW i \in Displayed, NEW n \in 1 .. Len(frames[i]),
         NEW d \in Pieces(i, n - 1)
  PROVE  LET len == frames[i][n].len
         IN  \E k \in 0 .. CountOf(len) - 1 :
               /\ d.header.index = k /\ d.header.count = CountOf(len)
               /\ d.payload = Chunk(Body(len), k)
               /\ Has(d.header.flags, KEYFRAME) <=> frames[i][n].keyframe
<1>1. d \in wire /\ d.header.stream = StreamId(i) /\ d.header.seq = n - 1
  BY DEF Pieces, WireInv
<1>2. PICK j \in Displayed : \E m \in 1 .. Len(frames[j]) : d \in FrameAt(j, m)
  BY <1>1 DEF WireInv, FromFrames
<1>3. PICK m \in 1 .. Len(frames[j]) : d \in FrameAt(j, m)
  BY <1>2
<1>4. /\ frames[j][m].len \in Nat /\ CountOf(frames[j][m].len) < U16
      /\ frames[j][m].keyframe \in BOOLEAN
  <2>1. frames[j][m] \in [len : Bodies, keyframe : BOOLEAN]
    BY ElementOfSeq DEF WireInv, FramesOK
  <2> QED
    BY <2>1, DatagramAssumption DEF BodiesFit
<1>5. PICK k \in 0 .. CountOf(frames[j][m].len) - 1 :
        /\ d.header.index = k /\ d.header.count = CountOf(frames[j][m].len)
        /\ d.header.stream = StreamId(j) /\ d.header.seq = m - 1
        /\ Has(d.header.flags, KEYFRAME) <=> frames[j][m].keyframe
        /\ d.payload = Chunk(Body(frames[j][m].len), k)
  BY <1>3, <1>4, FragmentPasses DEF FrameAt
<1>6. i = j
  BY <1>1, <1>5, StreamsDistinct
<1>7. m = n
  <2>1. m \in Int /\ n \in Int /\ m - 1 = n - 1
    BY <1>1, <1>5
  <2> QED
    BY <2>1
<1> QED
  BY <1>5, <1>6, <1>7

LEMMA NoneDropped == WireInv /\ BodiesFit => HostNeverDropped
<1> SUFFICES ASSUME WireInv, BodiesFit, NEW d \in dropped PROVE FALSE
  BY DEF HostNeverDropped
<1>1. d \in wire /\ Reason(d) # "none"
  BY DEF WireInv
<1>2. PICK j \in Displayed : \E m \in 1 .. Len(frames[j]) : d \in FrameAt(j, m)
  BY <1>1 DEF WireInv, FromFrames
<1>3. PICK m \in 1 .. Len(frames[j]) : d \in FrameAt(j, m)
  BY <1>2
<1>4. /\ frames[j][m].len \in Nat /\ CountOf(frames[j][m].len) < U16
      /\ frames[j][m].keyframe \in BOOLEAN
  <2>1. frames[j][m] \in [len : Bodies, keyframe : BOOLEAN]
    BY ElementOfSeq DEF WireInv, FramesOK
  <2> QED
    BY <2>1, DatagramAssumption DEF BodiesFit
<1> QED
  BY <1>1, <1>3, <1>4, FragmentPasses DEF FrameAt

LEMMA WholeRestored == WireInv /\ BodiesFit => WholeIsSent
<1> SUFFICES ASSUME WireInv, BodiesFit, NEW i \in Displayed, NEW n \in 1 .. Len(frames[i]),
                    Whole(Pieces(i, n - 1))
             PROVE  /\ Joined(Pieces(i, n - 1)) = Body(frames[i][n].len)
                    /\ \A d \in Pieces(i, n - 1) :
                         Has(d.header.flags, KEYFRAME) <=> frames[i][n].keyframe
  BY DEF WholeIsSent
<1> DEFINE pieces == Pieces(i, n - 1)
           len == frames[i][n].len
           C == CountOf(len)
<1>1. \A d \in pieces :
        \E k \in 0 .. C - 1 :
          /\ d.header.index = k /\ d.header.count = C
          /\ d.payload = Chunk(Body(len), k)
          /\ Has(d.header.flags, KEYFRAME) <=> frames[i][n].keyframe
  BY PieceIs
<1>2. len \in Nat
  <2>1. frames[i][n] \in [len : Bodies, keyframe : BOOLEAN]
    BY ElementOfSeq DEF WireInv, FramesOK
  <2> QED
    BY <2>1, DatagramAssumption
<1>3. C \in Nat \ {0}
  BY <1>2, CountIs
<1> DEFINE indices == {d.header.index : d \in pieces}
<1>4. indices = 0 .. C - 1
  <2>1. PICK d \in pieces : 0 .. d.header.count - 1 = indices
    BY DEF Whole
  <2>2. d.header.count = C
    BY <1>1
  <2> QED
    BY <2>1, <2>2
<1>5. Cardinality(indices) = C
  <2>1. Cardinality(0 .. C - 1) = IF 0 <= C - 1 THEN C - 1 - 0 + 1 ELSE 0
    <3> HIDE DEF C
    <3> QED
      BY <1>3, FS_Interval
  <2> HIDE DEF C, indices
  <2> QED
    BY <1>3, <1>4, <2>1
<1>6. ASSUME NEW k \in 1 .. C
      PROVE  (CHOOSE d \in pieces : d.header.index = k - 1).payload = Chunk(Body(len), k - 1)
  <2>1. k - 1 \in indices
    <3> HIDE DEF C, indices
    <3> QED
      BY <1>3, <1>4
  <2>2. \E d \in pieces : d.header.index = k - 1
    BY <2>1
  <2> HIDE DEF pieces
  <2>3. PICK d \in pieces : /\ d.header.index = k - 1
                            /\ d = CHOOSE e \in pieces : e.header.index = k - 1
    BY <2>2
  <2> QED
    BY <1>1, <2>3
<1>7. Joined(pieces) = FlattenSeq(ChunksOf(len))
  <2>1. [k \in 1 .. C |-> (CHOOSE d \in pieces : d.header.index = k - 1).payload] = ChunksOf(len)
    <3> HIDE DEF pieces
    <3> QED
      BY <1>6 DEF ChunksOf
  <2> QED
    BY <1>5, <2>1 DEF Joined
<1>8. \A d \in pieces : Has(d.header.flags, KEYFRAME) <=> frames[i][n].keyframe
  BY <1>1
<1> QED
  BY <1>2, <1>7, <1>8, ChunksRestore

(* For bodies of any length that fits in U16 fragments, cut into chunks of *)
(* any size, on any number of streams: whatever arrives in whatever order, *)
(* a frame all of whose fragments came is the frame that was sent, and the *)
(* receiver turns none of them down (datagram.rs, fragment and             *)
(* decode_with_streams).                                                   *)
THEOREM RestoredCorrect ==
  ASSUME BodiesFit
  PROVE  WireSpec => []FramesRestored
<1>1. WireInv => FramesRestored
  BY NoneDropped, WholeRestored DEF FramesRestored
<1> QED
  BY WireInvAlways, <1>1, PTL

-----------------------------------------------------------------------------
(***************************************************************************)
(* The recovery loop, and the three views side by side as MCReassembler    *)
(* runs them.                                                              *)
(***************************************************************************)
LEMMA LoopTypeStep == Loop!TypeOK /\ [Loop!Next]_(Loop!vars) => Loop!TypeOK'
<1> SUFFICES ASSUME Loop!TypeOK, [Loop!Next]_(Loop!vars) PROVE Loop!TypeOK'
  OBVIOUS
<1>0. /\ InFlight \in Nat /\ MaxAsked \in Nat \ {0} /\ RateLimit \in Nat \ {0}
      /\ Loop!Horizon = InFlight + 2 /\ Loop!Horizon \in Nat
  BY LoopAssumption DEF Loop!RecoveryAssumption, Loop!Horizon
<1> DEFINE F == [age : 0 .. InFlight, keyframe : BOOLEAN]
<1>1. ASSUME NEW whole \in BOOLEAN, Loop!Send(whole) PROVE Loop!TypeOK'
  <2>1. \A age \in 0 .. Loop!Horizon : Loop!Older(age) \in 0 .. Loop!Horizon
    BY <1>0 DEF Loop!Older
  <2>2. Loop!Aged(flight) \subseteq F
    <3>1. ASSUME NEW f \in flight, f.age < InFlight PROVE [f EXCEPT !.age = @ + 1] \in F
      <4>1. f \in F
        BY DEF Loop!TypeOK
      <4>2. f = [age |-> f.age, keyframe |-> f.keyframe] /\ f.age \in 0 .. InFlight
        BY <4>1
      <4>3. f.age + 1 \in 0 .. InFlight
        BY <1>0, <3>1, <4>2
      <4> QED
        BY <4>1, <4>2, <4>3
    <3> QED
      BY <3>1 DEF Loop!Aged
  <2>3. [age |-> 0, keyframe |-> Loop!IsIdr] \in F
    BY <1>0 DEF Loop!IsIdr, Loop!TypeOK
  <2> HIDE DEF F
  <2>4. flight' \subseteq F
    BY <1>1, <2>2, <2>3 DEF Loop!Send
  <2>5. complete' \in 0 .. Loop!Horizon /\ decoded' \in 0 .. Loop!Horizon
    BY <1>1, <2>1 DEF Loop!Send, Loop!TypeOK
  <2> QED
    BY <1>1, <2>4, <2>5 DEF Loop!Send, Loop!TypeOK, F
<1>2. CASE Loop!EncodeNothing
  BY <1>2 DEF Loop!EncodeNothing, Loop!TypeOK, Loop!receiver
<1>3. CASE Loop!HostTakes
  BY <1>0, <1>3 DEF Loop!HostTakes, Loop!TypeOK, Loop!receiver
<1>4. ASSUME NEW f \in flight, Loop!Lose(f) PROVE Loop!TypeOK'
  BY <1>4 DEF Loop!Lose, Loop!TypeOK, Loop!sender, Loop!receiver
<1>5. ASSUME NEW f \in flight, Loop!Arrive(f) PROVE Loop!TypeOK'
  <2>1. f \in F /\ f.age \in 0 .. InFlight /\ f.keyframe \in BOOLEAN
    BY DEF Loop!TypeOK
  <2>2. f.age \in 0 .. Loop!Horizon
    BY <1>0, <2>1
  <2>3. /\ complete' \in 0 .. Loop!Horizon /\ decoded' \in 0 .. Loop!Horizon
        /\ frozen' \in BOOLEAN
    BY <1>5, <2>1, <2>2 DEF Loop!Arrive, Loop!TypeOK, Loop!receiver, Loop!Decodable, Loop!Ask
  <2>4. Loop!Ask \/ UNCHANGED <<asked, sinceAsk>>
    BY <1>5 DEF Loop!Arrive
  <2>5. asked' \in 0 .. MaxAsked /\ sinceAsk' \in 0 .. RateLimit
    BY <1>0, <2>4 DEF Loop!Ask, Loop!TypeOK
  <2>6. flight' \subseteq F /\ fresh' \in BOOLEAN /\ queued' \in BOOLEAN
    BY <1>5 DEF Loop!Arrive, Loop!TypeOK, Loop!sender
  <2> QED
    BY <2>3, <2>5, <2>6 DEF Loop!TypeOK
<1>6. CASE Loop!ClockAdvances
  BY <1>0, <1>6 DEF Loop!ClockAdvances, Loop!TypeOK, Loop!sender, Loop!receiver
<1>7. CASE UNCHANGED Loop!vars
  BY <1>7 DEF Loop!vars, Loop!TypeOK, Loop!sender, Loop!receiver
<1> QED
  BY <1>1, <1>2, <1>3, <1>4, <1>5, <1>6, <1>7 DEF Loop!Next

LEMMA PartsAre ==
  MCSpec => Spec /\ WireSpec /\ Loop!Init /\ [][Loop!Next]_(Loop!vars)
<1>1. MCInit => Init /\ WireInit /\ Loop!Init
  BY DEF MCInit
<1>2. [MCNext]_<<part, vars, wireVars, loopVars>>
        => [Next]_vars /\ [WireNext]_wireVars /\ [Loop!Next]_(Loop!vars)
  <2>1. UNCHANGED loopVars => UNCHANGED Loop!vars
    BY DEF loopVars, Loop!vars, Loop!sender, Loop!receiver
  <2> QED
    BY <2>1 DEF MCNext
<1> QED
  BY <1>1, <1>2, PTL DEF MCSpec, Spec, WireSpec

(* The state of the receiver, of the datagrams and of the recovery loop is *)
(* well typed (reassembly.rs, datagram.rs, media/mod.rs).                  *)
THEOREM PartsTypeCorrect == MCSpec => []PartsTypeOK
<1>1. Loop!Init => Loop!TypeOK
  <2>1. Loop!Horizon \in Nat /\ MaxAsked \in Nat /\ RateLimit \in Nat
    BY LoopAssumption DEF Loop!RecoveryAssumption, Loop!Horizon
  <2>2. Loop!Horizon \in 0 .. Loop!Horizon /\ 0 \in 0 .. MaxAsked /\ RateLimit \in 0 .. RateLimit
    BY <2>1
  <2> QED
    BY <2>2 DEF Loop!Init, Loop!TypeOK
<1>2. Loop!Init /\ [][Loop!Next]_(Loop!vars) => []Loop!TypeOK
  BY <1>1, LoopTypeStep, PTL
<1>3. TypeOK /\ WireTypeOK /\ Loop!TypeOK => PartsTypeOK
  BY DEF PartsTypeOK
<1> QED
  BY PartsAre, TypeCorrect, WireTypeCorrect, <1>2, <1>3, PTL
=============================================================================
