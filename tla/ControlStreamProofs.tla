-------------------------- MODULE ControlStreamProofs --------------------------
(***************************************************************************)
(* What the bytes of the control stream (ControlFrame) and the clock       *)
(* exchanges over it (ClockFilter) promise, for every base and length of   *)
(* the prefix, every limit, every message and every cut of the stream; and *)
(* for every window, every offset between the clocks and every delay.  The *)
(* session's view of the stream is ControlPlaneProofs.                     *)
(*                                                                         *)
(* Both argue over recursive functions: the scan of Best, and a number     *)
(* taken apart into digits.  That such a function exists, and what its     *)
(* values are, is argued by the least counterexample (LeastExists).        *)
(*                                                                         *)
(* The rest are two invariants.  FrameInv: some sequence of bytes is one   *)
(* frame laid after another, the reader is at the start of a frame or of   *)
(* the body of one, and what lies ahead of it is a piece of that sequence. *)
(* ClockInv: the window is the tail of the history, and every sample of    *)
(* the history bounds its own error.                                       *)
(***************************************************************************)
EXTENDS ControlStream, ControlPlaneProofs, SequenceTheorems, WellFoundedInduction, TLAPS

-----------------------------------------------------------------------------
(* Induction over the numbers, as a least counterexample.                  *)
LEMMA LeastExists ==
  ASSUME NEW S \in SUBSET Nat, S # {}
  PROVE  \E n \in S : \A m \in S : n <= m
<1>1. PICK Less : /\ IsWellFoundedOn(Less, Nat)
                  /\ \A x, y \in Nat : <<y, x>> \in Less <=> y < x
  <2>1. IsWellFoundedOn(OpToRel(<, Nat), Nat)
    BY NatLessThanWellFounded
  <2>2. \A x, y \in Nat : <<y, x>> \in OpToRel(<, Nat) <=> y < x
    BY DEF OpToRel
  <2> QED
    BY <2>1, <2>2, Zenon
<1>2. PICK x \in S : \A y \in S : ~(<<y, x>> \in Less)
  BY <1>1, WFMin
<1>3. ASSUME NEW y \in S PROVE x <= y
  <2>1. ~(y < x)
    BY <1>1, <1>2, Zenon
  <2> QED
    BY <2>1
<1> QED
  BY <1>3

(* Induction up to k, over a set.                                          *)
Climbs(S, k) == 0 \in S /\ \A i \in 1 .. k : i - 1 \in S => i \in S

LEMMA Climbed ==
  ASSUME NEW k \in Nat, NEW S, Climbs(S, k)
  PROVE  \A i \in 0 .. k : i \in S
<1> DEFINE Bad == {i \in 0 .. k : i \notin S}
<1> SUFFICES ASSUME Bad # {} PROVE FALSE
  OBVIOUS
<1>0. Bad \in SUBSET Nat
  OBVIOUS
<1>1. PICK m \in Bad : \A i \in Bad : m <= i
  BY <1>0, LeastExists
<1>2. m # 0
  BY DEF Climbs
<1>3. m \in 1 .. k /\ m - 1 \in 0 .. k /\ m - 1 < m
  BY <1>2
<1>4. m - 1 \in S
  BY <1>1, <1>3
<1> QED
  BY <1>3, <1>4 DEF Climbs

(* What is defined step by step from a natural number exists.              *)
Steps(f, a, s, k) == f[0] = a /\ \A i \in 1 .. k : f[i] = s[f[i - 1]][i]

LEMMA StepsExist ==
  ASSUME NEW a \in Nat, NEW k \in Nat, NEW s \in [Nat -> [1 .. k -> Nat]]
  PROVE  \E f \in [0 .. k -> Nat] : Steps(f, a, s, k)
<1> DEFINE Stepped(j) == \E f \in [0 .. j -> Nat] : Steps(f, a, s, j)
           S == {j \in 0 .. k : Stepped(j)}
<1>1. 0 \in S
  <2> DEFINE g == [i \in 0 .. 0 |-> a]
  <2>1. g \in [0 .. 0 -> Nat] /\ Steps(g, a, s, 0)
    BY DEF Steps
  <2> HIDE DEF g
  <2>2. Stepped(0)
    BY <2>1
  <2> HIDE DEF Stepped
  <2> QED
    BY <2>2
<1>2. ASSUME NEW j \in 1 .. k, j - 1 \in S PROVE j \in S
  <2>1. PICK f \in [0 .. j - 1 -> Nat] : Steps(f, a, s, j - 1)
    BY <1>2
  <2> DEFINE g == [i \in 0 .. j |-> IF i = j THEN s[f[j - 1]][j] ELSE f[i]]
  <2>2. j - 1 \in 0 .. j - 1 /\ f[j - 1] \in Nat /\ s[f[j - 1]][j] \in Nat
    BY <2>1
  <2>3. g \in [0 .. j -> Nat]
    <3>1. ASSUME NEW i \in 0 .. j, i # j PROVE f[i] \in Nat
      <4>1. i \in 0 .. j - 1
        BY <3>1
      <4> QED
        BY <4>1
    <3> QED
      BY <2>2, <3>1
  <2>4. g[0] = a
    BY <2>1 DEF Steps
  <2>5. ASSUME NEW i \in 1 .. j PROVE g[i] = s[g[i - 1]][i]
    <3>1. i - 1 \in 0 .. j - 1 /\ g[i - 1] = f[i - 1]
      OBVIOUS
    <3>2. CASE i = j
      BY <3>1, <3>2
    <3>3. CASE i # j
      <4>1. i \in 1 .. j - 1 /\ g[i] = f[i]
        BY <3>3
      <4> QED
        BY <2>1, <3>1, <4>1 DEF Steps
    <3> QED
      BY <3>2, <3>3
  <2> HIDE DEF g
  <2>6. Stepped(j)
    BY <2>3, <2>4, <2>5 DEF Steps
  <2> HIDE DEF Stepped
  <2> QED
    BY <2>6
<1> HIDE DEF S
<1>3. k \in S
  <2>1. Climbs(S, k)
    BY <1>1, <1>2 DEF Climbs
  <2> QED
    BY <2>1, Climbed
<1> QED
  BY <1>3 DEF S

(* Functions that take the same steps agree.                               *)
Alike(f, g, k) == f[0] = g[0] /\ \A i \in 1 .. k : f[i - 1] = g[i - 1] => f[i] = g[i]

LEMMA StepsAgree ==
  ASSUME NEW k \in Nat, NEW f, NEW g, Alike(f, g, k)
  PROVE  \A i \in 0 .. k : f[i] = g[i]
<1> DEFINE S == {i \in 0 .. k : f[i] = g[i]}
<1>1. Climbs(S, k)
  BY DEF Alike, Climbs
<1> HIDE DEF S
<1>2. \A i \in 0 .. k : i \in S
  BY <1>1, Climbed
<1> QED
  BY <1>2 DEF S

-----------------------------------------------------------------------------
(* Numbers and their digits.                                               *)
LEMMA LastDigit ==
  ASSUME NEW n \in Nat
  PROVE  /\ n \div Radix \in Nat /\ (n % Radix) \in Nat
         /\ n = Radix * (n \div Radix) + (n % Radix)
  BY RadixAssumption, SMT

LEMMA DivMonotone ==
  ASSUME NEW m \in Nat, NEW n \in Nat, m <= n
  PROVE  m \div Radix <= n \div Radix
  BY RadixAssumption, SMT

(* f is the function Shifted(n, k) counts with.                            *)
IsShift(f, n, k) == f = [j \in 0 .. k |-> IF j = 0 THEN n ELSE f[j - 1] \div Radix]

LEMMA ShiftExists ==
  ASSUME NEW n \in Nat, NEW k \in Nat
  PROVE  \E f \in [0 .. k -> Nat] : IsShift(f, n, k) /\ Shifted(n, k) = f[k]
<1> DEFINE s == [x \in Nat |-> [j \in 1 .. k |-> x \div Radix]]
           h == CHOOSE f : IsShift(f, n, k)
<1>1. s \in [Nat -> [1 .. k -> Nat]] /\ \A x \in Nat : \A j \in 1 .. k : s[x][j] = x \div Radix
  BY LastDigit
<1> HIDE DEF s
<1>2. PICK g \in [0 .. k -> Nat] : Steps(g, n, s, k)
  BY <1>1, StepsExist
<1>3. ASSUME NEW j \in 0 .. k PROVE g[j] = IF j = 0 THEN n ELSE g[j - 1] \div Radix
  <2>1. j # 0 => j \in 1 .. k /\ j - 1 \in 0 .. k /\ g[j - 1] \in Nat
    BY <1>2
  <2> QED
    BY <1>1, <1>2, <2>1 DEF Steps
<1>4. IsShift(g, n, k)
  BY <1>2, <1>3 DEF IsShift
<1>5. IsShift(h, n, k)
  BY <1>4
<1>6. Shifted(n, k) = h[k]
  BY DEF Shifted, IsShift
<1>7. h \in [0 .. k -> Nat]
  <2>1. \A i \in 0 .. k : h[i] = IF i = 0 THEN n ELSE h[i - 1] \div Radix
    BY <1>5 DEF IsShift
  <2>2. h = [i \in 0 .. k |-> h[i]]
    BY <1>5 DEF IsShift
  <2> HIDE DEF h
  <2>3. h[0] = g[0]
    BY <1>3, <2>1
  <2>4. ASSUME NEW i \in 1 .. k, h[i - 1] = g[i - 1] PROVE h[i] = g[i]
    <3>1. i \in 0 .. k /\ i # 0
      OBVIOUS
    <3> QED
      BY <1>3, <2>1, <2>4, <3>1
  <2>5. \A i \in 0 .. k : h[i] = g[i]
    <3>1. Alike(h, g, k)
      BY <2>3, <2>4 DEF Alike
    <3> QED
      BY <3>1, StepsAgree
  <2> QED
    BY <1>2, <2>2, <2>5
<1> QED
  BY <1>5, <1>6, <1>7

(* One digit less at a time.                                               *)
LEMMA ShiftedIs ==
  ASSUME NEW n \in Nat, NEW k \in Nat
  PROVE  /\ Shifted(n, k) \in Nat
         /\ Shifted(n, k) = IF k = 0 THEN n ELSE Shifted(n, k - 1) \div Radix
<1>1. PICK f \in [0 .. k -> Nat] : IsShift(f, n, k) /\ Shifted(n, k) = f[k]
  BY ShiftExists
<1>2. \A i \in 0 .. k : f[i] = IF i = 0 THEN n ELSE f[i - 1] \div Radix
  BY <1>1 DEF IsShift
<1>3. CASE k = 0
  BY <1>1, <1>2, <1>3
<1>4. CASE k # 0
  <2> DEFINE l == k - 1
  <2>0. l \in Nat /\ k \in 0 .. k /\ k # 0
    BY <1>4
  <2>1. PICK g \in [0 .. l -> Nat] : IsShift(g, n, l) /\ Shifted(n, l) = g[l]
    BY <2>0, ShiftExists
  <2>2. \A i \in 0 .. l : g[i] = IF i = 0 THEN n ELSE g[i - 1] \div Radix
    BY <2>1 DEF IsShift
  <2>3. f[0] = g[0]
    BY <1>2, <2>0, <2>2
  <2>4. ASSUME NEW i \in 1 .. l, f[i - 1] = g[i - 1] PROVE f[i] = g[i]
    <3>1. i \in 0 .. k /\ i \in 0 .. l /\ i # 0
      BY <2>0
    <3> QED
      BY <1>2, <2>2, <2>4, <3>1
  <2>5. f[l] = g[l]
    <3>1. Alike(f, g, l)
      BY <2>3, <2>4 DEF Alike
    <3> HIDE DEF l
    <3>2. \A i \in 0 .. l : f[i] = g[i]
      BY <2>0, <3>1, StepsAgree
    <3> QED
      BY <2>0, <3>2
  <2>6. f[k] = f[k - 1] \div Radix
    BY <1>2, <2>0
  <2> QED
    BY <1>1, <2>0, <2>1, <2>5, <2>6
<1> QED
  BY <1>3, <1>4

(* A smaller number has no more digits.                                    *)
LEMMA ShiftedMonotone ==
  ASSUME NEW m \in Nat, NEW n \in Nat, m <= n, NEW k \in Nat
  PROVE  Shifted(m, k) <= Shifted(n, k)
<1> DEFINE S == {j \in 0 .. k : Shifted(m, j) <= Shifted(n, j)}
<1>1. 0 \in S
  BY ShiftedIs
<1>2. ASSUME NEW j \in 1 .. k, j - 1 \in S PROVE j \in S
  <2>1. j - 1 \in Nat /\ j \in Nat /\ j # 0 /\ j \in 0 .. k
    OBVIOUS
  <2>2. /\ Shifted(m, j) = Shifted(m, j - 1) \div Radix /\ Shifted(m, j - 1) \in Nat
        /\ Shifted(n, j) = Shifted(n, j - 1) \div Radix /\ Shifted(n, j - 1) \in Nat
    BY <2>1, ShiftedIs
  <2>3. Shifted(m, j - 1) <= Shifted(n, j - 1)
    BY <1>2
  <2> QED
    BY <2>1, <2>2, <2>3, DivMonotone
<1>3. k \in S
  <2>1. Climbs(S, k)
    BY <1>1, <1>2 DEF Climbs
  <2> HIDE DEF S
  <2> QED
    BY <2>1, Climbed
<1> QED
  BY <1>3

(* f is the function Number(ds) counts with.                               *)
IsValue(f, ds) == f = [i \in 0 .. Len(ds) |-> IF i = 0 THEN 0 ELSE Radix * f[i - 1] + ds[i]]

LEMMA ValueExists ==
  ASSUME NEW ds \in Seq(Nat)
  PROVE  \E f \in [0 .. Len(ds) -> Nat] : IsValue(f, ds) /\ Number(ds) = f[Len(ds)]
<1> DEFINE k == Len(ds)
           s == [x \in Nat |-> [i \in 1 .. k |-> Radix * x + ds[i]]]
           h == CHOOSE f : IsValue(f, ds)
<1>0. k \in Nat /\ \A i \in 1 .. k : ds[i] \in Nat
  BY ElementOfSeq
<1>1. /\ s \in [Nat -> [1 .. k -> Nat]]
      /\ \A x \in Nat : \A i \in 1 .. k : s[x][i] = Radix * x + ds[i]
  <2>1. \A x \in Nat : \A i \in 1 .. k : Radix * x + ds[i] \in Nat
    BY <1>0, RadixAssumption
  <2> QED
    BY <2>1
<1> HIDE DEF s
<1>2. PICK g \in [0 .. k -> Nat] : Steps(g, 0, s, k)
  BY <1>0, <1>1, StepsExist
<1>3. ASSUME NEW i \in 0 .. k PROVE g[i] = IF i = 0 THEN 0 ELSE Radix * g[i - 1] + ds[i]
  <2>0. g[0] = 0 /\ \A j \in 1 .. k : g[j] = s[g[j - 1]][j]
    BY <1>2 DEF Steps
  <2>1. CASE i # 0
    <3>1. i \in 1 .. k /\ i - 1 \in 0 .. k
      BY <1>0, <2>1
    <3>2. g[i - 1] \in Nat
      BY <1>2, <3>1
    <3> QED
      BY <1>1, <2>0, <2>1, <3>1, <3>2
  <2> QED
    BY <2>0, <2>1
<1>4. IsValue(g, ds)
  BY <1>2, <1>3 DEF IsValue
<1>5. IsValue(h, ds)
  BY <1>4
<1>6. Number(ds) = h[k]
  BY DEF Number, IsValue
<1>7. h \in [0 .. k -> Nat]
  <2>1. \A i \in 0 .. k : h[i] = IF i = 0 THEN 0 ELSE Radix * h[i - 1] + ds[i]
    BY <1>5 DEF IsValue
  <2>2. h = [i \in 0 .. k |-> h[i]]
    BY <1>5 DEF IsValue
  <2> HIDE DEF h, k
  <2>3. h[0] = g[0]
    BY <1>0, <1>3, <2>1
  <2>4. ASSUME NEW i \in 1 .. k, h[i - 1] = g[i - 1] PROVE h[i] = g[i]
    <3>1. i \in 0 .. k /\ i # 0
      BY <1>0
    <3> QED
      BY <1>3, <2>1, <2>4, <3>1
  <2>5. \A i \in 0 .. k : h[i] = g[i]
    <3>1. Alike(h, g, k)
      BY <2>3, <2>4 DEF Alike
    <3> QED
      BY <1>0, <3>1, StepsAgree
  <2> QED
    BY <1>2, <2>2, <2>5
<1> QED
  BY <1>5, <1>6, <1>7

(* A length that fits in k digits is read back from them.                  *)
LEMMA NumberOfDigits ==
  ASSUME NEW n \in Nat, NEW k \in Nat, Shifted(n, k) = 0
  PROVE  /\ Digits(n, k) \in Seq(Nat) /\ Len(Digits(n, k)) = k
         /\ Number(Digits(n, k)) = n
<1> DEFINE ds == Digits(n, k)
           g == [i \in 0 .. k |-> Shifted(n, k - i)]
<1>1. ASSUME NEW i \in 1 .. k
      PROVE  /\ (Shifted(n, k - i) % Radix) \in Nat
             /\ Shifted(n, k - i) = Radix * Shifted(n, k - (i - 1)) + (Shifted(n, k - i) % Radix)
  <2> DEFINE p == k - i
             q == k - (i - 1)
  <2>1. p \in Nat /\ q \in Nat /\ q # 0 /\ q - 1 = p
    OBVIOUS
  <2> HIDE DEF p, q
  <2>2. Shifted(n, p) \in Nat /\ Shifted(n, q) = Shifted(n, p) \div Radix
    BY <2>1, ShiftedIs
  <2> USE DEF p, q
  <2>3. ASSUME NEW x \in Nat
        PROVE  (x % Radix) \in Nat /\ x = Radix * (x \div Radix) + (x % Radix)
    BY LastDigit
  <2> QED
    BY <2>2, <2>3, Zenon
<1>2. ds \in Seq(Nat) /\ Len(ds) = k /\ \A i \in 1 .. k : ds[i] = Shifted(n, k - i) % Radix
  BY <1>1 DEF Digits
<1>3. PICK f \in [0 .. k -> Nat] : IsValue(f, ds) /\ Number(ds) = f[k]
  BY <1>2, ValueExists
<1>4. \A i \in 0 .. k : f[i] = IF i = 0 THEN 0 ELSE Radix * f[i - 1] + ds[i]
  BY <1>2, <1>3 DEF IsValue
<1>5. g[0] = 0 /\ g[k] = n
  BY ShiftedIs
<1>6. ASSUME NEW i \in 1 .. k PROVE g[i] = Radix * g[i - 1] + ds[i]
  <2>1. i \in 0 .. k /\ i - 1 \in 0 .. k
    OBVIOUS
  <2>2. g[i] = Shifted(n, k - i) /\ g[i - 1] = Shifted(n, k - (i - 1))
    BY <2>1
  <2> HIDE DEF g, ds
  <2> QED
    BY <1>1, <1>2, <2>2
<1> HIDE DEF g, ds
<1>7. \A i \in 0 .. k : f[i] = g[i]
  <2>1. f[0] = g[0]
    BY <1>4, <1>5
  <2>2. ASSUME NEW i \in 1 .. k, f[i - 1] = g[i - 1] PROVE f[i] = g[i]
    <3>1. i \in 0 .. k /\ i # 0
      OBVIOUS
    <3> QED
      BY <1>4, <1>6, <2>2, <3>1
  <2>3. Alike(f, g, k)
    BY <2>1, <2>2 DEF Alike
  <2> QED
    BY <2>3, StepsAgree
<1>8. Number(ds) = n
  BY <1>3, <1>5, <1>7
<1> QED
  BY <1>2, <1>8 DEF ds

-----------------------------------------------------------------------------
(* What a sequence holds between two positions.                            *)
Piece(s, from, to) == SubSeq(s, from + 1, to)

(* The bytes of one frame, among all that are written: a length, and       *)
(* behind it a body that decodes to what the frame means, unless the       *)
(* length is over the limit.                                               *)
FrameAt(all, from, to, means) ==
  LET len == Number(Piece(all, from, from + LenBytes))
  IN  \/ len > MAX_FRAME_BODY /\ to = from + LenBytes /\ means = Violation
      \/ /\ len \in 0 .. MAX_FRAME_BODY /\ to = from + LenBytes + len
         /\ DecodeBody(Piece(all, from + LenBytes, to)) = means

(* How far the reader is, and how far what it can still read goes.         *)
Pos == EndOf(Len(inbox)) + (IF need = -1 THEN 0 ELSE LenBytes)
Cut == Pos + Len(arrived) + Len(wire)

FrameEnds == {EndOf(i) : i \in 0 .. Len(sent)}

(* All that was written is one frame after another.                        *)
Laid(all) ==
  /\ all \in Seq(Nat) /\ Len(all) = Written
  /\ \A i \in 1 .. Len(sent) : FrameAt(all, EndOf(i - 1), EndOf(i), sent[i].means)

(* What is ahead of the reader is what was written, up to the cut the      *)
(* peer made by finishing; the body it waits for is the rest of a frame.   *)
Ahead(all) ==
  /\ Cut <= Written
  /\ \A i \in 1 .. Len(arrived) : arrived[i] = all[Pos + i]
  /\ \A i \in 1 .. Len(wire) : wire[i] = all[Pos + Len(arrived) + i]
  /\ ~fin => Cut = Written
  /\ fin => (torn <=> Cut \notin FrameEnds)
  /\ need # -1 => /\ Len(inbox) < Len(sent)
                  /\ EndOf(Len(inbox) + 1) = Pos + need
                  /\ DecodeBody(Piece(all, Pos, Pos + need)) = sent[Len(inbox) + 1].means

Decoded == {got \in {DecodeBody(cbor) : cbor \in Seq(Nat)} : got # Violation}

Meanings == {Violation} \cup {Means(m) : m \in WireMessages} \cup {f.means : f \in Foreign}

(* Sequences are sequences.                                                *)
FrameTypes ==
  /\ FrameTypeOK
  /\ sent \in Seq([end : Nat, means : Meanings])
  /\ inbox \in Seq(Decoded)

FrameInv ==
  /\ FrameTypes
  /\ torn => fin
  /\ ended = "eof" => fin
  /\ StreamReadFaithfully
  /\ \A i, j \in 0 .. Len(sent) : i <= j => EndOf(i) <= EndOf(j)
  /\ \E all : Laid(all) /\ (ended = "no" => Ahead(all))

-----------------------------------------------------------------------------
(* Pieces of sequences.                                                    *)
LEMMA PieceIs ==
  ASSUME NEW s \in Seq(Nat), NEW from \in Nat, NEW to \in Nat, from <= to, to <= Len(s)
  PROVE  /\ Piece(s, from, to) \in Seq(Nat)
         /\ Len(Piece(s, from, to)) = to - from
         /\ \A i \in 1 .. to - from : Piece(s, from, to)[i] = s[from + i]
<1>1. from + 1 \in 1 .. Len(s) + 1 /\ to \in from .. Len(s)
  BY LenProperties
<1>2. /\ Piece(s, from, to) \in Seq(Nat)
      /\ Len(Piece(s, from, to)) = to - from
  BY <1>1, LenProperties, SubSeqProperties DEF Piece
<1>3. ASSUME NEW i \in 1 .. to - from PROVE Piece(s, from, to)[i] = s[from + i]
  BY <1>1, LenProperties, SubSeqProperties DEF Piece
<1> QED
  BY <1>2, <1>3

(* From a position on, s holds t.                                          *)
Holds(s, from, t) == \A i \in 1 .. Len(t) : s[from + i] = t[i]

LEMMA WholePiece ==
  ASSUME NEW s \in Seq(Nat), NEW t \in Seq(Nat),
         NEW from \in Nat, NEW to \in Nat, from <= to, to <= Len(s), Len(t) = to - from,
         Holds(s, from, t)
  PROVE  Piece(s, from, to) = t
<1> DEFINE x == Piece(s, from, to)
<1>0. /\ x \in Seq(Nat) /\ Len(x) = to - from
      /\ \A i \in 1 .. to - from : x[i] = s[from + i]
  BY PieceIs
<1> HIDE DEF x
<1>1. x \in Seq(Nat) /\ Len(x) = Len(t) /\ \A i \in 1 .. Len(t) : x[i] = s[from + i]
  BY <1>0
<1>2. \A i \in 1 .. Len(x) : x[i] = t[i]
  BY <1>1 DEF Holds
<1>3. Len(x) = Len(t) /\ x \in Seq(Nat)
  BY <1>1
<1>4. x = t
  BY <1>2, <1>3, SeqEqual
<1> QED
  BY <1>4 DEF x

-----------------------------------------------------------------------------
(* What a peer writes.                                                     *)
LEMMA LengthFits ==
  ASSUME NEW n \in 0 .. MAX_FRAME_BODY + 1
  PROVE  /\ Digits(n, LenBytes) \in Seq(Nat) /\ Len(Digits(n, LenBytes)) = LenBytes
         /\ Number(Digits(n, LenBytes)) = n
<1>1. n \in Nat /\ MAX_FRAME_BODY + 1 \in Nat /\ LenBytes \in Nat /\ n <= MAX_FRAME_BODY + 1
  BY ControlFrameAssumption
<1>2. Shifted(n, LenBytes) <= Shifted(MAX_FRAME_BODY + 1, LenBytes)
  BY <1>1, ShiftedMonotone
<1>3. Shifted(n, LenBytes) \in Nat
  BY <1>1, ShiftedIs
<1>4. Shifted(n, LenBytes) = 0
  BY <1>2, <1>3, ControlFrameAssumption
<1> QED
  BY <1>1, <1>4, NumberOfDigits

(* What is appended as a frame is one.                                     *)
LEMMA FrameWritten ==
  ASSUME NEW all \in Seq(Nat), NEW n \in 0 .. MAX_FRAME_BODY + 1, NEW cbor \in Seq(Nat),
         n <= MAX_FRAME_BODY => n = Len(cbor), n > MAX_FRAME_BODY => cbor = <<>>
  PROVE  LET bytes == Digits(n, LenBytes) \o cbor
         IN  /\ bytes \in Seq(Nat) /\ Len(bytes) > 0
             /\ FrameAt(all \o bytes, Len(all), Len(all) + Len(bytes),
                        IF n <= MAX_FRAME_BODY THEN DecodeBody(cbor) ELSE Violation)
<1> DEFINE d == Digits(n, LenBytes)
           bytes == d \o cbor
           L == Len(all)
           new == all \o bytes
<1>0. /\ LenBytes \in Nat \ {0} /\ MAX_FRAME_BODY \in Nat
      /\ L \in Nat /\ Len(cbor) \in Nat
  BY ControlFrameAssumption, LenProperties
<1>1. d \in Seq(Nat) /\ Len(d) = LenBytes /\ Number(d) = n
  BY LengthFits
<1> HIDE DEF d
<1>2. bytes \in Seq(Nat) /\ Len(bytes) = LenBytes + Len(cbor)
  BY <1>1, ConcatProperties
<1>3. \A i \in 1 .. LenBytes + Len(cbor) :
         bytes[i] = IF i <= LenBytes THEN d[i] ELSE cbor[i - LenBytes]
  BY <1>1, ConcatProperties
<1> HIDE DEF bytes
<1>4. new \in Seq(Nat) /\ Len(new) = L + Len(bytes)
  BY <1>2, ConcatProperties
<1>5. \A i \in 1 .. L + Len(bytes) : new[i] = IF i <= L THEN all[i] ELSE bytes[i - L]
  BY <1>2, ConcatProperties
<1> DEFINE body == L + LenBytes
           end == L + Len(bytes)
<1>6. /\ body \in Nat /\ L <= body /\ body <= Len(new) /\ body - L = Len(d)
      /\ end \in Nat /\ body <= end /\ end <= Len(new) /\ end - body = Len(cbor)
  BY <1>0, <1>1, <1>2, <1>4
<1> HIDE DEF new, L
<1>7. Holds(new, L, d)
  <2> SUFFICES ASSUME NEW i \in 1 .. LenBytes PROVE new[L + i] = d[i]
    BY <1>1 DEF Holds
  <2>1. L + i \in 1 .. L + Len(bytes) /\ ~(L + i <= L) /\ (L + i) - L = i
    BY <1>0, <1>2
  <2>2. i \in 1 .. LenBytes + Len(cbor) /\ i <= LenBytes
    BY <1>0
  <2> QED
    BY <1>3, <1>5, <2>1, <2>2
<1>8. Holds(new, body, cbor)
  <2> SUFFICES ASSUME NEW i \in 1 .. Len(cbor) PROVE new[(L + LenBytes) + i] = cbor[i]
    BY DEF Holds
  <2>1. /\ (L + LenBytes) + i \in 1 .. L + Len(bytes) /\ ~((L + LenBytes) + i <= L)
        /\ ((L + LenBytes) + i) - L = LenBytes + i
    BY <1>0, <1>2
  <2>2. /\ LenBytes + i \in 1 .. LenBytes + Len(cbor) /\ ~(LenBytes + i <= LenBytes)
        /\ (LenBytes + i) - LenBytes = i
    BY <1>0
  <2> QED
    BY <1>3, <1>5, <2>1, <2>2
<1> HIDE DEF body, end
<1>9. Piece(new, L, body) = d
  BY <1>0, <1>1, <1>4, <1>6, <1>7, WholePiece
<1>10. Piece(new, body, end) = cbor
  BY <1>4, <1>6, <1>8, WholePiece
<1>11. CASE n > MAX_FRAME_BODY
  <2>1. end = body /\ ~(n <= MAX_FRAME_BODY) /\ Len(bytes) > 0
    BY <1>0, <1>2, <1>11 DEF body, end
  <2>2. FrameAt(new, L, end, Violation)
    BY <1>1, <1>9, <1>11, <2>1 DEF FrameAt, body
  <2> QED
    BY <1>2, <2>1, <2>2 DEF bytes, new, L, d, end
<1>12. CASE n <= MAX_FRAME_BODY
  <2>0. n = Len(cbor) /\ n \in 0 .. MAX_FRAME_BODY
    BY <1>0, <1>12
  <2>1. end = L + LenBytes + n /\ Len(bytes) > 0
    BY <1>0, <1>2, <2>0 DEF end
  <2>2. FrameAt(new, L, end, DecodeBody(cbor))
    BY <1>1, <1>9, <1>10, <2>0, <2>1 DEF FrameAt, body
  <2> QED
    BY <1>2, <1>12, <2>1, <2>2 DEF bytes, new, L, d, end
<1> QED
  BY <1>0, <1>11, <1>12

(* What was written before stays where it is.                              *)
LEMMA PieceStays ==
  ASSUME NEW s \in Seq(Nat), NEW t \in Seq(Nat),
         NEW from \in Nat, NEW to \in Nat, from <= to, to <= Len(s)
  PROVE  Piece(s \o t, from, to) = Piece(s, from, to)
<1> DEFINE new == s \o t
           x == Piece(new, from, to)
           y == Piece(s, from, to)
<1>1. new \in Seq(Nat) /\ Len(new) = Len(s) + Len(t) /\ Len(s) \in Nat /\ Len(t) \in Nat
  BY ConcatProperties, LenProperties
<1>2. \A i \in 1 .. Len(s) + Len(t) : new[i] = IF i <= Len(s) THEN s[i] ELSE t[i - Len(s)]
  BY ConcatProperties
<1> HIDE DEF new
<1>3. to <= Len(new)
  BY <1>1
<1>4. x \in Seq(Nat) /\ Len(x) = to - from /\ \A i \in 1 .. to - from : x[i] = new[from + i]
  BY <1>1, <1>3, PieceIs
<1>5. y \in Seq(Nat) /\ Len(y) = to - from /\ \A i \in 1 .. to - from : y[i] = s[from + i]
  BY PieceIs
<1> HIDE DEF x, y
<1>6. ASSUME NEW i \in 1 .. Len(x) PROVE x[i] = y[i]
  <2>1. i \in 1 .. to - from
    BY <1>4
  <2>2. from + i \in Nat /\ from + i >= 1 /\ from + i <= to
    BY <2>1
  <2>3. from + i \in 1 .. Len(s) + Len(t) /\ from + i <= Len(s)
    BY <1>1, <2>2
  <2>4. new[from + i] = s[from + i]
    BY <1>2, <2>3
  <2> QED
    BY <1>4, <1>5, <2>1, <2>4
<1>7. x = y
  BY <1>4, <1>5, <1>6, SeqEqual
<1> QED
  BY <1>7 DEF x, y, new

LEMMA FrameStays ==
  ASSUME NEW all \in Seq(Nat), NEW bytes \in Seq(Nat), NEW means,
         NEW from \in Nat, NEW to \in Nat, to <= Len(all),
         FrameAt(all, from, to, means)
  PROVE  FrameAt(all \o bytes, from, to, means)
<1> DEFINE new == all \o bytes
           len == Number(Piece(all, from, from + LenBytes))
<1>0. /\ LenBytes \in Nat \ {0} /\ MAX_FRAME_BODY \in Nat
      /\ Len(all) \in Nat /\ Len(bytes) \in Nat
  BY ControlFrameAssumption, LenProperties
<1>2. ASSUME NEW a \in Nat, NEW b \in Nat, a <= b, b <= Len(all)
      PROVE  Piece(new, a, b) = Piece(all, a, b)
  BY <1>2, PieceStays DEF new
<1> HIDE DEF new
<1>3. from + LenBytes \in Nat /\ from <= from + LenBytes /\ from + LenBytes <= to
  <2>1. \/ to = from + LenBytes
        \/ len \in 0 .. MAX_FRAME_BODY /\ to = from + LenBytes + len
    BY Zenon DEF FrameAt
  <2> HIDE DEF len
  <2> QED
    BY <1>0, <2>1
<1>4. Piece(new, from, from + LenBytes) = Piece(all, from, from + LenBytes)
  BY <1>0, <1>2, <1>3
<1>5. Piece(new, from + LenBytes, to) = Piece(all, from + LenBytes, to)
  BY <1>0, <1>2, <1>3
<1>6. FrameAt(new, from, to, means)
  BY <1>4, <1>5 DEF FrameAt
<1> QED
  BY <1>6 DEF new

-----------------------------------------------------------------------------
(* Types.                                                                  *)
(* What is read is a number; what is decoded, a message of the protocol.   *)
LEMMA NumberIs ==
  ASSUME NEW ds \in Seq(Nat)
  PROVE  Number(ds) \in Nat
<1>1. PICK f \in [0 .. Len(ds) -> Nat] : IsValue(f, ds) /\ Number(ds) = f[Len(ds)]
  BY ValueExists
<1>2. Len(ds) \in 0 .. Len(ds)
  BY LenProperties
<1> QED
  BY <1>1, <1>2

LEMMA DecodedIs ==
  ASSUME NEW got \in Decoded
  PROVE  got = Ignored \/ got.type \in Registered
<1>1. PICK cbor \in Seq(Nat) : got = DecodeBody(cbor) /\ got # Violation
  BY DEF Decoded
<1> QED
  BY <1>1 DEF DecodeBody, Message

(* The bytes a peer writes, whatever it writes.                            *)
LEMMA BytesWritten ==
  /\ \A m \in WireMessages : EncodeFrame(m) \in Seq(Nat)
  /\ \A f \in Foreign : Frame(f.cbor) \in Seq(Nat)
  /\ Digits(MAX_FRAME_BODY + 1, LenBytes) \in Seq(Nat)
<1>0. MAX_FRAME_BODY \in Nat
  BY ControlFrameAssumption
<1>1. ASSUME NEW cbor, IsBody(cbor) PROVE Frame(cbor) \in Seq(Nat)
  <2>1. cbor \in Seq(Nat) /\ Len(cbor) \in 0 .. MAX_FRAME_BODY + 1
    BY <1>0, <1>1, LenProperties DEF IsBody
  <2>2. Digits(Len(cbor), LenBytes) \in Seq(Nat)
    BY <2>1, LengthFits
  <2> QED
    BY <2>1, <2>2, ConcatProperties DEF Frame
<1>2. Digits(MAX_FRAME_BODY + 1, LenBytes) \in Seq(Nat)
  BY <1>0, LengthFits
<1> QED
  BY <1>1, <1>2, ControlFrameAssumption DEF EncodeFrame

(* Types hold of any codec, faithful or not.                               *)
LEMMA FrameTypesStep == FrameTypes /\ [FrameNext]_frameVars => FrameTypes'
<1> SUFFICES ASSUME FrameTypes, [FrameNext]_frameVars PROVE FrameTypes'
  OBVIOUS
<1>0. /\ FrameTypeOK
      /\ wire \in Seq(Nat) /\ arrived \in Seq(Nat)
      /\ sent \in Seq([end : Nat, means : Meanings]) /\ inbox \in Seq(Decoded)
      /\ Len(sent) \in Nat /\ MaxFrames \in Nat /\ LenBytes \in Nat \ {0}
  BY ControlFrameAssumption, LenProperties DEF FrameTypes, FrameTypeOK
<1>1. ASSUME NEW bytes \in Seq(Nat), NEW means \in Meanings, Writes(bytes, means)
      PROVE  FrameTypes'
  <2>1. wire' \in Seq(Nat)
    BY <1>0, <1>1, ConcatProperties DEF Writes
  <2>2. Written \in Nat
    <3>1. CASE Len(sent) = 0
      BY <3>1 DEF Written, EndOf
    <3>2. CASE Len(sent) # 0
      <4>1. Len(sent) \in 1 .. Len(sent)
        BY <1>0, <3>2
      <4>2. sent[Len(sent)] \in [end : Nat, means : Meanings]
        BY <1>0, <4>1, ElementOfSeq
      <4> QED
        BY <3>2, <4>2 DEF Written, EndOf
    <3> QED
      BY <3>1, <3>2
  <2>3. /\ sent' \in Seq([end : Nat, means : Meanings]) /\ Len(sent') <= MaxFrames
    <3> DEFINE r == [end |-> Written + Len(bytes), means |-> means]
    <3>1. r \in [end : Nat, means : Meanings]
      BY <2>2, LenProperties
    <3> HIDE DEF r
    <3>2. sent' = Append(sent, r) /\ Len(sent) < MaxFrames
      BY <1>1 DEF Writes, r
    <3> QED
      BY <1>0, <3>1, <3>2, AppendProperties
  <2> QED
    BY <1>0, <1>1, <2>1, <2>3 DEF Writes, FrameTypes, FrameTypeOK
<1>2. CASE Peer
  <2>1. ASSUME NEW m \in WireMessages, WriteMessage(m) PROVE FrameTypes'
    <3>1. EncodeFrame(m) \in Seq(Nat) /\ Means(m) \in Meanings
      BY BytesWritten DEF Meanings
    <3> QED
      BY <1>1, <2>1, <3>1 DEF WriteMessage
  <2>2. ASSUME NEW f \in Foreign, WriteForeign(f) PROVE FrameTypes'
    <3>1. Frame(f.cbor) \in Seq(Nat) /\ f.means \in Meanings
      BY BytesWritten DEF Meanings
    <3> QED
      BY <1>1, <2>2, <3>1 DEF WriteForeign
  <2>3. CASE WriteOverLimit
    BY <1>1, <2>3, BytesWritten DEF WriteOverLimit, Meanings
  <2>4. ASSUME NEW k \in {0, Len(wire)}, Finish(k) PROVE FrameTypes'
    <3>1. SubSeq(wire, 1, k) \in Seq(Nat)
      BY <1>0, LenProperties, SubSeqProperties, ElementOfSeq
    <3> QED
      BY <1>0, <2>4, <3>1 DEF Finish, FrameTypes, FrameTypeOK
  <2> QED
    BY <1>2, <2>1, <2>2, <2>3, <2>4 DEF Peer
<1>3. CASE Transmit
  <2>1. wire' \in Seq(Nat) /\ arrived' \in Seq(Nat)
    BY <1>0, <1>3, HeadTailProperties, AppendProperties DEF Transmit
  <2> QED
    BY <1>0, <1>3, <2>1 DEF Transmit, FrameTypes, FrameTypeOK
<1>4. ASSUME NEW n \in Nat, Available(n)
      PROVE  /\ SubSeq(arrived, 1, n) \in Seq(Nat)
             /\ SubSeq(arrived, n + 1, Len(arrived)) \in Seq(Nat)
  BY <1>0, <1>4, LenProperties, SubSeqProperties, ElementOfSeq DEF Available
<1>5. CASE ReadLength
  <2> DEFINE len == Number(SubSeq(arrived, 1, LenBytes))
  <2>1. len \in Nat /\ arrived' \in Seq(Nat)
    BY <1>0, <1>4, <1>5, NumberIs DEF ReadLength, Takes
  <2>2. need' \in -1 .. MAX_FRAME_BODY /\ ended' \in {"no", "eof", "error", "violation"}
    <3>1. IF len > MAX_FRAME_BODY
          THEN ended' = "error" /\ UNCHANGED need
          ELSE need' = len /\ UNCHANGED ended
      BY <1>5 DEF ReadLength
    <3> HIDE DEF len
    <3> QED
      BY <1>0, <2>1, <3>1, ControlFrameAssumption DEF FrameTypeOK
  <2> QED
    BY <1>0, <1>5, <2>1, <2>2 DEF ReadLength, FrameTypes, FrameTypeOK
<1>6. CASE ReadEof \/ ReadShort \/ ReadFails \/ Break
  BY <1>0, <1>6 DEF ReadEof, ReadShort, ReadFails, Break, Ends, FrameTypes, FrameTypeOK
<1>7. CASE ReadBody
  <2>1. need \in Nat /\ Available(need)
    BY <1>0, <1>7 DEF ReadBody, FrameTypeOK
  <2>2. arrived' \in Seq(Nat) /\ need' = -1
    BY <1>4, <1>7, <2>1 DEF ReadBody, Takes
  <2> DEFINE got == DecodeBody(SubSeq(arrived, 1, need))
  <2>3. IF got = Violation THEN ended' = "violation" /\ UNCHANGED inbox
        ELSE inbox' = Append(inbox, got) /\ UNCHANGED ended
    BY <1>7 DEF ReadBody
  <2>4. got # Violation => got \in Decoded
    BY <1>4, <2>1 DEF Decoded
  <2> HIDE DEF got
  <2>5. inbox' \in Seq(Decoded) /\ ended' \in {"no", "eof", "error", "violation"}
    <3>1. CASE got = Violation
      BY <1>0, <2>3, <3>1 DEF FrameTypeOK
    <3>2. CASE got # Violation
      <4>1. Append(inbox, got) \in Seq(Decoded)
        BY <1>0, <2>4, <3>2, AppendProperties
      <4> QED
        BY <1>0, <2>3, <3>2, <4>1 DEF FrameTypeOK
    <3> QED
      BY <3>1, <3>2
  <2>6. \A i \in DOMAIN inbox' : inbox'[i] = Ignored \/ inbox'[i].type \in Registered
    <3>1. \A i \in DOMAIN inbox' : inbox'[i] \in Decoded
      BY <2>5, ElementOfSeq, LenProperties
    <3> QED
      BY <3>1, DecodedIs
  <2> QED
    BY <1>0, <1>7, <2>2, <2>5, <2>6, ControlFrameAssumption
    DEF ReadBody, FrameTypes, FrameTypeOK
<1>8. CASE UNCHANGED frameVars
  BY <1>0, <1>8 DEF frameVars, FrameTypes, FrameTypeOK
<1> QED
  BY <1>2, <1>3, <1>5, <1>6, <1>7, <1>8 DEF FrameNext, Read

-----------------------------------------------------------------------------
(* Where the reader is.                                                    *)
LEMMA Places ==
  ASSUME FrameInv
  PROVE  /\ Len(sent) \in Nat /\ Len(inbox) \in Nat /\ Len(arrived) \in Nat /\ Len(wire) \in Nat
         /\ Written \in Nat /\ Len(inbox) <= Len(sent)
         /\ \A i \in 0 .. Len(sent) : EndOf(i) \in Nat /\ EndOf(i) <= Written
         /\ Pos \in Nat /\ Cut \in Nat /\ Cut = Pos + Len(arrived) + Len(wire)
         /\ need \in Int /\ LenBytes \in Nat \ {0} /\ MAX_FRAME_BODY \in Nat
<1>1. /\ sent \in Seq([end : Nat, means : Meanings]) /\ inbox \in Seq(Decoded)
      /\ arrived \in Seq(Nat) /\ wire \in Seq(Nat) /\ need \in -1 .. MAX_FRAME_BODY
      /\ MAX_FRAME_BODY \in Nat /\ LenBytes \in Nat \ {0}
  BY ControlFrameAssumption DEF FrameInv, FrameTypes, FrameTypeOK
<1>2. Len(sent) \in Nat /\ Len(inbox) \in Nat /\ Len(arrived) \in Nat /\ Len(wire) \in Nat
  BY <1>1, LenProperties
<1>3. Len(inbox) <= Len(sent)
  BY DEF FrameInv, StreamReadFaithfully, FramesArriveInOrder
<1>4. ASSUME NEW i \in 0 .. Len(sent) PROVE EndOf(i) \in Nat
  <2>1. CASE i = 0
    BY <2>1 DEF EndOf
  <2>2. CASE i # 0
    <3>1. i \in 1 .. Len(sent)
      BY <2>2
    <3>2. sent[i] \in [end : Nat, means : Meanings]
      BY <1>1, <3>1, ElementOfSeq
    <3> QED
      BY <2>2, <3>2 DEF EndOf
  <2> QED
    BY <2>1, <2>2
<1>5. ASSUME NEW i \in 0 .. Len(sent) PROVE EndOf(i) <= Written
  <2>1. Len(sent) \in 0 .. Len(sent) /\ i <= Len(sent)
    BY <1>2
  <2> QED
    BY <2>1 DEF FrameInv, Written
<1>6. Written \in Nat /\ EndOf(Len(inbox)) \in Nat
  <2>1. Len(sent) \in 0 .. Len(sent) /\ Len(inbox) \in 0 .. Len(sent)
    BY <1>2, <1>3
  <2> QED
    BY <1>4, <2>1 DEF Written
<1>7. Pos \in Nat
  BY <1>1, <1>6 DEF Pos
<1>8. Cut \in Nat /\ Cut = Pos + Len(arrived) + Len(wire)
  BY <1>2, <1>7 DEF Cut
<1> QED
  BY <1>1, <1>2, <1>3, <1>4, <1>5, <1>6, <1>7, <1>8

(* The frame the reader is in, or comes to next.                           *)
LEMMA NextFrame ==
  ASSUME FrameInv, NEW all, Laid(all), Len(inbox) < Len(sent)
  PROVE  /\ Len(inbox) + 1 \in 1 .. Len(sent)
         /\ EndOf(Len(inbox) + 1) \in Nat
         /\ EndOf(Len(inbox)) + LenBytes <= EndOf(Len(inbox) + 1)
         /\ EndOf(Len(inbox) + 1) <= Written
         /\ FrameAt(all, EndOf(Len(inbox)), EndOf(Len(inbox) + 1), sent[Len(inbox) + 1].means)
<1> DEFINE n == Len(inbox)
<1>1. /\ n + 1 \in 1 .. Len(sent) /\ n + 1 \in 0 .. Len(sent) /\ (n + 1) - 1 = n
      /\ n \in 0 .. Len(sent)
  BY Places
<1>2. EndOf(n + 1) \in Nat /\ EndOf(n + 1) <= Written /\ EndOf(n) \in Nat
  BY <1>1, Places
<1>3. FrameAt(all, EndOf(n), EndOf(n + 1), sent[n + 1].means)
  <2>1. FrameAt(all, EndOf((n + 1) - 1), EndOf(n + 1), sent[n + 1].means)
    BY <1>1 DEF Laid
  <2> QED
    BY <1>1, <2>1
<1>4. EndOf(n) + LenBytes <= EndOf(n + 1)
  <2> DEFINE len == Number(Piece(all, EndOf(n), EndOf(n) + LenBytes))
  <2>1. \/ EndOf(n + 1) = EndOf(n) + LenBytes
        \/ len \in 0 .. MAX_FRAME_BODY /\ EndOf(n + 1) = EndOf(n) + LenBytes + len
    BY <1>3, Zenon DEF FrameAt
  <2> HIDE DEF len
  <2>2. LenBytes \in Nat /\ MAX_FRAME_BODY \in Nat
    BY ControlFrameAssumption
  <2>3. len \in 0 .. MAX_FRAME_BODY => len >= 0 /\ len \in Int
    BY <2>2
  <2> QED
    BY <1>2, <2>1, <2>2, <2>3
<1> QED
  BY <1>1, <1>2, <1>3, <1>4

-----------------------------------------------------------------------------
(* A frame more is written.                                                *)
LEMMA WriteGrows ==
  ASSUME FrameInv, NEW bytes \in Seq(Nat), NEW means, Writes(bytes, means),
         NEW N, N = Len(sent)
  PROVE  /\ N \in Nat /\ Len(sent') = N + 1 /\ Len(bytes) \in Nat
         /\ \A i \in 1 .. N : sent'[i] = sent[i]
         /\ \A i \in 0 .. N : EndOf(i)' = EndOf(i)
         /\ sent'[N + 1].means = means
         /\ EndOf(N + 1)' = Written + Len(bytes)
         /\ Written' = Written + Len(bytes)
         /\ ~fin /\ UNCHANGED <<fin, torn, broken, arrived, need, inbox, ended>>
         /\ wire' = wire \o bytes
<1> DEFINE r == [end |-> Written + Len(bytes), means |-> means]
<1>0. sent \in Seq([end : Nat, means : Meanings]) /\ N \in Nat /\ Written \in Nat
  BY Places DEF FrameInv, FrameTypes
<1>1. Len(bytes) \in Nat
  BY LenProperties
<1>2. sent' = Append(sent, r)
  BY DEF Writes
<1>3. Len(sent') = N + 1 /\ (\A i \in 1 .. N : sent'[i] = sent[i]) /\ sent'[N + 1] = r
  BY <1>0, <1>2
<1>4. \A i \in 0 .. N : EndOf(i)' = EndOf(i)
  BY <1>0, <1>3 DEF EndOf
<1>5. EndOf(N + 1)' = Written + Len(bytes) /\ sent'[N + 1].means = means
  BY <1>0, <1>3 DEF EndOf
<1>6. Written' = Written + Len(bytes)
  BY <1>0, <1>3 DEF EndOf, Written
<1> QED
  BY <1>0, <1>1, <1>3, <1>4, <1>5, <1>6 DEF Writes

(* It is laid behind the others,                                           *)
LEMMA WriteLays ==
  ASSUME FrameInv, NEW bytes \in Seq(Nat), NEW means, Writes(bytes, means),
         NEW all, Laid(all), FrameAt(all \o bytes, Len(all), Len(all) + Len(bytes), means)
  PROVE  Laid(all \o bytes)'
<1> DEFINE new == all \o bytes
<1> PICK N : N = Len(sent)
  OBVIOUS
<1>0. /\ N \in Nat /\ Written \in Nat /\ all \in Seq(Nat) /\ Len(all) = Written
      /\ Len(bytes) \in Nat /\ EndOf(N) = Written
  BY Places, WriteGrows DEF Laid, Written
<1>1. new \in Seq(Nat) /\ Len(new) = Written + Len(bytes)
  BY <1>0, ConcatProperties
<1>2. ASSUME NEW i \in 1 .. N PROVE FrameAt(new, EndOf(i - 1)', EndOf(i)', sent'[i].means)
  <2>1. i - 1 \in 0 .. N /\ i \in 0 .. N
    BY <1>0
  <2>2. /\ EndOf(i - 1)' = EndOf(i - 1) /\ EndOf(i)' = EndOf(i) /\ sent'[i] = sent[i]
    BY <2>1, WriteGrows
  <2>3. EndOf(i - 1) \in Nat /\ EndOf(i) \in Nat /\ EndOf(i) <= Len(all)
    BY <1>0, <2>1, Places
  <2>4. FrameAt(all, EndOf(i - 1), EndOf(i), sent[i].means)
    BY DEF Laid
  <2>5. FrameAt(new, EndOf(i - 1), EndOf(i), sent[i].means)
    BY <1>0, <2>3, <2>4, FrameStays
  <2> QED
    BY <2>2, <2>5
<1>3. FrameAt(new, EndOf((N + 1) - 1)', EndOf(N + 1)', sent'[N + 1].means)
  <2>1. N \in 0 .. N /\ (N + 1) - 1 = N
    BY <1>0
  <2>2. EndOf(N)' = EndOf(N)
    BY <2>1, WriteGrows
  <2>3. EndOf(N + 1)' = Written + Len(bytes) /\ sent'[N + 1].means = means
    BY WriteGrows
  <2> QED
    BY <1>0, <2>1, <2>2, <2>3
<1> HIDE DEF new
<1>4. \A i \in 1 .. Len(sent') : FrameAt(new, EndOf(i - 1)', EndOf(i)', sent'[i].means)
  <2> SUFFICES ASSUME NEW i \in 1 .. Len(sent')
               PROVE  FrameAt(new, EndOf(i - 1)', EndOf(i)', sent'[i].means)
    OBVIOUS
  <2>1. Len(sent') = N + 1
    BY WriteGrows
  <2>2. i \in 1 .. N \/ i = N + 1
    BY <1>0, <2>1
  <2>3. CASE i \in 1 .. N
    BY <1>2, <2>3
  <2>4. CASE i = N + 1
    BY <1>3, <2>4, Zenon
  <2> QED
    BY <2>2, <2>3, <2>4
<1>5. Laid(new)'
  BY <1>1, <1>4, WriteGrows DEF Laid
<1> QED
  BY <1>5 DEF new

(* and what is ahead of the reader goes on with it.                        *)
LEMMA WriteAhead ==
  ASSUME FrameInv, NEW bytes \in Seq(Nat), NEW means, Writes(bytes, means),
         NEW all, Laid(all), Ahead(all)
  PROVE  Ahead(all \o bytes)'
<1> DEFINE new == all \o bytes
<1> PICK n : n = Len(inbox)
  OBVIOUS
<1>0. /\ Len(sent) \in Nat /\ Written \in Nat /\ all \in Seq(Nat) /\ Len(all) = Written
      /\ Len(bytes) \in Nat /\ n \in Nat /\ n <= Len(sent) /\ Pos \in Nat /\ Cut \in Nat
      /\ Len(arrived) \in Nat /\ Len(wire) \in Nat
  BY Places, WriteGrows DEF Laid
<1>1. Cut = Written /\ Cut = Pos + Len(arrived) + Len(wire) /\ ~fin
  BY Places, WriteGrows DEF Ahead
<1>2. /\ \A i \in 1 .. Written : new[i] = all[i]
      /\ \A i \in 1 .. Len(bytes) : new[Written + i] = bytes[i]
  <2>1. \A i \in 1 .. Len(all) + Len(bytes) :
           new[i] = IF i <= Len(all) THEN all[i] ELSE bytes[i - Len(all)]
    BY <1>0, ConcatProperties
  <2> HIDE DEF new
  <2>2. ASSUME NEW i \in 1 .. Written PROVE new[i] = all[i]
    <3>1. i \in 1 .. Len(all) + Len(bytes) /\ i <= Len(all)
      BY <1>0
    <3> QED
      BY <2>1, <3>1
  <2>3. ASSUME NEW i \in 1 .. Len(bytes) PROVE new[Written + i] = bytes[i]
    <3>1. /\ Written + i \in 1 .. Len(all) + Len(bytes) /\ ~(Written + i <= Len(all))
          /\ (Written + i) - Len(all) = i
      BY <1>0
    <3> QED
      BY <2>1, <3>1
  <2> QED
    BY <2>2, <2>3
<1>3. wire' = wire \o bytes /\ Len(wire') = Len(wire) + Len(bytes)
  <2>1. wire \in Seq(Nat) /\ wire' = wire \o bytes
    BY DEF Writes, FrameInv, FrameTypes, FrameTypeOK
  <2> QED
    BY <2>1, ConcatProperties
<1>4. \A i \in 1 .. Len(wire) + Len(bytes) :
         wire'[i] = IF i <= Len(wire) THEN wire[i] ELSE bytes[i - Len(wire)]
  BY <1>3, ConcatProperties DEF FrameInv, FrameTypes, FrameTypeOK
<1>5. /\ UNCHANGED <<arrived, inbox, need, fin, torn>>
      /\ Pos' = Pos /\ Written' = Written + Len(bytes)
  <2>1. n \in 0 .. Len(sent)
    BY <1>0
  <2>2. EndOf(n)' = EndOf(n) /\ UNCHANGED <<arrived, inbox, need, fin, torn>>
    BY <2>1, WriteGrows
  <2>3. EndOf(Len(inbox))' = EndOf(n)'
    <3>1. n = Len(inbox')
      BY <2>2
    <3> QED
      BY <3>1
  <2> QED
    BY <2>2, <2>3, WriteGrows DEF Pos
<1>6. Cut' = Written'
  <2>1. Cut' = Pos + Len(arrived) + (Len(wire) + Len(bytes))
    BY <1>3, <1>5 DEF Cut
  <2>2. Written' = Pos + Len(arrived) + Len(wire) + Len(bytes)
    BY <1>1, <1>5
  <2> QED
    BY <1>0, <2>1, <2>2
<1>7. \A i \in 1 .. Len(arrived) : arrived[i] = new[Pos + i]
  <2> SUFFICES ASSUME NEW i \in 1 .. Len(arrived) PROVE arrived[i] = new[Pos + i]
    OBVIOUS
  <2>1. Pos + i \in 1 .. Written
    BY <1>0, <1>1
  <2> QED
    BY <1>2, <2>1 DEF Ahead
<1>8. \A i \in 1 .. Len(wire') : wire'[i] = new[Pos + Len(arrived) + i]
  <2> SUFFICES ASSUME NEW i \in 1 .. Len(wire) + Len(bytes)
               PROVE  wire'[i] = new[Pos + Len(arrived) + i]
    BY <1>3
  <2>1. CASE i <= Len(wire)
    <3>1. i \in 1 .. Len(wire) /\ Pos + Len(arrived) + i \in 1 .. Written
      BY <1>0, <1>1, <2>1
    <3>2. wire[i] = all[Pos + Len(arrived) + i]
      BY <3>1 DEF Ahead
    <3> QED
      BY <1>2, <1>4, <2>1, <3>1, <3>2
  <2>2. CASE ~(i <= Len(wire))
    <3>1. /\ i - Len(wire) \in 1 .. Len(bytes)
          /\ Pos + Len(arrived) + i = Written + (i - Len(wire))
      BY <1>0, <1>1, <2>2
    <3> QED
      BY <1>2, <1>4, <2>2, <3>1
  <2> QED
    BY <2>1, <2>2
<1>9. ASSUME need # -1
      PROVE  /\ Len(inbox) < Len(sent') /\ EndOf(Len(inbox) + 1)' = Pos + need
             /\ DecodeBody(Piece(new, Pos, Pos + need)) = sent'[Len(inbox) + 1].means
  <2>1. /\ n < Len(sent) /\ EndOf(n + 1) = Pos + need
        /\ DecodeBody(Piece(all, Pos, Pos + need)) = sent[n + 1].means
    BY <1>9 DEF Ahead
  <2>2. n + 1 \in 1 .. Len(sent) /\ n + 1 \in 0 .. Len(sent)
    BY <1>0, <2>1
  <2>3. EndOf(n + 1)' = EndOf(n + 1) /\ sent'[n + 1] = sent[n + 1] /\ Len(sent') = Len(sent) + 1
    BY <2>2, WriteGrows
  <2>4. EndOf(Len(inbox) + 1)' = EndOf(n + 1)'
    <3>1. n + 1 = Len(inbox') + 1
      BY <1>5
    <3> QED
      BY <3>1 DEF EndOf
  <2>5. Pos + need \in Nat /\ Pos <= Pos + need /\ Pos + need <= Len(all)
    <3>1. need \in Nat
      BY <1>9 DEF FrameInv, FrameTypes, FrameTypeOK
    <3>2. EndOf(n + 1) <= Written
      BY <2>2, Places
    <3> QED
      BY <1>0, <2>1, <3>1, <3>2
  <2>6. Piece(new, Pos, Pos + need) = Piece(all, Pos, Pos + need)
    BY <1>0, <2>5, PieceStays
  <2> HIDE DEF new
  <2> QED
    BY <1>0, <2>1, <2>3, <2>4, <2>6
<1> HIDE DEF new
<1>10. Ahead(new)'
  BY <1>1, <1>5, <1>6, <1>7, <1>8, <1>9 DEF Ahead
<1> QED
  BY <1>10 DEF new

(* Writing keeps the invariant;                                            *)
LEMMA WriteStep ==
  ASSUME FrameInv, FrameTypes', NEW bytes \in Seq(Nat), NEW means, Writes(bytes, means),
         \A all \in Seq(Nat) : FrameAt(all \o bytes, Len(all), Len(all) + Len(bytes), means)
  PROVE  FrameInv'
<1> PICK N : N = Len(sent)
  OBVIOUS
<1> PICK n : n = Len(inbox)
  OBVIOUS
<1>0. /\ N \in Nat /\ n \in Nat /\ n <= N /\ Written \in Nat
      /\ \A i \in 0 .. N : EndOf(i) \in Nat /\ EndOf(i) <= Written
  BY Places
<1>1. /\ Len(sent') = N + 1 /\ Len(bytes) \in Nat
      /\ \A i \in 1 .. N : sent'[i] = sent[i]
      /\ \A i \in 0 .. N : EndOf(i)' = EndOf(i)
      /\ EndOf(N + 1)' = Written + Len(bytes)
  BY WriteGrows
<1>2. ~fin /\ UNCHANGED <<fin, torn, broken, inbox, ended>>
  BY DEF Writes
<1>3. (torn => fin)' /\ (ended = "eof" => fin)'
  BY <1>2 DEF FrameInv
<1>4. FramesArriveInOrder'
  <2>1. \A i \in DOMAIN inbox : inbox[i] = sent[i].means /\ i \in 1 .. N
    BY <1>0, LenProperties DEF FrameInv, StreamReadFaithfully, FramesArriveInOrder, FrameTypes
  <2>2. \A i \in DOMAIN inbox' : inbox'[i] = sent'[i].means
    BY <1>1, <1>2, <2>1
  <2>3. Len(inbox') <= Len(sent')
    BY <1>0, <1>1, <1>2
  <2> QED
    BY <2>2, <2>3 DEF FramesArriveInOrder
<1>5. EndsForCause'
  <2>1. AtFault => AtFault'
    <3> SUFFICES ASSUME AtFault PROVE AtFault'
      OBVIOUS
    <3>1. n < N /\ sent[n + 1].means = Violation
      BY DEF AtFault
    <3>2. n + 1 \in 1 .. N /\ n < N + 1
      BY <1>0, <3>1
    <3>3. n < Len(sent') /\ sent'[n + 1].means = Violation /\ Len(inbox') = n
      BY <1>1, <1>2, <3>1, <3>2
    <3> QED
      BY <3>3 DEF AtFault
  <2> QED
    BY <1>2, <2>1 DEF FrameInv, StreamReadFaithfully, EndsForCause
<1>6. \A i, j \in 0 .. Len(sent') : i <= j => EndOf(i)' <= EndOf(j)'
  <2> SUFFICES ASSUME NEW i \in 0 .. N + 1, NEW j \in 0 .. N + 1, i <= j
               PROVE  EndOf(i)' <= EndOf(j)'
    BY <1>1
  <2>1. CASE j \in 0 .. N
    <3>1. i \in 0 .. N
      BY <1>0, <2>1
    <3> QED
      BY <1>1, <2>1, <3>1 DEF FrameInv
  <2>2. CASE j = N + 1
    <3>1. CASE i \in 0 .. N
      <4>1. EndOf(i)' = EndOf(i) /\ EndOf(i) \in Nat /\ EndOf(i) <= Written
        BY <1>0, <1>1, <3>1
      <4>2. EndOf(j)' = Written + Len(bytes)
        BY <1>1, <2>2
      <4> QED
        BY <1>0, <1>1, <4>1, <4>2
    <3>2. CASE i = N + 1
      <4>1. EndOf(i)' = Written + Len(bytes) /\ EndOf(j)' = Written + Len(bytes)
        BY <1>1, <2>2, <3>2
      <4> QED
        BY <1>0, <1>1, <4>1
    <3> QED
      BY <1>0, <3>1, <3>2
  <2> QED
    BY <1>0, <2>1, <2>2
<1>7. \E all : Laid(all)' /\ (ended' = "no" => Ahead(all)')
  <2>1. PICK all : Laid(all) /\ (ended = "no" => Ahead(all))
    BY DEF FrameInv
  <2>2. all \in Seq(Nat)
    BY <2>1 DEF Laid
  <2>3. Laid(all \o bytes)'
    BY <2>1, <2>2, WriteLays
  <2>4. ended' = "no" => Ahead(all \o bytes)'
    BY <1>2, <2>1, WriteAhead
  <2> QED
    BY <2>3, <2>4
<1> QED
  BY <1>3, <1>4, <1>5, <1>6, <1>7 DEF FrameInv, StreamReadFaithfully

(* whatever the peer writes is such a frame, if the codec is faithful.     *)
LEMMA PeerWrites ==
  ASSUME CodecFaithful, FrameInv, FrameTypes',
         \/ \E m \in WireMessages : WriteMessage(m)
         \/ \E f \in Foreign : WriteForeign(f)
         \/ WriteOverLimit
  PROVE  FrameInv'
<1>0. MAX_FRAME_BODY \in Nat
  BY ControlFrameAssumption
<1>1. ASSUME NEW cbor, IsBody(cbor), Writes(Frame(cbor), DecodeBody(cbor))
      PROVE  FrameInv'
  <2> DEFINE k == Len(cbor)
  <2>1. cbor \in Seq(Nat) /\ k \in 0 .. MAX_FRAME_BODY + 1 /\ k <= MAX_FRAME_BODY
        /\ ~(k > MAX_FRAME_BODY)
    BY <1>0, <1>1, LenProperties DEF IsBody
  <2>2. Frame(cbor) = Digits(k, LenBytes) \o cbor
    BY DEF Frame
  <2> HIDE DEF k
  <2>3. ASSUME NEW all \in Seq(Nat)
        PROVE  /\ Frame(cbor) \in Seq(Nat)
               /\ FrameAt(all \o Frame(cbor), Len(all), Len(all) + Len(Frame(cbor)), DecodeBody(cbor))
    BY <2>1, <2>2, FrameWritten DEF k
  <2>4. Frame(cbor) \in Seq(Nat)
    <3>1. <<>> \in Seq(Nat)
      BY EmptySeq
    <3> QED
      BY <2>3, <3>1
  <2> QED
    BY <1>1, <2>3, <2>4, WriteStep
<1>2. ASSUME NEW m \in WireMessages, WriteMessage(m) PROVE FrameInv'
  BY <1>1, <1>2, ControlFrameAssumption DEF WriteMessage, EncodeFrame, CodecFaithful
<1>3. ASSUME NEW f \in Foreign, WriteForeign(f) PROVE FrameInv'
  BY <1>1, <1>3, ControlFrameAssumption DEF WriteForeign, CodecFaithful
<1>4. CASE WriteOverLimit
  <2> DEFINE k == MAX_FRAME_BODY + 1
             d == Digits(k, LenBytes)
  <2>1. k \in 0 .. MAX_FRAME_BODY + 1 /\ k > MAX_FRAME_BODY /\ ~(k <= MAX_FRAME_BODY)
    BY <1>0
  <2>2. d \in Seq(Nat) /\ <<>> \in Seq(Nat) /\ d \o <<>> = d
    BY <2>1, LengthFits, EmptySeq, ConcatEmptySeq
  <2>3. Writes(d, Violation)
    BY <1>4 DEF WriteOverLimit
  <2> HIDE DEF k
  <2>4. ASSUME NEW all \in Seq(Nat)
        PROVE  FrameAt(all \o (d \o <<>>), Len(all), Len(all) + Len(d \o <<>>), Violation)
    BY <2>1, <2>2, FrameWritten
  <2> HIDE DEF d
  <2>5. \A all \in Seq(Nat) : FrameAt(all \o d, Len(all), Len(all) + Len(d), Violation)
    BY <2>2, <2>4
  <2> QED
    BY <2>2, <2>3, <2>5, WriteStep
<1> QED
  BY <1>2, <1>3, <1>4

-----------------------------------------------------------------------------
(* The peer finishes; bytes arrive.                                        *)
LEMMA FinishStep ==
  ASSUME FrameInv, FrameTypes', NEW k \in {0, Len(wire)}, Finish(k)
  PROVE  FrameInv'
<1> DEFINE w == SubSeq(wire, 1, k)
<1>0. /\ Len(wire) \in Nat /\ k \in 0 .. Len(wire) /\ wire \in Seq(Nat)
      /\ Len(arrived) \in Nat /\ Pos \in Nat /\ Cut \in Nat /\ Written \in Nat
      /\ Cut = Pos + Len(arrived) + Len(wire)
  <2>1. Len(wire) \in Nat
    BY Places
  <2>2. k \in 0 .. Len(wire)
    BY <2>1
  <2>3. wire \in Seq(Nat)
    BY DEF FrameInv, FrameTypes, FrameTypeOK
  <2> QED
    BY <2>1, <2>2, <2>3, Places
<1>1. /\ ~fin /\ fin' = TRUE /\ wire' = w
      /\ torn' = (Written - (Len(wire) - k) \notin {EndOf(i) : i \in 0 .. Len(sent)})
      /\ UNCHANGED <<sent, broken, arrived, need, inbox, ended>>
  BY DEF Finish
<1>2. Len(w) = k /\ \A i \in 1 .. k : w[i] = wire[i]
  BY <1>0, SubSeqProperties, LenProperties, ElementOfSeq
<1>3. UNCHANGED <<Pos, Written, FrameEnds>> /\ \A i : EndOf(i)' = EndOf(i)
  BY <1>1 DEF Pos, Written, FrameEnds, EndOf
<1> HIDE DEF w
<1>4. StreamReadFaithfully'
  BY <1>1 DEF FrameInv, StreamReadFaithfully, FramesArriveInOrder, EndsForCause, AtFault
<1>5. (torn => fin)' /\ (ended = "eof" => fin)'
  BY <1>1
<1>6. \A i, j \in 0 .. Len(sent') : i <= j => EndOf(i)' <= EndOf(j)'
  BY <1>1, <1>3 DEF FrameInv
<1>7. ASSUME NEW all, Laid(all) PROVE Laid(all)'
  BY <1>1, <1>3, <1>7 DEF Laid
<1>8. ASSUME NEW all, Ahead(all) PROVE Ahead(all)'
  <2>1. Cut = Written
    BY <1>1, <1>8 DEF Ahead
  <2>2. Cut' = Pos + Len(arrived) + k
    BY <1>1, <1>2, <1>3 DEF Cut
  <2>3. Cut' = Written - (Len(wire) - k) /\ Cut' <= Written'
    BY <1>0, <1>3, <2>1, <2>2
  <2>4. torn' <=> Cut' \notin FrameEnds'
    BY <1>1, <1>3, <2>3 DEF FrameEnds
  <2>5. \A i \in 1 .. Len(wire') : wire'[i] = all[Pos' + Len(arrived') + i]
    <3>1. Len(wire') = k /\ Pos' = Pos /\ arrived' = arrived
      BY <1>1, <1>2, <1>3
    <3>2. \A i \in 1 .. k : i \in 1 .. Len(wire)
      BY <1>0
    <3> QED
      BY <1>1, <1>2, <1>8, <3>1, <3>2 DEF Ahead
  <2>6. /\ \A i \in 1 .. Len(arrived') : arrived'[i] = all[Pos' + i]
        /\ need' # -1 => /\ Len(inbox') < Len(sent')
                         /\ EndOf(Len(inbox) + 1)' = Pos' + need'
                         /\ DecodeBody(Piece(all, Pos', Pos' + need')) = sent'[Len(inbox') + 1].means
    <3>1. EndOf(Len(inbox) + 1)' = EndOf(Len(inbox) + 1)
      BY <1>1 DEF EndOf
    <3> QED
      BY <1>1, <1>3, <1>8, <3>1 DEF Ahead
  <2> QED
    BY <1>1, <2>3, <2>4, <2>5, <2>6 DEF Ahead
<1>9. \E all : Laid(all)' /\ (ended' = "no" => Ahead(all)')
  BY <1>1, <1>7, <1>8 DEF FrameInv
<1> QED
  BY <1>4, <1>5, <1>6, <1>9 DEF FrameInv

LEMMA TransmitStep ==
  ASSUME FrameInv, FrameTypes', Transmit
  PROVE  FrameInv'
<1>0. /\ Len(wire) \in Nat /\ wire \in Seq(Nat) /\ arrived \in Seq(Nat)
      /\ Len(arrived) \in Nat /\ Pos \in Nat /\ Cut \in Nat /\ Written \in Nat
      /\ Cut = Pos + Len(arrived) + Len(wire)
  BY Places DEF FrameInv, FrameTypes, FrameTypeOK
<1>1. /\ wire # <<>> /\ arrived' = Append(arrived, Head(wire)) /\ wire' = Tail(wire)
      /\ UNCHANGED <<sent, fin, torn, broken, need, inbox, ended>>
  BY DEF Transmit
<1>2. /\ Len(wire) > 0 /\ Head(wire) = wire[1] /\ Len(wire') = Len(wire) - 1
      /\ \A i \in 1 .. Len(wire') : wire'[i] = wire[i + 1]
  BY <1>0, <1>1, HeadTailProperties, EmptySeq
<1>3. /\ Len(arrived') = Len(arrived) + 1
      /\ \A i \in 1 .. Len(arrived) : arrived'[i] = arrived[i]
      /\ arrived'[Len(arrived) + 1] = wire[1]
  BY <1>0, <1>1, <1>2, AppendProperties, HeadTailProperties
<1>4. UNCHANGED <<Pos, Written, FrameEnds>> /\ \A i : EndOf(i)' = EndOf(i)
  BY <1>1 DEF Pos, Written, FrameEnds, EndOf
<1>5. StreamReadFaithfully'
  BY <1>1 DEF FrameInv, StreamReadFaithfully, FramesArriveInOrder, EndsForCause, AtFault
<1>6. (torn => fin)' /\ (ended = "eof" => fin)'
  BY <1>1 DEF FrameInv
<1>7. \A i, j \in 0 .. Len(sent') : i <= j => EndOf(i)' <= EndOf(j)'
  BY <1>1, <1>4 DEF FrameInv
<1>8. ASSUME NEW all, Laid(all) PROVE Laid(all)'
  BY <1>1, <1>4, <1>8 DEF Laid
<1>9. ASSUME NEW all, Ahead(all) PROVE Ahead(all)'
  <2>1. Cut' = Cut
    <3>1. Cut' = Pos + (Len(arrived) + 1) + (Len(wire) - 1)
      BY <1>2, <1>3, <1>4 DEF Cut
    <3> QED
      BY <1>0, <3>1
  <2>2. ASSUME NEW i \in 1 .. Len(arrived') PROVE arrived'[i] = all[Pos + i]
    <3>1. CASE i \in 1 .. Len(arrived)
      BY <1>3, <1>9, <3>1 DEF Ahead
    <3>2. CASE i = Len(arrived) + 1
      <4>0. \A j \in 1 .. Len(wire) : wire[j] = all[Pos + Len(arrived) + j]
        BY <1>9 DEF Ahead
      <4>1. wire[1] = all[Pos + Len(arrived) + 1]
        BY <1>0, <1>2, <4>0
      <4>2. Pos + Len(arrived) + 1 = Pos + i
        BY <1>0, <3>2
      <4> QED
        BY <1>3, <3>2, <4>1, <4>2
    <3> QED
      BY <1>0, <1>3, <3>1, <3>2
  <2>3. ASSUME NEW i \in 1 .. Len(wire') PROVE wire'[i] = all[Pos + Len(arrived') + i]
    <3>1. i + 1 \in 1 .. Len(wire) /\ Pos + Len(arrived) + (i + 1) = Pos + Len(arrived') + i
      BY <1>0, <1>2, <1>3
    <3>2. wire[i + 1] = all[Pos + Len(arrived) + (i + 1)]
      BY <1>9, <3>1 DEF Ahead
    <3> QED
      BY <1>2, <3>1, <3>2
  <2>4. EndOf(Len(inbox) + 1)' = EndOf(Len(inbox) + 1)
    BY <1>1 DEF EndOf
  <2> QED
    BY <1>1, <1>4, <1>9, <2>1, <2>2, <2>3, <2>4 DEF Ahead
<1>10. \E all : Laid(all)' /\ (ended' = "no" => Ahead(all)')
  BY <1>1, <1>8, <1>9 DEF FrameInv
<1> QED
  BY <1>5, <1>6, <1>7, <1>10 DEF FrameInv

-----------------------------------------------------------------------------
(* Reading.                                                                *)
(* Reading leaves what was written.                                        *)
LEMMA ReadKeeps ==
  ASSUME FrameInv, UNCHANGED <<sent, wire, fin, torn>>
  PROVE  /\ Written' = Written /\ FrameEnds' = FrameEnds /\ \A i : EndOf(i)' = EndOf(i)
         /\ (torn => fin)'
         /\ \A i, j \in 0 .. Len(sent') : i <= j => EndOf(i)' <= EndOf(j)'
         /\ \A all : Laid(all) => Laid(all)'
<1>1. Written' = Written /\ FrameEnds' = FrameEnds /\ \A i : EndOf(i)' = EndOf(i)
  BY DEF Written, FrameEnds, EndOf
<1>2. \A all : Laid(all) => Laid(all)'
  BY <1>1 DEF Laid
<1> QED
  BY <1>1, <1>2 DEF FrameInv

(* What can be read is the next piece of what was written.                 *)
LEMMA NextPiece ==
  ASSUME FrameInv, NEW all, Laid(all), Ahead(all), NEW n \in Nat, Len(arrived) >= n
  PROVE  /\ SubSeq(arrived, 1, n) = Piece(all, Pos, Pos + n)
         /\ Pos + n <= Cut /\ Pos + n <= Written
<1> DEFINE t == SubSeq(arrived, 1, n)
           to == Pos + n
<1>0. /\ arrived \in Seq(Nat) /\ Len(arrived) \in Nat /\ Len(wire) \in Nat /\ Pos \in Nat
      /\ Cut \in Nat /\ Cut = Pos + Len(arrived) + Len(wire)
      /\ all \in Seq(Nat) /\ Len(all) = Written /\ Written \in Nat /\ Cut <= Written
  BY Places DEF FrameInv, FrameTypes, FrameTypeOK, Laid, Ahead
<1>1. t \in Seq(Nat) /\ Len(t) = n /\ \A i \in 1 .. n : t[i] = arrived[i]
  BY <1>0, SubSeqProperties, LenProperties, ElementOfSeq
<1> HIDE DEF t
<1>2. Holds(all, Pos, t)
  <2> SUFFICES ASSUME NEW i \in 1 .. n PROVE all[Pos + i] = t[i]
    BY <1>1 DEF Holds
  <2>1. i \in 1 .. Len(arrived)
    BY <1>0
  <2>2. arrived[i] = all[Pos + i]
    BY <2>1 DEF Ahead
  <2> QED
    BY <1>1, <2>2
<1>3. to \in Nat /\ Pos <= to /\ to <= Cut /\ to <= Len(all) /\ to - Pos = Len(t)
  BY <1>0, <1>1
<1> HIDE DEF to
<1>4. Piece(all, Pos, to) = t
  BY <1>0, <1>1, <1>2, <1>3, WholePiece
<1> QED
  BY <1>0, <1>3, <1>4 DEF t, to

(* The rest of it is still there.                                          *)
LEMMA TakenRest ==
  ASSUME arrived \in Seq(Nat), NEW n \in Nat, Len(arrived) >= n, Takes(n)
  PROVE  /\ Len(arrived') = Len(arrived) - n
         /\ \A i \in 1 .. Len(arrived') : arrived'[i] = arrived[n + i]
<1> DEFINE to == Len(arrived)
           rest == Piece(arrived, n, to)
<1>0. to \in Nat /\ n <= to /\ to <= Len(arrived)
  BY LenProperties
<1>1. arrived' = rest
  BY DEF Takes, Piece
<1>2. Len(rest) = to - n /\ \A i \in 1 .. to - n : rest[i] = arrived[n + i]
  <2> HIDE DEF to
  <2> QED
    BY <1>0, PieceIs
<1> HIDE DEF rest
<1> QED
  BY <1>1, <1>2

(* A reader that has not come to the end has a frame before it.            *)
LEMMA FrameBefore ==
  ASSUME FrameInv, EndOf(Len(inbox)) < Written
  PROVE  Len(inbox) < Len(sent)
<1>1. Len(inbox) <= Len(sent) /\ Len(inbox) \in Nat /\ Len(sent) \in Nat /\ Written \in Nat
  BY Places
<1>2. Len(inbox) # Len(sent)
  <2> SUFFICES ASSUME Len(inbox) = Len(sent) PROVE FALSE
    OBVIOUS
  <2>1. EndOf(Len(inbox)) = Written
    BY DEF Written
  <2> QED
    BY <1>1, <2>1
<1> QED
  BY <1>1, <1>2

(* A length is read, and is the one of the frame the reader is before.     *)
LEMMA ReadLengthStep ==
  ASSUME FrameInv, FrameTypes', ReadLength
  PROVE  FrameInv'
<1> DEFINE len == Number(SubSeq(arrived, 1, LenBytes))
<1> PICK n : n = Len(inbox)
  OBVIOUS
<1>0. /\ n \in Nat /\ Pos \in Nat /\ Cut \in Nat /\ Written \in Nat
      /\ Len(arrived) \in Nat /\ Len(wire) \in Nat /\ arrived \in Seq(Nat)
      /\ LenBytes \in Nat /\ LenBytes > 0 /\ Cut = Pos + Len(arrived) + Len(wire)
      /\ MAX_FRAME_BODY \in Nat
  BY Places DEF FrameInv, FrameTypes, FrameTypeOK
<1>1. /\ need = -1 /\ ended = "no" /\ Len(arrived) >= LenBytes /\ Takes(LenBytes)
      /\ IF len > MAX_FRAME_BODY THEN ended' = "error" /\ UNCHANGED need
                                 ELSE need' = len /\ UNCHANGED ended
      /\ UNCHANGED <<sent, wire, fin, torn, inbox>>
  BY DEF ReadLength, Available
<1>2. PICK all : Laid(all) /\ Ahead(all)
  BY <1>1 DEF FrameInv
<1>3. Pos = EndOf(n) /\ EndOf(n) \in Nat
  <2>1. n \in 0 .. Len(sent)
    BY <1>0, Places
  <2>2. EndOf(n) \in Nat
    BY <2>1, Places
  <2> QED
    BY <1>1, <2>2 DEF Pos
<1>4. /\ SubSeq(arrived, 1, LenBytes) = Piece(all, EndOf(n), EndOf(n) + LenBytes)
      /\ EndOf(n) + LenBytes <= Written
  BY <1>0, <1>1, <1>2, <1>3, NextPiece
<1>5. n < Len(sent)
  BY <1>0, <1>3, <1>4, FrameBefore
<1>6. /\ EndOf(n + 1) \in Nat /\ EndOf(n + 1) <= Written
      /\ FrameAt(all, EndOf(n), EndOf(n + 1), sent[n + 1].means)
  BY <1>2, <1>5, NextFrame
<1>7. \/ len > MAX_FRAME_BODY /\ sent[n + 1].means = Violation
      \/ /\ len \in 0 .. MAX_FRAME_BODY /\ EndOf(n + 1) = EndOf(n) + LenBytes + len
         /\ DecodeBody(Piece(all, EndOf(n) + LenBytes, EndOf(n + 1))) = sent[n + 1].means
  BY <1>4, <1>6 DEF FrameAt
<1> HIDE DEF len
<1>8. /\ Written' = Written /\ FrameEnds' = FrameEnds /\ (torn => fin)' /\ Laid(all)'
      /\ \A i : EndOf(i)' = EndOf(i)
      /\ \A i, j \in 0 .. Len(sent') : i <= j => EndOf(i)' <= EndOf(j)'
  BY <1>1, <1>2, ReadKeeps
<1>9. FramesArriveInOrder'
  BY <1>1 DEF FrameInv, StreamReadFaithfully, FramesArriveInOrder
<1>10. CASE len > MAX_FRAME_BODY
  <2>1. ended' = "error" /\ sent[n + 1].means = Violation
    BY <1>0, <1>1, <1>7, <1>10
  <2>2. AtFault'
    BY <1>1, <1>5, <2>1 DEF AtFault
  <2>3. EndsForCause'
    BY <2>1, <2>2 DEF EndsForCause
  <2> QED
    BY <1>8, <1>9, <2>1, <2>3 DEF FrameInv, StreamReadFaithfully
<1>11. CASE ~(len > MAX_FRAME_BODY)
  <2>1. /\ need' = len /\ ended' = "no" /\ len \in 0 .. MAX_FRAME_BODY
        /\ EndOf(n + 1) = EndOf(n) + LenBytes + len
        /\ DecodeBody(Piece(all, EndOf(n) + LenBytes, EndOf(n + 1))) = sent[n + 1].means
    BY <1>1, <1>7, <1>11
  <2>2. EndsForCause'
    BY <2>1 DEF EndsForCause
  <2>3. Pos' = Pos + LenBytes
    <3>1. need' # -1 /\ Len(inbox') = n
      BY <1>0, <1>1, <2>1
    <3>2. EndOf(Len(inbox))' = EndOf(n)
      <4>1. EndOf(n)' = EndOf(n)
        BY <1>8
      <4> QED
        BY <3>1, <4>1 DEF EndOf
    <3> QED
      BY <1>3, <3>1, <3>2 DEF Pos
  <2>4. /\ Len(arrived') = Len(arrived) - LenBytes
        /\ \A i \in 1 .. Len(arrived') : arrived'[i] = arrived[LenBytes + i]
    BY <1>0, <1>1, TakenRest
  <2>5. Cut' = Cut
    <3>1. Cut' = Pos + LenBytes + (Len(arrived) - LenBytes) + Len(wire)
      BY <1>1, <2>3, <2>4 DEF Cut
    <3> QED
      BY <1>0, <3>1
  <2>6. ASSUME NEW i \in 1 .. Len(arrived') PROVE arrived'[i] = all[Pos' + i]
    <3>a. i \in 1 .. Len(arrived) - LenBytes /\ LenBytes \in Nat /\ Len(arrived) \in Nat
      BY <1>0, <2>4
    <3>1. LenBytes + i \in 1 .. Len(arrived)
      BY <3>a
    <3>0. Pos + (LenBytes + i) = Pos' + i
      BY <1>0, <2>3
    <3>2. arrived[LenBytes + i] = all[Pos + (LenBytes + i)]
      BY <1>2, <3>1 DEF Ahead
    <3> QED
      BY <2>4, <3>0, <3>2
  <2>7. ASSUME NEW i \in 1 .. Len(wire') PROVE wire'[i] = all[Pos' + Len(arrived') + i]
    <3>1. i \in 1 .. Len(wire) /\ Pos' + Len(arrived') + i = Pos + Len(arrived) + i
      BY <1>0, <1>1, <2>3, <2>4
    <3>2. wire[i] = all[Pos + Len(arrived) + i]
      BY <1>2, <3>1 DEF Ahead
    <3> QED
      BY <1>1, <3>1, <3>2
  <2>8. EndOf(Len(inbox) + 1)' = Pos' + need'
    <3>1. EndOf(n + 1)' = EndOf(n + 1) /\ Len(inbox') + 1 = n + 1
      BY <1>1, <1>8
    <3>2. EndOf(Len(inbox) + 1)' = EndOf(n + 1)
      BY <3>1 DEF EndOf
    <3> QED
      BY <1>3, <2>1, <2>3, <3>2
  <2>9. DecodeBody(Piece(all, Pos', Pos' + need')) = sent'[Len(inbox') + 1].means
    BY <1>1, <1>3, <2>1, <2>3
  <2>10. Ahead(all)'
    BY <1>1, <1>2, <1>5, <1>8, <2>5, <2>6, <2>7, <2>8, <2>9 DEF Ahead
  <2> QED
    BY <1>8, <1>9, <2>1, <2>2, <2>10 DEF FrameInv, StreamReadFaithfully
<1> QED
  BY <1>10, <1>11

(* The stream has ended, at the end of a frame or inside one.              *)
LEMMA ReadEndStep ==
  ASSUME FrameInv, FrameTypes', ReadEof \/ ReadShort
  PROVE  FrameInv'
<1> PICK n : n = Len(inbox)
  OBVIOUS
<1>0. /\ n \in Nat /\ n <= Len(sent) /\ Pos \in Nat /\ Cut \in Nat /\ Written \in Nat
      /\ Len(arrived) \in Nat /\ Len(sent) \in Nat
      /\ LenBytes \in Nat /\ LenBytes > 0 /\ Cut = Pos + Len(arrived) + Len(wire)
      /\ need \in Int
  BY Places
<1>a. arrived \in Seq(Nat)
  BY DEF FrameInv, FrameTypes, FrameTypeOK
<1>b. \A i \in 0 .. Len(sent) : EndOf(i) \in Nat /\ EndOf(i) <= Written
  BY Places
<1>1. /\ ended = "no" /\ fin /\ wire = <<>> /\ Len(wire) = 0
      /\ UNCHANGED <<sent, wire, fin, torn, arrived, need, inbox>>
  BY DEF ReadEof, ReadShort, Short, Ends
<1>2. PICK all : Laid(all) /\ Ahead(all)
  BY <1>1 DEF FrameInv
<1>3. Cut = Pos + Len(arrived) /\ Cut <= Written /\ (torn <=> Cut \notin FrameEnds)
  BY <1>0, <1>1, <1>2 DEF Ahead
<1>4. n \in 0 .. Len(sent) /\ EndOf(n) \in Nat
  BY <1>0, <1>b
<1>6. ASSUME ReadShort PROVE ended' = "error" /\ torn
  <2>1. ended' = "error"
    BY <1>6 DEF ReadShort, Ends
  <2>2. n + 1 \in 0 .. Len(sent) /\ n < Len(sent) /\ EndOf(n) < Cut /\ Cut < EndOf(n + 1)
    <3>1. CASE need = -1
      <4>0. ~(need >= 0)
        BY <3>1
      <4>a. arrived # <<>> /\ Len(arrived) < LenBytes
        BY <1>6, <4>0 DEF ReadShort, Short
      <4>1. arrived # <<>> /\ Len(arrived) < LenBytes /\ Pos = EndOf(n)
        BY <1>4, <3>1, <4>a DEF Pos
      <4>2. Len(arrived) > 0
        BY <1>0, <1>a, <4>1, EmptySeq
      <4>b. Cut = EndOf(n) + Len(arrived) /\ Len(arrived) \in Nat /\ EndOf(n) \in Nat
        BY <1>0, <1>3, <1>4, <4>1
      <4>3. EndOf(n) < Cut /\ EndOf(n) < Written
        BY <1>0, <1>3, <4>2, <4>b
      <4>4. n < Len(sent)
        BY <4>3, FrameBefore
      <4>5. EndOf(n) + LenBytes <= EndOf(n + 1) /\ EndOf(n + 1) \in Nat
        BY <1>2, <4>4, NextFrame
      <4>6. Cut < EndOf(n + 1)
        <5>1. LenBytes \in Nat
          BY ControlFrameAssumption
        <5> QED
          BY <4>1, <4>5, <4>b, <5>1
      <4>7. n + 1 \in 0 .. Len(sent)
        BY <1>0, <4>4
      <4> QED
        BY <4>3, <4>4, <4>6, <4>7
    <3>2. CASE need # -1
      <4>1. Len(arrived) < need /\ Pos = EndOf(n) + LenBytes
        BY <1>6, <3>2 DEF ReadShort, Short, Pos
      <4>2. n < Len(sent) /\ EndOf(n + 1) = Pos + need
        BY <1>2, <3>2 DEF Ahead
      <4>3. EndOf(n) < Cut /\ Cut < EndOf(n + 1)
        <5>1. Cut = EndOf(n) + LenBytes + Len(arrived)
          BY <1>3, <4>1
        <5>2. EndOf(n + 1) = EndOf(n) + LenBytes + need
          BY <4>1, <4>2
        <5>3. PICK e \in Nat : e = EndOf(n)
          BY <1>4
        <5>4. need \in Int /\ LenBytes \in Nat /\ LenBytes > 0 /\ Len(arrived) \in Nat
          BY <1>0
        <5>5. e < e + LenBytes + Len(arrived) /\ e + LenBytes + Len(arrived) < e + LenBytes + need
          BY <4>1, <5>4
        <5> QED
          BY <5>1, <5>2, <5>3, <5>5
      <4>4. n + 1 \in 0 .. Len(sent)
        BY <1>0, <4>2
      <4> QED
        BY <4>2, <4>3, <4>4
    <3> QED
      BY <3>1, <3>2
  <2>3. ASSUME NEW i \in 0 .. Len(sent) PROVE Cut # EndOf(i)
    <3>1. CASE i <= n
      <4>1. EndOf(i) <= EndOf(n)
        BY <1>4, <3>1 DEF FrameInv
      <4>2. EndOf(i) \in Nat
        BY <1>b
      <4> QED
        BY <1>0, <1>4, <2>2, <4>1, <4>2
    <3>2. CASE n + 1 <= i
      <4>1. EndOf(n + 1) <= EndOf(i)
        BY <2>2, <3>2 DEF FrameInv
      <4>2. EndOf(n + 1) \in Nat /\ EndOf(i) \in Nat
        BY <1>b, <2>2
      <4> QED
        BY <1>0, <2>2, <4>1, <4>2
    <3> QED
      BY <1>0, <3>1, <3>2
  <2>4. torn
    BY <1>3, <2>3 DEF FrameEnds
  <2> QED
    BY <2>1, <2>4
<1>7. EndsForCause'
  <2>1. CASE ReadEof
    <3>1. ended' = "eof" /\ need = -1 /\ Len(arrived) = 0
      BY <2>1 DEF ReadEof, Ends
    <3>2. Cut = EndOf(n)
      BY <1>0, <1>3, <1>4, <3>1 DEF Pos
    <3>3. ~torn
      BY <1>3, <1>4, <3>2 DEF FrameEnds
    <3> QED
      BY <1>1, <3>1, <3>3 DEF EndsForCause
  <2>2. CASE ReadShort
    BY <1>1, <1>6, <2>2 DEF EndsForCause
  <2> QED
    BY <2>1, <2>2
<1>8. /\ (torn => fin)' /\ Laid(all)' /\ ended' # "no" /\ (ended = "eof" => fin)'
      /\ \A i, j \in 0 .. Len(sent') : i <= j => EndOf(i)' <= EndOf(j)'
  <2>1. ended' # "no"
    BY DEF ReadEof, ReadShort, Ends
  <2>2. (ended = "eof" => fin)'
    BY <1>1
  <2> QED
    BY <1>1, <1>2, <2>1, <2>2, ReadKeeps
<1>9. FramesArriveInOrder'
  BY <1>1 DEF FrameInv, StreamReadFaithfully, FramesArriveInOrder
<1> QED
  BY <1>7, <1>8, <1>9 DEF FrameInv, StreamReadFaithfully

(* The stream breaks, or what was written and read stays as it is;         *)
LEMMA BreakStep ==
  ASSUME FrameInv, FrameTypes', broken => broken',
         UNCHANGED <<sent, wire, fin, torn, arrived, need, inbox, ended>>
  PROVE  FrameInv'
<1>1. \A all : Ahead(all) => Ahead(all)'
  BY DEF Ahead, Pos, Cut, Written, EndOf, FrameEnds
<1>2. StreamReadFaithfully'
  BY DEF FrameInv, StreamReadFaithfully, FramesArriveInOrder, EndsForCause, AtFault
<1>3. (ended = "eof" => fin)'
  BY DEF FrameInv
<1> QED
  BY <1>1, <1>2, <1>3, ReadKeeps DEF FrameInv

(* and the reader gives it up.                                             *)
LEMMA ReadFailsStep ==
  ASSUME FrameInv, FrameTypes', ReadFails
  PROVE  FrameInv'
<1>1. /\ ended' = "error" /\ broken /\ UNCHANGED <<sent, wire, fin, torn, broken, inbox>>
  BY DEF ReadFails, Ends
<1>2. FramesArriveInOrder' /\ EndsForCause'
  BY <1>1 DEF FrameInv, StreamReadFaithfully, FramesArriveInOrder, EndsForCause
<1>3. (ended' = "no" \/ ended' = "eof") = FALSE
  BY <1>1
<1> QED
  BY <1>1, <1>2, <1>3, ReadKeeps DEF FrameInv, StreamReadFaithfully

(* A body is read, and means what the peer meant.                          *)
LEMMA ReadBodyStep ==
  ASSUME FrameInv, FrameTypes', ReadBody
  PROVE  FrameInv'
<1> DEFINE got == DecodeBody(SubSeq(arrived, 1, need))
<1> PICK n : n = Len(inbox)
  OBVIOUS
<1>0. /\ n \in Nat /\ Pos \in Nat /\ Cut \in Nat /\ Written \in Nat
      /\ Len(arrived) \in Nat /\ Len(wire) \in Nat /\ arrived \in Seq(Nat)
      /\ LenBytes \in Nat /\ Cut = Pos + Len(arrived) + Len(wire)
      /\ inbox \in Seq(Decoded)
  BY Places DEF FrameInv, FrameTypes, FrameTypeOK
<1>1. /\ need \in Nat /\ need # -1 /\ ended = "no" /\ Len(arrived) >= need /\ Takes(need)
      /\ need' = -1
      /\ IF got = Violation THEN ended' = "violation" /\ UNCHANGED inbox
                            ELSE inbox' = Append(inbox, got) /\ UNCHANGED ended
      /\ UNCHANGED <<sent, wire, fin, torn>>
  <2>1. need \in -1 .. MAX_FRAME_BODY /\ MAX_FRAME_BODY \in Nat
    BY Places DEF FrameInv, FrameTypes, FrameTypeOK
  <2>2. need >= 0
    BY DEF ReadBody
  <2>3. need \in Nat /\ need # -1
    BY <2>1, <2>2
  <2> QED
    BY <2>3 DEF ReadBody, Available
<1>2. PICK all : Laid(all) /\ Ahead(all)
  BY <1>1 DEF FrameInv
<1>3. /\ n < Len(sent) /\ EndOf(n + 1) = Pos + need
      /\ DecodeBody(Piece(all, Pos, Pos + need)) = sent[n + 1].means
  BY <1>1, <1>2 DEF Ahead
<1>4. got = sent[n + 1].means
  <2>1. SubSeq(arrived, 1, need) = Piece(all, Pos, Pos + need)
    BY <1>1, <1>2, NextPiece
  <2> QED
    BY <1>3, <2>1
<1> HIDE DEF got
<1>5. /\ Written' = Written /\ FrameEnds' = FrameEnds /\ (torn => fin)' /\ Laid(all)'
      /\ \A i : EndOf(i)' = EndOf(i)
      /\ \A i, j \in 0 .. Len(sent') : i <= j => EndOf(i)' <= EndOf(j)'
  BY <1>1, <1>2, ReadKeeps
<1>6. CASE got = Violation
  <2>1. ended' = "violation" /\ inbox' = inbox
    BY <1>1, <1>6
  <2>2. AtFault'
    BY <1>1, <1>3, <1>4, <1>6, <2>1 DEF AtFault
  <2>3. EndsForCause'
    BY <2>1, <2>2 DEF EndsForCause
  <2>4. FramesArriveInOrder'
    BY <1>1, <2>1 DEF FrameInv, StreamReadFaithfully, FramesArriveInOrder
  <2> QED
    BY <1>5, <2>1, <2>3, <2>4 DEF FrameInv, StreamReadFaithfully
<1>7. CASE got # Violation
  <2>1. inbox' = Append(inbox, got) /\ ended' = "no"
    BY <1>1, <1>7
  <2>2. /\ Len(inbox') = n + 1 /\ inbox'[n + 1] = got
        /\ \A i \in 1 .. n : inbox'[i] = inbox[i]
    BY <1>0, <2>1
  <2>3. EndsForCause'
    BY <2>1 DEF EndsForCause
  <2>4. FramesArriveInOrder'
    <3>1. DOMAIN inbox' = 1 .. n + 1 /\ DOMAIN inbox = 1 .. n
      BY <1>0, <2>1
    <3>2. ASSUME NEW i \in 1 .. n + 1 PROVE inbox'[i] = sent[i].means
      <4>1. CASE i \in 1 .. n
        BY <2>2, <3>1, <4>1 DEF FrameInv, StreamReadFaithfully, FramesArriveInOrder
      <4>2. CASE i = n + 1
        BY <1>4, <2>2, <4>2
      <4> QED
        BY <1>0, <4>1, <4>2
    <3>3. n + 1 <= Len(sent)
      BY <1>0, <1>3, Places
    <3> QED
      BY <1>1, <2>2, <3>1, <3>2, <3>3 DEF FramesArriveInOrder
  <2>5. Pos' = Pos + need
    <3>1. EndOf(n + 1)' = EndOf(n + 1)
      BY <1>5
    <3>2. EndOf(Len(inbox))' = EndOf(n + 1)
      BY <2>2, <3>1 DEF EndOf
    <3>3. Pos' = EndOf(Len(inbox))' + 0
      BY <1>1 DEF Pos
    <3> QED
      BY <1>0, <1>1, <1>3, <3>2, <3>3
  <2>6. /\ Len(arrived') = Len(arrived) - need
        /\ \A i \in 1 .. Len(arrived') : arrived'[i] = arrived[need + i]
    BY <1>0, <1>1, TakenRest
  <2>7. Cut' = Cut
    <3>1. Cut' = Pos + need + (Len(arrived) - need) + Len(wire)
      BY <1>1, <2>5, <2>6 DEF Cut
    <3> QED
      BY <1>0, <1>1, <3>1
  <2>8. ASSUME NEW i \in 1 .. Len(arrived') PROVE arrived'[i] = all[Pos' + i]
    <3>1. need + i \in 1 .. Len(arrived)
      BY <1>0, <1>1, <2>6
    <3>2. Pos + (need + i) = Pos' + i
      BY <1>0, <1>1, <2>5
    <3>3. arrived[need + i] = all[Pos + (need + i)]
      BY <1>2, <3>1 DEF Ahead
    <3> QED
      BY <2>6, <3>2, <3>3
  <2>9. ASSUME NEW i \in 1 .. Len(wire') PROVE wire'[i] = all[Pos' + Len(arrived') + i]
    <3>1. i \in 1 .. Len(wire) /\ Pos' + Len(arrived') + i = Pos + Len(arrived) + i
      BY <1>0, <1>1, <2>5, <2>6
    <3>2. wire[i] = all[Pos + Len(arrived) + i]
      BY <1>2, <3>1 DEF Ahead
    <3> QED
      BY <1>1, <3>1, <3>2
  <2>10. Ahead(all)'
    BY <1>1, <1>2, <1>5, <2>7, <2>8, <2>9 DEF Ahead
  <2> QED
    BY <1>5, <2>1, <2>3, <2>4, <2>10 DEF FrameInv, StreamReadFaithfully
<1> QED
  BY <1>6, <1>7

-----------------------------------------------------------------------------
(* At the start, nothing is written.                                       *)
LEMMA FrameInitInv == FrameInit => FrameInv
<1> SUFFICES ASSUME FrameInit PROVE FrameInv
  OBVIOUS
<1>0. /\ sent = <<>> /\ wire = <<>> /\ fin = FALSE /\ torn = FALSE /\ broken = FALSE
      /\ arrived = <<>> /\ need = -1 /\ inbox = <<>> /\ ended = "no"
  BY DEF FrameInit
<1>1. Len(sent) = 0 /\ Len(wire) = 0 /\ Len(arrived) = 0 /\ Len(inbox) = 0 /\ DOMAIN inbox = {}
  BY <1>0
<1>2. FrameTypes
  <2>1. \A S : <<>> \in Seq(S)
    BY EmptySeq
  <2>2. need \in -1 .. MAX_FRAME_BODY /\ Len(sent) <= MaxFrames
    BY <1>0, <1>1, ControlFrameAssumption
  <2>3. FrameTypeOK
    BY <1>0, <1>1, <2>1, <2>2 DEF FrameTypeOK
  <2> QED
    BY <1>0, <2>1, <2>3 DEF FrameTypes
<1>3. StreamReadFaithfully
  BY <1>0, <1>1 DEF StreamReadFaithfully, FramesArriveInOrder, EndsForCause
<1>4. \A i \in 0 .. Len(sent) : EndOf(i) = 0
  BY <1>1 DEF EndOf
<1>5. Written = 0 /\ Pos = 0 /\ Cut = 0
  BY <1>0, <1>1 DEF EndOf, Written, Pos, Cut
<1>6. Laid(<<>>) /\ Ahead(<<>>)
  <2>1. Laid(<<>>)
    BY <1>1, <1>5, EmptySeq DEF Laid
  <2>2. Ahead(<<>>)
    BY <1>0, <1>1, <1>5 DEF Ahead
  <2> QED
    BY <2>1, <2>2
<1>7. \A i, j \in 0 .. Len(sent) : i <= j => EndOf(i) <= EndOf(j)
  BY <1>4
<1> QED
  BY <1>0, <1>2, <1>3, <1>6, <1>7 DEF FrameInv

LEMMA FrameStep ==
  ASSUME CodecFaithful, FrameInv, [FrameNext]_frameVars
  PROVE  FrameInv'
<1>0. FrameTypes'
  BY FrameTypesStep DEF FrameInv
<1>1. CASE Peer
  <2>1. CASE Finish(0) \/ Finish(Len(wire))
    BY <1>0, <2>1, FinishStep
  <2>2. CASE \/ \E m \in WireMessages : WriteMessage(m)
             \/ \E f \in Foreign : WriteForeign(f)
             \/ WriteOverLimit
    BY <1>0, <2>2, PeerWrites
  <2> QED
    BY <1>1, <2>1, <2>2 DEF Peer
<1>2. CASE Transmit
  BY <1>0, <1>2, TransmitStep
<1>3. CASE Read
  BY <1>0, <1>3, ReadLengthStep, ReadEndStep, ReadFailsStep, ReadBodyStep DEF Read
<1>4. CASE Break \/ UNCHANGED frameVars
  <2>1. /\ UNCHANGED <<sent, wire, fin, torn, arrived, need, inbox, ended>>
        /\ broken => broken'
    BY <1>4 DEF Break, frameVars
  <2> QED
    BY <1>0, <2>1, BreakStep
<1> QED
  BY <1>1, <1>2, <1>3, <1>4 DEF FrameNext

(* The host sees the frames the peer wrote, in order and with their        *)
(* meaning, and accuses, fails or ends for cause only, however the bytes   *)
(* are cut on the way and wherever the peer finishes or the stream breaks: *)
(* for every length of the prefix, every limit and every codec that        *)
(* decodes what is written to what the peer meant (conn.rs, read_frame;    *)
(* control.rs, encode_frame and decode_frame).  The hypothesis is about    *)
(* the codec alone: with it, what could go wrong is the framing.           *)
THEOREM StreamCorrect ==
  ASSUME CodecFaithful
  PROVE  FrameSpec => []StreamReadFaithfully
<1>1. FrameInv /\ [FrameNext]_frameVars => FrameInv'
  BY FrameStep
<1>2. FrameInv => StreamReadFaithfully
  BY DEF FrameInv
<1> QED
  BY FrameInitInv, <1>1, <1>2, PTL DEF FrameSpec

-----------------------------------------------------------------------------
(* The clock filter.                                                       *)
(* The window is the last WINDOW samples of the history.                   *)
WindowIsTail ==
  /\ Len(window) = IF Len(history) > WINDOW THEN WINDOW ELSE Len(history)
  /\ \A i \in 1 .. Len(window) : window[i] = history[Len(history) - Len(window) + i]

ClockInv ==
  /\ ClockTypeOK
  /\ WindowIsTail
  /\ \A i \in 1 .. Len(history) : Within(history[i])
  /\ history # <<>> => estimate = Best(window)

-----------------------------------------------------------------------------
(* The newest of the shortest of the first n samples of w is the k-th.     *)
NewestBest(w, n, k) ==
  /\ k \in 1 .. n
  /\ \A m \in 1 .. n : /\ w[k].rtt <= w[m].rtt
                       /\ m > k => w[k].rtt < w[m].rtt

(* best is the function Best(w) scans with.                                *)
Scans(best, w) ==
  best = [n \in 1 .. Len(w) |->
            IF n = 1 THEN w[1] ELSE IF w[n].rtt <= best[n - 1].rtt THEN w[n] ELSE best[n - 1]]

LEMMA SampleAt ==
  ASSUME NEW w \in Seq(Samples), NEW n \in 1 .. Len(w)
  PROVE  w[n] \in Samples /\ w[n].rtt \in Int
<1>1. w[n] \in Samples
  BY ElementOfSeq
<1> QED
  BY <1>1 DEF Samples

(* One step of the scan.                                                   *)
LEMMA NewestBestNext ==
  ASSUME NEW w \in Seq(Samples), NEW n \in 1 .. Len(w), n # 1,
         NEW k, NewestBest(w, n - 1, k)
  PROVE  NewestBest(w, n, IF w[n].rtt <= w[k].rtt THEN n ELSE k)
<1> DEFINE R(m) == w[m].rtt
<1>1. \A m \in 1 .. n : R(m) \in Int
  BY SampleAt
<1>2. k \in 1 .. (n - 1) /\ \A m \in 1 .. (n - 1) : R(k) <= R(m) /\ (m > k => R(k) < R(m))
  BY DEF NewestBest
<1> HIDE DEF R
<1>3. CASE R(n) <= R(k)
  <2>1. n \in 1 .. n /\ \A m \in 1 .. n : R(n) <= R(m) /\ (m > n => R(n) < R(m))
    BY <1>1, <1>2, <1>3
  <2> QED
    BY <1>3, <2>1 DEF NewestBest, R
<1>4. CASE ~(R(n) <= R(k))
  <2>1. k \in 1 .. n /\ \A m \in 1 .. n : R(k) <= R(m) /\ (m > k => R(k) < R(m))
    BY <1>1, <1>2, <1>4
  <2> QED
    BY <1>4, <2>1 DEF NewestBest, R
<1> QED
  BY <1>3, <1>4

(* The first sample is the best of one.                                    *)
LEMMA NewestBestFirst ==
  ASSUME NEW w \in Seq(Samples), Len(w) >= 1
  PROVE  NewestBest(w, 1, 1)
<1>1. 1 \in 1 .. Len(w) /\ w[1].rtt \in Int
  BY SampleAt
<1> QED
  BY <1>1 DEF NewestBest

(* There is a best,                                                        *)
LEMMA NewestBestExists ==
  ASSUME NEW w \in Seq(Samples), NEW n \in 1 .. Len(w)
  PROVE  \E k : NewestBest(w, n, k)
<1> DEFINE Bad == {m \in 1 .. Len(w) : ~ \E k : NewestBest(w, m, k)}
<1> SUFFICES ASSUME Bad # {} PROVE FALSE
  OBVIOUS
<1>1. PICK m \in Bad : \A i \in Bad : m <= i
  <2>1. Bad \in SUBSET Nat
    OBVIOUS
  <2> QED
    BY <2>1, LeastExists
<1>2. m \in 1 .. Len(w) /\ m # 1
  BY <1>1, NewestBestFirst
<1>3. m - 1 \in 1 .. Len(w) /\ m - 1 \notin Bad
  BY <1>1, <1>2
<1>4. PICK k : NewestBest(w, m - 1, k)
  BY <1>3
<1>5. \E l : NewestBest(w, m, l)
  BY <1>2, <1>4, NewestBestNext
<1> QED
  BY <1>1, <1>5

(* and only one.                                                           *)
LEMMA NewestBestUnique ==
  ASSUME NEW w \in Seq(Samples), NEW n \in 1 .. Len(w), NEW k, NEW l,
         NewestBest(w, n, k), NewestBest(w, n, l)
  PROVE  k = l
<1> DEFINE R(m) == w[m].rtt
<1>1. \A m \in 1 .. n : R(m) \in Int
  BY SampleAt
<1>2. /\ k \in 1 .. n /\ \A m \in 1 .. n : R(k) <= R(m) /\ (m > k => R(k) < R(m))
      /\ l \in 1 .. n /\ \A m \in 1 .. n : R(l) <= R(m) /\ (m > l => R(l) < R(m))
  BY DEF NewestBest
<1> HIDE DEF R
<1> QED
  BY <1>1, <1>2

(* The function is there: it gives the sample NewestBest points at.        *)
LEMMA ScanExists ==
  ASSUME NEW w \in Seq(Samples)
  PROVE  \E best : Scans(best, w)
<1> DEFINE At(n) == CHOOSE k : NewestBest(w, n, k)
           f == [n \in 1 .. Len(w) |-> w[At(n)]]
<1>1. \A n \in 1 .. Len(w) : NewestBest(w, n, At(n))
  BY NewestBestExists
<1>2. ASSUME NEW n \in 1 .. Len(w)
      PROVE  w[At(n)] = IF n = 1 THEN w[1]
                        ELSE IF w[n].rtt <= f[n - 1].rtt THEN w[n] ELSE f[n - 1]
  <2>1. CASE n = 1
    <3>1. At(n) \in 1 .. n
      BY <1>1 DEF NewestBest
    <3> HIDE DEF At
    <3> QED
      BY <2>1, <3>1
  <2>2. CASE n # 1
    <3>1. n - 1 \in 1 .. Len(w) /\ f[n - 1] = w[At(n - 1)]
      BY <2>2
    <3>2. At(n) = IF w[n].rtt <= w[At(n - 1)].rtt THEN n ELSE At(n - 1)
      <4> HIDE DEF At
      <4> QED
        BY <1>1, <2>2, <3>1, NewestBestNext, NewestBestUnique
    <3> QED
      <4> HIDE DEF At, f
      <4> QED
        BY <2>2, <3>1, <3>2
  <2> QED
    BY <2>1, <2>2
<1>3. Scans(f, w)
  <2> HIDE DEF At
  <2> QED
    BY <1>2 DEF Scans
<1> QED
  BY <1>3

(* What the scan finds at every step.                                      *)
LEMMA ScanIs ==
  ASSUME NEW w \in Seq(Samples), NEW best, Scans(best, w), NEW n \in 1 .. Len(w)
  PROVE  \E k : NewestBest(w, n, k) /\ best[n] = w[k]
<1> DEFINE Bad == {m \in 1 .. Len(w) : ~ \E k : NewestBest(w, m, k) /\ best[m] = w[k]}
<1> SUFFICES ASSUME Bad # {} PROVE FALSE
  OBVIOUS
<1>1. PICK m \in Bad : \A i \in Bad : m <= i
  <2>1. Bad \in SUBSET Nat
    OBVIOUS
  <2> QED
    BY <2>1, LeastExists
<1>2. m \in 1 .. Len(w) /\ m # 1
  BY <1>1, NewestBestFirst DEF Scans
<1>3. m - 1 \in 1 .. Len(w) /\ m - 1 \notin Bad
  BY <1>1, <1>2
<1>4. PICK k : NewestBest(w, m - 1, k) /\ best[m - 1] = w[k]
  BY <1>3
<1>5. best[m] = IF w[m].rtt <= w[k].rtt THEN w[m] ELSE w[k]
  BY <1>2, <1>4 DEF Scans
<1>6. \E l : NewestBest(w, m, l) /\ best[m] = w[l]
  BY <1>2, <1>4, <1>5, NewestBestNext
<1> QED
  BY <1>1, <1>6

(* What the scan returns, for a window of any length.                      *)
LEMMA BestIs ==
  ASSUME NEW w \in Seq(Samples), w # <<>>
  PROVE  \E k \in 1 .. Len(w) : NewestBest(w, Len(w), k) /\ Best(w) = w[k]
<1> DEFINE best == CHOOSE f : Scans(f, w)
<1>1. Scans(best, w)
  BY ScanExists
<1>2. Best(w) = best[Len(w)]
  BY DEF Best, Scans
<1>3. Len(w) \in 1 .. Len(w)
  OBVIOUS
<1> HIDE DEF best
<1> QED
  BY <1>1, <1>2, <1>3, ScanIs DEF NewestBest

-----------------------------------------------------------------------------
LEMMA Halved ==
  ASSUME NEW a \in Int
  PROVE  a \div 2 \in Int /\ 2 * (a \div 2) <= a /\ a <= 2 * (a \div 2) + 1
  OBVIOUS

(* What the sample of an exchange is.                                      *)
LEMMA SampleWithin ==
  ASSUME NEW t \in Int, NEW forth \in Nat, NEW back \in Nat, theta \in Int,
         NEW s, s = Sample(t, t + forth + theta, t + forth + theta, t + forth + back)
  PROVE  s \in Samples /\ Within(s)
<1> DEFINE d == 2 * theta + forth - back
<1>1. s.rtt = forth + back /\ s.offset = d \div 2 /\ s = [rtt |-> s.rtt, offset |-> s.offset]
  <2>1. (t + forth + back - t) - ((t + forth + theta) - (t + forth + theta)) = forth + back
    OBVIOUS
  <2>2. ((t + forth + theta) - t) + ((t + forth + theta) - (t + forth + back)) = d
    OBVIOUS
  <2> HIDE DEF d
  <2> QED
    BY <2>1, <2>2 DEF Sample
<1>2. d \in Int /\ d \div 2 \in Int /\ 2 * (d \div 2) <= d /\ d <= 2 * (d \div 2) + 1
  BY Halved
<1>3. s \in Samples
  <2>1. s.rtt \in Int /\ s.offset \in Int
    <3> HIDE DEF d
    <3> QED
      BY <1>1, <1>2
  <2> QED
    BY <1>1, <2>1 DEF Samples
<1>4. 2 * (s.offset - theta) <= s.rtt /\ 2 * (theta - s.offset) <= s.rtt + 1
  BY <1>1, <1>2
<1> QED
  BY <1>3, <1>4 DEF Within

(* The window after a push: the sample comes last, the oldest one of a     *)
(* full window goes.                                                       *)
LEMMA SlideIs ==
  ASSUME NEW w \in Seq(Samples), NEW s \in Samples
  PROVE  LET v == Slide(Append(w, s))
             k == IF Len(w) + 1 > WINDOW THEN 1 ELSE 0
         IN  /\ v \in Seq(Samples) /\ Len(v) = Len(w) + 1 - k
             /\ \A i \in 1 .. Len(v) : v[i] = Append(w, s)[i + k]
<1> DEFINE a == Append(w, s)
<1>1. a \in Seq(Samples) /\ a # <<>> /\ Len(a) = Len(w) + 1
  BY AppendProperties
<1>2. Tail(a) \in Seq(Samples) /\ Len(Tail(a)) = Len(a) - 1
      /\ \A i \in 1 .. Len(Tail(a)) : Tail(a)[i] = a[i + 1]
  BY <1>1, HeadTailProperties
<1> HIDE DEF a
<1> QED
  BY <1>1, <1>2 DEF Slide, a

-----------------------------------------------------------------------------
LEMMA ClockInitInv == ClockInit => ClockInv
<1> SUFFICES ASSUME ClockInit PROVE ClockInv
  OBVIOUS
<1>1. ClockTypeOK /\ history = <<>> /\ window = <<>>
  BY ClockFilterAssumption DEF ClockInit, ClockTypeOK, NoEstimate, Samples
<1> QED
  BY <1>1, ClockFilterAssumption DEF ClockInv, WindowIsTail

LEMMA PushStep ==
  ASSUME ClockInv, NEW s \in Samples, Within(s), Push(s)
  PROVE  ClockInv'
<1>0. /\ theta \in Thetas /\ window \in Seq(Samples) /\ history \in Seq(Samples)
      /\ Len(window) <= WINDOW /\ WINDOW \in Nat \ {0} /\ theta' = theta
  BY ClockFilterAssumption DEF ClockInv, ClockTypeOK, Push
<1> DEFINE k == IF Len(window) + 1 > WINDOW THEN 1 ELSE 0
<1>1. /\ window' \in Seq(Samples) /\ Len(window') = Len(window) + 1 - k
      /\ \A i \in 1 .. Len(window') : window'[i] = Append(window, s)[i + k]
  BY <1>0, SlideIs DEF Push
<1>2. /\ history' \in Seq(Samples) /\ Len(history') = Len(history) + 1
      /\ \A i \in 1 .. Len(history) : history'[i] = history[i]
      /\ history'[Len(history) + 1] = s
  BY <1>0, AppendProperties DEF Push
<1>3. Len(window) = IF Len(history) > WINDOW THEN WINDOW ELSE Len(history)
  BY DEF ClockInv, WindowIsTail
<1>a. Len(window) \in Nat /\ Len(history) \in Nat
  BY <1>0
<1>4. Len(window') = IF Len(history') > WINDOW THEN WINDOW ELSE Len(history')
  <2>1. Len(window') = Len(window) + 1 - k /\ Len(history') = Len(history) + 1
    BY <1>1, <1>2
  <2>2. WINDOW \in Nat \ {0}
    BY <1>0
  <2>3. CASE Len(history) < WINDOW
    <3>1. Len(window) = Len(history) /\ k = 0
      BY <1>3, <1>a, <2>2, <2>3
    <3> QED
      BY <1>a, <2>1, <2>2, <2>3, <3>1
  <2>4. CASE Len(history) >= WINDOW
    <3>0. Len(window) = WINDOW
      <4> HIDE DEF k
      <4> QED
        BY <1>3, <1>a, <2>2, <2>4
    <3>1. Len(window) = WINDOW /\ k = 1
      BY <2>2, <3>0
    <3>2. Len(history') > WINDOW
      BY <1>a, <2>1, <2>2, <2>4
    <3>3. Len(window') = WINDOW
      <4> HIDE DEF k
      <4> QED
        BY <2>1, <2>2, <3>1
    <3> QED
      BY <3>2, <3>3, Zenon
  <2> QED
    BY <1>a, <2>2, <2>3, <2>4
<1>5. ASSUME NEW i \in 1 .. Len(window')
      PROVE  window'[i] = history'[Len(history') - Len(window') + i]
  <2>1. /\ i \in Int /\ Len(window) \in Nat /\ Len(history) \in Nat
        /\ Len(window) <= Len(history)
    BY <1>0, <1>1, <1>3
  <2>2. CASE i = Len(window')
    <3>1. window'[i] = s
      BY <1>0, <1>1, <2>2, AppendProperties
    <3>2. Len(history') - Len(window') + i = Len(history) + 1
      BY <1>1, <1>2, <2>1, <2>2
    <3> QED
      BY <1>2, <3>1, <3>2
  <2>3. CASE i # Len(window')
    <3>1. i + k \in 1 .. Len(window)
      BY <1>1, <2>1, <2>3
    <3>2. window'[i] = window[i + k]
      BY <1>0, <1>1, <3>1, AppendProperties
    <3>3. window[i + k] = history[Len(history) - Len(window) + (i + k)]
      BY <3>1 DEF ClockInv, WindowIsTail
    <3>4. /\ Len(history) - Len(window) + (i + k) \in 1 .. Len(history)
          /\ Len(history') - Len(window') + i = Len(history) - Len(window) + (i + k)
      <4>1. Len(window') = Len(window) + 1 - k /\ Len(history') = Len(history) + 1 /\ k \in {0, 1}
        BY <1>1, <1>2
      <4> QED
        BY <2>1, <3>1, <4>1
    <3> QED
      BY <1>2, <3>2, <3>3, <3>4
  <2> QED
    BY <2>2, <2>3
<1>6. ASSUME NEW i \in 1 .. Len(history')
      PROVE  Within(history[i])'
  <2>1. CASE i \in 1 .. Len(history)
    <3>1. Within(history[i])
      BY <2>1 DEF ClockInv
    <3> QED
      BY <1>0, <1>2, <2>1, <3>1 DEF Within
  <2>2. CASE i = Len(history) + 1
    BY <1>0, <1>2, <2>2 DEF Within
  <2> QED
    BY <1>2, <1>a, <2>1, <2>2
<1>7. estimate' = Best(window')
  BY DEF Push
<1>8. estimate' \in Samples
  <2>1. window' # <<>>
    BY <1>0, <1>1
  <2>2. PICK j \in 1 .. Len(window') : Best(window') = window'[j]
    BY <1>1, <2>1, BestIs
  <2> QED
    BY <1>1, <1>7, <2>2, ElementOfSeq
<1>9. Len(window') <= WINDOW
  BY <1>0, <1>1
<1> QED
  BY <1>0, <1>1, <1>2, <1>4, <1>5, <1>6, <1>7, <1>8, <1>9
     DEF ClockInv, ClockTypeOK, WindowIsTail

LEMMA ClockStep == ClockInv /\ [ClockNext]_clockVars => ClockInv'
<1> SUFFICES ASSUME ClockInv, [ClockNext]_clockVars PROVE ClockInv'
  OBVIOUS
<1>1. ASSUME NEW t \in Starts, NEW forth \in 0 .. MaxLeg, NEW back \in 0 .. MaxLeg,
             Exchange(t, forth, back)
      PROVE  ClockInv'
  <2>1. t \in Int /\ forth \in Nat /\ back \in Nat /\ theta \in Int
    BY ClockFilterAssumption DEF ClockInv, ClockTypeOK
  <2>2. PICK s : /\ s = Sample(t, t + forth + theta, t + forth + theta, t + forth + back)
                 /\ Push(s)
    BY <1>1 DEF Exchange
  <2> QED
    BY <2>1, <2>2, SampleWithin, PushStep
<1>2. CASE UNCHANGED clockVars
  BY <1>2 DEF clockVars, ClockInv, ClockTypeOK, WindowIsTail, Within
<1> QED
  BY <1>1, <1>2 DEF ClockNext

LEMMA ClockInvAlways == ClockSpec => []ClockInv
  BY ClockInitInv, ClockStep, PTL DEF ClockSpec

-----------------------------------------------------------------------------
(* The filter's state is well typed, and its window never holds more than  *)
(* WINDOW samples (clocksync.rs).                                          *)
THEOREM ClockTypeCorrect == ClockSpec => []ClockTypeOK
<1>1. ClockInv => ClockTypeOK
  BY DEF ClockInv
<1> QED
  BY ClockInvAlways, <1>1, PTL

(* A sample of the window and the place it has in the history.             *)
LEMMA RecentIs ==
  ASSUME ClockInv, history # <<>>
  PROVE  LET first == IF Len(history) > WINDOW THEN Len(history) - WINDOW + 1 ELSE 1
         IN  \E n \in first .. Len(history) :
               /\ estimate = history[n]
               /\ \A m \in first .. Len(history) :
                    /\ history[n].rtt <= history[m].rtt
                    /\ m > n => history[n].rtt < history[m].rtt
<1> DEFINE first == IF Len(history) > WINDOW THEN Len(history) - WINDOW + 1 ELSE 1
           gap == Len(history) - Len(window)
<1>0. /\ window \in Seq(Samples) /\ history \in Seq(Samples) /\ WINDOW \in Nat \ {0}
      /\ Len(window) = IF Len(history) > WINDOW THEN WINDOW ELSE Len(history)
      /\ \A i \in 1 .. Len(window) : window[i] = history[gap + i]
      /\ estimate = Best(window)
  BY ClockFilterAssumption DEF ClockInv, ClockTypeOK, WindowIsTail
<1>1. gap \in Nat /\ first = gap + 1 /\ window # <<>> /\ Len(window) \in Nat \ {0}
  BY <1>0
<1>2. PICK k \in 1 .. Len(window) : NewestBest(window, Len(window), k) /\ Best(window) = window[k]
  BY <1>0, <1>1, BestIs
<1>l. Len(history) \in Nat /\ gap + Len(window) = Len(history)
  BY <1>0
<1>3. gap + k \in first .. Len(history) /\ estimate = history[gap + k]
  <2>1. gap + k \in first .. Len(history)
    <3> HIDE DEF first, gap
    <3> QED
      BY <1>1, <1>l
  <2> QED
    BY <1>0, <1>2, <2>1
<1>4. ASSUME NEW m \in first .. Len(history)
      PROVE  /\ history[gap + k].rtt <= history[m].rtt
             /\ m > gap + k => history[gap + k].rtt < history[m].rtt
  <2>1. m - gap \in 1 .. Len(window) /\ gap + (m - gap) = m
    <3> HIDE DEF first, gap
    <3> QED
      BY <1>1, <1>l
  <2>2. window[m - gap] = history[m] /\ window[k] = history[gap + k]
    BY <1>0, <2>1
  <2>3. m > gap + k => m - gap > k
    BY <1>1, <2>1
  <2> QED
    BY <1>2, <2>1, <2>2, <2>3 DEF NewestBest
<1> HIDE DEF gap
<1> QED
  BY <1>3, <1>4

(* What push returns is the newest of the shortest of the last WINDOW      *)
(* samples, and its offset is wrong by at most half its round trip however *)
(* the network splits it between the legs: for every window, every offset  *)
(* of the clocks, every delay and every number of exchanges (clocksync.rs).*)
THEOREM EstimateCorrect == ClockSpec => []EstimateTrustworthy
<1>1. ClockInv => EstimateIsNewestBest
  BY RecentIs DEF EstimateIsNewestBest
<1>2. ClockInv => EstimateWithinBound
  <2> SUFFICES ASSUME ClockInv, window # <<>> PROVE Within(estimate)
    BY DEF EstimateWithinBound
  <2>1. history # <<>> /\ WINDOW \in Nat \ {0} /\ history \in Seq(Samples)
    BY ClockFilterAssumption DEF ClockInv, ClockTypeOK, WindowIsTail
  <2>2. PICK n \in 1 .. Len(history) : estimate = history[n]
    BY <2>1, RecentIs
  <2> QED
    BY <2>2 DEF ClockInv
<1> QED
  BY ClockInvAlways, <1>1, <1>2, PTL DEF EstimateTrustworthy

-----------------------------------------------------------------------------
(* The three views together.                                               *)
PartsInv == PlaneInv /\ FrameTypes /\ ClockInv

LEMMA PartsStep ==
  PartsInv /\ [PartsNext]_<<part, planeVars, frameVars, clockVars>> => PartsInv'
<1> SUFFICES ASSUME PartsInv, [PartsNext]_<<part, planeVars, frameVars, clockVars>>
             PROVE  PartsInv'
  OBVIOUS
<1>1. [PlaneNext]_planeVars /\ [FrameNext]_frameVars /\ [ClockNext]_clockVars
  BY DEF PartsNext
<1>2. PlaneInv'
  BY <1>1, PlaneStep DEF PartsInv
<1>3. FrameTypes'
  BY <1>1, FrameTypesStep DEF PartsInv
<1>4. ClockInv'
  BY <1>1, ClockStep DEF PartsInv
<1> QED
  BY <1>2, <1>3, <1>4 DEF PartsInv

(* Types of the session's queues, of the bytes and of the filter, whichever *)
(* of the three moves: what the run checks on its instance (control_plane), *)
(* for every value of the constants and any codec.                          *)
THEOREM PartsTypeCorrect == PartsSpec => []PartsTypeOK
<1>1. PartsInit => PartsInv
  BY InitInv, FrameInitInv, ClockInitInv DEF PartsInit, PartsInv, FrameInv
<1>2. PartsInv => PartsTypeOK
  BY DEF PartsInv, PlaneInv, FrameTypes, ClockInv, PartsTypeOK
<1> QED
  BY <1>1, PartsStep, <1>2, PTL DEF PartsSpec
=============================================================================
