------------------------------ MODULE CborValue ------------------------------
(***************************************************************************)
(* The values of the control protocol's CBOR, and numbers in digits, as    *)
(* both the items and the frames around them write them.  A digit is a     *)
(* byte, of base Radix: 256 in the code.                                   *)
(***************************************************************************)
EXTENDS Integers, Sequences

CONSTANT Radix

ASSUME RadixAssumption == Radix \in Nat /\ Radix > 1

Int_(n) == [int |-> n]
Text(n) == [text |-> n]          \* a text of n letters
Array(items) == [array |-> items]
Map(pairs) == [map |-> pairs]
Null == [null |-> TRUE]

is(v, kind) == kind \in DOMAIN v

\* n without its last k digits; its last k digits; the number that digits make.
Shifted(n, k) ==
  LET shifted[j \in 0 .. k] == IF j = 0 THEN n ELSE shifted[j - 1] \div Radix
  IN shifted[k]

Digits(n, k) == [i \in 1 .. k |-> Shifted(n, k - i) % Radix]

Number(ds) ==
  LET value[i \in 0 .. Len(ds)] == IF i = 0 THEN 0 ELSE Radix * value[i - 1] + ds[i]
  IN value[Len(ds)]
=============================================================================
