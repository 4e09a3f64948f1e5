-------------------------------- MODULE Cbor --------------------------------
(***************************************************************************)
(* The CBOR values of the control protocol (loom-proto/src/cbor.rs): the   *)
(* canonical encoder, and the permissive decoder, which is ciborium lowered *)
(* into Value.                                                             *)
(*                                                                         *)
(* Bytes are numbers.  A head byte is the major type and a low part that   *)
(* is the argument itself below Inline, or says that it follows in 1, 2, 4 *)
(* or 8 digits of base Radix.  Both are small here; 24 and 256 in CBOR.    *)
(* Byte strings, floats and booleans are left out: no property tells a     *)
(* leaf from another by more than its kind and length.                     *)
(***************************************************************************)
EXTENDS CborValue, SequencesExt

CONSTANT Inline

ASSUME InlineAssumption == Inline \in Nat \ {0} /\ Inline <= Radix

HeadByte(major, low) == major * (Inline + 4) + low

-----------------------------------------------------------------------------
\* Shortest form: the smallest width that holds the argument.
EncodeHead(major, arg) ==
  IF arg < Inline
  THEN <<HeadByte(major, arg)>>
  ELSE LET c == CHOOSE c \in 0 .. 3 : /\ arg < Radix^(2^c)
                                      /\ \A d \in 0 .. c - 1 : arg >= Radix^(2^d)
       IN  <<HeadByte(major, Inline + c)>> \o Digits(arg, 2^c)

\* Faulty: a negative is written with its magnitude.
EncodeIntMagnitude(i) == IF i >= 0 THEN EncodeHead(0, i) ELSE EncodeHead(1, -i)

EncodeInt(i) == IF i >= 0 THEN EncodeHead(0, i) ELSE EncodeHead(1, -1 - i)

BytesLess(a, b) ==
  \E n \in 1 .. Len(b) :
    /\ n <= Len(a) + 1
    /\ \A m \in 1 .. n - 1 : a[m] = b[m]
    /\ n = Len(a) + 1 \/ a[n] < b[n]

\* The entries of a map, as pairs of bytes, by the bytes of their keys.
Sorted(items) == SortSeq(items, LAMBDA a, b : BytesLess(a[1], b[1]))

RECURSIVE Encode(_)
Encode(v) ==
  CASE is(v, "int")   -> EncodeInt(v.int)
    [] is(v, "text")  -> EncodeHead(3, v.text) \o [i \in 1 .. v.text |-> 0]
    [] is(v, "array") -> EncodeHead(4, Len(v.array))
                           \o FlattenSeq([i \in DOMAIN v.array |-> Encode(v.array[i])])
    [] is(v, "map")   -> EncodeHead(5, Len(v.map))
                           \o FlattenSeq([i \in DOMAIN v.map |->
                                LET sorted == Sorted([j \in DOMAIN v.map |->
                                      <<Encode(v.map[j][1]), Encode(v.map[j][2])>>])
                                IN  sorted[i][1] \o sorted[i][2]])
    [] is(v, "null")  -> <<HeadByte(7, 0)>>

-----------------------------------------------------------------------------
(* Decoding: the items that start at position i, which are one or, when    *)
(* the bytes are malformed, none.  What follows an item is not looked at.  *)

Parsed(v, next) == [v |-> v, next |-> next]

\* The argument of the head at i, in any of its forms, and where it ends.
ParseHead(b, i) ==
  { Parsed(IF w = 0 THEN b[i] % (Inline + 4) ELSE Number(SubSeq(b, i + 1, i + w)), i + w + 1) :
      w \in {x \in {0, 1, 2, 4, 8} :
               /\ i <= Len(b) /\ i + x <= Len(b)
               /\ LET low == b[i] % (Inline + 4)
                  IN x = IF low < Inline THEN 0 ELSE 2^(low - Inline)} }

RECURSIVE ParseItem(_, _), ParseItems(_, _, _)
ParseItems(b, i, n) ==
  IF n = 0 THEN {Parsed(<<>>, i)}
  ELSE UNION { {Parsed(<<first.v>> \o rest.v, rest.next) : rest \in ParseItems(b, first.next, n - 1)}
               : first \in ParseItem(b, i) }

\* An item of major type `major` whose head has ended before position i.
ParseTail(b, major, arg, i) ==
  CASE major = 0 -> {Parsed(Int_(arg), i)}
    [] major = 1 -> {Parsed(Int_(-1 - arg), i)}
    [] major = 3 -> {Parsed(Text(arg), next) : next \in {i + arg} \cap (1 .. Len(b) + 1)}
    [] major = 4 -> {Parsed(Array(it.v), it.next) : it \in ParseItems(b, i, arg)}
    [] major = 5 -> {Parsed(Map([n \in 1 .. arg |-> <<it.v[2 * n - 1], it.v[2 * n]>>]), it.next)
                       : it \in ParseItems(b, i, 2 * arg)}
    [] major = 6 -> ParseItem(b, i)             \* a tag is unwrapped
    [] major = 7 -> {Parsed(Null, i)}
    [] OTHER -> {}

ParseItem(b, i) ==
  UNION {ParseTail(b, b[i] \div (Inline + 4), head.v, head.next) : head \in ParseHead(b, i)}

Decode(b) == {item.v : item \in ParseItem(b, 1)}
=============================================================================
