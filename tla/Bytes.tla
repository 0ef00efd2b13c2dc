------------------------------- MODULE Bytes -------------------------------
(***************************************************************************)
(* Bytes, big-endian integers and variable-length integers                 *)
(* (common/bytes), shared by every codec.                                  *)
(*                                                                         *)
(* A buffer is a sequence of bytes.  An encoder gives the bytes it wrote,  *)
(* none when it refuses; a decoder gives a record whose n is the number of *)
(* bytes it used, 0 when it refuses.  The chain of put calls of an encoder *)
(* stops at the first one without room, so it succeeds exactly when every  *)
(* integer is in range and the whole fits the capacity.                    *)
(***************************************************************************)
EXTENDS Integers, Sequences, SequencesExt

CONSTANT VarintMax    \* QUIC_VARINT_MAX, 2^62 - 1

ASSUME VarintMaxAssumption == VarintMax \in Nat /\ VarintMax > 2^30

Nothing == <<>>
NoDec == [n |-> 0]

Drop(b, off) == SubSeq(b, off + 1, Len(b))
Slice(b, off, n) == SubSeq(b, off + 1, off + n)
Fill(n, x) == [i \in 1 .. n |-> x]
Within(cap, b) == IF Len(b) <= cap THEN b ELSE Nothing

(***************************************************************************)
(* Big-endian stores and loads of n bytes.                                 *)
(***************************************************************************)
RECURSIVE PutBe(_, _)
PutBe(v, n) == IF n = 0 THEN <<>> ELSE Append(PutBe(v \div 256, n - 1), v % 256)

\* A number above VarintMax is read as VarintMax: the model's largest integer.
GetBe(b) ==
  FoldLeft(LAMBDA v, x : IF v >= VarintMax \div 256 THEN VarintMax ELSE 256 * v + x, 0, b)

(***************************************************************************)
(* Variable-length integers: the two high bits of the first byte are the   *)
(* class of the length.                                                    *)
(***************************************************************************)
VarintLen(v) ==
  IF v < 0 \/ v > VarintMax THEN 0      \* a wrapped difference is out of range
  ELSE IF v <= 63 THEN 1
  ELSE IF v <= 16383 THEN 2
  ELSE IF v < 2^30 THEN 4 ELSE 8

VarintPrefix(n) == CASE n = 1 -> 0 [] n = 2 -> 64 [] n = 4 -> 128 [] n = 8 -> 192

VarintEncode(v) ==
  LET n == VarintLen(v)
      b == PutBe(v, n)
  IN  IF n = 0 THEN Nothing ELSE [b EXCEPT ![1] = @ + VarintPrefix(n)]

VarintDecode(b) ==
  LET need == <<1, 2, 4, 8>>[b[1] \div 64 + 1]
  IN  IF b = <<>> THEN NoDec
      ELSE IF Len(b) < need THEN NoDec
      ELSE [n |-> need, v |-> GetBe([Slice(b, 0, need) EXCEPT ![1] = @ % 64])]

(***************************************************************************)
(* A cursor at off: k integers, or the refusal of the first that is cut    *)
(* short.                                                                  *)
(***************************************************************************)
NoTake == [ok |-> FALSE]

RECURSIVE TakeVarints(_, _, _)
TakeVarints(b, off, k) ==
  IF k = 0 THEN [ok |-> TRUE, off |-> off, vs |-> <<>>]
  ELSE LET d == IF off > Len(b) THEN NoDec ELSE VarintDecode(Drop(b, off))
           r == TakeVarints(b, off + d.n, k - 1)
       IN  IF d.n = 0 THEN NoTake
           ELSE IF ~r.ok THEN NoTake ELSE [r EXCEPT !.vs = <<d.v>> \o @]

\* Integers, then raw bytes, within cap.
PutVarints(cap, vs, raw) ==
  LET b == FlattenSeq([i \in DOMAIN vs |-> VarintEncode(vs[i])]) \o raw
  IN  IF (\A i \in DOMAIN vs : VarintLen(vs[i]) # 0) /\ Len(b) <= cap THEN b ELSE Nothing

PutBytes(cap, off, src) == off + Len(src) <= cap
TakeBytes(b, off, n) == n <= Len(b) - off
=============================================================================
