------------------------------ MODULE QpackDyn ------------------------------
(***************************************************************************)
(* The QPACK dynamic table and the indices that refer to it                *)
(* (app/qpack/qpack, app/qpack/qpackdyn).                                  *)
(***************************************************************************)
EXTENDS Integers, Sequences, FiniteSetsExt

CONSTANTS
  Fields,     \* records [name, value, nlen, vlen]: nlen and vlen are the lengths
  RingSlots,      \* slots of the ring (QUIC_QPACK_DYN_MAX_ENTRIES)
  MaxName,    \* the inline bounds on a field (QUIC_QPACK_DYN_MAX_NAME, _VALUE)
  MaxValue,
  Capacity    \* of the table, in bytes

Overhead == 32
MaxEntries == Capacity \div Overhead

EntrySize(f) == f.nlen + f.vlen + Overhead

\* What an unused slot holds.
NoField == [name |-> "none", value |-> 0, nlen |-> 0, vlen |-> 0]
ASSUME NoFieldIsNone == NoField \notin Fields

Table ==
  [ring : [0 .. RingSlots - 1 -> Fields \cup {NoField}],
   head : 0 .. RingSlots - 1, count : 0 .. RingSlots, dropped : Nat, size : Nat]

DynInit ==
  [ring |-> [i \in 0 .. RingSlots - 1 |-> NoField],
   head |-> 0, count |-> 0, dropped |-> 0, size |-> 0]

Inserts(t) == t.dropped + t.count

-----------------------------------------------------------------------------
(***************************************************************************)
(* Inserting.                                                              *)
(***************************************************************************)
EvictOldest(t) ==
  [t EXCEPT !.size = @ - EntrySize(t.ring[t.head]),
            !.head = (@ + 1) % RingSlots,
            !.count = @ - 1,
            !.dropped = @ + 1]

OverCapacity(t, need) == t.size + need > Capacity

\* Evicted[n] is the table after n evictions; as many are made as are needed,
\* or as there are entries.
MakeRoom(t, need) ==
  LET Evicted[n \in 0 .. t.count] ==
        IF n = 0 THEN t ELSE EvictOldest(Evicted[n - 1])
      enough == {n \in 0 .. t.count : n = t.count \/ ~OverCapacity(Evicted[n], need)}
  IN  Evicted[Min(enough)]

FitsFields(f) == f.nlen <= MaxName /\ f.vlen <= MaxValue

CanInsert(t, f) ==
  /\ FitsFields(f)
  /\ EntrySize(f) <= Capacity
  /\ t.count < RingSlots

StoreEntry(t, f) ==
  [t EXCEPT !.ring[(t.head + t.count) % RingSlots] = f,
            !.size = @ + EntrySize(f),
            !.count = @ + 1]

DynInsert(t, f) ==
  IF CanInsert(t, f) THEN StoreEntry(MakeRoom(t, EntrySize(f)), f) ELSE t

-----------------------------------------------------------------------------
(***************************************************************************)
(* Looking up.                                                             *)
(***************************************************************************)
IsLive(t, abs) == abs >= t.dropped /\ abs < t.dropped + t.count

EntryAt(t, off) == t.ring[(t.head + off) % RingSlots]

DynGet(t, abs) == IF IsLive(t, abs) THEN EntryAt(t, abs - t.dropped) ELSE NoField

\* The oldest entry equal to the field, or else the oldest with its name.
DynFind(t, f) ==
  LET full == {o \in 0 .. t.count - 1 : EntryAt(t, o) = f}
      named == {o \in 0 .. t.count - 1 : EntryAt(t, o).name = f.name}
  IN  IF full # {} THEN [found |-> TRUE, full |-> TRUE, abs |-> t.dropped + Min(full)]
      ELSE IF named # {} THEN [found |-> TRUE, full |-> FALSE, abs |-> t.dropped + Min(named)]
      ELSE [found |-> FALSE, full |-> FALSE, abs |-> 0]

-----------------------------------------------------------------------------
(***************************************************************************)
(* Indices on the wire.  u64 differences below zero wrap to numbers no     *)
(* entry has; here they stay below zero, where no entry is either.         *)
(***************************************************************************)
RicEncode(ric) == IF ric = 0 THEN 0 ELSE (ric % (2 * MaxEntries)) + 1

RicCandidate(encoded, full_range, max_value) ==
  (max_value \div full_range) * full_range + encoded - 1

NoRic == -1

\* One full range is taken off a candidate that is too large.
RicCorrect_Never(ric, max_value, full_range) ==
  IF ric <= max_value THEN ric ELSE NoRic
RicCorrect(ric, max_value, full_range) ==
  IF ric <= max_value THEN ric
  ELSE IF ric <= full_range THEN NoRic
  ELSE ric - full_range

RicResolve(encoded, full_range, max_value) ==
  LET ric == RicCorrect(RicCandidate(encoded, full_range, max_value), max_value, full_range)
  IN  IF encoded > full_range \/ ric = 0 THEN NoRic ELSE ric

RicDecode(encoded, total_inserts) ==
  IF encoded = 0 THEN 0
  ELSE RicResolve(encoded, 2 * MaxEntries, total_inserts + MaxEntries)

QpackBase(ric, sign, delta_base) ==
  IF sign = 0 THEN ric + delta_base ELSE ric - delta_base - 1

RelToAbs(base, rel) == base - rel - 1

\* A field section with one reference into the table, as it is sent.
EncodeSection(abs, base) ==
  [ric |-> RicEncode(abs + 1), sign |-> 0, delta |-> base - (abs + 1), rel |-> base - abs - 1]

\* The field a section refers to in table t, NoField if there is none.
DecodeField(t, sec) ==
  LET ric == RicDecode(sec.ric, Inserts(t))
  IN  IF ric = NoRic THEN NoField
      ELSE DynGet(t, RelToAbs(QpackBase(ric, sec.sign, sec.delta), sec.rel))

(***************************************************************************)
(* A QPACK encoder and decoder with a table each.  Insertions travel in    *)
(* order on the encoder stream; field sections travel on streams of their  *)
(* own and arrive in any order, before or after the insertions they need.  *)
(* The decoder acknowledges the sections it decodes.                       *)
(*                                                                         *)
(* As RFC 9204 2.1.1 asks of the encoder's owner, an insertion evicts no   *)
(* entry that is referenced by an unacknowledged section or that the       *)
(* decoder may not have received.                                          *)
(***************************************************************************)

CONSTANTS
  MaxInserts,    \* insertions the encoder makes
  MaxSections    \* sections under way at once

VARIABLES enc, dec, stream, sections, known
qpackVars == <<enc, dec, stream, sections, known>>

QpackInit ==
  /\ enc = DynInit /\ dec = DynInit
  /\ stream = <<>>      \* insertions under way
  /\ sections = {}      \* [sec, abs, field]: what was sent, what was meant
  /\ known = 0          \* insertions the encoder knows were received

MayEvict(t) ==
  t.dropped <= known /\ \A x \in sections : x.abs >= t.dropped

Insert(f) ==
  LET t == DynInsert(enc, f)
  IN  /\ Inserts(enc) < MaxInserts
      /\ CanInsert(enc, f) /\ MayEvict(t)
      /\ enc' = t
      /\ stream' = Append(stream, f)
      /\ UNCHANGED <<dec, sections, known>>

RecvInsert ==
  /\ stream # <<>>
  /\ dec' = DynInsert(dec, Head(stream))
  /\ stream' = Tail(stream)
  /\ UNCHANGED <<enc, sections, known>>

\* The base is the number of insertions made, or just enough for the entry.
SendSection(f) ==
  LET hit == DynFind(enc, f)
  IN  /\ hit.full /\ Cardinality(sections) < MaxSections
      /\ \E base \in {hit.abs + 1, Inserts(enc)} :
           sections' = sections \cup
             {[sec |-> EncodeSection(hit.abs, base), abs |-> hit.abs, field |-> f]}
      /\ UNCHANGED <<enc, dec, stream, known>>

\* A section that needs insertions not yet received is kept; one that decodes
\* is acknowledged, which also tells of the insertions it needed.
RecvSection(x) ==
  LET ric == RicDecode(x.sec.ric, Inserts(dec))
  IN  /\ ric <= Inserts(dec)
      /\ sections' = sections \ {x}
      /\ known' = IF ric > known THEN ric ELSE known
      /\ UNCHANGED <<enc, dec, stream>>

QpackNext ==
  \/ \E f \in Fields : Insert(f) \/ SendSection(f)
  \/ RecvInsert
  \/ \E x \in sections : RecvSection(x)

QpackSpec == QpackInit /\ [][QpackNext]_qpackVars

-----------------------------------------------------------------------------
\* Types of both tables.
TablesTypeOK == enc \in Table /\ dec \in Table

\* A table's size is the sum of the sizes of its live entries and never above
\* its capacity, over any insertions, evictions and turns of the ring
\* (dyntable.c:18-79).
SizeAccounts ==
  \A t \in {enc, dec} :
    /\ t.size = MapThenSumSet(LAMBDA o : EntrySize(EntryAt(t, o)), 0 .. t.count - 1)
    /\ t.size <= Capacity

\* The decoder accepts every insertion the encoder made: with what is under
\* way applied it has the encoder's table, and the same absolute indices name
\* the same fields meanwhile (dyntable.c:41-79, dynget.c:5-25).
DecoderFollows ==
  /\ Inserts(dec) + Len(stream) = Inserts(enc)
  /\ \A abs \in 0 .. MaxInserts :
       IsLive(enc, abs) /\ IsLive(dec, abs) => DynGet(enc, abs) = DynGet(dec, abs)

\* Whatever the two sides have inserted by then, a section's Required Insert
\* Count is recovered exactly, and once the decoder has that many insertions
\* the section decodes to the field that was meant (insertcount.c, relindex.c,
\* field_decode.c:26-59).
SectionsExact ==
  \A x \in sections :
    /\ RicDecode(x.sec.ric, Inserts(dec)) = x.abs + 1
    /\ Inserts(dec) > x.abs => DecodeField(dec, x.sec) = x.field

\* The two tables and the sections that refer to them.
TablesAgree == TablesTypeOK /\ SizeAccounts /\ DecoderFollows /\ SectionsExact
=============================================================================
