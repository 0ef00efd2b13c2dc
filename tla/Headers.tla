------------------------------ MODULE Headers ------------------------------
(***************************************************************************)
(* Packet headers (packet/header): the long and the short header, Retry,   *)
(* Version Negotiation, coalesced datagrams and packet-number lengths.     *)
(***************************************************************************)
EXTENDS Bytes

CONSTANT MinInitialDatagram   \* QUIC_MIN_INITIAL_DATAGRAM, 1200

ASSUME MinInitialAssumption == MinInitialDatagram \in Nat

MaxCidLen == 20
RetryTagLen == 16

IsLong(byte0) == byte0 >= 128
LongType(byte0) == (byte0 \div 16) % 4
PacketLongType(byte0) == IF IsLong(byte0) THEN LongType(byte0) ELSE -1
PnLenOf(byte0) == (byte0 % 4) + 1
ResbitsOk(byte0, is_long) ==
  IF is_long THEN (byte0 \div 4) % 4 = 0 ELSE (byte0 \div 8) % 4 = 0
PadNeeded(len) == IF len >= MinInitialDatagram THEN 0 ELSE MinInitialDatagram - len

(***************************************************************************)
(* Length-prefixed connection ids.                                         *)
(***************************************************************************)
PutCid(cid) == <<Len(cid)>> \o cid

NoCid == [ok |-> FALSE]

ReadCid(b, off) ==
  LET len == b[off + 1]
  IN  IF off >= Len(b) THEN NoCid
      ELSE IF len > MaxCidLen \/ off + 1 + len > Len(b) THEN NoCid
      ELSE [ok |-> TRUE, off |-> off + 1 + len, cid |-> Slice(b, off + 1, len)]

\* Both ids after byte 0 and the version.
ReadCids(b) ==
  LET d == ReadCid(b, 5)
      s == ReadCid(b, d.off)
  IN  IF ~d.ok THEN NoCid
      ELSE IF ~s.ok THEN NoCid
      ELSE [ok |-> TRUE, off |-> s.off, dcid |-> d.cid, scid |-> s.cid]

(***************************************************************************)
(* The version-independent header.  write_cids goes on after an id without *)
(* room, from offset 0.                                                    *)
(***************************************************************************)
WriteCid(cap, w, cid) ==
  IF Len(w) + 1 + Len(cid) > cap THEN <<>> ELSE w \o PutCid(cid)

BuildLong(cap, h) ==
  IF cap < 5 THEN Nothing
  ELSE WriteCid(cap,
         WriteCid(cap, <<192 + 16 * h.type>> \o PutBe(h.version, 4), h.dcid), h.scid)

ParseLong(b) ==
  LET c == ReadCids(b)
  IN  IF ~c.ok THEN NoDec
      ELSE [n |-> c.off, form |-> "long", type |-> LongType(b[1]),
            version |-> GetBe(Slice(b, 1, 4)), dcid |-> c.dcid, scid |-> c.scid]

ParseShort(b, dcid_len) ==
  IF dcid_len > MaxCidLen \/ 1 + dcid_len > Len(b) THEN NoDec
  ELSE [n |-> 1 + dcid_len, form |-> "short", dcid |-> Slice(b, 1, dcid_len), scid |-> <<>>]

HeaderParse(b, dcid_len) ==
  IF b = <<>> THEN NoDec
  ELSE IF IsLong(b[1]) THEN ParseLong(b) ELSE ParseShort(b, dcid_len)

(***************************************************************************)
(* Initial and Handshake headers: token (Initial only), Length, number.    *)
(* The Length counts the packet number, the payload and the AEAD tag.      *)
(***************************************************************************)
Byte0PnLen(byte0, pn_len) == byte0 - (byte0 % 4) + ((pn_len - 1) % 4)

LhdrPrefix(cap, p) ==
  LET w == BuildLong(cap, [type |-> 0, version |-> p.version, dcid |-> p.dcid, scid |-> p.scid])
  IN  IF Len(p.dcid) > MaxCidLen \/ Len(p.scid) > MaxCidLen THEN Nothing
      ELSE IF Len(w) # 7 + Len(p.dcid) + Len(p.scid) THEN Nothing
      ELSE [w EXCEPT ![1] = Byte0PnLen(p.byte0, p.pn_len)]

InitTokenPut(token) == VarintEncode(Len(token)) \o token

LhdrToken(p) == IF p.initial THEN InitTokenPut(p.token) ELSE <<>>

LhdrLength(p) == p.pn_len + p.payload_len + 16

LhdrBody(p) ==
  LhdrToken(p) \o VarintEncode(LhdrLength(p)) \o PutBe(p.pn, p.pn_len)

LhdrBuild(cap, p) ==
  LET w == LhdrPrefix(cap, p)
      b == w \o LhdrBody(p)
  IN  IF w = <<>> \/ Len(b) > cap THEN Nothing ELSE b

InitTokenGet(b, off) ==
  LET t == TakeVarints(b, off, 1)
      len == t.vs[1]
  IN  IF ~t.ok THEN NoCid
      ELSE IF len > Len(b) - t.off THEN NoCid
      ELSE [ok |-> TRUE, off |-> t.off + len, token |-> Slice(b, t.off, len)]

LhdrReadToken(b, initial, off) ==
  IF initial THEN InitTokenGet(b, off) ELSE [ok |-> TRUE, off |-> off, token |-> <<>>]

\* n is the offset of the packet number.
LhdrParse(b, initial) ==
  LET c == ReadCids(b)
      t == LhdrReadToken(b, initial, c.off)
      l == TakeVarints(b, t.off, 1)
  IN  IF b = <<>> THEN NoDec
      ELSE IF ~IsLong(b[1]) \/ ~c.ok THEN NoDec
      ELSE IF ~t.ok THEN NoDec
      ELSE IF ~l.ok THEN NoDec
      ELSE [n |-> l.off, dcid |-> c.dcid, scid |-> c.scid, token |-> t.token,
            length |-> l.vs[1]]

(***************************************************************************)
(* Short headers (short.c and shorthdr.c write the same bytes).            *)
(***************************************************************************)
ShortByte0(spin, key_phase, pn_len) == 64 + 32 * spin + 4 * key_phase + pn_len - 1

ShortOk(cap, dcid, pn_len) == pn_len \in 1 .. 4 /\ 1 + Len(dcid) + pn_len <= cap

ShortBuild(cap, p) ==
  IF ~ShortOk(cap, p.dcid, p.pn_len) THEN Nothing
  ELSE <<ShortByte0(p.spin, p.key_phase, p.pn_len)>> \o p.dcid
         \o PutBe(p.pn, p.pn_len)

ShorthdrByte0(spin, key_phase, pn_len) == ShortByte0(spin, key_phase, pn_len)

ShorthdrBuild(cap, p) ==
  IF ~ShortOk(cap, p.dcid, p.pn_len) THEN Nothing
  ELSE <<ShorthdrByte0(p.spin, p.key_phase, p.pn_len)>> \o p.dcid
         \o PutBe(p.pn, p.pn_len)

(***************************************************************************)
(* Retry: the token runs up to the 16-byte tag at the end.                 *)
(***************************************************************************)
RetryBuild(cap, r) ==
  LET b == <<240>> \o PutBe(r.version, 4) \o PutCid(r.dcid) \o PutCid(r.scid)
             \o r.token \o r.tag
  IN  IF Len(b) > cap THEN Nothing ELSE b

RetryParse(b) ==
  LET c == ReadCids(b)
      tag == Len(b) - RetryTagLen
  IN  IF Len(b) < 7 + RetryTagLen THEN NoDec
      ELSE IF b[1] < 240 \/ ~c.ok THEN NoDec
      ELSE IF c.off > tag THEN NoDec
      ELSE [n |-> Len(b), version |-> GetBe(Slice(b, 1, 4)), dcid |-> c.dcid,
            scid |-> c.scid, token |-> Slice(b, c.off, tag - c.off), tag |-> Drop(b, tag)]

(***************************************************************************)
(* Version Negotiation: version 0, then one or more whole versions.  The   *)
(* response swaps the ids of the packet it answers.                        *)
(***************************************************************************)
VnegBuild(cap, v) ==
  LET b == <<128>> \o PutBe(0, 4) \o PutCid(v.dcid) \o PutCid(v.scid)
             \o FlattenSeq([i \in DOMAIN v.versions |-> PutBe(v.versions[i], 4)])
  IN  IF v.versions = <<>> \/ Len(b) > cap THEN Nothing ELSE b

VnegParse(b) ==
  LET c == ReadCids(b)
      rest == Len(b) - c.off
  IN  IF Len(b) < 7 THEN NoDec
      ELSE IF ~IsLong(b[1]) \/ GetBe(Slice(b, 1, 4)) # 0 \/ ~c.ok THEN NoDec
      ELSE IF rest = 0 \/ rest % 4 # 0 THEN NoDec
      ELSE [n |-> Len(b), dcid |-> c.dcid, scid |-> c.scid,
            versions |-> [i \in 1 .. rest \div 4 |-> GetBe(Slice(b, c.off + 4 * (i - 1), 4))]]

VnegRespond(cap, recv, versions) ==
  VnegBuild(cap, [dcid |-> recv.scid, scid |-> recv.dcid, versions |-> versions])

(***************************************************************************)
(* Coalesced packets.  A long packet ends where its Length says, a short   *)
(* one at the end of the datagram; the iterator does not bound the ids by  *)
(* MaxCidLen.                                                              *)
(***************************************************************************)
SkipCid(b, p) == IF p >= Len(b) THEN Len(b) + 1 ELSE p + 1 + b[p + 1]

SkipToken(b, p) ==
  LET t == TakeVarints(b, p, 1)
  IN  IF ~t.ok THEN Len(b) + 1
      ELSE IF t.vs[1] > Len(b) - t.off THEN Len(b) + 1 ELSE t.off + t.vs[1]

\* Mutant: an Initial's token is not skipped.
SkipToLength_NoToken(b) == SkipCid(b, SkipCid(b, 5))

SkipToLength(b) ==
  LET p == SkipCid(b, SkipCid(b, 5))
  IN  IF p > Len(b) \/ LongType(b[1]) # 0 THEN p ELSE SkipToken(b, p)

LongPacketLen(b) ==
  LET p == SkipToLength(b)
      t == TakeVarints(b, p, 1)
  IN  IF p > Len(b) THEN 0
      ELSE IF ~t.ok THEN 0
      ELSE IF t.vs[1] > Len(b) - t.off THEN 0 ELSE t.off + t.vs[1]

CoalesceNext(b) == IF IsLong(b[1]) THEN LongPacketLen(b) ELSE Len(b)

RECURSIVE Coalesced(_)
Coalesced(dgram) ==
  LET len == CoalesceNext(dgram)
  IN  IF dgram = <<>> THEN <<>>
      ELSE IF len = 0 THEN <<>>
      ELSE <<Slice(dgram, 0, len)>> \o Coalesced(Drop(dgram, len))

ShortMustBeLast(byte0, is_last) == IsLong(byte0) \/ is_last

(***************************************************************************)
(* How many bytes a packet number needs (two implementations), and the     *)
(* number recovered from its low bytes.                                    *)
(***************************************************************************)
Fewest(P(_)) == IF P(1) THEN 1 ELSE IF P(2) THEN 2 ELSE IF P(3) THEN 3 ELSE 4

PnlenNeeded(pn, largest_acked) ==
  Fewest(LAMBDA b : (pn - largest_acked) \div 2^(8 * b - 1) = 0)

PnumLen(pn, largest_acked) ==
  Fewest(LAMBDA b : 2 * (pn - largest_acked) < 2^(8 * b))

PnumEncode(pn, nbytes) == PutBe(pn, nbytes)

PnumDecode(b, largest_pn) ==
  LET win == 256^Len(b)
      expected == largest_pn + 1
      candidate == expected - (expected % win) + GetBe(b)
  IN  IF candidate + win \div 2 <= expected THEN candidate + win
      ELSE IF candidate > expected + win \div 2 /\ candidate >= win THEN candidate - win
      ELSE candidate
=============================================================================
