------------------------------ MODULE Protect ------------------------------
(***************************************************************************)
(* Packet protection (packet/protect, packet/build, frame/pipeline) over   *)
(* the AEADs' modes of operation (crypto/symmetric/aead): nonce, sealing   *)
(* with the header as associated data, header protection, and the openers  *)
(* that undo them in the opposite order.                                   *)
(*                                                                         *)
(* The primitives are parameters: AesBlock(key, block) and                 *)
(* ChaChaBlock(key, counter, nonce) give a block (the counter in bytes), GhashMul(h, y) and       *)
(* Poly1305(key, msg) the two authenticators.  The keys of a packet are a  *)
(* record of the suite, key, iv and hp key.                                *)
(***************************************************************************)
EXTENDS Headers, Frames, Bitwise

CONSTANTS AesBlock(_, _), GhashMul(_, _), ChaChaBlock(_, _, _), Poly1305(_, _)

TagLen == 16
ChaChaBlockLen == 64
InitialPayloadCap == MinInitialDatagram
TxHeaderCap == 64 + 2 * MaxCidLen
TxPnLen == 4

\* A function in the form of a tuple, which TLC evaluates once.
Tuple(f) == SubSeq(f, 1, Len(f))

XorBytes(a, b) == Tuple([i \in DOMAIN a |-> a[i] ^^ b[i]])

NoOpen == [ok |-> FALSE]

Pn8(pn) == PutBe(pn, 8)
Widen(truncated) == Fill(8 - Len(truncated), 0) \o truncated

\* Numbers are below 2^31, so four bytes are the whole number.
FullPn(truncated, largest_pn) ==
  IF Len(truncated) = 4 THEN Widen(truncated) ELSE Pn8(PnumDecode(truncated, largest_pn))

(***************************************************************************)
(* AES-128-GCM: counter mode from J0 + 1, GHASH over the zero-padded data. *)
(***************************************************************************)
J0(nonce) == nonce \o <<0, 0, 0, 1>>

CtrBlock(nonce, i) == nonce \o PutBe(1 + i, 4)

CtrXor(key, nonce, in) ==
  LET ks == FlattenSeq([i \in 1 .. (Len(in) + 15) \div 16 |-> AesBlock(key, CtrBlock(nonce, i))])
  IN  XorBytes(in, ks)

Padded(b) == b \o Fill((16 - (Len(b) % 16)) % 16, 0)

RECURSIVE GhashBytes(_, _, _)
GhashBytes(h, y, b) ==
  LET block == Slice(Padded(b), 0, 16)
  IN  IF b = <<>> THEN y ELSE GhashBytes(h, GhashMul(h, XorBytes(y, block)), Drop(b, 16))

GcmTag(key, nonce, aad, ct) ==
  LET h == AesBlock(key, Fill(16, 0))
      lens == PutBe(8 * Len(aad), 8) \o PutBe(8 * Len(ct), 8)
      y == GhashBytes(h, GhashBytes(h, GhashBytes(h, Fill(16, 0), aad), ct), lens)
  IN  XorBytes(y, AesBlock(key, J0(nonce)))

GcmSeal(key, nonce, aad, pt) ==
  LET ct == CtrXor(key, nonce, pt) IN ct \o GcmTag(key, nonce, aad, ct)

GcmOpen(key, nonce, aad, ct, tag) ==
  IF GcmTag(key, nonce, aad, ct) # tag THEN NoOpen
  ELSE [ok |-> TRUE, payload |-> CtrXor(key, nonce, ct)]

(***************************************************************************)
(* ChaCha20-Poly1305: the key of the tag is the block of counter 0.        *)
(***************************************************************************)
ChaChaXor(key, nonce, in) ==
  LET blocks == (Len(in) + ChaChaBlockLen - 1) \div ChaChaBlockLen
      ks == FlattenSeq([i \in 1 .. blocks |-> ChaChaBlock(key, PutBe(i, 4), nonce)])
  IN  XorBytes(in, ks)

PutLe64(n) == Reverse(PutBe(n, 8))

ChaPolyTag(key, nonce, aad, ct) ==
  Poly1305(Slice(ChaChaBlock(key, PutBe(0, 4), nonce), 0, 32),
           Padded(aad) \o Padded(ct) \o PutLe64(Len(aad)) \o PutLe64(Len(ct)))

ChaPolySeal(key, nonce, aad, pt) ==
  LET ct == ChaChaXor(key, nonce, pt) IN ct \o ChaPolyTag(key, nonce, aad, ct)

ChaPolyOpen(key, nonce, aad, ct, tag) ==
  IF ChaPolyTag(key, nonce, aad, ct) # tag THEN NoOpen
  ELSE [ok |-> TRUE, payload |-> ChaChaXor(key, nonce, ct)]

(***************************************************************************)
(* The AEAD and the header-protection mask of a suite.  The packet number  *)
(* of a nonce is its eight bytes.                                          *)
(***************************************************************************)
Nonce(iv, pn) == XorBytes(iv, Fill(4, 0) \o pn)

AeadSeal(k, pn, aad, pt) ==
  CASE k.suite = "aes128gcm" -> GcmSeal(k.key, Nonce(k.iv, pn), aad, pt)
    [] k.suite = "chacha20poly1305" -> ChaPolySeal(k.key, Nonce(k.iv, pn), aad, pt)
    [] OTHER -> Nothing

AeadOpen(k, pn, aad, ct, tag) ==
  CASE k.suite = "aes128gcm" -> GcmOpen(k.key, Nonce(k.iv, pn), aad, ct, tag)
    [] k.suite = "chacha20poly1305" -> ChaPolyOpen(k.key, Nonce(k.iv, pn), aad, ct, tag)
    [] OTHER -> NoOpen

AesMask(hp, sample) == Slice(AesBlock(hp, sample), 0, 5)

\* The sample's first four bytes are the counter, little-endian.
ChaChaMask(hp, sample) ==
  Slice(ChaChaBlock(hp, Reverse(Slice(sample, 0, 4)), Drop(sample, 4)), 0, 5)

SuiteMask(k, sample) ==
  CASE k.suite = "aes128gcm" -> AesMask(k.hp, sample)
    [] k.suite = "chacha20poly1305" -> ChaChaMask(k.hp, sample)
    [] OTHER -> Nothing

FormBits(byte0) == IF IsLong(byte0) THEN 16 ELSE 32

ProtectByte0(byte0, mask0, bits) == byte0 ^^ (mask0 % bits)

ProtectPn(pkt, pn_off, pn_len, mask) ==
  Slice(pkt, 0, pn_off) \o XorBytes(Slice(pkt, pn_off, pn_len), Drop(mask, 1))
    \o Drop(pkt, pn_off + pn_len)

HpApply(pkt, pn_off, pn_len, mask, bits) ==
  [ProtectPn(pkt, pn_off, pn_len, mask) EXCEPT ![1] = ProtectByte0(@, mask[1], bits)]

SampleOffset(pn_off) == pn_off + 4
SampleOk(len, off) == off + 16 <= len
SampleAt(pkt, pn_off) == Slice(pkt, SampleOffset(pn_off), 16)

(***************************************************************************)
(* quic_protect_seal and its inverse, for a given packet-number length.    *)
(***************************************************************************)
SealInto(k, hdr, pn, payload, cap) ==
  IF Len(hdr) + Len(payload) + TagLen > cap THEN Nothing
  ELSE hdr \o GcmSeal(k.key, Nonce(k.iv, Pn8(pn)), hdr, payload)

ProtectHeader(k, pkt, pn_off, pn_len) ==
  HpApply(pkt, pn_off, pn_len, AesMask(k.hp, SampleAt(pkt, pn_off)), 16)

ProtectSeal(k, hdr, pn_len, pn, payload, cap) ==
  LET sealed == SealInto(k, hdr, pn, payload, cap)
  IN  IF sealed = <<>> THEN Nothing
      ELSE ProtectHeader(k, sealed, Len(hdr) - pn_len, pn_len)

\* Open pkt with the header in its first hdr_len bytes and the tag at its end.
OpenAt(k, pkt, hdr_len, pn) ==
  LET ct_len == Len(pkt) - hdr_len - TagLen
  IN  GcmOpen(k.key, Nonce(k.iv, pn), Slice(pkt, 0, hdr_len), Slice(pkt, hdr_len, ct_len),
              Drop(pkt, hdr_len + ct_len))

ProtectOpen(k, pkt, hdr_len, pn_len, pn) ==
  OpenAt(k, ProtectHeader(k, pkt, hdr_len - pn_len, pn_len), hdr_len, Pn8(pn))

(***************************************************************************)
(* Complete long-header packets: 4-byte numbers, opened with the truncated *)
(* number once byte 0 shows how many bytes it has.                         *)
(***************************************************************************)
TxPacket(k, p, payload, cap) ==
  LET hdr == LhdrBuild(TxHeaderCap, p @@ [version |-> 1, pn_len |-> TxPnLen,
                                          payload_len |-> Len(payload)])
  IN  IF hdr = <<>> THEN Nothing ELSE ProtectSeal(k, hdr, TxPnLen, p.pn, payload, cap)

RegionOk(len, pn_off, length) ==
  /\ SampleOk(len, SampleOffset(pn_off))
  /\ length >= 4 + TagLen
  /\ length <= len - pn_off

\* Mutant: four number bytes are unmasked whatever byte 0 says.
RemoveHp_FourBytes(pkt, pn_off, mask, bits) ==
  LET byte0 == ProtectByte0(pkt[1], mask[1], bits)
      clear == [ProtectPn(pkt, pn_off, 4, mask) EXCEPT ![1] = byte0]
  IN  [pkt |-> clear, pn_len |-> PnLenOf(byte0),
       truncated |-> Slice(clear, pn_off, PnLenOf(byte0))]

\* Byte 0 first: its low bits say how many number bytes to unmask.
RemoveHp(pkt, pn_off, mask, bits) ==
  LET byte0 == ProtectByte0(pkt[1], mask[1], bits)
      clear == [ProtectPn(pkt, pn_off, PnLenOf(byte0), mask) EXCEPT ![1] = byte0]
  IN  [pkt |-> clear, pn_len |-> PnLenOf(byte0),
       truncated |-> Slice(clear, pn_off, PnLenOf(byte0))]

VpnOpen(k, pkt, pn_off, length) ==
  LET r == RemoveHp(pkt, pn_off, AesMask(k.hp, SampleAt(pkt, pn_off)), 16)
  IN  IF ~RegionOk(Len(pkt), pn_off, length) THEN NoOpen
      ELSE OpenAt(k, Slice(r.pkt, 0, pn_off + length), pn_off + r.pn_len, Widen(r.truncated))

RxPacket(k, pkt, initial) ==
  LET h == LhdrParse(pkt, initial)
  IN  IF h.n = 0 THEN NoOpen ELSE VpnOpen(k, pkt, h.n, h.length)

HspktBuild(k, p, payload, cap) ==
  TxPacket(k, p @@ [byte0 |-> 227, initial |-> FALSE, token |-> <<>>], payload, cap)

HspktOpen(k, pkt) ==
  LET h == LhdrParse(pkt, FALSE)
  IN  IF h.n = 0 THEN NoOpen ELSE VpnOpen(k, pkt, h.n, h.length)

(***************************************************************************)
(* The client's Initial: one CRYPTO frame, PADDING up to the 1200 bytes.   *)
(***************************************************************************)
PadTarget(dcid, scid) ==
  LET overhead == 30 + Len(dcid) + Len(scid)
  IN  IF overhead < MinInitialDatagram THEN MinInitialDatagram - overhead ELSE 0

InitPayload(crypto, target) ==
  LET f == EncCrypto(InitialPayloadCap, [offset |-> 0, data |-> crypto])
      fill == IF target < InitialPayloadCap THEN target ELSE InitialPayloadCap
  IN  IF crypto = <<>> \/ f = <<>> THEN Nothing
      ELSE f \o Fill(IF Len(f) < fill THEN fill - Len(f) ELSE 0, 0)

InitpktBuild(k, p, crypto, cap) ==
  LET payload == InitPayload(crypto, PadTarget(p.dcid, p.scid))
  IN  IF payload = <<>> THEN Nothing
      ELSE TxPacket(k, p @@ [byte0 |-> 195, initial |-> TRUE, token |-> <<>>], payload, cap)

InitpktOpen(k, pkt) == RxPacket(k, pkt, TRUE)

(***************************************************************************)
(* 1-RTT packets: the full number is recovered from the largest received.  *)
(***************************************************************************)
OnerttBuild(k, dcid, pn, payload, cap) ==
  LET hdr == <<67>> \o dcid \o PutBe(pn, 4)
      sealed == hdr \o GcmSeal(k.key, Nonce(k.iv, Pn8(pn)), hdr, payload)
  IN  IF Len(hdr) + Len(payload) + TagLen > cap THEN Nothing
      ELSE HpApply(sealed, 1 + Len(dcid), 4,
                   AesMask(k.hp, SampleAt(sealed, 1 + Len(dcid))), 32)

Unprotect(k, pkt, hdr_len, pn_off, bits, largest_pn) ==
  LET r == RemoveHp(pkt, pn_off, AesMask(k.hp, SampleAt(pkt, pn_off)), bits)
      end == pn_off + r.pn_len
  IN  IF Len(pkt) <= hdr_len + TagLen THEN NoOpen
      ELSE IF Len(pkt) <= end + TagLen THEN NoOpen
      ELSE OpenAt(k, r.pkt, end, FullPn(r.truncated, largest_pn))

OnerttOpen(k, pkt, dcid_len, largest_pn) ==
  Unprotect(k, pkt, 5 + dcid_len, 1 + dcid_len, 32, largest_pn)

(***************************************************************************)
(* Suite-aware protection: in place, either header form.                   *)
(***************************************************************************)
ProtectcsSeal(k, hdr, pn_len, pn, payload) ==
  LET sealed == hdr \o AeadSeal(k, Pn8(pn), hdr, payload)
      pn_off == Len(hdr) - pn_len
      mask == SuiteMask(k, SampleAt(sealed, pn_off))
  IN  IF sealed = hdr \/ mask = <<>> THEN Nothing
      ELSE HpApply(sealed, pn_off, pn_len, mask, FormBits(hdr[1]))

ProtectcsOpen(k, pkt, pn_off) ==
  LET mask == SuiteMask(k, SampleAt(pkt, pn_off))
      r == RemoveHp(pkt, pn_off, mask, FormBits(pkt[1]))
      hdr_len == pn_off + r.pn_len
      ct_len == Len(pkt) - hdr_len - TagLen
  IN  IF mask = <<>> THEN NoOpen
      ELSE AeadOpen(k, Widen(r.truncated), Slice(r.pkt, 0, hdr_len),
                    Slice(r.pkt, hdr_len, ct_len), Drop(r.pkt, hdr_len + ct_len))

(***************************************************************************)
(* Packing frames into a payload, and padding a datagram.                  *)
(***************************************************************************)
Framepack(cap, frames) ==
  LET b == FlattenSeq(frames) IN IF Len(b) <= cap THEN b ELSE Nothing

IsEliciting(types) == \E i \in DOMAIN types : types[i] \notin {0, 2, 3, 28, 29}

InitPad(dgram, cap) ==
  LET need == PadNeeded(Len(dgram))
  IN  IF need = 0 \/ Len(dgram) + need > cap THEN dgram ELSE dgram \o Fill(need, 0)

\* A CRYPTO stream as frames of at most max_frame bytes each.
CryptoFrames(bytes, base, max_frame) ==
  [i \in 1 .. (Len(bytes) + max_frame - 1) \div max_frame |->
     LET from == (i - 1) * max_frame
         len == IF Len(bytes) - from < max_frame THEN Len(bytes) - from ELSE max_frame
     IN  [kind |-> "crypto", offset |-> base + from, data |-> Slice(bytes, from, len)]]

CryptoEmit(bytes, base, max_frame, cap) ==
  IF max_frame = 0 THEN Nothing
  ELSE LET fs == CryptoFrames(bytes, base, max_frame)
       IN  Framepack(cap, [i \in DOMAIN fs |-> EncCrypto(cap, fs[i])])
=============================================================================
