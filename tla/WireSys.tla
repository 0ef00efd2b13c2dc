------------------------------ MODULE WireSys ------------------------------
(***************************************************************************)
(* The wire formats of the transport, exercised one case at a time: a      *)
(* frame to encode, a payload of frames to walk, a header, a datagram of   *)
(* coalesced packets, a packet number to truncate, a packet to protect,    *)
(* a buffer received.  A behaviour takes a case, and then another.         *)
(***************************************************************************)
EXTENDS Protect

CONSTANTS FrameCases, PayloadCases, HeaderCases, DatagramCases, NumberCases, PacketCases,
          RawCases

VARIABLE case

NoCase == [what |-> "none"]

WireInit == case = NoCase

Encode == case = NoCase /\ \E f \in FrameCases : case' = [what |-> "frame", f |-> f]
Pack == case = NoCase /\ \E fs \in PayloadCases : case' = [what |-> "payload", fs |-> fs]
PutHead == case = NoCase /\ \E h \in HeaderCases : case' = [what |-> "header", h |-> h]
Coalesce == case = NoCase /\ \E d \in DatagramCases : case' = [what |-> "dgram", d |-> d]
Number == case = NoCase /\ \E c \in NumberCases : case' = [what |-> "number", c |-> c]
Seal == case = NoCase /\ \E p \in PacketCases : case' = [what |-> "packet", p |-> p]
Receive == case = NoCase /\ \E b \in RawCases : case' = [what |-> "raw", b |-> b]
Finish == case # NoCase /\ case' = NoCase

WireNext == Encode \/ Pack \/ PutHead \/ Coalesce \/ Number \/ Seal \/ Receive \/ Finish

WireSpec == WireInit /\ [][WireNext]_case

(***************************************************************************)
(* The encoder and the decoder of a frame.                                 *)
(***************************************************************************)
Enc(cap, f) ==
  CASE f.kind = "padding" -> PutSimple(cap, 0)
    [] f.kind = "ping" -> PutSimple(cap, 1)
    [] f.kind = "crypto" -> EncCrypto(cap, f)
    [] f.kind = "stream" -> EncStream(cap, f)
    [] f.kind = "close" -> EncClose(cap, f)
    [] f.kind = "max_data" -> EncMaxData(cap, f)
    [] f.kind = "data_blocked" -> EncDataBlocked(cap, f)
    [] f.kind = "max_stream_data" -> EncMaxStreamData(cap, f)
    [] f.kind = "stream_data_blocked" -> EncStreamDataBlocked(cap, f)
    [] f.kind = "max_streams" -> EncMaxStreams(cap, f)
    [] f.kind = "streams_blocked" -> EncStreamsBlocked(cap, f)
    [] f.kind = "reset" -> EncReset(cap, f)
    [] f.kind = "stop_sending" -> EncStopSending(cap, f)
    [] f.kind = "new_token" -> EncNewToken(cap, f)
    [] f.kind = "retire_cid" -> EncRetireCid(cap, f)
    [] f.kind = "path" -> EncPath(cap, f)
    [] f.kind = "handshake_done" -> EncHandshakeDone(cap, f)
    [] f.kind = "ncid" -> EncNcid(cap, f)
    [] f.kind = "ack" -> EncAck(cap, f)

Dec(kind, b) ==
  IF b = <<>> THEN NoDec
  ELSE CASE kind \in {"padding", "ping"} -> Got(1, [kind |-> kind])
         [] kind = "crypto" -> DecCrypto(b)
         [] kind = "stream" -> DecStream(b)
         [] kind = "close" -> DecClose(b)
         [] kind = "max_data" -> DecMaxData(b)
         [] kind = "data_blocked" -> DecDataBlocked(b)
         [] kind = "max_stream_data" -> DecMaxStreamData(b)
         [] kind = "stream_data_blocked" -> DecStreamDataBlocked(b)
         [] kind = "max_streams" -> DecMaxStreams(b)
         [] kind = "streams_blocked" -> DecStreamsBlocked(b)
         [] kind = "reset" -> DecReset(b)
         [] kind = "stop_sending" -> DecStopSending(b)
         [] kind = "new_token" -> DecNewToken(b)
         [] kind = "retire_cid" -> DecRetireCid(b)
         [] kind = "path" -> DecPath(b, b[1])
         [] kind = "handshake_done" -> DecHandshakeDone(b)
         [] kind = "ncid" -> DecNcid(b)
         [] kind = "ack" -> DecAck(b)

Wide == 4096
Strict(b) == {Slice(b, 0, k) : k \in 0 .. Len(b) - 1}

(***************************************************************************)
(* What a frame encoder writes, its decoder reads back, using every byte;  *)
(* a frame cut short anywhere is refused rather than read past its end     *)
(* (every pair of put and get in packet/frame/frame).                      *)
(***************************************************************************)
FrameRoundTrip ==
  case.what = "frame" =>
    LET b == Enc(Wide, case.f)
    IN  /\ Dec(case.f.kind, b) = Got(Len(b), case.f)
        /\ \A p \in Strict(b) : Dec(case.f.kind, p) = NoDec

(***************************************************************************)
(* An encoder refuses exactly when the frame does not fit the capacity it  *)
(* was given, and never leaves part of one (the put chains of frame.c,     *)
(* ack.c, ncid.c, flow.c).                                                 *)
(***************************************************************************)
CapacityExact ==
  case.what = "frame" =>
    LET b == Enc(Wide, case.f)
    IN  \A cap \in 0 .. Len(b) + 1 :
          Enc(cap, case.f) = IF cap >= Len(b) THEN b ELSE Nothing

(***************************************************************************)
(* A payload packed from frames that the walker can measure is walked back *)
(* into exactly those frames, in order: no frame is lost, split or merged  *)
(* (pktbuild/framepack.c against pipeline/framewalk.c).  A CRYPTO stream   *)
(* is cut so that its frames carry its bytes once each.                    *)
(***************************************************************************)
WalkReturnsFrames ==
  case.what = "payload" =>
    LET enc == [i \in DOMAIN case.fs |-> Enc(Wide, case.fs[i])]
    IN  /\ Walk(Framepack(Wide, enc)) = enc
        /\ \A m \in 1 .. 3 :
             LET walked == Walk(CryptoEmit(<<7, 8, 9>>, Len(enc), m, Wide))
                 fs == [i \in DOMAIN walked |-> DecCrypto(walked[i]).f]
             IN  /\ FlattenSeq([i \in DOMAIN fs |-> fs[i].data]) = <<7, 8, 9>>
                 /\ \A i \in DOMAIN fs :
                      fs[i].offset = Len(enc) + SumFunction([j \in 1 .. i - 1 |-> Len(fs[j].data)])

(***************************************************************************)
(* A buffer a frame decoder accepts: it used no byte past the end, and the *)
(* value it gives encodes to bytes that decode to the same value; the      *)
(* ranges of an ACK descend with a gap between them and none wraps below   *)
(* packet number 0 (ack.c).                                                *)
(***************************************************************************)
DecodeStable ==
  case.what = "raw" =>
    \A kind \in {"crypto", "stream", "close", "ncid", "ack", "new_token", "max_streams"} :
      LET d == Dec(kind, case.b)
      IN  d.n # 0 =>
            /\ d.n <= Len(case.b)
            /\ Enc(Wide, d.f) # Nothing => Dec(kind, Enc(Wide, d.f)).f = d.f
            /\ kind = "ack" => \A i \in DOMAIN d.f.ranges :
                 LET r == d.f.ranges[i]
                 IN  0 <= r.lo /\ r.lo <= r.hi /\ (i > 1 => r.hi < d.f.ranges[i - 1].lo - 1)

(***************************************************************************)
(* A long header parses to the ids, token and Length it was built from,    *)
(* up to its packet number, whose length its byte 0 gives; Retry, Version  *)
(* Negotiation and short headers give back their fields; the two short-    *)
(* header builders agree; each builder refuses exactly when the capacity   *)
(* is too small (lhdr_build.c, lhdr_parse.c, retry.c, vneg.c, short.c).    *)
(***************************************************************************)
HeaderRoundTrip ==
  case.what = "header" =>
    LET h == case.h
        build(cap) == CASE h.kind = "long" -> LhdrBuild(cap, h)
                        [] h.kind = "short" -> ShortBuild(cap, h)
                        [] h.kind = "retry" -> RetryBuild(cap, h)
                        [] h.kind = "vneg" -> VnegBuild(cap, h)
        b == build(Wide)
    IN  /\ \A cap \in 0 .. Len(b) : build(cap) = IF cap = Len(b) THEN b ELSE Nothing
        /\ h.kind = "long" =>
             LET p == LhdrParse(b, h.initial)
             IN  /\ p.n + PnLenOf(b[1]) = Len(b) /\ PnLenOf(b[1]) = h.pn_len
                 /\ p.dcid = h.dcid /\ p.scid = h.scid /\ p.token = h.token
                 /\ p.length = h.pn_len + h.payload_len + 16
                 /\ Drop(b, p.n) = PnumEncode(h.pn, h.pn_len)
                 /\ HeaderParse(b, 0).version = h.version
        /\ h.kind = "short" =>
             /\ ShorthdrBuild(Wide, h) = b
             /\ HeaderParse(b, Len(h.dcid)).dcid = h.dcid
             /\ ResbitsOk(b[1], FALSE) /\ PnLenOf(b[1]) = h.pn_len
             /\ Drop(b, 1 + Len(h.dcid)) = PnumEncode(h.pn, h.pn_len)
        /\ h.kind = "retry" =>
             LET p == RetryParse(b)
             IN  /\ <<p.dcid, p.scid, p.token, p.tag>> = <<h.dcid, h.scid, h.token, h.tag>>
                 /\ PacketLongType(b[1]) = 3

(***************************************************************************)
(* The answer of quic_vneg_respond parses to the versions offered, with    *)
(* the ids of the packet it answers exchanged, so that the answer reaches  *)
(* who sent it (RFC 9000 17.2.1).                                          *)
(***************************************************************************)
VnegAnswersSender ==
  case.what = "header" /\ case.h.kind = "vneg" =>
    LET p == VnegParse(VnegRespond(Wide, case.h, case.h.versions))
    IN  <<p.dcid, p.scid, p.versions>> = <<case.h.scid, case.h.dcid, case.h.versions>>

(***************************************************************************)
(* The iterator over a datagram of coalesced packets gives back the        *)
(* packets that were put together: each long one ends where its Length     *)
(* says and a short one, only allowed last, takes the rest (coalesce.c     *)
(* against lhdr_build.c).                                                  *)
(***************************************************************************)
PacketOf(d) ==
  IF d.kind = "short" THEN ShortBuild(Wide, d) \o Fill(d.payload_len + 16, 5)
  ELSE LhdrBuild(Wide, d) \o Fill(d.payload_len + 16, 5)

CoalesceReturnsPackets ==
  case.what = "dgram" =>
    LET ps == [i \in DOMAIN case.d |-> PacketOf(case.d[i])]
    IN  (\A i \in DOMAIN ps : ShortMustBeLast(ps[i][1], i = Len(ps)))
          => Coalesced(FlattenSeq(ps)) = ps

(***************************************************************************)
(* A packet number truncated to the length chosen for the largest number   *)
(* the peer acknowledged is recovered by any receiver between that number  *)
(* and the packet itself, whatever arrived in between; the two functions   *)
(* that choose the length agree (pnum.c, pnlen.c).  (The window of a       *)
(* four-byte number is beyond TLC's integers; its length only is checked.) *)
(***************************************************************************)
NumberRecovered ==
  case.what = "number" =>
    LET c == case.c
        len == PnumLen(c.pn, c.acked)
    IN  /\ PnlenNeeded(c.pn, c.acked) = len
        /\ len <= 3 /\ c.largest \in c.acked .. c.pn - 1 =>
             PnumDecode(PnumEncode(c.pn, len), c.largest) = c.pn

(***************************************************************************)
(* A protected packet of each kind and the opener of its receiver.         *)
(***************************************************************************)
Sealed(p) ==
  CASE p.kind = "initial" -> InitpktBuild(p.k, [dcid |-> p.dcid, scid |-> p.scid, pn |-> p.pn],
                                          p.payload, Wide)
    [] p.kind = "handshake" -> HspktBuild(p.k, [dcid |-> p.dcid, scid |-> p.scid, pn |-> p.pn],
                                          p.payload, Wide)
    [] p.kind = "onertt" -> OnerttBuild(p.k, p.dcid, p.pn, p.payload, Wide)
    [] p.kind = "suite" -> ProtectcsSeal(p.k, ShortBuild(Wide, p), p.pn_len, p.pn, p.payload)
    [] p.kind = "fixed" -> ProtectSeal(p.k, LhdrBuild(Wide, p), p.pn_len, p.pn, p.payload, Wide)

Opened(p, b) ==
  CASE p.kind = "initial" -> InitpktOpen(p.k, b)
    [] p.kind = "handshake" -> HspktOpen(p.k, b)
    [] p.kind = "onertt" -> OnerttOpen(p.k, b, Len(p.dcid), p.largest)
    [] p.kind = "suite" -> ProtectcsOpen(p.k, b, 1 + Len(p.dcid))
    [] p.kind = "fixed" -> ProtectOpen(p.k, b, Len(LhdrBuild(Wide, p)), p.pn_len, p.pn)

Plain(p) ==
  IF p.kind = "initial" THEN InitPayload(p.payload, PadTarget(p.dcid, p.scid)) ELSE p.payload

(***************************************************************************)
(* A packet the peer protected opens to its payload, in each pair of       *)
(* sealer and opener: header protection is removed with the mask it was    *)
(* put on with, though the opener learns the length of the packet number   *)
(* only half way, and the nonce is the sender's (protect.c, protectcs.c,   *)
(* vpn_open.c, unprotect.c, hspkt_build.c, initpkt.c).  An Initial fills   *)
(* the 1200 bytes RFC 9000 14.1 asks for.                                  *)
(***************************************************************************)
SealedOpens ==
  case.what = "packet" =>
    LET b == Sealed(case.p)
    IN  /\ Opened(case.p, b) = [ok |-> TRUE, payload |-> Plain(case.p)]
        /\ case.p.kind = "initial" => Len(b) >= MinInitialDatagram /\ InitPad(b, Wide) = b

(***************************************************************************)
(* A packet changed in one byte anywhere, header included, is not opened:  *)
(* the whole unprotected header is the associated data, and the ciphertext *)
(* and tag end where the Length says.  Of the 1200 bytes of an Initial the *)
(* ones changed are the header, the frames, some padding and the tag.      *)
(***************************************************************************)
AlteredRefused ==
  case.what = "packet" =>
    LET b == Sealed(case.p)
    IN  \A i \in {j \in DOMAIN b : case.p.kind = "initial" => j <= 64 \/ j > Len(b) - 16} :
          ~Opened(case.p, [b EXCEPT ![i] = @ ^^ 1]).ok

\* Frames, payloads, headers, datagrams and packet numbers are read as they
\* were written, by every reader they have; a protected packet opens to what
\* was sealed, and to nothing if altered.  (Of a case, at the step that ends it;
\* the other formats likewise.)
PacketsReadBack ==
  [][/\ FrameRoundTrip /\ CapacityExact /\ WalkReturnsFrames /\ DecodeStable
     /\ HeaderRoundTrip /\ VnegAnswersSender /\ CoalesceReturnsPackets /\ NumberRecovered
     /\ SealedOpens /\ AlteredRefused]_case
=============================================================================
