------------------------------- MODULE Frames -------------------------------
(***************************************************************************)
(* The QUIC frame codecs (packet/frame/frame), the frame walker            *)
(* (pipeline/framewalk.c) and the rules on where a frame may appear.       *)
(*                                                                         *)
(* A frame is a record; its kind picks the encoder.  Views into a buffer   *)
(* are the bytes they show.  A decoder is called with at least the type    *)
(* byte.                                                                   *)
(***************************************************************************)
EXTENDS Bytes, FiniteSetsExt

CONSTANT AckMaxRanges   \* QUIC_ACK_MAX_RANGES, 32

ASSUME AckMaxRangesAssumption == AckMaxRanges \in Nat \ {0}

NcidMaxLen == 20
NcidToken == 16
PathData == 8

Got(n, f) == [n |-> n, f |-> f]

\* The decoders of frames that are k integers.
DecInts(b, k, Make(_)) ==
  LET t == TakeVarints(b, 1, k) IN IF t.ok THEN Got(t.off, Make(t.vs)) ELSE NoDec

\* The decoders of frames that end with as many bytes as their last integer.
DecTail(b, k, Make(_, _)) ==
  LET t == TakeVarints(b, 1, k)
      len == t.vs[k]
  IN  IF ~t.ok THEN NoDec
      ELSE IF ~TakeBytes(b, t.off, len) THEN NoDec
      ELSE Got(t.off + len, Make(t.vs, Slice(b, t.off, len)))

PutSimple(cap, type) == IF cap = 0 THEN Nothing ELSE <<type>>

(***************************************************************************)
(* CRYPTO, STREAM, CONNECTION_CLOSE.                                       *)
(***************************************************************************)
EncCrypto(cap, f) == PutVarints(cap, <<6, f.offset, Len(f.data)>>, f.data)

DecCrypto(b) ==
  DecTail(b, 2, LAMBDA vs, d : [kind |-> "crypto", offset |-> vs[1], data |-> d])

StreamType(f) == 8 + 2 + (IF f.offset # 0 THEN 4 ELSE 0) + (IF f.fin THEN 1 ELSE 0)

OptOffset(offset) == IF offset = 0 THEN <<>> ELSE <<offset>>

EncStream(cap, f) ==
  PutVarints(cap, <<StreamType(f), f.id>> \o OptOffset(f.offset) \o <<Len(f.data)>>, f.data)

DecStream(b) ==
  LET off == (b[1] \div 4) % 2
  IN  DecTail(b, 2 + off, LAMBDA vs, d :
        [kind |-> "stream", id |-> vs[1], offset |-> IF off = 1 THEN vs[2] ELSE 0,
         fin |-> b[1] % 2 = 1, data |-> d])

CloseType(f) == IF f.app THEN 29 ELSE 28

EncClose(cap, f) ==
  PutVarints(cap, <<CloseType(f), f.code>> \o (IF f.app THEN <<>> ELSE <<f.frame_type>>)
                  \o <<Len(f.reason)>>, f.reason)

DecClose(b) ==
  LET app == b[1] = 29
  IN  DecTail(b, IF app THEN 2 ELSE 3, LAMBDA vs, d :
        [kind |-> "close", app |-> app, code |-> vs[1],
         frame_type |-> IF app THEN 0 ELSE vs[2], reason |-> d])

CloseNeedsConvert(is_app_close, in_handshake) == is_app_close /\ in_handshake

(***************************************************************************)
(* Flow control: one or two integers; the last bit of the type is the      *)
(* direction of a MAX_STREAMS or STREAMS_BLOCKED.                          *)
(***************************************************************************)
PutOne(cap, type, v) == PutVarints(cap, <<type, v>>, <<>>)
PutTwo(cap, type, a, b) == PutVarints(cap, <<type, a, b>>, <<>>)
GetOne(b, Make(_)) == DecInts(b, 1, Make)
GetTwo(b, Make(_)) == DecInts(b, 2, Make)

EncMaxData(cap, f) == PutOne(cap, 16, f.value)
DecMaxData(b) == GetOne(b, LAMBDA vs : [kind |-> "max_data", value |-> vs[1]])

EncDataBlocked(cap, f) == PutOne(cap, 20, f.value)
DecDataBlocked(b) == GetOne(b, LAMBDA vs : [kind |-> "data_blocked", value |-> vs[1]])

EncMaxStreamData(cap, f) == PutTwo(cap, 17, f.id, f.value)
DecMaxStreamData(b) ==
  GetTwo(b, LAMBDA vs : [kind |-> "max_stream_data", id |-> vs[1], value |-> vs[2]])

EncStreamDataBlocked(cap, f) == PutTwo(cap, 21, f.id, f.value)
DecStreamDataBlocked(b) ==
  GetTwo(b, LAMBDA vs : [kind |-> "stream_data_blocked", id |-> vs[1], value |-> vs[2]])

StreamsType(bidi_type, uni) == bidi_type + (IF uni THEN 1 ELSE 0)

EncMaxStreams(cap, f) == PutOne(cap, StreamsType(18, f.uni), f.max)
DecMaxStreams(b) ==
  GetOne(b, LAMBDA vs : [kind |-> "max_streams", uni |-> b[1] % 2 = 1, max |-> vs[1]])

EncStreamsBlocked(cap, f) == PutOne(cap, StreamsType(22, f.uni), f.max)
DecStreamsBlocked(b) ==
  GetOne(b, LAMBDA vs : [kind |-> "streams_blocked", uni |-> b[1] % 2 = 1, max |-> vs[1]])

(***************************************************************************)
(* RESET_STREAM, STOP_SENDING, NEW_TOKEN, RETIRE_CONNECTION_ID, paths.     *)
(***************************************************************************)
EncReset(cap, f) == PutVarints(cap, <<4, f.id, f.code, f.size>>, <<>>)
DecReset(b) ==
  DecInts(b, 3, LAMBDA vs : [kind |-> "reset", id |-> vs[1], code |-> vs[2], size |-> vs[3]])

EncStopSending(cap, f) == PutVarints(cap, <<5, f.id, f.code>>, <<>>)
DecStopSending(b) ==
  DecInts(b, 2, LAMBDA vs : [kind |-> "stop_sending", id |-> vs[1], code |-> vs[2]])

EncNewToken(cap, f) == PutVarints(cap, <<7, Len(f.token)>>, f.token)
DecNewToken(b) == DecTail(b, 1, LAMBDA vs, d : [kind |-> "new_token", token |-> d])

EncRetireCid(cap, f) == PutVarints(cap, <<25, f.seq>>, <<>>)
DecRetireCid(b) == DecInts(b, 1, LAMBDA vs : [kind |-> "retire_cid", seq |-> vs[1]])

EncPath(cap, f) == IF PutBytes(cap, 1, f.data) THEN <<f.type>> \o f.data ELSE Nothing
DecPath(b, type) ==
  IF b[1] # type \/ ~TakeBytes(b, 1, PathData) THEN NoDec
  ELSE Got(1 + PathData, [kind |-> "path", type |-> type, data |-> Slice(b, 1, PathData)])

EncHandshakeDone(cap, f) == IF cap = 0 THEN Nothing ELSE <<30>>
DecHandshakeDone(b) == IF b[1] # 30 THEN NoDec ELSE Got(1, [kind |-> "handshake_done"])

(***************************************************************************)
(* NEW_CONNECTION_ID.                                                      *)
(***************************************************************************)
NcidValid(f) == Len(f.cid) <= NcidMaxLen /\ f.retire_prior_to <= f.seq

EncNcid(cap, f) ==
  IF ~NcidValid(f) THEN Nothing
  ELSE PutVarints(cap, <<24, f.seq, f.retire_prior_to>>,
                  <<Len(f.cid)>> \o f.cid \o f.token)

DecNcid(b) ==
  LET t == TakeVarints(b, 1, 2)
      len == b[t.off + 1]
      end == t.off + 1 + len
  IN  IF ~t.ok THEN NoDec
      ELSE IF t.off >= Len(b) THEN NoDec
      ELSE IF len > NcidMaxLen \/ ~TakeBytes(b, end, NcidToken) THEN NoDec
      ELSE Got(end + NcidToken,
             [kind |-> "ncid", seq |-> t.vs[1], retire_prior_to |-> t.vs[2],
              cid |-> Slice(b, t.off + 1, len), token |-> Slice(b, end, NcidToken)])

NcidCheck(seq, retire_prior_to, cid_len) ==
  retire_prior_to <= seq /\ cid_len \in 1 .. NcidMaxLen

(***************************************************************************)
(* ACK: ranges descend, each after the first by its gap and length.        *)
(***************************************************************************)
AckGap(prev, cur) == prev.lo - cur.hi - 2

AckPairs(ranges) ==
  FlattenSeq([i \in 1 .. Len(ranges) - 1 |->
    <<AckGap(ranges[i], ranges[i + 1]), ranges[i + 1].hi - ranges[i + 1].lo>>])

EncAck(cap, f) ==
  IF Len(f.ranges) \notin 1 .. AckMaxRanges THEN Nothing
  ELSE PutVarints(cap,
         <<IF f.ecn = <<>> THEN 2 ELSE 3, f.ranges[1].hi, f.delay, Len(f.ranges) - 1,
           f.ranges[1].hi - f.ranges[1].lo>> \o AckPairs(f.ranges) \o f.ecn, <<>>)

AckRangeOk(largest, first_range) == first_range <= largest

PairFits(prev_lo, gap, len) == prev_lo >= gap + 2 /\ prev_lo - gap - 2 >= len

RECURSIVE TakePairs(_, _, _, _)
TakePairs(b, off, ranges, count) ==
  LET t == TakeVarints(b, off, 2)
      lo == ranges[Len(ranges)].lo
      hi == lo - t.vs[1] - 2
  IN  IF count = 0 THEN [ok |-> TRUE, off |-> off, ranges |-> ranges]
      ELSE IF ~t.ok THEN NoTake
      ELSE IF ~PairFits(lo, t.vs[1], t.vs[2]) THEN NoTake
      ELSE TakePairs(b, t.off, Append(ranges, [hi |-> hi, lo |-> hi - t.vs[2]]), count - 1)

DecAck(b) ==
  LET h == TakeVarints(b, 1, 4)        \* largest, delay, count, first range
      p == TakePairs(b, h.off, <<[hi |-> h.vs[1], lo |-> h.vs[1] - h.vs[4]]>>, h.vs[3])
      e == TakeVarints(b, p.off, IF b[1] = 3 THEN 3 ELSE 0)
  IN  IF ~h.ok THEN NoDec
      ELSE IF ~AckRangeOk(h.vs[1], h.vs[4]) \/ h.vs[3] + 1 > AckMaxRanges THEN NoDec
      ELSE IF ~p.ok THEN NoDec
      ELSE IF ~e.ok THEN NoDec
      ELSE Got(e.off, [kind |-> "ack", delay |-> h.vs[2], ranges |-> p.ranges, ecn |-> e.vs])

(***************************************************************************)
(* The walker: a frame is measured by its decoder.                         *)
(***************************************************************************)
Classify(type) ==
  CASE type = 0 -> "padding" [] type = 1 -> "ping" [] type \in {2, 3} -> "ack"
    [] type = 6 -> "crypto" [] type \in 8 .. 15 -> "stream"
    [] type \in {28, 29} -> "close" [] type = 30 -> "handshake_done"
    [] type \in ({4, 5, 7} \union (16 .. 27) \union {48, 49}) -> "other"
    [] OTHER -> "unknown"

FrameLen(type, b) ==
  LET k == Classify(type)
  IN  CASE k \in {"padding", "ping", "handshake_done"} -> 1
        [] k = "ack" -> DecAck(b).n
        [] k = "crypto" -> DecCrypto(b).n
        [] k = "stream" -> DecStream(b).n
        [] k = "close" -> DecClose(b).n
        [] OTHER -> 0

\* The pieces the walker hands out; it stops at one it cannot measure.
RECURSIVE Walk(_)
Walk(b) ==
  LET t == VarintDecode(b)
      len == FrameLen(t.v, b)
  IN  IF b = <<>> THEN <<>>
      ELSE IF t.n = 0 THEN <<>>
      ELSE IF len = 0 \/ len > Len(b) THEN <<>>
      ELSE <<Slice(b, 0, len)>> \o Walk(Drop(b, len))

(***************************************************************************)
(* Where a frame may appear: I, H, Z and O are the packet types.           *)
(***************************************************************************)
Permitted(kind) ==
  CASE kind \in {"padding", "ping", "close"} -> {"I", "H", "Z", "O"}
    [] kind \in {"ack", "crypto"} -> {"I", "H", "O"}
    [] kind \in {"new_token", "path_response", "handshake_done"} -> {"O"}
    [] kind = "unknown" -> {}
    [] OTHER -> {"Z", "O"}

IsGrease(type) == type >= 33 /\ (type - 33) % 31 = 0

CryptoOffsetOk(offset, len, max_offset) == offset + len <= max_offset
CryptoContiguous(received_upto, new_offset) == new_offset <= received_upto

StreamBoundsOk(offset, length) == offset <= VarintMax /\ length <= VarintMax - offset
=============================================================================
