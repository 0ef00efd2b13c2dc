------------------------------ MODULE QpackWire ------------------------------
(***************************************************************************)
(* The codec of QPACK (app/qpack/qpack): prefixed integers, strings, the   *)
(* Huffman decoder, field lines, instructions and the static table.        *)
(*                                                                         *)
(* Names and values are octets.  Octets gives those of a name or a value   *)
(* of the static table, which the code keeps as C strings.                 *)
(***************************************************************************)
EXTENDS Bytes

CONSTANT Octets(_)

Bit(set, mask) == IF set THEN mask ELSE 0

(***************************************************************************)
(* integer.c: the value in the low bits of the first byte, or all ones and *)
(* the rest in groups of 7 bits, low group first.                          *)
(***************************************************************************)
PrefixMax(bits) == 2^bits - 1

RECURSIVE PutGroups(_)
PutGroups(v) == IF v < 128 THEN <<v>> ELSE <<(v % 128) + 128>> \o PutGroups(v \div 128)

\* Mutant: a value equal to the threshold is taken to fit the prefix.
IntEncode_Threshold(cap, bits, prefix, v) ==
  Within(cap, IF v <= PrefixMax(bits) THEN <<prefix + v>>
              ELSE <<prefix + PrefixMax(bits)>> \o PutGroups(v - PrefixMax(bits)))

IntEncode(cap, bits, prefix, v) ==
  Within(cap, IF v < PrefixMax(bits) THEN <<prefix + v>>
              ELSE <<prefix + PrefixMax(bits)>> \o PutGroups(v - PrefixMax(bits)))

\* v plus a group at shift m; a number above VarintMax is VarintMax, as in GetBe.
AddGroup(v, group, m) ==
  IF group = 0 THEN v
  ELSE IF m > 28 THEN VarintMax
  ELSE IF group > (VarintMax - v) \div 2^m THEN VarintMax ELSE v + group * 2^m

\* At most nine groups: a tenth would start at bit 63.
RECURSIVE TakeGroups(_, _, _, _)
TakeGroups(b, off, v, m) ==
  IF off >= Len(b) \/ m > 56 THEN NoDec
  ELSE LET x == b[off + 1]
           sum == AddGroup(v, x % 128, m)
       IN  IF x < 128 THEN [n |-> off + 1, v |-> sum] ELSE TakeGroups(b, off + 1, sum, m + 7)

IntDecode(b, bits) ==
  LET v == b[1] % 2^bits
  IN  IF b = <<>> THEN NoDec
      ELSE IF v < PrefixMax(bits) THEN [n |-> 1, v |-> v] ELSE TakeGroups(b, 1, v, 0)

(***************************************************************************)
(* huffman.c: the canonical code.  HSYM lists the symbols by length and    *)
(* code; the codes of length L start at HFIRST[L], their symbols at        *)
(* HIDX[L], and there are HCNT[L].  The C arrays start at 0.               *)
(***************************************************************************)
HUFF_MAXLEN == 30
HSYM ==
  <<48, 49, 50, 97, 99, 101, 105, 111, 115, 116, 32, 37, 45, 46, 47, 51, 52, 53, 54, 55, 56, 57,
    61, 65, 95, 98, 100, 102, 103, 104, 108, 109, 110, 112, 114, 117, 58, 66, 67, 68, 69, 70,
    71, 72, 73, 74, 75, 76, 77, 78, 79, 80, 81, 82, 83, 84, 85, 86, 87, 89, 106, 107, 113, 118,
    119, 120, 121, 122, 38, 42, 44, 59, 88, 90, 33, 34, 40, 41, 63, 39, 43, 124, 35, 62, 0, 36,
    64, 91, 93, 126, 94, 125, 60, 96, 123, 92, 195, 208, 128, 130, 131, 162, 184, 194, 224, 226,
    153, 161, 167, 172, 176, 177, 179, 209, 216, 217, 227, 229, 230, 129, 132, 133, 134, 136,
    146, 154, 156, 160, 163, 164, 169, 170, 173, 178, 181, 185, 186, 187, 189, 190, 196, 198,
    228, 232, 233, 1, 135, 137, 138, 139, 140, 141, 143, 147, 149, 150, 151, 152, 155, 157, 158,
    165, 166, 168, 174, 175, 180, 182, 183, 188, 191, 197, 231, 239, 9, 142, 144, 145, 148, 159,
    171, 206, 215, 225, 236, 237, 199, 207, 234, 235, 192, 193, 200, 201, 202, 205, 210, 213,
    218, 219, 238, 240, 242, 243, 255, 203, 204, 211, 212, 214, 221, 222, 223, 241, 244, 245,
    246, 247, 248, 250, 251, 252, 253, 254, 2, 3, 4, 5, 6, 7, 8, 11, 12, 14, 15, 16, 17, 18, 19,
    20, 21, 23, 24, 25, 26, 27, 28, 29, 30, 31, 127, 220, 249, 10, 13, 22, 256>>
HFIRST ==
  <<0, 0, 0, 0, 0, 0, 20, 92, 248, 508, 1016, 2042, 4090, 8184, 16380, 32764, 65534, 131068,
    262136, 524272, 1048550, 2097116, 4194258, 8388568, 16777194, 33554412, 67108832, 134217694,
    268435426, 536870910, 1073741820>>
HIDX ==
  <<0, 0, 0, 0, 0, 0, 10, 36, 68, 74, 74, 79, 82, 84, 90, 92, 95, 95, 95, 95, 98, 106, 119, 145,
    174, 186, 190, 205, 224, 253, 253>>
HCNT ==
  <<0, 0, 0, 0, 0, 10, 26, 32, 6, 0, 5, 3, 2, 6, 2, 3, 0, 0, 0, 3, 8, 13, 26, 29, 12, 4, 15, 19,
    29, 0, 4>>

CodeReady(acc, L) ==
  HCNT[L + 1] # 0 /\ acc >= HFIRST[L + 1] /\ acc - HFIRST[L + 1] < HCNT[L + 1]

PutSym(c, sym, dcap) ==
  IF sym > 255 \/ Len(c.out) >= dcap THEN [c EXCEPT !.ok = FALSE]
  ELSE [c EXCEPT !.out = Append(@, sym), !.acc = 0, !.nbits = 0]

StepBit(c, bit, dcap) ==
  LET acc == 2 * c.acc + bit
      L == c.nbits + 1
  IN  IF L > HUFF_MAXLEN THEN [c EXCEPT !.ok = FALSE]
      ELSE IF CodeReady(acc, L) THEN PutSym(c, HSYM[HIDX[L + 1] + (acc - HFIRST[L + 1]) + 1], dcap)
      ELSE [c EXCEPT !.acc = acc, !.nbits = L]

RECURSIVE HuffmanFeed(_, _, _, _)
HuffmanFeed(c, src, i, dcap) ==      \* bit i of src, the high bit of an octet first
  IF ~c.ok \/ i = 8 * Len(src) THEN c
  ELSE HuffmanFeed(StepBit(c, (src[i \div 8 + 1] \div 2^(7 - (i % 8))) % 2, dcap), src, i + 1, dcap)

\* The leftover bits are padding: fewer than 8, all ones.
PadValid(c) == c.nbits < 8 /\ c.acc = 2^c.nbits - 1

HuffmanDecode(src, dcap) ==
  LET c == HuffmanFeed([acc |-> 0, nbits |-> 0, out |-> <<>>, ok |-> TRUE], src, 0, dcap)
  IN  IF c.ok /\ PadValid(c) THEN [ok |-> TRUE, out |-> c.out] ELSE NoTake

(***************************************************************************)
(* string.c: a 7-bit length and the octets; H marks Huffman octets.  The   *)
(* encoder never sets it.                                                  *)
(***************************************************************************)
StringEncode(cap, s) ==
  LET len == IntEncode(cap, 7, 0, Len(s)) IN IF len = Nothing THEN Nothing ELSE Within(cap, len \o s)

\* len octets at off, raw or Huffman, into room for dcap.
StrValue(b, off, huff, len, dcap) ==
  IF len > Len(b) - off THEN NoTake
  ELSE IF huff THEN HuffmanDecode(Slice(b, off, len), dcap)
  ELSE IF len > dcap THEN NoTake ELSE [ok |-> TRUE, out |-> Slice(b, off, len)]

StringDecode(b, dcap) ==
  LET h == IntDecode(b, 7)
      s == StrValue(b, h.n, b[1] >= 128, h.v, dcap)
  IN  IF h.n = 0 THEN NoDec ELSE IF ~s.ok THEN NoDec ELSE [n |-> h.n + h.v, val |-> s.out]

\* Two parts, the second within what the first leaves; both must be there.
Join(cap, a, Rest(_)) ==
  LET w == Rest(cap - Len(a)) IN IF a = Nothing THEN Nothing ELSE IF w = Nothing THEN Nothing ELSE a \o w

(***************************************************************************)
(* Field lines (fieldline.c, literal.c), told apart by their first bits:   *)
(* 1T an index, 01NT a literal with the name by reference, 001N a literal  *)
(* with its own name.                                                      *)
(***************************************************************************)
IndexedEncode(cap, index, static) == IntEncode(cap, 6, 128 + Bit(static, 64), index)

IndexedDecode(b) ==
  LET d == IntDecode(b, 6)
  IN  IF b = <<>> THEN NoDec
      ELSE IF b[1] < 128 \/ d.n = 0 THEN NoDec
      ELSE [n |-> d.n, index |-> d.v, static |-> (b[1] \div 64) % 2 = 1]

NamrefEncode(cap, index, static, never, value) ==
  Join(cap, IntEncode(cap, 4, 64 + Bit(never, 32) + Bit(static, 16), index),
       LAMBDA room : StringEncode(room, value))

NamrefDecode(b, vcap) ==
  LET i == IntDecode(b, 4)
      s == StringDecode(Drop(b, i.n), vcap)
  IN  IF b = <<>> THEN NoDec
      ELSE IF b[1] \div 64 # 1 \/ i.n = 0 THEN NoDec
      ELSE IF s.n = 0 THEN NoDec
      ELSE [n |-> i.n + s.n, index |-> i.v, static |-> (b[1] \div 16) % 2 = 1,
            never |-> (b[1] \div 32) % 2 = 1, val |-> s.val]

LitnameEncode(cap, never, name, value) ==
  LET len == IntEncode(cap, 3, 32 + Bit(never, 16), Len(name))
  IN  Join(cap, IF len = Nothing THEN Nothing ELSE Within(cap, len \o name),
           LAMBDA room : StringEncode(room, value))

LitnameDecode(b, ncap, vcap) ==
  LET h == IntDecode(b, 3)
      nm == StrValue(b, h.n, (b[1] \div 8) % 2 = 1, h.v, ncap)
      s == StringDecode(Drop(b, h.n + h.v), vcap)
  IN  IF b = <<>> THEN NoDec
      ELSE IF b[1] \div 32 # 1 \/ h.n = 0 THEN NoDec
      ELSE IF ~nm.ok THEN NoDec
      ELSE IF s.n = 0 THEN NoDec
      ELSE [n |-> h.n + h.v + s.n, never |-> (b[1] \div 16) % 2 = 1, name |-> nm.out, val |-> s.val]

(***************************************************************************)
(* prefix.c: the Required Insert Count and the signed Base difference.     *)
(***************************************************************************)
PrefixEncode(cap, p) ==
  Join(cap, IntEncode(cap, 8, 0, p.ric), LAMBDA room : IntEncode(room, 7, Bit(p.sign, 128), p.delta))

PrefixDecode(b) ==
  LET r == IntDecode(b, 8)
      d == IntDecode(Drop(b, r.n), 7)
  IN  IF r.n = 0 THEN NoDec
      ELSE IF d.n = 0 THEN NoDec
      ELSE [n |-> r.n + d.n, v |-> [ric |-> r.v, sign |-> b[r.n + 1] >= 128, delta |-> d.v]]

(***************************************************************************)
(* instruction.c: an instruction is known by the bits above its integer.   *)
(* A mask of the high bits is the power of two below it.                   *)
(***************************************************************************)
InstrSpec(pattern, low, bits) == [pattern |-> pattern, low |-> low, bits |-> bits]
EncSpecs == <<InstrSpec(32, 32, 5), InstrSpec(128, 128, 6), InstrSpec(64, 64, 5), InstrSpec(0, 32, 5)>>
DecSpecs == <<InstrSpec(128, 128, 7), InstrSpec(64, 64, 6), InstrSpec(0, 64, 6)>>

InstrEncode(cap, spec, value) == IntEncode(cap, spec.bits, spec.pattern, value)

InstrDecode(b, specs) ==
  LET k == SelectInSeq(specs, LAMBDA s : b[1] \div s.low = s.pattern \div s.low)
      d == IntDecode(b, specs[k].bits)
  IN  IF b = <<>> THEN NoDec
      ELSE IF k = 0 THEN NoDec
      ELSE IF d.n = 0 THEN NoDec ELSE [n |-> d.n, kind |-> k, v |-> d.v]

\* insert_encode.c: an insertion with a literal name.
InsertLiteral(cap, name, value) ==
  LET len == IntEncode(cap, 5, 64, Len(name))
  IN  Join(cap, IF len = Nothing THEN Nothing ELSE Within(cap, len \o name),
           LAMBDA room : StringEncode(room, value))

(***************************************************************************)
(* static_table.c: the entries, from index 0.                              *)
(***************************************************************************)
StaticTable ==
  << <<":authority", "">>, <<":path", "/">>, <<"age", "0">>, <<"content-disposition", "">>,
    <<"content-length", "0">>, <<"cookie", "">>, <<"date", "">>, <<"etag", "">>,
    <<"if-modified-since", "">>, <<"if-none-match", "">>, <<"last-modified", "">>,
    <<"link", "">>, <<"location", "">>, <<"referer", "">>, <<"set-cookie", "">>,
    <<":method", "CONNECT">>, <<":method", "DELETE">>, <<":method", "GET">>,
    <<":method", "HEAD">>, <<":method", "OPTIONS">>, <<":method", "POST">>,
    <<":method", "PUT">>, <<":scheme", "http">>, <<":scheme", "https">>, <<":status", "103">>,
    <<":status", "200">>, <<":status", "304">>, <<":status", "404">>, <<":status", "503">>,
    <<"accept", "*/*">>, <<"accept", "application/dns-message">>,
    <<"accept-encoding", "gzip, deflate, br">>, <<"accept-ranges", "bytes">>,
    <<"access-control-allow-headers", "cache-control">>,
    <<"access-control-allow-headers", "content-type">>, <<"access-control-allow-origin", "*">>,
    <<"cache-control", "max-age=0">>, <<"cache-control", "max-age=2592000">>,
    <<"cache-control", "max-age=604800">>, <<"cache-control", "no-cache">>,
    <<"cache-control", "no-store">>, <<"cache-control", "public, max-age=31536000">>,
    <<"content-encoding", "br">>, <<"content-encoding", "gzip">>,
    <<"content-type", "application/dns-message">>, <<"content-type", "application/javascript">>,
    <<"content-type", "application/json">>,
    <<"content-type", "application/x-www-form-urlencoded">>, <<"content-type", "image/gif">>,
    <<"content-type", "image/jpeg">>, <<"content-type", "image/png">>,
    <<"content-type", "text/css">>, <<"content-type", "text/html; charset=utf-8">>,
    <<"content-type", "text/plain">>, <<"content-type", "text/plain;charset=utf-8">>,
    <<"range", "bytes=0-">>, <<"strict-transport-security", "max-age=31536000">>,
    <<"strict-transport-security", "max-age=31536000; includesubdomains">>,
    <<"strict-transport-security", "max-age=31536000; includesubdomains; preload">>,
    <<"vary", "accept-encoding">>, <<"vary", "origin">>,
    <<"x-content-type-options", "nosniff">>, <<"x-xss-protection", "1; mode=block">>,
    <<":status", "100">>, <<":status", "204">>, <<":status", "206">>, <<":status", "302">>,
    <<":status", "400">>, <<":status", "403">>, <<":status", "421">>, <<":status", "425">>,
    <<":status", "500">>, <<"accept-language", "">>,
    <<"access-control-allow-credentials", "FALSE">>,
    <<"access-control-allow-credentials", "TRUE">>, <<"access-control-allow-headers", "*">>,
    <<"access-control-allow-methods", "get">>,
    <<"access-control-allow-methods", "get, post, options">>,
    <<"access-control-allow-methods", "options">>,
    <<"access-control-expose-headers", "content-length">>,
    <<"access-control-request-headers", "content-type">>,
    <<"access-control-request-method", "get">>, <<"access-control-request-method", "post">>,
    <<"alt-svc", "clear">>, <<"authorization", "">>,
    <<"content-security-policy", "script-src 'none'; object-src 'none'; base-uri 'none'">>,
    <<"early-data", "1">>, <<"expect-ct", "">>, <<"forwarded", "">>, <<"if-range", "">>,
    <<"origin", "">>, <<"purpose", "prefetch">>, <<"server", "">>,
    <<"timing-allow-origin", "*">>, <<"upgrade-insecure-requests", "1">>, <<"user-agent", "">>,
    <<"x-forwarded-for", "">>, <<"x-frame-options", "deny">>,
    <<"x-frame-options", "sameorigin">> >>

StaticCount == 99

NoEntry == [ok |-> FALSE]
StaticGet(i) ==
  IF i >= StaticCount THEN NoEntry
  ELSE [ok |-> TRUE, name |-> Octets(StaticTable[i + 1][1]), value |-> Octets(StaticTable[i + 1][2])]

\* The first entry with that name and those value octets, -1 when there is none.
StaticFind(name, value) ==
  SelectInSeq(StaticTable, LAMBDA e : e[1] = name /\ Octets(e[2]) = value) - 1
=============================================================================
