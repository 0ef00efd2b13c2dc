------------------------------- MODULE TlsMsg -------------------------------
(***************************************************************************)
(* The TLS 1.3 handshake messages and extensions a QUIC handshake carries  *)
(* (tls/handshake/core/tls, hrr, roles/shbuild, eebuild, sflight), and     *)
(* the QUIC transport parameters inside them (tls/ext).  Conventions are   *)
(* those of Bytes: an encoder gives the bytes written or Nothing, a        *)
(* decoder a record whose n is 0 when it refuses.                          *)
(*                                                                         *)
(* A 32-bit field above the model's largest integer is read as that        *)
(* integer (GetBe).                                                        *)
(***************************************************************************)
EXTENDS Bytes, Bitwise

Be16(v) == PutBe(v, 2)
Vec(k, d) == PutBe(Len(d), k) \o d

CLIENT_HELLO == 1
SERVER_HELLO == 2
ENCRYPTED_EXT == 8
CERTIFICATE == 11
CERT_VERIFY == 15
FINISHED == 20

X25519 == 29
TLS13 == 772                    \* 0x0304
AES_128_GCM_SHA256 == 4865      \* 0x1301
CHACHA20_POLY1305_SHA256 == 4867

(***************************************************************************)
(* Framing: type, 24-bit length, body.                                     *)
(***************************************************************************)
HsMsg(type, body) == <<type>> \o Vec(3, body)

HsParse(b) ==
  LET len == GetBe(Slice(b, 1, 3))
  IN  IF Len(b) < 4 THEN NoDec
      ELSE IF 4 + len > Len(b) THEN NoDec
      ELSE [n |-> 4, type |-> b[1], body |-> Slice(b, 4, len)]

\* How much of a stream is the first whole message; 0 while it is not there.
HsMessageReady(b) ==
  LET total == 4 + GetBe(Slice(b, 1, 3))
  IN  IF Len(b) < 4 THEN 0 ELSE IF Len(b) < total THEN 0 ELSE total

MessageComplete(buffered, declared) == buffered >= declared + 4

BodyOf(b, type) ==
  LET p == HsParse(b) IN IF p.n = 0 THEN Nothing ELSE IF p.type = type THEN p.body ELSE Nothing

(***************************************************************************)
(* Extensions.  A walker over a block stops at the first extension that    *)
(* overruns it, and at fewer than the four bytes of a header.              *)
(***************************************************************************)
Ext(type, data) == Be16(type) \o Vec(2, data)

RECURSIVE Exts(_)
Exts(b) ==
  IF Len(b) < 4 THEN [ok |-> TRUE, es |-> <<>>]
  ELSE LET end == 4 + GetBe(Slice(b, 2, 2))
       IN  IF end > Len(b) THEN [ok |-> FALSE, es |-> <<>>]
           ELSE LET rest == Exts(Drop(b, end))
                IN  [rest EXCEPT !.es = <<[type |-> GetBe(Slice(b, 0, 2)),
                                           data |-> Slice(b, 4, end - 4)]>> \o @]

OfType(w, type) == SelectSeq(w.es, LAMBDA e : e.type = type)

\* The offset past a vector with a k-byte length; 0 is an overrun.
SkipVec(b, p, k) ==
  LET q == p + k + GetBe(Slice(b, p, k))
  IN  IF p = 0 \/ p + k > Len(b) THEN 0 ELSE IF q <= Len(b) THEN q ELSE 0

\* The extensions length of a ClientHello body: past version, random, session
\* id, cipher suites and compression methods.
ChPrefix(body) ==
  LET p == SkipVec(body, SkipVec(body, SkipVec(body, 34, 1), 2), 1)
  IN  IF p # 0 /\ p + 2 <= Len(body) THEN p ELSE 0

ExtsAt(body, p) == Exts(Slice(body, p + 2, GetBe(Slice(body, p, 2))))

(***************************************************************************)
(* The extensions themselves.                                              *)
(***************************************************************************)
SupportedVersions(cap) == Within(cap, Ext(43, Vec(1, Be16(TLS13))))

\* A list of versions, an even number of bytes that fill the extension.
VersionsHasTls13(b) ==
  /\ Len(b) >= 5 /\ GetBe(Slice(b, 0, 2)) = 43
  /\ 4 + GetBe(Slice(b, 2, 2)) <= Len(b) /\ GetBe(Slice(b, 2, 2)) = b[5] + 1
  /\ b[5] % 2 = 0 /\ \E i \in 0 .. b[5] \div 2 - 1 : GetBe(Slice(b, 5 + 2 * i, 2)) = TLS13

SupportedGroups(cap) == Within(cap, Ext(10, Vec(2, Be16(X25519))))
SigAlgs(cap) == Within(cap, Ext(13, Vec(2, Be16(1027) \o Be16(2052) \o Be16(2055))))

Entry(group, key) == Be16(group) \o Vec(2, key)
KeyShare(cap, pub) == Within(cap, Ext(51, Vec(2, Entry(X25519, pub))))

EntryOk(d) == Len(d) >= 36 /\ Slice(d, 0, 4) = Be16(X25519) \o Be16(32)
KeyShareParse(d) == IF EntryOk(d) THEN Slice(d, 4, 32) ELSE Nothing

\* The first x25519 entry of a list.
RECURSIVE FindX25519(_)
FindX25519(d) ==
  IF Len(d) < 4 THEN Nothing
  ELSE IF 4 + GetBe(Slice(d, 2, 2)) > Len(d) THEN Nothing
  ELSE IF EntryOk(d) THEN Slice(d, 4, 32) ELSE FindX25519(Drop(d, 4 + GetBe(Slice(d, 2, 2))))

KeyShareScan(d) ==
  LET list == GetBe(Slice(d, 0, 2))
  IN  IF Len(d) < 2 THEN Nothing ELSE IF 2 + list > Len(d) THEN Nothing ELSE FindX25519(Slice(d, 2, list))

SniEncode(cap, host) ==
  IF Len(host) <= 65535 THEN Within(cap, <<0>> \o Vec(2, host)) ELSE Nothing
SniDecode(b) ==
  IF Len(b) < 3 THEN NoDec
  ELSE LET len == GetBe(Slice(b, 1, 2))
       IN  IF b[1] # 0 \/ 3 + len > Len(b) THEN NoDec ELSE [n |-> 3 + len, host |-> Slice(b, 3, len)]
ExtractSni(d) ==
  LET list == GetBe(Slice(d, 0, 2))
  IN  IF Len(d) < 2 THEN NoDec ELSE IF 2 + list > Len(d) THEN NoDec ELSE SniDecode(Slice(d, 2, list))

H3 == <<104, 51>>
AlpnEncode(cap, proto) ==
  IF Len(proto) \in 1 .. 255 THEN Within(cap, Vec(2, Vec(1, proto))) ELSE Nothing
AlpnDecodeFirst(b) ==
  IF Len(b) < 3 THEN NoDec
  ELSE LET list == GetBe(Slice(b, 0, 2))
       IN  IF list < 1 \/ 2 + list > Len(b) \/ 1 + b[3] > list THEN NoDec
           ELSE [n |-> 2 + list, proto |-> Slice(b, 3, b[3])]

\* Names are taken in order until one is "h3" or overruns the list.
RECURSIVE HasH3(_)
HasH3(names) ==
  IF names = <<>> THEN FALSE
  ELSE IF 1 + names[1] > Len(names) THEN FALSE
  ELSE Slice(names, 1, names[1]) = H3 \/ HasH3(Drop(names, 1 + names[1]))
SelectH3(d) ==
  LET list == GetBe(Slice(d, 0, 2))
  IN  Len(d) >= 2 /\ 2 + list <= Len(d) /\ HasH3(Slice(d, 2, list))
AlpnResponse(cap) == Within(cap, Ext(16, Vec(2, Vec(1, H3))))

TpextEncode(cap, tp) == IF Len(tp) <= 65535 THEN Within(cap, Ext(57, tp)) ELSE Nothing
TpextDecode(b) ==
  LET len == GetBe(Slice(b, 2, 2))
  IN  IF Len(b) < 4 THEN NoDec
      ELSE IF GetBe(Slice(b, 0, 2)) # 57 \/ 4 + len > Len(b) THEN NoDec
      ELSE [n |-> 4 + len, tp |-> Slice(b, 4, len)]

PskModes(cap) == Within(cap, Ext(45, Vec(1, <<1>>)))
PskModesParse(b) ==
  IF Len(b) < 6 THEN FALSE
  ELSE LET len == GetBe(Slice(b, 2, 2))
       IN  /\ GetBe(Slice(b, 0, 2)) = 45 /\ 4 + len <= Len(b) /\ len = b[5] + 1
           /\ \E i \in 1 .. b[5] : b[5 + i] = 1

EarlyDataCh(cap) == Within(cap, Ext(42, <<>>))
EarlyDataNst(max, cap) == Within(cap, Ext(42, PutBe(max, 4)))
EarlyDataNstParse(b) ==
  IF Len(b) >= 8 /\ Slice(b, 0, 4) = Be16(42) \o Be16(4)
  THEN [n |-> 8, max |-> GetBe(Slice(b, 4, 4))] ELSE NoDec

\* One identity and one binder.
PreSharedKey(cap, o) ==
  Within(cap, Ext(41, Vec(2, Vec(2, o.identity) \o PutBe(o.age, 4)) \o Vec(2, Vec(1, o.binder))))
PskTotal(id_len, binder_len) == 15 + id_len + binder_len
PreSharedKeyParse(b) ==
  LET id == IF Len(b) >= 8 THEN GetBe(Slice(b, 6, 2)) ELSE 0
      dlen == GetBe(Slice(b, 2, 2))
  IN  IF Len(b) < 15 + id THEN NoDec
      ELSE IF GetBe(Slice(b, 0, 2)) # 41 \/ 4 + dlen > Len(b) THEN NoDec
      ELSE LET binder == b[15 + id]
           IN  IF Len(b) < PskTotal(id, binder) \/ dlen # PskTotal(id, binder) - 4 THEN NoDec
               ELSE [n |-> PskTotal(id, binder),
                     offer |-> [identity |-> Slice(b, 8, id), age |-> GetBe(Slice(b, 8 + id, 4)),
                                binder |-> Slice(b, 15 + id, binder)]]

(***************************************************************************)
(* The handshake messages: the hellos and their readers, and the server's  *)
(* authentication messages; the transport parameters of RFC 9000 18.       *)
(*                                                                         *)
(* A reader of a ClientHello bounds the extensions by their own length     *)
(* field; the block is here a part of the message.                         *)
(***************************************************************************)

CONSTANT CertChainMax      \* QUIC_TLS_CERT_CHAIN_MAX

Block(exts) == Vec(2, FlattenSeq(exts))
LEGACY == Be16(771)

(***************************************************************************)
(* ClientHello.                                                            *)
(***************************************************************************)
ChSni(sni) == IF sni = <<>> THEN <<>> ELSE <<Ext(0, Vec(2, SniEncode(258, sni)))>>
ChExts(pub, sni, tp) ==
  <<SupportedVersions(16), SupportedGroups(16), SigAlgs(16), KeyShare(42, pub)>>
    \o ChSni(sni) \o <<Ext(16, AlpnEncode(16, H3)), TpextEncode(2048, tp)>>

\* The scratch buffers of the extensions bound the name and the parameters.
ClientHello(cap, random, pub, sni, tp) ==
  IF Len(sni) > 255 \/ Len(tp) > 2044 THEN Nothing
  ELSE Within(cap, HsMsg(CLIENT_HELLO,
         LEGACY \o random \o <<0>> \o Vec(2, Be16(AES_128_GCM_SHA256)) \o Vec(1, <<0>>)
           \o Block(ChExts(pub, sni, tp))))

\* The first key share that reads well; an extension that overruns ends the walk.
FirstShare(w, Read(_)) ==
  LET read == SelectSeq([i \in DOMAIN OfType(w, 51) |-> Read(OfType(w, 51)[i].data)],
                        LAMBDA s : s # Nothing)
  IN  IF read = <<>> THEN Nothing ELSE read[1]

\* The server's reader scans the list of entries.
TakeClientKeyshare(ch) ==
  LET body == BodyOf(ch, CLIENT_HELLO)
      p == ChPrefix(body)
  IN  IF body = Nothing THEN Nothing ELSE IF p = 0 THEN Nothing
      ELSE FirstShare(ExtsAt(body, p), KeyShareScan)

\* The driver's reader takes the first entry only.
ParseClientHelloKeyshare(ch) ==
  LET body == BodyOf(ch, CLIENT_HELLO)
      p == ChPrefix(body)
  IN  IF body = Nothing THEN Nothing ELSE IF p = 0 THEN Nothing
      ELSE FirstShare(ExtsAt(body, p),
                      LAMBDA d : IF Len(d) < 2 THEN Nothing ELSE KeyShareParse(Drop(d, 2)))

\* The type and the length of the message are not looked at.
FindExtension(ch, type) ==
  LET body == Drop(ch, 4)
      p == ChPrefix(body)
  IN  IF p = 0 THEN NoTake
      ELSE IF p + 2 + GetBe(Slice(body, p, 2)) > Len(body) THEN NoTake
      ELSE LET found == OfType(ExtsAt(body, p), type)
           IN  IF found = <<>> THEN NoTake ELSE [ok |-> TRUE, data |-> found[1].data]

SidFits(body) == Len(body) >= 35 /\ body[35] <= 32 /\ 35 + body[35] <= Len(body)
SessionId(ch) ==
  LET body == BodyOf(ch, CLIENT_HELLO)
  IN  IF body = Nothing THEN NoTake
      ELSE IF SidFits(body) THEN [ok |-> TRUE, sid |-> Slice(body, 35, body[35])] ELSE NoTake

CompOffset(body) ==
  LET p == 35 + body[35]
  IN  IF ~SidFits(body) THEN 0 ELSE IF p + 2 > Len(body) THEN 0
      ELSE LET q == p + 2 + GetBe(Slice(body, p, 2)) IN IF q < Len(body) THEN q ELSE 0
CheckClientHello(ch) ==
  LET body == BodyOf(ch, CLIENT_HELLO)
      p == CompOffset(body)
  IN  /\ body # Nothing /\ Len(body) >= 2 /\ Slice(body, 0, 2) = LEGACY
      /\ p # 0 /\ Slice(body, p, IF p + 1 < Len(body) THEN 2 ELSE 1) = <<1, 0>>

Suites == {AES_128_GCM_SHA256, CHACHA20_POLY1305_SHA256}
CipherSupported(s) == s \in Suites
\* The first supported suite, unless AES-128-GCM is offered as well.
CipherSelect(offered) ==
  LET ok == SelectSeq(offered, CipherSupported)
  IN  IF ok = <<>> THEN 0
      ELSE IF AES_128_GCM_SHA256 \in {ok[i] : i \in DOMAIN ok} THEN AES_128_GCM_SHA256 ELSE ok[1]

(***************************************************************************)
(* ServerHello and HelloRetryRequest: the same message, told apart by the  *)
(* random.                                                                 *)
(***************************************************************************)
HrrRandom == <<207, 33, 173, 116, 229, 154, 97, 17, 190, 29, 140, 2, 30, 101, 184, 145,
               194, 162, 17, 22, 122, 187, 140, 94, 7, 158, 9, 226, 200, 168, 51, 156>>

ShVersions == Ext(43, Be16(TLS13))
ShHead(random, sid, cipher) == LEGACY \o random \o Vec(1, sid) \o Be16(cipher) \o <<0>>

ServerHello(cap, random, sid, cipher, pub) ==
  Within(cap, HsMsg(SERVER_HELLO, ShHead(random, sid, cipher)
                                    \o Block(<<ShVersions, Ext(51, Entry(X25519, pub))>>)))

HrrCookie(ck) == IF ck = <<>> THEN <<>> ELSE <<Ext(44, Vec(2, ck))>>
HrrBuild(cap, group, ck) ==
  Within(cap, HsMsg(SERVER_HELLO, ShHead(HrrRandom, <<>>, AES_128_GCM_SHA256)
                                    \o Block(<<ShVersions, Ext(51, Be16(group))>> \o HrrCookie(ck))))

IsHelloRetry(b) ==
  LET body == BodyOf(b, SERVER_HELLO) IN Len(body) >= 34 /\ Slice(body, 2, 32) = HrrRandom

\* The extensions length, past version, random, session id, suite and method.
ShPrefix(body) ==
  LET p == 35 + body[35] + 3
  IN  IF Len(body) < 35 THEN 0 ELSE IF p + 2 > Len(body) THEN 0
      ELSE IF p + 2 + GetBe(Slice(body, p, 2)) <= Len(body) THEN p ELSE 0

\* An extension that overruns before the key share refuses the message.
SelectedGroup(b) ==
  LET body == BodyOf(b, SERVER_HELLO)
      p == ShPrefix(body)
  IN  IF body = Nothing THEN NoDec ELSE IF p = 0 THEN NoDec
      ELSE LET ks == SelectSeq(OfType(ExtsAt(body, p), 51), LAMBDA e : Len(e.data) >= 2)
           IN  IF ks = <<>> THEN NoDec ELSE [n |-> 1, group |-> GetBe(Slice(ks[1].data, 0, 2))]

\* The last key share counts, read well or not.
ShShare(w) ==
  LET ks == OfType(w, 51) IN IF ks = <<>> THEN Nothing ELSE KeyShareParse(ks[Len(ks)].data)

ParseServerHello(b) ==
  LET body == BodyOf(b, SERVER_HELLO)
      p == ShPrefix(body)
      w == ExtsAt(body, p)
  IN  IF body = Nothing THEN NoDec ELSE IF p = 0 THEN NoDec
      ELSE IF ~w.ok \/ ShShare(w) = Nothing THEN NoDec
      ELSE LET vs == SelectSeq(OfType(w, 43), LAMBDA e : Len(e.data) = 2)
           IN  [n |-> 1, pub |-> ShShare(w), cipher |-> GetBe(Slice(body, p - 3, 2)),
                version |-> IF vs = <<>> THEN 0 ELSE GetBe(vs[Len(vs)].data)]

\* The minimal hello, one suite and one share, and its fixed-offset reader.
\* The room asked for is one byte less than the 84 written.
BuildHello(cap, type, random, pub) ==
  IF cap < 4 + 35 + 4 + 40 THEN Nothing
  ELSE HsMsg(type, LEGACY \o random \o <<0>> \o Be16(AES_128_GCM_SHA256) \o <<0>>
                     \o Block(<<Ext(51, Entry(X25519, pub))>>))
PeerShare(body) ==
  IF Len(body) >= 80 /\ Slice(body, 40, 2) = Be16(51) THEN Slice(body, 48, 32) ELSE Nothing

-----------------------------------------------------------------------------
(***************************************************************************)
(* The transport parameters (tls/ext/tparam, stp, grease, tpverify) and    *)
(* the server's messages after ServerHello (roles/eebuild, roles/sflight,  *)
(* core/tls/cert.c, finished).                                             *)
(***************************************************************************)

(***************************************************************************)
(* Parameters: id, length, value.                                          *)
(***************************************************************************)
TparamPutInt(cap, id, v) ==
  IF VarintLen(v) = 0 THEN Nothing ELSE PutVarints(cap, <<id, VarintLen(v), v>>, <<>>)

TparamGetInt(b) ==
  LET h == TakeVarints(b, 0, 2)
  IN  IF ~h.ok THEN NoDec
      ELSE IF h.vs[2] > Len(b) - h.off THEN NoDec
      ELSE LET v == TakeVarints(Slice(b, 0, h.off + h.vs[2]), h.off, 1)
           IN  IF ~v.ok THEN NoDec
               ELSE IF v.off - h.off # h.vs[2] THEN NoDec
               ELSE [n |-> v.off, id |-> h.vs[1], value |-> v.vs[1]]

TparamPutBlob(cap, id, val) == PutVarints(cap, <<id, Len(val)>>, val)

TparamGetBlob(b) ==
  LET h == TakeVarints(b, 0, 2)
  IN  IF ~h.ok THEN NoDec
      ELSE IF h.vs[2] > Len(b) - h.off THEN NoDec
      ELSE [n |-> h.off + h.vs[2], id |-> h.vs[1], val |-> Slice(b, h.off, h.vs[2])]

\* ipv4(4) port(2) ipv6(16) port(2) cid length(1) cid token(16).
PaValue(pa) == pa.ipv4 \o Be16(pa.port4) \o pa.ipv6 \o Be16(pa.port6) \o Vec(1, pa.cid) \o pa.token
PutPreferredAddress(cap, pa) ==
  IF Len(pa.cid) > 20 THEN Nothing ELSE TparamPutBlob(cap, 13, PaValue(pa))

PaParse(v) ==
  IF Len(v) < 25 THEN NoDec
  ELSE IF v[25] > 20 \/ Len(v) # 41 + v[25] THEN NoDec
  ELSE [n |-> 1, pa |-> [ipv4 |-> Slice(v, 0, 4), port4 |-> GetBe(Slice(v, 4, 2)),
          ipv6 |-> Slice(v, 6, 16), port6 |-> GetBe(Slice(v, 22, 2)), cid |-> Slice(v, 25, v[25]),
          token |-> Slice(v, 25 + v[25], 16)]]
GetPreferredAddress(b) ==
  LET r == TparamGetBlob(b)
  IN  IF r.n = 0 THEN NoDec ELSE IF r.id # 13 THEN NoDec
      ELSE IF PaParse(r.val).n = 0 THEN NoDec ELSE [n |-> r.n, pa |-> PaParse(r.val).pa]

GreaseEncode(cap) == PutVarints(cap, <<10930, 0>>, <<>>)
GreaseDecode(b) ==
  LET h == TakeVarints(b, 0, 2)
  IN  IF ~h.ok THEN 0 ELSE IF h.vs = <<10930, 0>> THEN h.off ELSE 0

(***************************************************************************)
(* The server's list, and the search for one parameter in a list.          *)
(***************************************************************************)
IntParams == << <<1, 30000>>, <<4, 1048576>>, <<5, 262144>>, <<6, 262144>>, <<7, 262144>>,
                <<8, 100>>, <<9, 100>> >>

BuildServerTp(cap, odcid, iscid) ==
  LET ints == FlattenSeq([i \in DOMAIN IntParams |->
                            TparamPutInt(10, IntParams[i][1], IntParams[i][2])])
  IN  Within(cap, TparamPutBlob(Len(odcid) + 2, 0, odcid) \o ints
                    \o TparamPutBlob(Len(iscid) + 2, 15, iscid))

\* Mutant: a parameter that reads badly is skipped by one byte.
RECURSIVE StpParse_Skip(_, _)
StpParse_Skip(tp, id) ==
  IF tp = <<>> THEN NoTake
  ELSE LET r == TparamGetBlob(tp)
       IN  IF r.n = 0 THEN StpParse_Skip(Drop(tp, 1), id)
           ELSE IF r.id # id THEN StpParse_Skip(Drop(tp, 1), id)
           ELSE [ok |-> TRUE, bytes |-> r.val,
                 value |-> LET v == VarintDecode(r.val) IN IF v.n = 0 THEN 0 ELSE v.v]

\* A value that is no integer is given as 0.
RECURSIVE StpParse(_, _)
StpParse(tp, id) ==
  IF tp = <<>> THEN NoTake
  ELSE LET r == TparamGetBlob(tp)
       IN  IF r.n = 0 THEN NoTake
           ELSE IF r.id # id THEN StpParse(Drop(tp, r.n), id)
           ELSE [ok |-> TRUE, bytes |-> r.val,
                 value |-> LET v == VarintDecode(r.val) IN IF v.n = 0 THEN 0 ELSE v.v]

(***************************************************************************)
(* Connection ids are compared twice over: with an early return            *)
(* (tparam/tpcheck.c) and in constant time (tpverify).  The id of a Retry  *)
(* is there exactly when one was followed.                                 *)
(***************************************************************************)
CidMatch(got, expected) ==
  Len(got) = Len(expected) /\ \A i \in DOMAIN got : got[i] = expected[i]
TpverifyCidEq(a, b) ==
  LET short == IF Len(a) < Len(b) THEN a ELSE b
  IN  (Len(a) ^^ Len(b)) = 0 /\ \A i \in DOMAIN short : (a[i] ^^ b[i]) = 0

CheckRetryScid(did_retry, has_param, got, retry_scid) ==
  did_retry = has_param /\ (did_retry => CidMatch(got, retry_scid))
TpverifyRscid(retry_occurred, retry_scid, tp_rscid, tp_present) ==
  retry_occurred = tp_present /\ (retry_occurred => TpverifyCidEq(retry_scid, tp_rscid))

(***************************************************************************)
(* The messages after ServerHello.                                         *)
(***************************************************************************)
EncryptedExtensions(cap, tp) ==
  IF Len(tp) <= 65535
  THEN Within(cap, HsMsg(ENCRYPTED_EXT, Block(<<AlpnResponse(9), TpextEncode(4 + Len(tp), tp)>>)))
  ELSE Nothing

SflightEncext(cap, tp) ==
  IF Len(tp) <= 65535
  THEN Within(cap, HsMsg(ENCRYPTED_EXT, Block(<<TpextEncode(4 + Len(tp), tp)>>))) ELSE Nothing

CertificateMsg(cap, data) ==
  Within(cap, HsMsg(CERTIFICATE, <<0>> \o Vec(3, Vec(3, data) \o Vec(2, <<>>))))

\* A vector at off: its bytes and the offset past it.
TakeVec(b, off, k) ==
  LET len == GetBe(Slice(b, off, k))
  IN  IF off + k > Len(b) THEN NoTake
      ELSE IF off + k + len > Len(b) THEN NoTake
      ELSE [ok |-> TRUE, v |-> Slice(b, off + k, len), off |-> off + k + len]

\* cert_data and its extensions, which are skipped.
TakeEntry(list, off) ==
  LET data == TakeVec(list, off, 3)
      ext == TakeVec(list, data.off, 2)
  IN  IF ~data.ok THEN NoTake ELSE IF ~ext.ok THEN NoTake ELSE [data EXCEPT !.off = ext.off]

CertList(body) ==
  LET context == TakeVec(body, 0, 1)
  IN  IF ~context.ok THEN NoTake ELSE TakeVec(body, context.off, 3)

CertParse(body) == LET l == CertList(body) IN IF l.ok THEN TakeEntry(l.v, 0) ELSE NoTake

\* Every entry, leaf first; more of them than the table holds is refused.
RECURSIVE Entries(_, _, _)
Entries(list, off, count) ==
  IF off >= Len(list) THEN [ok |-> TRUE, certs |-> <<>>]
  ELSE IF count >= CertChainMax THEN NoTake
  ELSE LET e == TakeEntry(list, off)
           rest == Entries(list, e.off, count + 1)
       IN  IF ~e.ok THEN NoTake ELSE IF ~rest.ok THEN NoTake
           ELSE [rest EXCEPT !.certs = <<e.v>> \o @]
CertChain(body) == LET l == CertList(body) IN IF l.ok THEN Entries(l.v, 0, 0) ELSE NoTake

CertVerifyMsg(scheme, sig) == HsMsg(CERT_VERIFY, Be16(scheme) \o Vec(2, sig))
CertverifyParse(body) ==
  LET sig == TakeVec(body, 2, 2)
  IN  IF Len(body) < 2 THEN NoTake ELSE IF ~sig.ok THEN NoTake
      ELSE [ok |-> TRUE, scheme |-> GetBe(Slice(body, 0, 2)), sig |-> sig.v]

FinishedMsg(cap, verify_data) == Within(cap, HsMsg(FINISHED, verify_data))
VerifyDataOf(b) ==
  LET body == BodyOf(b, FINISHED) IN IF Len(body) = 32 THEN body ELSE Nothing
=============================================================================
