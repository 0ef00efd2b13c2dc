------------------------------- MODULE MCWire -------------------------------
(***************************************************************************)
(* The formats (one case at a time) and the QPACK tables that field        *)
(* sections refer to.  unit says which of the two a behaviour is of.       *)
(***************************************************************************)
EXTENDS MessageSys, QpackDyn, TLC

VARIABLE unit

codecVars == <<case, qpackVars, unit>>

CodecInit == WireInit /\ QpackInit /\ unit \in {"formats", "tables"}

CodecNext ==
  /\ UNCHANGED unit
  /\ \/ unit = "formats" /\ HttpNext /\ UNCHANGED qpackVars
     \/ unit = "tables" /\ QpackNext /\ UNCHANGED case

CodecSpec == CodecInit /\ [][CodecNext]_codecVars

(***************************************************************************)
(* Stand-ins for the block ciphers and authenticators: functions that      *)
(* depend on every byte of their arguments.                                *)
(***************************************************************************)
RECURSIVE Mix(_, _)
Mix(seed, b) ==
  LET half == Len(b) \div 2
  IN  CASE Len(b) = 0 \/ seed < 0 -> seed       \* the seed is evaluated before the halves
        [] Len(b) = 1 -> (31 * seed + b[1] + 7) % 65521
        [] OTHER -> Mix(Mix(seed, Slice(b, 0, half)), Drop(b, half))
Spread(h, n) == Tuple([i \in 1 .. n |-> ((h * ((i % 16) + 2)) \div 5 + 13 * i) % 256])

MCAesBlock(key, block) == Spread(Mix(key, block), 16)
MCGhashMul(h, y) == Spread(Mix(Mix(1, h), y), 16)
MCChaChaBlock(key, counter, nonce) == Spread(Mix(Mix(key, counter), nonce), 64)
MCPoly1305(key, msg) == Spread(Mix(Mix(2, key), msg), 16)

(***************************************************************************)
(* Integers on both sides of each length class.                            *)
(***************************************************************************)
Edges == {0, 1, 63, 64, 16383, 16384, 2^30 - 1, 2^30}
Datas == {<<>>, <<3>>, <<64, 192>>, Fill(64, 9)}
Token16 == [i \in 1 .. 16 |-> i]
Cid(n) == [i \in 1 .. n |-> 100 + i]

MCFrames ==
       {[kind |-> k] : k \in {"padding", "ping", "handshake_done"}}
  \union {[kind |-> "crypto", offset |-> o, data |-> d] : o \in Edges, d \in Datas}
  \union {[kind |-> "stream", id |-> i, offset |-> o, fin |-> f, data |-> d] :
            i \in {0, 64}, o \in Edges, f \in BOOLEAN, d \in Datas}
  \union {[kind |-> "close", app |-> FALSE, code |-> c, frame_type |-> t, reason |-> d] :
            c \in {0, 64}, t \in {0, 16384}, d \in Datas}
  \union {[kind |-> "close", app |-> TRUE, code |-> c, frame_type |-> 0, reason |-> d] :
            c \in Edges, d \in Datas}
  \union {[kind |-> k, value |-> v] : k \in {"max_data", "data_blocked"}, v \in Edges}
  \union {[kind |-> k, id |-> i, value |-> v] :
            k \in {"max_stream_data", "stream_data_blocked"}, i \in {0, 63, 64}, v \in Edges}
  \union {[kind |-> k, uni |-> u, max |-> v] :
            k \in {"max_streams", "streams_blocked"}, u \in BOOLEAN, v \in Edges}
  \union {[kind |-> "reset", id |-> i, code |-> 64, size |-> v] : i \in {0, 64}, v \in Edges}
  \union {[kind |-> "stop_sending", id |-> i, code |-> c] : i \in {0, 64}, c \in Edges}
  \union {[kind |-> "new_token", token |-> d] : d \in Datas}
  \union {[kind |-> "retire_cid", seq |-> v] : v \in Edges}
  \union {[kind |-> "path", type |-> t, data |-> Cid(8)] : t \in {26, 27}}
  \union {[kind |-> "ncid", seq |-> v, retire_prior_to |-> r, cid |-> Cid(n), token |-> Token16] :
            v \in {63, 64}, r \in {0, 63}, n \in {0, 1, 20}}
  \union {[kind |-> "ack", delay |-> d, ranges |-> r, ecn |-> e] :
            d \in {0, 64}, e \in {<<>>, <<1, 64, 0>>},
            r \in {<<[hi |-> 0, lo |-> 0]>>, <<[hi |-> 64, lo |-> 0]>>,
                   <<[hi |-> 64, lo |-> 64], [hi |-> 62, lo |-> 62]>>,
                   <<[hi |-> 200, lo |-> 130], [hi |-> 64, lo |-> 63], [hi |-> 1, lo |-> 0]>>}}

Measurable == {f \in MCFrames : f.kind \in {"padding", "ping", "handshake_done"}}
  \union {[kind |-> "crypto", offset |-> 64, data |-> <<1>>],
          [kind |-> "stream", id |-> 64, offset |-> 1, fin |-> TRUE, data |-> <<>>],
          [kind |-> "close", app |-> TRUE, code |-> 3, frame_type |-> 0, reason |-> <<0>>],
          [kind |-> "ack", delay |-> 0, ecn |-> <<>>,
           ranges |-> <<[hi |-> 9, lo |-> 9], [hi |-> 2, lo |-> 0]>>]}

MCPayloads == UNION {[1 .. n -> Measurable] : n \in 1 .. 2}

LongCase(byte0, initial, token, d, s, plen, pn, pn_len) ==
  [kind |-> "long", byte0 |-> byte0, version |-> 1, initial |-> initial, token |-> token,
   dcid |-> Cid(d), scid |-> Cid(s), payload_len |-> plen, pn |-> pn, pn_len |-> pn_len]
ShortCase(d, spin, phase, plen, pn, pn_len) ==
  [kind |-> "short", dcid |-> Cid(d), spin |-> spin, key_phase |-> phase,
   payload_len |-> plen, pn |-> pn, pn_len |-> pn_len]

MCHeaders ==
  {LongCase(192, TRUE, t, d, s, pl, 258, n) :
     t \in {<<>>, <<1>>, Fill(64, 2)}, d \in {0, 8, 20}, s \in {0, 1, 20}, pl \in {0, 44, 60},
     n \in {1, 2, 4}}
  \union {LongCase(224, FALSE, <<>>, d, s, pl, 258, n) :
     d \in {0, 8, 20}, s \in {0, 20}, pl \in {0, 47}, n \in 1 .. 3}
  \union {ShortCase(d, sp, ph, 0, 70000, n) :
     d \in {0, 8, 20}, sp \in {0, 1}, ph \in {0, 1}, n \in 1 .. 4}
  \union {[kind |-> "retry", version |-> 1, dcid |-> Cid(d), scid |-> Cid(s), token |-> t,
           tag |-> Token16] : d \in {0, 20}, s \in {0, 8}, t \in {<<>>, <<1>>, Fill(20, 3)}}
  \union {[kind |-> "vneg", dcid |-> Cid(d), scid |-> Cid(s), versions |-> v] :
           d \in {0, 8}, s \in {1, 20}, v \in {<<1>>, <<1, 2>>, <<0, 16909060, 1>>}}

Coalescable ==
  {LongCase(192, TRUE, <<1>>, 8, 0, 3, 1, 4), LongCase(192, TRUE, <<>>, 0, 0, 0, 1, 1),
   LongCase(224, FALSE, <<>>, 8, 1, 60, 2, 2), ShortCase(8, 1, 0, 2, 3, 1)}
MCDatagrams == UNION {[1 .. n -> Coalescable] : n \in 1 .. 3}

\* A number is above every acknowledged one; -1 stands for none acknowledged.
MCNumbers ==
  {c \in [pn : {1, 2, 127, 128, 129, 255, 256, 257, 32767, 32768, 32769, 65537, 8388607,
                8388608, 8388609},
          acked : {-1, 0, 1, 127, 128, 32640},
          largest : {-1, 0, 127, 128, 254, 32767, 8388607}] : c.acked < c.pn}

Keys(suite) == [suite |-> suite, key |-> 11, iv |-> [i \in 1 .. 12 |-> 17 * i], hp |-> 23]

MCPackets ==
  {[kind |-> "initial", k |-> Keys("aes128gcm"), dcid |-> Cid(d), scid |-> Cid(s), pn |-> 2,
    payload |-> <<1, 2, 3>>] : d \in {8, 20}, s \in {0, 4}}
  \union {[kind |-> "handshake", k |-> Keys("aes128gcm"), dcid |-> Cid(8), scid |-> Cid(s),
           pn |-> n, payload |-> d] : s \in {0, 4}, n \in {0, 1, 257}, d \in {<<1>>, Fill(17, 4)}}
  \union {[kind |-> "onertt", k |-> Keys("aes128gcm"), dcid |-> Cid(8), pn |-> n,
           largest |-> n - 1, payload |-> d] : n \in {1, 256, 65536}, d \in {<<1>>, Fill(20, 4)}}
  \union {[kind |-> "suite", k |-> Keys(s), dcid |-> Cid(8), spin |-> 1, key_phase |-> 1,
           pn |-> 200, pn_len |-> n, payload |-> d] :
           s \in {"aes128gcm", "chacha20poly1305"}, n \in 1 .. 3, d \in {<<1, 2, 3>>, Fill(70, 4)}}
  \union {[kind |-> "fixed", k |-> Keys("aes128gcm"), byte0 |-> 192, version |-> 1,
           initial |-> TRUE, token |-> <<>>, dcid |-> Cid(4), scid |-> Cid(0),
           payload_len |-> 5, pn |-> 258, pn_len |-> n, payload |-> <<1, 2, 3, 4, 5>>] :
           n \in {1, 2, 4}}

RawBytes == {0, 1, 2, 3, 64}
MCRaw == UNION {[1 .. n -> RawBytes] : n \in 1 .. 5}
  \union {<<2, 5, 0, 1, a, b, c>> : a \in 0 .. 6, b \in 0 .. 6, c \in 0 .. 6}

(***************************************************************************)
(* TLS messages.                                                           *)
(***************************************************************************)
Key(x) == Fill(32, x)
MCHellos ==
  {[random |-> Key(1), pub |-> Key(p), sni |-> s, tp |-> t, others |-> o] :
     p \in {2, 29}, s \in {<<>>, <<97>>, Fill(9, 98)}, t \in {<<>>, <<1, 2>>},
     o \in {<<>>, <<23>>, <<23, 24>>}}

MCAnswers ==
  {[random |-> Key(1), sid |-> s, cipher |-> AES_128_GCM_SHA256, pub |-> Key(5), group |-> g,
    cookie |-> c, offered |-> o] :
     s \in {<<>>, Key(8)}, g \in {X25519, 24}, c \in {<<>>, <<1>>, Fill(28, 3), Fill(36, 0)},
     o \in {<<>>, <<4866>>, <<CHACHA20_POLY1305_SHA256, AES_128_GCM_SHA256>>}}

MCExts ==
  {[kind |-> k, v |-> d] : k \in {"sni", "tpext", "blob"}, d \in Datas}
  \union {[kind |-> "alpn", v |-> d] : d \in Datas \ {<<>>}}
  \union {[kind |-> "psk", v |-> [identity |-> d, age |-> a, binder |-> Key(3)]] :
            d \in {<<1>>, Fill(64, 9)}, a \in {0, 65536}}
  \union {[kind |-> "nst", v |-> x] : x \in {0, 16384}}
  \union {[kind |-> "int", v |-> <<i, x>>] : i \in {1, 64}, x \in Edges}
  \union {[kind |-> "pa", v |-> [ipv4 |-> <<1, 2, 3, 4>>, port4 |-> 443, ipv6 |-> Token16,
                                 port6 |-> 8443, cid |-> Cid(n), token |-> Token16]] :
            n \in {0, 8, 20}}

MCParams == {[odcid |-> Cid(d), iscid |-> Cid(s)] : d \in {0, 8, 20}, s \in {0, 1, 20}}
MCChains == UNION {[1 .. n -> {<<5>>, <<0, 0, 3>>, Fill(9, 2)}] : n \in 1 .. 3}

(***************************************************************************)
(* Certificates: two kinds of key, windows on both sides of the change of  *)
(* century and of the form of a time, chains of up to three certificates   *)
(* with one fault or several.                                              *)
(***************************************************************************)
MCDigest(hash, b) == Spread(Mix(3, b), CASE hash = "sha256" -> 32 [] hash = "sha384" -> 48 [] hash = "sha512" -> 64)
MCEcSig(point, hash) == Spread(Mix(Mix(4, point), hash), 64)
MCRsaSig(padding, key, hash) ==
  Spread(Mix(Mix(Mix(IF padding = "pss" THEN 5 ELSE 6, key[1]), key[2]), hash), Len(key[1]))
MCEdSig(pub, b) == Spread(Mix(Mix(7, pub), b), 64)

EcKey(seed) == [kind |-> "ecdsa", point |-> Spread(seed, 64)]
ZeroLed == [kind |-> "ecdsa", point |-> Fill(31, 0) \o <<128>> \o Fill(9, 0) \o Fill(23, 200)]
RsaKey(seed) == [kind |-> "rsa", n |-> <<129>> \o Fill(14, seed) \o <<7>>, e |-> <<1, 0, 1>>]
AlgOf(kind, hash) == CHOOSE a \in CertSigAlgs : a.kind = kind /\ a.hash = hash
Unlisted == [oid |-> OidEd25519, kind |-> "ecdsa", hash |-> "sha256"]

Ascii(ds) == [i \in DOMAIN ds |-> ds[i] + 48]
Second(ds) == Ascii(ds) \o <<90>>
Jan1 == <<0, 1, 0, 1, 0, 0, 0, 0, 0, 0>>
Dec31 == <<1, 2, 3, 1, 2, 3, 5, 9, 5, 9>>
Short(yy, rest) == [tag |-> UTCTIME, val |-> Second(yy \o rest)]
Full(yyyy, rest) == [tag |-> GENTIME, val |-> Second(yyyy \o rest)]
At(yyyy, rest) == Ascii(yyyy \o rest)

Windows ==
  {[from |-> Short(<<4, 9>>, Jan1), first |-> At(<<2, 0, 4, 9>>, Jan1), before |-> At(<<2, 0, 4, 8>>, Dec31),
    to |-> Full(<<2, 0, 5, 0>>, Dec31), last |-> At(<<2, 0, 5, 0>>, Dec31), after |-> At(<<2, 0, 5, 1>>, Jan1)],
   [from |-> Short(<<5, 0>>, Jan1), first |-> At(<<1, 9, 5, 0>>, Jan1), before |-> At(<<1, 9, 4, 9>>, Dec31),
    to |-> Short(<<4, 9>>, Dec31), last |-> At(<<2, 0, 4, 9>>, Dec31), after |-> At(<<2, 0, 5, 0>>, Jan1)]}
Window == CHOOSE w \in Windows : w.to.tag = GENTIME

CertOf(subject, key, issuer, signer, ca, pathlen) ==
  Window @@ [subject |-> subject, key |-> key, issuer |-> issuer, signer |-> signer, ca |-> ca,
             pathlen |-> pathlen, names |-> <<>>, v1 |-> FALSE, serial |-> <<1>>,
             alg |-> AlgOf(signer.kind, "sha256"), inner |-> AlgOf(signer.kind, "sha256")]

MCCerts ==
  {w @@ [CertOf(<<108>>, k, <<105>>, s, b[1], b[2]) EXCEPT !.names = n, !.v1 = v, !.serial = Fill(20, 9),
                                                           !.inner = AlgOf("ecdsa", i)] :
     w \in Windows, k \in {EcKey(9), RsaKey(1)}, s \in {EcKey(10), RsaKey(2)},
     b \in {<<FALSE, -1>>, <<TRUE, -1>>, <<TRUE, 0>>, <<TRUE, 2>>},
     n \in {<<>>, <<<<97>>, <<98>>>>}, v \in BOOLEAN, i \in {"sha256", "sha384"}}

MCSelves == {EcKey(9).point, ZeroLed.point}

Root == CertOf(<<114>>, EcKey(20), <<114>>, EcKey(20), TRUE, -1)
OtherRoot == CertOf(<<120>>, RsaKey(21), <<120>>, RsaKey(21), TRUE, 0)
\* A root renewed under its name with another key.
Renewed == CertOf(<<114>>, RsaKey(21), <<114>>, RsaKey(21), TRUE, -1)
Stores == {<<Root>>, <<OtherRoot, Root>>, <<[Root EXCEPT !.ca = FALSE], OtherRoot>>,
           <<Root, Renewed>>, <<Renewed, Root>>}
Uppers == {CertOf(<<117>>, EcKey(22), i, s, ca, n) :
             i \in {<<114>>, <<120>>}, s \in {EcKey(20), RsaKey(21)}, ca \in BOOLEAN, n \in {-1, 0, 1}}
Lowers == {CertOf(<<100>>, RsaKey(23), <<117>>, EcKey(22), ca, n) : ca \in BOOLEAN, n \in {-1, 0}}
LeafOf(issuer, signer) ==
  [CertOf(<<108>>, EcKey(24), issuer, signer, FALSE, -1) EXCEPT !.names = <<<<98>>, <<97>>>>]
Leaves ==
  {[LeafOf(<<117>>, EcKey(22)) EXCEPT !.alg = a, !.inner = i, !.names = n] :
     a \in {AlgOf("ecdsa", "sha256"), AlgOf("ecdsa", "sha384"), AlgOf("rsa", "sha256"), Unlisted},
     i \in {AlgOf("ecdsa", "sha256"), AlgOf("ecdsa", "sha384"), Unlisted}, n \in {<<>>, <<<<98>>>>}}

MCPaths ==
       {[certs |-> <<LeafOf(<<100>>, RsaKey(23)), l, u>>, roots |-> r] : l \in Lowers, u \in Uppers, r \in Stores}
  \union {[certs |-> <<f, u>>, roots |-> <<OtherRoot, Root>>] :
            f \in Leaves, u \in {c \in Uppers : c.ca /\ c.issuer = <<114>> /\ c.pathlen = 0}}
  \union {[certs |-> <<LeafOf(i, s)>>, roots |-> r] :
            i \in {<<114>>, <<120>>}, s \in {EcKey(20), RsaKey(21)}, r \in Stores}

MCHosts == UNION {[1 .. n -> {97, 65, 42, 46}] : n \in 0 .. 3} \union {<<97, 46, 97, 46, 97>>, <<42, 46, 97, 46, 97>>}
MCDer == {0, 1, 127, 128, 255, 256, 300}
MCRequestAlgs == {<<>>, Be16(1027), Be16(1027) \o Be16(2052)}

(***************************************************************************)
(* QPACK and HTTP/3.  The octets of the names and values the cases use;    *)
(* any other entry of the static table is told by its place in it.         *)
(***************************************************************************)
Spelled ==
  ":method" :> <<58, 109, 101, 116, 104, 111, 100>> @@ ":scheme" :> <<58, 115, 99, 104, 101, 109, 101>>
  @@ ":authority" :> <<58, 97, 117, 116, 104, 111, 114, 105, 116, 121>> @@ ":path" :> <<58, 112, 97, 116, 104>>
  @@ ":status" :> <<58, 115, 116, 97, 116, 117, 115>> @@ ":other" :> <<58, 120>>
  @@ "" :> <<>> @@ "/" :> <<47>> @@ "https" :> <<104, 116, 116, 112, 115>>
  @@ "GET" :> <<71, 69, 84>> @@ "HEAD" :> <<72, 69, 65, 68>> @@ "CONNECT" :> <<67, 79, 78, 78, 69, 67, 84>>
MCOctets(s) ==
  LET at == SelectInSeq(StaticTable, LAMBDA e : s \in {e[1], e[2]})
      statuses == {n \in 100 .. 599 : ToString(n) = s}
  IN  IF s \in DOMAIN Spelled THEN Spelled[s]
      ELSE IF at # 0 /\ StaticTable[at][1] = ":status" THEN StatusDigits(CHOOSE n \in statuses : TRUE)
      ELSE <<200, at, IF at # 0 /\ StaticTable[at][1] = s THEN 0 ELSE 1>>

QInts == {0, 1, 6, 7, 8, 14, 15, 16, 30, 31, 32, 62, 63, 64, 126, 127, 128, 134, 135, 254, 255, 256,
          382, 383, 16510, 16511, 2^21, 2^30}
MCQpack ==
  {[kind |-> "int", bits |-> n, v |-> x] : n \in 3 .. 8, x \in QInts}
  \union {[kind |-> k, bits |-> 0, v |-> x] : k \in {"string"}, x \in Datas \union {Fill(127, 1)}}
  \union {[kind |-> "indexed", bits |-> 0, v |-> <<i, t>>] : i \in {0, 62, 63, 98}, t \in BOOLEAN}
  \union {[kind |-> "namref", bits |-> 0, v |-> <<i, t, n, x>>] :
            i \in {0, 14, 15}, t \in BOOLEAN, n \in BOOLEAN, x \in Datas}
  \union {[kind |-> "litname", bits |-> 0, v |-> <<n, x, y>>] :
            n \in BOOLEAN, x \in Datas \union {Fill(7, 1), Fill(6, 1)}, y \in Datas}
  \union {[kind |-> "prefix", bits |-> 0, v |-> [ric |-> r, sign |-> s, delta |-> d]] :
            r \in {0, 127, 128, 255}, s \in BOOLEAN, d \in {0, 126, 127, 300}}
  \union {[kind |-> "enc", bits |-> 0, v |-> <<k, x>>] : k \in 1 .. 4, x \in QInts}
  \union {[kind |-> "dec", bits |-> 0, v |-> <<k, x>>] : k \in 1 .. 3, x \in QInts}
  \union {[kind |-> "insert", bits |-> 0, v |-> <<x, y>>] :
            x \in Datas \union {Fill(30, 1), Fill(31, 1)}, y \in Datas}

\* Every symbol alone; a code of each length next to short and long ones.
MCHuffman ==
  {<<>>} \union {<<s>> : s \in 0 .. 255}
  \union {<<a, b, c>> : a \in {48, 33, 10}, b \in {97, 38, 0, 92, 9, 255}, c \in {32, 58, 249}}

MCH3 ==
  {[kind |-> "one", type |-> t, v |-> x] : t \in {3, 7, 13}, x \in Edges}
  \union {[kind |-> "settings", pairs |-> [i \in 1 .. n |-> <<i * 60, x>>]] :
            n \in {0, 1, 2, 8, 9}, x \in {0, 64, 16384}}

Field(k, v) == <<k, v>>
MCRequests ==
  {[fields |-> <<Field(":method", m), Field(":scheme", Octets("https")), Field(":authority", a),
                 Field(":path", p)>>,
    others |-> o, first |-> f, skipped |-> k, literal |-> l, body |-> d, scap |-> c,
    enough |-> c = 512 /\ (l => o = <<>>)] :
     m \in {Octets("GET"), <<77, 79>>, Fill(16, 77)}, a \in {<<>>, <<104, 105>>},
     p \in {Octets("/"), <<47, 97>>}, o \in {<<>>, <<<<<<97, 98>>, <<99>>>>, <<<<100>>, <<>>>>>>},
     f \in BOOLEAN, k \in {0, 2}, l \in BOOLEAN, d \in {<<>>, <<1, 2>>}, c \in {40, 512}}
  \union {[fields |-> <<Field(":method", Octets("CONNECT")), Field(":authority", <<104>>)>>,
           others |-> <<>>, first |-> FALSE, skipped |-> k, literal |-> l, body |-> <<>>,
           scap |-> 512, enough |-> TRUE] : k \in {0, 1}, l \in BOOLEAN}

MCResponses ==
  {[status |-> s, method |-> Octets("GET"), body |-> <<>>] : s \in 100 .. 599}
  \union {[status |-> s, method |-> m, body |-> Fill(5, 6)] :
            s \in {200, 404, 418}, m \in {Octets("GET"), Octets("HEAD")}}

Seqs(S, n) == UNION {[1 .. k -> S] : k \in 0 .. n}
\* 33 is a type reserved to be ignored.
MCOrders == Seqs({H3_DATA, H3_HEADERS, H3_SETTINGS, 33}, 5)
MCControls ==
  Seqs({[kind |-> "open"], [kind |-> "closed"], [kind |-> "frame", settings |-> TRUE],
        [kind |-> "frame", settings |-> FALSE]} \union {[kind |-> "goaway", id |-> i] : i \in {0, 4}}, 4)
MCFields == Seqs({":method", ":scheme", ":path", ":authority", ":status", ":other", "age"}, 4)
MCTunnels ==
  Seqs({[call |-> "validate"], [call |-> "relay"], [call |-> "close"]}
       \union {[call |-> "answer", status |-> s] : s \in {199, 200, 299, 300}}, 4)

TableField(name, value, nlen, vlen) == [name |-> name, value |-> value, nlen |-> nlen, vlen |-> vlen]

\* Small fields of one name, one that needs most of the table, and three that are
\* refused: a long value, a long name, and one no empty table can hold.
SmallFields ==
  {TableField("a", 1, 1, 1), TableField("a", 2, 1, 1), TableField("b", 1, 1, 63), TableField("b", 2, 1, 101),
   TableField("long", 1, 21, 1), TableField("huge", 1, 20, 99)}
=============================================================================
