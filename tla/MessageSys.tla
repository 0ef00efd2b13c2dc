----------------------------- MODULE MessageSys -----------------------------
(***************************************************************************)
(* The cases of WireSys, and those of the TLS messages the packets carry.  *)
(***************************************************************************)
EXTENDS WireSys, Certs, H3Rules

CONSTANTS HelloCases, AnswerCases, ExtCases, ParamCases, ChainCases,
          DerCases, CertCases, SelfCases, PathCases, HostCases, RequestAlgCases

OfferHello == case = NoCase /\ \E h \in HelloCases : case' = [what |-> "hello", h |-> h]
AnswerHello == case = NoCase /\ \E h \in AnswerCases : case' = [what |-> "answer", h |-> h]
PutExt == case = NoCase /\ \E e \in ExtCases : case' = [what |-> "ext", e |-> e]
PutParams == case = NoCase /\ \E p \in ParamCases : case' = [what |-> "params", p |-> p]
SendChain == case = NoCase /\ \E c \in ChainCases : case' = [what |-> "chain", c |-> c]
PutDer == case = NoCase /\ \E n \in DerCases : case' = [what |-> "der", val |-> Fill(n, 7)]
ReadCert == case = NoCase /\ \E c \in CertCases : case' = [what |-> "cert", c |-> c]
SignSelf == case = NoCase /\ \E k \in SelfCases : case' = [what |-> "self", point |-> k]
CheckPath == case = NoCase /\ \E p \in PathCases : case' = [what |-> "certpath", p |-> p]
MatchHost == case = NoCase /\ \E h \in HostCases : case' = [what |-> "host", h |-> h]
AskCert == case = NoCase /\ \E a \in RequestAlgCases : case' = [what |-> "certreq", algs |-> a]

MessageNext ==
  \/ WireNext \/ OfferHello \/ AnswerHello \/ PutExt \/ PutParams \/ SendChain
  \/ PutDer \/ ReadCert \/ SignSelf \/ CheckPath \/ MatchHost \/ AskCert
MessageSpec == WireInit /\ [][MessageNext]_case

\* A message is written exactly when it fits.
FitsExactly(Build(_)) ==
  LET b == Build(Wide)
  IN  b # Nothing /\ \A cap \in 0 .. Len(b) : Build(cap) = IF cap = Len(b) THEN b ELSE Nothing

(***************************************************************************)
(* A ClientHello the client built gives every reader on the server's side  *)
(* what was put in: both key share readers, the search for the server      *)
(* name, the protocols and the transport parameters, the legacy checks and *)
(* the session id.  The message is complete at its last byte and not       *)
(* before, and no reader takes a share out of a part of it (clienthello.c  *)
(* against sdrv.c, tlsdriver.c, ch_ext.c, legacy_fields.c, hs_message.c).  *)
(***************************************************************************)
HelloReadBack ==
  case.what = "hello" =>
    LET h == case.h
        b == ClientHello(Wide, h.random, h.pub, h.sni, h.tp)
        sni == FindExtension(b, 0)
    IN  /\ FitsExactly(LAMBDA cap : ClientHello(cap, h.random, h.pub, h.sni, h.tp))
        /\ TakeClientKeyshare(b) = h.pub /\ ParseClientHelloKeyshare(b) = h.pub
        /\ IF h.sni = <<>> THEN ~sni.ok ELSE ExtractSni(sni.data) = [n |-> 3 + Len(h.sni), host |-> h.sni]
        /\ SelectH3(FindExtension(b, 16).data)
        /\ FindExtension(b, 57).data = h.tp
        /\ CheckClientHello(b) /\ SessionId(b) = [ok |-> TRUE, sid |-> <<>>]
        /\ HsMessageReady(b \o <<0, 0>>) = Len(b) /\ MessageComplete(Len(b), Len(b) - 4)
        /\ \A p \in Strict(b) :
             /\ HsMessageReady(p) = 0
             /\ TakeClientKeyshare(p) = Nothing /\ ParseClientHelloKeyshare(p) = Nothing

(***************************************************************************)
(* The server finds the x25519 share wherever it stands among the client's *)
(* shares, and the first of two (ext_keyshare.c, quic_tls_key_share_scan); *)
(* a list that overruns its extension gives none.                          *)
(***************************************************************************)
ShareFound ==
  case.what = "hello" =>
    LET h == case.h
        list == FlattenSeq([i \in DOMAIN h.others |-> Entry(h.others[i], Fill(i, 7))])
        d == Vec(2, list \o Entry(X25519, h.pub) \o Entry(X25519, h.random))
    IN  /\ KeyShareScan(d) = h.pub
        /\ \A p \in Strict(d) : KeyShareScan(p) = Nothing

(***************************************************************************)
(* A ServerHello reads back as it was built, in the full form and in the   *)
(* minimal one; a HelloRetryRequest, the same message with a fixed random, *)
(* is recognised and names its group, and the ServerHello reader refuses   *)
(* it, cookie or not, so it cannot be taken for the answer (shbuild.c,     *)
(* serverhello.c, hrr_build.c, hrr_detect.c, hrr_group.c).                 *)
(***************************************************************************)
RetryToldApart ==
  case.what = "answer" =>
    LET h == case.h
        sh == ServerHello(Wide, h.random, h.sid, h.cipher, h.pub)
        hrr == HrrBuild(Wide, h.group, h.cookie)
    IN  /\ ParseServerHello(sh) =
             [n |-> 1, pub |-> h.pub, cipher |-> h.cipher, version |-> TLS13]
        /\ ~IsHelloRetry(sh)
        /\ \A p \in Strict(sh) : ParseServerHello(p) = NoDec
        /\ FitsExactly(LAMBDA cap : ServerHello(cap, h.random, h.sid, h.cipher, h.pub))
        /\ IsHelloRetry(hrr) /\ SelectedGroup(hrr).group = h.group
        /\ ParseServerHello(hrr) = NoDec
        /\ FitsExactly(LAMBDA cap : HrrBuild(cap, h.group, h.cookie))
        /\ PeerShare(HsParse(BuildHello(Wide, SERVER_HELLO, h.random, h.pub)).body) = h.pub
        /\ CipherSupported(CipherSelect(h.offered)) = (\E i \in DOMAIN h.offered : h.offered[i] \in Suites)

(***************************************************************************)
(* The encoder and the decoder of an extension.                            *)
(***************************************************************************)
PutExtCase(cap, e) ==
  CASE e.kind = "sni" -> SniEncode(cap, e.v)
    [] e.kind = "alpn" -> AlpnEncode(cap, e.v)
    [] e.kind = "tpext" -> TpextEncode(cap, e.v)
    [] e.kind = "psk" -> PreSharedKey(cap, e.v)
    [] e.kind = "nst" -> EarlyDataNst(e.v, cap)
    [] e.kind = "int" -> TparamPutInt(cap, e.v[1], e.v[2])
    [] e.kind = "blob" -> TparamPutBlob(cap, 64, e.v)
    [] e.kind = "pa" -> PutPreferredAddress(cap, e.v)

GetExtCase(kind, b) ==
  LET d == CASE kind = "sni" -> SniDecode(b)
             [] kind = "alpn" -> AlpnDecodeFirst(b)
             [] kind = "tpext" -> TpextDecode(b)
             [] kind = "psk" -> PreSharedKeyParse(b)
             [] kind = "nst" -> EarlyDataNstParse(b)
             [] kind = "int" -> TparamGetInt(b)
             [] kind = "blob" -> TparamGetBlob(b)
             [] kind = "pa" -> GetPreferredAddress(b)
  IN  IF d.n = 0 THEN NoDec
      ELSE [n |-> d.n,
            v |-> CASE kind = "sni" -> d.host [] kind = "alpn" -> d.proto [] kind = "tpext" -> d.tp
                    [] kind = "psk" -> d.offer [] kind = "nst" -> d.max
                    [] kind = "int" -> <<d.id, d.value>> [] kind = "blob" -> d.val
                    [] kind = "pa" -> d.pa]

(***************************************************************************)
(* An extension or a transport parameter is read back as it was written,   *)
(* all its bytes used; cut short anywhere it is refused; it is written     *)
(* exactly when it fits (sni.c, alpn.c, tpext.c, preshared.c, earlydata.c, *)
(* tparam.c, tpblob.c).                                                    *)
(***************************************************************************)
ExtRoundTrip ==
  case.what = "ext" =>
    LET e == case.e
        b == PutExtCase(Wide, e)
    IN  /\ GetExtCase(e.kind, b) = [n |-> Len(b), v |-> e.v]
        /\ GetExtCase(e.kind, b \o <<1>>) = [n |-> Len(b), v |-> e.v]
        /\ \A p \in Strict(b) : GetExtCase(e.kind, p) = NoDec
        /\ FitsExactly(LAMBDA cap : PutExtCase(cap, e))

(***************************************************************************)
(* The value of a preferred_address fills the parameter: one with a byte   *)
(* missing or left over is refused (pa_parse_value, tpblob.c).             *)
(***************************************************************************)
AddressFillsParameter ==
  case.what = "ext" /\ case.e.kind = "pa" =>
    \A v \in {PaValue(case.e.v) \o <<0>>, Slice(PaValue(case.e.v), 0, Len(PaValue(case.e.v)) - 1)} :
      GetPreferredAddress(TparamPutBlob(Wide, 13, v)) = NoDec

(***************************************************************************)
(* The transport parameters of the server, inside EncryptedExtensions,     *)
(* give each parameter it set and no other; a list cut short gives the     *)
(* same value for a parameter or none, never another one (server_tp.c,     *)
(* eebuild.c, parse_tp.c); the grease parameter before them changes        *)
(* nothing.  A client that followed a Retry accepts exactly the list that  *)
(* has the id of the Retry, another client exactly the list that has none  *)
(* (tpcheck.c, rscid.c).                                                   *)
(***************************************************************************)
ParamsReadBack ==
  case.what = "params" =>
    LET p == case.p
        tp == BuildServerTp(Wide, p.odcid, p.iscid)
        ee == EncryptedExtensions(Wide, tp)
        seen == Exts(Drop(BodyOf(ee, ENCRYPTED_EXT), 2))
        list == OfType(seen, 57)[1].data
        ids == {IntParams[i][1] : i \in DOMAIN IntParams}
    IN  /\ seen.ok /\ AlpnDecodeFirst(OfType(seen, 16)[1].data).proto = H3
        /\ \A i \in DOMAIN IntParams : StpParse(list, IntParams[i][1]).value = IntParams[i][2]
        /\ StpParse(list, 0).bytes = p.odcid /\ StpParse(list, 15).bytes = p.iscid
        /\ \A id \in (0 .. 16) \ (ids \union {0, 15}) : ~StpParse(list, id).ok
        /\ \A id \in ids \union {0, 2, 15} :
             /\ StpParse(GreaseEncode(Wide) \o list, id) = StpParse(list, id)
             /\ \A q \in Strict(list) :
                  StpParse(q, id).ok => StpParse(q, id) = StpParse(list, id)
        /\ GreaseDecode(GreaseEncode(Wide) \o list) = Len(GreaseEncode(Wide))
        /\ OfType(Exts(Drop(BodyOf(SflightEncext(Wide, tp), ENCRYPTED_EXT), 2)), 57)[1].data = tp
        /\ FitsExactly(LAMBDA cap : BuildServerTp(cap, p.odcid, p.iscid))
        /\ \A sent, followed \in BOOLEAN :
             LET got == StpParse(IF sent THEN list \o TparamPutBlob(Wide, 16, p.iscid) ELSE list, 16)
                 id == IF got.ok THEN got.bytes ELSE <<>>
             IN  /\ CheckRetryScid(followed, got.ok, id, p.iscid) = (sent = followed)
                 /\ TpverifyRscid(followed, p.odcid, id, got.ok) =
                      (sent = followed /\ (sent => p.odcid = p.iscid))

(***************************************************************************)
(* The whole chain is read leaf first, one entry for each certificate the  *)
(* server sent, or refused when it has more than the table holds; the      *)
(* reader of the leaf agrees with it; cut short anywhere nothing is read   *)
(* (sflight/certmsg.c, cert.c).                                            *)
(***************************************************************************)
ChainReadBack ==
  case.what = "chain" =>
    LET c == case.c
        entry(i) == Vec(3, c[i]) \o Vec(2, Fill(i - 1, 6))
        body == <<0>> \o Vec(3, FlattenSeq([i \in DOMAIN c |-> entry(i)]))
    IN  /\ CertChain(body) =
             IF Len(c) <= CertChainMax THEN [ok |-> TRUE, certs |-> c] ELSE NoTake
        /\ CertParse(body).v = c[1]
        /\ \A q \in Strict(body) : ~CertChain(q).ok /\ ~CertParse(q).ok
        /\ Len(c) = 1 => BodyOf(CertificateMsg(Wide, c[1]), CERTIFICATE) = body
        /\ CertverifyParse(BodyOf(CertVerifyMsg(2055, c[1]), CERT_VERIFY)) =
             [ok |-> TRUE, scheme |-> 2055, sig |-> c[1]]

\* The TLS messages are read as they were written, by every reader they have.
TlsReadBack ==
  [][/\ HelloReadBack /\ ShareFound /\ RetryToldApart /\ ExtRoundTrip
     /\ AddressFillsParameter /\ ParamsReadBack /\ ChainReadBack]_case

(***************************************************************************)
(* A certificate an authority issues: the fields of c, signed by the key   *)
(* c.signer with the algorithm c.alg, c.inner being the one named inside.  *)
(***************************************************************************)
Dn(cn) == Tlv(SEQUENCE, Tlv(SET_TAG, Tlv(SEQUENCE, Tlv(OID, <<85, 4, 3>>) \o Tlv(UTF8, cn))))
Spki(key) ==
  IF key.kind = "ecdsa" THEN P256Spki(key.point)
  ELSE Tlv(SEQUENCE, Tlv(SEQUENCE, Tlv(OID, OidRsa) \o <<5, 0>>)
         \o Tlv(BIT_STRING, <<0>> \o Tlv(SEQUENCE, Tlv(INTEGER, <<0>> \o key.n) \o Tlv(INTEGER, key.e))))

CriticalExt(oid, val) ==
  Tlv(SEQUENCE, Tlv(OID, oid) \o Tlv(BOOLEAN_TAG, <<255>>) \o Tlv(OCTET_STRING, Tlv(SEQUENCE, val)))
IssuedExtensions(c) ==
  LET cA == IF c.ca THEN Tlv(BOOLEAN_TAG, <<255>>) ELSE <<>>
      len == IF c.pathlen >= 0 THEN Tlv(INTEGER, <<c.pathlen>>) ELSE <<>>
      names == FlattenSeq([i \in DOMAIN c.names |-> Tlv(DNSNAME, c.names[i])])
      exts == (IF c.ca THEN CriticalExt(OidBc, cA \o len) ELSE <<>>)
              \o (IF names = <<>> THEN <<>> ELSE CriticalExt(OidSan, Tlv(129, <<7>>) \o names))
  IN  IF exts = <<>> THEN <<>> ELSE Tlv(EXTENSIONS_TAG, Tlv(SEQUENCE, exts))

IssuedTbs(c) ==
  Tlv(SEQUENCE, (IF c.v1 THEN <<>> ELSE <<160, 3, 2, 1, 2>>) \o Tlv(INTEGER, c.serial)
    \o Tlv(SEQUENCE, Tlv(OID, c.inner.oid)) \o Dn(c.issuer)
    \o Tlv(SEQUENCE, Tlv(c.from.tag, c.from.val) \o Tlv(c.to.tag, c.to.val))
    \o Dn(c.subject) \o Spki(c.key) \o IssuedExtensions(c))
IssuedSig(c) ==
  LET hash == Digest(c.alg.hash, IssuedTbs(c))
  IN  IF c.signer.kind = "ecdsa" THEN EcdsaSigEncode(EcSig(c.signer.point, Slice(hash, 0, 32)))
      ELSE RsaSig("pkcs1", <<c.signer.n, c.signer.e>>, hash)
Issued(c) ==
  Tlv(SEQUENCE, IssuedTbs(c) \o Tlv(SEQUENCE, Tlv(OID, c.alg.oid)) \o Tlv(BIT_STRING, <<0>> \o IssuedSig(c)))

(***************************************************************************)
(* An element is read back whatever the class of its length, and is        *)
(* written exactly when it fits (derenc.c, der.c).                         *)
(***************************************************************************)
DerReadBack ==
  case.what = "der" =>
    LET b == Tlv(OCTET_STRING, case.val)
    IN  /\ DerRead(b \o <<1>>) = [n |-> Len(b), tag |-> OCTET_STRING, val |-> case.val]
        /\ \A q \in Strict(b) : DerRead(q).n = 0
        /\ FitsExactly(LAMBDA cap : DerTlv(cap, OCTET_STRING, case.val))

(***************************************************************************)
(* Each reader of a certificate, the five that walk it with a cursor of    *)
(* their own and the one that takes it apart, finds what the authority put *)
(* in, with and without the optional version and extensions; a certificate *)
(* cut short anywhere is refused (x509.c, chain.c, spki.c, validity.c,     *)
(* basicconstraints.c, tbscert/fields.c).                                  *)
(***************************************************************************)
CertReadBack ==
  case.what = "cert" =>
    LET c == case.c
        b == Issued(c)
        x == X509Parse(b)
        t == TbscertParse(x.tbs)
        k == PublicKey(x.tbs)
    IN  /\ x = [n |-> 1, tbs |-> IssuedTbs(c), alg |-> c.alg.oid, sig |-> <<0>> \o IssuedSig(c)]
        /\ Issuer(x.tbs) = Dn(c.issuer) /\ Subject(x.tbs) = Dn(c.subject)
        /\ DerRead(Issuer(x.tbs)).val = t.issuer /\ DerRead(Subject(x.tbs)).val = t.subject
        /\ Tlv(SEQUENCE, t.spki) = Spki(c.key)
        /\ IF c.key.kind = "ecdsa" THEN k.alg = OidEc /\ EcPubkey(k.key) = c.key.point
           ELSE k.alg = OidRsa /\ RsaPubkey(k.key) = [ok |-> TRUE, key |-> <<c.key.n, c.key.e>>]
        /\ TbsVersion(t).v = (IF c.v1 THEN 0 ELSE 2) /\ TbsSerial(t) = c.serial
        /\ TbsSigalgMatches(t, c.alg.oid) = (c.inner = c.alg)
        /\ IsCa(x.tbs) = c.ca
        /\ \A depth \in 0 .. 3 : PathlenAllows(x.tbs, depth) = (c.ca /\ c.pathlen >= 0 => depth <= c.pathlen)
        /\ \A now \in {c.first, c.last} : ValidityOk(x.tbs, now)
        /\ ~ValidityOk(x.tbs, c.before) /\ ~ValidityOk(x.tbs, c.after)
        /\ \A q \in Strict(b) : X509Parse(q).n = 0
        /\ \A q \in Strict(x.tbs) : Issuer(q) = Nothing /\ PublicKey(q).n = 0 /\ TbscertParse(q).n = 0

(***************************************************************************)
(* The certificate a server makes for itself is one its client can use:    *)
(* both kinds read back, are in time until the last second of their        *)
(* window, and carry the key that verifies the CertificateVerify of that   *)
(* server over the same transcript and over no other, by that scheme only  *)
(* (p256cert.c, selfcert.c, cvecdsa.c, certverify_build.c, certverify.c).  *)
(* The P-256 one names localhost and stands as its own signer; the Ed25519 *)
(* one has no name, and no chain can end in it.  The integers of a         *)
(* signature are positive and minimal (der_int.c).                         *)
(***************************************************************************)
SelfSignedUsable ==
  case.what = "self" =>
    LET point == case.point
        pub == Slice(point, 0, 32)
        th == Slice(point, 16, 32)
        certs == [p256 |-> P256Cert(Wide, point), ed |-> SelfCert(Wide, pub)]
        msgs == [p256 |-> CvecdsaBuild(Wide, point, th), ed |-> SflightCertVerify(Wide, pub, th)]
        schemes == [p256 |-> ECDSA_P256, ed |-> ED25519]
        sig(w) == CertverifyParse(BodyOf(msgs[w], CERT_VERIFY))
        tbs(w) == X509Parse(certs[w]).tbs
    IN  /\ \A w \in {"p256", "ed"} :
             /\ Issuer(tbs(w)) = SelfName /\ Subject(tbs(w)) = SelfName /\ ~IsCa(tbs(w))
             /\ ValidityOk(tbs(w), <<50, 48>> \o Slice(FirstOfJanuary(<<51, 48>>), 0, 12))
             /\ sig(w).scheme = schemes[w]
             /\ \A v \in {"p256", "ed"}, s \in {ECDSA_P256, RSA_PSS, ED25519}, h \in {th, pub} :
                  VerifyCertSignature(s, certs[v], sig(w).sig, h) = (v = w /\ s = schemes[w] /\ h = th)
        /\ SanMatches(tbs("p256"), Localhost) /\ ~SanMatches(tbs("ed"), Localhost)
        /\ VerifySignedBy(certs["p256"], certs["p256"]) /\ ~VerifySignedBy(certs["ed"], certs["ed"])
        /\ EcdsaSplit(EcdsaSigEncode(point)) = point
        /\ \A e \in Range(Els(ReadSeq(EcdsaSigEncode(point)).val)) :
             e.val[1] < 128 /\ (Len(e.val) > 1 /\ e.val[1] = 0 => e.val[2] >= 128)
        /\ FitsExactly(LAMBDA cap : P256Cert(cap, point)) /\ FitsExactly(LAMBDA cap : SelfCert(cap, pub))

(***************************************************************************)
(* The path a client may rely on: every certificate is signed by the key   *)
(* of the next one, under its name, with an algorithm of that key's kind   *)
(* that is named twice alike; each of those is an authority and admits the *)
(* intermediates below it; the last is signed by an authority in the       *)
(* store.  Only the first root of a name is ever tried (castore.c:44-48),  *)
(* so a root that shares its name with an earlier one anchors nothing,     *)
(* where pathvalidate.h:10-12 asks for a root that signs the tail.         *)
(***************************************************************************)
SignedUnder(child, parent) ==
  /\ child.issuer = parent.subject /\ parent.ca /\ child.signer = parent.key
  /\ child.alg \in CertSigAlgs /\ child.inner = child.alg /\ child.alg.kind = parent.key.kind

Reliable(roots, certs) ==
  /\ certs # <<>>
  /\ \A i \in 2 .. Len(certs) :
       SignedUnder(certs[i - 1], certs[i]) /\ (certs[i].pathlen >= 0 => certs[i].pathlen >= i - 2)
  /\ \E i \in DOMAIN roots :
       /\ SignedUnder(certs[Len(certs)], roots[i])
       /\ \A j \in 1 .. i - 1 : roots[j].subject # roots[i].subject

(***************************************************************************)
(* A client accepts a chain exactly when it may rely on the path (when it  *)
(* has a store), the leaf is in time (when it has a clock) and has the     *)
(* host among its names (when it has one); what does not parse never gets  *)
(* into a store, nor more than it holds (castore.c, pathvalidate.c,        *)
(* chainverify.c, fullhs_cert_checks in fullhs.c).                         *)
(***************************************************************************)
ChainAccepted ==
  case.what = "certpath" =>
    LET p == case.p
        certs == [i \in DOMAIN p.certs |-> Issued(p.certs[i])]
        given == [i \in DOMAIN p.roots |-> Issued(p.roots[i])]
        store == FoldLeft(LAMBDA s, r : CastoreAdd(s, 2, r), <<>>, <<Drop(given[1], 1)>> \o given \o given)
        leaf == p.certs[1]
        rely == Reliable(p.roots, p.certs)
    IN  /\ store = SubSeq(given \o given, 1, 2)
        /\ ValidateChain(store, certs) = rely /\ ~ValidateChain(<<>>, certs)
        /\ \A now \in {<<>>, leaf.before, leaf.last}, host \in {<<>>, <<97>>, <<98>>}, set \in BOOLEAN :
             AcceptChain([now |-> now, host |-> host, store |-> set, roots |-> store], certs) =
               /\ set => rely
               /\ now # leaf.before
               /\ host = <<>> \/ \E i \in DOMAIN leaf.names : leaf.names[i] = host

\* The labels of a name.
RECURSIVE Labels(_)
Labels(s) ==
  LET n == FirstDot(s)
  IN  IF n = Len(s) THEN <<s>> ELSE <<Slice(s, 0, n)>> \o Labels(Drop(s, n + 1))

(***************************************************************************)
(* A name in a certificate stands for a host when their labels are equal   *)
(* but for case, or when the first is "*" and only the others are: a       *)
(* wildcard never covers two labels, and none (san.c, entry_matches).      *)
(***************************************************************************)
HostByLabels ==
  case.what = "host" =>
    \A entry \in HostCases :
      LET e == Labels(entry)
          h == Labels(case.h)
          same(i) == DnsEq(e[i], h[i])
      IN  EntryMatches(entry, case.h) =
            /\ Len(e) = Len(h) /\ \A i \in 2 .. Len(e) : same(i)
            /\ same(1) \/ (e[1] = <<42>> /\ Len(e) >= 2)

(***************************************************************************)
(* A CertificateRequest gives back its signature algorithms, and nothing   *)
(* when it is cut short (certreq.c).                                       *)
(***************************************************************************)
CertreqReadBack ==
  case.what = "certreq" =>
    LET b == CertreqBuild(Wide, case.algs)
    IN  /\ CertreqParse(b) = [ok |-> TRUE, ctx |-> <<>>, algs |-> case.algs]
        /\ \A q \in Strict(b) : ~CertreqParse(q).ok
        /\ FitsExactly(LAMBDA cap : CertreqBuild(cap, case.algs))

\* Certificates are read, matched and trusted as they were issued.
CertsTrusted ==
  [][/\ DerReadBack /\ CertReadBack /\ SelfSignedUsable
     /\ ChainAccepted /\ HostByLabels /\ CertreqReadBack]_case

(***************************************************************************)
(* The cases of MessageSys, and those of QPACK and HTTP/3: messages one    *)
(* end writes and the other reads, and sequences of events the rules on    *)
(* order are run over.                                                     *)
(***************************************************************************)

CONSTANTS QpackCases, HuffmanCases, H3Cases, RequestCases, ResponseCases,
          OrderCases, ControlCases, FieldCases, TunnelCases

PutQpack == case = NoCase /\ \E q \in QpackCases : case' = [what |-> "qpack", q |-> q]
PutHuffman == case = NoCase /\ \E s \in HuffmanCases : case' = [what |-> "huffman", s |-> s]
PutH3 == case = NoCase /\ \E f \in H3Cases : case' = [what |-> "h3", f |-> f]
Ask == case = NoCase /\ \E r \in RequestCases : case' = [what |-> "request", r |-> r]
Answer == case = NoCase /\ \E r \in ResponseCases : case' = [what |-> "response", r |-> r]
RunOrder == case = NoCase /\ \E es \in OrderCases : case' = [what |-> "order", es |-> es]
RunControl == case = NoCase /\ \E es \in ControlCases : case' = [what |-> "control", es |-> es]
RunFields == case = NoCase /\ \E es \in FieldCases : case' = [what |-> "fields", es |-> es]
RunTunnel == case = NoCase /\ \E es \in TunnelCases : case' = [what |-> "tunnel", es |-> es]

HttpNext ==
  \/ MessageNext \/ PutQpack \/ PutHuffman \/ PutH3 \/ Ask \/ Answer
  \/ RunOrder \/ RunControl \/ RunFields \/ RunTunnel
HttpSpec == WireInit /\ [][HttpNext]_case

(***************************************************************************)
(* The encoder and the decoder of a QPACK representation.                  *)
(***************************************************************************)
PutQpackCase(cap, q) ==
  CASE q.kind = "int" -> IntEncode(cap, q.bits, 0, q.v)
    [] q.kind = "string" -> StringEncode(cap, q.v)
    [] q.kind = "indexed" -> IndexedEncode(cap, q.v[1], q.v[2])
    [] q.kind = "namref" -> NamrefEncode(cap, q.v[1], q.v[2], q.v[3], q.v[4])
    [] q.kind = "litname" -> LitnameEncode(cap, q.v[1], q.v[2], q.v[3])
    [] q.kind = "prefix" -> PrefixEncode(cap, q.v)
    [] q.kind = "enc" -> InstrEncode(cap, EncSpecs[q.v[1]], q.v[2])
    [] q.kind = "dec" -> InstrEncode(cap, DecSpecs[q.v[1]], q.v[2])
    [] q.kind = "insert" -> InsertLiteral(cap, q.v[1], q.v[2])

GetQpackCase(kind, bits, b) ==
  LET d == CASE kind = "int" -> IntDecode(b, bits)
             [] kind = "string" -> StringDecode(b, Wide)
             [] kind = "indexed" -> IndexedDecode(b)
             [] kind = "namref" -> NamrefDecode(b, Wide)
             [] kind = "litname" -> LitnameDecode(b, Wide, Wide)
             [] kind = "prefix" -> PrefixDecode(b)
             [] kind = "enc" -> InstrDecode(b, EncSpecs)
             [] kind = "dec" -> InstrDecode(b, DecSpecs)
  IN  IF d.n = 0 THEN NoDec
      ELSE [n |-> d.n,
            v |-> CASE kind \in {"int", "prefix"} -> d.v
                    [] kind = "string" -> d.val
                    [] kind = "indexed" -> <<d.index, d.static>>
                    [] kind = "namref" -> <<d.index, d.static, d.never, d.val>>
                    [] kind = "litname" -> <<d.never, d.name, d.val>>
                    [] kind \in {"enc", "dec"} -> <<d.kind, d.v>>]

(***************************************************************************)
(* An integer, a string, a field line, a section prefix or an instruction  *)
(* is read back as it was written, on both sides of the prefix threshold,  *)
(* and refused when cut short; it is written exactly when it fits; and the *)
(* three forms of a field line are told apart by their first byte, so that *)
(* trying the decoders in turn finds the one form it is (integer.c,        *)
(* string.c, fieldline.c, literal.c, prefix.c, instruction.c).             *)
(***************************************************************************)
QpackRoundTrip ==
  case.what = "qpack" /\ case.q.kind # "insert" =>
    LET q == case.q
        b == PutQpackCase(Wide, q)
        lines == {"indexed", "namref", "litname"}
    IN  /\ GetQpackCase(q.kind, q.bits, b \o <<255>>) = [n |-> Len(b), v |-> q.v]
        /\ \A p \in Strict(b) : GetQpackCase(q.kind, q.bits, p) = NoDec
        /\ FitsExactly(LAMBDA cap : PutQpackCase(cap, q))
        /\ q.kind \in lines => \A k \in lines \ {q.kind} : GetQpackCase(k, 0, b) = NoDec

(***************************************************************************)
(* The insertion the encoder sends is known as one, its integer is the     *)
(* length of the name, and the value follows the name (insert_encode.c     *)
(* against instruction.c and string.c).                                    *)
(***************************************************************************)
InsertionRecognised ==
  case.what = "qpack" /\ case.q.kind = "insert" =>
    LET q == case.q
        b == PutQpackCase(Wide, q)
        d == InstrDecode(b, EncSpecs)
    IN  /\ d.n # 0 /\ d.kind = 3 /\ d.v = Len(q.v[1])
        /\ Slice(b, d.n, d.v) = q.v[1]
        /\ StringDecode(Drop(b, d.n + d.v), Wide) =
             [n |-> Len(b) - d.n - d.v, val |-> q.v[2]]
        /\ FitsExactly(LAMBDA cap : PutQpackCase(cap, q))

(***************************************************************************)
(* The Huffman encoding of symbols by the canonical code: the shortest     *)
(* length whose run of symbols holds the symbol, padded with ones.         *)
(***************************************************************************)
CodeOf(sym) ==
  LET at == SelectInSeq(HSYM, LAMBDA s : s = sym) - 1
      L == CHOOSE l \in 1 .. HUFF_MAXLEN :
             HCNT[l + 1] # 0 /\ HIDX[l + 1] <= at /\ at < HIDX[l + 1] + HCNT[l + 1]
      code == HFIRST[L + 1] + (at - HIDX[L + 1])
  IN  [i \in 1 .. L |-> (code \div 2^(L - i)) % 2]
PaddedBits(bits, x) == bits \o Fill((8 - (Len(bits) % 8)) % 8, x)
Packed(bits) ==
  [i \in 1 .. Len(bits) \div 8 |->
     FoldLeft(LAMBDA v, x : 2 * v + x, 0, Slice(bits, 8 * (i - 1), 8))]

(***************************************************************************)
(* The tables form one complete canonical code: every length starts where  *)
(* the shorter codes end, each symbol occurs once, and no bit string is    *)
(* left without a code (huffman.c, HFIRST, HIDX, HCNT, HSYM).  Any symbols *)
(* so encoded come out of the decoder, in room for exactly them; with      *)
(* another octet of padding, padding of zeros or the end-of-string code    *)
(* the string is refused.                                                  *)
(***************************************************************************)
HuffmanExact ==
  case.what = "huffman" =>
    LET bits == FlattenSeq([i \in DOMAIN case.s |-> CodeOf(case.s[i])])
        src == Packed(PaddedBits(bits, 1))
        pad == (8 - (Len(bits) % 8)) % 8
    IN  /\ \A L \in 1 .. HUFF_MAXLEN - 1 :
             /\ HFIRST[L + 2] = 2 * (HFIRST[L + 1] + HCNT[L + 1])
             /\ HIDX[L + 2] = HIDX[L + 1] + HCNT[L + 1]
        /\ HFIRST[HUFF_MAXLEN + 1] + HCNT[HUFF_MAXLEN + 1] = 2^HUFF_MAXLEN
        /\ Len(HSYM) = 257 /\ {HSYM[i] : i \in DOMAIN HSYM} = 0 .. 256
        /\ HuffmanDecode(src, Len(case.s)) = [ok |-> TRUE, out |-> case.s]
        /\ case.s # <<>> => HuffmanDecode(src, Len(case.s) - 1) = NoTake
        /\ HuffmanDecode(src \o <<255>>, Wide) = NoTake
        /\ pad \in 1 .. 4 => HuffmanDecode(Packed(PaddedBits(bits, 0)), Wide) = NoTake
        /\ HuffmanDecode(Packed(PaddedBits(bits \o CodeOf(256), 1)), Wide) = NoTake

(***************************************************************************)
(* The frames of HTTP/3 with one integer, SETTINGS and the control stream  *)
(* are read back as written and refused when cut short; a frame whose      *)
(* Length is not that of its integer is refused; a table with too many     *)
(* pairs is neither written nor read; a cancelled request gives up both    *)
(* directions (frame.c, settings_build.c, establish.c, cancel.c).          *)
(***************************************************************************)
H3RoundTrip ==
  case.what = "h3" =>
    LET f == case.f
        b == IF f.kind = "one" THEN H3OnePut(Wide, f.type, f.v) ELSE SettingsPut(Wide, f.pairs)
        get(x) == IF f.kind = "one" THEN H3OneGet(x, f.type) ELSE SettingsGet(x)
    IN  /\ f.kind = "one" =>
             /\ get(b) = [n |-> Len(b), v |-> f.v]
             /\ H3FrameGet(b) = [n |-> Len(b), type |-> f.type, payload |-> VarintEncode(f.v)]
             /\ H3OneGet(b, f.type + 1) = NoDec
             /\ H3OneGet(PutVarints(Wide, <<f.type, VarintLen(f.v) + 1, f.v>>, <<0>>), f.type) = NoDec
             /\ FitsExactly(LAMBDA cap : H3OnePut(cap, f.type, f.v))
             /\ LET c == CancelRequest(Wide, f.v, 7)
                    stop == Drop(c, DecReset(c).n)
                IN  /\ DecReset(c).f = [kind |-> "reset", id |-> f.v, code |-> 268, size |-> 7]
                    /\ DecStopSending(stop) =
                         Got(Len(stop), [kind |-> "stop_sending", id |-> f.v, code |-> 268])
        /\ f.kind = "settings" =>
             IF Len(f.pairs) > SettingsMax
             THEN /\ b = Nothing
                  /\ SettingsGet(H3FramePut(Wide, H3_SETTINGS,
                       PutVarints(Wide, FlattenSeq(f.pairs), <<>>))) = NoDec
             ELSE /\ get(b) = [n |-> Len(b), pairs |-> f.pairs]
                  /\ PeerSettingsOk(<<0>> \o b)
                  /\ FitsExactly(LAMBDA cap : SettingsPut(cap, f.pairs))
        /\ \A p \in Strict(b) : get(p) = NoDec /\ ~PeerSettingsOk(<<0>> \o p)
        /\ PeerSettingsOk(ControlStream(Wide)) /\ FitsExactly(ControlStream)

(***************************************************************************)
(* A request as a peer may lay it out: other frames before HEADERS and     *)
(* between HEADERS and DATA, other fields among the pseudo-headers, and    *)
(* the pseudo-headers perhaps with literal names.                          *)
(***************************************************************************)
LiteralSection(fields) ==
  <<0, 0>> \o FlattenSeq([i \in DOMAIN fields |-> EncHeader(Wide, Octets(fields[i][1]), fields[i][2])])
Skipped(n) == FlattenSeq([i \in 1 .. n |-> H3FramePut(Wide, 33 + 31 * i, Fill(i, 1))])
LaidOut(r) ==
  LET own == IF r.literal THEN LiteralSection(r.fields) ELSE PutSection(Wide, r.fields)
      others == FlattenSeq([i \in DOMAIN r.others |-> EncHeader(Wide, r.others[i][1], r.others[i][2])])
      fs == IF r.first THEN Slice(own, 0, 2) \o others \o Drop(own, 2) ELSE own \o others
      h3 == Skipped(r.skipped) \o H3FramePut(Wide, H3_HEADERS, fs) \o Skipped(r.skipped)
  IN  H3StreamFrame(Wide, 0, AppendBody(Wide, h3, r.body))

ReadAs(r, got) ==
  /\ got.body = r.body
  /\ \A i \in DOMAIN r.fields : got.fields[r.fields[i][1]] = [ok |-> TRUE, v |-> r.fields[i][2]]
  /\ \A k \in RequestPseudo :
       got.fields[k].ok = (\E i \in DOMAIN r.fields : r.fields[i][1] = k)

(***************************************************************************)
(* The server reads from a request the pseudo-headers and the body the     *)
(* client put in, through the static table or as literals, whatever frames *)
(* and other fields surround them, and with the scratch it has: a later    *)
(* line never overwrites the octets an earlier field still shows.  With    *)
(* less scratch it refuses the request or reads the same; cut short, it is *)
(* refused or, before DATA, read with no body.  A CONNECT is one exactly   *)
(* when it has no scheme and path, and is then no request to pseudoheader.c*)
(* (pseudo_encode.c, request_drive.c, request_parse.c, connect.c).         *)
(***************************************************************************)
RequestReadBack ==
  case.what = "request" =>
    LET r == case.r
        b == LaidOut(r)
        v(k) == r.fields[SelectInSeq(r.fields, LAMBDA f : f[1] = k)][2]
        whole == [r EXCEPT !.others = <<>>, !.skipped = 0, !.literal = FALSE]
        plain == SendMethod(Wide, 0, v(":method"), v(":path"), v(":authority"), r.body)
        names == [i \in DOMAIN r.fields |-> Octets(r.fields[i][1])]
    IN  /\ LET got == RecvGet(b, r.scap)
           IN  /\ r.enough => got.ok
               /\ got.ok => /\ ReadAs(r, got)
                            /\ ConnectReqOk(got.fields) = (Len(r.fields) = 2)
                            /\ ConnectReqOk(got.fields) # PhRequestOk(FoldLeft(PhField, PhInit, names))
        /\ \A p \in Strict(DecStream(b).f.data) :
             LET got == RecvGet(H3StreamFrame(Wide, 0, p), r.scap)
             IN  got.ok => ReadAs([r EXCEPT !.body = <<>>], got)
        /\ Len(r.fields) = 4 /\ r.scap >= 512 => LaidOut(whole) = plain
        /\ Len(r.fields) = 2 =>
             LaidOut(whole) = SendRequest(Wide, 0, EncConnect(Wide, v(":authority")), r.body)
        /\ RecvFirstHeaders(DecStream(b).f.data).ok = (r.skipped = 0)

(***************************************************************************)
(* The client reads from a response the status and the body the server     *)
(* gave, for every status; a HEAD request is answered without the body;    *)
(* and nothing is sent before the server has sent its SETTINGS and seen a  *)
(* request (resp_build.c, field_encode.c, h3srv/respond.c, response.c).    *)
(***************************************************************************)
ResponseReadBack ==
  case.what = "response" =>
    LET r == case.r
        asked == SendMethod(Wide, 0, r.method, Octets("/"), <<104>>, <<>>)
        ready == SrvOnRequest(SrvOpenControl(H3SrvInit, Wide), asked, 512)
        b == BuildResponseForMethod(ready, Wide, 0, r.method, r.status, r.body)
    IN  /\ RecvResponse(b) = [ok |-> TRUE, status |-> r.status,
                              body |-> IF r.method = Octets("HEAD") THEN <<>> ELSE r.body]
        /\ \A p \in Strict(DecStream(b).f.data) :
             LET got == RecvResponse(H3StreamFrame(Wide, 0, p))
             IN  got.ok => got = [ok |-> TRUE, status |-> r.status, body |-> <<>>]
        /\ \A st \in {H3SrvInit, SrvOpenControl(H3SrvInit, Wide), SrvOnRequest(H3SrvInit, asked, 512),
                      SrvOnRequest(SrvOpenControl(H3SrvInit, 3), asked, 512)} :
             BuildResponseForMethod(st, Wide, 0, r.method, r.status, r.body) = Nothing
        /\ FitsExactly(LAMBDA cap : BuildResponseForMethod(ready, cap, 0, r.method, r.status, r.body))

(***************************************************************************)
(* A step run over a sequence of events until one is refused.              *)
(***************************************************************************)
RunSteps(st, es, Do(_, _)) ==
  FoldLeft(LAMBDA r, e : IF ~r.ok THEN r
                         ELSE [ok |-> Do(r.st, e).ok, st |-> Do(r.st, e).st, at |-> r.at + 1],
           [ok |-> TRUE, st |-> st, at |-> 0], es)

(***************************************************************************)
(* The two readers of the order of frames on a request stream, by          *)
(* conditions (reqstream.c) and by tables (reqorder.c), refuse the same    *)
(* frame of every sequence, and accept exactly HEADERS, any DATA, and      *)
(* perhaps HEADERS again; both stay usable after a refusal, in the state   *)
(* before it; and no frame they accept is one the stream may not carry     *)
(* (frame_permit.c, firstframe.c).  They are stricter than frame_permit.h: *)
(* an unknown type, which may be on every stream and which the request     *)
(* reader skips (h3reqdrive_test.c:141), they refuse in every state.       *)
(***************************************************************************)
RequestOrderAgrees ==
  case.what = "order" =>
    LET es == case.es
        a == RunSteps("start", es, ReqstreamFrame)
        b == RunSteps("start", es, OrderAccept)
        n == Len(es)
    IN  /\ a = b
        /\ a.ok = (es = <<>> \/
                   /\ es[1] = H3_HEADERS
                   /\ \A i \in 2 .. n - 1 : es[i] = H3_DATA
                   /\ n > 1 => es[n] \in {H3_DATA, H3_HEADERS})
        /\ a.ok => /\ \A i \in 1 .. n : FrameOnStream(es[i], "request")
                   /\ n > 0 => FirstFrameOk("request", es[1])
        /\ \A i \in 1 .. n : es[i] \notin H3Known =>
             /\ FrameOnStream(es[i], "request") /\ ~a.ok
             /\ ~ReqstreamFrame(RunSteps("start", Slice(es, 0, i - 1), ReqstreamFrame).st, es[i]).ok

(***************************************************************************)
(* The control stream: control.c keeps the error of the first event that   *)
(* breaks a rule, which is the first the single rules of h3run refuse, and *)
(* none when they accept them all; a request is then accepted exactly      *)
(* below the last GOAWAY, as shutdown.c has it, and the limits only come   *)
(* down.  The server's own check of a peer's control streams refuses when  *)
(* control.c does (h3srv/peer.c).                                          *)
(***************************************************************************)
ApplyControl(c, e) ==
  CASE e.kind = "open" -> ControlOpen(c)
    [] e.kind = "closed" -> ControlClosed(c)
    [] e.kind = "frame" -> ControlFrame(c, e.settings)
    [] e.kind = "goaway" -> ControlGoaway(c, e.id)

RunRule(st, e) ==
  LET type == IF e.kind = "frame" /\ ~e.settings THEN H3_MAX_PUSH_ID ELSE H3_SETTINGS
      seen == ControlSeen(st.count)
      first == SettingsFirst(st.done, type)
      goaway == GoawayOk(st.g, e.id)
  IN  CASE e.kind = "open" -> RuleStep(seen.ok, [st EXCEPT !.count = seen.st])
        [] e.kind = "closed" -> RuleStep(CriticalCloseError(0) = 0, st)
        [] e.kind = "frame" ->
             IF st.done /\ ~e.settings THEN RuleStep(TRUE, st) ELSE RuleStep(first.ok, [st EXCEPT !.done = first.st])
        [] e.kind = "goaway" -> RuleStep(goaway.ok, [st EXCEPT !.g = goaway.st])

ErrorOf(e, st) ==
  CASE e.kind = "open" -> "stream_creation"
    [] e.kind = "closed" -> "closed_critical"
    [] e.kind = "frame" -> IF st.done THEN "frame_unexpected" ELSE "missing_settings"
    [] e.kind = "goaway" -> "id"

ControlRulesAgree ==
  case.what = "control" =>
    LET es == case.es
        c == FoldLeft(ApplyControl, ControlInit, es)
        r == RunSteps([count |-> 0, done |-> FALSE, g |-> [seen |-> FALSE, last |-> 0]], es, RunRule)
        frames == SelectSeq(es, LAMBDA e : e.kind = "frame")
        type(e) == IF e.settings THEN H3_SETTINGS ELSE H3_GOAWAY
        srv == FoldLeft(LAMBDA s, e : IF s.err # "none" THEN s ELSE OnPeerControl(s.st, type(e)),
                        [err |-> "none", st |-> H3SrvInit], frames)
        opened == FoldLeft(LAMBDA s, e : ControlFrame(ControlOpen(s), e.settings), ControlInit, frames)
        ids == [i \in DOMAIN es |-> IF es[i].kind = "goaway" THEN es[i].id ELSE -1]
    IN  /\ c.error = IF r.ok THEN "none" ELSE ErrorOf(es[r.at], r.st)
        /\ r.ok =>
             /\ \A id \in {0, 4, 8} : ControlAcceptRequest(c, id) =
                  (r.st.g.seen => ShutdownProcesses(id, r.st.g.last))
             /\ \A i, j \in DOMAIN es :
                  i < j /\ ids[i] >= 0 /\ ids[j] >= 0 => ShutdownIdMonotone(ids[i], ids[j])
        /\ (srv.err = "none") = (opened.error = "none")

(***************************************************************************)
(* A field section is accepted as a request's exactly when its pseudo-     *)
(* headers are known, come once each and before every other field, and     *)
(* give the method, the scheme and the path: the :method and :authority of *)
(* a CONNECT are not enough, where connect.c takes nothing else            *)
(* (pseudoheader.c:75-79).                                                 *)
(***************************************************************************)
FieldsInOrder ==
  case.what = "fields" =>
    LET es == case.es
        p == FoldLeft(PhField, PhInit, [i \in DOMAIN es |-> Octets(es[i])])
        pseudo(i) == PhClassify(Octets(es[i])) # "none"
        wellformed == \A i \in DOMAIN es : pseudo(i) =>
                        /\ es[i] \in KnownPseudo
                        /\ \A j \in 1 .. i - 1 : pseudo(j) /\ es[j] # es[i]
        has(ks) == \A k \in ks : \E i \in DOMAIN es : es[i] = k
    IN  /\ PhRequestOk(p) = (wellformed /\ has({":method", ":scheme", ":path"}))
        /\ PhResponseOk(p) = (wellformed /\ has({":status"}))

(***************************************************************************)
(* Whatever the calls, a tunnel relays only when its request was validated *)
(* first, the answer to it was a 2xx, and it was not closed in between; a  *)
(* closed tunnel stays closed (connect.c).                                 *)
(***************************************************************************)
ApplyTunnel(st, e) ==
  CASE e.call = "validate" -> TunnelValidated(st)
    [] e.call = "relay" -> TunnelRelay(st)
    [] e.call = "close" -> TunnelClose(st)
    [] e.call = "answer" -> TunnelResponse(st, e.status)

RelayAfterSuccess ==
  case.what = "tunnel" =>
    LET es == case.es
        st(n) == FoldLeft(ApplyTunnel, "req", Slice(es, 0, n))
    IN  \A n \in DOMAIN es :
          /\ st(n) = "relay" =>
               \E i, j, k \in 1 .. n :
                 /\ i < j /\ j < k /\ es[i].call = "validate" /\ es[k].call = "relay"
                 /\ es[j].call = "answer" /\ es[j].status \div 100 = 2
                 /\ \A m \in 1 .. n : es[m].call # "close"
                 /\ \A m \in i .. j - 1 : es[m].call # "answer"
          /\ st(n - 1) = "closed" => st(n) = "closed"

\* HTTP/3 messages are read as they were written, and the rules on their order,
\* written twice in the code, accept the same sequences: HEADERS, DATA and a
\* trailer, and no frame of an unknown type.
HttpAgrees ==
  [][/\ QpackRoundTrip /\ InsertionRecognised /\ HuffmanExact
     /\ H3RoundTrip /\ RequestReadBack /\ ResponseReadBack
     /\ RequestOrderAgrees /\ ControlRulesAgree /\ FieldsInOrder /\ RelayAfterSuccess]_case
=============================================================================
