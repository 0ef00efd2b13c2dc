------------------------------- MODULE Certs -------------------------------
(***************************************************************************)
(* X.509 certificates (crypto/pki): the DER reader and writer, the two     *)
(* certificates a server signs for itself, the readers of a certificate's  *)
(* fields, the trust store and the validation of a chain, and the          *)
(* CertificateVerify and CertificateRequest messages about them.           *)
(*                                                                         *)
(* A reader of tbsCertificate is written in the code as a cursor of its    *)
(* own; here each takes the element it wants from the sequence of elements *)
(* a cursor steps through.  The hash and signature functions are external: *)
(* a signature verifies when it is the one the key makes.                  *)
(***************************************************************************)
EXTENDS TlsMsg, FiniteSets

CONSTANTS Digest(_, _),     \* a hash function and the bytes
          EcSig(_, _),      \* P-256: the public point x o y and a 32-byte hash give r o s
          RsaSig(_, _, _),  \* a padding, the key [n, e] and a hash
          EdSig(_, _),      \* Ed25519: the public key and the bytes signed
          RsaMinN           \* RSA_PUBKEY_MIN_N, the fewest octets of a modulus

BOOLEAN_TAG == 1
INTEGER == 2
BIT_STRING == 3
OCTET_STRING == 4
OID == 6
UTF8 == 12
UTCTIME == 23
GENTIME == 24
SEQUENCE == 48
SET_TAG == 49
DNSNAME == 130
VERSION_TAG == 160
EXTENSIONS_TAG == 163

(***************************************************************************)
(* DER.  Lengths of one octet, or 0x81 and 0x82 with one and two more.     *)
(***************************************************************************)
LenOctets(len) == IF len < 128 THEN 1 ELSE IF len < 256 THEN 2 ELSE IF len < 65536 THEN 3 ELSE 0

DerTlv(cap, tag, val) ==
  LET n == Len(val)
      lo == LenOctets(n)
  IN  IF lo = 0 THEN Nothing
      ELSE Within(cap, <<tag>> \o (IF lo = 1 THEN <<n>> ELSE <<127 + lo>> \o PutBe(n, lo - 1)) \o val)

\* The fixed buffers of the builders hold the fixed parts written into them.
Tlv(tag, val) == DerTlv(Len(val) + 4, tag, val)

DerLong(b) == IF b[2] \in {129, 130} THEN b[2] - 128 ELSE 0

DerRead(b) ==
  LET nb == DerLong(b)
      head == 2 + nb
      len == IF b[2] < 128 THEN b[2] ELSE GetBe(Slice(b, 2, nb))
  IN  IF Len(b) < 2 \/ (b[2] >= 128 /\ (nb = 0 \/ Len(b) < head)) THEN NoDec
      ELSE IF len > Len(b) - head THEN NoDec
      ELSE [n |-> head + len, tag |-> b[1], val |-> Slice(b, head, len)]

\* The elements a cursor gives before the end, or before one that is malformed.
RECURSIVE Els(_)
Els(b) ==
  LET d == DerRead(b)
  IN  IF b = <<>> THEN <<>> ELSE IF d.n = 0 THEN <<>>
      ELSE <<[tag |-> d.tag, val |-> d.val, tlv |-> Slice(b, 0, d.n)]>> \o Els(Drop(b, d.n))

HasAt(es, i, tag) == i <= Len(es) /\ es[i].tag = tag

ReadSeq(b) == LET d == DerRead(b) IN IF d.n = 0 THEN NoDec ELSE IF d.tag = SEQUENCE THEN d ELSE NoDec

DerUint(val) ==
  LET mag == IF Len(val) > 1 /\ val[1] = 0 THEN Drop(val, 1) ELSE val
  IN  IF val = <<>> THEN NoTake
      ELSE IF val[1] >= 128 \/ Len(mag) > 8 THEN NoTake ELSE [ok |-> TRUE, v |-> GetBe(mag)]

(***************************************************************************)
(* A certificate: tbsCertificate with its header (the bytes signed), the   *)
(* OID of the signature algorithm, the signature.                          *)
(***************************************************************************)
X509Parse(cert) ==
  LET s == ReadSeq(cert)
      es == Els(s.val)
      alg == Els(es[2].val)
  IN  IF s.n = 0 THEN NoDec
      ELSE IF HasAt(es, 1, SEQUENCE) /\ HasAt(es, 2, SEQUENCE) /\ HasAt(es, 3, BIT_STRING)
              /\ HasAt(alg, 1, OID)
           THEN [n |-> 1, tbs |-> es[1].tlv, alg |-> alg[1].val, sig |-> es[3].val]
      ELSE NoDec

\* The elements of tbsCertificate past the optional version: serialNumber,
\* signature, issuer, validity, subject, subjectPublicKeyInfo, extensions.
TbsEls(tbs) ==
  LET s == ReadSeq(tbs)
      es == Els(s.val)
  IN  IF s.n = 0 THEN <<>> ELSE IF HasAt(es, 1, VERSION_TAG) THEN Tail(es) ELSE es

\* Names are kept with their headers and compared byte by byte.
Issuer(tbs) == LET es == TbsEls(tbs) IN IF HasAt(es, 3, SEQUENCE) THEN es[3].tlv ELSE Nothing
Subject(tbs) ==
  LET es == TbsEls(tbs)
  IN  IF HasAt(es, 3, SEQUENCE) /\ HasAt(es, 5, SEQUENCE) THEN es[5].tlv ELSE Nothing

PublicKey(tbs) ==
  LET es == TbsEls(tbs)
      parts == Els(es[6].val)
      alg == Els(parts[1].val)
  IN  IF /\ HasAt(es, 6, SEQUENCE)
         /\ HasAt(parts, 1, SEQUENCE) /\ HasAt(parts, 2, BIT_STRING) /\ HasAt(alg, 1, OID)
      THEN [n |-> 1, alg |-> alg[1].val, key |-> parts[2].val] ELSE NoDec

(***************************************************************************)
(* The fields by the second reader, tbscert, which also takes the version  *)
(* and the serial number.  Extensions are looked for by the next byte.     *)
(***************************************************************************)
TbscertParse(tbs) ==
  LET s == ReadSeq(tbs)
      all == Els(s.val)
      v == HasAt(all, 1, VERSION_TAG)
      es == IF v THEN Tail(all) ELSE all
      used == FoldLeft(LAMBDA k, e : k + Len(e.tlv), 0, SubSeq(all, 1, IF v THEN 7 ELSE 6))
      left == Drop(s.val, used)
      has == left # <<>> /\ left[1] = EXTENSIONS_TAG
  IN  IF s.n = 0 THEN NoDec
      ELSE IF Len(es) < 6 \/ (v /\ DerRead(all[1].val).n = 0) THEN NoDec
      ELSE IF has /\ (Len(es) < 7 \/ DerRead(es[7].val).n = 0) THEN NoDec
      ELSE [n |-> 1, version |-> IF v THEN DerRead(all[1].val).val ELSE <<>>,
            serial |-> es[1].val, sig_alg |-> es[2].val, issuer |-> es[3].val,
            validity |-> es[4].val, subject |-> es[5].val, spki |-> es[6].val,
            extensions |-> IF has THEN DerRead(es[7].val).val ELSE <<>>]

TbsVersion(t) == IF t.version = <<>> THEN [ok |-> TRUE, v |-> 0] ELSE DerUint(t.version)
TbsSerial(t) == IF Len(t.serial) \in 1 .. 20 THEN t.serial ELSE Nothing
TbsSigalgMatches(t, oid) == LET es == Els(t.sig_alg) IN HasAt(es, 1, OID) /\ es[1].val = oid

(***************************************************************************)
(* Validity.  A time is the sequence of its fourteen digits.               *)
(***************************************************************************)
IsDigits(s) == \A i \in DOMAIN s : s[i] \in 48 .. 57
Century(yy) == IF 10 * (yy[1] - 48) + (yy[2] - 48) < 50 THEN <<50, 48>> ELSE <<49, 57>>

TimeValue(e) ==
  LET want == IF e.tag = UTCTIME THEN 13 ELSE 15
      d == Slice(e.val, 0, want - 1)
  IN  IF e.tag \notin {UTCTIME, GENTIME} \/ Len(e.val) # want THEN Nothing
      ELSE IF e.val[want] # 90 \/ ~IsDigits(d) THEN Nothing
      ELSE IF e.tag = UTCTIME THEN Century(Slice(d, 0, 2)) \o d ELSE d

\* Numbers of equally many digits.
NotAfter(s, t) ==
  s = t \/ \E i \in DOMAIN s : s[i] < t[i] /\ \A j \in 1 .. i - 1 : s[j] = t[j]

ValidityOk(tbs, now) ==
  LET es == TbsEls(tbs)
      ts == Els(es[4].val)
  IN  /\ HasAt(es, 4, SEQUENCE) /\ Len(ts) >= 2
      /\ TimeValue(ts[1]) # Nothing /\ TimeValue(ts[2]) # Nothing
      /\ NotAfter(TimeValue(ts[1]), now) /\ NotAfter(now, TimeValue(ts[2]))

(***************************************************************************)
(* Extensions: the first of the wanted identifier, its first OCTET STRING. *)
(***************************************************************************)
OidSan == <<85, 29, 17>>
OidBc == <<85, 29, 19>>

Extensions(tbs) ==
  LET es == TbsEls(tbs) IN IF HasAt(es, 7, EXTENSIONS_TAG) THEN ReadSeq(es[7].val) ELSE NoDec

FindExt(tbs, oid) ==
  LET x == Extensions(tbs)
      of == SelectSeq(Els(x.val), LAMBDA e : HasAt(Els(e.val), 1, OID) /\ Els(e.val)[1].val = oid)
      vals == SelectSeq(Els(of[1].val), LAMBDA f : f.tag = OCTET_STRING)
  IN  IF x.n = 0 THEN NoTake
      ELSE IF of = <<>> THEN NoTake
      ELSE IF vals = <<>> THEN NoTake ELSE [ok |-> TRUE, v |-> vals[1].val]

BasicConstraints(tbs) ==
  LET x == FindExt(tbs, OidBc)
      s == ReadSeq(x.v)
  IN  IF ~x.ok THEN <<>> ELSE IF s.n = 0 THEN <<>> ELSE Els(s.val)

IsCa(tbs) ==
  LET bc == BasicConstraints(tbs)
  IN  HasAt(bc, 1, BOOLEAN_TAG) /\ Len(bc[1].val) = 1 /\ bc[1].val[1] # 0

\* What follows cA admits depth: nothing does, a number not below depth does.
PathlenAllows(tbs, depth) ==
  LET bc == BasicConstraints(tbs)
  IN  Len(bc) >= 2 =>
        /\ bc[2].tag = INTEGER /\ Len(bc[2].val) \in 1 .. 8
        /\ bc[2].val[1] < 128 /\ GetBe(bc[2].val) >= depth

Lower(c) == IF c \in 65 .. 90 THEN c + 32 ELSE c
DnsEq(a, b) == Len(a) = Len(b) /\ \A i \in DOMAIN a : Lower(a[i]) = Lower(b[i])
FirstDot(name) == Cardinality({i \in DOMAIN name : \A j \in 1 .. i : name[j] # 46})

WildcardMatch(entry, host) ==
  /\ Len(entry) >= 2 /\ entry[1] = 42 /\ entry[2] = 46
  /\ FirstDot(host) < Len(host) /\ DnsEq(Drop(entry, 1), Drop(host, FirstDot(host)))

EntryMatches(entry, host) == DnsEq(entry, host) \/ WildcardMatch(entry, host)

FindSan(tbs) == FindExt(tbs, OidSan)      \* the same walk, written again for it

SanMatches(tbs, host) ==
  LET x == FindSan(tbs)
      s == ReadSeq(x.v)
  IN  IF ~x.ok THEN FALSE ELSE IF s.n = 0 THEN FALSE
      ELSE \E i \in DOMAIN Els(s.val) :
             Els(s.val)[i].tag = DNSNAME /\ EntryMatches(Els(s.val)[i].val, host)

(***************************************************************************)
(* Public keys and signatures.                                             *)
(***************************************************************************)
OidEc == <<42, 134, 72, 206, 61, 2, 1>>
OidP256 == <<42, 134, 72, 206, 61, 3, 1, 7>>
OidRsa == <<42, 134, 72, 134, 247, 13, 1, 1, 1>>
OidEcdsaSha256 == <<42, 134, 72, 206, 61, 4, 3, 2>>
OidEd25519 == <<43, 101, 112>>

\* The algorithms a certificate may be signed with.
CertSigAlgs ==
  {[oid |-> OidEcdsaSha256, kind |-> "ecdsa", hash |-> "sha256"],
   [oid |-> <<42, 134, 72, 206, 61, 4, 3, 3>>, kind |-> "ecdsa", hash |-> "sha384"]}
  \union {[oid |-> <<42, 134, 72, 134, 247, 13, 1, 1, h[1]>>, kind |-> "rsa", hash |-> h[2]] :
            h \in {<<11, "sha256">>, <<12, "sha384">>, <<13, "sha512">>}}

EcPubkey(key) == IF Len(key) = 66 /\ key[1] = 0 /\ key[2] = 4 THEN Drop(key, 2) ELSE Nothing

StripPad(v) == IF Len(v) > 1 /\ v[1] = 0 THEN Drop(v, 1) ELSE v
CanonOdd(v) == v[1] # 0 /\ v[Len(v)] % 2 = 1

RsaPubkey(key) ==
  LET outer == Els(Drop(key, 1))
      ints == Els(outer[1].val)
      n == StripPad(ints[1].val)
      e == StripPad(ints[2].val)
  IN  IF /\ key # <<>> /\ key[1] = 0 /\ HasAt(outer, 1, SEQUENCE)
         /\ HasAt(ints, 1, INTEGER) /\ ints[1].val # <<>>
         /\ HasAt(ints, 2, INTEGER) /\ ints[2].val # <<>>
         /\ Len(n) >= RsaMinN /\ CanonOdd(n)
         /\ Len(e) <= 8 /\ (Len(e) > 1 \/ e[1] >= 3) /\ CanonOdd(e)
      THEN [ok |-> TRUE, key |-> <<n, e>>] ELSE NoTake

\* r and s: minimal integers of up to 32 octets, padded where the sign bit is.
SigInteger(v) ==
  LET zeros == {i \in 1 .. 31 : \A j \in 1 .. i : v[j] = 0}
      min == Drop(v, Cardinality(zeros))
  IN  Tlv(INTEGER, IF min[1] >= 128 THEN <<0>> \o min ELSE min)
EcdsaSigEncode(rs) == Tlv(SEQUENCE, SigInteger(Slice(rs, 0, 32)) \o SigInteger(Drop(rs, 32)))

Scalar(v) == LET s == StripPad(v) IN IF Len(s) \in 1 .. 32 THEN Fill(32 - Len(s), 0) \o s ELSE Nothing
EcdsaSplit(sig) ==
  LET s == ReadSeq(sig)
      es == Els(s.val)
  IN  IF s.n = 0 THEN Nothing
      ELSE IF ~HasAt(es, 1, INTEGER) \/ ~HasAt(es, 2, INTEGER) THEN Nothing
      ELSE IF Scalar(es[1].val) = Nothing \/ Scalar(es[2].val) = Nothing THEN Nothing
      ELSE Scalar(es[1].val) \o Scalar(es[2].val)
ChvEcdsaSplit(sig) == EcdsaSplit(sig)     \* the same reader, beside the trust store

EcdsaP256Verify(point, rs, hash) == rs = EcSig(point, hash)

(***************************************************************************)
(* The certificates a server signs for itself: CN localhost, valid from    *)
(* 2020 to 2030; with a P-256 key and the name as subjectAltName, and with *)
(* an Ed25519 key and no extensions.                                       *)
(***************************************************************************)
Localhost == <<108, 111, 99, 97, 108, 104, 111, 115, 116>>
FirstOfJanuary(yy) == yy \o <<48, 49, 48, 49, 48, 48, 48, 48, 48, 48, 90>>

SelfName == Tlv(SEQUENCE, Tlv(SET_TAG, Tlv(SEQUENCE, Tlv(OID, <<85, 4, 3>>) \o Tlv(UTF8, Localhost))))
SelfValidity ==
  Tlv(SEQUENCE, Tlv(UTCTIME, FirstOfJanuary(<<50, 48>>)) \o Tlv(UTCTIME, FirstOfJanuary(<<51, 48>>)))
V3Serial1 == <<160, 3, 2, 1, 2>> \o <<2, 1, 1>>

P256Sigalg == Tlv(SEQUENCE, Tlv(OID, OidEcdsaSha256))
P256Spki(point) ==
  Tlv(SEQUENCE, Tlv(SEQUENCE, Tlv(OID, OidEc) \o Tlv(OID, OidP256)) \o Tlv(BIT_STRING, <<0, 4>> \o point))
P256Extensions ==
  Tlv(EXTENSIONS_TAG, Tlv(SEQUENCE, Tlv(SEQUENCE,
    Tlv(OID, OidSan) \o Tlv(OCTET_STRING, Tlv(SEQUENCE, Tlv(DNSNAME, Localhost))))))
P256Tbs(point) ==
  Tlv(SEQUENCE, V3Serial1 \o P256Sigalg \o SelfName \o SelfValidity \o SelfName \o P256Spki(point)
                \o P256Extensions)
P256Cert(cap, point) ==
  LET tbs == P256Tbs(point)
      sig == EcdsaSigEncode(EcSig(point, Digest("sha256", tbs)))
  IN  DerTlv(cap, SEQUENCE, tbs \o P256Sigalg \o Tlv(BIT_STRING, <<0>> \o sig))

EdSigalg == Tlv(SEQUENCE, Tlv(OID, OidEd25519))
SelfTbs(pub) ==
  Tlv(SEQUENCE, V3Serial1 \o EdSigalg \o SelfName \o SelfValidity \o SelfName
                \o Tlv(SEQUENCE, EdSigalg \o Tlv(BIT_STRING, <<0>> \o pub)))
SelfCert(cap, pub) ==
  LET tbs == SelfTbs(pub)
  IN  DerTlv(cap, SEQUENCE, tbs \o EdSigalg \o Tlv(BIT_STRING, <<0>> \o EdSig(pub, tbs)))

(***************************************************************************)
(* The trust store and the validation of a chain, leaf first.              *)
(***************************************************************************)
CastoreAdd(roots, cap, cert) ==
  IF Len(roots) >= cap \/ X509Parse(cert).n = 0 THEN roots ELSE Append(roots, cert)

CertIssuer(cert) == LET c == X509Parse(cert) IN IF c.n = 0 THEN Nothing ELSE Issuer(c.tbs)
CertSubject(cert) == LET c == X509Parse(cert) IN IF c.n = 0 THEN Nothing ELSE Subject(c.tbs)
CertIsCa(cert) == LET c == X509Parse(cert) IN IF c.n = 0 THEN FALSE ELSE IsCa(c.tbs)

\* Registered roots parse; the first whose subject is the name.
FindBySubject(roots, dn) == SelectSeq(roots, LAMBDA r : CertSubject(r) = dn)

SigalgConsistent(c) ==
  LET t == TbscertParse(c.tbs) IN IF t.n = 0 THEN FALSE ELSE TbsSigalgMatches(t, c.alg)

\* The issuer's key signed cert: the algorithm is listed and named twice alike,
\* the key is of its kind.  A longer hash is cut to the 32 bytes of the curve.
VerifySignedBy(cert, issuer) ==
  LET i == X509Parse(issuer)
      k == PublicKey(i.tbs)
      c == X509Parse(cert)
      listed == {a \in CertSigAlgs : a.oid = c.alg}
      sa == CHOOSE a \in listed : TRUE
      hash == Digest(sa.hash, c.tbs)
      sig == Drop(c.sig, 1)
      rsa == RsaPubkey(k.key)
  IN  /\ i.n # 0 /\ k.n # 0 /\ c.n # 0
      /\ SigalgConsistent(c) /\ listed # {} /\ c.sig # <<>>
      /\ IF sa.kind = "ecdsa"
         THEN /\ k.alg = OidEc /\ EcPubkey(k.key) # Nothing /\ ChvEcdsaSplit(sig) # Nothing
              /\ EcdsaP256Verify(EcPubkey(k.key), ChvEcdsaSplit(sig), Slice(hash, 0, 32))
         ELSE k.alg = OidRsa /\ rsa.ok /\ sig = RsaSig("pkcs1", rsa.key, hash)

LinkOk(child, parent) ==
  /\ CertIssuer(child) # Nothing /\ CertIssuer(child) = CertSubject(parent)
  /\ CertIsCa(parent) /\ VerifySignedBy(child, parent)

\* below is the number of intermediates between parent and the leaf.
StepOk(child, parent, below) ==
  LinkOk(child, parent) /\ PathlenAllows(X509Parse(parent).tbs, below)

TailAnchored(roots, tail) ==
  LET found == FindBySubject(roots, CertIssuer(tail))
  IN  CertIssuer(tail) # Nothing /\ found # <<>> /\ CertIsCa(found[1]) /\ VerifySignedBy(tail, found[1])

\* Mutant: the leaf is counted, so an authority admits one intermediate less.
ValidateChain_LeafCounted(roots, certs) ==
  /\ certs # <<>> /\ \A i \in 1 .. Len(certs) - 1 : StepOk(certs[i], certs[i + 1], i)
  /\ TailAnchored(roots, certs[Len(certs)])

ValidateChain(roots, certs) ==
  /\ certs # <<>> /\ \A i \in 1 .. Len(certs) - 1 : StepOk(certs[i], certs[i + 1], i - 1)
  /\ TailAnchored(roots, certs[Len(certs)])

\* What a client holds a chain to: a time, a host name and a store, each when set.
AcceptChain(policy, certs) ==
  LET leaf == X509Parse(certs[1])
  IN  /\ certs # <<>>
      /\ policy.now # <<>> \/ policy.host # <<>> =>
           /\ leaf.n # 0
           /\ policy.now = <<>> \/ ValidityOk(leaf.tbs, policy.now)
           /\ policy.host = <<>> \/ SanMatches(leaf.tbs, policy.host)
      /\ policy.store => ValidateChain(policy.roots, certs)

(***************************************************************************)
(* CertificateVerify: 64 spaces, the context, a zero and the hash of the   *)
(* transcript are signed, the two server keys and the client alike.        *)
(***************************************************************************)
ECDSA_P256 == 1027
RSA_PSS == 2052
ED25519 == 2055

CvContext ==
  <<84, 76, 83, 32, 49, 46, 51, 44, 32, 115, 101, 114, 118, 101, 114, 32,
    67, 101, 114, 116, 105, 102, 105, 99, 97, 116, 101, 86, 101, 114, 105, 102, 121>>
CvSignedContent(th) == Fill(64, 32) \o CvContext \o <<0>> \o th

CvecdsaBuild(cap, point, th) ==
  Within(cap, CertVerifyMsg(ECDSA_P256, EcdsaSigEncode(EcSig(point, Digest("sha256", CvSignedContent(th))))))
SflightCertVerify(cap, pub, th) == Within(cap, CertVerifyMsg(ED25519, EdSig(pub, CvSignedContent(th))))

CertSpkiKey(cert) ==
  LET c == X509Parse(cert)
  IN  IF c.n = 0 THEN NoTake
      ELSE LET k == PublicKey(c.tbs) IN IF k.n = 0 THEN NoTake ELSE [ok |-> TRUE, key |-> k.key]

VerifyCertSignature(scheme, cert, sig, th) ==
  LET k == CertSpkiKey(cert)
      hash == Digest("sha256", CvSignedContent(th))
      rsa == RsaPubkey(k.key)
  IN  /\ k.ok
      /\ \/ /\ scheme = ED25519 /\ Len(sig) = 64 /\ Len(k.key) = 33 /\ k.key[1] = 0
            /\ sig = EdSig(Drop(k.key, 1), CvSignedContent(th))
         \/ /\ scheme = ECDSA_P256 /\ EcPubkey(k.key) # Nothing /\ EcdsaSplit(sig) # Nothing
            /\ EcdsaP256Verify(EcPubkey(k.key), EcdsaSplit(sig), hash)
         \/ scheme = RSA_PSS /\ rsa.ok /\ sig = RsaSig("pss", rsa.key, hash)

(***************************************************************************)
(* CertificateRequest: an empty context and the signature algorithms.      *)
(***************************************************************************)
CertreqBuild(cap, algs) == Within(cap, HsMsg(13, <<0>> \o Vec(2, Ext(13, Vec(2, algs)))))

CertreqParse(msg) ==
  LET b == BodyOf(msg, 13)
      ctx == TakeVec(b, 0, 1)
      block == TakeVec(b, ctx.off, 2)
      lists == SelectSeq(Exts(block.v).es, LAMBDA e : e.type = 13 /\ Len(e.data) >= 2
                                                      /\ GetBe(Slice(e.data, 0, 2)) + 2 = Len(e.data))
  IN  IF ~ctx.ok THEN NoTake ELSE IF ~block.ok THEN NoTake ELSE IF lists = <<>> THEN NoTake
      ELSE [ok |-> TRUE, ctx |-> ctx.v, algs |-> Drop(lists[1].data, 2)]
=============================================================================
