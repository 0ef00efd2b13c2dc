----------------------------- MODULE Handshake ------------------------------
(***************************************************************************)
(* The TLS handshake behind a connection: the driver that agrees on a      *)
(* secret over the two hellos (tls/handshake/core/tlsdriver), the one that *)
(* takes it to completion (core/fullhs), the client that runs both         *)
(* (roles/client) and the server (roles/server over core/sdrv), with the   *)
(* key schedule and the key sets they fill.                                *)
(*                                                                         *)
(* Abstractions.  A message is a record; a transcript is the sequence of   *)
(* its messages and stands for its own hash.  A key or a secret is named   *)
(* by everything it is derived from, so two are equal exactly when their   *)
(* inputs are.  A hello travels in two pieces, its random and its key      *)
(* share; no hello is larger than the buffers it is copied through.        *)
(***************************************************************************)
EXTENDS HsOrder, FiniteSets, SequencesExt

CONSTANTS
  TranscriptMax,        \* QUIC_FULLHS_TRANSCRIPT_MAX
  ServerTranscriptMax,  \* QUIC_SERVER_TRANSCRIPT_MAX
  Size(_)               \* the length of a message

Res(ok, st) == [ok |-> ok, st |-> st]

(***************************************************************************)
(* Messages, and the primitives that make and check them.                  *)
(***************************************************************************)
CHello(random, key) == [t |-> "CLIENT_HELLO", random |-> random, key |-> key]
SHello(random, key) == [t |-> "SERVER_HELLO", random |-> random, key |-> key]
EncryptedExt(odcid, iscid) == [t |-> "ENCRYPTED_EXT", odcid |-> odcid, iscid |-> iscid]
Certificate(cert) == [t |-> "CERTIFICATE", cert |-> cert]
CertVerify(by, over) == [t |-> "CERT_VERIFY", by |-> by, over |-> over]
Finished(secret, over) == [t |-> "FINISHED", secret |-> secret, over |-> over]

\* X25519: a public key is named as its private key; a low-order one is refused.
LowOrder == "low order"
EcdheOk(pub) == pub # LowOrder
Shared(priv, pub) == {priv, pub}

HsTraffic(shared, is_server, over) ==
  [of |-> shared, label |-> IF is_server THEN "s hs traffic" ELSE "c hs traffic", over |-> over]

(***************************************************************************)
(* The key schedule and the key sets.                                      *)
(***************************************************************************)
HsKeys == {"CLIENT_HS", "SERVER_HS"}
ApKeys == {"CLIENT_AP", "SERVER_AP"}
NoKey == [which |-> "none", of |-> {}, over |-> <<>>]

KsInit == [stage |-> 0, of |-> {}, hs |-> <<>>, ap |-> <<>>]
KsAdvanceHandshake(ks, shared, over) ==
  IF ks.stage # 0 THEN Res(FALSE, ks)
  ELSE Res(TRUE, [ks EXCEPT !.stage = 1, !.of = shared, !.hs = over])
KsAdvanceMaster(ks, over) ==
  IF ks.stage # 1 THEN Res(FALSE, ks) ELSE Res(TRUE, [ks EXCEPT !.stage = 2, !.ap = over])
KsHave(ks, which) == ks.stage >= IF which \in HsKeys THEN 1 ELSE 2
KsGet(ks, which) ==
  [which |-> which, of |-> ks.of, over |-> IF which \in HsKeys THEN ks.hs ELSE ks.ap]

KeysetInit == [level \in 0 .. 2 |-> NoKey]
KeysetInstall(keys, level, k) == [keys EXCEPT ![level] = k]
KeysetDiscard(keys, level) == [keys EXCEPT ![level] = NoKey]

(***************************************************************************)
(* tlsdriver.c: CRYPTO frames into a hello, the hello into a secret.       *)
(***************************************************************************)
NoPiece == "nothing"
TlsInit(priv, is_server) ==
  [is_server |-> is_server, priv |-> priv, pieces |-> <<NoPiece, NoPiece>>, read_upto |-> 0,
   hs |-> HsInit, ks |-> KsInit, keys |-> KeysetInit, shared |-> {}, hs_ready |-> FALSE]

\* Frames: some pieces of a hello.
HelloPieces(m) == <<m.random, m.key>>
FeedAll(d, f) ==
  [d EXCEPT !.pieces = [i \in 1 .. 2 |-> IF i \in f.which THEN HelloPieces(f.msg)[i] ELSE @[i]]]
Contiguous(d) ==
  IF d.pieces[1] = NoPiece THEN 0 ELSE IF d.pieces[2] = NoPiece THEN 1 ELSE 2

InstallHandshakeKeys(d) ==
  [d EXCEPT !.keys = KeysetInstall(@, 1, KsGet(d.ks, "CLIENT_HS")), !.hs_ready = TRUE]

\* The schedule is advanced over the peer's hello alone.
DeriveHandshake(d, m) ==
  LET shared == Shared(d.priv, m.key)
      ks     == KsAdvanceHandshake(d.ks, shared, <<m>>)
  IN  IF ~EcdheOk(m.key) THEN Res(FALSE, d)
      ELSE IF ~ks.ok THEN Res(FALSE, [d EXCEPT !.shared = shared])
      ELSE Res(TRUE, InstallHandshakeKeys([d EXCEPT !.shared = shared, !.ks = ks.st]))

\* The bytes read are gone even when they are less than a hello.
TlsRecvCrypto(d, f) ==
  LET fed  == FeedAll(d, f)
      upto == Contiguous(fed)
      read == [fed EXCEPT !.read_upto = upto]
      p    == fed.pieces
  IN  IF upto = d.read_upto THEN Res(FALSE, fed)
      ELSE IF ~(d.read_upto = 0 /\ upto = 2) THEN Res(FALSE, read)
      ELSE DeriveHandshake(read, IF d.is_server THEN CHello(p[1], p[2]) ELSE SHello(p[1], p[2]))
=============================================================================
