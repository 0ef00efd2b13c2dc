------------------------------- MODULE Fullhs -------------------------------
(***************************************************************************)
(* The authentication flight: the driver of core/fullhs and the client     *)
(* that feeds it (roles/client).                                           *)
(***************************************************************************)
EXTENDS Handshake

TrLen(tr) == FoldLeft(LAMBDA n, m : n + Size(m), 0, tr)

(***************************************************************************)
(* fullhs.c.  The driver borrows its tlsdriver, here its field tls.        *)
(***************************************************************************)
NoCert == [key |-> "no certificate"]
NoPolicy == [now |-> FALSE, host |-> FALSE, store |-> FALSE]

\* The message did not fit: the transcript stays as it is.
TrAdd(h, m) ==
  IF TrLen(h.tr) + Size(m) > TranscriptMax THEN Res(FALSE, h)
  ELSE Res(TRUE, [h EXCEPT !.tr = Append(@, m)])

PrimeOrder(hs) ==
  HsRecv(HsRecv(HsRecv(hs, "CLIENT_HELLO", 0), "SERVER_HELLO", 0), "ENCRYPTED_EXT", 1)

FhInit(tls, tr_sh) ==
  [tls |-> [tls EXCEPT !.hs = PrimeOrder(@)], tr |-> tr_sh, master |-> <<>>,
   peer |-> HsTraffic(tls.shared, ~tls.is_server, tr_sh),
   self |-> HsTraffic(tls.shared, tls.is_server, tr_sh),
   cert |-> NoCert, policy |-> NoPolicy]

FhSetPolicy(h, policy) == [h EXCEPT !.policy = policy]

\* The first Finished fixes the transcript of the application secrets.
FoldFinished(h, m) ==
  LET a == TrAdd(h, m)
  IN  IF ~a.ok \/ h.master # <<>> THEN a ELSE Res(TRUE, [a.st EXCEPT !.master = a.st.tr])

OrderOk(h, msg) == HsRecv(h.tls.hs, msg, 1) # h.tls.hs
Ordered(h, msg) == [h EXCEPT !.tls.hs = HsRecv(@, msg, 1)]

\* The message must be a chain; the certificate is parsed when there is a
\* policy to hold it to.
CertChecks(policy, cert) ==
  /\ cert.chain
  /\ policy.now \/ policy.host => cert.x509
  /\ policy.now => cert.in_time
  /\ policy.host => cert.names_host
  /\ policy.store => cert.anchored

\* Mutant: what is no chain is refused, the policy is not asked.
CertTake_NoPolicy(h, m) ==
  LET a == TrAdd(h, m)
  IN  IF ~m.cert.chain \/ ~a.ok THEN Res(FALSE, h) ELSE Res(TRUE, [a.st EXCEPT !.cert = m.cert])

CertTake(h, m) ==
  IF ~CertChecks(h.policy, m.cert) THEN Res(FALSE, h)
  ELSE LET a == TrAdd(h, m)
       IN  IF ~a.ok THEN a ELSE Res(TRUE, [a.st EXCEPT !.cert = m.cert])

FhRecvCert(h, m) ==
  IF ~OrderOk(h, "CERTIFICATE") THEN Res(FALSE, h)
  ELSE CertTake(Ordered(h, "CERTIFICATE"), m)

CvVerify(h, m) == h.cert # NoCert /\ h.cert.x509 /\ m.by = h.cert.key /\ m.over = h.tr

\* The gate is open before the transcript is known to have room.
FhRecvCertVerify(h, m) ==
  IF ~CvVerify(h, m) \/ ~OrderOk(h, "CERT_VERIFY") THEN Res(FALSE, h)
  ELSE TrAdd([Ordered(h, "CERT_VERIFY") EXCEPT !.tls.hs.cert_verified = TRUE], m)

\* Mutant: only the key is checked.
FinVerifies_AnyTranscript(h, m) == m.secret = h.peer
FinVerifies(h, m) == m.secret = h.peer /\ m.over = h.tr

FhRecvFinished(h, m) ==
  IF ~FinVerifies(h, m) \/ ~OrderOk(h, "FINISHED") THEN Res(FALSE, h)
  ELSE FoldFinished(Ordered(h, "FINISHED"), m)

FhOwnFinished(h) == Finished(h.self, h.tr)
FhSendFinished(h) == FoldFinished(h, FhOwnFinished(h))

\* The schedule's refusal is not looked at.
FhAdvanceApplication(h) ==
  LET ks    == KsAdvanceMaster(h.tls.ks, h.master).st
      which == IF h.tls.is_server THEN "SERVER_AP" ELSE "CLIENT_AP"
  IN  IF ~h.tls.hs.complete THEN Res(FALSE, h)
      ELSE Res(TRUE, [h EXCEPT !.tls.ks = ks,
                               !.tls.keys = IF KsHave(ks, which)
                                            THEN KeysetInstall(@, 2, KsGet(ks, which)) ELSE @])

FhConfirmed(h) ==
  LET hs == HsRecv(h.tls.hs, "HANDSHAKE_DONE", 2)
  IN  IF hs = h.tls.hs THEN Res(FALSE, h)
      ELSE Res(TRUE, [h EXCEPT !.tls.hs = hs,
                               !.tls.keys = IF hs.confirmed THEN KeysetDiscard(@, 1) ELSE @])

(***************************************************************************)
(* client.c.  The frames that completed the ServerHello are what the       *)
(* transcript is seeded with.                                              *)
(***************************************************************************)
ClientInit(priv, policy) ==
  [phase |-> "INITIAL", tls |-> TlsInit(priv, FALSE), policy |-> policy]

Frames(f) == [t |-> "FRAMES", msg |-> f.msg, which |-> f.which]

FeedInitial(c, f) ==
  LET r == TlsRecvCrypto(c.tls, f)
  IN  IF ~r.ok THEN Res(FALSE, [c EXCEPT !.tls = r.st])
      ELSE Res(TRUE, [phase |-> "AUTH", policy |-> c.policy,
                      hs |-> FhSetPolicy(FhInit(r.st, <<Frames(f)>>), c.policy)])

FeedAuthMsg(h, m) ==
  CASE m.t = "CERTIFICATE" -> FhRecvCert(h, m)
    [] m.t = "CERT_VERIFY" -> FhRecvCertVerify(h, m)
    [] m.t = "FINISHED" -> FhRecvFinished(h, m)
    [] OTHER -> Res(FALSE, h)

DoConfirm(h) ==
  LET a == FhAdvanceApplication(h) IN IF ~a.ok THEN a ELSE FhConfirmed(a.st)

ClientFeedAuth(c, m) ==
  LET r == FeedAuthMsg(c.hs, m)
      k == DoConfirm(r.st)
  IN  IF ~r.ok \/ ~r.st.tls.hs.complete THEN Res(r.ok, [c EXCEPT !.hs = r.st])
      ELSE Res(k.ok, [c EXCEPT !.hs = k.st, !.phase = IF k.ok THEN "CONFIRMED" ELSE @])

-----------------------------------------------------------------------------
(***************************************************************************)
(* The server's side of the handshake: the flight of core/sdrv, built over *)
(* its own transcript, and the server of roles/server, which keeps a       *)
(* second, bounded transcript to check the client's Finished and to derive *)
(* keys.                                                                   *)
(***************************************************************************)

SdrvInit(priv, cert) ==
  [priv |-> priv, cert |-> cert, client_pub |-> NoPiece, tr |-> <<>>, hs_ready |-> FALSE,
   traffic |-> HsTraffic({}, TRUE, <<>>), odcid |-> "", iscid |-> ""]

SdrvSetCids(s, odcid, iscid) == [s EXCEPT !.odcid = odcid, !.iscid = iscid]

SdrvRecvClientHello(s, m) == [s EXCEPT !.client_pub = m.key, !.tr = Append(@, m)]

\* The secret is refused when it is all zero.
DeriveSecret(s) ==
  IF ~EcdheOk(s.client_pub) THEN Res(FALSE, s)
  ELSE Res(TRUE, [s EXCEPT !.traffic = HsTraffic(Shared(s.priv, s.client_pub), TRUE, s.tr),
                           !.hs_ready = TRUE])

\* The ServerHello is in the transcript before the secret is known to be good.
BuildServerHello(s, random) ==
  DeriveSecret([s EXCEPT !.tr = Append(@, SHello(random, s.priv))])

\* Mutant: the Finished is made from the client's secret.
EmitFinished_Client(s) == Finished([s.traffic EXCEPT !.label = "c hs traffic"], s.tr)
EmitFinished(s) == Finished(s.traffic, s.tr)

\* One message of the flight, over the transcript so far.
EmitMsg(s, i) ==
  CASE i = 1 -> EncryptedExt(s.odcid, s.iscid)
    [] i = 2 -> Certificate(s.cert)
    [] i = 3 -> CertVerify(s.cert.key, s.tr)
    [] OTHER -> EmitFinished(s)

\* The first n messages of the flight; with room for fewer than four it fails
\* and leaves those it emitted in the transcript.
EmitHsFlight(s, n) ==
  FoldLeft(LAMBDA t, i : [t EXCEPT !.tr = Append(@, EmitMsg(t, i))], s, [i \in 1 .. n |-> i])

BuildServerFlight(s, random, n) ==
  LET sh == BuildServerHello(s, random)
      fl == EmitHsFlight(sh.st, n)
  IN  IF ~sh.ok THEN [ok |-> FALSE, st |-> sh.st, sh |-> <<>>, flight |-> <<>>]
      ELSE [ok |-> n = 4, st |-> fl, sh |-> Last(sh.st.tr),
            flight |-> SubSeq(fl.tr, Len(sh.st.tr) + 1, Len(fl.tr))]

(***************************************************************************)
(* server.c.  A message past the end of the buffer is cut, not refused.    *)
(***************************************************************************)
Cut(m) == [t |-> "CUT", msg |-> m]
SrvTrAdd(tr, m) ==
  IF TrLen(tr) >= ServerTranscriptMax THEN tr
  ELSE Append(tr, IF TrLen(tr) + Size(m) > ServerTranscriptMax THEN Cut(m) ELSE m)

SrvInit(priv, cert) ==
  [phase |-> "INITIAL", sdrv |-> SdrvInit(priv, cert), sched |-> KsInit, keys |-> KeysetInit,
   tr |-> <<>>, through_sh |-> 0, through_flight |-> 0, confirmed |-> FALSE, hs_done_sent |-> FALSE]

SrvSetCids(s, odcid, iscid) == [s EXCEPT !.sdrv = SdrvSetCids(@, odcid, iscid)]

SrvRecvInitial(s, m) ==
  IF s.phase # "INITIAL" THEN Res(FALSE, s)
  ELSE Res(TRUE, [s EXCEPT !.sdrv = SdrvRecvClientHello(@, m), !.tr = SrvTrAdd(@, m),
                           !.phase = "CH_RECVD"])

SrvInstallHsKeys(s) ==
  LET pub == s.sdrv.client_pub
      ks  == KsAdvanceHandshake(s.sched, Shared(s.sdrv.priv, pub), SubSeq(s.tr, 1, s.through_sh))
  IN  IF ~EcdheOk(pub) \/ ~ks.ok THEN Res(FALSE, s)
      ELSE Res(TRUE, [s EXCEPT !.sched = ks.st,
                               !.keys = KeysetInstall(@, 1, KsGet(ks.st, "SERVER_HS"))])

SrvAfterFlight(s, sh, flight) ==
  LET with_sh == SrvTrAdd(s.tr, sh)
      all     == FoldLeft(SrvTrAdd, with_sh, flight)
  IN  SrvInstallHsKeys([s EXCEPT !.tr = all, !.through_sh = Len(with_sh),
                                 !.through_flight = Len(all)])

SrvBuildFlight(s, random, n) ==
  LET b == BuildServerFlight(s.sdrv, random, n)
      t == [s EXCEPT !.sdrv = b.st]
      a == SrvAfterFlight(t, b.sh, b.flight)
  IN  IF s.phase # "CH_RECVD" THEN Res(FALSE, s)
      ELSE IF ~b.ok THEN Res(FALSE, t)
      ELSE IF ~a.ok THEN a
      ELSE Res(TRUE, [a.st EXCEPT !.phase = "FLIGHT_SENT"])

SrvVerifyFinished(s, m) ==
  /\ s.sdrv.hs_ready /\ m.t = "FINISHED"
  /\ m.secret = HsTraffic(s.sdrv.traffic.of, FALSE, SubSeq(s.tr, 1, s.through_sh))
  /\ m.over = SubSeq(s.tr, 1, s.through_flight)

SrvFinComplete(s, over) ==
  LET ks == KsAdvanceMaster(s.sched, over)
  IN  IF ~ks.ok THEN Res(FALSE, s)
      ELSE Res(TRUE, [s EXCEPT !.sched = ks.st, !.confirmed = TRUE,
                               !.keys = KeysetInstall(@, 2, KsGet(ks.st, "SERVER_AP"))])

\* Mutant: the application keys are derived over the hellos.
SrvComplete_Hellos(s) ==
  LET f == SrvFinComplete(s, SubSeq(s.tr, 1, s.through_sh))
  IN  IF ~f.ok THEN f ELSE Res(TRUE, [f.st EXCEPT !.phase = "CONFIRMED"])

SrvComplete(s) ==
  LET f == SrvFinComplete(s, SubSeq(s.tr, 1, s.through_flight))
  IN  IF ~f.ok THEN f ELSE Res(TRUE, [f.st EXCEPT !.phase = "CONFIRMED"])

SrvOnFinished(s, m) ==
  IF s.phase # "FLIGHT_SENT" \/ ~SrvVerifyFinished(s, m) THEN Res(FALSE, s) ELSE SrvComplete(s)

SrvHandshakeDone(s) ==
  IF ~s.confirmed \/ s.hs_done_sent THEN Res(FALSE, s)
  ELSE Res(TRUE, [s EXCEPT !.hs_done_sent = TRUE])
=============================================================================
