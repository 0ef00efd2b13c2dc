---------------------------- MODULE HandshakeSys ----------------------------
(***************************************************************************)
(* A client and a server through the handshake, over a network that keeps  *)
(* every message, gives it again and out of turn, splits a hello, and      *)
(* alters a message.  The pairs:                                           *)
(*                                                                         *)
(*   client "quic_client"  roles/client as it is                           *)
(*          "seeded"       the same, its fullhs started again by the       *)
(*                         application with the two hellos, as the tests   *)
(*                         do (tests/tls/client_test.c:147)                *)
(*          "reference"    what RFC 8446 has a client do                   *)
(*   server "fullhs"       a tlsdriver and a fullhs, as in fullhs_test.c   *)
(*          "quic_server"  roles/server                                    *)
(***************************************************************************)
EXTENDS Fullhs

CONSTANTS
  Pairs,       \* the pairs of a client and a server
  Certs,       \* the certificates a server may have
  Policies,    \* what a client asks of a certificate
  MayAlter     \* whether the network may alter a message

VARIABLES
  pair, client, server,
  cert,     \* the server's
  net,      \* messages ever sent
  faults,   \* what went wrong: "altered", "split", "early", "short"
  refused   \* the client refused a certificate

rolesVars == <<pair, client, server, cert, net, faults, refused>>

Hello == CHello("cr", "c")
NoMessage == [t |-> "none"]

Start(p, c, policy) ==
  /\ pair = p /\ cert = c
  /\ client = ClientInit("c", policy)
  /\ server = IF p.server = "fullhs" THEN [phase |-> "INITIAL", tls |-> TlsInit("s", TRUE)]
              ELSE SrvSetCids(SrvInit("s", c), "odcid", "iscid")
  /\ net = {} /\ faults = {} /\ refused = FALSE

RolesInit == \E p \in Pairs, c \in Certs, policy \in Policies : Start(p, c, policy)

(***************************************************************************)
(* The client.                                                             *)
(***************************************************************************)
ClientStart ==
  /\ Hello \notin net /\ net' = net \cup {Hello}
  /\ UNCHANGED <<pair, client, server, cert, faults, refused>>

Split(which) == IF which = {1, 2} THEN {} ELSE {"split"}

\* The application starts fullhs again with the hellos it saw.
Seeded(c) ==
  LET p == c.hs.tls.pieces
  IN  [c EXCEPT !.hs = FhSetPolicy(FhInit(@.tls, <<Hello, SHello(p[1], p[2])>>), c.policy)]

ClientFeedHello(m, which) ==
  /\ pair.client # "reference" /\ client.phase = "INITIAL" /\ m.t = "SERVER_HELLO"
  /\ LET r == FeedInitial(client, [msg |-> m, which |-> which])
     IN  client' = IF r.ok /\ pair.client = "seeded" THEN Seeded(r.st) ELSE r.st
  /\ faults' = faults \cup Split(which)
  /\ UNCHANGED <<pair, server, cert, net, refused>>

ClientFeed(m) ==
  /\ pair.client # "reference" /\ client.phase = "AUTH"
  /\ LET r == ClientFeedAuth(client, m)
     IN  /\ client' = r.st
         /\ refused' = (refused \/ /\ m.t = "CERTIFICATE" /\ ~r.ok
                                   /\ OrderOk(client.hs, "CERTIFICATE"))
  /\ UNCHANGED <<pair, server, cert, net, faults>>

ClientFins == {m \in net : m.t = "FINISHED" /\ m.secret.label = "c hs traffic"}

ClientSendFinished ==
  /\ pair.client # "reference" /\ client.phase \in {"AUTH", "CONFIRMED"} /\ ClientFins = {}
  /\ LET r == FhSendFinished(client.hs)
     IN  /\ client' = [client EXCEPT !.hs = r.st]
         /\ net' = IF r.ok THEN net \cup {FhOwnFinished(client.hs)} ELSE net
  /\ faults' = faults \cup IF client.hs.tls.hs.complete THEN {} ELSE {"early"}
  /\ UNCHANGED <<pair, server, cert, refused>>

\* RFC 8446: the traffic secrets over the hellos, signature and Finished over
\* all that was sent before them.
Sent(t) == {m \in net : m.t = t}
RefTranscript(sh, ee, ct) ==
  LET signed == <<Hello, sh, ee, ct>>
      cv     == CertVerify(ct.cert.key, signed)
      fin    == Finished(HsTraffic(Shared("c", sh.key), TRUE, <<Hello, sh>>), Append(signed, cv))
  IN  signed \o <<cv, fin>>
RefAccepts(sh, ee, ct) ==
  /\ pair.client = "reference" /\ client.phase = "INITIAL" /\ EcdheOk(sh.key)
  /\ CertChecks(client.policy, ct.cert) /\ ct.cert.x509
  /\ \A i \in 5 .. 6 : RefTranscript(sh, ee, ct)[i] \in net
RefTake(sh, ee, ct) ==
  LET shared == Shared("c", sh.key)
      all    == RefTranscript(sh, ee, ct)
  IN  /\ RefAccepts(sh, ee, ct)
      /\ client' = [client EXCEPT !.phase = "CONFIRMED", !.tls.ks =
                      KsAdvanceMaster(KsAdvanceHandshake(@, shared, <<Hello, sh>>).st, all).st]
      /\ net' = net \cup {Finished(HsTraffic(shared, FALSE, <<Hello, sh>>), all)}
      /\ UNCHANGED <<pair, server, cert, faults, refused>>
Flights == Sent("SERVER_HELLO") \X Sent("ENCRYPTED_EXT") \X Sent("CERTIFICATE")
RefClient == \E f \in Flights : RefTake(f[1], f[2], f[3])

(***************************************************************************)
(* The server that is a tlsdriver and a fullhs.                            *)
(***************************************************************************)
FhServerHello(m, which) ==
  /\ pair.server = "fullhs" /\ server.phase = "INITIAL" /\ m.t = "CLIENT_HELLO"
  /\ LET r  == TlsRecvCrypto(server.tls, [msg |-> m, which |-> which])
         sh == SHello("sr", "s")
         ch == CHello(r.st.pieces[1], r.st.pieces[2])
     IN  IF r.ok THEN /\ server' = [phase |-> "AUTH", hs |-> FhInit(r.st, <<ch, sh>>)]
                      /\ net' = net \cup {sh}
         ELSE server' = [server EXCEPT !.tls = r.st] /\ net' = net
  /\ faults' = faults \cup Split(which)
  /\ UNCHANGED <<pair, client, cert, refused>>

\* It takes its own certificate and signature into its transcript.
FhServerAuth ==
  /\ pair.server = "fullhs" /\ server.phase = "AUTH" /\ OrderOk(server.hs, "CERTIFICATE")
  /\ LET ct == Certificate(cert)
         r1 == FhRecvCert(server.hs, ct)
         cv == CertVerify(cert.key, r1.st.tr)
         r2 == FhRecvCertVerify(r1.st, cv)
     IN  /\ server' = [server EXCEPT !.hs = r2.st]
         /\ net' = IF r1.ok /\ r2.ok THEN net \cup {ct, cv} ELSE net
  /\ UNCHANGED <<pair, client, cert, faults, refused>>

FhServerFinished ==
  /\ pair.server = "fullhs" /\ server.phase = "AUTH" /\ server.hs.tls.hs.cert_verified
  /\ ~\E m \in net : m.t = "FINISHED" /\ m.secret.label = "s hs traffic"
  /\ LET r == FhSendFinished(server.hs)
     IN  /\ server' = [server EXCEPT !.hs = r.st]
         /\ net' = IF r.ok THEN net \cup {FhOwnFinished(server.hs)} ELSE net
  /\ UNCHANGED <<pair, client, cert, faults, refused>>

FhServerFeed(m) ==
  /\ pair.server = "fullhs" /\ server.phase = "AUTH" /\ m.t = "FINISHED"
  /\ LET r == FhRecvFinished(server.hs, m)
     IN  server' = [server EXCEPT !.hs = IF r.ok THEN FhAdvanceApplication(r.st).st ELSE r.st]
  /\ UNCHANGED <<pair, client, cert, net, faults, refused>>

(***************************************************************************)
(* The server of roles/server.                                             *)
(***************************************************************************)
Kept == <<pair, client, cert, refused>>

ServerInitial(m) ==
  /\ pair.server = "quic_server" /\ m.t = "CLIENT_HELLO"
  /\ server' = SrvRecvInitial(server, m).st
  /\ UNCHANGED <<net, faults>> /\ UNCHANGED Kept

\* Room for n messages of the flight.  A build that fails is tried once more.
ServerFlight(n) ==
  /\ pair.server = "quic_server" /\ server.phase = "CH_RECVD"
  /\ LET b == BuildServerFlight(server.sdrv, "sr", n)
         r == SrvBuildFlight(server, "sr", n)
     IN  /\ r.ok \/ "short" \notin faults
         /\ server' = r.st
         /\ net' = IF r.ok THEN net \cup {b.sh} \cup {b.flight[i] : i \in 1 .. 4} ELSE net
         /\ faults' = faults \cup IF r.ok THEN {} ELSE {"short"}
  /\ UNCHANGED Kept

ServerFeed(m) ==
  /\ pair.server = "quic_server" /\ m.t = "FINISHED"
  /\ server' = SrvOnFinished(server, m).st
  /\ UNCHANGED <<net, faults>> /\ UNCHANGED Kept

ServerDone ==
  /\ pair.server = "quic_server"
  /\ LET r == SrvHandshakeDone(server) IN r.ok /\ server' = r.st
  /\ UNCHANGED <<net, faults>> /\ UNCHANGED Kept

(***************************************************************************)
(* The network.                                                            *)
(***************************************************************************)
Altered(m) ==
  CASE m.t \in {"CLIENT_HELLO", "SERVER_HELLO"} ->
         {[m EXCEPT !.random = "altered"], [m EXCEPT !.key = "altered"], [m EXCEPT !.key = LowOrder]}
    [] m.t = "ENCRYPTED_EXT" -> {[m EXCEPT !.iscid = "altered"]}
    [] m.t = "CERTIFICATE" ->
         {[m EXCEPT !.cert.key = "altered"], [m EXCEPT !.cert.in_time = ~@]}
    [] OTHER -> {[m EXCEPT !.over = <<>>]}

Alter(m) ==
  /\ "altered" \notin faults /\ MayAlter
  /\ \E a \in Altered(m) : net' = net \cup {a}
  /\ faults' = faults \cup {"altered"}
  /\ UNCHANGED <<pair, client, server, cert, refused>>

Whole == {1, 2}

RolesNext ==
  \/ ClientStart \/ ClientSendFinished
  \/ \E m \in net : ClientFeed(m) \/ FhServerFeed(m) \/ ServerInitial(m) \/ ServerFeed(m) \/ Alter(m)
  \/ \E m \in net, which \in {{1}, {2}, Whole} : ClientFeedHello(m, which) \/ FhServerHello(m, which)
  \/ RefClient
  \/ FhServerAuth \/ FhServerFinished \/ ServerDone
  \/ \E n \in 0 .. 4 : ServerFlight(n)

\* Both ends act, and the network gives every message whole in the end.
ClientActs ==
  \/ ClientStart \/ RefClient \/ (ClientSendFinished /\ client.phase = "CONFIRMED")
  \/ \E m \in net : ClientFeedHello(m, Whole) \/ ClientFeed(m)
ServerActs ==
  \/ FhServerAuth \/ FhServerFinished \/ ServerFlight(4) \/ ServerDone
  \/ \E m \in net : \/ FhServerHello(m, Whole) \/ FhServerFeed(m)
                     \/ ServerInitial(m) \/ ServerFeed(m)

\* When such a step would change something: ENABLED <<ClientActs>>_rolesVars and
\* ENABLED <<ServerActs>>_rolesVars, in terms of the state.
ClientReady ==
  \/ Hello \notin net
  \/ \E f \in Flights : RefAccepts(f[1], f[2], f[3])
  \/ /\ pair.client # "reference"
     /\ CASE client.phase = "INITIAL" ->
               \E m \in Sent("SERVER_HELLO") :
                 FeedInitial(client, [msg |-> m, which |-> Whole]).st # client
          [] client.phase = "AUTH" -> \E m \in net : ClientFeedAuth(client, m).st # client
          [] OTHER -> ClientFins = {} /\ FhSendFinished(client.hs).ok
FhServerReady ==
  IF server.phase = "INITIAL"
  THEN \E m \in Sent("CLIENT_HELLO") :
         TlsRecvCrypto(server.tls, [msg |-> m, which |-> Whole]).st # server.tls
  ELSE \/ OrderOk(server.hs, "CERTIFICATE")
       \/ /\ server.hs.tls.hs.cert_verified /\ FhSendFinished(server.hs).ok
          /\ ~\E m \in Sent("FINISHED") : m.secret.label = "s hs traffic"
       \/ \E m \in Sent("FINISHED") : FhRecvFinished(server.hs, m).st # server.hs
QuicServerReady ==
  CASE server.phase = "INITIAL" -> Sent("CLIENT_HELLO") # {}
    [] server.phase = "CH_RECVD" -> SrvBuildFlight(server, "sr", 4).ok \/ "short" \notin faults
    [] server.phase = "FLIGHT_SENT" -> \E m \in Sent("FINISHED") : SrvOnFinished(server, m).ok
    [] OTHER -> SrvHandshakeDone(server).ok
ServerReady == IF pair.server = "fullhs" THEN FhServerReady ELSE QuicServerReady

-----------------------------------------------------------------------------
(***************************************************************************)
(* Properties.                                                             *)
(***************************************************************************)
Started(end) == "hs" \in DOMAIN end
ClientHs == pair.client # "reference" /\ Started(client)
ClientDone == IF pair.client = "reference" THEN client.phase = "CONFIRMED"
              ELSE Started(client) /\ client.hs.tls.hs.complete
ServerDoneHs == IF pair.server = "fullhs" THEN Started(server) /\ server.hs.tls.hs.complete
                ELSE server.confirmed
ClientKs == IF ClientHs THEN client.hs.tls.ks ELSE client.tls.ks
\* What the server has hashed so far.
ServerTr == IF pair.server # "fullhs" THEN server.tr
            ELSE IF Started(server) THEN server.hs.tr ELSE <<>>
ServerKs == IF pair.server # "fullhs" THEN server.sched
            ELSE IF Started(server) THEN server.hs.tls.ks ELSE server.tls.ks

\* Phases, and a transcript that never outgrows its buffer (fullhs.c:19-26,
\* server.c:17-25).
RolesTypeOK ==
  /\ pair \in Pairs /\ cert \in Certs /\ faults \subseteq {"altered", "split", "early", "short"}
  /\ client.phase \in {"INITIAL", "AUTH", "CONFIRMED"}
  /\ server.phase \in {"INITIAL", "CH_RECVD", "FLIGHT_SENT", "AUTH", "CONFIRMED"}
  /\ ClientHs => client.hs.tls.hs \in Hs /\ TrLen(client.hs.tr) <= TranscriptMax

\* A client that is complete has authenticated its server: the certificate it
\* kept is the server's and meets the policy, and all that went into its keys
\* the server has in its own transcript, although the network may give messages
\* again, out of turn, split or altered (fullhs.c:199-254).  Of the pairs here
\* those with a fullhs on both sides complete; handshake_interop is about the
\* ones that do not.
CompleteIsAuthenticated ==
  (ClientHs /\ ClientDone) =>
    /\ client.hs.cert = cert /\ CertChecks(client.policy, cert) /\ cert.x509
    /\ client.hs.master # <<>> /\ IsPrefix(client.hs.master, ServerTr)

\* Two ends that both derived application keys derived the same ones: over the
\* first Finished, not over the last (fullhs.c:99-106,269-285, server.c:140-150).
OneRttKeysAgree ==
  (ClientKs.stage = 2 /\ ServerKs.stage = 2) =>
    ClientKs.of = ServerKs.of /\ ClientKs.ap = ServerKs.ap

\* A server that took a client's Finished has a client that verified its
\* certificate and its signature, and the one transcript continues the other:
\* neither took a message that the other did not (fullhs.c:239-254,
\* server.c:128-158).
ServerCompleteMeansClientVerified ==
  ServerDoneHs =>
    IF pair.client = "reference" THEN ClientDone
    ELSE /\ ClientHs /\ client.hs.tls.hs.cert_verified
         /\ IsPrefix(client.hs.tr, ServerTr) \/ IsPrefix(ServerTr, client.hs.tr)

\* After a certificate was refused the gate stays shut, whatever certificate
\* and signature come later (fullhs.c:186-204).
RefusedStaysShut ==
  refused => client.hs.cert = NoCert /\ ~client.hs.tls.hs.cert_verified /\ ~ClientDone

\* Once the client has handshake keys it is never without keys: those of the
\* handshake go only when those of 1-RTT are there (client.c:106-117,
\* fullhs.c:287-294).
NeverKeyless ==
  ClientHs => \E l \in 0 .. 2 : client.hs.tls.keys[l] # NoKey

\* A client completes only with the server its policy accepts, and never once
\* it has refused a certificate.
ClientAuthenticates == RolesTypeOK /\ CompleteIsAuthenticated /\ RefusedStaysShut

\* The keys of the two ends: the same ones, and at no time none.
KeysAgree == OneRttKeysAgree /\ NeverKeyless

\* The certificate and five messages of size 1 fit the transcripts.
FlightFits == Size(Certificate(cert)) + 5 <= TranscriptMax
=============================================================================
