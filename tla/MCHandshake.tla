---------------------------- MODULE MCHandshake -----------------------------
(***************************************************************************)
(* The two ways this repository drives a handshake: the driver, with its   *)
(* packets and levels and a message counted by its type, and the roles     *)
(* over fullhs, sdrv and tlsdriver, with the messages' contents.  unit     *)
(* says which of the two a behaviour is of.                                *)
(***************************************************************************)
EXTENDS Driver, HandshakeSys

VARIABLE unit

tlsVars == <<driverVars, rolesVars, unit>>

\* The roles in a behaviour that is not of them.
RolesIdle ==
  LET any(S) == CHOOSE x \in S : TRUE
  IN  Start(any(Pairs), any(Certs), any(Policies))

TlsStart ==
  \/ unit = "driver" /\ DriverSysInit /\ RolesIdle
  \/ unit = "roles" /\ RolesInit /\ DriverSysInit /\ ~reliable

TlsNext ==
  /\ UNCHANGED unit
  /\ \/ unit = "driver" /\ DriverNext /\ UNCHANGED rolesVars
     \/ unit = "roles" /\ RolesNext /\ UNCHANGED driverVars

\* On a reliable network the owner of the drivers keeps stepping both and
\* carrying their datagrams; nothing is promised of the other one.
DriverFairness ==
  \A p \in Peers : /\ WF_driverVars(unit = "driver" /\ reliable /\ StepPeer(p))
                   /\ WF_driverVars(unit = "driver" /\ reliable /\ TakeOut(p))
                   /\ WF_driverVars(unit = "driver" /\ reliable /\ Carry(p))

\* The two roles act whenever they can change something.
RolesFairness ==
  /\ []<>~(unit = "roles" /\ ClientReady) \/ []<><<unit = "roles" /\ ClientActs>>_rolesVars
  /\ []<>~(unit = "roles" /\ ServerReady) \/ []<><<unit = "roles" /\ ServerActs>>_rolesVars

TlsSpec == TlsStart /\ [][TlsNext]_tlsVars /\ DriverFairness /\ RolesFairness

-----------------------------------------------------------------------------
\* Over a reliable network both drivers' handshakes are confirmed, whatever the
\* order the owner steps and carries in (driver.c:170-192).
HandshakeConfirmed ==
  reliable ~> \A p \in Peers : drv[p].hs.complete /\ drv[p].hs.confirmed

\* Pairs that keep their transcripts the same way complete, and agree, when
\* nothing is altered, split, sent early or built short and the certificate
\* fits and meets the policy (fullhs.c:70-86,256-267, sdrv_flight.c:86-128).
HandshakeCompletes ==
  \/ unit # "roles"
  \/ pair \notin {[client |-> "seeded", server |-> "fullhs"],
                  [client |-> "reference", server |-> "quic_server"]}
  \/ ~CertChecks(client.policy, cert) \/ ~cert.x509 \/ ~FlightFits
  \/ <>(faults # {}) \/ <>(ClientDone /\ ServerDoneHs)

\* docs/usage.md:186-188 and 340-342: fed the ServerHello, the Certificate, the
\* CertificateVerify and the Finished of a server's flight, quic_client goes to
\* CONFIRMED.  What it hashes is the frames of the ServerHello and no
\* EncryptedExtensions, so no signature of quic_server verifies (client.c:126).
ClientDrivenToConfirmed ==
  \/ unit # "roles" \/ ~CertChecks(client.policy, cert) \/ ~cert.x509 \/ ~FlightFits
  \/ <>(faults # {}) \/ <>(client.phase = "CONFIRMED")

P(c, s) == [client |-> c, server |-> s]
MCPairs == {P("quic_client", "quic_server"), P("seeded", "quic_server"), P("seeded", "fullhs"),
            P("quic_client", "fullhs"), P("reference", "quic_server")}

MCRepositoryPair == {P("quic_client", "quic_server")}

Good == [key |-> "k", chain |-> TRUE, x509 |-> TRUE, in_time |-> TRUE, names_host |-> TRUE,
         anchored |-> TRUE, size |-> 3]
MCCerts == {Good, [Good EXCEPT !.in_time = FALSE], [Good EXCEPT !.names_host = FALSE],
            [Good EXCEPT !.anchored = FALSE], [Good EXCEPT !.chain = FALSE], [Good EXCEPT !.x509 = FALSE],
            [Good EXCEPT !.size = 5], [Good EXCEPT !.size = 9]}
MCGood == {Good}
All == [now |-> TRUE, host |-> TRUE, store |-> TRUE]
MCPolicies == {All, NoPolicy}

\* A cut message fills its buffer.
MCSize(m) == CASE m.t = "CERTIFICATE" -> m.cert.size [] m.t = "CUT" -> 99 [] OTHER -> 1
=============================================================================
