------------------------------- MODULE HsOrder -------------------------------
(***************************************************************************)
(* The handshake order machine (tls/handshake/core/tls/hsdriver), which    *)
(* both the connection driver and the TLS handshake driver run: operators  *)
(* on a record with the fields of quic_hsdriver.                           *)
(***************************************************************************)
EXTENDS Integers, Sequences

\* The joint transcript; position p is entry p + 1.
Order == <<"CLIENT_HELLO", "SERVER_HELLO", "ENCRYPTED_EXT", "CERTIFICATE",
           "CERT_VERIFY", "FINISHED", "HANDSHAKE_DONE">>
OrderLevel == <<0, 0, 1, 1, 1, 1, 2>>   \* as keyset.h numbers the levels
Msgs == {Order[i] : i \in 1 .. Len(Order)}

Hs == [recv_count : 0 .. Len(Order), cert_verified : BOOLEAN, level : 0 .. 2,
       complete : BOOLEAN, confirmed : BOOLEAN]

HsInit == [recv_count |-> 0, cert_verified |-> FALSE, level |-> 0,
           complete |-> FALSE, confirmed |-> FALSE]

HsAuthGateOk(s, msg) == msg # "FINISHED" \/ s.cert_verified

\* Mutant: a message later in the order is accepted as well.
HsTableMatch_Forward(s, msg, level) ==
  \E i \in (s.recv_count + 1) .. Len(Order) : Order[i] = msg /\ OrderLevel[i] = level

HsTableMatch(s, msg, level) ==
  /\ s.recv_count < Len(Order)
  /\ Order[s.recv_count + 1] = msg
  /\ OrderLevel[s.recv_count + 1] = level

HsRecv(s, msg, level) ==
  IF ~(HsTableMatch(s, msg, level) /\ HsAuthGateOk(s, msg)) THEN s
  ELSE [s EXCEPT !.recv_count = @ + 1,
                 !.level = IF level > @ THEN level ELSE @,
                 !.complete = @ \/ msg = "FINISHED",
                 !.confirmed = @ \/ msg = "HANDSHAKE_DONE"]
=============================================================================
