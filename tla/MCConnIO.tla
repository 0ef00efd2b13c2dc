------------------------------ MODULE MCConnIO ------------------------------
(***************************************************************************)
(* What becomes of packets: an endpoint that sends and receives them, the  *)
(* exchange of acknowledgements per packet number space, and the recovery  *)
(* of a sender.  They share no state; unit says which of them a behaviour  *)
(* is of.                                                                  *)
(***************************************************************************)
EXTENDS ConnIOSys, AckExchange, Recovery

VARIABLE unit

packetVars == <<vars, ackVars, senderVars, unit>>

PacketInit == Init /\ AckInit /\ SenderInit /\ unit \in {"endpoint", "exchange", "sender"}

PacketNext ==
  /\ UNCHANGED unit
  /\ \/ unit = "endpoint" /\ Next /\ UNCHANGED <<ackVars, senderVars>>
     \/ unit = "exchange" /\ AckNext /\ UNCHANGED <<vars, senderVars>>
     \/ unit = "sender" /\ SenderNext /\ UNCHANGED <<vars, ackVars>>

PacketSpec == PacketInit /\ [][PacketNext]_packetVars

\* Every handler, a frame past the buffer, and frames no handler or walk knows.
MixedPayloads ==
  {<<Simple("PING"), Simple("CONNECTION_CLOSE"), MaxDataFrame(1)>>,
   <<StreamFrame(1), StreamFrame(0), StreamFrame(2), Simple("CRYPTO")>>}

PingOnly == {<<Simple("PING")>>}

\* One packet in the Initial space beside the numbers of the application space.
OneAndFour == [s \in Spaces |-> IF s = INITIAL THEN 1 ELSE 4]
=============================================================================
