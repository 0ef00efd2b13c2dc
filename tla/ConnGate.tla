------------------------------ MODULE ConnGate ------------------------------
(***************************************************************************)
(* The per-connection send/receive gate of transport/conn/loop/connloop,   *)
(* as operators from one gate state to the next.  A gate is a record with  *)
(* the fields of quic_connloop; every entry point of connloop.c is an      *)
(* operator that returns the gate the call leaves behind, next to a        *)
(* predicate for the value the call returns.  The modules that own a gate  *)
(* (EvLoop, ConnIO) compose these operators into actions.                  *)
(*                                                                         *)
(* Abstractions.  Key material is the fact that a level's key is present.  *)
(* A sent-table slot keeps the packet number only: the other fields are    *)
(* constant on this path (time 0, ack-eliciting 1, in flight) or are never *)
(* read by it (the size).  Which free slot a packet takes is not           *)
(* observable, so the first one is replaced by some one.                   *)
(***************************************************************************)
EXTENDS Integers, Sequences

CONSTANT
  SentCap      \* QUIC_SENTPKT_CAP: slots of the sent-packet table

ASSUME SentCapAssumption == SentCap \in Nat \ {0}

\* Protection levels (QUIC_LEVEL_*), which are also packet number spaces.
INITIAL   == 0
HANDSHAKE == 1
ONERTT    == 2
Levels    == {INITIAL, HANDSHAKE, ONERTT}

\* quic_connloop.phase, in the order of the enumeration.
ACTIVE   == 0
CLOSING  == 1
DRAINING == 2
CLOSED   == 3
Phases   == {ACTIVE, CLOSING, DRAINING, CLOSED}

Slots == 1 .. SentCap
Free  == -1              \* quic_sentpkt_entry.used = 0
NoLevel == -1            \* QUIC_CONNLOOP_NO_LEVEL

(***************************************************************************)
(* The sent-packet table.                                                  *)
(***************************************************************************)
SentTable == [Slots -> Nat \cup {Free}]

SentInit == [i \in Slots |-> Free]

InFlight(t) == {t[i] : i \in {j \in Slots : t[j] # Free}}

\* quic_sentpkt_count(t) > 0
AnySent(t) == \E i \in Slots : t[i] # Free

HasRoom(t) == \E i \in Slots : t[i] = Free

FreeSlot(t) == CHOOSE i \in Slots : t[i] = Free

\* A full table refuses the packet and stays as it is.
SentOnSend(t, pn) ==
  IF HasRoom(t) THEN [t EXCEPT ![FreeSlot(t)] = pn] ELSE t

\* Mutant: everything up to the largest number counts as acknowledged.
AckBlocks_Cumulative(largest, wire) == {<<0, largest>>}

\* The acknowledged blocks of the wire form <<first, gap, len, gap, len...>>
\* below largest: block 1 ends at largest, and block k+1 starts two and the
\* gap below the low end of block k.
AckBlocks(largest, wire) ==
  LET n == 1 + (Len(wire) - 1) \div 2
      lo[k \in 1 .. n] ==
        IF k = 1 THEN largest - wire[1]
        ELSE lo[k - 1] - wire[2 * k - 2] - 2 - wire[2 * k - 1]
  IN  {<<lo[k], IF k = 1 THEN largest ELSE lo[k] + wire[2 * k - 1]>>
         : k \in 1 .. n}

Covered(pn, blocks) == \E b \in blocks : b[1] <= pn /\ pn <= b[2]

AckProcess(t, largest, wire) ==
  IF wire = <<>> THEN t
  ELSE [i \in Slots |->
          IF t[i] # Free /\ Covered(t[i], AckBlocks(largest, wire))
          THEN Free ELSE t[i]]

(***************************************************************************)
(* Keys, promotion and the anti-amplification budget.                      *)
(***************************************************************************)
PromoteOk(current, new) == new = current + 1

KeySendLevel(complete, confirmed) ==
  IF complete \/ confirmed THEN ONERTT ELSE HANDSHAKE

AntiampBudget(received, sent) ==
  IF sent >= 3 * received THEN 0 ELSE 3 * received - sent

SendAllowed(received, sent, validated, len) ==
  validated \/ len <= AntiampBudget(received, sent)

(***************************************************************************)
(* The gate.                                                               *)
(***************************************************************************)
Gate ==
  [keys : SUBSET Levels, sent : SentTable, send_level : Levels \cup {NoLevel},
   handshake_complete : BOOLEAN, handshake_confirmed : BOOLEAN,
   validated : BOOLEAN, phase : Phases, pto_armed : BOOLEAN,
   recv_bytes : Nat, sent_bytes : Nat]

GateInit ==
  [keys |-> {}, sent |-> SentInit, send_level |-> NoLevel,
   handshake_complete |-> FALSE, handshake_confirmed |-> FALSE,
   validated |-> FALSE, phase |-> ACTIVE, pto_armed |-> FALSE,
   recv_bytes |-> 0, sent_bytes |-> 0]

LevelUsable(c, level) == level \in c.keys

\* Bytes count towards the budget even when the packet itself is dropped.
OnRecv(c, len) ==
  IF c.phase = CLOSED THEN c ELSE [c EXCEPT !.recv_bytes = @ + len]

OnRecvResult(c, level) == c.phase # CLOSED /\ LevelUsable(c, level)

SendLevelOk(c, level) ==
  \/ level = c.send_level
  \/ /\ level > c.send_level
     /\ PromoteOk(c.send_level, level)
     /\ level <= KeySendLevel(c.handshake_complete, c.handshake_confirmed)

SendGated(c, level, len) ==
  /\ c.phase = ACTIVE
  /\ LevelUsable(c, level)
  /\ SendAllowed(c.recv_bytes, c.sent_bytes, c.validated, len)

SendOk(c, level, len) == SendLevelOk(c, level) /\ SendGated(c, level, len)

PtoSync(c) == [c EXCEPT !.pto_armed = AnySent(c.sent)]

\* The result of quic_sentpkt_on_send is not looked at.
Track(c, pn) == [c EXCEPT !.sent = SentOnSend(@, pn)]

OnSend(c, level, eliciting, pn, len) ==
  IF ~SendOk(c, level, len) THEN c
  ELSE LET sending == [c EXCEPT !.send_level = level,
                                !.sent_bytes = @ + len]
       IN  IF eliciting THEN PtoSync(Track(sending, pn)) ELSE sending

Validate(c) == [c EXCEPT !.validated = TRUE]

\* Mutant: the PTO flag is not refreshed after the acknowledgement.
OnAck_NoSync(c, largest, wire) ==
  [c EXCEPT !.sent = AckProcess(@, largest, wire)]

OnAck(c, largest, wire) ==
  PtoSync([c EXCEPT !.sent = AckProcess(@, largest, wire)])

\* Neither the phase nor the budget is looked at.
OnPtoResult(c, level) == LevelUsable(c, level) /\ AnySent(c.sent)

\* Mutant: a probe's bytes replace the count instead of adding to it.
OnPto_Overwrites(c, level, pn, len) ==
  IF OnPtoResult(c, level)
  THEN [Track(c, pn) EXCEPT !.sent_bytes = len, !.pto_armed = TRUE]
  ELSE c

OnPto(c, level, pn, len) ==
  IF OnPtoResult(c, level)
  THEN [Track(c, pn) EXCEPT !.sent_bytes = @ + len, !.pto_armed = TRUE]
  ELSE c

NextPhase(phase) == IF phase = CLOSED THEN CLOSED ELSE phase + 1

Close(c, peer_closed) ==
  [c EXCEPT !.phase = IF @ = ACTIVE /\ peer_closed THEN DRAINING
                      ELSE NextPhase(@)]

InstallKey(c, level) == [c EXCEPT !.keys = @ \cup {level}]
DiscardKey(c, level) == [c EXCEPT !.keys = @ \ {level}]
=============================================================================
