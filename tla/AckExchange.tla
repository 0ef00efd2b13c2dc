---------------------------- MODULE AckExchange -----------------------------
(***************************************************************************)
(* Building the ranges of an ACK frame (recovery/detect/ackgen/ackrange.c) *)
(* and the window of received packet numbers they are built from           *)
(* (conn/pnspace/recvpn, pnspaces/recv_spaces.c).                          *)
(*                                                                         *)
(* Abstractions.  The bitmap is the set of its bit positions plus one, the *)
(* distances below the largest number; a shift adds to the distances and   *)
(* loses those beyond the width, which is also the window.                 *)
(***************************************************************************)
EXTENDS ConnGate, FiniteSets

CONSTANTS
  Window,      \* QUIC_RECVPN_WINDOW, the width of the bitmap
  RangeCap     \* values the caller's ranges array holds

ASSUME WindowAssumption == Window \in Nat \ {0}

(***************************************************************************)
(* Ranges from an ascending sequence of numbers.  The scan descends with   *)
(* the values written, the top of the open block and the bottom of the     *)
(* last closed one; NoRanges is the refusal of a write beyond RangeCap.    *)
(***************************************************************************)
NoRanges == <<>>

Scan == [out : Seq(Nat), hi : Nat, prev_lo : Nat, first : BOOLEAN, ok : BOOLEAN]

Push(s, v) ==
  IF s.ok /\ Len(s.out) < RangeCap THEN [s EXCEPT !.out = Append(@, v)]
  ELSE [s EXCEPT !.ok = FALSE]

\* Mutant: the gap counts one number too many.
EmitBlock_OffByOne(s, lo) ==
  Push(IF s.first THEN s ELSE Push(s, s.prev_lo - s.hi - 1), s.hi - lo)

EmitBlock(s, lo) ==
  Push(IF s.first THEN s ELSE Push(s, s.prev_lo - s.hi - 2), s.hi - lo)

CloseBlock(s, lo, next_hi) ==
  [EmitBlock(s, lo) EXCEPT !.prev_lo = lo, !.hi = next_hi, !.first = FALSE]

BuildRanges(pns) ==
  LET n == Len(pns)
      at[i \in 1 .. n] ==
        IF i = n
        THEN [out |-> <<>>, hi |-> pns[n], prev_lo |-> 0, first |-> TRUE, ok |-> TRUE]
        ELSE IF pns[i + 1] - pns[i] = 1 THEN at[i + 1]
        ELSE CloseBlock(at[i + 1], pns[i + 1], pns[i])
      end == EmitBlock(at[1], pns[1])
  IN  IF n = 0 \/ ~end.ok THEN NoRanges ELSE end.out

\* The members of a set in ascending order.
Ascending(S) ==
  LET rank(p) == Cardinality({q \in S : q <= p})
  IN  [i \in 1 .. Cardinality(S) |-> CHOOSE p \in S : rank(p) = i]

(***************************************************************************)
(* The received window.                                                    *)
(***************************************************************************)
RecvPn == [any : BOOLEAN, largest : Nat, bitmap : SUBSET (1 .. Window)]

RecvPnInit == [any |-> FALSE, largest |-> 0, bitmap |-> {}]

Seen(r, pn) ==
  /\ r.any
  /\ \/ pn = r.largest
     \/ pn < r.largest /\ (r.largest - pn) \in r.bitmap

Advance(r, pn) ==
  LET d == pn - r.largest
  IN  [r EXCEPT !.largest = pn,
                !.bitmap = ({b + d : b \in @} \cup {d}) \cap (1 .. Window)]

MarkBelow(r, pn) ==
  [r EXCEPT !.bitmap = @ \cup ({r.largest - pn} \cap (1 .. Window))]

Record(r, pn) ==
  IF ~r.any THEN [r EXCEPT !.any = TRUE, !.largest = pn]
  ELSE IF pn > r.largest THEN Advance(r, pn)
  ELSE MarkBelow(r, pn)

\* largest - d wraps around above largest, where nothing is seen.
CollectPns(r) ==
  Ascending({r.largest} \cup
            {r.largest - d : d \in {e \in 1 .. Window : e <= r.largest
                                                        /\ Seen(r, r.largest - e)}})

AckRanges(r) == IF r.any THEN BuildRanges(CollectPns(r)) ELSE NoRanges

\* Contiguous numbers immediately below the largest.
FirstRange(r) ==
  IF ~r.any THEN 0
  ELSE CHOOSE n \in 0 .. Window :
         /\ 1 .. n \subseteq r.bitmap
         /\ n = Window \/ (n + 1) \notin r.bitmap

(***************************************************************************)
(* Acknowledgement and loss detection between two endpoints, per packet    *)
(* number space (conn/pnspace/pnspaces, recovery/detect/lossdrive,         *)
(* recovery/rtx/sentpkt).  One endpoint sends and tracks packets, the      *)
(* other records what arrives and reports it in ACK frames.  The network   *)
(* loses, duplicates, delays and reorders both: what was put on it stays   *)
(* there and may arrive any number of times, or never.                     *)
(*                                                                         *)
(* acked, lost and arrived are history: what the sender has concluded and  *)
(* what the receiver has really taken in.                                  *)
(***************************************************************************)

CONSTANTS
  Spaces,           \* packet number spaces in use
  PacketThreshold,  \* QUIC_SENTPKT_PACKET_THRESHOLD
  LossDelay,        \* the time threshold
  MaxSent,          \* packets sent, per space
  MaxTime           \* the clock stops here

ASSUME ExchangeAssumption ==
  Spaces \subseteq Levels /\ PacketThreshold \in Nat /\ LossDelay \in Nat

VARIABLES
  next,      \* quic_pnspace.next, per space
  sent,      \* quic_pnspaces_sent.t
  time_sent, \* quic_sentpkt_entry.time_sent, by space and number
  recv,      \* quic_pnspaces_recv.r
  largest,   \* the largest number acknowledged so far, per space, or Free
  packets,   \* <<space, number>> on the network
  acks,      \* <<space, largest, ranges>> on the network
  now,
  acked, lost, arrived

ackVars == <<next, sent, time_sent, recv, largest, packets, acks, now,
          acked, lost, arrived>>

AckInit ==
  /\ next = [s \in Spaces |-> 0]
  /\ sent = [s \in Spaces |-> SentInit]
  /\ time_sent = [s \in Spaces |-> [pn \in 0 .. (MaxSent[s] - 1) |-> 0]]
  /\ recv = [s \in Spaces |-> RecvPnInit]
  /\ largest = [s \in Spaces |-> Free]
  /\ packets = {} /\ acks = {}
  /\ now = 0
  /\ acked = {} /\ lost = {} /\ arrived = {}

\* A packet the table has no room for is not sent.
SendPacket(s) ==
  /\ next[s] < MaxSent[s]
  /\ HasRoom(sent[s])
  /\ next' = [next EXCEPT ![s] = @ + 1]
  /\ sent' = [sent EXCEPT ![s] = SentOnSend(@, next[s])]
  /\ time_sent' = [time_sent EXCEPT ![s][next[s]] = now]
  /\ packets' = packets \cup {<<s, next[s]>>}
  /\ UNCHANGED <<recv, largest, acks, now, acked, lost, arrived>>

Arrive(s, pn) ==
  /\ <<s, pn>> \in packets
  /\ recv' = [recv EXCEPT ![s] = Record(@, pn)]
  /\ arrived' = arrived \cup {<<s, pn>>}
  /\ UNCHANGED <<next, sent, time_sent, largest, packets, acks, now, acked, lost>>

SendAck(s) ==
  /\ AckRanges(recv[s]) # NoRanges
  /\ acks' = acks \cup {<<s, recv[s].largest, AckRanges(recv[s])>>}
  /\ UNCHANGED <<next, sent, time_sent, recv, largest, packets, now,
                 acked, lost, arrived>>

\* Whether a packet crossed the packet threshold or the time threshold.
PastThreshold(top, pn, at) ==
  top >= pn + PacketThreshold \/ now >= at + LossDelay

LostNow(t, top, at) ==
  {pn \in InFlight(t) : PastThreshold(top, pn, at[pn])}

\* Mutant: packets marked lost keep their slots.
DropLost_Keep(t, gone) == t

DropLost(t, gone) ==
  [i \in Slots |-> IF t[i] \in gone THEN Free ELSE t[i]]

\* The peer's ACK: the ranges, then loss detection up to the largest number.
ReceiveAck(s, top, wire) ==
  LET after == AckProcess(sent[s], top, wire)
      max   == IF top > largest[s] THEN top ELSE largest[s]
      gone  == LostNow(after, max, time_sent[s])
  IN  /\ <<s, top, wire>> \in acks
      /\ sent' = [sent EXCEPT ![s] = DropLost(after, gone)]
      /\ largest' = [largest EXCEPT ![s] = max]
      /\ acked' = acked \cup {<<s, pn>> : pn \in InFlight(sent[s]) \ InFlight(after)}
      /\ lost' = lost \cup {<<s, pn>> : pn \in gone}
      /\ UNCHANGED <<next, time_sent, recv, packets, acks, now, arrived>>

Tick ==
  /\ now < MaxTime
  /\ now' = now + 1
  /\ UNCHANGED <<next, sent, time_sent, recv, largest, packets, acks,
                 acked, lost, arrived>>

AckNext ==
  \/ \E s \in Spaces : SendPacket(s) \/ SendAck(s)
  \/ \E p \in packets : Arrive(p[1], p[2])
  \/ \E a \in acks : ReceiveAck(a[1], a[2], a[3])
  \/ Tick

AckSpec == AckInit /\ [][AckNext]_ackVars

-----------------------------------------------------------------------------
(***************************************************************************)
(* Properties.                                                             *)
(***************************************************************************)
\* Types, and the window as wide as its bitmap.
AckTypeOK ==
  /\ next \in [Spaces -> Nat] /\ sent \in [Spaces -> SentTable]
  /\ recv \in [Spaces -> RecvPn] /\ largest \in [Spaces -> Nat \cup {Free}]
  /\ now \in Nat
  /\ packets \subseteq Spaces \X Nat /\ arrived \subseteq packets

\* What the sender takes for acknowledged has arrived, in that space: the
\* window, the range encoding and the range walk never vouch for a packet that
\* did not arrive, however ACKs are duplicated and reordered
\* (recv_spaces.c:16-36, ackrange.c, ack_process.c:24-41).
AckHonest == acked \subseteq arrived

\* Every packet is in flight, acknowledged or lost, and in one of them only: a
\* late or repeated ACK neither frees a slot twice nor revives a lost packet
\* (ack_process.c:13-20, lossdrive.c:10-26).
Accounted ==
  LET flying == {p \in packets : p[2] \in InFlight(sent[p[1]])}
  IN  /\ packets = flying \cup acked \cup lost
      /\ acked \cap lost = {} /\ flying \cap (acked \cup lost) = {}

\* Inside the window the bitmap is exact: a number is reported seen exactly
\* when it arrived and is no more than Window below the largest (recvpn.c:10-55).
WindowExact ==
  \A s \in Spaces : \A pn \in 0 .. recv[s].largest :
    Seen(recv[s], pn) <=>
      <<s, pn>> \in arrived /\ recv[s].largest - pn <= Window

\* The two ways of computing the first ACK range agree (recvpn.c:62-67,
\* ackrange.c:48-53).
FirstRangeAgrees ==
  \A s \in Spaces :
    AckRanges(recv[s]) # NoRanges => AckRanges(recv[s])[1] = FirstRange(recv[s])

\* What the receiver records, what its ACK frames say and what the sender
\* concludes from them agree (recvpn.c, ackrange.c, ack_process.c).
AcksHonest == AckTypeOK /\ AckHonest /\ WindowExact /\ FirstRangeAgrees
=============================================================================
