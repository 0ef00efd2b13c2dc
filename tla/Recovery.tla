------------------------------ MODULE Recovery ------------------------------
(***************************************************************************)
(* What a sender keeps for loss recovery (recovery/detect/recovery,        *)
(* recovery/congestion, recovery/rtx): the table of sent packets, the RTT  *)
(* estimator, the probe timeout, the congestion window, and the ring of    *)
(* frames kept for retransmission.  Times and sizes are small integers.    *)
(***************************************************************************)
EXTENDS Integers, Sequences, FiniteSets, FiniteSetsExt

CONSTANTS
  TableCap,         \* QUIC_SENT_CAP
  PktThreshold,     \* QUIC_PACKET_THRESHOLD
  MaxDatagram,      \* QUIC_MAX_DATAGRAM
  InitPackets,      \* datagrams of QUIC_CC_INIT_WINDOW
  Infinite,         \* ssthresh before the first loss
  InitialRtt,       \* QUIC_RTT_INITIAL_US
  Granularity,      \* QUIC_PTO_GRANULARITY
  BackoffMax,       \* QUIC_PTO_BACKOFF_MAX
  RtxSlots,         \* QUIC_RTXBYTES_SLOTS
  RtxFrame          \* QUIC_RTXBYTES_FRAME

ASSUME RecoveryAssumption ==
  /\ TableCap \in Nat /\ PktThreshold \in Nat /\ BackoffMax \in Nat
  /\ MaxDatagram \in Nat \ {0} /\ InitPackets \in Nat /\ InitPackets >= 2
  /\ Infinite \in Nat /\ Infinite >= InitPackets * MaxDatagram
  /\ InitialRtt \in Nat /\ Granularity \in Nat /\ RtxSlots \in Nat \ {0}

\* Both are 1200 in the code.
ASSUME RtxAssumption == RtxFrame \in Nat /\ RtxFrame >= MaxDatagram

U64Max(a, b) == IF a > b THEN a ELSE b
U64Min(a, b) == IF a < b THEN a ELSE b
AbsDiff(a, b) == IF a > b THEN a - b ELSE b - a

\* A finite set in the order of its keys, which differ.
Rank(S, key, x) == Cardinality({y \in S : key[y] <= key[x]})
Sorted(S, key) == [i \in 1 .. Cardinality(S) |-> CHOOSE x \in S : Rank(S, key, x) = i]

-----------------------------------------------------------------------------
(***************************************************************************)
(* Sent packets.  A slot, once taken, is never given back: pkts is the set *)
(* of all of them.                                                         *)
(***************************************************************************)
SentPkt == [pn : Nat, size : Nat, time_sent : Nat, state : {"INFLIGHT", "ACKED", "LOST"}]

SentTableInit == [pkts |-> {}, bytes_in_flight |-> 0, largest_acked |-> 0, have_acked |-> FALSE]

HasSlot(s) == Cardinality(s.pkts) < TableCap

SentAdd(s, pn, size, time) ==
  [s EXCEPT !.pkts = @ \union {[pn |-> pn, size |-> size, time_sent |-> time, state |-> "INFLIGHT"]},
            !.bytes_in_flight = @ + size]

BytesOf(ps) == SumFunction([p \in ps |-> p.size])

FlyingPkts(s) == {p \in s.pkts : p.state = "INFLIGHT"}

\* Packets leave the flight, each taking its bytes off once.
Leave(s, ps, state) ==
  [s EXCEPT !.pkts = (@ \ ps) \union {[p EXCEPT !.state = state] : p \in ps},
            !.bytes_in_flight = @ - BytesOf(ps)]

NoteAcked(s, pns) ==
  LET top == Max(pns)
  IN  [s EXCEPT !.largest_acked = IF s.have_acked /\ top <= @ THEN @ ELSE top, !.have_acked = TRUE]

\* Mutant: any entry with the number is acknowledged, whatever its state.
AckedBy_AnyState(s, pns) == {p \in s.pkts : p.pn \in pns}

AckedBy(s, pns) == {p \in FlyingPkts(s) : p.pn \in pns}

\* quic_sent_on_ack for every number an ACK reports.
SentAck(s, pns) == Leave(NoteAcked(s, pns), AckedBy(s, pns), "ACKED")

LostPkts(s) ==
  {p \in FlyingPkts(s) : s.have_acked /\ s.largest_acked >= p.pn + PktThreshold}

DetectLoss(s) == Leave(s, LostPkts(s), "LOST")

-----------------------------------------------------------------------------
(***************************************************************************)
(* The RTT estimator and the probe timeout.                                *)
(***************************************************************************)
RttInit ==
  [min_rtt |-> 0, smoothed_rtt |-> InitialRtt, rttvar |-> InitialRtt \div 2, have_sample |-> FALSE]

FirstSample(latest) ==
  [min_rtt |-> latest, smoothed_rtt |-> latest, rttvar |-> latest \div 2, have_sample |-> TRUE]

\* Mutant: the peer's delay is subtracted whatever is left.
Adjust_Unguarded(r, latest, ack_delay) ==
  IF latest >= ack_delay THEN latest - ack_delay ELSE latest

Adjust(r, latest, ack_delay) ==
  IF latest >= r.min_rtt + ack_delay THEN latest - ack_delay ELSE latest

NextSample(r, latest, ack_delay) ==
  LET adjusted == Adjust(r, latest, ack_delay)
  IN  [r EXCEPT !.min_rtt = U64Min(@, latest),
                !.rttvar = (3 * @ + AbsDiff(r.smoothed_rtt, adjusted)) \div 4,
                !.smoothed_rtt = (7 * @ + adjusted) \div 8]

RttSample(r, latest, ack_delay) ==
  IF r.have_sample THEN NextSample(r, latest, ack_delay) ELSE FirstSample(latest)

SampleTime(now, sent_time) == IF now >= sent_time THEN now - sent_time ELSE 0

PtoBackoff(count) == 2 ^ U64Min(count, BackoffMax)

PtoDuration(r, max_ack_delay, count) ==
  (r.smoothed_rtt + U64Max(4 * r.rttvar, Granularity) + max_ack_delay) * PtoBackoff(count)

PtoShouldReset(ack_received, eliciting_in_flight) == ack_received /\ eliciting_in_flight = 0

ProbeCount(fired) == IF fired THEN 2 ELSE 0

-----------------------------------------------------------------------------
(***************************************************************************)
(* The congestion window.                                                  *)
(***************************************************************************)
MinWindow == 2 * MaxDatagram

CcInit == [cwnd |-> InitPackets * MaxDatagram, ssthresh |-> Infinite,
           in_recovery |-> FALSE, recovery_start |-> 0]

Grow(c, acked) ==
  [c EXCEPT !.cwnd = @ + (IF c.cwnd < c.ssthresh THEN acked ELSE (MaxDatagram * acked) \div c.cwnd)]

MaybeExit(c, sent_time) ==
  [c EXCEPT !.in_recovery = @ /\ sent_time <= c.recovery_start]

CcOnAck(c, acked, sent_time) ==
  LET e == MaybeExit(c, sent_time)
  IN  IF e.in_recovery THEN e ELSE Grow(e, acked)

Cuts(c, sent_time) == ~c.in_recovery /\ sent_time >= c.recovery_start

\* Mutant: out of recovery, any loss is a new congestion event.
CcOnLoss_AnyTime(c, sent_time, now) ==
  LET half == U64Max(c.cwnd \div 2, MinWindow)
  IN  IF c.in_recovery THEN c
      ELSE [cwnd |-> half, ssthresh |-> half, in_recovery |-> TRUE, recovery_start |-> now]

CcOnLoss(c, sent_time, now) ==
  LET half == U64Max(c.cwnd \div 2, MinWindow)
  IN  IF Cuts(c, sent_time)
      THEN [cwnd |-> half, ssthresh |-> half, in_recovery |-> TRUE, recovery_start |-> now]
      ELSE c

CcOnPersistent(c) == [c EXCEPT !.cwnd = MinWindow]

CcPersistent(loss_period, pto) == loss_period >= 3 * pto

WindowAllows(in_flight, cwnd, size) == in_flight + size <= cwnd

-----------------------------------------------------------------------------
(***************************************************************************)
(* Frames kept for retransmission.  A payload is a sequence of frames; one *)
(* whose first frame is ACK or PADDING is not sent again.  Data frames are *)
(* numbered.                                                               *)
(***************************************************************************)
PADDING == -1
ACK == -2
PING == -3

NoSlot == [used |-> FALSE, pn |-> 0, data |-> <<>>]

RtxInit == [s |-> [i \in 0 .. RtxSlots - 1 |-> NoSlot], next |-> 0]

\* Mutant: the ring's last slot is never used.
RtxStore_ShortRing(st, pn, data) ==
  [s |-> [st.s EXCEPT ![st.next] = [used |-> TRUE, pn |-> pn, data |-> data]],
   next |-> IF st.next + 2 >= RtxSlots THEN 0 ELSE st.next + 1]

RtxStore(st, pn, data) ==
  IF Len(data) > RtxFrame THEN st
  ELSE [s |-> [st.s EXCEPT ![st.next] = [used |-> TRUE, pn |-> pn, data |-> data]],
        next |-> (st.next + 1) % RtxSlots]

Holding(st, pn) == {i \in DOMAIN st.s : st.s[i].used /\ st.s[i].pn = pn}

RtxGet(st, pn) == st.s[CHOOSE i \in Holding(st, pn) : \A j \in Holding(st, pn) : i <= j].data

Retransmittable(data) == data[1] \notin {ACK, PADDING}

\* What is sent again for one lost number; nothing if its slot was reused.
RtxBuild(st, pn) ==
  IF Holding(st, pn) = {} \/ ~Retransmittable(RtxGet(st, pn)) THEN <<>> ELSE RtxGet(st, pn)

Collect(st, pns) ==
  LET out[i \in 0 .. Len(pns)] ==
        IF i = 0 THEN <<>> ELSE out[i - 1] \o RtxBuild(st, pns[i])
  IN  out[Len(pns)]

CollectFits(st, pns, cap) == Len(Collect(st, pns)) <= cap

\* The longest run of lost numbers whose frames fit one packet.
Batch(st, pns, cap) ==
  LET fit == {k \in 0 .. Len(pns) : CollectFits(st, SubSeq(pns, 1, k), cap)}
  IN  Collect(st, SubSeq(pns, 1, CHOOSE k \in fit : \A j \in fit : j <= k))

(***************************************************************************)
(* A sender that drives the recovery library as its headers and RFC 9002   *)
(* order it: a packet is recorded and its frames kept when it is sent; an  *)
(* ACK takes packets off the table, grows the window and samples the RTT;  *)
(* then losses are detected, cut the window and queue the frames; a PTO    *)
(* sends probes outside the window.                                        *)
(*                                                                         *)
(* The network is whatever the peer acknowledges: any packets that were    *)
(* sent, at any time, any number of times, in any order.  A packet never   *)
(* acknowledged is a lost one.                                             *)
(***************************************************************************)

CONSTANTS
  Data,            \* data frames to send, one byte each
  SenderTime,      \* the clock stops here
  AckDelays,       \* delays the peer reports
  MaxAckDelay,     \* the peer's transport parameter
  MaxPto,          \* bound on consecutive probe timeouts
  MaxReported      \* bound on the numbers one ACK reports

ASSUME SenderAssumption ==
  AckDelays \subseteq Nat /\ Data \in SUBSET Nat /\ IsFiniteSet(Data)

VARIABLES
  sender,
  rtt      \* the estimator, and the least and the greatest sample so far

senderVars == <<sender, rtt>>

SenderInit ==
  /\ sender = [now |-> 0, next |-> 0, todo |-> Data, sent |-> SentTableInit, cc |-> CcInit,
               pto_count |-> 0, probes |-> 0, rtx |-> RtxInit, lost |-> <<>>,
               \* history: the frames of each packet and the cuts of the window
               carried |-> <<>>, cuts |-> <<>>]
  /\ rtt = [est |-> RttInit, lo |-> 0, hi |-> 0]

Flying == FlyingPkts(sender.sent)
Delivered == UNION {Range(sender.carried[p.pn + 1]) : p \in {q \in sender.sent.pkts : q.state = "ACKED"}}

\* quic_sent_on_send and quic_rtxbytes_store for one packet.
Outgoing(s, data) ==
  [s EXCEPT !.next = @ + 1,
            !.sent = SentAdd(@, s.next, Len(data), s.now),
            !.rtx = RtxStore(@, s.next, data),
            !.carried = Append(@, data)]

SendNew(n) ==
  LET data == SubSeq(Sorted(sender.todo, [f \in sender.todo |-> f]), 1, n)
  IN  /\ n <= Cardinality(sender.todo)
      /\ WindowAllows(sender.sent.bytes_in_flight, sender.cc.cwnd, n)
      /\ HasSlot(sender.sent)
      /\ sender' = Outgoing([sender EXCEPT !.todo = @ \ Range(data)], data)

\* An ACK padded to be in flight.
SendPadded ==
  /\ sender.todo = Data
  /\ WindowAllows(sender.sent.bytes_in_flight, sender.cc.cwnd, 1)
  /\ HasSlot(sender.sent) /\ sender.next = 0
  /\ sender' = Outgoing(sender, <<ACK>>)

\* The frames of the first n lost packets, in one new packet.  Numbers with
\* nothing to send again leave the queue with them.
Retransmit(n) ==
  LET pns  == SubSeq(sender.lost, 1, n)
      data == Batch(sender.rtx, pns, MaxDatagram)
      rest == [sender EXCEPT !.lost = SubSeq(@, n + 1, Len(@))]
  IN  /\ CollectFits(sender.rtx, pns, MaxDatagram)
      /\ \/ data = <<>> /\ sender' = rest
         \/ /\ data # <<>>
            /\ WindowAllows(sender.sent.bytes_in_flight, sender.cc.cwnd, Len(data))
            /\ HasSlot(sender.sent)
            /\ sender' = Outgoing(rest, data)

LastSent == Max({p.time_sent : p \in Flying})

PtoFires ==
  /\ Flying # {} /\ sender.pto_count < MaxPto
  /\ sender.now >= LastSent + PtoDuration(rtt.est, MaxAckDelay, sender.pto_count)
  /\ sender' = [sender EXCEPT !.pto_count = @ + 1, !.probes = ProbeCount(TRUE)]

\* A probe carries the oldest frames still in flight, or a PING.
SendProbe ==
  LET data == IF Flying = {} THEN <<>> ELSE RtxBuild(sender.rtx, Min({p.pn : p \in Flying}))
  IN  /\ sender.probes > 0 /\ HasSlot(sender.sent)
      /\ sender' = Outgoing([sender EXCEPT !.probes = @ - 1], IF data = <<>> THEN <<PING>> ELSE data)

ByNumber(ps) == Sorted(ps, [p \in ps |-> p.pn])

AckOne(c, p) == CcOnAck(c, p.size, p.time_sent)

AckAll(c, ps) ==
  LET after[i \in 0 .. Len(ps)] == IF i = 0 THEN c ELSE AckOne(after[i - 1], ps[i])
  IN  after[Len(ps)]

\* The window after one more loss, with the history of cuts.
LoseOne(w, p) ==
  LET c == CcOnLoss(w.cc, p.time_sent, sender.now)
  IN  [cc |-> c, cuts |-> IF c = w.cc THEN w.cuts
                          ELSE Append(w.cuts, [at |-> sender.now, sent |-> p.time_sent])]

LoseAll(w, ps) ==
  LET after[i \in 0 .. Len(ps)] == IF i = 0 THEN w ELSE LoseOne(after[i - 1], ps[i])
  IN  after[Len(ps)]

\* The largest number acknowledged gives a sample if it is new.
Sample(r, ps, ack_delay) ==
  LET latest == SampleTime(sender.now, (CHOOSE p \in ps : TRUE).time_sent)
  IN  IF ps = {} THEN r
      ELSE [est |-> RttSample(r.est, latest, ack_delay),
            lo |-> IF r.est.have_sample THEN U64Min(r.lo, latest) ELSE latest,
            hi |-> IF r.est.have_sample THEN U64Max(r.hi, latest) ELSE latest]

Persistent(gone, pto) ==
  LET times == {p.time_sent : p \in gone}
  IN  gone # {} /\ CcPersistent(Max(times) - Min(times), pto)

OnAckFrame(pns, ack_delay) ==
  LET acked == SentAck(sender.sent, pns)
      gone  == LostPkts(acked)
      sent  == DetectLoss(acked)
      grown == AckAll(sender.cc, ByNumber(AckedBy(sender.sent, pns)))
      w     == LoseAll([cc |-> grown, cuts |-> sender.cuts], ByNumber(gone))
  IN  /\ rtt' = Sample(rtt, AckedBy(sender.sent, {Max(pns)}), ack_delay)
      /\ sender' = [sender EXCEPT
           !.sent = sent,
           !.cuts = w.cuts,
           !.cc = IF Persistent(gone, PtoDuration(rtt'.est, MaxAckDelay, sender.pto_count))
                  THEN CcOnPersistent(w.cc) ELSE w.cc,
           !.lost = @ \o [i \in 1 .. Cardinality(gone) |-> ByNumber(gone)[i].pn],
           !.pto_count = IF PtoShouldReset(TRUE, Cardinality(FlyingPkts(sent))) THEN 0 ELSE @]

Reports ==
  {pns \in SUBSET {p.pn : p \in sender.sent.pkts} : Cardinality(pns) \in 1 .. MaxReported}

SenderTick == sender.now < SenderTime /\ sender' = [sender EXCEPT !.now = @ + 1]

SenderNext ==
  \/ /\ UNCHANGED rtt
     /\ \/ \E n \in 1 .. MaxDatagram : SendNew(n)
        \/ SendPadded \/ PtoFires \/ SendProbe \/ SenderTick
        \/ \E n \in 1 .. Len(sender.lost) : Retransmit(n)
  \/ \E pns \in Reports, d \in AckDelays : OnAckFrame(pns, d)

SenderSpec == SenderInit /\ [][SenderNext]_senderVars

-----------------------------------------------------------------------------
\* The bytes in flight are those of the packets in flight: an ACK of what was
\* already acknowledged or declared lost takes nothing off (sent.c:47-67).
BytesInFlightExact ==
  sender.sent.bytes_in_flight = BytesOf(Flying)

\* Frames that were sent are acknowledged, in flight, or waiting in the queue
\* with their bytes still held, unless RtxSlots packets were sent since and
\* the ring wrapped over them (rtxstore.c:10-24, batch.c, sent.c:56-80).
NothingForgotten ==
  \A f \in Data \ sender.todo :
    \/ f \in Delivered
    \/ \E pn \in 0 .. sender.next - 1 :
         /\ f \in Range(sender.carried[pn + 1])
         /\ \/ \E p \in Flying : p.pn = pn
            \/ pn \in Range(sender.lost) /\ RtxBuild(sender.rtx, pn) # <<>>
            \/ sender.next - pn > RtxSlots

\* One flight of packets cuts the window once: the loss behind a cut was sent
\* no earlier than every cut before it (cc.c:20-36).
OneCutPerFlight ==
  \A i, j \in DOMAIN sender.cuts : i < j => sender.cuts[j].sent >= sender.cuts[i].at

\* The window keeps its floor, and does not grow past ssthresh while the
\* sender is recovering (cc.c:12-38).
RecoveryWindow ==
  /\ sender.cc.cwnd >= MinWindow
  /\ sender.cc.in_recovery => sender.cc.cwnd <= sender.cc.ssthresh

\* The congestion window over a whole loss episode: one cut for a flight, then
\* no growth past the threshold until a packet sent after the cut is
\* acknowledged (cc.c:12-38).
WindowCutOnce == OneCutPerFlight /\ RecoveryWindow

\* The minimum is the least sample and the smoothed RTT lies between the least
\* and the greatest, whatever delays the peer reports (rtt.c:12-39).
SmoothedWithinSamples ==
  rtt.est.have_sample =>
    /\ rtt.est.min_rtt = rtt.lo
    /\ rtt.lo <= rtt.est.smoothed_rtt
    /\ rtt.est.smoothed_rtt <= rtt.hi
=============================================================================
