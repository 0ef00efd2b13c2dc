--------------------------- MODULE RecoveryProofs ---------------------------
(***************************************************************************)
(* The estimator, the window, the table of sent packets and the ring of    *)
(* payloads of a sender, one operation at a time: the estimator stays      *)
(* within the samples it was given, the window keeps its floor and is cut  *)
(* once per recovery, the table counts its bytes, the ring holds what the  *)
(* packets carried.                                                        *)
(***************************************************************************)
EXTENDS Recovery, Inductions, TLAPS

Estimate == [min_rtt : Nat, smoothed_rtt : Nat, rttvar : Nat, have_sample : BOOLEAN]

SenderFields == {"now", "next", "todo", "sent", "cc", "pto_count", "probes", "rtx", "lost",
                 "carried", "cuts"}

TableFields == {"pkts", "bytes_in_flight", "largest_acked", "have_acked"}

Timed(pkts) ==
  \A p \in pkts : DOMAIN p = {"pn", "size", "time_sent", "state"} /\ p.time_sent \in Nat

\* Times are numbers: what the estimator's induction needs of the sender.
Clocked ==
  /\ DOMAIN sender = SenderFields
  /\ DOMAIN sender.sent = TableFields
  /\ sender.now \in Nat
  /\ Timed(sender.sent.pkts)

Samples == [est : Estimate, lo : Nat, hi : Nat]

RttInv == Clocked /\ rtt \in Samples /\ SmoothedWithinSamples

-----------------------------------------------------------------------------
\* The weighted mean of two numbers in a range stays in it, rounded down.
LEMMA MeanWithin ==
  ASSUME NEW s \in Nat, NEW a \in Nat, NEW lo \in Nat, NEW hi \in Nat,
         lo <= s, s <= hi, lo <= a, a <= hi
  PROVE  (7 * s + a) \div 8 \in Nat /\ lo <= (7 * s + a) \div 8 /\ (7 * s + a) \div 8 <= hi
  OBVIOUS

\* The adjusted sample keeps above the minimum when the sample does, and is
\* never above the sample (rtt.c:20-23).
LEMMA AdjustWithin ==
  ASSUME NEW r \in Estimate, NEW latest \in Nat, NEW d \in Nat
  PROVE  /\ Adjust(r, latest, d) \in Nat
         /\ Adjust(r, latest, d) <= latest
         /\ Adjust(r, latest, d) >= U64Min(r.min_rtt, latest)
  BY DEF Adjust, U64Min, Estimate

\* A sample keeps the estimator in its type.
LEMMA SampleType ==
  ASSUME NEW r \in Estimate, NEW latest \in Nat, NEW d \in Nat
  PROVE  RttSample(r, latest, d) \in Estimate
<1> DEFINE a == Adjust(r, latest, d)
<1>1. a \in Nat BY AdjustWithin
<1> HIDE DEF a
<1>2. /\ r.min_rtt \in Nat /\ r.smoothed_rtt \in Nat /\ r.rttvar \in Nat
  BY DEF Estimate
<1>3. AbsDiff(r.smoothed_rtt, a) \in Nat BY <1>1, <1>2 DEF AbsDiff
<1>4. (3 * r.rttvar + AbsDiff(r.smoothed_rtt, a)) \div 4 \in Nat BY <1>2, <1>3
<1>5. (7 * r.smoothed_rtt + a) \div 8 \in Nat BY <1>1, <1>2
<1>6. U64Min(r.min_rtt, latest) \in Nat BY <1>2 DEF U64Min
<1>7. CASE r.have_sample
  <2>1. RttSample(r, latest, d) =
          [r EXCEPT !.min_rtt = U64Min(r.min_rtt, latest),
                    !.rttvar = (3 * r.rttvar + AbsDiff(r.smoothed_rtt, a)) \div 4,
                    !.smoothed_rtt = (7 * r.smoothed_rtt + a) \div 8]
    BY <1>7 DEF RttSample, NextSample, a, Estimate
  <2> QED BY Zenon, <2>1, <1>4, <1>5, <1>6 DEF Estimate
<1>8. CASE ~r.have_sample
  <2>1. latest \div 2 \in Nat OBVIOUS
  <2> QED BY <1>8, <2>1 DEF RttSample, FirstSample, Estimate
<1> QED BY <1>7, <1>8

\* A sample keeps the estimator within the samples, itself included
\* (rtt.c:12-39).
LEMMA SampleWithin ==
  ASSUME NEW r \in Estimate, NEW lo \in Nat, NEW hi \in Nat, NEW latest \in Nat, NEW d \in Nat,
         r.have_sample, r.min_rtt = lo, lo <= r.smoothed_rtt, r.smoothed_rtt <= hi
  PROVE  LET n == RttSample(r, latest, d)
         IN  /\ n.min_rtt = U64Min(lo, latest)
             /\ U64Min(lo, latest) <= n.smoothed_rtt
             /\ n.smoothed_rtt <= U64Max(hi, latest)
<1> DEFINE a == Adjust(r, latest, d)
           n == RttSample(r, latest, d)
<1>1. a \in Nat /\ a <= latest /\ a >= U64Min(lo, latest) BY Zenon, AdjustWithin
<1>2. n.min_rtt = U64Min(lo, latest) /\ n.smoothed_rtt = (7 * r.smoothed_rtt + a) \div 8
  BY DEF RttSample, NextSample, Estimate
<1> HIDE DEF a, n
<1>3. U64Min(lo, latest) \in Nat /\ U64Max(hi, latest) \in Nat BY DEF U64Min, U64Max
<1>4. r.smoothed_rtt \in Nat BY DEF Estimate
<1>5. U64Min(lo, latest) <= r.smoothed_rtt /\ r.smoothed_rtt <= U64Max(hi, latest)
  BY <1>4 DEF U64Min, U64Max
<1>6. a <= U64Max(hi, latest) BY <1>1 DEF U64Max
<1>7. /\ U64Min(lo, latest) <= (7 * r.smoothed_rtt + a) \div 8
      /\ (7 * r.smoothed_rtt + a) \div 8 <= U64Max(hi, latest)
  BY <1>1, <1>3, <1>4, <1>5, <1>6, MeanWithin
<1> QED BY <1>2, <1>7 DEF n

\* One acknowledgement's sample keeps the bounds.
LEMMA SampleKeeps ==
  ASSUME RttInv, NEW ps \in SUBSET sender.sent.pkts, NEW d \in Nat
  PROVE  LET r == Sample(rtt, ps, d)
         IN  r \in Samples /\ (r.est.have_sample =>
               r.est.min_rtt = r.lo /\ r.lo <= r.est.smoothed_rtt /\ r.est.smoothed_rtt <= r.hi)
<1>1. CASE ps = {}
  BY <1>1 DEF Sample, RttInv, SmoothedWithinSamples
<1>2. CASE ps # {}
  <2> DEFINE p == CHOOSE q \in ps : TRUE
             latest == SampleTime(sender.now, p.time_sent)
             r == Sample(rtt, ps, d)
  <2>1. p \in ps BY <1>2
  <2>2. p.time_sent \in Nat BY <2>1 DEF RttInv, Clocked, Timed
  <2>3. latest \in Nat BY <2>2 DEF SampleTime, RttInv, Clocked
  <2>4. rtt.est \in Estimate /\ rtt.lo \in Nat /\ rtt.hi \in Nat BY DEF RttInv, Samples
  <2>5. r = [est |-> RttSample(rtt.est, latest, d),
             lo |-> IF rtt.est.have_sample THEN U64Min(rtt.lo, latest) ELSE latest,
             hi |-> IF rtt.est.have_sample THEN U64Max(rtt.hi, latest) ELSE latest]
    BY <1>2 DEF Sample
  <2> HIDE DEF p, latest, r
  <2>6. RttSample(rtt.est, latest, d) \in Estimate BY <2>3, <2>4, SampleType
  <2>7. CASE rtt.est.have_sample
    <3>1. rtt.est.min_rtt = rtt.lo /\ rtt.lo <= rtt.est.smoothed_rtt /\ rtt.est.smoothed_rtt <= rtt.hi
      BY <2>7 DEF RttInv, SmoothedWithinSamples
    <3>2. LET n == RttSample(rtt.est, latest, d)
          IN  /\ n.min_rtt = U64Min(rtt.lo, latest)
              /\ U64Min(rtt.lo, latest) <= n.smoothed_rtt
              /\ n.smoothed_rtt <= U64Max(rtt.hi, latest)
      BY <2>3, <2>4, <2>7, <3>1, SampleWithin
    <3>3. r.lo = U64Min(rtt.lo, latest) /\ r.hi = U64Max(rtt.hi, latest)
          /\ r.est = RttSample(rtt.est, latest, d)
      BY <2>5, <2>7
    <3>4. r.lo \in Nat /\ r.hi \in Nat BY <3>3, <2>3, <2>4 DEF U64Min, U64Max
    <3>5. r \in Samples BY <2>5, <2>6, <3>3, <3>4 DEF Samples
    <3> QED BY <3>2, <3>3, <3>5 DEF r
  <2>8. CASE ~rtt.est.have_sample
    <3>1. RttSample(rtt.est, latest, d) = FirstSample(latest) BY <2>8 DEF RttSample
    <3>2. r = [est |-> FirstSample(latest), lo |-> latest, hi |-> latest] BY <2>5, <2>8, <3>1
    <3> QED BY <2>3, <2>6, <3>1, <3>2 DEF r, FirstSample, Samples
  <2> QED BY <2>7, <2>8
<1> QED BY <1>1, <1>2

-----------------------------------------------------------------------------
\* Packets that leave the flight keep the table's shape.
LEMMA LeaveKeeps ==
  ASSUME NEW t, DOMAIN t = TableFields, Timed(t.pkts),
         NEW ps \in SUBSET t.pkts, NEW state \in {"ACKED", "LOST"}
  PROVE  /\ DOMAIN Leave(t, ps, state) = TableFields
         /\ Timed(Leave(t, ps, state).pkts)
<1>1. Leave(t, ps, state).pkts = (t.pkts \ ps) \union {[p EXCEPT !.state = state] : p \in ps}
  BY DEF Leave, TableFields
<1>2. \A p \in ps : /\ DOMAIN [p EXCEPT !.state = state] = DOMAIN p
                    /\ [p EXCEPT !.state = state].time_sent = p.time_sent
  BY DEF Timed
<1>3. DOMAIN Leave(t, ps, state) = TableFields BY DEF Leave
<1> QED BY <1>1, <1>2, <1>3 DEF Timed

\* Recording a packet keeps the sender clocked and its clock unchanged.
LEMMA OutgoingKeeps ==
  ASSUME NEW s, DOMAIN s = SenderFields, DOMAIN s.sent = TableFields, s.now \in Nat,
         Timed(s.sent.pkts), NEW data
  PROVE  LET o == Outgoing(s, data)
         IN  /\ DOMAIN o = SenderFields /\ DOMAIN o.sent = TableFields
             /\ o.now = s.now
             /\ Timed(o.sent.pkts)
<1> DEFINE o == Outgoing(s, data)
           q == [pn |-> s.next, size |-> Len(data), time_sent |-> s.now, state |-> "INFLIGHT"]
<1>1. DOMAIN o = SenderFields BY DEF Outgoing
<1>2. o.now = s.now /\ o.sent = SentAdd(s.sent, s.next, Len(data), s.now)
  BY DEF Outgoing, SenderFields
<1>3. DOMAIN o.sent = TableFields BY <1>2 DEF SentAdd
<1>4. o.sent.pkts = s.sent.pkts \union {q} BY <1>2 DEF SentAdd, TableFields
<1>5. DOMAIN q = {"pn", "size", "time_sent", "state"} /\ q.time_sent \in Nat OBVIOUS
<1> QED BY <1>1, <1>2, <1>3, <1>4, <1>5 DEF Timed

-----------------------------------------------------------------------------
\* The sender starts with no sample, at time 0.
LEMMA RttInvInit == SenderInit => RttInv
<1> SUFFICES ASSUME SenderInit PROVE RttInv OBVIOUS
<1>1. Clocked BY DEF SenderInit, Clocked, SenderFields, TableFields, SentTableInit, Timed
<1>2. InitialRtt \div 2 \in Nat BY RecoveryAssumption
<1>3. rtt \in Samples /\ ~rtt.est.have_sample
  BY <1>2, RecoveryAssumption DEF SenderInit, RttInit, Samples, Estimate
<1> QED BY <1>1, <1>3 DEF RttInv, SmoothedWithinSamples

\* Every step of the sender but the reception of an ACK leaves the estimator
\* alone and keeps the times.
LEMMA QuietKeeps ==
  ASSUME RttInv, UNCHANGED rtt,
         NEW s, DOMAIN s = SenderFields, s.sent = sender.sent, s.now = sender.now,
         sender' = s \/ \E data : sender' = Outgoing(s, data)
  PROVE  RttInv'
<1>1. Clocked'
  <2>1. CASE sender' = s BY <2>1 DEF RttInv, Clocked
  <2>2. CASE \E data : sender' = Outgoing(s, data)
    <3>1. PICK data : sender' = Outgoing(s, data) BY <2>2
    <3> QED BY <3>1, OutgoingKeeps DEF RttInv, Clocked
  <2> QED BY <2>1, <2>2
<1> QED BY <1>1 DEF RttInv, SmoothedWithinSamples

LEMMA AckKeeps ==
  ASSUME RttInv, NEW pns, NEW d \in Nat, OnAckFrame(pns, d)
  PROVE  RttInv'
<1> DEFINE ps == AckedBy(sender.sent, {Max(pns)})
           acked == SentAck(sender.sent, pns)
           sent == DetectLoss(acked)
<1>1. rtt' = Sample(rtt, ps, d) BY DEF OnAckFrame
<1>2. ps \in SUBSET sender.sent.pkts BY DEF AckedBy, FlyingPkts
<1>3. rtt' \in Samples /\ SmoothedWithinSamples'
  BY <1>1, <1>2, SampleKeeps DEF SmoothedWithinSamples
<1>4. DOMAIN acked = TableFields /\ Timed(acked.pkts)
  <2> DEFINE t == NoteAcked(sender.sent, pns)
  <2>1. DOMAIN t = TableFields /\ t.pkts = sender.sent.pkts
    BY DEF NoteAcked, RttInv, Clocked, TableFields
  <2>2. AckedBy(sender.sent, pns) \in SUBSET t.pkts BY <2>1 DEF AckedBy, FlyingPkts
  <2>3. Timed(t.pkts) BY <2>1 DEF RttInv, Clocked
  <2> HIDE DEF t
  <2> QED BY <2>1, <2>2, <2>3, LeaveKeeps DEF SentAck, t
<1> HIDE DEF acked
<1>5. DOMAIN sent = TableFields /\ Timed(sent.pkts)
  <2>1. LostPkts(acked) \in SUBSET acked.pkts BY DEF LostPkts, FlyingPkts
  <2> QED BY <1>4, <2>1, LeaveKeeps DEF DetectLoss
<1>6. DOMAIN sender' = SenderFields /\ sender'.sent = sent /\ sender'.now = sender.now
  BY DEF OnAckFrame, acked, RttInv, Clocked, SenderFields
<1>7. Clocked' BY <1>5, <1>6 DEF Clocked, RttInv
<1> QED BY <1>3, <1>7 DEF RttInv

LEMMA RttInvNext == RttInv /\ [SenderNext]_senderVars => RttInv'
<1> SUFFICES ASSUME RttInv, [SenderNext]_senderVars PROVE RttInv' OBVIOUS
<1>0. DOMAIN sender = SenderFields BY DEF RttInv, Clocked
<1>1. ASSUME NEW n, SendNew(n), UNCHANGED rtt PROVE RttInv'
  <2> DEFINE data == SubSeq(Sorted(sender.todo, [f \in sender.todo |-> f]), 1, n)
             s == [sender EXCEPT !.todo = @ \ Range(data)]
  <2>1. sender' = Outgoing(s, data) BY <1>1 DEF SendNew
  <2> HIDE DEF data
  <2>2. DOMAIN s = SenderFields /\ s.sent = sender.sent /\ s.now = sender.now BY <1>0 DEF SenderFields
  <2> HIDE DEF s
  <2> QED BY <1>1, <2>1, <2>2, QuietKeeps
<1>2. ASSUME SendPadded, UNCHANGED rtt PROVE RttInv'
  BY <1>0, <1>2, QuietKeeps DEF SendPadded
<1>3. ASSUME NEW n, Retransmit(n), UNCHANGED rtt PROVE RttInv'
  <2> DEFINE s == [sender EXCEPT !.lost = SubSeq(@, n + 1, Len(@))]
  <2>1. sender' = s \/ \E data : sender' = Outgoing(s, data) BY <1>3 DEF Retransmit
  <2>2. DOMAIN s = SenderFields /\ s.sent = sender.sent /\ s.now = sender.now BY <1>0 DEF SenderFields
  <2> HIDE DEF s
  <2> QED BY <1>3, <2>1, <2>2, QuietKeeps
<1>4. ASSUME PtoFires, UNCHANGED rtt PROVE RttInv'
  <2> DEFINE s == [sender EXCEPT !.pto_count = @ + 1, !.probes = ProbeCount(TRUE)]
  <2>1. sender' = s BY <1>4 DEF PtoFires
  <2>2. DOMAIN s = SenderFields /\ s.sent = sender.sent /\ s.now = sender.now BY <1>0 DEF SenderFields
  <2> HIDE DEF s
  <2> QED BY <1>4, <2>1, <2>2, QuietKeeps
<1>5. ASSUME SendProbe, UNCHANGED rtt PROVE RttInv'
  <2> DEFINE s == [sender EXCEPT !.probes = @ - 1]
  <2>1. \E data : sender' = Outgoing(s, data) BY Zenon, <1>5 DEF SendProbe
  <2>2. DOMAIN s = SenderFields /\ s.sent = sender.sent /\ s.now = sender.now BY <1>0 DEF SenderFields
  <2> HIDE DEF s
  <2> QED BY <1>5, <2>1, <2>2, QuietKeeps
<1>6. ASSUME SenderTick, UNCHANGED rtt PROVE RttInv'
  <2>1. DOMAIN sender' = SenderFields /\ sender'.sent = sender.sent /\ sender'.now = sender.now + 1
    BY <1>0, <1>6 DEF SenderTick, SenderFields
  <2>2. Clocked' BY <2>1 DEF RttInv, Clocked
  <2> QED BY <1>6, <2>2 DEF RttInv, SmoothedWithinSamples
<1>7. ASSUME NEW pns \in Reports, NEW d \in AckDelays, OnAckFrame(pns, d) PROVE RttInv'
  BY <1>7, AckKeeps, SenderAssumption
<1>8. ASSUME UNCHANGED senderVars PROVE RttInv'
  BY <1>8 DEF RttInv, Clocked, SmoothedWithinSamples, senderVars
<1> QED BY <1>1, <1>2, <1>3, <1>4, <1>5, <1>6, <1>7, <1>8 DEF SenderNext

\* The smoothed RTT stays between the least and the greatest sample, and the
\* minimum is the least, whatever delays the peer reports and in whatever
\* order its ACKs arrive (rtt.c:12-39).
THEOREM RttWithinSamples == SenderSpec => []SmoothedWithinSamples
<1>1. RttInv => SmoothedWithinSamples BY DEF RttInv
<1> QED BY <1>1, RttInvInit, RttInvNext, PTL DEF SenderSpec

-----------------------------------------------------------------------------
Window == [cwnd : Nat, ssthresh : Nat, in_recovery : BOOLEAN, recovery_start : Nat]

\* What RecoveryWindow says of the controller, made inductive: ssthresh keeps
\* the floor too, so that a collapse to the floor is not above it.
WindowOk(c) ==
  /\ c \in Window
  /\ c.cwnd >= MinWindow /\ c.ssthresh >= MinWindow
  /\ c.in_recovery => c.cwnd <= c.ssthresh

LEMMA GrowKeeps ==
  ASSUME NEW c, WindowOk(c), ~c.in_recovery, NEW acked \in Nat
  PROVE  WindowOk(Grow(c, acked))
<1> DEFINE inc == IF c.cwnd < c.ssthresh THEN acked ELSE (MaxDatagram * acked) \div c.cwnd
<1>1. MinWindow \in Nat /\ MinWindow > 0 /\ MaxDatagram \in Nat BY RecoveryAssumption DEF MinWindow
<1>2. c.cwnd \in Nat /\ c.cwnd > 0 BY <1>1 DEF WindowOk, Window
<1>3. MaxDatagram * acked \in Nat BY <1>1
<1>4. (MaxDatagram * acked) \div c.cwnd \in Nat
  <2> DEFINE m == MaxDatagram * acked
  <2>1. m \in Nat BY <1>3
  <2> HIDE DEF m
  <2>2. m \div c.cwnd \in Nat BY <1>2, <2>1, Z3
  <2> QED BY <2>2 DEF m
<1>5. inc \in Nat BY <1>4
<1> HIDE DEF inc
<1>6. Grow(c, acked) = [c EXCEPT !.cwnd = c.cwnd + inc] BY DEF Grow, inc
<1> QED BY <1>1, <1>2, <1>5, <1>6 DEF WindowOk, Window

\* No call of the congestion controller takes the window or ssthresh under the
\* floor of two datagrams, or leaves a recovering sender a window above
\* ssthresh, whatever bytes and times it is told of (cc.c:5-38).
THEOREM WindowKept ==
  ASSUME NEW c, NEW acked \in Nat, NEW sent_time \in Nat, NEW now \in Nat
  PROVE  /\ WindowOk(CcInit)
         /\ WindowOk(c) => /\ WindowOk(CcOnAck(c, acked, sent_time))
                           /\ WindowOk(CcOnLoss(c, sent_time, now))
                           /\ WindowOk(CcOnPersistent(c))
<1>1. MinWindow \in Nat BY RecoveryAssumption DEF MinWindow
<1>2. WindowOk(CcInit)
  <2>1. InitPackets * MaxDatagram \in Nat /\ InitPackets * MaxDatagram >= 2 * MaxDatagram
    BY RecoveryAssumption, Z3
  <2> QED BY <2>1, RecoveryAssumption DEF WindowOk, Window, CcInit, MinWindow
<1>3. ASSUME WindowOk(c) PROVE WindowOk(CcOnAck(c, acked, sent_time))
  <2> DEFINE e == MaybeExit(c, sent_time)
  <2>1. WindowOk(e) BY Zenon, <1>3 DEF WindowOk, Window, MaybeExit
  <2> HIDE DEF e
  <2>2. CcOnAck(c, acked, sent_time) = IF e.in_recovery THEN e ELSE Grow(e, acked) BY DEF CcOnAck, e
  <2> QED BY <2>1, <2>2, GrowKeeps
<1>4. ASSUME WindowOk(c) PROVE WindowOk(CcOnLoss(c, sent_time, now))
  <2> DEFINE half == U64Max(c.cwnd \div 2, MinWindow)
  <2>1. c.cwnd \in Nat BY <1>4 DEF WindowOk, Window
  <2>2. c.cwnd \div 2 \in Nat BY <2>1
  <2>3. half \in Nat /\ half >= MinWindow BY <1>1, <2>2 DEF U64Max
  <2> HIDE DEF half
  <2>4. CcOnLoss(c, sent_time, now) =
          IF Cuts(c, sent_time)
          THEN [cwnd |-> half, ssthresh |-> half, in_recovery |-> TRUE, recovery_start |-> now]
          ELSE c
    BY DEF CcOnLoss, half
  <2> QED BY <1>4, <2>3, <2>4 DEF WindowOk, Window
<1>5. ASSUME WindowOk(c) PROVE WindowOk(CcOnPersistent(c))
  BY <1>1, <1>5 DEF WindowOk, Window, CcOnPersistent
<1> QED BY <1>2, <1>3, <1>4, <1>5

-----------------------------------------------------------------------------
(***************************************************************************)
(* The table of sent packets.                                              *)
(***************************************************************************)
Table == [pkts : SUBSET SentPkt, bytes_in_flight : Int, largest_acked : Nat, have_acked : BOOLEAN]

\* Numbers are those that were used, each once, and the bytes are those in
\* flight.
Tracked(t, next) ==
  /\ t \in Table /\ IsFiniteSet(t.pkts)
  /\ \A p \in t.pkts : p.pn < next
  /\ \A p, q \in t.pkts : p.pn = q.pn => p = q
  /\ t.bytes_in_flight = BytesOf(FlyingPkts(t))

Size == [p \in SentPkt |-> p.size]

LEMMA BytesBySize ==
  ASSUME NEW ps \in SUBSET SentPkt, IsFiniteSet(ps)
  PROVE  BytesOf(ps) = SumFunctionOnSet(Size, ps)
<1> DEFINE fun == [p \in ps |-> p.size]
<1>1. \A p \in ps : Size[p] \in Nat /\ fun[p] = Size[p]
  BY DEF Size, SentPkt
<1>2. DOMAIN fun = ps
  OBVIOUS
<1>3. BytesOf(ps) = SumFunctionOnSet(fun, ps)
  BY <1>2 DEF BytesOf, SumFunction
<1> HIDE DEF fun
<1> QED BY <1>1, <1>3, SumEqual

\* Bytes come with a packet and go with the packets that leave.
LEMMA BytesMove ==
  ASSUME NEW ps \in SUBSET SentPkt, IsFiniteSet(ps)
  PROVE  /\ BytesOf(ps) \in Nat
         /\ BytesOf({}) = 0
         /\ \A p \in SentPkt \ ps : BytesOf(ps \union {p}) = BytesOf(ps) + p.size
         /\ \A qs \in SUBSET ps : BytesOf(ps \ qs) = BytesOf(ps) - BytesOf(qs)
<1>1. \A p \in SentPkt : Size[p] \in Nat /\ Size[p] = p.size
  BY DEF Size, SentPkt
<1>2. BytesOf(ps) = SumFunctionOnSet(Size, ps) /\ SumFunctionOnSet(Size, ps) \in Nat
  BY <1>1, BytesBySize, SumRemove
<1>3. BytesOf({}) = 0
  BY Zenon, BytesBySize, FS_EmptySet, SumPicked
<1>4. ASSUME NEW p \in SentPkt \ ps PROVE BytesOf(ps \union {p}) = BytesOf(ps) + p.size
  <2>1. IsFiniteSet(ps \union {p}) /\ ps \union {p} \in SUBSET SentPkt
    BY FS_AddElement
  <2>2. BytesOf(ps \union {p}) = SumFunctionOnSet(Size, ps \union {p})
    BY <2>1, BytesBySize
  <2>3. SumFunctionOnSet(Size, ps \union {p}) = Size[p] + SumFunctionOnSet(Size, ps)
    BY Zenon, <1>1, SumAdd
  <2> QED BY <1>1, <1>2, <2>2, <2>3
<1>5. ASSUME NEW qs \in SUBSET ps PROVE BytesOf(ps \ qs) = BytesOf(ps) - BytesOf(qs)
  <2>1. /\ IsFiniteSet(qs) /\ IsFiniteSet(ps \ qs)
        /\ qs \in SUBSET SentPkt /\ ps \ qs \in SUBSET SentPkt
    BY FS_Subset
  <2>2. BytesOf(qs) = SumFunctionOnSet(Size, qs) /\ BytesOf(ps \ qs) = SumFunctionOnSet(Size, ps \ qs)
    BY <2>1, BytesBySize
  <2>3. /\ SumFunctionOnSet(Size, qs) \in Nat /\ SumFunctionOnSet(Size, ps \ qs) \in Nat
        /\ SumFunctionOnSet(Size, ps) = SumFunctionOnSet(Size, qs) + SumFunctionOnSet(Size, ps \ qs)
    BY Zenon, <1>1, SumSplit
  <2> QED BY <1>2, <2>2, <2>3
<1> QED BY <1>2, <1>3, <1>4, <1>5

\* What quic_sent_on_send of a new number leaves: the table tracks one more packet, in flight.
OneMoreTracked(t, next, size, time) ==
  LET q == [pn |-> next, size |-> size, time_sent |-> time, state |-> "INFLIGHT"]
      u == SentAdd(t, next, size, time)
  IN  /\ Tracked(u, next + 1)
      /\ u.pkts = t.pkts \union {q}
      /\ FlyingPkts(u) = FlyingPkts(t) \union {q}

\* quic_sent_on_send of a new number.
LEMMA SentAddTracks ==
  ASSUME NEW t, NEW next \in Nat, Tracked(t, next), NEW size \in Nat, NEW time \in Nat
  PROVE  OneMoreTracked(t, next, size, time)
<1> DEFINE q == [pn |-> next, size |-> size, time_sent |-> time, state |-> "INFLIGHT"]
           b == t.bytes_in_flight + size
           u == SentAdd(t, next, size, time)
<1>1. q \in SentPkt /\ q.pn = next /\ q.size = size /\ q.state = "INFLIGHT"
  BY DEF SentPkt
<1>2. u = [t EXCEPT !.pkts = t.pkts \union {q}, !.bytes_in_flight = b]
  BY DEF SentAdd, Tracked, Table
<1>3. t \in Table /\ b \in Int
  BY DEF Tracked, Table
<1> HIDE DEF q, b
<1>4. u \in Table /\ u.pkts = t.pkts \union {q} /\ u.bytes_in_flight = b
  <2> DEFINE k == t.pkts \union {q}
  <2>1. k \in SUBSET SentPkt
    BY <1>1, <1>3 DEF Table
  <2>2. u = [t EXCEPT !.pkts = k, !.bytes_in_flight = b]
    BY <1>2
  <2> HIDE DEF k, u
  <2>3. u \in Table /\ u.pkts = k /\ u.bytes_in_flight = b
    BY Zenon, <1>3, <2>1, <2>2 DEF Table
  <2> QED BY <2>3 DEF k
<1>5. FlyingPkts(u) = FlyingPkts(t) \union {q}
  BY <1>1, <1>4 DEF FlyingPkts
<1>6. \A p \in t.pkts : p.pn \in Nat /\ p.pn < next
  BY DEF Tracked, Table, SentPkt
<1>7. q \notin t.pkts
  BY <1>1, <1>6
<1>8. FlyingPkts(t) \in SUBSET SentPkt /\ IsFiniteSet(FlyingPkts(t)) /\ q \notin FlyingPkts(t)
  <2>1. FlyingPkts(t) \in SUBSET t.pkts
    BY DEF FlyingPkts
  <2> QED BY <1>3, <1>7, <2>1, FS_Subset DEF Tracked, Table
<1>9. BytesOf(FlyingPkts(u)) = b
  BY <1>1, <1>5, <1>8, BytesMove DEF Tracked, b
<1>10. IsFiniteSet(u.pkts)
  BY <1>4, FS_AddElement DEF Tracked
<1>11. \A p \in u.pkts : p.pn < next + 1
  BY <1>1, <1>4, <1>6
<1>12. \A p, r \in u.pkts : p.pn = r.pn => p = r
  BY <1>1, <1>4, <1>6 DEF Tracked
<1>13. Tracked(u, next + 1)
  BY <1>4, <1>9, <1>10, <1>11, <1>12 DEF Tracked
<1> QED BY <1>4, <1>5, <1>13 DEF OneMoreTracked, q

\* Packets in flight that leave it keep their numbers, and take their bytes.
LEMMA LeaveTracks ==
  ASSUME NEW t, NEW next \in Nat, Tracked(t, next),
         NEW ps \in SUBSET FlyingPkts(t), NEW state \in {"ACKED", "LOST"}
  PROVE  /\ Tracked(Leave(t, ps, state), next)
         /\ Leave(t, ps, state).pkts = (t.pkts \ ps) \union {[p EXCEPT !.state = state] : p \in ps}
         /\ FlyingPkts(Leave(t, ps, state)) = FlyingPkts(t) \ ps
         /\ Leave(t, ps, state).largest_acked = t.largest_acked
         /\ Leave(t, ps, state).have_acked = t.have_acked
<1> DEFINE u == Leave(t, ps, state)
           moved == {[p EXCEPT !.state = state] : p \in ps}
           b == t.bytes_in_flight - BytesOf(ps)
<1>1. FlyingPkts(t) \in SUBSET t.pkts /\ ps \in SUBSET t.pkts
  BY DEF FlyingPkts
<1>2. /\ t \in Table /\ t.pkts \in SUBSET SentPkt /\ t.bytes_in_flight \in Int
      /\ IsFiniteSet(FlyingPkts(t)) /\ IsFiniteSet(ps)
      /\ FlyingPkts(t) \in SUBSET SentPkt /\ ps \in SUBSET SentPkt
  BY <1>1, FS_Subset DEF Tracked, Table
<1>3. u = [t EXCEPT !.pkts = (t.pkts \ ps) \union moved, !.bytes_in_flight = b]
  BY DEF Leave, Tracked, Table
<1>4. \A p \in SentPkt : /\ [p EXCEPT !.state = state] \in SentPkt
                         /\ [p EXCEPT !.state = state].pn = p.pn
                         /\ [p EXCEPT !.state = state].state = state
  BY DEF SentPkt
<1>5. moved \in SUBSET SentPkt
  BY <1>2, <1>4
<1>6. b \in Int
  BY <1>2, BytesMove
<1> HIDE DEF moved, b
<1>7. /\ u \in Table /\ u.pkts = (t.pkts \ ps) \union moved /\ u.bytes_in_flight = b
      /\ u.largest_acked = t.largest_acked /\ u.have_acked = t.have_acked
  BY Zenon, <1>2, <1>3, <1>5, <1>6 DEF Table
<1>8. \A m \in moved : m.state # "INFLIGHT" /\ \E p \in ps : m.pn = p.pn /\ m = [p EXCEPT !.state = state]
  <2> SUFFICES ASSUME NEW m \in moved
               PROVE  m.state # "INFLIGHT" /\ \E p \in ps : m.pn = p.pn /\ m = [p EXCEPT !.state = state]
    OBVIOUS
  <2>1. PICK p \in ps : m = [p EXCEPT !.state = state]
    BY DEF moved
  <2> QED BY Zenon, <1>2, <1>4, <2>1
<1>9. FlyingPkts(u) = FlyingPkts(t) \ ps
  BY <1>1, <1>7, <1>8 DEF FlyingPkts
<1>10. BytesOf(FlyingPkts(u)) = b
  BY <1>2, <1>9, BytesMove DEF Tracked, b
<1>11. IsFiniteSet(u.pkts)
  <2>1. IsFiniteSet(moved)
    <3> DEFINE f == [p \in ps |-> [p EXCEPT !.state = state]]
    <3>1. f \in Surjection(ps, moved)
      BY DEF Surjection, moved
    <3> QED BY <1>2, <3>1, FS_Surjection
  <2>2. IsFiniteSet(t.pkts \ ps)
    BY FS_Subset DEF Tracked
  <2> QED BY Zenon, <1>7, <2>1, <2>2, FS_Union
<1>12. \A p \in u.pkts : p.pn < next
  BY <1>1, <1>7, <1>8 DEF Tracked
<1>13. \A p, q \in u.pkts : p.pn = q.pn => p = q
  BY <1>1, <1>7, <1>8 DEF Tracked
<1> QED BY <1>7, <1>9, <1>10, <1>11, <1>12, <1>13 DEF Tracked, moved

-----------------------------------------------------------------------------
(***************************************************************************)
(* The ring of frames kept for retransmission.                             *)
(***************************************************************************)
FrameSeq == Seq(Int)
Slot == [used : BOOLEAN, pn : Nat, data : FrameSeq]
Ring == [s : [0 .. RtxSlots - 1 -> Slot], next : 0 .. RtxSlots - 1]

\* What a packet carries, and a slot has room for.
Payload(data) ==
  /\ data = <<ACK>> \/ (data \in Seq(Data \union {PING}) /\ data # <<>>)
  /\ Len(data) <= RtxFrame

\* The number that was last stored in a slot, if one was.
SlotPn(next, at, i) == next - at + i - (IF i < at THEN 0 ELSE RtxSlots)

\* The ring holds the last RtxSlots packets, each in its slot.
Ringed(rtx, carried, next) ==
  /\ rtx \in Ring /\ carried \in Seq(FrameSeq) /\ Len(carried) = next
  /\ \A i \in 1 .. next : Payload(carried[i])
  /\ \A i \in 0 .. RtxSlots - 1 :
       LET pn == SlotPn(next, rtx.next, i)
       IN  rtx.s[i] = IF pn >= 0 THEN [used |-> TRUE, pn |-> pn, data |-> carried[pn + 1]]
                      ELSE NoSlot

LEMMA PayloadType == ASSUME NEW data, Payload(data) PROVE data \in FrameSeq /\ Len(data) \in Nat
<1>1. Data \union {PING} \subseteq Int /\ ACK \in Int
  BY SenderAssumption DEF PING, ACK
<1> DEFINE X == Data \union {PING}
<1>2. CASE data = <<ACK>>
  <2> HIDE DEF ACK
  <2> QED BY <1>1, <1>2 DEF FrameSeq
<1>3. CASE data \in Seq(X)
  <2>1. X \subseteq Int
    BY <1>1
  <2> HIDE DEF X
  <2>2. data \in [1 .. Len(data) -> X] /\ Len(data) \in Nat
    BY <1>3
  <2>3. data \in [1 .. Len(data) -> Int]
    BY Zenon, <2>1, <2>2
  <2> QED BY <2>2, <2>3 DEF FrameSeq
<1> QED BY <1>2, <1>3 DEF Payload

LEMMA NextSlot ==
  ASSUME NEW a \in 0 .. RtxSlots - 1
  PROVE  (a + 1) % RtxSlots = IF a + 1 = RtxSlots THEN 0 ELSE a + 1
<1>1. RtxSlots \in Nat \ {0}
  BY RecoveryAssumption
<1> QED BY <1>1, Z3

LEMMA RingInit == Ringed(RtxInit, <<>>, 0)
<1>1. RtxSlots \in Nat \ {0} /\ 0 \in 0 .. RtxSlots - 1
  BY RecoveryAssumption
<1>2. NoSlot \in Slot
  BY DEF NoSlot, Slot, FrameSeq
<1>3. RtxInit \in Ring /\ RtxInit.next = 0 /\ \A i \in 0 .. RtxSlots - 1 : RtxInit.s[i] = NoSlot
  BY <1>1, <1>2 DEF RtxInit, Ring
<1>4. \A i \in 0 .. RtxSlots - 1 : ~(SlotPn(0, 0, i) >= 0)
  BY <1>1 DEF SlotPn
<1>5. <<>> \in Seq(FrameSeq) /\ Len(<<>>) = 0 /\ \A i \in 1 .. 0 : Payload(<<>>[i])
  OBVIOUS
<1> HIDE DEF RtxInit, NoSlot
<1>6. \A i \in 0 .. RtxSlots - 1 :
        LET pn == SlotPn(0, RtxInit.next, i)
        IN  RtxInit.s[i] = IF pn >= 0 THEN [used |-> TRUE, pn |-> pn, data |-> <<>>[pn + 1]] ELSE NoSlot
  BY <1>3, <1>4
<1> QED BY <1>3, <1>5, <1>6 DEF Ringed

\* quic_rtxbytes_store of a new number.
LEMMA StoreKeepsRing ==
  ASSUME NEW rtx, NEW carried, NEW next \in Nat, Ringed(rtx, carried, next),
         NEW data, Payload(data)
  PROVE  Ringed(RtxStore(rtx, next, data), Append(carried, data), next + 1)
<1> DEFINE at == rtx.next
           to == (at + 1) % RtxSlots
           slot == [used |-> TRUE, pn |-> next, data |-> data]
           new == [rtx.s EXCEPT ![at] = slot]
           more == Append(carried, data)
<1>1. RtxSlots \in Nat \ {0}
  BY RecoveryAssumption
<1>2. at \in 0 .. RtxSlots - 1 /\ rtx.s \in [0 .. RtxSlots - 1 -> Slot]
  BY DEF Ringed, Ring
<1>3. to = IF at + 1 = RtxSlots THEN 0 ELSE at + 1
  BY <1>2, NextSlot
<1>4. RtxStore(rtx, next, data) = [s |-> new, next |-> to]
  <2>1. ~(Len(data) > RtxFrame)
    BY PayloadType, RtxAssumption DEF Payload
  <2> QED BY <2>1 DEF RtxStore
<1>5. slot \in Slot
  BY PayloadType DEF Slot
<1> HIDE DEF to
<1>6. new \in [0 .. RtxSlots - 1 -> Slot] /\ to \in 0 .. RtxSlots - 1
  BY <1>1, <1>2, <1>3, <1>5
<1>7. carried \in Seq(FrameSeq) /\ Len(carried) = next /\ data \in FrameSeq
  BY PayloadType DEF Ringed
<1>8. /\ more \in Seq(FrameSeq) /\ Len(more) = next + 1 /\ more[next + 1] = data
      /\ \A i \in 1 .. next : more[i] = carried[i]
  BY <1>7
<1> HIDE DEF more
<1>9. \A i \in 1 .. next + 1 : Payload(more[i])
  BY <1>8 DEF Ringed
<1>10. ASSUME NEW i \in 0 .. RtxSlots - 1
       PROVE  LET pn == SlotPn(next + 1, to, i)
              IN  new[i] = IF pn >= 0 THEN [used |-> TRUE, pn |-> pn, data |-> more[pn + 1]]
                           ELSE NoSlot
  <2>1. CASE i = at
    <3>1. SlotPn(next + 1, to, i) = next
      BY <1>1, <1>2, <1>3, <2>1 DEF SlotPn
    <3>2. new[i] = slot
      BY Zenon, <1>2, <2>1
    <3>3. new[i] = [used |-> TRUE, pn |-> next, data |-> more[next + 1]] /\ next >= 0
      BY <1>8, <3>2
    <3> HIDE DEF new
    <3> QED BY Zenon, <3>1, <3>3
  <2>2. CASE i # at
    <3> DEFINE pn == SlotPn(next, at, i)
    <3>1. SlotPn(next + 1, to, i) = pn /\ pn \in Int /\ pn < next
      <4>1. CASE at + 1 = RtxSlots
        <5>1. to = 0 /\ i < at /\ ~(i < 0)
          BY <1>1, <1>2, <1>3, <2>2, <4>1
        <5> HIDE DEF at
        <5> QED BY <1>1, <1>2, <4>1, <5>1 DEF SlotPn
      <4>2. CASE at + 1 # RtxSlots
        <5>1. to = at + 1
          BY <1>3, <4>2
        <5>2. (i < at <=> i < at + 1) /\ at \in Nat /\ i < RtxSlots
          BY <1>1, <1>2, <2>2
        <5> HIDE DEF at
        <5>3. CASE i < at
          BY <1>1, <5>1, <5>2, <5>3 DEF SlotPn
        <5>4. CASE ~(i < at)
          BY <1>1, <5>1, <5>2, <5>4 DEF SlotPn
        <5> QED BY <5>3, <5>4
      <4> QED BY <4>1, <4>2
    <3> HIDE DEF pn
    <3>2. pn >= 0 => more[pn + 1] = carried[pn + 1]
      BY <1>8, <3>1
    <3>3. new[i] = rtx.s[i]
      BY <1>2, <2>2
    <3>4. rtx.s[i] = IF pn >= 0 THEN [used |-> TRUE, pn |-> pn, data |-> carried[pn + 1]] ELSE NoSlot
      BY DEF Ringed, pn
    <3> QED BY Zenon, <3>1, <3>2, <3>3, <3>4
  <2> QED BY <2>1, <2>2
<1> HIDE DEF new
<1>11. RtxStore(rtx, next, data) \in Ring
  BY <1>4, <1>6 DEF Ring
<1>12. RtxStore(rtx, next, data).s = new /\ RtxStore(rtx, next, data).next = to
  BY <1>4
<1> HIDE DEF slot
<1> QED BY Zenon, <1>8, <1>9, <1>10, <1>11, <1>12 DEF Ringed, more

\* A number the ring holds, it holds with its frames; it holds the last RtxSlots.
LEMMA RingHolds ==
  ASSUME NEW rtx, NEW carried, NEW next \in Nat, Ringed(rtx, carried, next),
         NEW pn \in 0 .. next - 1
  PROVE  /\ Holding(rtx, pn) # {} => RtxGet(rtx, pn) = carried[pn + 1]
         /\ next - pn <= RtxSlots => Holding(rtx, pn) # {}
<1>1. RtxSlots \in Nat \ {0}
  BY RecoveryAssumption
<1>2. rtx.next \in 0 .. RtxSlots - 1 /\ DOMAIN rtx.s = 0 .. RtxSlots - 1
  BY DEF Ringed, Ring
<1>3. \A i \in 0 .. RtxSlots - 1 :
        /\ SlotPn(next, rtx.next, i) = pn => rtx.s[i] = [used |-> TRUE, pn |-> pn, data |-> carried[pn + 1]]
        /\ rtx.s[i].used /\ rtx.s[i].pn = pn => SlotPn(next, rtx.next, i) = pn
  <2> SUFFICES ASSUME NEW i \in 0 .. RtxSlots - 1
               PROVE  /\ SlotPn(next, rtx.next, i) = pn => rtx.s[i] = [used |-> TRUE, pn |-> pn, data |-> carried[pn + 1]]
                      /\ rtx.s[i].used /\ rtx.s[i].pn = pn => SlotPn(next, rtx.next, i) = pn
    BY Zenon
  <2> DEFINE k == SlotPn(next, rtx.next, i)
  <2>1. rtx.s[i] = IF k >= 0 THEN [used |-> TRUE, pn |-> k, data |-> carried[k + 1]] ELSE NoSlot
    BY DEF Ringed
  <2>2. ~NoSlot.used
    BY DEF NoSlot
  <2>3. k \in Int
    BY <1>1, <1>2 DEF SlotPn
  <2> HIDE DEF k
  <2>4. k = pn => rtx.s[i] = [used |-> TRUE, pn |-> pn, data |-> carried[pn + 1]]
    BY <2>1
  <2>5. rtx.s[i].used /\ rtx.s[i].pn = pn => k = pn
    BY <2>1, <2>2, <2>3
  <2> QED BY <2>4, <2>5 DEF k
<1>4. ASSUME Holding(rtx, pn) # {} PROVE RtxGet(rtx, pn) = carried[pn + 1]
  <2>1. Holding(rtx, pn) \in SUBSET Nat
    BY <1>1, <1>2 DEF Holding
  <2>2. \E i \in Holding(rtx, pn) : \A j \in Holding(rtx, pn) : i <= j
    BY <1>4, <2>1, LeastNatural
  <2>3. PICK i \in Holding(rtx, pn) : RtxGet(rtx, pn) = rtx.s[i].data
    BY Zenon, <2>2 DEF RtxGet
  <2>4. i \in 0 .. RtxSlots - 1 /\ rtx.s[i].used /\ rtx.s[i].pn = pn
    BY <1>2, <2>3 DEF Holding
  <2> QED BY <1>3, <2>3, <2>4
<1>5. ASSUME next - pn <= RtxSlots PROVE Holding(rtx, pn) # {}
  <2> DEFINE j == rtx.next + pn - next
             i == IF j >= 0 THEN j ELSE j + RtxSlots
  <2>1. i \in 0 .. RtxSlots - 1 /\ SlotPn(next, rtx.next, i) = pn
    <3> DEFINE at == rtx.next
    <3>1. at \in 0 .. RtxSlots - 1 /\ pn \in Nat /\ pn < next /\ next - pn <= RtxSlots
      BY <1>2, <1>5
    <3>2. CASE j >= 0
      <4>1. i = j /\ i < at
        BY <3>1, <3>2
      <4> HIDE DEF i, at
      <4> QED BY <1>1, <3>1, <3>2, <4>1 DEF SlotPn, at
    <3>3. CASE ~(j >= 0)
      <4>1. i = j + RtxSlots /\ ~(i < at)
        BY <1>1, <3>1, <3>3
      <4> HIDE DEF i, at
      <4> QED BY <1>1, <3>1, <3>3, <4>1 DEF SlotPn, at
    <3> QED BY <3>2, <3>3
  <2> HIDE DEF i
  <2>2. rtx.s[i].used /\ rtx.s[i].pn = pn
    BY <1>3, <2>1
  <2> QED BY <1>2, <2>1, <2>2 DEF Holding
<1> QED BY <1>4, <1>5

\* What is sent again for a number: its frames or nothing; its frames if it is
\* among the last RtxSlots and carried data.
LEMMA BuildIsCarried ==
  ASSUME NEW rtx, NEW carried, NEW next \in Nat, Ringed(rtx, carried, next),
         NEW pn \in 0 .. next - 1
  PROVE  /\ RtxBuild(rtx, pn) # <<>> => /\ RtxBuild(rtx, pn) = carried[pn + 1]
                                        /\ RtxBuild(rtx, pn) \in Seq(Data \union {PING})
                                        /\ carried[pn + 1] # <<ACK>>
                                        /\ Payload(RtxBuild(rtx, pn))
         /\ next - pn <= RtxSlots /\ carried[pn + 1] # <<ACK>> => RtxBuild(rtx, pn) # <<>>
<1>1. pn + 1 \in 1 .. next
  OBVIOUS
<1>2. Payload(carried[pn + 1])
  BY <1>1 DEF Ringed
<1>3. <<ACK>>[1] = ACK /\ ~Retransmittable(<<ACK>>)
  BY DEF Retransmittable
<1>4. carried[pn + 1] # <<ACK>> => /\ carried[pn + 1] \in Seq(Data \union {PING}) /\ carried[pn + 1] # <<>>
                                  /\ Retransmittable(carried[pn + 1])
  <2> SUFFICES ASSUME carried[pn + 1] # <<ACK>>
               PROVE  /\ carried[pn + 1] \in Seq(Data \union {PING}) /\ carried[pn + 1] # <<>>
                      /\ Retransmittable(carried[pn + 1])
    OBVIOUS
  <2> DEFINE d == carried[pn + 1]
  <2>1. d \in Seq(Data \union {PING}) /\ d # <<>>
    BY <1>2 DEF Payload
  <2> HIDE DEF d
  <2>2. d[1] \in Data \union {PING}
    BY <2>1
  <2>3. d[1] \notin {ACK, PADDING}
    BY <2>2, SenderAssumption DEF ACK, PADDING, PING
  <2>4. Retransmittable(d)
    BY <2>3 DEF Retransmittable
  <2> QED BY <2>1, <2>4 DEF d
<1> QED BY <1>2, <1>3, <1>4, RingHolds DEF RtxBuild

-----------------------------------------------------------------------------
(***************************************************************************)
(* The window over the packets of one acknowledgement.                     *)
(***************************************************************************)
\* The ranks number the elements of a finite set.
LEMMA Ranks ==
  ASSUME NEW S, IsFiniteSet(S), NEW key \in [S -> Int], \A x, y \in S : key[x] = key[y] => x = y
  PROVE  /\ \A x \in S : Rank(S, key, x) \in 1 .. Cardinality(S)
         /\ \A i \in 1 .. Cardinality(S) : \E x \in S : Rank(S, key, x) = i
         /\ \A x, y \in S : Rank(S, key, x) = Rank(S, key, y) => x = y
<1>1. \A x : Rank(S, key, x) = Place(S, key, x)
  BY DEF Rank, Place
<1>2. /\ \A x \in S : Place(S, key, x) \in 1 .. Cardinality(S)
      /\ \A i \in 1 .. Cardinality(S) : \E x \in S : Place(S, key, x) = i
      /\ \A x, y \in S : Place(S, key, x) = Place(S, key, y) => x = y
  BY Places
<1> QED BY <1>1, <1>2

\* Sorted lists a set whose keys differ.
LEMMA SortedLists ==
  ASSUME NEW S, IsFiniteSet(S), NEW key \in [S -> Int], \A x, y \in S : key[x] = key[y] => x = y
  PROVE  /\ Cardinality(S) \in Nat
         /\ Sorted(S, key) \in [1 .. Cardinality(S) -> S]
         /\ \A x \in S : \E i \in 1 .. Cardinality(S) : Sorted(S, key)[i] = x
<1>1. Cardinality(S) \in Nat
  BY FS_CardinalityType
<1>2. /\ \A x \in S : Rank(S, key, x) \in 1 .. Cardinality(S)
      /\ \A x, y \in S : Rank(S, key, x) = Rank(S, key, y) => x = y
      /\ \A i \in 1 .. Cardinality(S) : \E x \in S : Rank(S, key, x) = i
  BY Ranks
<1>3. \A i \in 1 .. Cardinality(S) : Sorted(S, key)[i] \in S /\ Rank(S, key, Sorted(S, key)[i]) = i
  BY <1>2 DEF Sorted
<1>4. \A x \in S : Sorted(S, key)[Rank(S, key, x)] = x
  BY <1>2, <1>3
<1>5. Sorted(S, key) \in [1 .. Cardinality(S) -> S]
  BY <1>3 DEF Sorted
<1> QED BY <1>1, <1>2, <1>4, <1>5

\* The packets of a table in the order of their numbers.
LEMMA ByNumberLists ==
  ASSUME NEW t, NEW next \in Nat, Tracked(t, next), NEW ps \in SUBSET t.pkts
  PROVE  /\ IsFiniteSet(ps) /\ Cardinality(ps) \in Nat /\ ps \in SUBSET SentPkt
         /\ ByNumber(ps) \in [1 .. Cardinality(ps) -> ps]
         /\ \A p \in ps : \E i \in 1 .. Cardinality(ps) : ByNumber(ps)[i] = p
<1> DEFINE key == [p \in ps |-> p.pn]
<1>1. IsFiniteSet(ps) /\ ps \in SUBSET SentPkt
  BY FS_Subset DEF Tracked, Table
<1>2. key \in [ps -> Int] /\ \A p, q \in ps : key[p] = key[q] => p = q
  BY <1>1 DEF Tracked, SentPkt
<1>3. ByNumber(ps) = Sorted(ps, key)
  BY DEF ByNumber
<1> HIDE DEF key
<1> QED BY <1>1, <1>2, <1>3, SortedLists

\* The greatest index of a set of indices.
LEMMA MaxOf ==
  ASSUME NEW S \in SUBSET Int, IsFiniteSet(S), S # {}
  PROVE  Max(S) \in S /\ \A y \in S : Max(S) >= y
<1>1. \E x \in S : \A y \in S : x >= y
  BY GreatestExists
<1> QED BY Zenon, <1>1 DEF Max

\* Acknowledging packets one after the other keeps what one keeps.
LEMMA AckAllKeeps ==
  ASSUME NEW ps \in SUBSET SentPkt, NEW n \in Nat, NEW seq \in [1 .. n -> ps],
         NEW T, NEW c \in T, \A e \in T, p \in ps : AckOne(e, p) \in T
  PROVE  AckAll(c, seq) \in T
<1> DEFINE step == [i \in 1 .. n |-> [e \in T |-> AckOne(e, seq[i])]]
           Body(f, i) == IF i = 0 THEN c ELSE AckOne(f[i - 1], seq[i])
           after == CHOOSE f : f = [i \in 0 .. n |-> Body(f, i)]
<1>1. step \in [1 .. n -> [T -> T]]
  OBVIOUS
<1>2. PICK f : IsWalk(f, n, T, c, step)
  <2> HIDE DEF step
  <2> QED BY <1>1, WalkExists
<1>3. \A i \in 0 .. n : f[i] = Body(f, i)
  <2> SUFFICES ASSUME NEW i \in 0 .. n, i # 0 PROVE f[i] = Body(f, i)
    BY Zenon, <1>2 DEF IsWalk
  <2>1. i \in 1 .. n /\ i - 1 \in 0 .. n
    OBVIOUS
  <2>2. f[i] = step[i][f[i - 1]] /\ f[i - 1] \in T
    <3> HIDE DEF step
    <3> QED BY <1>2, <2>1 DEF IsWalk
  <2> QED BY <2>1, <2>2
<1>4. f = [i \in 0 .. n |-> Body(f, i)]
  BY <1>2, <1>3 DEF IsWalk
<1>5. after = [i \in 0 .. n |-> Body(after, i)]
  BY <1>4
<1>6. AckAll(c, seq) = after[n]
  <2>1. Len(seq) = n
    OBVIOUS
  <2> QED BY <2>1 DEF AckAll
<1> HIDE DEF after
<1> DEFINE S == {i \in 0 .. n : after[i] \in T}
<1>7. 0 \in S
  BY <1>5
<1>8. ASSUME NEW i \in 1 .. n, i - 1 \in S PROVE i \in S
  <2>1. after[i] = AckOne(after[i - 1], seq[i]) /\ seq[i] \in ps
    BY <1>5
  <2> QED BY <1>8, <2>1
<1>9. 0 .. n \subseteq S
  <2> HIDE DEF S
  <2> QED BY Zenon, <1>7, <1>8, UpToInduction
<1> QED BY <1>6, <1>9

\* The same for losses.
LEMMA LoseAllKeeps ==
  ASSUME NEW ps \in SUBSET SentPkt, NEW n \in Nat, NEW seq \in [1 .. n -> ps],
         NEW T, NEW c \in T, \A e \in T, p \in ps : LoseOne(e, p) \in T
  PROVE  LoseAll(c, seq) \in T
<1> DEFINE step == [i \in 1 .. n |-> [e \in T |-> LoseOne(e, seq[i])]]
           Body(f, i) == IF i = 0 THEN c ELSE LoseOne(f[i - 1], seq[i])
           after == CHOOSE f : f = [i \in 0 .. n |-> Body(f, i)]
<1>1. step \in [1 .. n -> [T -> T]]
  OBVIOUS
<1>2. PICK f : IsWalk(f, n, T, c, step)
  <2> HIDE DEF step
  <2> QED BY <1>1, WalkExists
<1>3. \A i \in 0 .. n : f[i] = Body(f, i)
  <2> SUFFICES ASSUME NEW i \in 0 .. n, i # 0 PROVE f[i] = Body(f, i)
    BY Zenon, <1>2 DEF IsWalk
  <2>1. i \in 1 .. n /\ i - 1 \in 0 .. n
    OBVIOUS
  <2>2. f[i] = step[i][f[i - 1]] /\ f[i - 1] \in T
    <3> HIDE DEF step
    <3> QED BY <1>2, <2>1 DEF IsWalk
  <2> QED BY <2>1, <2>2
<1>4. f = [i \in 0 .. n |-> Body(f, i)]
  BY <1>2, <1>3 DEF IsWalk
<1>5. after = [i \in 0 .. n |-> Body(after, i)]
  BY <1>4
<1>6. LoseAll(c, seq) = after[n]
  <2>1. Len(seq) = n
    OBVIOUS
  <2> QED BY <2>1 DEF LoseAll
<1> HIDE DEF after
<1> DEFINE S == {i \in 0 .. n : after[i] \in T}
<1>7. 0 \in S
  BY <1>5
<1>8. ASSUME NEW i \in 1 .. n, i - 1 \in S PROVE i \in S
  <2>1. after[i] = LoseOne(after[i - 1], seq[i]) /\ seq[i] \in ps
    BY <1>5
  <2> QED BY <1>8, <2>1
<1>9. 0 .. n \subseteq S
  <2> HIDE DEF S
  <2> QED BY Zenon, <1>7, <1>8, UpToInduction
<1> QED BY <1>6, <1>9

-----------------------------------------------------------------------------
\* The cuts of the window so far are no later than the last one.
CutRecord == [at : Nat, sent : Nat]

CutOk(c, cuts, now) ==
  /\ WindowOk(c) /\ cuts \in Seq(CutRecord) /\ c.recovery_start <= now
  /\ \A i \in DOMAIN cuts : cuts[i].at <= c.recovery_start
  /\ \A i, j \in DOMAIN cuts : i < j => cuts[j].sent >= cuts[i].at

LEMMA AckOneKeeps ==
  ASSUME NEW c, NEW cuts, CutOk(c, cuts, sender.now), sender.now \in Nat, NEW p \in SentPkt
  PROVE  CutOk(AckOne(c, p), cuts, sender.now)
<1>1. p.size \in Nat /\ p.time_sent \in Nat
  BY DEF SentPkt
<1>2. WindowOk(AckOne(c, p))
  BY Zenon, <1>1, WindowKept DEF AckOne, CutOk
<1>3. AckOne(c, p).recovery_start = c.recovery_start
  <2>1. c \in Window
    BY DEF CutOk, WindowOk
  <2>2. MaybeExit(c, p.time_sent) \in Window /\ MaybeExit(c, p.time_sent).recovery_start = c.recovery_start
    BY Zenon, <1>1, <2>1 DEF MaybeExit, Window
  <2>3. \A e \in Window : Grow(e, p.size).recovery_start = e.recovery_start
    BY DEF Grow, Window
  <2> QED BY <2>2, <2>3 DEF AckOne, CcOnAck
<1> QED BY <1>2, <1>3 DEF CutOk

\* A cut answers a loss sent no earlier than the last one.
LEMMA LoseOneKeeps ==
  ASSUME NEW w, w = [cc |-> w.cc, cuts |-> w.cuts], CutOk(w.cc, w.cuts, sender.now),
         sender.now \in Nat, NEW p \in SentPkt
  PROVE  /\ LoseOne(w, p) = [cc |-> LoseOne(w, p).cc, cuts |-> LoseOne(w, p).cuts]
         /\ CutOk(LoseOne(w, p).cc, LoseOne(w, p).cuts, sender.now)
<1> DEFINE c == CcOnLoss(w.cc, p.time_sent, sender.now)
           cut == [at |-> sender.now, sent |-> p.time_sent]
           more == Append(w.cuts, cut)
<1>1. p.time_sent \in Nat /\ cut \in CutRecord
  BY DEF SentPkt, CutRecord
<1>2. WindowOk(c)
  BY Zenon, <1>1, WindowKept DEF CutOk
<1>3. LoseOne(w, p) = [cc |-> c, cuts |-> IF c = w.cc THEN w.cuts ELSE more]
  BY DEF LoseOne
<1>4. c # w.cc => c.recovery_start = sender.now /\ p.time_sent >= w.cc.recovery_start
  BY DEF CcOnLoss, Cuts
<1>5. w.cuts \in Seq(CutRecord) /\ w.cc.recovery_start \in Nat /\ w.cc.recovery_start <= sender.now
  BY DEF CutOk, WindowOk, Window
<1>6. more \in Seq(CutRecord) /\ Len(more) = Len(w.cuts) + 1 /\ more[Len(more)] = cut
      /\ \A i \in 1 .. Len(w.cuts) : more[i] = w.cuts[i]
  BY <1>1, <1>5
<1>7. Len(w.cuts) \in Nat /\ DOMAIN w.cuts = 1 .. Len(w.cuts) /\ DOMAIN more = 1 .. Len(w.cuts) + 1
  BY <1>5, <1>6
<1>8. cut.at = sender.now /\ cut.sent = p.time_sent
  OBVIOUS
<1> HIDE DEF c, more, cut
<1>9. CASE c = w.cc
  BY <1>3, <1>9
<1>10. CASE c # w.cc
  <2>1. LoseOne(w, p).cc = c /\ LoseOne(w, p).cuts = more
    BY <1>3, <1>10
  <2>2. \A i \in 1 .. Len(w.cuts) : w.cuts[i].at \in Nat /\ w.cuts[i].at <= w.cc.recovery_start
    <3> SUFFICES ASSUME NEW i \in 1 .. Len(w.cuts)
                 PROVE  w.cuts[i].at \in Nat /\ w.cuts[i].at <= w.cc.recovery_start
      OBVIOUS
    <3>1. w.cuts[i] \in CutRecord
      BY <1>5
    <3>2. w.cuts[i].at \in Nat
      BY <3>1 DEF CutRecord
    <3> QED BY <1>7, <3>2 DEF CutOk
  <2>3. \A i \in DOMAIN more : more[i].at <= c.recovery_start
    BY <1>4, <1>5, <1>6, <1>7, <1>8, <1>10, <2>2
  <2>4. ASSUME NEW i \in DOMAIN more, NEW j \in DOMAIN more, i < j PROVE more[j].sent >= more[i].at
    <3>1. i \in 1 .. Len(w.cuts)
      BY <1>7, <2>4
    <3>2. CASE j = Len(more)
      BY <1>1, <1>4, <1>5, <1>6, <1>8, <1>10, <2>2, <3>1, <3>2
    <3>3. CASE j # Len(more)
      <4>1. j \in 1 .. Len(w.cuts)
        BY <1>6, <1>7, <3>3
      <4> QED BY <1>6, <1>7, <2>4, <3>1, <4>1 DEF CutOk
    <3> QED BY <3>2, <3>3
  <2> QED BY <1>2, <1>3, <1>4, <1>6, <1>10, <2>1, <2>3, <2>4 DEF CutOk
<1> QED BY <1>9, <1>10

\* A persistent congestion collapses the window and cuts nothing.
LEMMA PersistentKeeps ==
  ASSUME NEW c, NEW cuts, NEW now \in Nat, CutOk(c, cuts, now)
  PROVE  CutOk(CcOnPersistent(c), cuts, now)
<1>1. WindowOk(CcOnPersistent(c))
  BY WindowKept DEF CutOk
<1>2. CcOnPersistent(c).recovery_start = c.recovery_start
  BY DEF CcOnPersistent, CutOk, WindowOk, Window
<1> QED BY <1>1, <1>2 DEF CutOk
=============================================================================
