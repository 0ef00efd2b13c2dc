---------------------------- MODULE SenderProofs ----------------------------
(***************************************************************************)
(* No step of the sender forgets a frame, miscounts the bytes in flight or *)
(* cuts the window twice for one loss, for every choice of the constants.  *)
(*                                                                         *)
(* SenderInv is the inductive invariant: the table tracks the numbers in   *)
(* flight (Tracked), the ring holds the last payloads (Ringed), the cuts   *)
(* of the window are apart (CutOk), and every frame that left todo is      *)
(* Safe: acknowledged, in flight, lost with its payload still in the ring, *)
(* or in a packet older than the ring holds.                               *)
(***************************************************************************)
EXTENDS RecoveryProofs

SenderRecord ==
  [now : Nat, next : Nat, todo : SUBSET Data, sent : Table, cc : Window, pto_count : Nat,
   probes : Nat, rtx : Ring, lost : Seq(Nat), carried : Seq(FrameSeq), cuts : Seq(CutRecord)]

SenderOk(s) ==
  /\ s \in SenderRecord
  /\ Tracked(s.sent, s.next)
  /\ CutOk(s.cc, s.cuts, s.now)
  /\ Ringed(s.rtx, s.carried, s.next)
  /\ \A i \in DOMAIN s.lost : s.lost[i] < s.next

\* Where a frame that was sent is.
Safe(s, f) ==
  \/ \E p \in s.sent.pkts : p.state = "ACKED" /\ f \in Range(s.carried[p.pn + 1])
  \/ \E pn \in 0 .. s.next - 1 :
       /\ f \in Range(s.carried[pn + 1])
       /\ \/ \E p \in FlyingPkts(s.sent) : p.pn = pn
          \/ pn \in Range(s.lost) /\ RtxBuild(s.rtx, pn) # <<>>
          \/ s.next - pn > RtxSlots

SenderInv == SenderOk(sender) /\ \A f \in Data \ sender.todo : Safe(sender, f)

\* Sending a packet loses track of no frame.
LEMMA OutgoingKeepsAll ==
  ASSUME NEW s, SenderOk(s), NEW data, Payload(data)
  PROVE  /\ SenderOk(Outgoing(s, data)) /\ Outgoing(s, data).todo = s.todo
         /\ \A f : Safe(s, f) \/ f \in Range(data) => Safe(Outgoing(s, data), f)
<1> DEFINE next == s.next + 1
           sent == SentAdd(s.sent, s.next, Len(data), s.now)
           rtx == RtxStore(s.rtx, s.next, data)
           carried == Append(s.carried, data)
           o == Outgoing(s, data)
           q == [pn |-> s.next, size |-> Len(data), time_sent |-> s.now, state |-> "INFLIGHT"]
<1>1. /\ s \in SenderRecord /\ s.next \in Nat /\ s.now \in Nat
      /\ Tracked(s.sent, s.next) /\ Ringed(s.rtx, s.carried, s.next)
  BY DEF SenderOk, SenderRecord
<1>2. data \in FrameSeq /\ Len(data) \in Nat
  BY PayloadType
<1>3. o = [s EXCEPT !.next = next, !.sent = sent, !.rtx = rtx, !.carried = carried]
  BY <1>1 DEF Outgoing, SenderRecord
<1>4. /\ Tracked(sent, next) /\ sent.pkts = s.sent.pkts \union {q}
      /\ FlyingPkts(sent) = FlyingPkts(s.sent) \union {q}
  <2> DEFINE size == Len(data)
             at == s.next
             time == s.now
             table == s.sent
  <2>1. size \in Nat /\ at \in Nat /\ time \in Nat /\ Tracked(table, at)
    BY <1>1, <1>2
  <2> HIDE DEF size, at, time, table
  <2>2. OneMoreTracked(table, at, size, time)
    BY Zenon, <2>1, SentAddTracks
  <2> QED BY Zenon, <2>2 DEF OneMoreTracked, size, at, time, table
<1>5. Ringed(rtx, carried, next)
  BY <1>1, StoreKeepsRing
<1>6. next \in Nat /\ sent \in Table /\ rtx \in Ring /\ carried \in Seq(FrameSeq)
  <2>1. next \in Nat
    BY <1>1
  <2> HIDE DEF next, sent, rtx, carried
  <2> QED BY <1>4, <1>5, <2>1 DEF Tracked, Ringed
<1>7. /\ s.carried \in Seq(FrameSeq) /\ Len(s.carried) = s.next
      /\ carried[next] = data /\ \A i \in 1 .. s.next : carried[i] = s.carried[i]
  <2>1. s.carried \in Seq(FrameSeq) /\ Len(s.carried) = s.next
    BY <1>1 DEF Ringed
  <2> DEFINE old == s.carried
  <2>2. old \in Seq(FrameSeq) /\ Len(old) = s.next /\ carried = Append(old, data)
    BY <2>1
  <2> HIDE DEF old, carried
  <2>3. carried[next] = data /\ \A k \in 1 .. s.next : carried[k] = old[k]
    BY <1>1, <1>2, <2>2, SMTT(30)
  <2> QED BY <2>1, <2>3 DEF old
<1>8. q.pn = s.next
  OBVIOUS
<1> HIDE DEF next, sent, rtx, carried, q
<1>9. /\ o \in SenderRecord
      /\ o.next = next /\ o.sent = sent /\ o.rtx = rtx /\ o.carried = carried
      /\ o.todo = s.todo /\ o.lost = s.lost /\ o.cc = s.cc /\ o.cuts = s.cuts /\ o.now = s.now
  BY Zenon, <1>1, <1>3, <1>6 DEF SenderRecord
<1> HIDE DEF o
<1>10. next = s.next + 1
  BY DEF next
<1>11. \A i \in DOMAIN s.lost : s.lost[i] \in Nat /\ s.lost[i] < s.next
  BY <1>1, SMTT(30) DEF SenderOk, SenderRecord
<1>12. SenderOk(o)
  <2>1. \A i \in DOMAIN o.lost : o.lost[i] < o.next
    BY <1>1, <1>9, <1>10, <1>11
  <2> QED BY <1>4, <1>5, <1>9, <2>1 DEF SenderOk
<1>13. ASSUME NEW f, f \in Range(data) PROVE Safe(o, f)
  <2>1. s.next \in 0 .. o.next - 1 /\ f \in Range(o.carried[s.next + 1])
    BY <1>1, <1>7, <1>9, <1>10, <1>13
  <2>2. \E p \in FlyingPkts(o.sent) : p.pn = s.next
    BY <1>4, <1>8, <1>9
  <2> QED BY <2>1, <2>2 DEF Safe
<1>14. ASSUME NEW f, NEW p \in s.sent.pkts, p.state = "ACKED", f \in Range(s.carried[p.pn + 1])
       PROVE  Safe(o, f)
  <2>1. p.pn + 1 \in 1 .. s.next
    BY <1>1, SMTT(30) DEF SenderOk, Tracked, Table, SentPkt
  <2>2. p \in o.sent.pkts /\ f \in Range(o.carried[p.pn + 1])
    BY <1>4, <1>7, <1>9, <1>14, <2>1
  <2> QED BY <1>14, <2>2 DEF Safe
<1>15. ASSUME NEW f, NEW pn \in 0 .. s.next - 1, f \in Range(s.carried[pn + 1]),
              \/ \E p \in FlyingPkts(s.sent) : p.pn = pn
              \/ pn \in Range(s.lost) /\ RtxBuild(s.rtx, pn) # <<>>
              \/ s.next - pn > RtxSlots
       PROVE  Safe(o, f)
  <2>1. pn + 1 \in 1 .. s.next /\ pn \in 0 .. next - 1 /\ pn \in Nat
    BY <1>1, <1>10
  <2>2. f \in Range(o.carried[pn + 1]) /\ pn \in 0 .. o.next - 1
    BY <1>7, <1>9, <1>15, <2>1
  <2>3. CASE \E p \in FlyingPkts(s.sent) : p.pn = pn
    <3>1. \E p \in FlyingPkts(o.sent) : p.pn = pn
      BY <1>4, <1>9, <2>3
    <3> QED BY <2>2, <3>1 DEF Safe
  <2>4. CASE s.next - pn > RtxSlots
    <3>1. o.next - pn > RtxSlots
      BY <1>1, <1>9, <1>10, <2>1, <2>4, RecoveryAssumption
    <3> QED BY <2>2, <3>1 DEF Safe
  <2>5. CASE pn \in Range(s.lost) /\ RtxBuild(s.rtx, pn) # <<>>
    <3>1. s.carried[pn + 1] # <<ACK>>
      BY <1>1, <2>5, BuildIsCarried DEF SenderOk
    <3>2. carried[pn + 1] # <<ACK>>
      BY <1>7, <2>1, <3>1
    <3>3. next - pn <= RtxSlots => RtxBuild(rtx, pn) # <<>>
      BY <1>5, <1>6, <2>1, <3>2, BuildIsCarried
    <3>4. next - pn <= RtxSlots \/ next - pn > RtxSlots
      BY <1>6, <2>1, RecoveryAssumption
    <3> QED BY <1>9, <2>2, <2>5, <3>3, <3>4 DEF Safe
  <2> QED BY <1>15, <2>3, <2>4, <2>5
<1>16. \A f : Safe(s, f) => Safe(o, f)
  BY Zenon, <1>14, <1>15 DEF Safe
<1> QED BY <1>9, <1>12, <1>13, <1>16 DEF o

\* Fields no frame depends on may change.
LEMMA SafeBy ==
  ASSUME NEW s, NEW u, NEW f, Safe(s, f), u.sent = s.sent, u.carried = s.carried, u.next = s.next,
         u.rtx = s.rtx, u.lost = s.lost
  PROVE  Safe(u, f)
BY Zenon DEF Safe

\* The first n elements of a sequence, and the rest.
LEMMA Prefix ==
  ASSUME NEW X, NEW q \in Seq(X), NEW n \in 0 .. Len(q)
  PROVE  /\ SubSeq(q, 1, n) \in Seq(X) /\ Len(SubSeq(q, 1, n)) = n
         /\ \A i \in 1 .. n : SubSeq(q, 1, n)[i] = q[i]
         /\ SubSeq(q, n + 1, Len(q)) \in Seq(X)
         /\ \A i \in n + 1 .. Len(q) : \E j \in DOMAIN SubSeq(q, n + 1, Len(q)) :
              SubSeq(q, n + 1, Len(q))[j] = q[i]
         /\ \A j \in DOMAIN SubSeq(q, n + 1, Len(q)) : \E i \in DOMAIN q :
              SubSeq(q, n + 1, Len(q))[j] = q[i]
         /\ SubSeq(q, 1, Len(q)) = q
<1> DEFINE len == Len(q)
           t == SubSeq(q, n + 1, len)
<1>1. len \in Nat /\ n \in Nat /\ n <= len /\ DOMAIN q = 1 .. len /\ \A i \in 1 .. len : q[i] \in X
  OBVIOUS
<1>2. /\ SubSeq(q, 1, n) \in Seq(X) /\ Len(SubSeq(q, 1, n)) = n
      /\ \A i \in 1 .. n : SubSeq(q, 1, n)[i] = q[i]
  OBVIOUS
<1>3. t \in Seq(X) /\ Len(t) = len - n /\ \A j \in 1 .. len - n : t[j] = q[n + j]
  <2> HIDE DEF len
  <2>1. t = [i \in 1 .. (1 + len - (n + 1)) |-> q[i + (n + 1) - 1]]
    BY <1>1
  <2>2. 1 + len - (n + 1) = len - n /\ len - n \in Nat
    BY <1>1
  <2> HIDE DEF t
  <2>3. t = [i \in 1 .. len - n |-> q[n + i]]
    BY <1>1, <2>1, <2>2
  <2>4. t \in [1 .. len - n -> X]
    BY <1>1, <2>3
  <2>5. t \in Seq(X) /\ Len(t) = len - n
    <3> DEFINE k == len - n
    <3>1. k \in Nat /\ t \in [1 .. k -> X]
      BY <2>2, <2>4
    <3> HIDE DEF k
    <3>2. t \in Seq(X) /\ Len(t) = k
      BY <3>1
    <3> QED BY <3>2 DEF k
  <2>6. \A j \in 1 .. len - n : t[j] = q[n + j]
    BY <2>3
  <2> QED BY <2>5, <2>6
<1>4. SubSeq(q, 1, len) = q
  OBVIOUS
<1> HIDE DEF t, len
<1>5. DOMAIN t = 1 .. len - n
  BY <1>1, <1>3
<1>6. ASSUME NEW i \in n + 1 .. len PROVE \E j \in DOMAIN t : t[j] = q[i]
  <2>1. i - n \in 1 .. len - n /\ n + (i - n) = i
    BY <1>1
  <2> QED BY <1>3, <1>5, <2>1
<1>7. ASSUME NEW j \in DOMAIN t PROVE \E i \in DOMAIN q : t[j] = q[i]
  <2>1. n + j \in 1 .. len
    BY <1>1, <1>5
  <2> QED BY <1>1, <1>3, <1>5, <2>1
<1> QED BY Zenon, <1>2, <1>3, <1>4, <1>6, <1>7 DEF t, len

LEMMA SendNewKeeps ==
  ASSUME SenderInv, NEW n \in 1 .. MaxDatagram, SendNew(n)
  PROVE  SenderInv'
<1> DEFINE all == Sorted(sender.todo, [f \in sender.todo |-> f])
           data == SubSeq(all, 1, n)
           todo == sender.todo \ Range(data)
           s == [sender EXCEPT !.todo = todo]
<1>1. sender \in SenderRecord /\ sender.todo \in SUBSET Data /\ sender.todo \in SUBSET Int
  <2>1. sender \in SenderRecord
    BY DEF SenderInv, SenderOk
  <2>2. sender.todo \in SUBSET Data
    BY <2>1 DEF SenderRecord
  <2>3. Data \in SUBSET Int
    BY SenderAssumption
  <2> QED BY Zenon, <2>1, <2>2, <2>3
<1>2. IsFiniteSet(sender.todo)
  BY <1>1, SenderAssumption, FS_Subset
<1>3. Cardinality(sender.todo) \in Nat /\ all \in [1 .. Cardinality(sender.todo) -> sender.todo]
  <2> DEFINE key == [f \in sender.todo |-> f]
  <2>1. key \in [sender.todo -> Int] /\ \A x, y \in sender.todo : key[x] = key[y] => x = y
    BY <1>1
  <2> HIDE DEF key
  <2>2. Sorted(sender.todo, key) \in [1 .. Cardinality(sender.todo) -> sender.todo] /\ Cardinality(sender.todo) \in Nat
    BY <1>2, <2>1, SortedLists
  <2> QED BY <2>2 DEF key
<1>4. n <= Cardinality(sender.todo) /\ sender' = Outgoing(s, data)
  BY <1>1 DEF SendNew, SenderRecord
<1>5. n \in Nat /\ n >= 1 /\ n <= MaxDatagram
  BY RecoveryAssumption
<1> HIDE DEF all
<1>6. data \in Seq(sender.todo) /\ Len(data) = n
  <2>1. all \in Seq(sender.todo) /\ Len(all) = Cardinality(sender.todo)
    BY <1>3
  <2>2. 1 \in 1 .. Len(all) + 1 /\ n \in 0 .. Len(all) /\ n \in Int
    BY <1>3, <1>4, <1>5, <2>1
  <2> QED BY Zenon, <1>5, <2>1, <2>2, Prefix
<1> HIDE DEF data
<1>7. Payload(data)
  <2>1. data \in [1 .. n -> sender.todo]
    BY <1>6
  <2>2. data \in [1 .. n -> Data \union {PING}]
    BY <1>1, <2>1
  <2>3. data \in Seq(Data \union {PING}) /\ data # <<>>
    BY <1>5, <1>6, <2>2
  <2>4. Len(data) <= RtxFrame
    BY <1>5, <1>6, RecoveryAssumption, RtxAssumption
  <2> QED BY <2>3, <2>4 DEF Payload
<1>8. todo \in SUBSET Data
  BY <1>1
<1> HIDE DEF todo
<1>9. /\ s \in SenderRecord /\ s.todo = todo /\ s.sent = sender.sent /\ s.carried = sender.carried
      /\ s.next = sender.next /\ s.rtx = sender.rtx /\ s.lost = sender.lost
      /\ s.cc = sender.cc /\ s.cuts = sender.cuts /\ s.now = sender.now
  BY Zenon, <1>1, <1>8 DEF SenderRecord
<1> HIDE DEF s
<1>10. SenderOk(s)
  BY <1>9 DEF SenderInv, SenderOk
<1>11. SenderOk(sender)' /\ sender'.todo = todo
  BY <1>4, <1>7, <1>9, <1>10, OutgoingKeepsAll
<1>12. ASSUME NEW f \in Data \ todo PROVE Safe(sender, f)'
  <2>1. f \in Range(data) \/ f \in Data \ sender.todo
    BY <1>12 DEF todo
  <2>2. f \in Range(data) \/ Safe(s, f)
    BY <1>9, <2>1, SafeBy DEF SenderInv
  <2>3. Safe(Outgoing(s, data), f)
    BY <1>7, <1>10, <2>2, OutgoingKeepsAll
  <2> QED BY <1>4, <2>3
<1> QED BY <1>11, <1>12 DEF SenderInv

LEMMA SendPaddedKeeps == ASSUME SenderInv, SendPadded PROVE SenderInv'
<1>1. Payload(<<ACK>>) /\ SenderOk(sender)
  BY RecoveryAssumption, RtxAssumption DEF Payload, SenderInv
<1>2. sender' = Outgoing(sender, <<ACK>>)
  BY DEF SendPadded
<1>3. SenderOk(sender)' /\ sender'.todo = sender.todo
  BY <1>1, <1>2, OutgoingKeepsAll
<1>4. \A f : Safe(sender, f) => Safe(Outgoing(sender, <<ACK>>), f)
  BY <1>1, OutgoingKeepsAll
<1>5. \A f : Safe(sender, f) => Safe(sender, f)'
  BY <1>2, <1>4
<1> QED BY <1>3, <1>5 DEF SenderInv

\* The clock and the probe counters.
LEMMA TimersKeep == ASSUME SenderInv, PtoFires \/ SenderTick PROVE SenderInv'
<1>1. sender \in SenderRecord /\ sender.now \in Nat /\ sender.pto_count \in Nat
  BY DEF SenderInv, SenderOk, SenderRecord
<1>2. CASE PtoFires
  <2> DEFINE count == sender.pto_count + 1
             probes == ProbeCount(TRUE)
  <2>1. sender' = [sender EXCEPT !.pto_count = count, !.probes = probes]
    BY <1>1, <1>2 DEF PtoFires, SenderRecord
  <2>2. count \in Nat /\ probes \in Nat
    BY <1>1 DEF ProbeCount
  <2> HIDE DEF count, probes
  <2>3. /\ sender' \in SenderRecord /\ sender'.todo = sender.todo /\ sender'.sent = sender.sent
        /\ sender'.carried = sender.carried /\ sender'.next = sender.next
        /\ sender'.rtx = sender.rtx /\ sender'.lost = sender.lost
        /\ sender'.cc = sender.cc /\ sender'.cuts = sender.cuts /\ sender'.now = sender.now
    BY Zenon, <1>1, <2>1, <2>2 DEF SenderRecord
  <2>4. SenderOk(sender')
    BY <2>3 DEF SenderInv, SenderOk
  <2>5. \A f : Safe(sender, f) => Safe(sender', f)
    BY <2>3, SafeBy
  <2> QED BY <2>3, <2>4, <2>5 DEF SenderInv
<1>3. CASE SenderTick
  <2> DEFINE now == sender.now + 1
  <2>1. sender' = [sender EXCEPT !.now = now]
    BY <1>1, <1>3 DEF SenderTick, SenderRecord
  <2>2. now \in Nat /\ now >= sender.now
    BY <1>1
  <2> HIDE DEF now
  <2>3. /\ sender' \in SenderRecord /\ sender'.todo = sender.todo /\ sender'.sent = sender.sent
        /\ sender'.carried = sender.carried /\ sender'.next = sender.next
        /\ sender'.rtx = sender.rtx /\ sender'.lost = sender.lost
        /\ sender'.cc = sender.cc /\ sender'.cuts = sender.cuts /\ sender'.now = now
    BY Zenon, <1>1, <2>1, <2>2 DEF SenderRecord
  <2>4. sender.cc.recovery_start \in Nat /\ sender.cc.recovery_start <= sender.now
    BY DEF SenderInv, SenderOk, CutOk, WindowOk, Window
  <2>5. sender.cc.recovery_start <= now
    BY <1>1, <2>2, <2>4
  <2>6. CutOk(sender.cc, sender.cuts, now)
    BY <2>5 DEF SenderInv, SenderOk, CutOk
  <2>7. SenderOk(sender')
    BY <2>3, <2>6 DEF SenderInv, SenderOk
  <2>8. \A f : Safe(sender, f) => Safe(sender', f)
    BY <2>3, SafeBy
  <2> QED BY <2>3, <2>7, <2>8 DEF SenderInv
<1> QED BY <1>2, <1>3

\* A probe carries a copy of what is in flight.
LEMMA SendProbeKeeps == ASSUME SenderInv, SendProbe PROVE SenderInv'
<1> DEFINE oldest == Min({p.pn : p \in Flying})
           found == IF Flying = {} THEN <<>> ELSE RtxBuild(sender.rtx, oldest)
           data == IF found = <<>> THEN <<PING>> ELSE found
           probes == sender.probes - 1
           s == [sender EXCEPT !.probes = probes]
<1>1. /\ sender \in SenderRecord /\ sender.next \in Nat
      /\ Tracked(sender.sent, sender.next) /\ Ringed(sender.rtx, sender.carried, sender.next)
  BY DEF SenderInv, SenderOk, SenderRecord
<1>2. sender.probes > 0 /\ sender' = Outgoing(s, data)
  BY <1>1 DEF SendProbe, SenderRecord
<1>3. probes \in Nat
  BY <1>1, <1>2 DEF SenderRecord
<1>4. Flying # {} => oldest \in 0 .. sender.next - 1
  <2> SUFFICES ASSUME Flying # {} PROVE oldest \in 0 .. sender.next - 1
    OBVIOUS
  <2> DEFINE pns == {p.pn : p \in Flying}
  <2>1. \A p \in Flying : p.pn \in 0 .. sender.next - 1
    BY <1>1 DEF Flying, FlyingPkts, Tracked, Table, SentPkt
  <2>2. pns # {} /\ pns \in SUBSET Nat /\ pns \in SUBSET (0 .. sender.next - 1)
    BY <2>1
  <2> HIDE DEF pns
  <2>3. \E i \in pns : \A j \in pns : i <= j
    BY <2>2, LeastNatural
  <2>4. Min(pns) \in pns
    BY <2>3 DEF Min
  <2> QED BY <2>2, <2>4 DEF pns
<1> HIDE DEF oldest
<1>5. found # <<>> => found \in Seq(Data \union {PING}) /\ Payload(found)
  BY <1>1, <1>4, BuildIsCarried
<1> HIDE DEF found
<1>6. Payload(data)
  <2>1. CASE found = <<>>
    <3>1. data = <<PING>>
      BY <2>1
    <3>2. <<PING>> \in Seq(Data \union {PING})
      <4>1. PING \in Data \union {PING}
        OBVIOUS
      <4> HIDE DEF PING
      <4> QED BY <4>1
    <3>3. <<PING>> # <<>>
      OBVIOUS
    <3>4. Len(<<PING>>) <= RtxFrame
      BY RecoveryAssumption, RtxAssumption
    <3> QED BY Zenon, <3>1, <3>2, <3>3, <3>4 DEF Payload
  <2>2. CASE found # <<>>
    BY <1>5, <2>2
  <2> QED BY <2>1, <2>2
<1> HIDE DEF data, probes
<1>9. /\ s \in SenderRecord /\ s.todo = sender.todo /\ s.sent = sender.sent /\ s.carried = sender.carried
      /\ s.next = sender.next /\ s.rtx = sender.rtx /\ s.lost = sender.lost
      /\ s.cc = sender.cc /\ s.cuts = sender.cuts /\ s.now = sender.now
  BY Zenon, <1>1, <1>3 DEF SenderRecord
<1> HIDE DEF s
<1>10. SenderOk(s)
  BY <1>9 DEF SenderInv, SenderOk
<1>11. SenderOk(sender') /\ sender'.todo = sender.todo
  BY <1>2, <1>6, <1>9, <1>10, OutgoingKeepsAll
<1>12. \A f : Safe(sender, f) => Safe(s, f)
  BY <1>9, SafeBy
<1>13. \A f : Safe(s, f) => Safe(Outgoing(s, data), f)
  BY <1>6, <1>10, OutgoingKeepsAll
<1> QED BY <1>2, <1>11, <1>12, <1>13 DEF SenderInv

\* Concatenation keeps every element of both.
LEMMA ConcatHolds ==
  ASSUME NEW X, NEW a \in Seq(X), NEW b \in Seq(X)
  PROVE  a \o b \in Seq(X) /\ \A x : x \in Range(a) \/ x \in Range(b) => x \in Range(a \o b)
<1>1. /\ a \o b \in Seq(X) /\ Len(a \o b) = Len(a) + Len(b)
      /\ \A j \in 1 .. Len(a) : (a \o b)[j] = a[j]
      /\ \A j \in 1 .. Len(b) : (a \o b)[Len(a) + j] = b[j]
  OBVIOUS
<1>2. /\ DOMAIN a = 1 .. Len(a) /\ DOMAIN b = 1 .. Len(b) /\ Len(a) \in Nat /\ Len(b) \in Nat
      /\ DOMAIN (a \o b) = 1 .. Len(a) + Len(b)
  BY <1>1
<1> DEFINE ab == a \o b
<1> HIDE DEF ab
<1>3. ASSUME NEW j \in DOMAIN a PROVE a[j] \in Range(ab)
  <2>1. j \in DOMAIN ab /\ ab[j] = a[j]
    BY <1>1, <1>2 DEF ab
  <2> QED BY <2>1 DEF Range
<1>4. ASSUME NEW j \in DOMAIN b PROVE b[j] \in Range(ab)
  <2>1. Len(a) + j \in DOMAIN ab /\ ab[Len(a) + j] = b[j]
    BY <1>1, <1>2 DEF ab
  <2> QED BY <2>1 DEF Range
<1>5. \A x : x \in Range(a) \/ x \in Range(b) => x \in Range(ab)
  BY <1>3, <1>4 DEF Range
<1> QED BY <1>1, <1>5 DEF ab

\* What one packet sends again holds the frames of every number it answers.
LEMMA CollectHolds ==
  ASSUME NEW rtx, NEW carried, NEW next \in Nat, Ringed(rtx, carried, next),
         NEW n \in Nat, NEW pns \in [1 .. n -> 0 .. next - 1]
  PROVE  /\ Collect(rtx, pns) \in Seq(Data \union {PING})
         /\ \A k \in 1 .. n : \A f : RtxBuild(rtx, pns[k]) # <<>> /\ f \in Range(carried[pns[k] + 1])
              => f \in Range(Collect(rtx, pns))
<1> DEFINE X == Data \union {PING}
           T == Seq(X)
           seqs == [i \in 1 .. n |-> RtxBuild(rtx, pns[i])]
           step == [i \in 1 .. n |-> [u \in T |-> u \o seqs[i]]]
           Body(f, i) == IF i = 0 THEN <<>> ELSE f[i - 1] \o RtxBuild(rtx, pns[i])
           out == CHOOSE f : f = [i \in 0 .. n |-> Body(f, i)]
<1>1. \A i \in 1 .. n : /\ RtxBuild(rtx, pns[i]) \in Seq(X)
                        /\ RtxBuild(rtx, pns[i]) # <<>> => RtxBuild(rtx, pns[i]) = carried[pns[i] + 1]
  <2> SUFFICES ASSUME NEW i \in 1 .. n
               PROVE  /\ RtxBuild(rtx, pns[i]) \in Seq(X)
                      /\ RtxBuild(rtx, pns[i]) # <<>> => RtxBuild(rtx, pns[i]) = carried[pns[i] + 1]
    OBVIOUS
  <2>1. pns[i] \in 0 .. next - 1
    OBVIOUS
  <2>2. <<>> \in Seq(X)
    OBVIOUS
  <2> QED BY Zenon, <2>1, <2>2, BuildIsCarried
<1>2. seqs \in [1 .. n -> T] /\ \A i \in 1 .. n : seqs[i] = RtxBuild(rtx, pns[i])
  BY <1>1
<1> HIDE DEF seqs, X
<1>3. step \in [1 .. n -> [T -> T]] /\ <<>> \in T
  BY <1>2
<1>4. PICK f : IsWalk(f, n, T, <<>>, step)
  <2> HIDE DEF step, T
  <2> QED BY <1>3, WalkExists
<1>5. \A i \in 0 .. n : f[i] = Body(f, i)
  <2> SUFFICES ASSUME NEW i \in 0 .. n, i # 0 PROVE f[i] = Body(f, i)
    BY <1>4 DEF IsWalk
  <2>1. i \in 1 .. n /\ i - 1 \in 0 .. n
    OBVIOUS
  <2>2. f[i] = step[i][f[i - 1]] /\ f[i - 1] \in T
    <3> HIDE DEF step, T
    <3> QED BY <1>4, <2>1 DEF IsWalk
  <2>3. f[i] = f[i - 1] \o seqs[i]
    <3> HIDE DEF T
    <3> QED BY Zenon, <2>1, <2>2
  <2> QED BY Zenon, <1>2, <2>1, <2>3
<1>6. f = [i \in 0 .. n |-> Body(f, i)]
  BY Zenon, <1>4, <1>5 DEF IsWalk
<1>7. out = [i \in 0 .. n |-> Body(out, i)]
  BY Zenon, <1>6
<1>8. Collect(rtx, pns) = out[n]
  <2>1. Len(pns) = n
    OBVIOUS
  <2> QED BY <2>1 DEF Collect
<1> HIDE DEF out
<1> DEFINE Good(i) == out[i] \in T /\ \A k \in 1 .. i : \A x \in Range(seqs[k]) : x \in Range(out[i])
           S == {i \in 0 .. n : Good(i)}
<1>9. 0 \in S
  <2>1. out[0] = <<>>
    BY <1>7
  <2> HIDE DEF T
  <2> QED BY <1>3, <2>1
<1>10. ASSUME NEW i \in 1 .. n, i - 1 \in S PROVE i \in S
  <2> DEFINE a == out[i - 1]
             b == seqs[i]
  <2>0. i \in 0 .. n /\ i # 0 /\ T = Seq(X)
    OBVIOUS
  <2> HIDE DEF T
  <2>1. out[i] = a \o b /\ a \in T /\ b \in T
    BY Zenon, <1>2, <1>7, <1>10, <2>0
  <2>2. \A k \in 1 .. i : k \in 1 .. i - 1 \/ k = i
    OBVIOUS
  <2>3. \A k \in 1 .. i : \A x \in Range(seqs[k]) : x \in Range(a) \/ x \in Range(b)
    BY <1>10, <2>2
  <2> HIDE DEF a, b
  <2>4. a \o b \in T /\ \A x : x \in Range(a) \/ x \in Range(b) => x \in Range(a \o b)
    BY <2>0, <2>1, ConcatHolds
  <2> QED BY Zenon, <2>0, <2>1, <2>3, <2>4
<1>11. n \in S
  <2> HIDE DEF S
  <2>1. 0 .. n \subseteq S
    BY Zenon, <1>9, <1>10, UpToInduction
  <2> QED BY <2>1
<1> QED BY <1>1, <1>2, <1>8, <1>11 DEF X

LEMMA RetransmitKeeps ==
  ASSUME SenderInv, NEW n \in 1 .. Len(sender.lost), Retransmit(n)
  PROVE  SenderInv'
<1> DEFINE pns == SubSeq(sender.lost, 1, n)
           data == Batch(sender.rtx, pns, MaxDatagram)
           tail == SubSeq(sender.lost, n + 1, Len(sender.lost))
           s == [sender EXCEPT !.lost = tail]
<1>1. /\ sender \in SenderRecord /\ sender.next \in Nat /\ sender.lost \in Seq(Nat)
      /\ \A i \in DOMAIN sender.lost : sender.lost[i] < sender.next
      /\ Ringed(sender.rtx, sender.carried, sender.next)
  BY Zenon DEF SenderInv, SenderOk, SenderRecord
<1>2. /\ CollectFits(sender.rtx, pns, MaxDatagram)
      /\ \/ data = <<>> /\ sender' = s
         \/ data # <<>> /\ sender' = Outgoing(s, data)
  BY <1>1 DEF Retransmit, SenderRecord
<1>3. /\ DOMAIN sender.lost = 1 .. Len(sender.lost) /\ Len(sender.lost) \in Nat
      /\ n \in Nat /\ n \in 0 .. Len(sender.lost) /\ n <= Len(sender.lost)
      /\ \A i \in 1 .. Len(sender.lost) : sender.lost[i] \in 0 .. sender.next - 1
  BY <1>1, SMTT(30)
<1>4. /\ pns \in Seq(Nat) /\ Len(pns) = n /\ \A i \in 1 .. n : pns[i] = sender.lost[i]
      /\ tail \in Seq(Nat)
      /\ \A i \in n + 1 .. Len(sender.lost) : \E j \in DOMAIN tail : tail[j] = sender.lost[i]
      /\ \A j \in DOMAIN tail : \E i \in DOMAIN sender.lost : tail[j] = sender.lost[i]
  <2> DEFINE q == sender.lost
  <2>1. q \in Seq(Nat) /\ n \in 0 .. Len(q)
    BY <1>1, <1>3
  <2> HIDE DEF q
  <2>2. /\ SubSeq(q, 1, n) \in Seq(Nat) /\ Len(SubSeq(q, 1, n)) = n
        /\ \A i \in 1 .. n : SubSeq(q, 1, n)[i] = q[i]
    BY <2>1, Prefix
  <2>3. SubSeq(q, n + 1, Len(q)) \in Seq(Nat)
    BY Zenon, <2>1, Prefix
  <2>4. \A i \in n + 1 .. Len(q) : \E j \in DOMAIN SubSeq(q, n + 1, Len(q)) :
          SubSeq(q, n + 1, Len(q))[j] = q[i]
    BY <2>1, Prefix
  <2>5. \A j \in DOMAIN SubSeq(q, n + 1, Len(q)) : \E i \in DOMAIN q :
          SubSeq(q, n + 1, Len(q))[j] = q[i]
    BY Zenon, <2>1, Prefix
  <2> QED BY <2>2, <2>3, <2>4, <2>5 DEF q
<1> HIDE DEF pns, tail
<1>5. data = Collect(sender.rtx, pns)
  <2> DEFINE fit == {k \in 0 .. Len(pns) : CollectFits(sender.rtx, SubSeq(pns, 1, k), MaxDatagram)}
  <2>1. n \in 0 .. Len(pns) /\ SubSeq(pns, 1, n) = pns
    BY <1>3, <1>4, Prefix
  <2>2. n \in fit /\ \A j \in fit : j \in 0 .. n
    BY Zenon, <1>2, <1>4, <2>1
  <2> DEFINE k == CHOOSE k \in fit : \A j \in fit : j <= k
  <2>3. \A j \in fit : j <= n
    BY <2>2
  <2>4. k \in fit /\ \A j \in fit : j <= k
    <3> HIDE DEF fit
    <3> QED BY Zenon, <2>2, <2>3
  <2>5. data = Collect(sender.rtx, SubSeq(pns, 1, k))
    BY DEF Batch
  <2> HIDE DEF k, fit
  <2>6. k = n
    BY <1>3, <2>2, <2>4
  <2> QED BY Zenon, <2>1, <2>5, <2>6
<1>6. pns \in [1 .. n -> 0 .. sender.next - 1]
  <2>1. pns \in [1 .. n -> Nat]
    BY <1>4
  <2>2. \A i \in 1 .. n : pns[i] \in 0 .. sender.next - 1
    <3>1. \A i \in 1 .. n : i \in 1 .. Len(sender.lost)
      BY <1>3
    <3> QED BY Zenon, <1>3, <1>4, <3>1
  <2> QED BY <2>1, <2>2
<1>7. /\ data \in Seq(Data \union {PING})
      /\ \A k \in 1 .. n : \A f : RtxBuild(sender.rtx, pns[k]) # <<>> /\ f \in Range(sender.carried[pns[k] + 1])
           => f \in Range(data)
  <2> HIDE DEF data
  <2> QED BY Zenon, <1>1, <1>3, <1>5, <1>6, CollectHolds
<1> HIDE DEF data
<1>8. /\ s \in SenderRecord /\ s.todo = sender.todo /\ s.sent = sender.sent /\ s.carried = sender.carried
      /\ s.next = sender.next /\ s.rtx = sender.rtx /\ s.lost = tail
      /\ s.cc = sender.cc /\ s.cuts = sender.cuts /\ s.now = sender.now
  BY Zenon, <1>1, <1>4 DEF SenderRecord
<1> HIDE DEF s
<1>9. SenderOk(s)
  <2>1. \A j \in DOMAIN s.lost : s.lost[j] < s.next
    BY <1>1, <1>4, <1>8
  <2> QED BY <1>8, <2>1 DEF SenderInv, SenderOk
<1>10. ASSUME NEW f, Safe(sender, f) PROVE Safe(s, f) \/ f \in Range(data)
  <2>1. CASE \E p \in sender.sent.pkts : p.state = "ACKED" /\ f \in Range(sender.carried[p.pn + 1])
    BY <1>8, <2>1 DEF Safe
  <2>2. ASSUME NEW pn \in 0 .. sender.next - 1, f \in Range(sender.carried[pn + 1]),
               \/ \E p \in FlyingPkts(sender.sent) : p.pn = pn
               \/ pn \in Range(sender.lost) /\ RtxBuild(sender.rtx, pn) # <<>>
               \/ sender.next - pn > RtxSlots
        PROVE  Safe(s, f) \/ f \in Range(data)
    <3>1. CASE (\E p \in FlyingPkts(sender.sent) : p.pn = pn) \/ sender.next - pn > RtxSlots
      BY <1>8, <2>2, <3>1 DEF Safe
    <3>2. CASE pn \in Range(sender.lost) /\ RtxBuild(sender.rtx, pn) # <<>>
      <4>1. PICK i \in 1 .. Len(sender.lost) : sender.lost[i] = pn
        BY <1>3, <3>2 DEF Range
      <4>2. CASE i \in 1 .. n
        BY <1>4, <1>7, <2>2, <3>2, <4>1, <4>2
      <4>3. CASE i \in n + 1 .. Len(sender.lost)
        <5>1. pn \in Range(tail)
          BY <1>4, <4>1, <4>3 DEF Range
        <5> QED BY <1>8, <2>2, <3>2, <5>1 DEF Safe
      <4>4. i \in 1 .. n \/ i \in n + 1 .. Len(sender.lost)
        BY <1>3
      <4> QED BY <4>2, <4>3, <4>4
    <3> QED BY <2>2, <3>1, <3>2
  <2> QED BY <1>10, <2>1, <2>2 DEF Safe
<1>11. CASE data = <<>> /\ sender' = s
  <2>1. \A f : Safe(sender, f) => Safe(s, f)
    <3>1. Range(data) = {}
      BY <1>11 DEF Range
    <3> QED BY <1>10, <3>1
  <2> QED BY <1>8, <1>9, <1>11, <2>1 DEF SenderInv
<1>12. CASE data # <<>> /\ sender' = Outgoing(s, data)
  <2>1. Payload(data)
    <3>1. Len(data) <= MaxDatagram
      BY Zenon, <1>2, <1>5 DEF CollectFits
    <3>2. Len(data) \in Nat
      BY <1>7
    <3>3. Len(data) <= RtxFrame
      BY <3>1, <3>2, RecoveryAssumption, RtxAssumption
    <3> QED BY <1>7, <1>12, <3>3 DEF Payload
  <2>2. SenderOk(sender') /\ sender'.todo = sender.todo
    BY <1>8, <1>9, <1>12, <2>1, OutgoingKeepsAll
  <2>3. \A f : Safe(s, f) \/ f \in Range(data) => Safe(Outgoing(s, data), f)
    BY <1>9, <2>1, OutgoingKeepsAll
  <2> QED BY <1>10, <1>12, <2>2, <2>3 DEF SenderInv
<1> QED BY <1>2, <1>11, <1>12

\* quic_sent_on_ack and quic_sent_detect_loss for what one ACK reports: what was
\* in flight is acknowledged, lost, or still in flight.
LEMMA AckTracks ==
  ASSUME NEW t, NEW next \in Nat, Tracked(t, next), NEW pns \in SUBSET Nat, IsFiniteSet(pns), pns # {}
  PROVE  LET acked == SentAck(t, pns)
             gone  == LostPkts(acked)
             sent  == DetectLoss(acked)
         IN  /\ Tracked(acked, next) /\ Tracked(sent, next)
             /\ AckedBy(t, pns) \in SUBSET t.pkts /\ gone \in SUBSET acked.pkts
             /\ \A p \in t.pkts : p.state = "ACKED" => p \in sent.pkts
             /\ \A p \in FlyingPkts(t) :
                  \/ \E q \in sent.pkts : q.state = "ACKED" /\ q.pn = p.pn
                  \/ p \in gone
                  \/ p \in FlyingPkts(sent)
<1> DEFINE noted == NoteAcked(t, pns)
           by == AckedBy(t, pns)
           acked == SentAck(t, pns)
           gone == LostPkts(acked)
           sent == DetectLoss(acked)
<1>1. Max(pns) \in Nat
  <2>1. pns \in SUBSET Int
    OBVIOUS
  <2> QED BY Zenon, <2>1, MaxOf
<1>2. t \in Table
  BY DEF Tracked
<1>3. /\ noted \in Table /\ noted.pkts = t.pkts /\ noted.bytes_in_flight = t.bytes_in_flight
  <2> DEFINE la == IF t.have_acked /\ Max(pns) <= t.largest_acked THEN t.largest_acked ELSE Max(pns)
  <2>1. noted = [t EXCEPT !.largest_acked = la, !.have_acked = TRUE]
    BY <1>2 DEF NoteAcked, Table
  <2>2. la \in Nat
    BY <1>1, <1>2 DEF Table
  <2> HIDE DEF la
  <2> QED BY Zenon, <1>2, <2>1, <2>2 DEF Table
<1> HIDE DEF noted
<1>4. FlyingPkts(noted) = FlyingPkts(t) /\ Tracked(noted, next)
  BY <1>3 DEF FlyingPkts, Tracked
<1>5. by \in SUBSET FlyingPkts(noted) /\ acked = Leave(noted, by, "ACKED")
  BY <1>4 DEF AckedBy, SentAck, noted
<1> HIDE DEF by, acked
<1>6. /\ Tracked(acked, next) /\ FlyingPkts(acked) = FlyingPkts(t) \ by
      /\ acked.pkts = (t.pkts \ by) \union {[p EXCEPT !.state = "ACKED"] : p \in by}
  BY <1>3, <1>4, <1>5, LeaveTracks
<1>7. gone \in SUBSET FlyingPkts(acked) /\ sent = Leave(acked, gone, "LOST")
  BY DEF LostPkts, DetectLoss
<1> HIDE DEF gone, sent
<1>8. /\ Tracked(sent, next) /\ FlyingPkts(sent) = FlyingPkts(acked) \ gone
      /\ sent.pkts = (acked.pkts \ gone) \union {[p EXCEPT !.state = "LOST"] : p \in gone}
  BY <1>6, <1>7, LeaveTracks
<1>9. by \in SUBSET FlyingPkts(t)
  BY <1>4, <1>5
<1>10. \A p \in FlyingPkts(t) : p \in t.pkts /\ p.state = "INFLIGHT"
  BY DEF FlyingPkts
<1>11. \A p \in FlyingPkts(acked) : p \in acked.pkts /\ p.state = "INFLIGHT"
  BY DEF FlyingPkts
<1>12. ASSUME NEW p \in acked.pkts, p.state = "ACKED" PROVE p \in sent.pkts
  BY <1>7, <1>8, <1>11, <1>12
<1>13. ASSUME NEW p \in t.pkts, p.state = "ACKED" PROVE p \in sent.pkts
  BY <1>6, <1>9, <1>10, <1>12, <1>13
<1>14. ASSUME NEW p \in by PROVE \E q \in sent.pkts : q.state = "ACKED" /\ q.pn = p.pn
  <2> DEFINE q == [p EXCEPT !.state = "ACKED"]
  <2>1. p \in SentPkt
    BY <1>2, <1>9, <1>10 DEF Table
  <2>2. q.state = "ACKED" /\ q.pn = p.pn
    BY <2>1 DEF SentPkt
  <2>3. q \in acked.pkts
    BY <1>6
  <2> HIDE DEF q
  <2> QED BY <1>12, <2>2, <2>3
<1>15. by \in SUBSET t.pkts /\ gone \in SUBSET acked.pkts
  BY <1>7, <1>9, <1>10, <1>11
<1> QED BY Zenon, <1>6, <1>8, <1>13, <1>14, <1>15 DEF by, acked, gone, sent

\* The window after an ACK's packets and its losses.
LEMMA AckWindow ==
  ASSUME NEW now, sender.now = now, now \in Nat, NEW cuts, CutOk(sender.cc, cuts, now),
         NEW ps \in SUBSET SentPkt, NEW n \in Nat, NEW ackseq \in [1 .. n -> ps],
         NEW qs \in SUBSET SentPkt, NEW m \in Nat, NEW lossseq \in [1 .. m -> qs]
  PROVE  LET grown == AckAll(sender.cc, ackseq)
             w     == LoseAll([cc |-> grown, cuts |-> cuts], lossseq)
         IN  CutOk(w.cc, w.cuts, now)
<1> DEFINE T == {c \in Window : CutOk(c, cuts, now)}
           U == {w \in [cc : Window, cuts : Seq(CutRecord)] : CutOk(w.cc, w.cuts, now)}
           grown == AckAll(sender.cc, ackseq)
           w0 == [cc |-> grown, cuts |-> cuts]
           w == LoseAll(w0, lossseq)
<1>1. \A c, k : CutOk(c, k, now) => c \in Window /\ k \in Seq(CutRecord)
  BY DEF CutOk, WindowOk
<1>2. sender.cc \in T
  BY <1>1
<1>3. \A e \in T, p \in ps : AckOne(e, p) \in T
  BY <1>1, AckOneKeeps
<1>4. grown \in T
  <2> HIDE DEF T
  <2> QED BY Zenon, <1>2, <1>3, AckAllKeeps
<1> HIDE DEF grown
<1>5. w0 \in U
  BY <1>1, <1>4
<1>6. \A e \in U, p \in qs : LoseOne(e, p) \in U
  <2> SUFFICES ASSUME NEW e \in U, NEW p \in qs PROVE LoseOne(e, p) \in U
    OBVIOUS
  <2>1. e = [cc |-> e.cc, cuts |-> e.cuts] /\ CutOk(e.cc, e.cuts, sender.now)
    OBVIOUS
  <2>2. /\ LoseOne(e, p) = [cc |-> LoseOne(e, p).cc, cuts |-> LoseOne(e, p).cuts]
        /\ CutOk(LoseOne(e, p).cc, LoseOne(e, p).cuts, now)
    BY <2>1, LoseOneKeeps
  <2> DEFINE a == LoseOne(e, p).cc
             b == LoseOne(e, p).cuts
             v == LoseOne(e, p)
  <2>3. a \in Window /\ b \in Seq(CutRecord)
    BY <1>1, <2>2
  <2>4. v = [cc |-> a, cuts |-> b] /\ CutOk(v.cc, v.cuts, now)
    BY <2>2
  <2> HIDE DEF a, b, v
  <2>5. v \in U
    BY <2>3, <2>4
  <2> QED BY <2>5 DEF v
<1>7. w \in U
  <2> HIDE DEF U, w0
  <2> QED BY Zenon, <1>5, <1>6, LoseAllKeeps
<1> QED BY <1>7 DEF grown

LEMMA OnAckFrameKeeps ==
  ASSUME SenderInv, NEW pns \in Reports, NEW d \in AckDelays, OnAckFrame(pns, d)
  PROVE  SenderInv'
<1> DEFINE t == sender.sent
           acked == SentAck(t, pns)
           by == AckedBy(t, pns)
           gone == LostPkts(acked)
           sent == DetectLoss(acked)
           grown == AckAll(sender.cc, ByNumber(by))
           w == LoseAll([cc |-> grown, cuts |-> sender.cuts], ByNumber(gone))
           cc == IF Persistent(gone, PtoDuration(rtt'.est, MaxAckDelay, sender.pto_count))
                 THEN CcOnPersistent(w.cc) ELSE w.cc
           more == [i \in 1 .. Cardinality(gone) |-> ByNumber(gone)[i].pn]
           lost == sender.lost \o more
           count == IF PtoShouldReset(TRUE, Cardinality(FlyingPkts(sent))) THEN 0 ELSE sender.pto_count
<1>1. /\ sender \in SenderRecord /\ sender.next \in Nat /\ sender.now \in Nat
      /\ sender.pto_count \in Nat /\ sender.lost \in Seq(Nat)
      /\ Tracked(t, sender.next) /\ CutOk(sender.cc, sender.cuts, sender.now)
      /\ Ringed(sender.rtx, sender.carried, sender.next)
      /\ \A i \in DOMAIN sender.lost : sender.lost[i] < sender.next
  BY Zenon DEF SenderInv, SenderOk, SenderRecord
<1>2. sender' = [sender EXCEPT !.sent = sent, !.cuts = w.cuts, !.cc = cc, !.lost = lost, !.pto_count = count]
  BY <1>1 DEF OnAckFrame, SenderRecord
<1>3. pns \in SUBSET Nat /\ IsFiniteSet(pns) /\ pns # {}
  <2>1. \A p \in t.pkts : p.pn \in 0 .. sender.next - 1
    BY <1>1, SMTT(30) DEF Tracked, Table, SentPkt
  <2>2. pns \in SUBSET (0 .. sender.next - 1) /\ Cardinality(pns) \in 1 .. MaxReported
    BY <2>1 DEF Reports
  <2>3. 0 \in Int /\ sender.next - 1 \in Int
    BY <1>1, SMTT(30)
  <2>4. IsFiniteSet(0 .. sender.next - 1)
    BY <2>3, FS_Interval, Zenon
  <2>5. IsFiniteSet(pns)
    BY Zenon, <2>2, <2>4, FS_Subset
  <2>6. Cardinality({}) = 0
    BY FS_EmptySet
  <2> QED BY <2>2, <2>5, <2>6
<1>4. /\ Tracked(acked, sender.next) /\ Tracked(sent, sender.next)
      /\ by \in SUBSET t.pkts /\ gone \in SUBSET acked.pkts
      /\ \A p \in t.pkts : p.state = "ACKED" => p \in sent.pkts
      /\ \A p \in FlyingPkts(t) :
           \/ \E q \in sent.pkts : q.state = "ACKED" /\ q.pn = p.pn
           \/ p \in gone
           \/ p \in FlyingPkts(sent)
  BY Zenon, <1>1, <1>3, AckTracks
<1> HIDE DEF acked, by, gone, sent, t
<1>5. /\ Cardinality(by) \in Nat /\ by \in SUBSET SentPkt
      /\ ByNumber(by) \in [1 .. Cardinality(by) -> by]
  <2>1. Tracked(t, sender.next) /\ by \in SUBSET t.pkts /\ sender.next \in Nat
    BY Zenon, <1>1, <1>4
  <2> QED BY Zenon, <2>1, ByNumberLists
<1>6. /\ Cardinality(gone) \in Nat /\ gone \in SUBSET SentPkt
      /\ ByNumber(gone) \in [1 .. Cardinality(gone) -> gone]
      /\ \A p \in gone : \E i \in 1 .. Cardinality(gone) : ByNumber(gone)[i] = p
  <2>1. Tracked(acked, sender.next) /\ gone \in SUBSET acked.pkts /\ sender.next \in Nat
    BY Zenon, <1>1, <1>4
  <2>2. /\ Cardinality(gone) \in Nat /\ gone \in SUBSET SentPkt
        /\ ByNumber(gone) \in [1 .. Cardinality(gone) -> gone]
    BY <2>1, ByNumberLists
  <2>3. \A p \in gone : \E i \in 1 .. Cardinality(gone) : ByNumber(gone)[i] = p
    BY <2>1, ByNumberLists, Zenon
  <2> QED BY <2>2, <2>3
<1>7. CutOk(w.cc, w.cuts, sender.now)
  BY Zenon, <1>1, <1>5, <1>6, AckWindow
<1> HIDE DEF w
<1>8. CutOk(cc, w.cuts, sender.now)
  BY <1>1, <1>7, PersistentKeeps
<1> HIDE DEF cc
<1>9. cc \in Window /\ w.cuts \in Seq(CutRecord) /\ count \in Nat /\ sent \in Table
  BY Zenon, <1>1, <1>4, <1>8 DEF CutOk, WindowOk, Tracked
<1>10. more \in [1 .. Cardinality(gone) -> 0 .. sender.next - 1]
  <2>1. \A p \in gone : p.pn \in 0 .. sender.next - 1
    BY <1>1, <1>4, <1>6, SMTT(30) DEF Tracked, SentPkt
  <2> QED BY <1>6, <2>1
<1>11. \A p \in gone : \E i \in 1 .. Cardinality(gone) : more[i] = p.pn
  BY <1>6
<1> HIDE DEF more
<1>12. /\ lost \in Seq(Nat) /\ Range(sender.lost) \subseteq Range(lost)
       /\ \A i \in DOMAIN lost : lost[i] < sender.next
       /\ \A p \in gone : p.pn \in Range(lost)
  <2> DEFINE n == Len(sender.lost)
             m == Cardinality(gone)
  <2>1. more \in Seq(Nat) /\ Len(more) = m /\ m \in Nat /\ n \in Nat /\ DOMAIN sender.lost = 1 .. n
    <3>1. \A x \in 0 .. sender.next - 1 : x \in Nat
      BY <1>1, SMTT(30)
    <3>2. more \in [1 .. m -> Nat]
      BY <1>10, <3>1
    <3>3. m \in Nat
      BY <1>6
    <3> HIDE DEF m
    <3>4. more \in Seq(Nat) /\ Len(more) = m
      BY <3>2, <3>3
    <3> QED BY <1>1, <3>3, <3>4, SMTT(30)
  <2>2. /\ lost \in Seq(Nat) /\ Len(lost) = n + m
        /\ \A i \in 1 .. n : lost[i] = sender.lost[i]
        /\ \A i \in 1 .. m : lost[n + i] = more[i]
    <3> DEFINE a == sender.lost
    <3>1. a \in Seq(Nat) /\ more \in Seq(Nat) /\ Len(a) = n /\ Len(more) = m /\ lost = a \o more
      BY <1>1, <2>1
    <3> HIDE DEF m, n, lost, a
    <3>2. lost \in Seq(Nat) /\ Len(lost) = n + m
      <4>1. a \o more \in Seq(Nat)
        BY <3>1
      <4>2. Len(a \o more) = Len(a) + Len(more)
        <5>1. a \in Seq(Nat) /\ more \in Seq(Nat)
          BY <3>1
        <5> QED BY <5>1
      <4> QED BY <3>1, <4>1, <4>2
    <3>3. \A i \in 1 .. n : lost[i] = a[i]
      BY <3>1
    <3>4. \A i \in 1 .. m : lost[n + i] = more[i]
      BY <3>1
    <3> QED BY <3>2, <3>3, <3>4 DEF a
  <2> HIDE DEF n, m, lost
  <2>3. DOMAIN lost = 1 .. n + m
    BY <2>2, <2>1
  <2>4. \A i \in 1 .. n : i \in DOMAIN lost
    BY <2>1, <2>3
  <2>5. \A i \in 1 .. m : n + i \in DOMAIN lost
    BY <2>1, <2>3
  <2>6. \A i \in 1 .. n + m : i \in 1 .. n \/ (i - n \in 1 .. m /\ n + (i - n) = i)
    BY <2>1
  <2>7. Range(sender.lost) \subseteq Range(lost)
    BY <2>1, <2>2, <2>4 DEF Range
  <2>8. \A p \in gone : p.pn \in Range(lost)
    BY <1>11, <2>2, <2>5 DEF Range, m
  <2>9. \A i \in 1 .. m : more[i] < sender.next
    BY <1>1, <1>10, SMTT(30) DEF m
  <2>10. \A i \in DOMAIN lost : lost[i] < sender.next
    BY Zenon, <1>1, <2>1, <2>2, <2>3, <2>6, <2>9
  <2> QED BY <2>2, <2>7, <2>8, <2>10
<1> HIDE DEF lost, count
<1>13. /\ sender' \in SenderRecord /\ sender'.todo = sender.todo /\ sender'.sent = sent
       /\ sender'.carried = sender.carried /\ sender'.next = sender.next
       /\ sender'.rtx = sender.rtx /\ sender'.lost = lost
       /\ sender'.cc = cc /\ sender'.cuts = w.cuts /\ sender'.now = sender.now
  <2> DEFINE cuts == w.cuts
  <2>1. /\ cuts \in Seq(CutRecord)
        /\ sender' = [sender EXCEPT !.sent = sent, !.cuts = cuts, !.cc = cc, !.lost = lost, !.pto_count = count]
    BY <1>2, <1>9
  <2> HIDE DEF cuts
  <2>2. /\ sender' \in SenderRecord /\ sender'.todo = sender.todo /\ sender'.sent = sent
        /\ sender'.carried = sender.carried /\ sender'.next = sender.next
        /\ sender'.rtx = sender.rtx /\ sender'.lost = lost
        /\ sender'.cc = cc /\ sender'.cuts = cuts /\ sender'.now = sender.now
    BY Zenon, <1>1, <1>9, <1>12, <2>1 DEF SenderRecord
  <2> QED BY <2>2 DEF cuts
<1>14. SenderOk(sender')
  BY <1>1, <1>4, <1>8, <1>12, <1>13 DEF SenderOk
<1>15. ASSUME NEW f \in Data, Safe(sender, f) PROVE Safe(sender', f)
  <2>1. ASSUME NEW p \in t.pkts, p.state = "ACKED", f \in Range(sender.carried[p.pn + 1])
        PROVE  Safe(sender', f)
    BY <1>4, <1>13, <2>1 DEF Safe
  <2>2. ASSUME NEW pn \in 0 .. sender.next - 1, f \in Range(sender.carried[pn + 1]),
               \/ pn \in Range(sender.lost) /\ RtxBuild(sender.rtx, pn) # <<>>
               \/ sender.next - pn > RtxSlots
        PROVE  Safe(sender', f)
    <3>1. pn \in Range(sender.lost) => pn \in Range(lost)
      BY <1>12
    <3> QED BY <1>13, <2>2, <3>1 DEF Safe
  <2>3. ASSUME NEW p \in FlyingPkts(t), p.pn \in 0 .. sender.next - 1, f \in Range(sender.carried[p.pn + 1])
        PROVE  Safe(sender', f)
    <3>1. CASE \E q \in sent.pkts : q.state = "ACKED" /\ q.pn = p.pn
      BY <1>13, <2>3, <3>1 DEF Safe
    <3>2. CASE p \in FlyingPkts(sent)
      BY <1>13, <2>3, <3>2 DEF Safe
    <3>3. CASE p \in gone
      <4>1. sender.carried[p.pn + 1] # <<ACK>>
        <5>1. f \notin Range(<<ACK>>)
          BY SenderAssumption DEF Range, ACK
        <5> QED BY <2>3, <5>1
      <4>2. sender.next - p.pn <= RtxSlots => RtxBuild(sender.rtx, p.pn) # <<>>
        BY Zenon, <1>1, <2>3, <4>1, BuildIsCarried
      <4>3. sender.next - p.pn <= RtxSlots \/ sender.next - p.pn > RtxSlots
        <5>1. p.pn \in Int /\ RtxSlots \in Int /\ sender.next \in Int
          BY <1>1, <2>3, RecoveryAssumption, SMTT(30)
        <5> QED BY <5>1
      <4>4. p.pn \in Range(lost)
        BY <1>12, <3>3
      <4> QED BY <1>13, <2>3, <4>2, <4>3, <4>4 DEF Safe
    <3> QED BY <1>4, <3>1, <3>2, <3>3
  <2> QED BY <1>15, <2>1, <2>2, <2>3 DEF Safe, t
<1> QED BY <1>13, <1>14, <1>15 DEF SenderInv

LEMMA SenderStarts == SenderInit => SenderInv
<1> SUFFICES ASSUME SenderInit PROVE SenderInv
  OBVIOUS
<1>1. sender.todo = Data /\ sender.next = 0 /\ sender.now = 0 /\ sender.lost = <<>> /\ sender.cuts = <<>>
      /\ sender.sent = SentTableInit /\ sender.cc = CcInit /\ sender.rtx = RtxInit /\ sender.carried = <<>>
  BY DEF SenderInit
<1>2. Tracked(SentTableInit, 0)
  <2>1. SentTableInit \in Table /\ FlyingPkts(SentTableInit) = {} /\ SentTableInit.pkts = {}
    BY DEF SentTableInit, Table, FlyingPkts
  <2>2. IsFiniteSet({}) /\ BytesOf({}) = 0
    BY FS_EmptySet, BytesMove
  <2>3. SentTableInit.bytes_in_flight = 0
    BY DEF SentTableInit
  <2> QED BY <2>1, <2>2, <2>3 DEF Tracked
<1>3. CutOk(CcInit, <<>>, 0)
  <2>1. WindowOk(CcInit)
    BY WindowKept
  <2>2. CcInit.recovery_start = 0
    BY DEF CcInit
  <2> QED BY <2>1, <2>2 DEF CutOk
<1>4. Ringed(RtxInit, <<>>, 0)
  BY RingInit
<1>5. sender \in SenderRecord
  <2>1. SentTableInit \in Table /\ CcInit \in Window /\ RtxInit \in Ring
    BY <1>2, <1>3, <1>4 DEF Tracked, CutOk, WindowOk, Ringed
  <2> HIDE DEF SentTableInit, CcInit, RtxInit
  <2> QED BY <2>1, SMTT(30) DEF SenderInit, SenderRecord
<1> QED BY <1>1, <1>2, <1>3, <1>4, <1>5 DEF SenderInv, SenderOk

LEMMA SenderInductive == SenderSpec => []SenderInv
<1>1. SenderInv /\ [SenderNext]_senderVars => SenderInv'
  <2> SUFFICES ASSUME SenderInv, [SenderNext]_senderVars PROVE SenderInv'
    OBVIOUS
  <2>1. CASE UNCHANGED senderVars
    BY <2>1 DEF senderVars, SenderInv
  <2>2. CASE SenderNext
    BY <2>2, SendNewKeeps, SendPaddedKeeps, TimersKeep, SendProbeKeeps, RetransmitKeeps, OnAckFrameKeeps
       DEF SenderNext
  <2> QED BY <2>1, <2>2
<1> QED BY <1>1, SenderStarts, PTL DEF SenderSpec

\* The bytes in flight are those of the packets in flight, whatever is
\* acknowledged, and however often (sent.c:20-80).
THEOREM BytesAlwaysExact == SenderSpec => []BytesInFlightExact
<1>1. SenderInv => BytesInFlightExact
  BY DEF SenderInv, SenderOk, Tracked, BytesInFlightExact, Flying
<1> QED BY <1>1, SenderInductive, PTL

\* A flight of packets cuts the window once; the window keeps its floor and
\* does not outgrow the threshold while recovering (cc.c:12-38).
THEOREM WindowIsCutOnce == SenderSpec => []WindowCutOnce
<1>1. SenderInv => WindowCutOnce
  BY DEF SenderInv, SenderOk, CutOk, WindowOk, WindowCutOnce, OneCutPerFlight, RecoveryWindow
<1> QED BY <1>1, SenderInductive, PTL

\* No frame that was sent is forgotten: it is acknowledged, in flight, or queued
\* with its bytes held, unless RtxSlots packets wrapped the ring over it
\* (rtxstore.c:10-24, batch.c, sent.c:56-80).
THEOREM NothingIsForgotten == SenderSpec => []NothingForgotten
<1>1. ASSUME SenderInv PROVE NothingForgotten
  <2> SUFFICES ASSUME NEW f \in Data \ sender.todo
               PROVE  \/ f \in Delivered
                      \/ \E pn \in 0 .. sender.next - 1 :
                           /\ f \in Range(sender.carried[pn + 1])
                           /\ \/ \E p \in Flying : p.pn = pn
                              \/ pn \in Range(sender.lost) /\ RtxBuild(sender.rtx, pn) # <<>>
                              \/ sender.next - pn > RtxSlots
    BY DEF NothingForgotten
  <2>1. Safe(sender, f)
    BY <1>1 DEF SenderInv
  <2> QED BY <2>1 DEF Safe, Delivered, Flying
<1> QED BY <1>1, SenderInductive, PTL
=============================================================================
