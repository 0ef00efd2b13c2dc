---------------------------- MODULE PacketProofs ----------------------------
(***************************************************************************)
(* The exchange of acknowledgements, for every choice of the constants:    *)
(* every packet is accounted for once, and none is taken for arrived that  *)
(* did not arrive.                                                         *)
(***************************************************************************)
EXTENDS AckExchange, ConnGateProofs, Inductions

\* Dropping what is lost takes just that out of flight.
LEMMA InFlightDrop ==
  ASSUME NEW t \in SentTable, NEW gone \in SUBSET InFlight(t)
  PROVE  DropLost(t, gone) \in SentTable /\ InFlight(DropLost(t, gone)) = InFlight(t) \ gone
<1> DEFINE u == DropLost(t, gone)
<1>1. u \in SentTable /\ \A i \in Slots : u[i] = IF t[i] \in gone THEN Free ELSE t[i]
  BY DEF DropLost, SentTable
<1>2. Free \notin gone
  BY InFlightIn DEF Free
<1> HIDE DEF u
<1>3. \A q : q \in InFlight(u) <=> q \in InFlight(t) \ gone
  BY <1>1, <1>2, InFlightIn
<1> QED BY <1>1, <1>3 DEF u

(***************************************************************************)
(* The exchange of acknowledgements: every packet is accounted for.  What  *)
(* is in flight was sent, what was sent has a number below the next one.   *)
(***************************************************************************)
FlyingIn == {p \in packets : p[2] \in InFlight(sent[p[1]])}

CountInv ==
  /\ next \in [Spaces -> Nat] /\ sent \in [Spaces -> SentTable]
  /\ packets \in SUBSET (Spaces \X Nat) /\ \A p \in packets : p[2] < next[p[1]]
  /\ \A s \in Spaces : \A pn \in InFlight(sent[s]) : <<s, pn>> \in packets
  /\ \A a \in acks : a[1] \in Spaces
  /\ packets = FlyingIn \union acked \union lost
  /\ acked \intersect lost = {} /\ FlyingIn \intersect (acked \union lost) = {}

\* A packet that is sent is in flight and nothing else.
LEMMA SendPacketCounts ==
  ASSUME CountInv, NEW s \in Spaces, SendPacket(s)
  PROVE  CountInv'
<1> DEFINE n == next[s]
           t == sent[s]
           q == <<s, n>>
<1>1. n \in Nat /\ t \in SentTable /\ HasRoom(t)
  BY DEF CountInv, SendPacket
<1>2. next' \in [Spaces -> Nat] /\ \A r \in Spaces : next'[r] = IF r = s THEN n + 1 ELSE next[r]
  BY <1>1 DEF CountInv, SendPacket
<1>3. SentOnSend(t, n) \in SentTable /\ InFlight(SentOnSend(t, n)) = InFlight(t) \union {n}
  BY <1>1, InFlightSend
<1>4. /\ sent' \in [Spaces -> SentTable]
      /\ \A r \in Spaces : sent'[r] = IF r = s THEN SentOnSend(t, n) ELSE sent[r]
  BY <1>3 DEF CountInv, SendPacket
<1>5. \A r \in Spaces : InFlight(sent'[r]) = IF r = s THEN InFlight(sent[r]) \union {n} ELSE InFlight(sent[r])
  BY <1>3, <1>4
<1>6. packets' = packets \union {q} /\ acks' = acks /\ acked' = acked /\ lost' = lost
  BY DEF SendPacket
<1>7. /\ packets \in SUBSET (Spaces \X Nat) /\ \A p \in packets : p[2] < next[p[1]]
      /\ \A r \in Spaces : \A pn \in InFlight(sent[r]) : <<r, pn>> \in packets
      /\ \A a \in acks : a[1] \in Spaces
      /\ packets = FlyingIn \union acked \union lost
      /\ acked \intersect lost = {} /\ FlyingIn \intersect (acked \union lost) = {}
  BY DEF CountInv
<1> HIDE DEF n, t
<1>8. q \in Spaces \X Nat /\ q[1] = s /\ q[2] = n
  BY <1>1
<1>9. q \notin packets
  <2> SUFFICES ASSUME q \in packets PROVE FALSE
    OBVIOUS
  <2>1. n < next[s]
    BY <1>7, <1>8
  <2> QED BY <1>1, <2>1 DEF n
<1>10. packets' \in SUBSET (Spaces \X Nat) /\ \A p \in packets' : p[2] < next'[p[1]]
  <2>1. packets' \in SUBSET (Spaces \X Nat)
    BY <1>6, <1>7, <1>8
  <2>2. ASSUME NEW p \in packets PROVE p[2] < next'[p[1]]
    <3>1. p[1] \in Spaces /\ p[2] \in Nat /\ p[2] < next[p[1]]
      BY <1>7
    <3> QED BY <1>1, <1>2, <3>1 DEF n
  <2>3. q[2] < next'[q[1]]
    BY <1>1, <1>2, <1>8
  <2> QED BY <1>6, <2>1, <2>2, <2>3
<1>11. \A r \in Spaces : \A pn \in InFlight(sent'[r]) : <<r, pn>> \in packets'
  BY Zenon, <1>5, <1>6, <1>7
<1>12. FlyingIn' = FlyingIn \union {q}
  <2>1. FlyingIn' = {p \in packets' : p[2] \in InFlight(sent'[p[1]])}
    BY DEF FlyingIn
  <2>2. ASSUME NEW p \in packets PROVE p[2] \in InFlight(sent'[p[1]]) <=> p[2] \in InFlight(sent[p[1]])
    <3>1. p[1] \in Spaces /\ p = <<p[1], p[2]>> /\ p # q
      BY <1>7, <1>9
    <3> QED BY Zenon, <1>5, <3>1
  <2>3. q[2] \in InFlight(sent'[q[1]])
    BY Zenon, <1>5, <1>8
  <2> QED BY <1>6, <2>1, <2>2, <2>3 DEF FlyingIn
<1>13. packets' = FlyingIn' \union acked' \union lost'
  BY <1>6, <1>7, <1>12
<1>14. acked' \intersect lost' = {} /\ FlyingIn' \intersect (acked' \union lost') = {}
  <2>1. q \notin acked \union lost
    BY <1>7, <1>9
  <2> QED BY <1>6, <1>7, <1>12, <2>1
<1>15. \A a \in acks' : a[1] \in Spaces
  BY <1>6, <1>7
<1> QED BY <1>2, <1>4, <1>10, <1>11, <1>13, <1>14, <1>15 DEF CountInv

\* A report moves packets out of flight, each to one of acked and lost: what
\* its ranges cover, and of the rest what is past a threshold.
LEMMA ReceiveAckCounts ==
  ASSUME CountInv, NEW s \in Spaces, NEW top, NEW ranges, ReceiveAck(s, top, ranges)
  PROVE  CountInv'
<1> DEFINE t == sent[s]
           after == AckProcess(t, top, ranges)
           max == IF top > largest[s] THEN top ELSE largest[s]
           gone == LostNow(after, max, time_sent[s])
           took == InFlight(t) \ InFlight(after)
           end == DropLost(after, gone)
<1>1. t \in SentTable
  BY DEF CountInv
<1>2. /\ sent' = [sent EXCEPT ![s] = end]
      /\ acked' = acked \union {<<s, pn>> : pn \in took}
      /\ lost' = lost \union {<<s, pn>> : pn \in gone}
      /\ next' = next /\ packets' = packets /\ acks' = acks
  BY DEF ReceiveAck
<1>3. after \in SentTable /\ InFlight(after) \in SUBSET InFlight(t)
  BY <1>1, InFlightAck
<1>4. gone \in SUBSET InFlight(after)
  BY DEF LostNow
<1> HIDE DEF gone, after
<1>5. end \in SentTable /\ InFlight(end) = InFlight(after) \ gone
  BY <1>3, <1>4, InFlightDrop
<1> HIDE DEF end
<1>6. /\ sent' \in [Spaces -> SentTable]
      /\ \A r \in Spaces : sent'[r] = IF r = s THEN end ELSE sent[r]
  BY <1>2, <1>5 DEF CountInv
<1>7. /\ packets \in SUBSET (Spaces \X Nat) /\ \A p \in packets : p[2] < next[p[1]]
      /\ \A r \in Spaces : \A pn \in InFlight(sent[r]) : <<r, pn>> \in packets
      /\ \A a \in acks : a[1] \in Spaces
      /\ packets = FlyingIn \union acked \union lost
      /\ acked \intersect lost = {} /\ FlyingIn \intersect (acked \union lost) = {}
      /\ next \in [Spaces -> Nat]
  BY DEF CountInv
<1>8. InFlight(end) \in SUBSET InFlight(t)
  BY <1>3, <1>5
<1>9. \A r \in Spaces : \A pn \in InFlight(sent'[r]) : <<r, pn>> \in packets'
  BY Zenon, <1>2, <1>6, <1>7, <1>8
<1> DEFINE A == {<<s, pn>> : pn \in took}
           L == {<<s, pn>> : pn \in gone}
<1>10. /\ \A p : p \in A <=> p \in packets /\ p[1] = s /\ p[2] \in took
       /\ \A p : p \in L <=> p \in packets /\ p[1] = s /\ p[2] \in gone
  <2>1. took \in SUBSET InFlight(t) /\ gone \in SUBSET InFlight(t)
    BY <1>3, <1>4
  <2>2. \A pn \in InFlight(t) : <<s, pn>> \in packets
    BY <1>7
  <2>3. \A p \in packets : p = <<p[1], p[2]>>
    BY <1>7
  <2> HIDE DEF took, t
  <2> QED BY <2>1, <2>2, <2>3
<1>11. \A p \in packets : p[1] \in Spaces
  BY <1>7
<1>12. \A p : p \in FlyingIn' <=> p \in packets /\ p[2] \in InFlight(sent'[p[1]])
  BY <1>2 DEF FlyingIn
<1>13. \A p : p \in FlyingIn <=> p \in packets /\ p[2] \in InFlight(sent[p[1]])
  BY DEF FlyingIn
<1>14. \A p \in packets : p \in FlyingIn' <=> p \in FlyingIn /\ p \notin A /\ p \notin L
  <2> SUFFICES ASSUME NEW p \in packets
               PROVE  p \in FlyingIn' <=> p \in FlyingIn /\ p \notin A /\ p \notin L
    OBVIOUS
  <2>1. CASE p[1] = s
    <3>1. p \in FlyingIn' <=> p[2] \in InFlight(end)
      BY <1>6, <1>12, <2>1
    <3>2. p \in FlyingIn <=> p[2] \in InFlight(t)
      BY <1>13, <2>1
    <3>3. (p \in A <=> p[2] \in took) /\ (p \in L <=> p[2] \in gone)
      BY <1>10, <2>1
    <3> HIDE DEF A, L, t
    <3> QED BY <1>3, <1>4, <1>5, <3>1, <3>2, <3>3
  <2>2. CASE p[1] # s
    <3>1. sent'[p[1]] = sent[p[1]]
      BY <1>6, <1>11, <2>2
    <3>2. p \notin A /\ p \notin L
      BY <1>10, <2>2
    <3> HIDE DEF A, L
    <3> QED BY <1>12, <1>13, <3>1, <3>2
  <2> QED BY <2>1, <2>2
<1>15. /\ \A p \in A : p \in FlyingIn /\ p \notin L
       /\ \A p \in L : p \in FlyingIn
  <2>1. \A p \in A : p \in packets /\ p[1] = s /\ p[2] \in InFlight(t) /\ p[2] \notin InFlight(after)
    BY <1>10
  <2>2. \A p \in L : p \in packets /\ p[1] = s /\ p[2] \in InFlight(t) /\ p[2] \in InFlight(after)
    BY <1>3, <1>4, <1>10
  <2> HIDE DEF A, L
  <2> QED BY <1>13, <2>1, <2>2
<1> HIDE DEF A, L
<1>16. acked' = acked \union A /\ lost' = lost \union L
  BY <1>2 DEF A, L
<1>17. \A p : p \in FlyingIn' => p \in packets
  BY <1>12
<1>18. packets' = FlyingIn' \union acked' \union lost'
  <2>1. \A p : p \in packets <=> p \in FlyingIn' \/ p \in acked' \/ p \in lost'
    BY <1>7, <1>13, <1>14, <1>15, <1>16, <1>17
  <2> QED BY <1>2, <2>1
<1>19. acked' \intersect lost' = {}
  <2>1. \A p : ~(p \in acked' /\ p \in lost')
    BY <1>7, <1>15, <1>16
  <2> QED BY <2>1
<1>20. FlyingIn' \intersect (acked' \union lost') = {}
  <2>1. \A p : ~(p \in FlyingIn' /\ (p \in acked' \/ p \in lost'))
    BY <1>7, <1>14, <1>16, <1>17
  <2> QED BY <2>1
<1> QED BY <1>2, <1>6, <1>7, <1>9, <1>18, <1>19, <1>20 DEF CountInv

\* The other steps touch neither the packets nor the table.
LEMMA OthersCount ==
  ASSUME CountInv, UNCHANGED <<next, sent, packets, acked, lost>>, \A a \in acks' : a[1] \in Spaces
  PROVE  CountInv'
BY DEF CountInv, FlyingIn

\* Nothing is sent and nothing is concluded at the start.
LEMMA CountStart == AckInit => CountInv
<1> SUFFICES ASSUME AckInit PROVE CountInv
  OBVIOUS
<1>1. SentInit \in SentTable /\ InFlight(SentInit) = {}
  BY DEF SentInit, SentTable, InFlight
<1> QED BY <1>1 DEF AckInit, CountInv, FlyingIn

\* Every step of the exchange keeps the books.
LEMMA CountStep == CountInv /\ [AckNext]_ackVars => CountInv'
<1> SUFFICES ASSUME CountInv, [AckNext]_ackVars PROVE CountInv'
  OBVIOUS
<1>1. CASE UNCHANGED ackVars
  BY <1>1 DEF ackVars, CountInv, FlyingIn
<1>2. ASSUME NEW s \in Spaces, SendPacket(s) PROVE CountInv'
  BY <1>2, SendPacketCounts
<1>3. ASSUME NEW s \in Spaces, SendAck(s) PROVE CountInv'
  <2>1. UNCHANGED <<next, sent, packets, acked, lost>> /\ acks' = acks \union {<<s, recv[s].largest, AckRanges(recv[s])>>}
    BY <1>3 DEF SendAck
  <2>2. \A a \in acks' : a[1] \in Spaces
    BY <1>3, <2>1 DEF CountInv
  <2> QED BY <2>1, <2>2, OthersCount
<1>4. ASSUME NEW p \in packets, Arrive(p[1], p[2]) PROVE CountInv'
  <2>1. UNCHANGED <<next, sent, packets, acked, lost>> /\ \A a \in acks' : a[1] \in Spaces
    BY <1>4 DEF Arrive, CountInv
  <2> QED BY <2>1, OthersCount
<1>5. ASSUME NEW a \in acks, ReceiveAck(a[1], a[2], a[3]) PROVE CountInv'
  <2>1. a[1] \in Spaces
    BY DEF CountInv
  <2> QED BY <1>5, <2>1, ReceiveAckCounts
<1>6. CASE Tick
  <2>1. UNCHANGED <<next, sent, packets, acked, lost>> /\ \A a \in acks' : a[1] \in Spaces
    BY <1>6 DEF Tick, CountInv
  <2> QED BY <2>1, OthersCount
<1> QED BY <1>1, <1>2, <1>3, <1>4, <1>5, <1>6 DEF AckNext

\* Every packet is in flight, acknowledged or lost, and in one of them only,
\* whatever is lost, repeated or reordered and whenever losses are declared
\* (ack_process.c:13-20, lossdrive.c:10-26).
THEOREM AlwaysAccounted == AckSpec => []Accounted
<1>1. AckInit => CountInv
  BY CountStart
<1>2. CountInv /\ [AckNext]_ackVars => CountInv'
  BY CountStep
<1>3. CountInv => Accounted
  BY DEF CountInv, Accounted, FlyingIn
<1> QED BY <1>1, <1>2, <1>3, PTL DEF AckSpec

-----------------------------------------------------------------------------
(***************************************************************************)
(* The blocks quic_ack_process walks; lo holds the low ends of k of them.  *)
(***************************************************************************)
IsLows(lo, k, top, out) ==
  /\ k \in Nat \ {0} /\ lo \in [1 .. k -> Int] /\ top \in Int
  /\ out \in Seq(Int) /\ Len(out) = 2 * k - 1
  /\ lo[1] = top - out[1]
  /\ \A b \in 2 .. k : lo[b] = lo[b - 1] - out[2 * b - 2] - 2 - out[2 * b - 1]

Reach(lo, k, out, pn) == \E b \in 1 .. k : lo[b] <= pn /\ pn <= lo[b] + out[2 * b - 1]

\* The blocks of the walk are those with these low ends.
LEMMA BlocksAre ==
  ASSUME NEW lo, NEW k, NEW top, NEW out, IsLows(lo, k, top, out)
  PROVE  \A pn : Covered(pn, AckBlocks(top, out)) <=> Reach(lo, k, out, pn)
<1> DEFINE Body(f, b) == IF b = 1 THEN top - out[1] ELSE f[b - 1] - out[2 * b - 2] - 2 - out[2 * b - 1]
           g == CHOOSE f : f = [b \in 1 .. k |-> Body(f, b)]
           Block(b) == <<g[b], IF b = 1 THEN top ELSE g[b] + out[2 * b - 1]>>
<1>1. k \in Nat \ {0} /\ 1 + (Len(out) - 1) \div 2 = k
  BY DEF IsLows
<1>2. AckBlocks(top, out) = {Block(b) : b \in 1 .. k}
  BY <1>1 DEF AckBlocks
<1>3. \A b \in 1 .. k : lo[b] = Body(lo, b)
  <2> SUFFICES ASSUME NEW b \in 1 .. k PROVE lo[b] = Body(lo, b)
    OBVIOUS
  <2>1. CASE b = 1
    BY <2>1 DEF IsLows
  <2>2. CASE b # 1
    <3>1. b \in 2 .. k
      BY <1>1, <2>2
    <3> QED BY <2>2, <3>1 DEF IsLows
  <2> QED BY <2>1, <2>2
<1>4. lo = [b \in 1 .. k |-> Body(lo, b)]
  BY <1>3 DEF IsLows
<1>5. g = [b \in 1 .. k |-> Body(g, b)]
  BY Zenon, <1>4
<1> HIDE DEF g
<1>6. g = lo
  <2> DEFINE S == {b \in 0 .. k : b = 0 \/ g[b] = lo[b]}
  <2>1. k \in Nat /\ 0 \in S
    BY <1>1
  <2>2. ASSUME NEW b \in 1 .. k, b - 1 \in S PROVE b \in S
    <3>1. g[b] = Body(g, b) /\ lo[b] = Body(lo, b)
      BY Zenon, <1>3, <1>5
    <3> QED BY <2>2, <3>1
  <2>3. 0 .. k \subseteq S
    <3> HIDE DEF S
    <3> QED BY <2>1, <2>2, UpToInduction
  <2>4. \A b \in 1 .. k : g[b] = lo[b]
    BY <1>1, <2>3
  <2> QED BY <1>5, <2>4 DEF IsLows
<1>7. \A b \in 1 .. k : Block(b) = <<lo[b], lo[b] + out[2 * b - 1]>>
  <2> SUFFICES ASSUME NEW b \in 1 .. k PROVE Block(b) = <<lo[b], lo[b] + out[2 * b - 1]>>
    OBVIOUS
  <2>1. CASE b = 1
    <3>1. 1 \in 1 .. Len(out) /\ out[1] \in Int /\ top \in Int /\ lo[1] = top - out[1]
      BY <1>1 DEF IsLows
    <3>2. lo[1] + out[1] = top
      BY <3>1
    <3> QED BY <1>6, <2>1, <3>2
  <2>2. CASE b # 1
    BY <1>6, <2>2
  <2> QED BY <2>1, <2>2
<1> HIDE DEF Block
<1>8. \A pn : Covered(pn, AckBlocks(top, out)) <=>
              \E b \in 1 .. k : Block(b)[1] <= pn /\ pn <= Block(b)[2]
  BY <1>2 DEF Covered
<1> QED BY <1>7, <1>8 DEF Reach

\* One value is one block, from top down.
LEMMA FirstBlock ==
  ASSUME NEW top \in Int, NEW low \in Int
  PROVE  /\ IsLows([b \in 1 .. 1 |-> low], 1, top, <<top - low>>)
         /\ \A pn \in Int : Reach([b \in 1 .. 1 |-> low], 1, <<top - low>>, pn) <=> low <= pn /\ pn <= top
<1> DEFINE lo == [b \in 1 .. 1 |-> low]
           out == <<top - low>>
<1>1. out \in Seq(Int) /\ Len(out) = 1 /\ out[1] = top - low
  OBVIOUS
<1>2. lo \in [1 .. 1 -> Int] /\ lo[1] = low
  OBVIOUS
<1>3. \A b \in 1 .. 1 : b = 1
  OBVIOUS
<1>4. 2 .. 1 = {} /\ 1 \in Nat \ {0} /\ 2 * 1 - 1 = 1
  OBVIOUS
<1> HIDE DEF lo, out
<1>5. IsLows(lo, 1, top, out)
  BY <1>1, <1>2, <1>4 DEF IsLows
<1>6. \A pn \in Int : Reach(lo, 1, out, pn) <=> low <= pn /\ pn <= top
  <2> SUFFICES ASSUME NEW pn \in Int PROVE Reach(lo, 1, out, pn) <=> low <= pn /\ pn <= top
    OBVIOUS
  <2>1. Reach(lo, 1, out, pn) <=> lo[1] <= pn /\ pn <= lo[1] + out[1]
    BY <1>3, <1>4 DEF Reach
  <2> QED BY <1>1, <1>2, <2>1
<1> QED BY <1>5, <1>6 DEF lo, out

-----------------------------------------------------------------------------
(***************************************************************************)
(* Ranges: quic_ackrange_build writes the runs of the numbers it is given. *)
(***************************************************************************)
\* What Append does.
LEMMA Appended ==
  ASSUME NEW X, NEW q \in Seq(X), NEW x \in X
  PROVE  /\ Append(q, x) \in Seq(X) /\ Len(Append(q, x)) = Len(q) + 1
         /\ Append(q, x)[Len(q) + 1] = x /\ \A i \in 1 .. Len(q) : Append(q, x)[i] = q[i]
OBVIOUS

\* A gap and a length are one more block, below the last.
MoreOut(out, last, hi, low) == Append(Append(out, last - hi - 2), hi - low)
MoreEnds(lo, k, low) == [b \in 1 .. k + 1 |-> IF b = k + 1 THEN low ELSE lo[b]]

\* What is decoded from them.
LEMMA NextBlock ==
  ASSUME NEW lo, NEW k, NEW top, NEW out, IsLows(lo, k, top, out), NEW hi \in Int, NEW low \in Int
  PROVE  /\ IsLows(MoreEnds(lo, k, low), k + 1, top, MoreOut(out, lo[k], hi, low))
         /\ MoreOut(out, lo[k], hi, low)[1] = out[1]
         /\ \A pn \in Int : Reach(MoreEnds(lo, k, low), k + 1, MoreOut(out, lo[k], hi, low), pn) <=>
                              Reach(lo, k, out, pn) \/ (low <= pn /\ pn <= hi)
<1> DEFINE gap == lo[k] - hi - 2
           len == hi - low
           more == Append(Append(out, gap), len)
           ends == [b \in 1 .. k + 1 |-> IF b = k + 1 THEN low ELSE lo[b]]
<1>1. /\ k \in Nat \ {0} /\ lo \in [1 .. k -> Int] /\ top \in Int
      /\ out \in Seq(Int) /\ Len(out) = 2 * k - 1 /\ lo[1] = top - out[1]
      /\ \A b \in 2 .. k : lo[b] = lo[b - 1] - out[2 * b - 2] - 2 - out[2 * b - 1]
  BY DEF IsLows
<1>2. lo[k] \in Int /\ gap \in Int /\ len \in Int
  BY <1>1
<1> HIDE DEF gap, len
<1>3. /\ more \in Seq(Int) /\ Len(more) = 2 * k + 1 /\ \A i \in 1 .. 2 * k - 1 : more[i] = out[i]
      /\ more[2 * k] = gap /\ more[2 * k + 1] = len
  <2> DEFINE one == Append(out, gap)
  <2>1. out \in Seq(Int) /\ Len(out) = 2 * k - 1
    BY <1>1
  <2>2. /\ one \in Seq(Int) /\ Len(one) = Len(out) + 1 /\ one[Len(out) + 1] = gap
        /\ \A i \in 1 .. Len(out) : one[i] = out[i]
    BY <1>2, <2>1, Appended
  <2>3. more = Append(one, len)
    OBVIOUS
  <2> HIDE DEF one, more
  <2>4. /\ more \in Seq(Int) /\ Len(more) = Len(one) + 1 /\ more[Len(one) + 1] = len
        /\ \A i \in 1 .. Len(one) : more[i] = one[i]
    BY <1>2, <2>2, <2>3, Appended
  <2>5. Len(one) = 2 * k /\ Len(more) = 2 * k + 1 /\ 2 * k \in 1 .. 2 * k
    BY <1>1, <2>1, <2>2, <2>4
  <2>6. ASSUME NEW i \in 1 .. 2 * k - 1 PROVE more[i] = out[i]
    <3>1. i \in 1 .. 2 * k
      BY <1>1
    <3> QED BY Zenon, <2>1, <2>2, <2>4, <2>5, <3>1
  <2>7. more[2 * k] = one[2 * k] /\ one[2 * k] = gap
    <3>1. 2 * k - 1 + 1 = 2 * k
      BY <1>1
    <3> QED BY <2>1, <2>2, <2>4, <2>5, <3>1
  <2> QED BY <2>4, <2>5, <2>6, <2>7
<1> HIDE DEF more
<1>4. /\ ends \in [1 .. k + 1 -> Int] /\ ends[k + 1] = low
      /\ \A b \in 1 .. k : ends[b] = lo[b]
  BY <1>1
<1> HIDE DEF ends
<1>5. more[1] = out[1] /\ ends[1] = top - more[1]
  <2>1. 1 \in 1 .. k /\ 1 \in 1 .. 2 * k - 1 /\ lo[1] = top - out[1]
    BY <1>1
  <2> QED BY <1>3, <1>4, <2>1
<1>6. ASSUME NEW b \in 2 .. k + 1
      PROVE  ends[b] = ends[b - 1] - more[2 * b - 2] - 2 - more[2 * b - 1]
  <2>1. CASE b = k + 1
    <3>1. 2 * b - 2 = 2 * k /\ 2 * b - 1 = 2 * k + 1 /\ b - 1 = k /\ k \in 1 .. k
      BY <1>1, <2>1
    <3>2. more[2 * b - 2] = gap /\ more[2 * b - 1] = len /\ ends[b - 1] = lo[k] /\ ends[b] = low
      BY Zenon, <1>3, <1>4, <2>1, <3>1
    <3>3. lo[k] - gap - 2 - len = low
      BY <1>2 DEF gap, len
    <3> QED BY <3>2, <3>3
  <2>2. CASE b # k + 1
    <3>1. b \in 2 .. k /\ b \in 1 .. k /\ b - 1 \in 1 .. k
      BY <1>1, <2>2
    <3>2. 2 * b - 2 \in 1 .. 2 * k - 1 /\ 2 * b - 1 \in 1 .. 2 * k - 1
      BY <1>1, <3>1
    <3>3. lo[b] = lo[b - 1] - out[2 * b - 2] - 2 - out[2 * b - 1]
      BY <1>1, <3>1
    <3> QED BY <1>3, <1>4, <3>1, <3>2, <3>3
  <2> QED BY <2>1, <2>2
<1>7. IsLows(ends, k + 1, top, more)
  <2>1. k + 1 \in Nat \ {0} /\ 2 * (k + 1) - 1 = 2 * k + 1
    BY <1>1
  <2> QED BY <1>1, <1>3, <1>4, <1>5, <1>6, <2>1 DEF IsLows
<1>8. ASSUME NEW pn \in Int
      PROVE  Reach(ends, k + 1, more, pn) <=> Reach(lo, k, out, pn) \/ (low <= pn /\ pn <= hi)
  <2>1. \A b \in 1 .. k : ends[b] = lo[b] /\ more[2 * b - 1] = out[2 * b - 1]
    <3>1. \A b \in 1 .. k : 2 * b - 1 \in 1 .. 2 * k - 1
      BY <1>1
    <3> QED BY <1>3, <1>4, <3>1
  <2>2. 2 * (k + 1) - 1 = 2 * k + 1 /\ low + len = hi
    BY <1>1 DEF len
  <2>3. 1 .. k + 1 = 1 .. k \union {k + 1}
    BY <1>1
  <2> QED BY Zenon, <1>3, <1>4, <2>1, <2>2, <2>3 DEF Reach
<1>9. more = MoreOut(out, lo[k], hi, low) /\ ends = MoreEnds(lo, k, low)
  BY DEF more, ends, gap, len, MoreOut, MoreEnds
<1> QED BY <1>5, <1>7, <1>8, <1>9

-----------------------------------------------------------------------------
(***************************************************************************)
(* The scan that writes the ranges, from the largest number down.  When it *)
(* has come to number i, the numbers i .. m are one run, the open block,   *)
(* and what is written are the blocks above it.                            *)
(***************************************************************************)
Rising(pns, n) ==
  /\ n \in Nat \ {0} /\ pns \in [1 .. n -> Int]
  /\ \A i, j \in 1 .. n : i < j => pns[i] < pns[j]

Run(pns, i, m) == \A j \in i .. m : pns[j] = pns[m] - (m - j)

WrittenBy(out, pns, n, m, k, lo) ==
  /\ IsLows(lo, k, pns[n], out) /\ lo[k] = pns[m]
  /\ \A pn \in Int : Reach(lo, k, out, pn) <=> \E j \in m .. n : pns[j] = pn
  /\ out[1] \in Nat /\ \A d \in 0 .. out[1] : \E j \in m .. n : pns[j] = pns[n] - d
  /\ \A j \in 1 .. n : pns[j] # pns[n] - out[1] - 1
Written(out, pns, n, m) == \E k, lo : WrittenBy(out, pns, n, m, k, lo)

ScanState == [out : Seq(Int), hi : Int, prev_lo : Int, first : BOOLEAN, ok : BOOLEAN]

Opened(s, pns, n, i, m) ==
  /\ s.hi = pns[m] /\ Run(pns, i, m) /\ (s.first <=> m = n)
  /\ m # n => s.prev_lo = pns[m + 1] /\ Written(s.out, pns, n, m + 1)
  /\ m = n => s.out = <<>>

ScanOk(s, pns, n, i) ==
  s \in ScanState /\ (s.ok => \E m \in i .. n : Opened(s, pns, n, i, m))

\* A run of numbers is all the numbers between its ends.
LEMMA RunIsInterval ==
  ASSUME NEW pns, NEW n, Rising(pns, n), NEW i \in 1 .. n, NEW m \in i .. n, Run(pns, i, m)
  PROVE  /\ pns[i] <= pns[m]
         /\ \A pn \in Int : pns[i] <= pn /\ pn <= pns[m] <=> \E j \in i .. m : pns[j] = pn
<1>1. n \in Nat /\ i \in Int /\ m \in Int /\ i <= m /\ m \in 1 .. n
  BY DEF Rising
<1>2. pns[m] \in Int /\ pns[i] \in Int /\ pns[i] = pns[m] - (m - i)
  BY <1>1 DEF Rising, Run
<1>3. \A j \in i .. m : pns[j] = pns[m] - (m - j)
  BY DEF Run
<1> DEFINE top == pns[m]
<1>4. ASSUME NEW pn \in Int, pns[i] <= pn, pn <= top PROVE \E j \in i .. m : pns[j] = pn
  <2> DEFINE j == m - (top - pn)
  <2>1. top \in Int /\ top - (m - i) <= pn
    BY <1>2, <1>4
  <2> HIDE DEF top
  <2>2. j \in i .. m /\ top - (m - j) = pn
    BY <1>1, <1>4, <2>1
  <2> QED BY <1>3, <2>2 DEF top
<1>5. ASSUME NEW j \in i .. m PROVE pns[i] <= pns[j] /\ pns[j] <= pns[m]
  <2>1. pns[j] = pns[m] - (m - j) /\ j \in Int /\ i <= j /\ j <= m
    BY <1>1, <1>3
  <2> QED BY <1>1, <1>2, <2>1
<1> QED BY <1>1, <1>2, <1>4, <1>5

\* The number below a block is not there.
LEMMA BelowBlock ==
  ASSUME NEW pns, NEW n, Rising(pns, n), NEW i \in 1 .. n, i = 1 \/ pns[i] - pns[i - 1] # 1
  PROVE  \A j \in 1 .. n : pns[j] # pns[i] - 1
<1>1. n \in Nat /\ \A j \in 1 .. n : pns[j] \in Int
  BY DEF Rising
<1>2. \A a, b \in 1 .. n : a < b => pns[a] < pns[b]
  BY DEF Rising
<1> SUFFICES ASSUME NEW j \in 1 .. n, pns[j] = pns[i] - 1 PROVE FALSE
  OBVIOUS
<1>3. pns[i] \in Int /\ pns[j] \in Int
  BY <1>1
<1>4. CASE i <= j
  <2>1. i = j \/ i < j
    BY <1>1, <1>4
  <2>2. pns[i] <= pns[j]
    BY <1>2, <1>3, <2>1
  <2> QED BY <1>3, <2>2
<1>5. CASE ~(i <= j)
  <2>1. i - 1 \in 1 .. n /\ (j = i - 1 \/ j < i - 1) /\ i - 1 < i /\ i # 1
    BY <1>1, <1>5
  <2>2. pns[i - 1] \in Int /\ pns[i - 1] < pns[i] /\ pns[j] <= pns[i - 1]
    BY <1>1, <1>2, <1>3, <2>1
  <2>3. pns[i] - pns[i - 1] # 1
    BY <2>1
  <2> QED BY <1>3, <2>2, <2>3
<1> QED BY <1>4, <1>5

\* Closing the open block writes it, gap before length.
LEMMA EmitWrites ==
  ASSUME NEW pns, NEW n, Rising(pns, n), NEW i \in 1 .. n, i = 1 \/ pns[i] - pns[i - 1] # 1,
         NEW s, ScanOk(s, pns, n, i)
  PROVE  /\ EmitBlock(s, pns[i]) \in ScanState
         /\ EmitBlock(s, pns[i]).ok => Written(EmitBlock(s, pns[i]).out, pns, n, i)
<1> DEFINE low == pns[i]
           gap == s.prev_lo - s.hi - 2
           len == s.hi - low
           e == EmitBlock(s, low)
<1>1. s \in ScanState /\ s.out \in Seq(Int) /\ s.hi \in Int /\ s.prev_lo \in Int /\ low \in Int
  BY DEF ScanOk, ScanState, Rising
<1>2. gap \in Int /\ len \in Int
  BY <1>1
<1>3. \A u \in ScanState, v \in Int :
        /\ Push(u, v) \in ScanState
        /\ Push(u, v).ok => u.ok /\ Push(u, v).out = Append(u.out, v)
  <2> SUFFICES ASSUME NEW u \in ScanState, NEW v \in Int
               PROVE  /\ Push(u, v) \in ScanState
                      /\ Push(u, v).ok => u.ok /\ Push(u, v).out = Append(u.out, v)
    BY Zenon
  <2> DEFINE o == Append(u.out, v)
  <2>1. o \in Seq(Int)
    BY DEF ScanState
  <2> HIDE DEF o
  <2> QED BY Zenon, <2>1 DEF Push, ScanState, o
<1>4. e = Push(IF s.first THEN s ELSE Push(s, gap), len)
  BY DEF EmitBlock
<1>5. \A j \in 1 .. n : pns[j] # low - 1
  BY BelowBlock
<1> HIDE DEF gap, len, e
<1>6. e \in ScanState
  BY <1>1, <1>2, <1>3, <1>4
<1>7. ASSUME e.ok PROVE s.ok
  BY Zenon, <1>1, <1>2, <1>3, <1>4, <1>7
<1>8. ASSUME e.ok PROVE Written(e.out, pns, n, i)
  <2>1. PICK m \in i .. n : Opened(s, pns, n, i, m)
    BY <1>7, <1>8 DEF ScanOk
  <2>2. s.hi = pns[m] /\ Run(pns, i, m) /\ m \in 1 .. n /\ n \in Nat \ {0} /\ n \in 1 .. n /\ i <= m
    BY <2>1 DEF Opened, Rising
  <2>3. /\ low <= s.hi
        /\ \A pn \in Int : low <= pn /\ pn <= s.hi <=> \E j \in i .. m : pns[j] = pn
    BY <2>2, RunIsInterval
  <2>4. CASE m = n
    <3>1. s.first /\ s.out = <<>> /\ s.hi = pns[n]
      BY <2>1, <2>4 DEF Opened
    <3> DEFINE lo == [b \in 1 .. 1 |-> low]
               one == <<s.hi - low>>
    <3>2. e.out = one
      <4>1. e = Push(s, len)
        BY <1>4, <3>1
      <4>2. e.out = Append(s.out, len)
        BY Zenon, <1>1, <1>2, <1>3, <1>8, <4>1
      <4>3. Append(<<>>, len) = <<len>>
        OBVIOUS
      <4> QED BY <3>1, <4>2, <4>3 DEF len
    <3>3. IsLows(lo, 1, s.hi, one) /\ \A pn \in Int : Reach(lo, 1, one, pn) <=> low <= pn /\ pn <= s.hi
      BY Zenon, <1>1, FirstBlock
    <3>4. lo[1] = low /\ one[1] = s.hi - low /\ s.hi - low \in Nat
      BY <1>1, <2>3
    <3> HIDE DEF lo, one
    <3>5. \A pn \in Int : Reach(lo, 1, one, pn) <=> \E j \in i .. n : pns[j] = pn
      BY <2>3, <2>4, <3>3
    <3>6. \A d \in 0 .. one[1] : \E j \in i .. n : pns[j] = pns[n] - d
      <4> SUFFICES ASSUME NEW d \in 0 .. one[1] PROVE \E j \in i .. n : pns[j] = s.hi - d
        BY <3>1
      <4>1. s.hi - d \in Int /\ low <= s.hi - d /\ s.hi - d <= s.hi
        BY <1>1, <3>4
      <4> QED BY <2>3, <2>4, <4>1
    <3>7. \A j \in 1 .. n : pns[j] # pns[n] - one[1] - 1
      <4>1. pns[n] - one[1] - 1 = low - 1
        BY <1>1, <3>1, <3>4
      <4> QED BY <1>5, <4>1
    <3>8. WrittenBy(one, pns, n, i, 1, lo)
      BY <3>1, <3>3, <3>4, <3>5, <3>6, <3>7 DEF WrittenBy
    <3> QED BY <3>2, <3>8 DEF Written
  <2>5. CASE m # n
    <3>1. ~s.first /\ s.prev_lo = pns[m + 1] /\ Written(s.out, pns, n, m + 1)
      BY <2>1, <2>5 DEF Opened
    <3>2. PICK k, lo :
            /\ IsLows(lo, k, pns[n], s.out) /\ lo[k] = pns[m + 1]
            /\ \A pn \in Int : Reach(lo, k, s.out, pn) <=> \E j \in m + 1 .. n : pns[j] = pn
            /\ s.out[1] \in Nat /\ \A d \in 0 .. s.out[1] : \E j \in m + 1 .. n : pns[j] = pns[n] - d
            /\ \A j \in 1 .. n : pns[j] # pns[n] - s.out[1] - 1
      BY Zenon, <3>1 DEF Written, WrittenBy
    <3> DEFINE more == MoreOut(s.out, lo[k], s.hi, low)
               ends == MoreEnds(lo, k, low)
    <3>3. e.out = more
      <4>1. Push(s, gap) \in ScanState /\ e = Push(Push(s, gap), len)
        BY <1>1, <1>2, <1>3, <1>4, <3>1
      <4>2. e.out = Append(Push(s, gap).out, len) /\ Push(s, gap).ok
        BY Zenon, <1>2, <1>3, <1>8, <4>1
      <4>3. Push(s, gap).out = Append(s.out, gap)
        BY Zenon, <1>1, <1>2, <1>3, <4>2
      <4> QED BY <3>1, <3>2, <4>2, <4>3 DEF gap, len, MoreOut
    <3>4. /\ IsLows(ends, k + 1, pns[n], more) /\ more[1] = s.out[1]
          /\ \A pn \in Int : Reach(ends, k + 1, more, pn) <=>
                               Reach(lo, k, s.out, pn) \/ (low <= pn /\ pn <= s.hi)
      <4> DEFINE hi == s.hi
                 top == pns[n]
                 old == s.out
      <4>1. IsLows(lo, k, top, old) /\ hi \in Int /\ low \in Int
        BY <1>1, <3>2
      <4> HIDE DEF low, hi, top, old
      <4>2. /\ IsLows(MoreEnds(lo, k, low), k + 1, top, MoreOut(old, lo[k], hi, low))
            /\ MoreOut(old, lo[k], hi, low)[1] = old[1]
            /\ \A pn \in Int : Reach(MoreEnds(lo, k, low), k + 1, MoreOut(old, lo[k], hi, low), pn) <=>
                                 Reach(lo, k, old, pn) \/ (low <= pn /\ pn <= hi)
        BY Zenon, <4>1, NextBlock
      <4> QED BY <4>2 DEF hi, top, old
    <3>5. ends[k + 1] = low
      BY <3>2, SMTT(20) DEF IsLows, MoreEnds
    <3> HIDE DEF more, ends
    <3>6. i .. n = i .. m \union m + 1 .. n
      BY <2>2
    <3>7. \A pn \in Int : Reach(ends, k + 1, more, pn) <=> \E j \in i .. n : pns[j] = pn
      BY <2>3, <3>2, <3>4, <3>6
    <3>8. more[1] \in Nat /\ \A d \in 0 .. more[1] : \E j \in i .. n : pns[j] = pns[n] - d
      BY <3>2, <3>4, <3>6
    <3>9. \A j \in 1 .. n : pns[j] # pns[n] - more[1] - 1
      BY <3>2, <3>4
    <3>10. WrittenBy(more, pns, n, i, k + 1, ends)
      BY <3>4, <3>5, <3>7, <3>8, <3>9 DEF WrittenBy
    <3> QED BY <3>3, <3>10 DEF Written
  <2> QED BY <2>4, <2>5
<1> QED BY <1>6, <1>8 DEF e

Scanned(s, pns, i) == IF pns[i + 1] - pns[i] = 1 THEN s ELSE CloseBlock(s, pns[i + 1], pns[i])

\* One step down: the run goes on, or the block is closed and the next opened.
LEMMA ScanStep ==
  ASSUME NEW pns, NEW n, Rising(pns, n), NEW i \in 2 .. n, NEW s, ScanOk(s, pns, n, i)
  PROVE  ScanOk(Scanned(s, pns, i - 1), pns, n, i - 1)
<1> DEFINE h == i - 1
           u == Scanned(s, pns, h)
<1>1. /\ n \in Nat \ {0} /\ i \in 1 .. n /\ h \in 1 .. n /\ h + 1 = i /\ h < i /\ h # n
      /\ pns[i] \in Int /\ pns[h] \in Int
  BY DEF Rising
<1>2. CASE pns[i] - pns[h] = 1
  <2>1. u = s
    BY <1>1, <1>2 DEF Scanned
  <2>2. ASSUME NEW m \in i .. n, Opened(s, pns, n, i, m) PROVE m \in h .. n /\ Opened(s, pns, n, h, m)
    <3>1. Run(pns, i, m) /\ m \in h .. n /\ m \in 1 .. n /\ m \in Int /\ pns[m] \in Int
      BY <1>1, <2>2 DEF Opened, Rising
    <3>2. pns[i] = pns[m] - (m - i)
      BY <1>1, <2>2, <3>1 DEF Run
    <3>3. pns[h] = pns[m] - (m - h)
      BY <1>1, <1>2, <3>1, <3>2
    <3>4. h .. m = {h} \union i .. m
      BY <1>1, <3>1
    <3>5. Run(pns, h, m)
      BY <3>1, <3>3, <3>4 DEF Run
    <3> QED BY <2>2, <3>1, <3>5 DEF Opened
  <2> HIDE DEF h
  <2> QED BY <2>1, <2>2 DEF ScanOk, h
<1>3. CASE pns[i] - pns[h] # 1
  <2> DEFINE e == EmitBlock(s, pns[i])
  <2>1. e \in ScanState /\ (e.ok => Written(e.out, pns, n, i))
    BY <1>1, <1>3, EmitWrites
  <2>2. u = [e EXCEPT !.prev_lo = pns[i], !.hi = pns[h], !.first = FALSE]
    BY Zenon, <1>1, <1>3 DEF Scanned, CloseBlock
  <2> HIDE DEF e, u
  <2>3. /\ u \in ScanState /\ u.ok = e.ok /\ u.out = e.out /\ u.prev_lo = pns[i]
        /\ u.hi = pns[h] /\ u.first = FALSE
    BY Zenon, <1>1, <2>1, <2>2 DEF ScanState
  <2>4. Run(pns, h, h)
    <3>1. h .. h = {h} /\ pns[h] = pns[h] - (h - h)
      BY <1>1
    <3> HIDE DEF h
    <3> QED BY <3>1 DEF Run
  <2>5. u.ok => Opened(u, pns, n, h, h)
    <3> HIDE DEF h
    <3> QED BY <1>1, <2>1, <2>3, <2>4 DEF Opened
  <2>6. h \in h .. n
    BY <1>1
  <2> HIDE DEF h
  <2> QED BY <2>3, <2>5, <2>6 DEF ScanOk, u, h
<1> QED BY <1>2, <1>3

\* What quic_ackrange_build writes, when it fits, is all the numbers.
LEMMA BuildWrites ==
  ASSUME NEW pns, Rising(pns, Len(pns)), BuildRanges(pns) # NoRanges
  PROVE  Written(BuildRanges(pns), pns, Len(pns), 1)
<1> DEFINE n == Len(pns)
           start == [out |-> <<>>, hi |-> pns[n], prev_lo |-> 0, first |-> TRUE, ok |-> TRUE]
           Body(f, i) == IF i = n THEN start
                         ELSE IF pns[i + 1] - pns[i] = 1 THEN f[i + 1]
                         ELSE CloseBlock(f[i + 1], pns[i + 1], pns[i])
           at == CHOOSE f : f = [i \in 1 .. n |-> Body(f, i)]
           step == [j \in 1 .. n - 1 |-> [s \in ScanState |-> Scanned(s, pns, n - j)]]
           end == EmitBlock(at[1], pns[1])
<1>1. BuildRanges(pns) = IF n = 0 \/ ~end.ok THEN <<>> ELSE end.out
  BY DEF BuildRanges, NoRanges
<1>2. Rising(pns, n)
  OBVIOUS
<1> HIDE DEF n
<1>3. n \in Nat \ {0} /\ n \in 1 .. n /\ 1 \in 1 .. n /\ n - 1 \in Nat /\ pns \in [1 .. n -> Int] /\ pns[n] \in Int
  <2>1. n \in Nat \ {0} /\ pns \in [1 .. n -> Int]
    BY <1>2, Zenon DEF Rising
  <2> QED BY <2>1
<1>4. start \in ScanState /\ <<>> \in Seq(Int)
  BY <1>3 DEF ScanState
<1>5. ScanOk(start, pns, n, n)
  <2>1. start.hi = pns[n] /\ start.first = TRUE /\ start.out = <<>>
    OBVIOUS
  <2>2. n .. n = {n} /\ pns[n] = pns[n] - (n - n)
    BY <1>3
  <2> HIDE DEF start
  <2>3. Run(pns, n, n)
    BY <2>2 DEF Run
  <2>4. Opened(start, pns, n, n, n)
    BY <2>1, <2>3 DEF Opened
  <2> QED BY <1>4, <2>2, <2>4 DEF ScanOk
<1> HIDE DEF start
<1>6. ASSUME NEW s \in ScanState, NEW i \in 1 .. n - 1 PROVE Scanned(s, pns, i) \in ScanState
  <2>1. i \in 1 .. n /\ i + 1 \in 1 .. n /\ pns[i] \in Int /\ pns[i + 1] \in Int
    BY <1>3
  <2>2. \A u \in ScanState, v \in Int : Push(u, v) \in ScanState
    <3> SUFFICES ASSUME NEW u \in ScanState, NEW v \in Int PROVE Push(u, v) \in ScanState
      OBVIOUS
    <3>1. Append(u.out, v) \in Seq(Int)
      BY DEF ScanState
    <3> QED BY Zenon, <3>1 DEF Push, ScanState
  <2> DEFINE gap == s.prev_lo - s.hi - 2
             len == s.hi - pns[i + 1]
             e == EmitBlock(s, pns[i + 1])
  <2>3. gap \in Int /\ len \in Int
    BY <2>1 DEF ScanState
  <2>4. e = Push(IF s.first THEN s ELSE Push(s, gap), len)
    BY DEF EmitBlock
  <2> HIDE DEF gap, len, e
  <2>5. e \in ScanState
    BY <2>2, <2>3, <2>4
  <2>6. CloseBlock(s, pns[i + 1], pns[i]) \in ScanState
    <3>1. CloseBlock(s, pns[i + 1], pns[i]) = [e EXCEPT !.prev_lo = pns[i + 1], !.hi = pns[i], !.first = FALSE]
      BY DEF CloseBlock, e
    <3> QED BY Zenon, <2>1, <2>5, <3>1 DEF ScanState
  <2> QED BY <2>6 DEF Scanned
<1>7. step \in [1 .. n - 1 -> [ScanState -> ScanState]]
  <2>1. \A j \in 1 .. n - 1 : n - j \in 1 .. n - 1
    BY <1>3
  <2> QED BY <1>6, <2>1
<1>8. PICK f : IsWalk(f, n - 1, ScanState, start, step)
  <2> HIDE DEF step
  <2> QED BY <1>3, <1>4, <1>7, WalkExists
<1> DEFINE g == [i \in 1 .. n |-> f[n - i]]
<1>9. \A i \in 1 .. n : g[i] = Body(g, i)
  <2> SUFFICES ASSUME NEW i \in 1 .. n PROVE g[i] = Body(g, i)
    OBVIOUS
  <2>1. n - i \in 0 .. n - 1 /\ g[i] = f[n - i]
    BY <1>3
  <2>2. CASE i = n
    <3>1. n - i = 0 /\ 0 \in 0 .. n - 1
      BY <1>3, <2>2
    <3>2. f[0] = start
      <4> HIDE DEF step
      <4> QED BY <1>8, <3>1 DEF IsWalk
    <3> QED BY <2>1, <2>2, <3>1, <3>2
  <2>3. CASE i # n
    <3> DEFINE j == n - i
    <3>1. j \in 1 .. n - 1 /\ j - 1 \in 0 .. n - 1 /\ n - j = i /\ i + 1 \in 1 .. n /\ n - (i + 1) = j - 1 /\ j # 0
      BY <1>3, <2>3
    <3> HIDE DEF j
    <3>2. f[j] = step[j][f[j - 1]] /\ f[j - 1] \in ScanState
      <4> HIDE DEF step
      <4>1. j \in 0 .. n - 1
        BY <1>3, <3>1
      <4> QED BY <1>8, <3>1, <4>1 DEF IsWalk
    <3>3. f[j] = Scanned(f[j - 1], pns, i)
      BY <3>1, <3>2
    <3>4. g[i + 1] = f[j - 1] /\ g[i] = f[j]
      BY <2>1, <3>1 DEF j
    <3> HIDE DEF g
    <3> QED BY <2>3, <3>3, <3>4 DEF Scanned
  <2> QED BY <2>2, <2>3
<1>10. g = [i \in 1 .. n |-> Body(g, i)]
  BY <1>9
<1>11. at = [i \in 1 .. n |-> Body(at, i)]
  <2> HIDE DEF g
  <2> QED BY Zenon, <1>10
<1> HIDE DEF at
<1> DEFINE S == {j \in 0 .. n - 1 : ScanOk(at[n - j], pns, n, n - j)}
<1>12. 0 \in S
  <2>1. at[n] = start /\ n - 0 = n
    BY <1>3, <1>11
  <2> QED BY <1>3, <1>5, <2>1
<1>13. ASSUME NEW j \in 1 .. n - 1, j - 1 \in S PROVE j \in S
  <2> DEFINE i == n - (j - 1)
  <2>1. i \in 2 .. n /\ i - 1 = n - j /\ i - 1 \in 1 .. n /\ i - 1 # n /\ i - 1 + 1 = i /\ j \in 0 .. n - 1
    BY <1>3
  <2>2. ScanOk(at[i], pns, n, i)
    BY <1>13
  <2> HIDE DEF i
  <2>3. ScanOk(Scanned(at[i], pns, i - 1), pns, n, i - 1)
    BY <1>2, <2>1, <2>2, ScanStep
  <2>4. at[i - 1] = Scanned(at[i], pns, i - 1)
    BY <1>11, <2>1 DEF Scanned
  <2> QED BY <2>1, <2>3, <2>4
<1>14. 0 .. n - 1 \subseteq S
  <2> HIDE DEF S
  <2> QED BY Zenon, <1>3, <1>12, <1>13, UpToInduction
<1>15. ScanOk(at[1], pns, n, 1)
  <2>1. n - 1 \in 0 .. n - 1 /\ n - (n - 1) = 1
    BY <1>3
  <2> QED BY <1>14, <2>1
<1>16. end.ok => Written(end.out, pns, n, 1)
  BY <1>3, <1>15, <1>2, EmitWrites
<1> HIDE DEF end
<1> QED BY Zenon, <1>3, <1>1, <1>16 DEF NoRanges, n

-----------------------------------------------------------------------------
(***************************************************************************)
(* The window of received numbers and the ranges built from it.            *)
(***************************************************************************)
\* Ascending lists a finite set of numbers, the greatest last.
LEMMA AscendingRises ==
  ASSUME NEW S \in SUBSET Int, IsFiniteSet(S), S # {}
  PROVE  /\ Rising(Ascending(S), Len(Ascending(S)))
         /\ \A x : x \in S <=> \E j \in 1 .. Len(Ascending(S)) : Ascending(S)[j] = x
         /\ \A x \in S : x <= Ascending(S)[Len(Ascending(S))]
<1> DEFINE key == [p \in S |-> p]
           n == Cardinality(S)
           rank(p) == Cardinality({q \in S : q <= p})
           pns == [i \in 1 .. n |-> CHOOSE p \in S : rank(p) = i]
<1>1. Ascending(S) = pns
  BY DEF Ascending
<1>2. n \in Nat \ {0}
  <2>1. n \in Nat /\ n # 0
    BY FS_CardinalityType, FS_EmptySet, Zenon
  <2> QED BY <2>1
<1>3. key \in [S -> Int] /\ \A x, y \in S : key[x] = key[y] => x = y
  OBVIOUS
<1>4. \A p \in S : rank(p) = Place(S, key, p)
  <2> SUFFICES ASSUME NEW p \in S PROVE rank(p) = Place(S, key, p)
    OBVIOUS
  <2>1. {q \in S : q <= p} = {q \in S : key[q] <= key[p]}
    OBVIOUS
  <2> QED BY Zenon, <2>1 DEF Place
<1>5. /\ \A x \in S : Place(S, key, x) \in 1 .. n
      /\ \A i \in 1 .. n : \E x \in S : Place(S, key, x) = i
      /\ \A x, y \in S : Place(S, key, x) = Place(S, key, y) => x = y
      /\ \A x, y \in S : Place(S, key, x) < Place(S, key, y) => key[x] < key[y]
  <2> HIDE DEF key
  <2> QED BY Zenon, <1>3, Places
<1>6. /\ \A x \in S : rank(x) \in 1 .. n
      /\ \A i \in 1 .. n : \E x \in S : rank(x) = i
      /\ \A x, y \in S : rank(x) = rank(y) => x = y
      /\ \A x, y \in S : rank(x) < rank(y) => x < y
  <2> HIDE DEF rank
  <2>1. \A x \in S : key[x] = x
    OBVIOUS
  <2> HIDE DEF key
  <2> QED BY <1>4, <1>5, <2>1
<1> HIDE DEF rank, n
<1>7. \A i \in 1 .. n : pns[i] \in S /\ rank(pns[i]) = i
  BY <1>6
<1>8. pns \in [1 .. n -> Int] /\ Len(pns) = n
  <2>1. pns \in [1 .. n -> Int]
    BY Zenon, <1>7
  <2> HIDE DEF pns
  <2> QED BY <1>2, <2>1
<1>9. \A i, j \in 1 .. n : i < j => pns[i] < pns[j]
  <2> SUFFICES ASSUME NEW i \in 1 .. n, NEW j \in 1 .. n, i < j PROVE pns[i] < pns[j]
    OBVIOUS
  <2>1. pns[i] \in S /\ pns[j] \in S /\ rank(pns[i]) = i /\ rank(pns[j]) = j
    BY <1>7, Zenon
  <2> DEFINE x == pns[i]
             y == pns[j]
  <2>2. x \in S /\ y \in S /\ rank(x) < rank(y)
    BY <2>1
  <2> HIDE DEF x, y
  <2>3. x < y
    BY <1>6, <2>2
  <2> QED BY <2>3 DEF x, y
<1>10. \A x : x \in S <=> \E j \in 1 .. n : pns[j] = x
  <2>1. ASSUME NEW x \in S PROVE \E j \in 1 .. n : pns[j] = x
    <3> DEFINE j == rank(x)
    <3>1. j \in 1 .. n
      BY <1>6
    <3>2. pns[j] \in S /\ rank(pns[j]) = rank(x)
      BY <1>7, <3>1, Zenon
    <3> HIDE DEF pns
    <3>3. pns[j] = x
      BY Zenon, <1>6, <3>2
    <3> QED BY <3>1, <3>3
  <2> HIDE DEF pns
  <2> QED BY Zenon, <1>7, <2>1
<1>11. \A x \in S : x <= pns[n]
  <2> SUFFICES ASSUME NEW x \in S PROVE x <= pns[n]
    OBVIOUS
  <2> HIDE DEF pns
  <2>1. PICK j \in 1 .. n : pns[j] = x
    BY <1>10
  <2>2. n \in 1 .. n /\ (j = n \/ j < n)
    BY <1>2
  <2>3. pns[j] \in Int /\ pns[n] \in Int
    BY <1>8, <2>2
  <2> QED BY <1>9, <2>1, <2>2, <2>3
<1> HIDE DEF pns
<1> QED BY <1>1, <1>2, <1>8, <1>9, <1>10, <1>11 DEF Rising

\* The ranges of a window cover what it has seen; the first of them is the run
\* of numbers just below the largest.
LEMMA RangesAreSeen ==
  ASSUME NEW r \in RecvPn, r.any, AckRanges(r) # NoRanges
  PROVE  /\ \A pn \in Int : Covered(pn, AckBlocks(r.largest, AckRanges(r))) <=>
                              pn \in 0 .. r.largest /\ Seen(r, pn)
         /\ AckRanges(r)[1] \in Nat
         /\ \A d \in 0 .. AckRanges(r)[1] : d <= r.largest /\ Seen(r, r.largest - d)
         /\ ~(AckRanges(r)[1] + 1 <= r.largest /\ Seen(r, r.largest - AckRanges(r)[1] - 1))
<1> DEFINE top == r.largest
           S == {top} \union {top - d : d \in {e \in 1 .. Window : e <= top /\ Seen(r, top - e)}}
           pns == CollectPns(r)
           n == Len(pns)
           out == AckRanges(r)
<1>1. top \in Nat /\ r.bitmap \in SUBSET (1 .. Window) /\ Window \in Nat
  BY WindowAssumption DEF RecvPn
<1>2. pns = Ascending(S) /\ out = BuildRanges(pns)
  BY DEF CollectPns, AckRanges
<1>3. \A x \in Int : x \in S <=> x \in 0 .. top /\ Seen(r, x)
  <2> SUFFICES ASSUME NEW x \in Int PROVE x \in S <=> x \in 0 .. top /\ Seen(r, x)
    OBVIOUS
  <2>1. x \in S <=> x = top \/ \E d \in 1 .. Window : d <= top /\ Seen(r, top - d) /\ x = top - d
    OBVIOUS
  <2>2. Seen(r, top)
    BY DEF Seen
  <2>3. ASSUME x \in 0 .. top, Seen(r, x), x # top
        PROVE  top - x \in 1 .. Window /\ top - x <= top /\ top - (top - x) = x
    <3>1. top - x \in r.bitmap
      BY <2>3 DEF Seen
    <3> HIDE DEF top
    <3> QED BY <1>1, <2>3, <3>1
  <2>4. ASSUME NEW d \in 1 .. Window, d <= top PROVE top - d \in 0 .. top
    BY <1>1, <2>4
  <2>5. top \in 0 .. top
    BY <1>1
  <2> HIDE DEF S, top
  <2>6. ASSUME x \in S PROVE x \in 0 .. top /\ Seen(r, x)
    BY <2>1, <2>2, <2>4, <2>5, <2>6
  <2>7. ASSUME x \in 0 .. top, Seen(r, x) PROVE x \in S
    <3>1. CASE x = top
      BY <2>1, <3>1
    <3>2. CASE x # top
      <4> DEFINE d == top - x
      <4>1. d \in 1 .. Window /\ d <= top /\ top - d = x
        BY <2>3, <2>7, <3>2
      <4> HIDE DEF d
      <4> QED BY <2>1, <2>7, <4>1
    <3> QED BY <3>1, <3>2
  <2> QED BY <2>6, <2>7
<1>4. S \in SUBSET Int /\ S \in SUBSET (0 .. top) /\ top \in S
  <2>1. \A e \in 1 .. Window : e <= top => top - e \in Int /\ top - e \in 0 .. top
    BY <1>1
  <2>2. top \in Int /\ top \in 0 .. top
    BY <1>1
  <2> HIDE DEF top
  <2> QED BY <2>1, <2>2
<1>5. IsFiniteSet(S)
  <2>1. IsFiniteSet(0 .. top)
    <3>1. 0 \in Int /\ top \in Int
      BY <1>1
    <3> QED BY <3>1, FS_Interval, Zenon
  <2> HIDE DEF S, top
  <2> QED BY Zenon, <1>4, <2>1, FS_Subset
<1> HIDE DEF S, top
<1>6. /\ Rising(pns, n) /\ \A x : x \in S <=> \E j \in 1 .. n : pns[j] = x
      /\ \A x \in S : x <= pns[n]
  <2>1. S # {}
    BY <1>4
  <2> QED BY <1>2, <1>4, <1>5, <2>1, AscendingRises
<1> HIDE DEF pns
<1>7. Written(out, pns, n, 1)
  BY <1>2, <1>6, BuildWrites
<1> HIDE DEF n, out
<1>8. pns[n] = top
  <2>1. n \in Nat \ {0} /\ n \in 1 .. n /\ pns[n] \in Int
    BY <1>6 DEF Rising
  <2>2. pns[n] \in S /\ top <= pns[n]
    BY <1>4, <1>6, <2>1
  <2>3. pns[n] \in 0 .. top
    BY Zenon, <1>4, <2>2
  <2> QED BY <1>1, <2>1, <2>2, <2>3
<1>9. PICK k, lo :
        /\ IsLows(lo, k, pns[n], out)
        /\ \A pn \in Int : Reach(lo, k, out, pn) <=> \E j \in 1 .. n : pns[j] = pn
        /\ out[1] \in Nat /\ \A d \in 0 .. out[1] : \E j \in 1 .. n : pns[j] = pns[n] - d
        /\ \A j \in 1 .. n : pns[j] # pns[n] - out[1] - 1
  BY <1>7 DEF Written, WrittenBy
<1>10. IsLows(lo, k, top, out) /\ out[1] \in Nat /\ \A d \in 0 .. out[1] : top - d \in S
  BY <1>6, <1>8, <1>9
<1>11. top - out[1] - 1 \notin S
  BY <1>6, <1>8, <1>9
<1>12. \A pn \in Int : Reach(lo, k, out, pn) <=> pn \in S
  BY <1>6, <1>9
<1>13. \A pn : Covered(pn, AckBlocks(top, out)) <=> Reach(lo, k, out, pn)
  BY <1>10, BlocksAre
<1>14. \A pn \in Int : Covered(pn, AckBlocks(top, out)) <=> pn \in 0 .. top /\ Seen(r, pn)
  BY <1>3, <1>12, <1>13
<1>15. ASSUME NEW d \in 0 .. out[1] PROVE d <= top /\ Seen(r, top - d)
  <2>1. d \in Int /\ top - d \in S /\ top - d \in Int
    BY <1>1, <1>10
  <2>2. top - d \in 0 .. top /\ Seen(r, top - d)
    BY <1>3, <2>1
  <2> QED BY <1>1, <2>1, <2>2
<1>16. ASSUME out[1] + 1 <= top, Seen(r, top - out[1] - 1) PROVE FALSE
  <2>1. top - out[1] - 1 \in Int /\ top - out[1] - 1 \in 0 .. top
    BY <1>1, <1>10, <1>16
  <2> QED BY <1>3, <1>11, <1>16, <2>1
<1> QED BY <1>10, <1>14, <1>15, <1>16 DEF top, out

\* A window that holds what arrived, as far down as it reaches.
Mirrors(r, A) ==
  /\ r \in RecvPn
  /\ r.any =>
       /\ r.largest \in A /\ \A a \in A : a <= r.largest
       /\ \A d \in 1 .. Window : d \in r.bitmap <=> d <= r.largest /\ r.largest - d \in A
  /\ ~r.any => A = {} /\ r.largest = 0 /\ r.bitmap = {}

\* quic_recvpn_record keeps it so.
LEMMA RecordMirrors ==
  ASSUME NEW r, NEW A \in SUBSET Nat, Mirrors(r, A), NEW pn \in Nat
  PROVE  Mirrors(Record(r, pn), A \union {pn})
<1> DEFINE top == r.largest
           B == A \union {pn}
           u == Record(r, pn)
<1>1. r \in RecvPn /\ top \in Nat /\ r.bitmap \in SUBSET (1 .. Window) /\ Window \in Nat /\ r.any \in BOOLEAN
  BY WindowAssumption DEF Mirrors, RecvPn
<1>2. CASE ~r.any
  <2>1. u = [r EXCEPT !.any = TRUE, !.largest = pn] /\ B = {pn} /\ r.bitmap = {}
    BY <1>2 DEF Record, Mirrors
  <2> HIDE DEF u, B
  <2>2. u \in RecvPn /\ u.any = TRUE /\ u.largest = pn /\ u.bitmap = {}
    BY Zenon, <1>1, <2>1 DEF RecvPn
  <2>3. \A d \in 1 .. Window : pn - d # pn
    BY <1>1
  <2> QED BY <2>1, <2>2, <2>3 DEF Mirrors, u, B
<1>3. CASE r.any /\ pn > top
  <2> DEFINE d == pn - top
             bits == ({b + d : b \in r.bitmap} \union {d}) \intersect (1 .. Window)
  <2>1. u = [r EXCEPT !.largest = pn, !.bitmap = bits]
    BY <1>3 DEF Record, Advance
  <2>2. d \in Nat \ {0} /\ bits \in SUBSET (1 .. Window) /\ pn - d = top
    BY <1>1, <1>3
  <2>3. \A e \in 1 .. Window : e \in bits <=> e = d \/ \E b \in r.bitmap : e = b + d
    OBVIOUS
  <2> HIDE DEF u, d, bits
  <2>4. u \in RecvPn /\ u.any = TRUE /\ u.largest = pn /\ u.bitmap = bits
    BY Zenon, <1>1, <1>3, <2>1, <2>2 DEF RecvPn
  <2>5. /\ top \in A /\ \A a \in A : a \in Nat /\ a <= top
        /\ \A e \in 1 .. Window : e \in r.bitmap <=> e <= top /\ top - e \in A
    BY <1>3 DEF Mirrors
  <2>6. pn \in B /\ \A a \in B : a <= pn
    BY <1>1, <1>3, <2>5
  <2>7. ASSUME NEW e \in 1 .. Window PROVE e \in bits <=> e <= pn /\ pn - e \in B
    <3>1. e \in Int /\ d \in Int /\ e > 0 /\ d > 0 /\ top = pn - d /\ top \in Int
      BY <1>1, <2>2
    <3>2. CASE e = d
      BY <1>1, <1>3, <2>2, <2>3, <2>5, <3>1, <3>2
    <3>3. CASE e < d
      <4>1. ~\E b \in r.bitmap : e = b + d
        BY <1>1, <3>1, <3>3
      <4>2. pn - e > top /\ pn - e # pn
        BY <3>1, <3>3
      <4>3. pn - e \notin B
        BY <1>1, <2>5, <4>2
      <4> QED BY <2>3, <3>1, <3>3, <4>1, <4>3
    <3>4. CASE e > d
      <4> DEFINE b == e - d
      <4>1. b \in 1 .. Window /\ e = b + d /\ pn - e = top - b /\ pn - e # pn /\ (b <= top <=> e <= pn)
        BY <1>1, <3>1, <3>4
      <4>2. e \in bits <=> b \in r.bitmap
        <5>1. \A c \in r.bitmap : e = c + d => c = b
          BY <1>1, <3>1
        <5> HIDE DEF b
        <5> QED BY <2>3, <3>1, <3>4, <4>1, <5>1
      <4> HIDE DEF b
      <4>3. b \in r.bitmap <=> b <= top /\ top - b \in A
        BY <2>5, <4>1
      <4> QED BY <4>1, <4>2, <4>3
    <3> QED BY <3>1, <3>2, <3>3, <3>4
  <2> HIDE DEF B
  <2> QED BY <2>4, <2>6, <2>7 DEF Mirrors, u, B
<1>4. CASE r.any /\ ~(pn > top)
  <2> DEFINE d == top - pn
             bits == r.bitmap \union ({d} \intersect (1 .. Window))
  <2>1. u = [r EXCEPT !.bitmap = bits]
    BY <1>4 DEF Record, MarkBelow
  <2>2. d \in Nat /\ bits \in SUBSET (1 .. Window) /\ top - d = pn /\ pn <= top
    BY <1>1, <1>4
  <2>3. \A e \in 1 .. Window : e \in bits <=> e = d \/ e \in r.bitmap
    OBVIOUS
  <2> HIDE DEF u, d, bits
  <2>4. u \in RecvPn /\ u.any = TRUE /\ u.largest = top /\ u.bitmap = bits
    BY <1>1, <1>4, <2>1, <2>2 DEF RecvPn
  <2>5. /\ top \in A /\ \A a \in A : a \in Nat /\ a <= top
        /\ \A e \in 1 .. Window : e \in r.bitmap <=> e <= top /\ top - e \in A
    BY <1>4 DEF Mirrors
  <2>6. top \in B /\ \A a \in B : a <= top
    BY <1>1, <2>2, <2>5
  <2>7. ASSUME NEW e \in 1 .. Window PROVE e \in bits <=> e <= top /\ top - e \in B
    <3>1. e \in Int /\ (e = d <=> top - e = pn) /\ d <= top
      BY <1>1, <2>2
    <3> QED BY <2>3, <2>5, <3>1
  <2> HIDE DEF B, top
  <2> QED BY <2>4, <2>6, <2>7 DEF Mirrors, u, B
<1> QED BY <1>1, <1>2, <1>3, <1>4

\* What a window that mirrors A says of it.
LEMMA MirrorsSeen ==
  ASSUME NEW r, NEW A \in SUBSET Nat, Mirrors(r, A)
  PROVE  /\ r \in RecvPn
         /\ \A pn \in 0 .. r.largest : Seen(r, pn) <=> pn \in A /\ r.largest - pn <= Window
         /\ AckRanges(r) # NoRanges =>
              /\ r.any
              /\ \A pn \in Int : Covered(pn, AckBlocks(r.largest, AckRanges(r))) => pn \in A
              /\ AckRanges(r)[1] = FirstRange(r)
<1> DEFINE top == r.largest
<1>1. r \in RecvPn /\ top \in Nat /\ r.bitmap \in SUBSET (1 .. Window) /\ Window \in Nat \ {0} /\ r.any \in BOOLEAN
  BY WindowAssumption DEF Mirrors, RecvPn
<1>2. r.any => /\ top \in A /\ \A a \in A : a \in Nat /\ a <= top
               /\ \A d \in 1 .. Window : d \in r.bitmap <=> d <= top /\ top - d \in A
  BY DEF Mirrors
<1>3. ~r.any => A = {}
  BY DEF Mirrors
<1>4. ASSUME NEW pn \in 0 .. top PROVE Seen(r, pn) <=> pn \in A /\ top - pn <= Window
  <2>1. CASE ~r.any
    BY <1>3, <2>1 DEF Seen
  <2>2. CASE r.any /\ pn = top
    <3>1. Seen(r, pn) /\ top - pn <= Window
      BY <1>1, <2>2 DEF Seen
    <3> QED BY <1>2, <2>2, <3>1
  <2>3. CASE r.any /\ pn # top
    <3> DEFINE d == top - pn
    <3>1. d \in Nat \ {0} /\ d <= top /\ top - d = pn /\ pn < top
      BY <1>1, <2>3
    <3>2. Seen(r, pn) <=> d \in r.bitmap
      BY <2>3, <3>1 DEF Seen
    <3> HIDE DEF d
    <3>3. d \in 1 .. Window <=> d <= Window
      BY <1>1, <3>1
    <3>4. d \in r.bitmap <=> d <= Window /\ pn \in A
      BY <1>1, <1>2, <2>3, <3>1, <3>3
    <3> QED BY <3>2, <3>4 DEF d
  <2> QED BY <1>1, <2>1, <2>2, <2>3
<1>5. ASSUME AckRanges(r) # NoRanges
      PROVE  /\ r.any
             /\ \A pn \in Int : Covered(pn, AckBlocks(r.largest, AckRanges(r))) => pn \in A
             /\ AckRanges(r)[1] = FirstRange(r)
  <2> DEFINE out == AckRanges(r)
             f == out[1]
             Fits(n) == 1 .. n \subseteq r.bitmap /\ (n = Window \/ n + 1 \notin r.bitmap)
  <2>1. r.any
    BY <1>1, <1>5 DEF AckRanges
  <2>2. /\ \A pn \in Int : Covered(pn, AckBlocks(top, out)) <=> pn \in 0 .. top /\ Seen(r, pn)
        /\ f \in Nat /\ \A d \in 0 .. f : d <= top /\ Seen(r, top - d)
        /\ ~(f + 1 <= top /\ Seen(r, top - f - 1))
    BY <1>1, <1>5, <2>1, RangesAreSeen
  <2> HIDE DEF out, f
  <2>3. \A pn \in Int : Covered(pn, AckBlocks(top, out)) => pn \in A
    BY <1>4, <2>2
  <2>4. ASSUME NEW d \in 1 .. f PROVE d \in r.bitmap
    <3>1. d \in 0 .. f /\ d \in Int /\ d > 0
      BY <2>2
    <3>2. d <= top /\ Seen(r, top - d)
      BY <2>2, <3>1
    <3>3. top - d # top /\ top - (top - d) = d
      BY <1>1, <3>1
    <3> HIDE DEF top
    <3> QED BY <3>2, <3>3 DEF Seen, top
  <2>5. f \in 0 .. Window
    <3>1. CASE f = 0
      BY <1>1, <3>1
    <3>2. CASE f # 0
      <4>1. f \in 1 .. f
        BY <2>2, <3>2
      <4> QED BY <1>1, <2>4, <4>1
    <3> QED BY <3>1, <3>2
  <2>6. f = Window \/ f + 1 \notin r.bitmap
    <3> SUFFICES ASSUME f # Window, f + 1 \in r.bitmap PROVE FALSE
      OBVIOUS
    <3>1. f + 1 \in 1 .. Window /\ top - f - 1 = top - (f + 1) /\ top - (f + 1) # top
      BY <1>1, <2>2, <2>5, SMTT(20)
    <3>2. f + 1 <= top /\ top - (f + 1) \in A
      BY <1>2, <2>1, <3>1
    <3>3. top - (top - (f + 1)) = f + 1 /\ top - (f + 1) < top
      BY <1>1, <2>2
    <3>4. Seen(r, top - (f + 1))
      BY <2>1, <3>3 DEF Seen
    <3> QED BY <2>2, <3>1, <3>2, <3>4
  <2>7. Fits(f)
    BY <2>4, <2>6
  <2>8. ASSUME NEW n \in 0 .. Window, Fits(n), n # f PROVE FALSE
    <3>1. CASE n < f
      <4>1. n + 1 \in 1 .. f /\ n # Window
        BY <1>1, <2>2, <2>5, <3>1, SMTT(20)
      <4> QED BY <2>4, <2>8, <4>1
    <3>2. CASE f < n
      <4>1. f + 1 \in 1 .. n /\ f # Window
        BY <1>1, <2>2, <2>5, <3>2
      <4> QED BY <2>6, <2>8, <4>1
    <3> QED BY <1>1, <2>2, <2>8, <3>1, <3>2, SMTT(20)
  <2>9. FirstRange(r) = CHOOSE n \in 0 .. Window : Fits(n)
    BY <2>1 DEF FirstRange
  <2> HIDE DEF Fits
  <2>10. FirstRange(r) = f
    BY <2>5, <2>7, <2>8, <2>9
  <2> QED BY <2>1, <2>3, <2>10 DEF f, out
<1> QED BY <1>1, <1>4, <1>5

-----------------------------------------------------------------------------
(***************************************************************************)
(* The exchange of acknowledgements: no report vouches for a packet that   *)
(* did not arrive.  Every window mirrors what arrived in its space, and    *)
(* the blocks of every report on the network lie in what had arrived.      *)
(***************************************************************************)
Came(all, s) == {pn \in Nat : <<s, pn>> \in all}

Vouches(a, all) ==
  /\ a[2] \in Nat
  /\ \A pn \in Int : Covered(pn, AckBlocks(a[2], a[3])) => <<a[1], pn>> \in all

HonestInv ==
  /\ CountInv
  /\ recv \in [Spaces -> RecvPn] /\ now \in Nat /\ largest \in [Spaces -> Nat \union {Free}]
  /\ arrived \in SUBSET packets /\ acked \in SUBSET arrived
  /\ \A s \in Spaces : Mirrors(recv[s], Came(arrived, s))
  /\ \A a \in acks : Vouches(a, arrived)

\* Nothing has arrived at the start.
LEMMA HonestStart == AckInit => HonestInv
<1> SUFFICES ASSUME AckInit PROVE HonestInv
  OBVIOUS
<1>1. CountInv
  BY CountStart
<1>2. RecvPnInit \in RecvPn /\ Mirrors(RecvPnInit, {})
  BY DEF RecvPnInit, RecvPn, Mirrors
<1>3. \A s : Came(arrived, s) = {}
  BY DEF AckInit, Came
<1>4. \A s \in Spaces : Mirrors(recv[s], Came(arrived, s))
  BY Zenon, <1>2, <1>3 DEF AckInit
<1>5. recv \in [Spaces -> RecvPn] /\ now \in Nat /\ largest \in [Spaces -> Nat \union {Free}]
  BY <1>2 DEF AckInit
<1>6. arrived \in SUBSET packets /\ acked \in SUBSET arrived /\ acks = {}
  BY DEF AckInit
<1> QED BY <1>1, <1>4, <1>5, <1>6 DEF HonestInv

\* A packet that arrives is recorded in the window of its space.
LEMMA ArriveHonest ==
  ASSUME HonestInv, NEW p \in packets, Arrive(p[1], p[2]), CountInv'
  PROVE  HonestInv'
<1> DEFINE s == p[1]
           pn == p[2]
           w == Record(recv[s], pn)
<1>1. s \in Spaces /\ pn \in Nat /\ p = <<s, pn>>
  BY DEF HonestInv, CountInv
<1>2. /\ recv' = [recv EXCEPT ![s] = w] /\ arrived' = arrived \union {p}
      /\ UNCHANGED <<largest, packets, acks, now, acked>>
  BY <1>1 DEF Arrive
<1>3. /\ recv \in [Spaces -> RecvPn] /\ now \in Nat /\ largest \in [Spaces -> Nat \union {Free}]
      /\ arrived \in SUBSET packets /\ acked \in SUBSET arrived
      /\ \A a \in acks : Vouches(a, arrived)
  BY DEF HonestInv
<1>4. \A r \in Spaces : Mirrors(recv[r], Came(arrived, r))
  BY DEF HonestInv
<1> HIDE DEF w, s, pn
<1>5. Mirrors(w, Came(arrived, s) \union {pn})
  BY Zenon, <1>1, <1>4, RecordMirrors DEF w, Came
<1>6. w \in RecvPn
  BY <1>5 DEF Mirrors
<1>7. recv' \in [Spaces -> RecvPn] /\ \A r \in Spaces : recv'[r] = IF r = s THEN w ELSE recv[r]
  BY Zenon, <1>2, <1>3, <1>6
<1>8. Came(arrived', s) = Came(arrived, s) \union {pn}
  BY <1>1, <1>2 DEF Came
<1>9. \A r \in Spaces : r # s => Came(arrived', r) = Came(arrived, r)
  <2> SUFFICES ASSUME NEW r \in Spaces, r # s PROVE Came(arrived', r) = Came(arrived, r)
    OBVIOUS
  <2>1. \A q : <<r, q>> # p
    BY <1>1
  <2> QED BY <1>2, <2>1 DEF Came
<1>10. \A r \in Spaces : Mirrors(recv'[r], Came(arrived', r))
  BY <1>4, <1>5, <1>7, <1>8, <1>9
<1>11. \A a \in acks' : Vouches(a, arrived')
  BY <1>2, <1>3 DEF Vouches
<1>12. arrived' \in SUBSET packets' /\ acked' \in SUBSET arrived'
  BY <1>2, <1>3
<1> QED BY Zenon, <1>2, <1>3, <1>7, <1>10, <1>11, <1>12 DEF HonestInv

\* A report covers numbers the window saw, and they had arrived.
LEMMA SendAckHonest ==
  ASSUME HonestInv, NEW s \in Spaces, SendAck(s), CountInv'
  PROVE  HonestInv'
<1> DEFINE a == <<s, recv[s].largest, AckRanges(recv[s])>>
<1>1. /\ AckRanges(recv[s]) # NoRanges /\ acks' = acks \union {a}
      /\ UNCHANGED <<recv, largest, packets, now, acked, arrived>>
  BY DEF SendAck
<1>2. Mirrors(recv[s], Came(arrived, s)) /\ Came(arrived, s) \in SUBSET Nat
  BY DEF HonestInv, Came
<1>3. \A pn \in Int : Covered(pn, AckBlocks(recv[s].largest, AckRanges(recv[s]))) => pn \in Came(arrived, s)
  BY Zenon, <1>1, <1>2, MirrorsSeen
<1>4. recv[s].largest \in Nat
  BY <1>2 DEF Mirrors, RecvPn
<1>5. a[1] = s /\ a[2] = recv[s].largest /\ a[3] = AckRanges(recv[s])
  OBVIOUS
<1> HIDE DEF a
<1>6. Vouches(a, arrived)
  BY <1>3, <1>4, <1>5 DEF Vouches, Came
<1> QED BY <1>1, <1>6 DEF HonestInv

\* What a report takes out of flight is covered by it.
LEMMA ReceiveAckHonest ==
  ASSUME HonestInv, NEW a \in acks, ReceiveAck(a[1], a[2], a[3]), CountInv'
  PROVE  HonestInv'
<1> DEFINE s == a[1]
           t == sent[s]
           after == AckProcess(t, a[2], a[3])
           max == IF a[2] > largest[s] THEN a[2] ELSE largest[s]
           took == InFlight(t) \ InFlight(after)
<1>1. /\ largest' = [largest EXCEPT ![s] = max]
      /\ acked' = acked \union {<<s, pn>> : pn \in took}
      /\ UNCHANGED <<recv, packets, acks, now, arrived>>
  BY DEF ReceiveAck
<1>2. s \in Spaces /\ t \in SentTable
  BY DEF HonestInv, CountInv
<1>3. /\ Vouches(a, arrived) /\ acked \in SUBSET arrived /\ largest \in [Spaces -> Nat \union {Free}]
  BY DEF HonestInv
<1>4. a[2] \in Nat
  BY <1>3 DEF Vouches
<1>5. max \in Nat \union {Free}
  BY <1>2, <1>3, <1>4
<1>6. InFlight(after) = {pn \in InFlight(t) : a[3] = <<>> \/ ~Covered(pn, AckBlocks(a[2], a[3]))}
  BY <1>2, InFlightAck
<1>7. \A pn \in InFlight(t) : pn \in Int
  BY <1>2, InFlightIn
<1> HIDE DEF after, t, max
<1>8. \A pn \in took : <<s, pn>> \in arrived
  BY <1>3, <1>6, <1>7 DEF Vouches
<1> HIDE DEF took
<1>9. acked' \in SUBSET arrived'
  BY <1>1, <1>3, <1>8
<1> HIDE DEF s
<1>10. largest' \in [Spaces -> Nat \union {Free}]
  BY <1>1, <1>2, <1>3, <1>5
<1> QED BY Zenon, <1>1, <1>9, <1>10 DEF HonestInv

\* Every step keeps the reports honest.
LEMMA HonestStep == HonestInv /\ [AckNext]_ackVars => HonestInv'
<1> SUFFICES ASSUME HonestInv, [AckNext]_ackVars PROVE HonestInv'
  OBVIOUS
<1>1. CountInv'
  BY CountStep DEF HonestInv
<1>2. CASE UNCHANGED ackVars
  <2>1. UNCHANGED <<recv, now, largest, arrived, packets, acked, acks>>
    BY <1>2 DEF ackVars
  <2> QED BY <1>1, <2>1 DEF HonestInv
<1>3. ASSUME NEW s \in Spaces, SendPacket(s) PROVE HonestInv'
  <2>1. UNCHANGED <<recv, now, largest, arrived, acked, acks>> /\ packets \in SUBSET packets'
    BY <1>3 DEF SendPacket
  <2>2. arrived' \in SUBSET packets'
    BY <2>1 DEF HonestInv
  <2> QED BY <1>1, <2>1, <2>2 DEF HonestInv
<1>4. ASSUME NEW s \in Spaces, SendAck(s) PROVE HonestInv'
  BY <1>1, <1>4, SendAckHonest
<1>5. ASSUME NEW p \in packets, Arrive(p[1], p[2]) PROVE HonestInv'
  BY <1>1, <1>5, ArriveHonest
<1>6. ASSUME NEW a \in acks, ReceiveAck(a[1], a[2], a[3]) PROVE HonestInv'
  BY <1>1, <1>6, ReceiveAckHonest
<1>7. CASE Tick
  <2>1. UNCHANGED <<recv, largest, arrived, packets, acked, acks>> /\ now' = now + 1
    BY <1>7 DEF Tick
  <2>2. now' \in Nat
    BY <2>1 DEF HonestInv
  <2> QED BY <1>1, <2>1, <2>2 DEF HonestInv
<1> QED BY <1>2, <1>3, <1>4, <1>5, <1>6, <1>7 DEF AckNext

\* What the receiver records, what its ACK frames say and what the sender
\* concludes from them agree, for every window, every number of ranges, every
\* number of packets and every way the network loses, repeats and reorders
\* packets and reports (recvpn.c, ackrange.c, ack_process.c).
THEOREM AcksAlwaysHonest == AckSpec => []AcksHonest
<1>1. AckInit => HonestInv
  BY HonestStart
<1>2. HonestInv /\ [AckNext]_ackVars => HonestInv'
  BY HonestStep
<1>3. HonestInv => AcksHonest
  <2> SUFFICES ASSUME HonestInv PROVE AcksHonest
    OBVIOUS
  <2>1. AckTypeOK
    BY DEF HonestInv, CountInv, AckTypeOK
  <2>2. AckHonest
    BY DEF HonestInv, AckHonest
  <2>3. ASSUME NEW s \in Spaces
        PROVE  /\ \A pn \in 0 .. recv[s].largest :
                    Seen(recv[s], pn) <=> <<s, pn>> \in arrived /\ recv[s].largest - pn <= Window
               /\ AckRanges(recv[s]) # NoRanges => AckRanges(recv[s])[1] = FirstRange(recv[s])
    <3>1. Mirrors(recv[s], Came(arrived, s)) /\ Came(arrived, s) \in SUBSET Nat
      BY DEF HonestInv, Came
    <3>2. /\ \A pn \in 0 .. recv[s].largest :
               Seen(recv[s], pn) <=> pn \in Came(arrived, s) /\ recv[s].largest - pn <= Window
          /\ AckRanges(recv[s]) # NoRanges => AckRanges(recv[s])[1] = FirstRange(recv[s])
      BY <3>1, MirrorsSeen
    <3>3. recv[s].largest \in Nat
      BY <3>1 DEF Mirrors, RecvPn
    <3>4. \A pn \in 0 .. recv[s].largest : pn \in Came(arrived, s) <=> <<s, pn>> \in arrived
      BY <3>3 DEF Came
    <3> QED BY <3>2, <3>4
  <2> QED BY <2>1, <2>2, <2>3 DEF AcksHonest, WindowExact, FirstRangeAgrees
<1> QED BY <1>1, <1>2, <1>3, PTL DEF AckSpec
=============================================================================
