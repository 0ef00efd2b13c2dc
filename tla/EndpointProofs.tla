--------------------------- MODULE EndpointProofs ---------------------------
(***************************************************************************)
(* An endpoint that sends and receives packets, for every table, buffer    *)
(* and payload: it never seals two packets of a level under one number,    *)
(* never sends at a level nor trusts an address it has not earned, and     *)
(* forgets no packet while it uses one level.                              *)
(***************************************************************************)
EXTENDS ConnIOSys, ConnGateProofs, Inductions

(***************************************************************************)
(* The stream buffer.  Ends(have, n): n ends the contiguous prefix.        *)
(***************************************************************************)
Ends(have, n) == 0 .. (n - 1) \subseteq have /\ n \notin have

\* The prefix has one end, and what is added to the buffer never brings it back.
LEMMA DeliverEnds ==
  ASSUME NEW have \in SUBSET (0 .. (ReasmCap - 1))
  PROVE  /\ Deliver(have) \in 0 .. ReasmCap /\ Ends(have, Deliver(have))
         /\ \A more \in SUBSET (0 .. (ReasmCap - 1)) : have \subseteq more => Deliver(have) <= Deliver(more)
<1>1. ReasmCap \in Nat
  BY ConnIOAssumption
<1>2. ASSUME NEW h \in SUBSET (0 .. (ReasmCap - 1)) PROVE Deliver(h) \in 0 .. ReasmCap /\ Ends(h, Deliver(h))
  <2> DEFINE T == {n \in Nat : n \notin h}
  <2>1. ReasmCap \in T
    BY <1>1
  <2>2. PICK n \in T : \A y \in T : n <= y
    <3> HIDE DEF T
    <3>1. T \in SUBSET Nat
      BY DEF T
    <3> QED BY <2>1, <3>1, LeastNatural
  <2>3. n \in 0 .. ReasmCap /\ n \notin h
    BY <1>1, <2>1, <2>2
  <2>4. \A i \in 0 .. (n - 1) : i \in h
    <3> SUFFICES ASSUME NEW i \in 0 .. (n - 1), i \notin h PROVE FALSE
      OBVIOUS
    <3>1. i \in Nat /\ i < n
      BY <2>3
    <3> QED BY <2>2, <2>3, <3>1
  <2>5. \E m \in 0 .. ReasmCap : Ends(h, m)
    BY <2>3, <2>4 DEF Ends
  <2> QED BY <2>5 DEF Deliver, Ends
<1>3. ASSUME NEW more \in SUBSET (0 .. (ReasmCap - 1)), have \subseteq more PROVE Deliver(have) <= Deliver(more)
  <2>1. /\ Deliver(have) \in 0 .. ReasmCap /\ Ends(have, Deliver(have))
        /\ Deliver(more) \in 0 .. ReasmCap /\ Ends(more, Deliver(more))
    BY <1>2
  <2> SUFFICES ASSUME Deliver(more) < Deliver(have) PROVE FALSE
    BY <1>1, <2>1
  <2>2. Deliver(more) \in 0 .. (Deliver(have) - 1)
    BY <1>1, <2>1
  <2> QED BY <1>3, <2>1, <2>2 DEF Ends
<1> QED BY <1>2, <1>3

-----------------------------------------------------------------------------
(***************************************************************************)
(* Dispatch.  Frames other than reports leave the gate and the numbers     *)
(* alone, and only add to the buffer.                                      *)
(***************************************************************************)
Quiet(a, b) ==
  /\ b \in IO
  /\ b.is_server = a.is_server /\ b.loop = a.loop /\ b.tx = a.tx
  /\ b.read_off = a.read_off /\ a.have \subseteq b.have

\* A frame that is not a report.
LEMMA HandleQuiet ==
  ASSUME NEW a \in IO, NEW f \in PeerFrame
  PROVE  Quiet(a, Handle(a, f))
<1> DEFINE m == Mark(a, f.kind)
           b == Handle(a, f)
           mark == a.disp.ack_eliciting \/ AckEliciting(f.kind)
<1>1. f.kind \in Kinds /\ f.kind # "ACK"
  BY DEF PeerFrame, Kinds
<1>2. mark \in BOOLEAN /\ a.disp \in Flags
  BY DEF IO, Flags, AckEliciting
<1> HIDE DEF mark
<1>3. [a.disp EXCEPT !.ack_eliciting = mark] \in Flags
  BY <1>2 DEF Flags
<1>4. m = [a EXCEPT !.disp = [a.disp EXCEPT !.ack_eliciting = mark]]
  BY DEF Mark, mark, IO
<1> HIDE DEF m
<1>5. /\ m \in IO /\ m.is_server = a.is_server /\ m.loop = a.loop /\ m.tx = a.tx
      /\ m.read_off = a.read_off /\ m.have = a.have /\ m.disp \in Flags
  BY <1>3, <1>4 DEF IO
<1>6. CASE f.kind \notin {"STREAM", "MAX_DATA", "CONNECTION_CLOSE"}
  <2>1. b = a \/ b = m
    BY <1>1, <1>6 DEF Handle, m
  <2> HIDE DEF b
  <2> QED BY <1>5, <2>1 DEF Quiet, b
<1>7. CASE f.kind = "STREAM"
  <2>1. f.offset \in Nat
    BY <1>7 DEF PeerFrame, Kinds
  <2> DEFINE more == m.have \union {f.offset}
  <2>2. b = m \/ (InsertFits(f.offset) /\ b = [m EXCEPT !.have = more])
    BY <1>7 DEF Handle, Handled, m
  <2>3. InsertFits(f.offset) => more \in SUBSET (0 .. (ReasmCap - 1))
    BY <1>5, <2>1, ConnIOAssumption DEF InsertFits, IO
  <2>4. m.have \subseteq more
    OBVIOUS
  <2> HIDE DEF b, more
  <2>5. b \in IO /\ b.is_server = m.is_server /\ b.loop = m.loop /\ b.tx = m.tx
        /\ b.read_off = m.read_off /\ m.have \subseteq b.have
    BY <1>5, <2>2, <2>3, <2>4 DEF IO
  <2> QED BY <1>5, <2>5 DEF Quiet, b
<1>8. CASE f.kind = "MAX_DATA"
  <2>1. f.value \in Nat
    BY <1>8 DEF PeerFrame, Kinds
  <2>2. b = [m EXCEPT !.max_data = f.value]
    BY <1>8 DEF Handle, Handled, m
  <2> HIDE DEF b
  <2>3. b \in IO /\ b.is_server = m.is_server /\ b.loop = m.loop /\ b.tx = m.tx
        /\ b.read_off = m.read_off /\ b.have = m.have
    BY <1>5, <2>1, <2>2 DEF IO
  <2> QED BY <1>5, <2>3 DEF Quiet, b
<1>9. CASE f.kind = "CONNECTION_CLOSE"
  <2> DEFINE d == [m.disp EXCEPT !.close = TRUE]
  <2>1. d \in Flags
    BY Zenon, <1>5 DEF Flags
  <2>2. b = [m EXCEPT !.disp = d]
    BY <1>9 DEF Handle, Handled, m
  <2> HIDE DEF b, d
  <2>3. b \in IO /\ b.is_server = m.is_server /\ b.loop = m.loop /\ b.tx = m.tx
        /\ b.read_off = m.read_off /\ b.have = m.have
    BY <1>5, <2>1, <2>2 DEF IO
  <2> QED BY <1>5, <2>3 DEF Quiet, b
<1> QED BY <1>6, <1>7, <1>8, <1>9

\* The walk ends somewhere in the payload.
LEMMA WalkedIn ==
  ASSUME NEW X, NEW frames \in Seq(X)
  PROVE  /\ Walked(frames) \in 0 .. Len(frames)
         /\ Walked(frames) = Len(frames) \/ ~Measurable(frames[Walked(frames) + 1].kind)
<1> DEFINE n == Len(frames)
           Stop(k) == k = n \/ ~Measurable(frames[k + 1].kind)
           Good(k) == (\A i \in 1 .. k : Measurable(frames[i].kind)) /\ Stop(k)
           T == {k \in Nat : k \in 0 .. n /\ Stop(k)}
<1>1. n \in Nat
  OBVIOUS
<1>2. n \in T
  BY <1>1
<1>3. PICK k \in T : \A y \in T : k <= y
  <2>1. T \in SUBSET Nat
    OBVIOUS
  <2> HIDE DEF T
  <2> QED BY <1>2, <2>1, LeastNatural
<1>4. k \in 0 .. n /\ Stop(k)
  BY <1>3
<1>5. ASSUME NEW i \in 1 .. k PROVE Measurable(frames[i].kind)
  <2>1. i - 1 \in Nat /\ i - 1 < k /\ i - 1 \in 0 .. n /\ (i - 1) + 1 = i /\ i - 1 # n
    BY <1>1, <1>4
  <2>2. i - 1 \notin T
    <3>1. k \in Nat /\ ~(k <= i - 1)
      BY <1>3, <1>4, <2>1
    <3> HIDE DEF T
    <3> QED BY <1>3, <3>1
  <2>3. ~Stop(i - 1)
    BY <2>1, <2>2
  <2> QED BY <2>1, <2>3
<1>6. \E j \in 0 .. n : Good(j)
  BY <1>4, <1>5
<1>7. Walked(frames) = CHOOSE j \in 0 .. n : Good(j)
  BY DEF Walked
<1> HIDE DEF Good
<1>8. Walked(frames) \in 0 .. n /\ Good(Walked(frames))
  BY <1>6, <1>7
<1> QED BY <1>8 DEF Good

\* The states a walk over n frames goes through.
Passes(g, a, n, frames) ==
  g = [i \in 0 .. n |-> IF i = 0 THEN a ELSE Handle(g[i - 1], frames[i])]

\* quic_dispatch_payload over frames that are not reports.
LEMMA DispatchQuiet ==
  ASSUME NEW a \in IO, NEW frames \in Seq(PeerFrame)
  PROVE  Quiet(a, DispatchAll(a, frames))
<1> DEFINE n == Walked(frames)
           g == CHOOSE f : Passes(f, a, n, frames)
           step == [i \in 1 .. n |-> [s \in IO |-> Handle(s, frames[i])]]
<1>1. n \in Nat /\ n <= Len(frames)
  BY WalkedIn
<1>2. DispatchAll(a, frames) = g[n]
  BY DEF DispatchAll, Passes
<1> HIDE DEF n
<1>3. \A i \in 1 .. n : frames[i] \in PeerFrame
  BY <1>1
<1>4. \A i \in 1 .. n : \A s \in IO : Handle(s, frames[i]) \in IO
  BY <1>3, HandleQuiet DEF Quiet
<1>5. step \in [1 .. n -> [IO -> IO]]
  BY <1>4
<1>6. \A i \in 1 .. n : \A s \in IO : step[i][s] = Handle(s, frames[i])
  OBVIOUS
<1> HIDE DEF step
<1>7. PICK f : IsWalk(f, n, IO, a, step)
  BY <1>1, <1>5, WalkExists
<1>8. Passes(f, a, n, frames)
  <2>1. f \in [0 .. n -> IO] /\ \A i \in 0 .. n : f[i] = IF i = 0 THEN a ELSE step[i][f[i - 1]]
    BY Zenon, <1>7 DEF IsWalk
  <2>2. ASSUME NEW i \in 0 .. n PROVE f[i] = IF i = 0 THEN a ELSE Handle(f[i - 1], frames[i])
    <3>1. CASE i = 0
      BY <2>1, <3>1
    <3>2. CASE i # 0
      <4>1. i \in 1 .. n /\ i - 1 \in 0 .. n
        BY <1>1, <3>2
      <4>2. f[i - 1] \in IO
        BY <2>1, <4>1
      <4> QED BY <1>6, <2>1, <3>2, <4>1, <4>2
    <3> QED BY <3>1, <3>2
  <2> QED BY <2>1, <2>2 DEF Passes
<1>9. Passes(g, a, n, frames)
  BY <1>8
<1> HIDE DEF g
<1>10. \A i \in 0 .. n : g[i] = IF i = 0 THEN a ELSE Handle(g[i - 1], frames[i])
  BY Zenon, <1>9 DEF Passes
<1> DEFINE S == {i \in 0 .. n : Quiet(a, g[i])}
<1>11. 0 \in S
  BY <1>1, <1>10 DEF Quiet
<1>12. ASSUME NEW i \in 1 .. n, i - 1 \in S PROVE i \in S
  <2>1. i \in 0 .. n /\ i # 0 /\ Quiet(a, g[i - 1])
    BY <1>1, <1>12
  <2>2. g[i] = Handle(g[i - 1], frames[i])
    BY <1>10, <2>1
  <2>3. Quiet(g[i - 1], g[i])
    <3>1. g[i - 1] \in IO /\ frames[i] \in PeerFrame
      BY <1>3, <2>1 DEF Quiet
    <3> QED BY <2>2, <3>1, HandleQuiet
  <2> QED BY <2>1, <2>3 DEF Quiet
<1>13. 0 .. n \subseteq S
  <2> HIDE DEF S
  <2> QED BY <1>1, <1>11, <1>12, UpToInduction
<1> QED BY <1>1, <1>2, <1>13

\* A report frees slots of the table and changes nothing else that counts.
Reported(a, b, top, ranges) ==
  /\ b \in IO
  /\ b.is_server = a.is_server /\ b.tx = a.tx /\ b.read_off = a.read_off /\ b.have = a.have
  /\ b.loop \in Gate /\ b.loop = [a.loop EXCEPT !.sent = AckProcess(a.loop.sent, top, ranges)]

\* quic_dispatch_payload over a payload that is one report.
LEMMA DispatchAck ==
  ASSUME NEW a \in IO, NEW top \in Nat, NEW ranges
  PROVE  Reported(a, DispatchAll(a, <<AckFrame(top, ranges)>>), top, ranges)
<1> DEFINE f == AckFrame(top, ranges)
           m == Mark(a, f.kind)
           b == Handle(a, f)
           frames == <<f>>
           n == Walked(frames)
           g == CHOOSE h : Passes(h, a, n, frames)
           h1 == [i \in 0 .. 1 |-> IF i = 0 THEN a ELSE b]
<1>1. f.kind = "ACK" /\ f.largest = top /\ f.wire = ranges
  BY DEF AckFrame
<1>2. frames \in Seq({f}) /\ Len(frames) = 1 /\ frames[1] = f
  OBVIOUS
<1> HIDE DEF f
<1>3. n = 1
  <2> HIDE DEF frames
  <2>1. n \in 0 .. 1 /\ (n = 1 \/ ~Measurable(frames[n + 1].kind))
    BY Zenon, <1>2, WalkedIn
  <2>2. Measurable(frames[1].kind)
    BY <1>1, <1>2 DEF Measurable
  <2> HIDE DEF n
  <2>3. n = 0 \/ n = 1
    BY <2>1
  <2> QED BY <2>1, <2>2, <2>3
<1>4. DispatchAll(a, frames) = g[n]
  BY DEF DispatchAll, Passes
<1>5. Passes(h1, a, 1, frames)
  BY <1>2 DEF Passes
<1> HIDE DEF frames, n
<1>6. Passes(g, a, 1, frames)
  BY <1>3, <1>5
<1> HIDE DEF g
<1>7. g[0] = a /\ g[1] = Handle(g[0], frames[1])
  BY <1>6 DEF Passes
<1>8. DispatchAll(a, frames) = b
  BY <1>2, <1>3, <1>4, <1>7
<1> DEFINE t == AckProcess(a.loop.sent, top, ranges)
           l == [a.loop EXCEPT !.sent = t]
           mark == a.disp.ack_eliciting \/ AckEliciting(f.kind)
           d == [a.disp EXCEPT !.ack_eliciting = mark, !.has_ack = TRUE, !.largest_acked = top]
<1>9. a.loop \in Gate /\ a.loop.sent \in SentTable /\ a.disp \in Flags
  BY DEF IO, Gate
<1>10. t \in SentTable
  BY <1>9, AckProcessFacts
<1>11. mark \in BOOLEAN
  BY <1>9 DEF AckEliciting, Flags
<1>12. b = [a EXCEPT !.loop = l, !.disp = d]
  BY Zenon, <1>1, <1>9 DEF Handle, Handled, Mark, IO, Flags, Gate
<1> HIDE DEF t, mark
<1>13. l \in Gate
  BY <1>9, <1>10 DEF Gate
<1>14. d \in Flags
  BY Zenon, <1>9, <1>11 DEF Flags
<1> HIDE DEF l, d, b
<1>15. /\ b \in IO /\ b.is_server = a.is_server /\ b.tx = a.tx /\ b.read_off = a.read_off
       /\ b.have = a.have /\ b.loop = l
  BY Zenon, <1>12, <1>13, <1>14 DEF IO
<1> QED BY <1>8, <1>13, <1>15 DEF Reported, l, t, frames, f

-----------------------------------------------------------------------------
(***************************************************************************)
(* Receiving: the bytes are counted, then the packet is let in.            *)
(***************************************************************************)
Gated(a, len) == [a EXCEPT !.loop = OnRecv(a.loop, len)]

Entered(a, level) ==
  [a EXCEPT !.rx_pn[level] = a.rx_pn[level] + 1,
            !.loop = IF ValidatesAddress(a, level) THEN Validate(a.loop) ELSE a.loop]

\* What receiving leaves alone, the table aside.
SameLevel(a, b) ==
  /\ b \in IO /\ b.tx = a.tx /\ b.read_off = a.read_off /\ a.have \subseteq b.have
  /\ b.loop.send_level = a.loop.send_level
  /\ b.loop.handshake_complete = a.loop.handshake_complete
  /\ b.loop.handshake_confirmed = a.loop.handshake_confirmed

\* quic_connloop_on_recv within an endpoint.
LEMMA GatedFacts ==
  ASSUME NEW a \in IO, NEW len \in Nat
  PROVE  /\ SameLevel(a, Gated(a, len)) /\ Gated(a, len).is_server = a.is_server
         /\ Gated(a, len).loop.sent = a.loop.sent /\ Gated(a, len).loop.validated = a.loop.validated
<1> DEFINE c == a.loop
           d == OnRecv(c, len)
           b == Gated(a, len)
<1>1. c \in Gate
  BY DEF IO
<1>2. /\ d \in Gate /\ d.send_level = c.send_level /\ d.sent = c.sent /\ d.validated = c.validated
      /\ d.handshake_complete = c.handshake_complete /\ d.handshake_confirmed = c.handshake_confirmed
  BY <1>1 DEF OnRecv, Gate
<1>3. b = [a EXCEPT !.loop = d]
  BY DEF Gated
<1> HIDE DEF d, b
<1>4. /\ b \in IO /\ b.loop = d /\ b.tx = a.tx /\ b.read_off = a.read_off /\ b.have = a.have
      /\ b.is_server = a.is_server
  BY <1>2, <1>3 DEF IO
<1> QED BY <1>2, <1>4 DEF SameLevel, b

\* A packet that is let in validates the address only at the Handshake level.
LEMMA EnteredFacts ==
  ASSUME NEW a \in IO, NEW level \in Levels
  PROVE  /\ SameLevel(a, Entered(a, level)) /\ Entered(a, level).loop.sent = a.loop.sent
         /\ Entered(a, level).loop.validated => a.loop.validated \/ level = HANDSHAKE
<1> DEFINE c == a.loop
           d == IF ValidatesAddress(a, level) THEN Validate(c) ELSE c
           r == [a.rx_pn EXCEPT ![level] = a.rx_pn[level] + 1]
           b == Entered(a, level)
<1>1. c \in Gate /\ a.rx_pn \in [Levels -> Nat]
  BY DEF IO
<1>2. /\ d \in Gate /\ d.send_level = c.send_level /\ d.sent = c.sent
      /\ d.handshake_complete = c.handshake_complete /\ d.handshake_confirmed = c.handshake_confirmed
  BY Zenon, <1>1 DEF Validate, Gate
<1>3. d.validated => c.validated \/ level = HANDSHAKE
  BY DEF ValidatesAddress
<1>4. r \in [Levels -> Nat]
  BY <1>1
<1>5. b = [a EXCEPT !.rx_pn = r, !.loop = d]
  BY DEF Entered
<1> HIDE DEF d, r, b
<1>6. b \in IO /\ b.loop = d /\ b.tx = a.tx /\ b.read_off = a.read_off /\ b.have = a.have
  BY Zenon, <1>2, <1>4, <1>5 DEF IO
<1> QED BY <1>2, <1>3, <1>6 DEF SameLevel, b

\* quic_connio_recv of a packet without reports.
LEMMA RecvFacts ==
  ASSUME NEW a \in IO, NEW level \in Levels, NEW frames \in Seq(PeerFrame), NEW opens \in BOOLEAN
  PROVE  LET b == IORecv(a, level, frames, Len(frames), opens)
         IN  /\ SameLevel(a, b) /\ b.loop.sent = a.loop.sent
             /\ b.loop.validated =>
                  a.loop.validated \/ (OnRecvResult(a.loop, level) /\ opens /\ level = HANDSHAKE)
<1> DEFINE len == Len(frames)
           b == IORecv(a, level, frames, len, opens)
           g == Gated(a, len)
           e == Entered(g, level)
           f == DispatchAll(e, frames)
           in == OnRecvResult(a.loop, level) /\ opens
<1>1. len \in Nat
  OBVIOUS
<1>2. b = IF in THEN f ELSE g
  BY DEF IORecv, RecvAccept, Gated, Entered
<1> HIDE DEF len
<1>3. SameLevel(a, g) /\ g.loop.sent = a.loop.sent /\ g.loop.validated = a.loop.validated
  BY <1>1, GatedFacts
<1> HIDE DEF g
<1>4. g \in IO
  BY <1>3 DEF SameLevel
<1>5. SameLevel(g, e) /\ e.loop.sent = g.loop.sent /\ (e.loop.validated => g.loop.validated \/ level = HANDSHAKE)
  BY <1>4, EnteredFacts
<1> HIDE DEF e
<1>6. e \in IO
  BY <1>5 DEF SameLevel
<1>7. Quiet(e, f)
  BY <1>6, DispatchQuiet
<1> HIDE DEF f, in
<1>8. SameLevel(a, f) /\ f.loop = e.loop
  BY <1>3, <1>5, <1>7 DEF SameLevel, Quiet
<1> HIDE DEF b
<1> QED BY <1>2, <1>3, <1>5, <1>8 DEF b, in, len

\* quic_connio_recv of a packet that is one report.
LEMMA RecvAckFacts ==
  ASSUME NEW a \in IO, NEW level \in Levels, NEW top \in Nat, NEW ranges
  PROVE  LET b == IORecv(a, level, <<AckFrame(top, ranges)>>, 1, TRUE)
         IN  /\ SameLevel(a, b)
             /\ b.loop.sent = IF OnRecvResult(a.loop, level) THEN AckProcess(a.loop.sent, top, ranges)
                              ELSE a.loop.sent
             /\ b.loop.validated =>
                  a.loop.validated \/ (OnRecvResult(a.loop, level) /\ level = HANDSHAKE)
<1> DEFINE frames == <<AckFrame(top, ranges)>>
           b == IORecv(a, level, frames, 1, TRUE)
           g == Gated(a, 1)
           e == Entered(g, level)
           f == DispatchAll(e, frames)
           in == OnRecvResult(a.loop, level)
<1>1. b = IF in THEN f ELSE g
  BY DEF IORecv, RecvAccept, Gated, Entered
<1>2. SameLevel(a, g) /\ g.loop.sent = a.loop.sent /\ g.loop.validated = a.loop.validated
  BY GatedFacts
<1> HIDE DEF g
<1>3. g \in IO
  BY <1>2 DEF SameLevel
<1>4. SameLevel(g, e) /\ e.loop.sent = g.loop.sent /\ (e.loop.validated => g.loop.validated \/ level = HANDSHAKE)
  BY <1>3, EnteredFacts
<1> HIDE DEF e
<1>5. e \in IO /\ e.loop \in Gate
  BY <1>4 DEF SameLevel, IO
<1>6. Reported(e, f, top, ranges)
  BY <1>5, DispatchAck
<1> HIDE DEF f, in
<1> DEFINE t == AckProcess(e.loop.sent, top, ranges)
<1>7. f.loop = [e.loop EXCEPT !.sent = t]
  BY <1>6 DEF Reported
<1> HIDE DEF t
<1>8. /\ f.loop.sent = t /\ f.loop.validated = e.loop.validated /\ f.loop.send_level = e.loop.send_level
      /\ f.loop.handshake_complete = e.loop.handshake_complete
      /\ f.loop.handshake_confirmed = e.loop.handshake_confirmed
  BY <1>5, <1>7 DEF Gate
<1>9. SameLevel(a, f)
  BY <1>2, <1>4, <1>6, <1>8 DEF SameLevel, Reported
<1>10. t = AckProcess(a.loop.sent, top, ranges)
  BY <1>2, <1>4 DEF t
<1> HIDE DEF b
<1> QED BY Zenon, <1>1, <1>2, <1>4, <1>8, <1>9, <1>10 DEF b, in, frames

-----------------------------------------------------------------------------
(***************************************************************************)
(* Sending.                                                                *)
(***************************************************************************)
Earned(c) == c.handshake_complete \/ c.handshake_confirmed

\* A packet the gate lets through: its level is the current one or the next,
\* and 1-RTT is entered only when the handshake is complete.
LEMMA SendFacts ==
  ASSUME NEW a \in IO, NEW level \in Levels, NEW len \in Nat, NEW fits \in BOOLEAN,
         SendReady(a, level, len)
  PROVE  LET b == IOSend(a, level, len, fits)
         IN  /\ b \in IO /\ b.read_off = a.read_off /\ b.have = a.have
             /\ b.loop.send_level = level /\ b.loop.validated = a.loop.validated
             /\ b.loop.handshake_complete = a.loop.handshake_complete
             /\ b.loop.handshake_confirmed = a.loop.handshake_confirmed
             /\ b.loop.sent = SentOnSend(a.loop.sent, a.tx[level])
             /\ b.tx = IF fits THEN [a.tx EXCEPT ![level] = a.tx[level] + 1] ELSE a.tx
             /\ a.loop.send_level <= level
             /\ level = ONERTT => a.loop.send_level = ONERTT \/ Earned(a.loop)
<1> DEFINE c == a.loop
           pn == a.tx[level]
           t == SentOnSend(c.sent, pn)
           any == AnySent(t)
           total == c.sent_bytes + len
           d == OnSend(c, level, TRUE, pn, len)
           x == IF fits THEN [a.tx EXCEPT ![level] = a.tx[level] + 1] ELSE a.tx
           b == IOSend(a, level, len, fits)
<1>1. c \in Gate /\ c.sent \in SentTable /\ a.tx \in [Levels -> Nat] /\ pn \in Nat /\ total \in Nat
  BY DEF IO, Gate
<1>2. SendOk(c, level, len)
  BY DEF SendReady
<1>3. t \in SentTable /\ any \in BOOLEAN
  BY <1>1, SentOnSendFacts DEF AnySent
<1>4. d = [c EXCEPT !.send_level = level, !.sent_bytes = total, !.sent = t, !.pto_armed = any]
  BY <1>1, <1>2 DEF OnSend, PtoSync, Track, Gate
<1> HIDE DEF t, any, total
<1>5. /\ d \in Gate /\ d.send_level = level /\ d.sent = t /\ d.validated = c.validated
      /\ d.handshake_complete = c.handshake_complete /\ d.handshake_confirmed = c.handshake_confirmed
  BY <1>1, <1>3, <1>4, ZenonT(30) DEF Gate
<1>6. x \in [Levels -> Nat]
  BY <1>1
<1>7. b = [a EXCEPT !.loop = d, !.tx = x]
  BY DEF IOSend, NextPn
<1> HIDE DEF d, x, b
<1>8. b \in IO /\ b.read_off = a.read_off /\ b.have = a.have /\ b.loop = d /\ b.tx = x
  BY Zenon, <1>5, <1>6, <1>7 DEF IO
<1>9. SendLevelOk(c, level)
  BY <1>2 DEF SendOk
<1>10. c.send_level <= level
  <2>1. c.send_level \in Int /\ level \in Int
    BY <1>1 DEF Gate, Levels, INITIAL, HANDSHAKE, ONERTT, NoLevel
  <2>2. level = c.send_level \/ level > c.send_level
    BY <1>9 DEF SendLevelOk
  <2> QED BY <2>1, <2>2
<1>11. level = ONERTT => c.send_level = ONERTT \/ Earned(c)
  BY <1>9 DEF SendLevelOk, KeySendLevel, ONERTT, HANDSHAKE, Earned
<1> QED BY <1>5, <1>8, <1>10, <1>11 DEF b, x, t

-----------------------------------------------------------------------------
(***************************************************************************)
(* The invariant: numbers on the wire are below the next one of their      *)
(* level, levels on the wire and in use are not above the sending level,   *)
(* and 1-RTT is the sending level only after the handshake.                *)
(***************************************************************************)
Packet == [level : Levels, pn : Nat, complete : BOOLEAN]

EndInv ==
  /\ io \in IO /\ io.read_off <= Deliver(io.have)
  /\ wire \in Seq(Packet)
  /\ \A i \in 1 .. Len(wire) : /\ wire[i].pn < io.tx[wire[i].level]
                               /\ wire[i].level <= io.loop.send_level
  /\ \A l \in Levels : io.tx[l] > 0 => l <= io.loop.send_level
  /\ io.loop.send_level = ONERTT => Earned(io.loop)
  /\ unacked \in SUBSET (Levels \X Nat) /\ got \in SUBSET (Levels \X Nat)
  /\ \A p \in unacked : p[1] <= io.loop.send_level
  /\ NumbersUnique /\ OneRttAfterHandshake /\ ValidatedByHandshake

\* A fresh endpoint.
LEMMA EndStart == Init => EndInv
<1> SUFFICES ASSUME Init PROVE EndInv
  OBVIOUS
<1>1. GateInit \in Gate
  BY GateInitInv DEF GateInv
<1> DEFINE zero == [l \in Levels |-> 0]
           flags == [ack_eliciting |-> FALSE, close |-> FALSE, has_ack |-> FALSE, largest_acked |-> 0]
<1>2. zero \in [Levels -> Nat] /\ flags \in Flags /\ \A l \in Levels : zero[l] = 0
  BY DEF Flags
<1>3. /\ io = IOInit(TRUE) /\ io.loop = GateInit /\ io.tx = zero /\ io.have = {} /\ io.read_off = 0
  BY DEF Init, IOInit
<1>4. io \in IO
  <2> HIDE DEF zero, flags
  <2> QED BY <1>1, <1>2, <1>3, ConnIOAssumption DEF IOInit, IO, zero, flags
<1>5. io.read_off <= Deliver(io.have)
  <2>1. {} \in SUBSET (0 .. (ReasmCap - 1))
    OBVIOUS
  <2>2. Deliver({}) \in Nat
    BY <2>1, DeliverEnds, ConnIOAssumption
  <2>3. io.read_off = 0 /\ Deliver(io.have) = Deliver({})
    BY Zenon, <1>3
  <2> QED BY <2>2, <2>3
<1>6. wire = <<>> /\ unacked = {} /\ got = {}
  BY DEF Init
<1>7. io.loop.send_level = NoLevel /\ ~io.loop.validated
  <2>1. GateInit.send_level = NoLevel /\ GateInit.validated = FALSE
    BY DEF GateInit
  <2>2. io.loop = GateInit
    BY Zenon, <1>3
  <2> QED BY <2>1, <2>2
<1>8. wire \in Seq(Packet) /\ 1 .. Len(wire) = {}
  BY <1>6
<1>9. NumbersUnique /\ OneRttAfterHandshake
  BY <1>8 DEF NumbersUnique, OneRttAfterHandshake
<1>10. ValidatedByHandshake
  BY <1>7 DEF ValidatedByHandshake
<1>11. NoLevel # ONERTT /\ ~(0 > 0)
  BY DEF NoLevel, ONERTT
<1> QED BY Zenon, <1>2, <1>3, <1>4, <1>5, <1>6, <1>7, <1>8, <1>9, <1>10, <1>11 DEF EndInv

\* A step that seals nothing and leaves numbers and levels alone.
LEMMA KeptInv ==
  ASSUME EndInv, wire' = wire, unacked' \in SUBSET unacked,
         io' \in IO, io'.tx = io.tx, io'.read_off <= Deliver(io'.have),
         io'.loop.send_level = io.loop.send_level, Earned(io.loop) => Earned(io'.loop),
         got \in SUBSET got', got' \in SUBSET (Levels \X Nat),
         io'.loop.validated => io.loop.validated \/ \E pn \in 0 .. MaxPeerPn : <<HANDSHAKE, pn>> \in got'
  PROVE  EndInv'
<1>1. NumbersUnique' /\ OneRttAfterHandshake'
  BY DEF EndInv, NumbersUnique, OneRttAfterHandshake
<1>2. ValidatedByHandshake'
  BY DEF EndInv, ValidatedByHandshake
<1>3. unacked' \in SUBSET (Levels \X Nat) /\ \A p \in unacked' : p[1] <= io'.loop.send_level
  BY DEF EndInv
<1>4. /\ \A i \in 1 .. Len(wire') : wire'[i].pn < io'.tx[wire'[i].level] /\ wire'[i].level <= io'.loop.send_level
      /\ \A l \in Levels : io'.tx[l] > 0 => l <= io'.loop.send_level
      /\ io'.loop.send_level = ONERTT => Earned(io'.loop)
      /\ wire' \in Seq(Packet)
  BY DEF EndInv
<1> QED BY <1>1, <1>2, <1>3, <1>4 DEF EndInv

\* A packet let through and sealed, or let through and not sealed.
LEMMA SendInv ==
  ASSUME EndInv, NEW level \in Levels, NEW len \in Lens, NEW fits \in BOOLEAN, Send(level, len, fits)
  PROVE  EndInv'
<1> DEFINE c == io.loop
           b == IOSend(io, level, len, fits)
           q == Sealed(level)
           ready == SendReady(io, level, len)
<1>1. len \in Nat
  BY PeerAssumption
<1>2. /\ io' = b /\ got' = got
      /\ wire' = IF ready /\ fits THEN Append(wire, q) ELSE wire
      /\ unacked' = IF ready /\ fits THEN unacked \union {<<level, io.tx[level]>>} ELSE unacked
  BY DEF Send
<1>3. CASE ~ready
  <2>1. io' = io /\ wire' = wire /\ unacked' = unacked /\ got' = got
    BY <1>2, <1>3 DEF IOSend
  <2>2. io \in IO /\ io.read_off <= Deliver(io.have) /\ got \in SUBSET (Levels \X Nat)
    BY DEF EndInv
  <2> QED BY <2>1, <2>2, KeptInv
<1>4. CASE ready
  <2>1. io \in IO
    BY DEF EndInv
  <2>2. /\ b \in IO /\ b.read_off = io.read_off /\ b.have = io.have
        /\ b.loop.send_level = level /\ b.loop.validated = c.validated
        /\ b.loop.handshake_complete = c.handshake_complete
        /\ b.loop.handshake_confirmed = c.handshake_confirmed
        /\ b.tx = IF fits THEN [io.tx EXCEPT ![level] = io.tx[level] + 1] ELSE io.tx
        /\ c.send_level <= level
        /\ level = ONERTT => c.send_level = ONERTT \/ Earned(c)
    BY <1>1, <1>4, <2>1, SendFacts
  <2> HIDE DEF b, c
  <2> DEFINE up == c.send_level
  <2>3. up \in Int /\ level \in Int /\ \A l \in Levels : l \in Int
    BY <2>1 DEF IO, Gate, Levels, INITIAL, HANDSHAKE, ONERTT, NoLevel, c
  <2>4. io.tx \in [Levels -> Nat]
    BY <2>1 DEF IO
  <2>5. \A l \in Levels : /\ b.tx[l] = IF fits /\ l = level THEN io.tx[l] + 1 ELSE io.tx[l]
                          /\ io.tx[l] \in Nat /\ b.tx[l] \in Nat
    BY <2>2, <2>4
  <2>6. /\ wire \in Seq(Packet) /\ \A i \in 1 .. Len(wire) : wire[i] \in Packet
        /\ \A i \in 1 .. Len(wire) : wire[i].pn < io.tx[wire[i].level] /\ wire[i].level <= up
        /\ \A l \in Levels : io.tx[l] > 0 => l <= up
        /\ up = ONERTT => Earned(c)
        /\ unacked \in SUBSET (Levels \X Nat) /\ got \in SUBSET (Levels \X Nat)
        /\ \A p \in unacked : p[1] <= up
        /\ io.read_off <= Deliver(io.have)
    BY DEF EndInv, c
  <2>7. NumbersUnique /\ OneRttAfterHandshake /\ ValidatedByHandshake
    BY DEF EndInv
  <2>8. level = ONERTT => Earned(c)
    BY <2>2, <2>6
  <2>9. q \in Packet /\ q.level = level /\ q.pn = io.tx[level] /\ q.complete = Earned(c)
    <3>1. Earned(c) \in BOOLEAN
      BY <2>1 DEF IO, Gate, Earned, c
    <3> QED BY <2>5, <3>1 DEF Sealed, Packet, Earned, c
  <2> HIDE DEF q, up
  <2> DEFINE n == Len(wire)
  <2>10. /\ wire' \in Seq(Packet) /\ n \in Nat
         /\ Len(wire') = IF fits THEN n + 1 ELSE n
         /\ \A i \in 1 .. n : wire'[i] = wire[i]
         /\ fits => wire'[n + 1] = q
    BY <1>2, <1>4, <2>6, <2>9
  <2> HIDE DEF n
  <2>11. \A i \in 1 .. n : /\ wire[i].level \in Levels /\ wire[i].pn \in Nat
                           /\ wire[i].pn < io.tx[wire[i].level] /\ wire[i].level <= up
    BY <2>6 DEF Packet, n
  <2>12. \A i \in 1 .. Len(wire') : i \in 1 .. n \/ (fits /\ i = n + 1 /\ wire'[i] = q)
    BY <2>10
  <2>13. ASSUME NEW i \in 1 .. Len(wire') PROVE wire'[i].pn < b.tx[wire'[i].level] /\ wire'[i].level <= level
    <3>1. CASE i \in 1 .. n
      <4>1. wire'[i] = wire[i]
        BY <2>10, <3>1
      <4> DEFINE l == wire[i].level
      <4>2. l \in Levels /\ wire[i].pn \in Nat /\ wire[i].pn < io.tx[l] /\ l <= up
        BY <2>11, <3>1
      <4> HIDE DEF l
      <4>3. wire[i].pn < b.tx[l] /\ l <= level
        BY <2>2, <2>3, <2>5, <4>2 DEF up
      <4> QED BY <4>1, <4>3 DEF l
    <3>2. CASE fits /\ i = n + 1 /\ wire'[i] = q
      <4>1. io.tx[level] < b.tx[level] /\ level <= level
        BY <2>3, <2>5, <3>2
      <4> QED BY <2>9, <3>2, <4>1
    <3> QED BY <2>12, <3>1, <3>2
  <2>14. ASSUME NEW l \in Levels, b.tx[l] > 0 PROVE l <= level
    <3>1. CASE l = level
      BY <2>3, <3>1
    <3>2. CASE l # level
      <4>1. io.tx[l] > 0
        BY <2>5, <2>14, <3>2
      <4> QED BY <2>2, <2>3, <2>6, <4>1 DEF up
    <3> QED BY <3>1, <3>2
  <2>15. ASSUME NEW i \in 1 .. Len(wire'), NEW j \in 1 .. Len(wire'), i # j, wire'[i].level = wire'[j].level
         PROVE  wire'[i].pn # wire'[j].pn
    <3>1. CASE i \in 1 .. n /\ j \in 1 .. n
      <4>1. wire'[i] = wire[i] /\ wire'[j] = wire[j]
        BY <2>10, <3>1
      <4> QED BY <2>7, <2>15, <3>1, <4>1 DEF NumbersUnique, n
    <3>2. CASE i \in 1 .. n /\ j \notin 1 .. n
      <4>1. wire'[i] = wire[i] /\ wire'[j] = q
        BY <2>10, <2>12, <3>2
      <4>2. wire[i].pn \in Nat /\ wire[i].pn < io.tx[level] /\ q.pn = io.tx[level]
        BY <2>9, <2>11, <2>15, <3>2, <4>1
      <4> QED BY <2>5, <4>1, <4>2
    <3>3. CASE i \notin 1 .. n /\ j \in 1 .. n
      <4>1. wire'[j] = wire[j] /\ wire'[i] = q
        BY <2>10, <2>12, <3>3
      <4>2. wire[j].pn \in Nat /\ wire[j].pn < io.tx[level] /\ q.pn = io.tx[level]
        BY <2>9, <2>11, <2>15, <3>3, <4>1
      <4> QED BY <2>5, <4>1, <4>2
    <3>4. CASE i \notin 1 .. n /\ j \notin 1 .. n
      BY <2>12, <2>15, <3>4
    <3> QED BY <3>1, <3>2, <3>3, <3>4
  <2>16. NumbersUnique'
    BY <2>15 DEF NumbersUnique
  <2>17. ASSUME NEW i \in 1 .. Len(wire')
         PROVE  /\ wire'[i].level = ONERTT => wire'[i].complete
                /\ \A j \in 1 .. i : wire'[j].level <= wire'[i].level
    <3>1. CASE i \in 1 .. n
      <4>1. \A j \in 1 .. i : j \in 1 .. n /\ wire'[j] = wire[j]
        BY <2>10, <3>1
      <4>2. wire'[i] = wire[i]
        BY <2>10, <3>1
      <4> QED BY <2>7, <3>1, <4>1, <4>2 DEF OneRttAfterHandshake, n
    <3>2. CASE i \notin 1 .. n
      <4>1. wire'[i] = q
        BY <2>12, <3>2
      <4>2. \A j \in 1 .. i : j \in 1 .. Len(wire')
        BY <2>10
      <4> QED BY <2>8, <2>9, <2>13, <4>1, <4>2
    <3> QED BY <3>1, <3>2
  <2>18. OneRttAfterHandshake'
    BY <2>17 DEF OneRttAfterHandshake
  <2>19. ValidatedByHandshake'
    BY <1>2, <2>2, <2>7 DEF ValidatedByHandshake, c
  <2>20. unacked' \in SUBSET (Levels \X Nat) /\ \A p \in unacked' : p[1] <= level
    <3>1. \A p \in unacked : p[1] \in Levels
      BY <2>6
    <3>2. ASSUME NEW p \in unacked PROVE p[1] <= level
      <4>1. p[1] \in Int /\ p[1] <= up /\ up <= level
        BY <2>2, <2>3, <2>6, <3>1 DEF up
      <4> QED BY <2>3, <4>1
    <3>3. <<level, io.tx[level]>> \in Levels \X Nat /\ level <= level
      BY <2>3, <2>5
    <3> QED BY <1>2, <2>6, <3>2, <3>3
  <2>21. level = ONERTT => Earned(b.loop)
    BY <2>2, <2>8 DEF Earned
  <2>22. io' = b /\ got' = got
    BY <1>2
  <2>23. b.read_off <= Deliver(b.have)
    BY <2>2, <2>6
  <2>24. /\ \A i \in 1 .. Len(wire') : wire'[i].pn < io'.tx[wire'[i].level] /\ wire'[i].level <= io'.loop.send_level
         /\ \A l \in Levels : io'.tx[l] > 0 => l <= io'.loop.send_level
         /\ io'.loop.send_level = ONERTT => Earned(io'.loop)
         /\ \A p \in unacked' : p[1] <= io'.loop.send_level
    BY Zenon, <2>2, <2>13, <2>14, <2>20, <2>21, <2>22
  <2> QED BY <2>2, <2>6, <2>10, <2>16, <2>18, <2>19, <2>20, <2>22, <2>23, <2>24 DEF EndInv
<1> QED BY <1>3, <1>4

\* A packet of the peer, with reports or without, and what it may change.
LEMMA RecvInv ==
  ASSUME EndInv, NEW level \in Levels, NEW pn \in 0 .. MaxPeerPn, NEW frames \in Payloads,
         NEW opens \in BOOLEAN, Recv(level, pn, frames, opens)
  PROVE  EndInv' /\ io'.loop.sent = io.loop.sent /\ io'.loop.send_level = io.loop.send_level
<1> DEFINE b == IORecv(io, level, frames, Len(frames), opens)
           in == OnRecvResult(io.loop, level) /\ opens
<1>1. io \in IO /\ frames \in Seq(PeerFrame) /\ got \in SUBSET (Levels \X Nat) /\ io.read_off <= Deliver(io.have)
  BY PeerAssumption DEF EndInv
<1>2. io' = b /\ got' = (IF in THEN got \union {<<level, pn>>} ELSE got) /\ wire' = wire /\ unacked' = unacked
  BY DEF Recv
<1>3. /\ SameLevel(io, b) /\ b.loop.sent = io.loop.sent
      /\ b.loop.validated => io.loop.validated \/ (in /\ level = HANDSHAKE)
  BY <1>1, RecvFacts
<1> HIDE DEF b, in
<1>4. pn \in Nat
  BY PeerAssumption
<1>5. got \in SUBSET got' /\ got' \in SUBSET (Levels \X Nat)
  BY <1>1, <1>2, <1>4
<1>6. io'.loop.validated => io.loop.validated \/ \E n \in 0 .. MaxPeerPn : <<HANDSHAKE, n>> \in got'
  BY <1>2, <1>3
<1>7. io'.read_off <= Deliver(io'.have)
  <2>1. /\ b.read_off = io.read_off /\ io.have \subseteq b.have /\ io.have \in SUBSET (0 .. (ReasmCap - 1))
        /\ b.have \in SUBSET (0 .. (ReasmCap - 1)) /\ io.read_off \in Nat
    BY <1>1, <1>3 DEF SameLevel, IO
  <2>2. Deliver(io.have) <= Deliver(b.have) /\ Deliver(io.have) \in Int /\ Deliver(b.have) \in Int
    BY <2>1, DeliverEnds
  <2> QED BY <1>1, <1>2, <2>1, <2>2
<1>8. /\ io' \in IO /\ io'.tx = io.tx /\ io'.loop.send_level = io.loop.send_level
      /\ Earned(io.loop) => Earned(io'.loop)
  BY <1>2, <1>3 DEF SameLevel, Earned
<1>9. EndInv'
  BY <1>2, <1>5, <1>6, <1>7, <1>8, KeptInv
<1> QED BY <1>2, <1>3, <1>8, <1>9

\* A report of numbers this endpoint used.
LEMMA RecvAckInv ==
  ASSUME EndInv, NEW level \in Levels, NEW pn \in 0 .. MaxPeerPn, NEW lo \in 0 .. MaxCalls,
         NEW hi \in 0 .. MaxCalls, RecvAck(level, pn, lo, hi)
  PROVE  /\ EndInv' /\ io'.loop.send_level = io.loop.send_level
         /\ io'.loop.sent = IF OnRecvResult(io.loop, level)
                            THEN AckProcess(io.loop.sent, hi, <<hi - lo>>) ELSE io.loop.sent
<1> DEFINE ranges == <<hi - lo>>
           b == IORecv(io, level, <<AckFrame(hi, ranges)>>, 1, TRUE)
           in == OnRecvResult(io.loop, level)
<1>1. io \in IO /\ hi \in Nat /\ got \in SUBSET (Levels \X Nat) /\ io.read_off <= Deliver(io.have)
  BY PeerAssumption DEF EndInv
<1>2. /\ io' = b /\ wire' = wire
      /\ got' = IF in THEN got \union {<<level, pn>>} ELSE got
      /\ unacked' = IF in THEN unacked \ ({level} \X (lo .. hi)) ELSE unacked
  BY DEF RecvAck
<1> HIDE DEF ranges
<1>3. /\ SameLevel(io, b)
      /\ b.loop.sent = IF in THEN AckProcess(io.loop.sent, hi, ranges) ELSE io.loop.sent
      /\ b.loop.validated => io.loop.validated \/ (in /\ level = HANDSHAKE)
  BY Zenon, <1>1, RecvAckFacts
<1> HIDE DEF b, in
<1>4. pn \in Nat
  BY PeerAssumption
<1>5. got \in SUBSET got' /\ got' \in SUBSET (Levels \X Nat) /\ unacked' \in SUBSET unacked
  BY <1>1, <1>2, <1>4
<1>6. io'.loop.validated => io.loop.validated \/ \E n \in 0 .. MaxPeerPn : <<HANDSHAKE, n>> \in got'
  BY <1>2, <1>3
<1>7. io'.read_off <= Deliver(io'.have)
  <2>1. /\ b.read_off = io.read_off /\ io.have \subseteq b.have /\ io.have \in SUBSET (0 .. (ReasmCap - 1))
        /\ b.have \in SUBSET (0 .. (ReasmCap - 1)) /\ io.read_off \in Nat
    BY <1>1, <1>3 DEF SameLevel, IO
  <2>2. Deliver(io.have) <= Deliver(b.have) /\ Deliver(io.have) \in Int /\ Deliver(b.have) \in Int
    BY <2>1, DeliverEnds
  <2> QED BY <1>1, <1>2, <2>1, <2>2
<1>8. /\ io' \in IO /\ io'.tx = io.tx /\ io'.loop.send_level = io.loop.send_level
      /\ Earned(io.loop) => Earned(io'.loop)
  BY <1>2, <1>3 DEF SameLevel, Earned
<1>9. EndInv'
  BY <1>2, <1>5, <1>6, <1>7, <1>8, KeptInv
<1> QED BY <1>2, <1>3, <1>8, <1>9 DEF in, ranges

\* The owner's calls: keys, the handshake, the close and the reads.
Owner(level, b) == Install(level) \/ Discard(level) \/ Complete(b) \/ CloseConn(b) \/ PullStream

\* They leave the table, the numbers and the sending level alone.
LEMMA OwnerInv ==
  ASSUME EndInv, NEW level \in Levels, NEW b \in BOOLEAN, Owner(level, b)
  PROVE  /\ EndInv' /\ io'.loop.sent = io.loop.sent /\ io'.loop.send_level = io.loop.send_level
         /\ UNCHANGED <<wire, unacked, got, calls>>
<1> DEFINE c == io.loop
<1>1. /\ io \in IO /\ c \in Gate /\ got \in SUBSET (Levels \X Nat) /\ io.read_off <= Deliver(io.have)
      /\ io.have \in SUBSET (0 .. (ReasmCap - 1))
  BY DEF EndInv, IO
<1>2. UNCHANGED <<wire, unacked, got, calls>>
  BY DEF Owner, Install, Discard, Complete, CloseConn, PullStream
<1>3. ASSUME NEW d \in Gate, io' = [io EXCEPT !.loop = d], d.sent = c.sent, d.send_level = c.send_level,
             d.validated = c.validated, Earned(c) => Earned(d)
      PROVE  EndInv' /\ io'.loop.sent = c.sent /\ io'.loop.send_level = c.send_level
  <2>1. io' \in IO /\ io'.loop = d /\ io'.tx = io.tx /\ io'.read_off = io.read_off /\ io'.have = io.have
    BY <1>1, <1>3 DEF IO
  <2>2. EndInv'
    BY <1>1, <1>2, <1>3, <2>1, KeptInv
  <2> QED BY <1>3, <2>1, <2>2
<1>4. CASE Install(level)
  <2> DEFINE d == InstallKey(c, level)
  <2>1. d \in Gate /\ d.sent = c.sent /\ d.send_level = c.send_level /\ d.validated = c.validated
        /\ d.handshake_complete = c.handshake_complete /\ d.handshake_confirmed = c.handshake_confirmed
    BY <1>1 DEF InstallKey, Gate
  <2>2. io' = [io EXCEPT !.loop = d]
    BY <1>4 DEF Install
  <2> HIDE DEF d
  <2> QED BY <1>2, <1>3, <2>1, <2>2 DEF Earned
<1>5. CASE Discard(level)
  <2> DEFINE d == DiscardKey(c, level)
  <2>1. d \in Gate /\ d.sent = c.sent /\ d.send_level = c.send_level /\ d.validated = c.validated
        /\ d.handshake_complete = c.handshake_complete /\ d.handshake_confirmed = c.handshake_confirmed
    BY <1>1 DEF DiscardKey, Gate
  <2>2. io' = [io EXCEPT !.loop = d]
    BY <1>5 DEF Discard
  <2> HIDE DEF d
  <2> QED BY <1>2, <1>3, <2>1, <2>2 DEF Earned
<1>6. CASE Complete(b)
  <2> DEFINE conf == c.handshake_confirmed \/ b
             d == [c EXCEPT !.handshake_complete = TRUE, !.handshake_confirmed = conf]
  <2>1. conf \in BOOLEAN
    OBVIOUS
  <2>2. io' = [io EXCEPT !.loop = d]
    BY Zenon, <1>1, <1>6 DEF Complete
  <2> HIDE DEF conf
  <2>3. d \in Gate /\ d.sent = c.sent /\ d.send_level = c.send_level /\ d.validated = c.validated
        /\ d.handshake_complete = TRUE
    BY Zenon, <1>1, <2>1 DEF Gate
  <2> HIDE DEF d
  <2> QED BY <1>2, <1>3, <2>2, <2>3 DEF Earned
<1>7. CASE CloseConn(b)
  <2> DEFINE ph == IF c.phase = ACTIVE /\ b THEN DRAINING ELSE NextPhase(c.phase)
             d == [c EXCEPT !.phase = ph]
  <2>1. ph \in Phases
    BY <1>1 DEF Gate, NextPhase, Phases, ACTIVE, CLOSING, DRAINING, CLOSED
  <2>2. io' = [io EXCEPT !.loop = d]
    BY <1>7 DEF CloseConn, Close
  <2> HIDE DEF ph
  <2>3. d \in Gate /\ d.sent = c.sent /\ d.send_level = c.send_level /\ d.validated = c.validated
        /\ d.handshake_complete = c.handshake_complete /\ d.handshake_confirmed = c.handshake_confirmed
    BY <1>1, <2>1 DEF Gate
  <2> HIDE DEF d
  <2> QED BY <1>2, <1>3, <2>2, <2>3 DEF Earned
<1>8. CASE PullStream
  <2>0. PICK cap \in 0 .. ReasmCap : io' = Pull(io, cap)
    BY <1>8 DEF PullStream
  <2> DEFINE n == io.read_off + Pulled(io, cap)
  <2>1. Deliver(io.have) \in 0 .. ReasmCap /\ io.read_off \in Nat /\ io.read_off <= Deliver(io.have)
    <3>1. io.read_off \in Nat
      BY <1>1 DEF IO
    <3> QED BY <1>1, <3>1, DeliverEnds
  <2>2. n \in Nat /\ n <= Deliver(io.have)
    BY <2>1, ConnIOAssumption DEF Pulled
  <2>3. io' = [io EXCEPT !.read_off = n]
    BY <2>0 DEF Pull
  <2> HIDE DEF n
  <2>4. io' \in IO /\ io'.loop = c /\ io'.tx = io.tx /\ io'.read_off = n /\ io'.have = io.have
    BY <1>1, <2>2, <2>3 DEF IO
  <2>5. io'.read_off <= Deliver(io'.have)
    BY <2>2, <2>4
  <2>6. EndInv'
    BY <1>1, <1>2, <2>4, <2>5, KeptInv
  <2> QED BY <1>2, <2>4, <2>6
<1> QED BY <1>4, <1>5, <1>6, <1>7, <1>8 DEF Owner

\* Every step of the endpoint.
LEMMA EndStep == EndInv /\ [Next]_vars => EndInv'
<1> SUFFICES ASSUME EndInv, [Next]_vars PROVE EndInv'
  OBVIOUS
<1>1. CASE UNCHANGED vars
  <2>1. io' = io /\ wire' = wire /\ unacked' = unacked /\ got' = got
    BY <1>1 DEF vars
  <2>2. io \in IO /\ io.read_off <= Deliver(io.have) /\ got \in SUBSET (Levels \X Nat)
    BY DEF EndInv
  <2> QED BY <2>1, <2>2, KeptInv
<1>2. ASSUME NEW level \in Levels, NEW len \in Lens, NEW fits \in BOOLEAN, Send(level, len, fits) PROVE EndInv'
  BY <1>2, SendInv
<1>3. ASSUME NEW level \in Levels, NEW frames \in Payloads, NEW pn \in 0 .. MaxPeerPn, NEW opens \in BOOLEAN,
             Recv(level, pn, frames, opens)
      PROVE  EndInv'
  BY <1>3, RecvInv
<1>4. ASSUME NEW level \in Levels, NEW pn \in 0 .. MaxPeerPn, NEW lo \in 0 .. MaxCalls, NEW hi \in 0 .. MaxCalls,
             RecvAck(level, pn, lo, hi)
      PROVE  EndInv'
  BY Zenon, <1>4, RecvAckInv
<1>5. ASSUME NEW level \in Levels, NEW b \in BOOLEAN, Owner(level, b) PROVE EndInv'
  BY <1>5, OwnerInv
<1>6. INITIAL \in Levels
  BY DEF Levels
<1> QED BY Zenon, <1>1, <1>2, <1>3, <1>4, <1>5, <1>6 DEF Next, Owner

\* No packet number is sealed twice at one level, for any number of packets,
\* although a seal that fails leaves the number to the next packet: no AEAD
\* nonce is reused (connio.c:55-83, pnspace.c:8-12).
THEOREM NumbersAlwaysUnique == Spec => []NumbersUnique
<1>1. Init => EndInv
  BY EndStart
<1>2. EndInv /\ [Next]_vars => EndInv'
  BY EndStep
<1>3. EndInv => NumbersUnique
  BY DEF EndInv
<1> QED BY <1>1, <1>2, <1>3, PTL DEF Spec

\* The endpoint never seals at 1-RTT before the handshake is complete, never
\* goes back a level, never counts an address as validated before a Handshake
\* packet opened, and never reads past what arrived, for any payloads in any
\* order (connio.c:55-63, 107-120).
THEOREM LevelsAlwaysEarned == Spec => []LevelsEarned
<1>1. Init => EndInv
  BY EndStart
<1>2. EndInv /\ [Next]_vars => EndInv'
  BY EndStep
<1>3. EndInv => LevelsEarned
  BY DEF EndInv, LevelsEarned, TypeOK
<1> QED BY <1>1, <1>2, <1>3, PTL DEF Spec

-----------------------------------------------------------------------------
(***************************************************************************)
(* Tracking.  A full table drops the packet it is given (the caller does   *)
(* not look at the result), so this holds as long as the gate lets no more *)
(* packets through than the table has slots: no more slots are used than   *)
(* packets were let through.                                               *)
(***************************************************************************)
Used(t) == {i \in Slots : t[i] # Free}

TrackInv ==
  /\ EndInv
  /\ calls \in 0 .. MaxCalls /\ Cardinality(Used(io.loop.sent)) <= calls
  /\ UnackedTrackedAtOneLevel

\* The slots are finitely many.
LEMMA UsedFinite ==
  ASSUME NEW t PROVE IsFiniteSet(Used(t)) /\ Cardinality(Used(t)) \in Nat
<1>1. IsFiniteSet(Slots)
  BY SentCapAssumption, FS_Interval DEF Slots
<1>2. Used(t) \subseteq Slots
  BY DEF Used
<1> QED BY <1>1, <1>2, FS_Subset, FS_CardinalityType

\* A packet takes one slot.
LEMMA SendUses ==
  ASSUME NEW t \in SentTable, NEW pn \in Nat
  PROVE  Cardinality(Used(SentOnSend(t, pn))) <= Cardinality(Used(t)) + 1
<1> DEFINE u == SentOnSend(t, pn)
           k == FreeSlot(t)
<1>1. Cardinality(Used(t)) \in Nat /\ IsFiniteSet(Used(t))
  BY UsedFinite
<1>2. CASE ~HasRoom(t)
  <2>1. u = t
    BY <1>2 DEF SentOnSend
  <2> QED BY <1>1, <2>1
<1>3. CASE HasRoom(t)
  <2>1. u = [t EXCEPT ![k] = pn] /\ k \in Slots /\ t[k] = Free
    BY <1>3, FreeSlotIsFree DEF SentOnSend
  <2> HIDE DEF k
  <2>2. \A i \in Slots : u[i] = IF i = k THEN pn ELSE t[i]
    BY <2>1 DEF SentTable
  <2> HIDE DEF u
  <2>3. pn # Free
    BY DEF Free
  <2>4. Used(u) = Used(t) \union {k} /\ k \notin Used(t)
    BY <2>1, <2>2, <2>3 DEF Used
  <2>5. Cardinality(Used(u)) = Cardinality(Used(t)) + 1
    BY Zenon, <1>1, <2>4, FS_AddElement
  <2> QED BY <1>1, <2>5 DEF u
<1> QED BY <1>2, <1>3

\* While fewer slots are used than there are, one is free.
LEMMA RoomLeft ==
  ASSUME NEW t \in SentTable, Cardinality(Used(t)) < SentCap
  PROVE  HasRoom(t)
<1> SUFFICES ASSUME ~HasRoom(t) PROVE FALSE
  OBVIOUS
<1>1. Used(t) = Slots
  BY DEF HasRoom, Used
<1>2. Cardinality(Slots) = SentCap
  BY SentCapAssumption, FS_Interval DEF Slots
<1> QED BY <1>1, <1>2, SentCapAssumption

\* Freeing slots uses no more of them.
LEMMA FreeingUses ==
  ASSUME NEW t, NEW u, \A i \in Slots : u[i] \in {t[i], Free}
  PROVE  Cardinality(Used(u)) <= Cardinality(Used(t))
<1>1. Used(u) \subseteq Used(t) /\ IsFiniteSet(Used(t))
  BY UsedFinite DEF Used
<1> QED BY <1>1, FS_Subset

\* A step that leaves the table, the level, the count and what is outstanding.
LEMMA KeptTracked ==
  ASSUME TrackInv, EndInv', io'.loop.sent = io.loop.sent, io'.loop.send_level = io.loop.send_level,
         calls' = calls, unacked' = unacked
  PROVE  TrackInv'
BY DEF TrackInv, UnackedTrackedAtOneLevel

\* A packet let through is tracked: there is a slot for it.
LEMMA SendTracked ==
  ASSUME MaxCalls <= SentCap, TrackInv, NEW level \in Levels, NEW len \in Lens, NEW fits \in BOOLEAN,
         Send(level, len, fits), EndInv'
  PROVE  TrackInv'
<1> DEFINE t == io.loop.sent
           pn == io.tx[level]
           b == IOSend(io, level, len, fits)
           ready == SendReady(io, level, len)
<1>1. /\ len \in Nat /\ io \in IO /\ t \in SentTable /\ pn \in Nat /\ MaxCalls \in Nat /\ SentCap \in Nat
      /\ calls \in 0 .. MaxCalls /\ Cardinality(Used(t)) <= calls /\ UnackedTrackedAtOneLevel
      /\ \A p \in unacked : p \in Levels \X Nat /\ p[1] <= io.loop.send_level
  BY Zenon, PeerAssumption, SentCapAssumption DEF TrackInv, EndInv, IO, Gate
<1>2. /\ calls < MaxCalls /\ calls' = calls + (IF ready THEN 1 ELSE 0) /\ io' = b
      /\ unacked' = IF ready /\ fits THEN unacked \union {<<level, pn>>} ELSE unacked
  BY DEF Send
<1>3. CASE ~ready
  <2>1. io' = io /\ unacked' = unacked /\ calls' = calls
    BY <1>1, <1>2, <1>3 DEF IOSend
  <2> QED BY <2>1, KeptTracked
<1>4. CASE ready
  <2>1. b.loop.send_level = level /\ b.loop.sent = SentOnSend(t, pn) /\ io.loop.send_level <= level
    <3>1. io \in IO /\ len \in Nat /\ SendReady(io, level, len)
      BY <1>1, <1>4
    <3>2. /\ b \in IO /\ b.read_off = io.read_off /\ b.have = io.have
          /\ b.loop.send_level = level /\ b.loop.validated = io.loop.validated
          /\ b.loop.handshake_complete = io.loop.handshake_complete
          /\ b.loop.handshake_confirmed = io.loop.handshake_confirmed
          /\ b.loop.sent = SentOnSend(io.loop.sent, io.tx[level])
          /\ b.tx = IF fits THEN [io.tx EXCEPT ![level] = io.tx[level] + 1] ELSE io.tx
          /\ io.loop.send_level <= level
          /\ level = ONERTT => io.loop.send_level = ONERTT \/ Earned(io.loop)
      BY <3>1, SendFacts, SMTT(20)
    <3> QED BY <3>2
  <2> HIDE DEF b, t
  <2>2. Cardinality(Used(t)) \in Nat
    BY UsedFinite
  <2>3. HasRoom(t)
    <3>1. Cardinality(Used(t)) < SentCap
      BY <1>1, <1>2, <2>2, SMTT(20)
    <3> QED BY <1>1, <3>1, RoomLeft
  <2>4. InFlight(SentOnSend(t, pn)) = InFlight(t) \union {pn}
    BY <1>1, <2>3, InFlightSend
  <2>5. calls' \in 0 .. MaxCalls /\ Cardinality(Used(io'.loop.sent)) <= calls'
    <3> DEFINE n == Cardinality(Used(SentOnSend(t, pn)))
    <3>1. n <= Cardinality(Used(t)) + 1 /\ n \in Nat
      BY <1>1, SendUses, UsedFinite
    <3>2. Cardinality(Used(io'.loop.sent)) = n
      BY <1>2, <2>1
    <3> HIDE DEF n
    <3>3. calls' = calls + 1
      BY <1>2, <1>4
    <3> QED BY <1>1, <1>2, <2>2, <3>1, <3>2, <3>3, SMTT(20)
  <2>6. ASSUME io'.loop.send_level = INITIAL, NEW p \in unacked'
        PROVE  p[2] \in InFlight(io'.loop.sent)
    <3>1. level = INITIAL
      BY <1>2, <2>1, <2>6
    <3>2. CASE p \in unacked
      <4>1. io.loop.send_level = INITIAL
        <5>1. p[1] \in Levels /\ p[1] <= io.loop.send_level /\ io.loop.send_level \in Levels \union {NoLevel}
          BY <1>1, <3>2 DEF IO, Gate
        <5>2. io.loop.send_level <= INITIAL
          BY <2>1, <3>1
        <5> QED BY <5>1, <5>2 DEF Levels, INITIAL, HANDSHAKE, ONERTT, NoLevel
      <4> QED BY <1>1, <1>2, <2>1, <2>4, <3>2, <4>1 DEF UnackedTrackedAtOneLevel, t
    <3>3. CASE p \notin unacked
      <4>1. p[2] = pn
        BY <1>2, <2>6, <3>3
      <4> QED BY <1>2, <2>1, <2>4, <4>1
    <3> QED BY <3>2, <3>3
  <2>7. UnackedTrackedAtOneLevel'
    BY <2>6 DEF UnackedTrackedAtOneLevel
  <2> QED BY <2>5, <2>7 DEF TrackInv
<1> QED BY <1>3, <1>4

\* A report frees the slots of the numbers it covers, and those are no longer
\* outstanding at its level, the only one in use.
LEMMA RecvAckTracked ==
  ASSUME TrackInv, NEW level \in Levels, NEW pn \in 0 .. MaxPeerPn, NEW lo \in 0 .. MaxCalls,
         NEW hi \in 0 .. MaxCalls, RecvAck(level, pn, lo, hi)
  PROVE  TrackInv'
<1> DEFINE t == io.loop.sent
           ranges == <<hi - lo>>
           u == AckProcess(t, hi, ranges)
           in == OnRecvResult(io.loop, level)
<1>1. /\ io \in IO /\ t \in SentTable /\ MaxCalls \in Nat /\ hi \in Int /\ lo \in Int /\ hi \in Nat
      /\ calls \in 0 .. MaxCalls /\ Cardinality(Used(t)) <= calls /\ UnackedTrackedAtOneLevel
      /\ \A p \in unacked : p \in Levels \X Nat /\ p[1] <= io.loop.send_level
  BY PeerAssumption, SMTT(20) DEF TrackInv, EndInv, IO, Gate
<1>2. EndInv
  BY DEF TrackInv
<1>3. /\ EndInv' /\ io'.loop.send_level = io.loop.send_level
      /\ io'.loop.sent = IF in THEN u ELSE t
  BY <1>2, RecvAckInv
<1>4. calls' = calls /\ unacked' = (IF in THEN unacked \ ({level} \X (lo .. hi)) ELSE unacked) /\ hi < io.tx[level]
  BY DEF RecvAck
<1>5. CASE ~in
  BY <1>3, <1>4, <1>5, KeptTracked
<1>6. CASE in
  <2>1. \A i \in Slots : u[i] \in {t[i], Free}
    BY <1>1, AckProcessFacts
  <2>2. ranges # <<>>
    OBVIOUS
  <2>3. \A n \in Int : Covered(n, AckBlocks(hi, ranges)) <=> lo <= n /\ n <= hi
    BY Zenon, <1>1, OneBlock
  <2> HIDE DEF ranges
  <2>4. InFlight(u) = {n \in InFlight(t) : ~Covered(n, AckBlocks(hi, ranges))}
    BY <1>1, <2>2, InFlightAck
  <2> HIDE DEF u, t, in
  <2>5. Cardinality(Used(u)) <= Cardinality(Used(t)) /\ Cardinality(Used(u)) \in Nat /\ Cardinality(Used(t)) \in Nat
    BY <2>1, FreeingUses, UsedFinite
  <2>6. io'.loop.sent = u
    BY <1>3, <1>6
  <2>7. Cardinality(Used(io'.loop.sent)) <= calls' /\ calls' \in 0 .. MaxCalls
    <3>1. calls \in Int
      BY <1>1
    <3> QED BY <1>1, <1>4, <2>5, <2>6, <3>1
  <2>8. ASSUME io'.loop.send_level = INITIAL, NEW p \in unacked' PROVE p[2] \in InFlight(u)
    <3>1. p \in unacked /\ p \notin {level} \X (lo .. hi)
      BY <1>4, <1>6, <2>8
    <3>2. io.loop.send_level = INITIAL
      BY <1>3, <2>8
    <3>3. p[2] \in InFlight(t)
      BY <1>1, <3>1, <3>2 DEF UnackedTrackedAtOneLevel, t
    <3>4. p[1] \in Levels /\ p[2] \in Nat /\ p = <<p[1], p[2]>> /\ p[1] <= INITIAL
      BY <1>1, <3>1, <3>2
    <3>5. p[1] = INITIAL
      BY <3>4 DEF Levels, INITIAL, HANDSHAKE, ONERTT
    <3>6. level = INITIAL
      <4>1. io.tx[level] \in Nat /\ io.tx[level] > 0
        BY <1>1, <1>4 DEF IO
      <4>2. level <= INITIAL
        BY <1>2, <3>2, <4>1 DEF EndInv
      <4> QED BY <4>2 DEF Levels, INITIAL, HANDSHAKE, ONERTT
    <3>7. p[2] \notin lo .. hi
      BY <3>1, <3>4, <3>5, <3>6
    <3>8. ~Covered(p[2], AckBlocks(hi, ranges))
      BY <1>1, <2>3, <3>4, <3>7
    <3> QED BY <2>4, <3>3, <3>8
  <2>9. UnackedTrackedAtOneLevel'
    BY <2>6, <2>8 DEF UnackedTrackedAtOneLevel
  <2> QED BY <1>3, <2>7, <2>9 DEF TrackInv
<1> QED BY <1>5, <1>6

\* While one level is in use the endpoint forgets no packet that the peer has
\* not acknowledged, whatever is lost, repeated or reordered, as long as the
\* gate lets no more packets through than the table holds
\* (dispatch_state.c:18-35, ack_process.c:24-41).
THEOREM UnackedAlwaysTracked ==
  ASSUME MaxCalls <= SentCap
  PROVE  Spec => []UnackedTrackedAtOneLevel
<1>1. Init => TrackInv
  <2> SUFFICES ASSUME Init PROVE TrackInv
    OBVIOUS
  <2>1. EndInv
    BY EndStart
  <2>2. io.loop = GateInit /\ unacked = {} /\ calls = 0
    BY DEF Init, IOInit
  <2>3. GateInit.sent = SentInit
    BY DEF GateInit
  <2>4. Used(SentInit) = {} /\ Cardinality({}) = 0
    BY FS_EmptySet DEF Used, SentInit
  <2>5. Cardinality(Used(io.loop.sent)) = 0
    BY <2>2, <2>3, <2>4
  <2>6. calls \in 0 .. MaxCalls /\ Cardinality(Used(io.loop.sent)) <= calls
    BY <2>2, <2>5, PeerAssumption
  <2>7. UnackedTrackedAtOneLevel
    BY <2>2 DEF UnackedTrackedAtOneLevel
  <2> QED BY <2>1, <2>6, <2>7 DEF TrackInv
<1>2. TrackInv /\ [Next]_vars => TrackInv'
  <2> SUFFICES ASSUME TrackInv, [Next]_vars PROVE TrackInv'
    OBVIOUS
  <2>1. EndInv /\ EndInv'
    BY EndStep DEF TrackInv
  <2>2. CASE UNCHANGED vars
    <3>1. io' = io /\ unacked' = unacked /\ calls' = calls
      BY <2>2 DEF vars
    <3> QED BY <2>1, <3>1, KeptTracked
  <2>3. ASSUME NEW level \in Levels, NEW len \in Lens, NEW fits \in BOOLEAN, Send(level, len, fits) PROVE TrackInv'
    BY <2>1, <2>3, SendTracked
  <2>4. ASSUME NEW level \in Levels, NEW frames \in Payloads, NEW pn \in 0 .. MaxPeerPn, NEW opens \in BOOLEAN,
               Recv(level, pn, frames, opens)
        PROVE  TrackInv'
    <3>1. io'.loop.sent = io.loop.sent /\ io'.loop.send_level = io.loop.send_level
      BY <2>1, <2>4, RecvInv
    <3>2. calls' = calls /\ unacked' = unacked
      BY <2>4 DEF Recv
    <3> QED BY <2>1, <3>1, <3>2, KeptTracked
  <2>5. ASSUME NEW level \in Levels, NEW pn \in 0 .. MaxPeerPn, NEW lo \in 0 .. MaxCalls, NEW hi \in 0 .. MaxCalls,
               RecvAck(level, pn, lo, hi)
        PROVE  TrackInv'
    BY <2>5, RecvAckTracked
  <2>6. ASSUME NEW level \in Levels, NEW b \in BOOLEAN, Owner(level, b) PROVE TrackInv'
    <3>1. io'.loop.sent = io.loop.sent /\ io'.loop.send_level = io.loop.send_level /\ UNCHANGED <<unacked, calls>>
      BY <2>1, <2>6, OwnerInv
    <3> QED BY <2>1, <3>1, KeptTracked
  <2>7. INITIAL \in Levels
    BY DEF Levels
  <2> QED BY Zenon, <2>2, <2>3, <2>4, <2>5, <2>6, <2>7 DEF Next, Owner
<1>3. TrackInv => UnackedTrackedAtOneLevel
  BY DEF TrackInv
<1> QED BY <1>1, <1>2, <1>3, PTL DEF Spec
=============================================================================
