---------------------------- MODULE EvLoopProofs ----------------------------
(***************************************************************************)
(* The event loop keeps its gate sound, for every level, window, packet    *)
(* size, queue bound and owner schedule.  LoopInv is the type of the loop, *)
(* the queue bounds and the gate invariant at the loop's next packet       *)
(* number; the lemmas follow the phases of one iteration in order.         *)
(***************************************************************************)
EXTENDS EvLoopSys, ConnGateProofs

LoopInv(e) ==
  /\ e \in Loop
  /\ Len(e.rx) <= QCap /\ Len(e.rtx) <= QCap
  /\ GateInv(e.gate, e.next_pn)

\* The byte count of a drained queue is a natural number.
LEMMA ProductNat == \A a, b \in Nat : a * b \in Nat
OBVIOUS

\* A queue without its last element is one shorter.
LEMMA LastDropped ==
  ASSUME NEW q \in Seq(Nat), q # <<>>
  PROVE  /\ Len(q) \in Nat /\ Len(q) # 0
         /\ SubSeq(q, 1, Len(q) - 1) \in Seq(Nat)
         /\ Len(SubSeq(q, 1, Len(q) - 1)) = Len(q) - 1
<1> DEFINE n == Len(q) - 1
           s == SubSeq(q, 1, n)
<1>1. Len(q) \in Nat /\ Len(q) # 0
  OBVIOUS
<1>2. s \in Seq(Nat)
  BY <1>1
<1>3. DOMAIN s = 1 .. n
  BY <1>1
<1> HIDE DEF s
<1>4. Len(s) \in Nat /\ DOMAIN s = 1 .. Len(s)
  BY <1>2
<1>5. n \in Nat
  BY <1>1
<1> HIDE DEF n
<1>6. ~(Len(s) < n) /\ ~(n < Len(s))
  <2>1. n \in 1 .. n \/ n = 0
    BY <1>5
  <2>2. Len(s) \in 1 .. Len(s) \/ Len(s) = 0
    BY <1>4
  <2> QED BY <1>3, <1>4, <1>5, <2>1, <2>2
<1>7. \A l, m \in Nat : ~(l < m) /\ ~(m < l) => l = m
  OBVIOUS
<1>8. Len(s) = n
  BY Zenon, <1>4, <1>5, <1>6, <1>7
<1> QED BY <1>1, <1>2, <1>8 DEF s, n

\* quic_evloop_init.
LEMMA LoopInitInv == LoopInv(LoopInit)
<1>1. GateInit \in Gate /\ GateInv(GateInit, 0)
  BY GateInitInv DEF GateInv
<1>2. LoopInit \in Loop
  BY <1>1 DEF LoopInit, Loop, Timer, Off
<1> QED BY <1>1, <1>2, EvLoopAssumption DEF LoopInv, LoopInit

\* A change that leaves the gate, the counter and the queues alone.
LEMMA SameCore ==
  ASSUME NEW e, LoopInv(e), NEW f \in Loop, f.gate = e.gate,
         f.next_pn = e.next_pn, f.rx = e.rx, f.rtx = e.rtx
  PROVE  LoopInv(f)
BY DEF LoopInv

\* quic_evloop_on_receive respects the bound of the queue.
LEMMA OnReceiveInv ==
  ASSUME NEW e, LoopInv(e), NEW b \in BOOLEAN
  PROVE  LoopInv(OnReceive(e, b))
<1>1. CASE Len(e.rx) >= QCap
  BY <1>1 DEF OnReceive
<1>2. CASE ~(Len(e.rx) >= QCap)
  <2> DEFINE f == [e EXCEPT !.rx = Append(e.rx, b)]
  <2>1. OnReceive(e, b) = f
    BY <1>2 DEF OnReceive
  <2>2. e \in Loop /\ e.rx \in Seq(BOOLEAN)
    BY DEF LoopInv, Loop
  <2>3. Append(e.rx, b) \in Seq(BOOLEAN) /\ Len(Append(e.rx, b)) = Len(e.rx) + 1
    BY <2>2
  <2>4. Len(e.rx) \in Nat
    BY <2>2
  <2>5. f \in Loop /\ f.rx = Append(e.rx, b) /\ f.gate = e.gate
        /\ f.next_pn = e.next_pn /\ f.rtx = e.rtx
    BY Zenon, <2>2, <2>3 DEF Loop
  <2>6. Len(f.rx) <= QCap
    BY <1>2, <2>3, <2>4, <2>5, EvLoopAssumption
  <2> HIDE DEF f
  <2> QED BY <2>1, <2>5, <2>6 DEF LoopInv
<1> QED BY <1>1, <1>2

\* Phase 1 empties the receive queue into the gate's byte count.
LEMMA PhaseReceiveInv ==
  ASSUME NEW e, LoopInv(e)
  PROVE  LoopInv(PhaseReceive(e))
<1> DEFINE n == Len(e.rx) * SendLen
           a == e.ack_owed \/ AnyEliciting(e.rx)
           f == PhaseReceive(e)
<1> SUFFICES LoopInv(f)
  OBVIOUS
<1>1. e \in Loop /\ e.rx \in Seq(BOOLEAN) /\ e.next_pn \in Nat
  BY DEF LoopInv, Loop
<1>2. n \in Nat
  BY <1>1, ProductNat, EvLoopAssumption
<1>3. GateInv(OnRecv(e.gate, n), e.next_pn)
  BY <1>1, <1>2, OnRecvInv DEF LoopInv
<1>4. f = [e EXCEPT !.gate = OnRecv(e.gate, n), !.ack_owed = a, !.rx = <<>>]
  BY <1>1 DEF PhaseReceive, Loop
<1>5. a \in BOOLEAN /\ <<>> \in Seq(BOOLEAN) /\ Len(<<>>) = 0
  BY <1>1 DEF AnyEliciting, Loop
<1> HIDE DEF n, a
<1>6. OnRecv(e.gate, n) \in Gate
  BY <1>3 DEF GateInv
<1>7. f \in Loop
  BY Zenon, <1>1, <1>4, <1>5, <1>6 DEF Loop
<1>8. f.gate = OnRecv(e.gate, n) /\ f.next_pn = e.next_pn /\ f.rx = <<>>
      /\ f.rtx = e.rtx
  BY <1>1, <1>4 DEF Loop
<1> HIDE DEF f
<1> QED BY <1>3, <1>5, <1>7, <1>8, EvLoopAssumption DEF LoopInv

\* A PTO probe asks the anti-amplification gate before the connection gate.
LEMMA PtoActInv ==
  ASSUME NEW e, LoopInv(e)
  PROVE  LoopInv(PtoAct(e))
<1>1. CASE AntiampOk(e) /\ OnPtoResult(e.gate, Level)
  <2> DEFINE g == OnPto(e.gate, Level, e.next_pn, SendLen)
             m == e.next_pn + 1
             f == [e EXCEPT !.gate = g, !.next_pn = m]
  <2>1. PtoAct(e) = f
    BY <1>1 DEF PtoAct
  <2>2. e \in Loop /\ e.next_pn \in Nat
    BY DEF LoopInv, Loop
  <2>3. GateInv(g, m)
    BY <1>1, <2>2, OnPtoInv, EvLoopAssumption DEF AntiampOk, LoopInv
  <2>4. g \in Gate /\ m \in Nat
    BY <2>2, <2>3 DEF GateInv
  <2> HIDE DEF g, m
  <2>5. f \in Loop /\ f.gate = g /\ f.next_pn = m
        /\ f.rx = e.rx /\ f.rtx = e.rtx
    BY Zenon, <2>2, <2>4 DEF Loop
  <2> HIDE DEF f
  <2> QED BY <2>1, <2>3, <2>5 DEF LoopInv
<1>2. CASE ~(AntiampOk(e) /\ OnPtoResult(e.gate, Level))
  BY <1>2 DEF PtoAct
<1> QED BY <1>1, <1>2

\* The loss timer respects the bound of the resend queue and never takes the
\* bytes in flight below zero.
LEMMA LossActInv ==
  ASSUME NEW e, LoopInv(e)
  PROVE  LoopInv(LossAct(e))
<1>1. CASE Len(e.rtx) >= QCap
  BY <1>1 DEF LossAct
<1>2. CASE ~(Len(e.rtx) >= QCap)
  <2> DEFINE q == Append(e.rtx, e.next_pn)
             b == IF e.bytes_in_flight >= SendLen
                  THEN e.bytes_in_flight - SendLen ELSE e.bytes_in_flight
             f == [e EXCEPT !.rtx = q, !.bytes_in_flight = b]
  <2>1. LossAct(e) = f
    BY <1>2 DEF LossAct
  <2>2. e \in Loop /\ e.rtx \in Seq(Nat) /\ e.next_pn \in Nat
        /\ e.bytes_in_flight \in Nat
    BY DEF LoopInv, Loop
  <2>3. q \in Seq(Nat) /\ Len(q) = Len(e.rtx) + 1 /\ Len(e.rtx) \in Nat
    BY <2>2
  <2>4. b \in Nat
    BY <2>2, EvLoopAssumption
  <2>5. Len(q) <= QCap
    BY <1>2, <2>3, EvLoopAssumption
  <2> HIDE DEF q, b
  <2>6. f \in Loop /\ f.gate = e.gate /\ f.next_pn = e.next_pn
        /\ f.rx = e.rx /\ f.rtx = q
    BY Zenon, <2>2, <2>3, <2>4 DEF Loop
  <2> HIDE DEF f
  <2> QED BY <2>1, <2>5, <2>6 DEF LoopInv
<1> QED BY <1>1, <1>2

\* Replacing the gate by one that is as sound.
LEMMA GateSwap ==
  ASSUME NEW e, LoopInv(e), NEW g, GateInv(g, e.next_pn)
  PROVE  LoopInv([e EXCEPT !.gate = g])
<1> DEFINE f == [e EXCEPT !.gate = g]
<1>1. e \in Loop /\ g \in Gate
  BY DEF LoopInv, GateInv
<1>2. f \in Loop /\ f.gate = g /\ f.next_pn = e.next_pn
      /\ f.rx = e.rx /\ f.rtx = e.rtx
  BY <1>1 DEF Loop
<1> QED BY <1>2 DEF LoopInv

\* Phase 2: each timer is disarmed, then acts on a sound loop.
LEMMA PhaseTimersInv ==
  ASSUME NEW e, LoopInv(e), NEW t \in Nat
  PROVE  LoopInv(PhaseTimers(e, t))
<1>1. ASSUME NEW f, LoopInv(f)
      PROVE  /\ LoopInv([f EXCEPT !.pto = Off])
             /\ LoopInv([f EXCEPT !.loss = Off])
             /\ LoopInv([f EXCEPT !.idle = Off])
  <2>1. f \in Loop /\ Off \in Timer
    BY <1>1 DEF LoopInv, Timer
  <2>2. LoopInv([f EXCEPT !.pto = Off])
    BY <1>1, <2>1, SameCore DEF Loop
  <2>3. LoopInv([f EXCEPT !.loss = Off])
    BY <1>1, <2>1, SameCore DEF Loop
  <2>4. LoopInv([f EXCEPT !.idle = Off])
    BY <1>1, <2>1, SameCore DEF Loop
  <2> QED BY <2>2, <2>3, <2>4
<1>2. ASSUME NEW f, LoopInv(f) PROVE LoopInv(RunPto(f, t))
  BY Zenon, <1>1, <1>2, PtoActInv DEF RunPto
<1>3. ASSUME NEW f, LoopInv(f) PROVE LoopInv(RunLoss(f, t))
  BY Zenon, <1>1, <1>3, LossActInv DEF RunLoss
<1>4. ASSUME NEW f, LoopInv(f) PROVE LoopInv(IdleAct(f))
  <2>1. f \in Loop /\ f.next_pn \in Nat /\ GateInv(f.gate, f.next_pn)
    BY <1>4 DEF LoopInv, Loop
  <2>2. GateInv(Close(f.gate, FALSE), f.next_pn)
    BY Zenon, <2>1, OwnerCallsInv, EvLoopAssumption
  <2>3. LoopInv([f EXCEPT !.gate = Close(f.gate, FALSE)])
    BY Zenon, <1>4, <2>2, GateSwap
  <2> QED BY <2>3 DEF IdleAct
<1>5. ASSUME NEW f, LoopInv(f) PROVE LoopInv(RunIdle(f, t))
  BY Zenon, <1>1, <1>4, <1>5 DEF RunIdle
<1> QED BY <1>2, <1>3, <1>5 DEF PhaseTimers

\* Emitting spends a fresh number whether or not the gate admits the packet.
LEMMA EmitInv ==
  ASSUME NEW e, LoopInv(e)
  PROVE  LoopInv(Emit(e))
<1> DEFINE g == OnSend(e.gate, Level, TRUE, e.next_pn, SendLen)
           m == e.next_pn + 1
           b == e.bytes_in_flight + SendLen
           f == [e EXCEPT !.gate = g, !.next_pn = m, !.bytes_in_flight = b]
<1>1. Emit(e) = f
  BY DEF Emit
<1>2. e \in Loop /\ e.next_pn \in Nat /\ e.bytes_in_flight \in Nat
  BY DEF LoopInv, Loop
<1>3. GateInv(g, m)
  BY Zenon, <1>2, OnSendInv, EvLoopAssumption DEF LoopInv
<1>4. m \in Nat /\ b \in Nat
  BY <1>2, EvLoopAssumption
<1>6. g \in Gate
  BY Zenon, <1>3 DEF GateInv
<1> HIDE DEF g, m, b
<1>5. f \in Loop /\ f.gate = g /\ f.next_pn = m /\ f.rx = e.rx /\ f.rtx = e.rtx
  BY Zenon, <1>2, <1>4, <1>6 DEF Loop
<1> HIDE DEF f
<1> QED BY <1>1, <1>3, <1>5 DEF LoopInv

\* Giving up a queued retransmission.
LEMMA DropRtxInv ==
  ASSUME NEW e, LoopInv(e), e.rtx # <<>>
  PROVE  LoopInv([e EXCEPT !.rtx = SubSeq(e.rtx, 1, Len(e.rtx) - 1)])
<1> DEFINE q == SubSeq(e.rtx, 1, Len(e.rtx) - 1)
           f == [e EXCEPT !.rtx = q]
<1> SUFFICES LoopInv(f)
  OBVIOUS
<1>1. e \in Loop /\ e.rtx \in Seq(Nat)
  BY DEF LoopInv, Loop
<1>2. Len(e.rtx) \in Nat /\ Len(e.rtx) # 0
  BY <1>1, LastDropped
<1>3. q \in Seq(Nat) /\ Len(q) = Len(e.rtx) - 1
  BY <1>1, LastDropped
<1>4. Len(q) <= QCap
  BY <1>2, <1>3, EvLoopAssumption DEF LoopInv
<1> HIDE DEF q
<1>5. f \in Loop /\ f.gate = e.gate /\ f.next_pn = e.next_pn /\ f.rx = e.rx
      /\ f.rtx = q
  BY Zenon, <1>1, <1>3 DEF Loop
<1> QED BY <1>4, <1>5 DEF LoopInv

\* Phase 3.
LEMMA PhaseSendInv ==
  ASSUME NEW e, LoopInv(e)
  PROVE  LoopInv(PhaseSend(e))
<1>1. LoopInv([Emit(e) EXCEPT !.ack_owed = FALSE])
  <2> DEFINE f == Emit(e)
  <2>1. LoopInv(f)
    BY EmitInv
  <2> HIDE DEF f
  <2>2. f \in Loop
    BY <2>1 DEF LoopInv
  <2>3. LoopInv([f EXCEPT !.ack_owed = FALSE])
    BY Zenon, <2>1, <2>2, SameCore DEF Loop
  <2> QED BY <2>3 DEF f
<1>2. LoopInv(SendData(e))
  <2>1. CASE e.rtx # <<>>
    BY <2>1, DropRtxInv, EmitInv DEF SendData, EmitRetransmit
  <2>2. CASE e.rtx = <<>>
    BY <2>2, EmitInv DEF SendData
  <2> QED BY <2>1, <2>2
<1> QED BY <1>1, <1>2 DEF PhaseSend

\* quic_evloop_step.
LEMMA StepInv ==
  ASSUME NEW e, LoopInv(e), NEW t \in Nat
  PROVE  LoopInv(StepLoop(e, t))
BY PhaseReceiveInv, PhaseTimersInv, PhaseSendInv DEF StepLoop

\* A phase only moves the gate forward, keeps the key generation and keeps the
\* loop invariant.
Forward(e, f) ==
  /\ LoopInv(f) /\ Grows(e.gate, f.gate)
  /\ f.key_generation = e.key_generation

\* Phases compose.
LEMMA ForwardTrans ==
  ASSUME NEW e, NEW f, NEW g, LoopInv(e), Forward(e, f), Forward(f, g)
  PROVE  Forward(e, g)
BY GrowsTrans DEF Forward, LoopInv, GateInv

\* A change outside the gate and the key generation.
LEMMA SameGateForward ==
  ASSUME NEW e, LoopInv(e), NEW f, LoopInv(f), f.gate = e.gate,
         f.key_generation = e.key_generation
  PROVE  Forward(e, f)
<1>1. e.gate \in Gate
  BY DEF LoopInv, GateInv
<1>2. Grows(e.gate, e.gate)
  BY Zenon, <1>1, CallsGrow, EvLoopAssumption DEF Levels
<1> QED BY <1>2 DEF Forward

\* A change outside the gate, the counter, the queues and the generation.
LEMMA SameCoreForward ==
  ASSUME NEW e, LoopInv(e), NEW f \in Loop, f.gate = e.gate,
         f.next_pn = e.next_pn, f.rx = e.rx, f.rtx = e.rtx,
         f.key_generation = e.key_generation
  PROVE  Forward(e, f)
BY SameCore, SameGateForward

\* Each part of an iteration moves the loop forward.
LEMMA PartsForward ==
  ASSUME NEW e, LoopInv(e)
  PROVE  /\ Forward(e, PhaseReceive(e))
         /\ Forward(e, PtoAct(e)) /\ Forward(e, LossAct(e))
         /\ Forward(e, IdleAct(e)) /\ Forward(e, Emit(e))
<1>0. /\ e \in Loop /\ e.gate \in Gate /\ e.next_pn \in Nat
      /\ e.rx \in Seq(BOOLEAN) /\ GateInv(e.gate, e.next_pn)
  BY DEF LoopInv, GateInv, Loop
<1>1. Forward(e, PhaseReceive(e))
  <2> DEFINE n == Len(e.rx) * SendLen
             f == PhaseReceive(e)
  <2>1. n \in Nat
    BY <1>0, ProductNat, EvLoopAssumption
  <2>2. f.gate = OnRecv(e.gate, n) /\ f.key_generation = e.key_generation
    BY <1>0 DEF PhaseReceive, Loop
  <2>3. LoopInv(f)
    BY PhaseReceiveInv
  <2> HIDE DEF n, f
  <2>4. Grows(e.gate, OnRecv(e.gate, n))
    BY Zenon, <1>0, <2>1, CallsGrow, EvLoopAssumption
  <2>5. Forward(e, f)
    BY <2>2, <2>3, <2>4 DEF Forward
  <2> QED BY <2>5 DEF f
<1>2. Forward(e, PtoAct(e))
  <2>1. CASE AntiampOk(e) /\ OnPtoResult(e.gate, Level)
    <3> DEFINE g == OnPto(e.gate, Level, e.next_pn, SendLen)
               f == PtoAct(e)
    <3>1. f.gate = g /\ f.key_generation = e.key_generation
      BY <1>0, <2>1 DEF PtoAct, Loop
    <3>2. Grows(e.gate, g)
      BY Zenon, <1>0, CallsGrow, EvLoopAssumption
    <3>3. LoopInv(f)
      BY PtoActInv
    <3> HIDE DEF f, g
    <3>4. Forward(e, f)
      BY <3>1, <3>2, <3>3 DEF Forward
    <3> QED BY <3>4 DEF f
  <2>2. CASE ~(AntiampOk(e) /\ OnPtoResult(e.gate, Level))
    BY <2>2, SameGateForward DEF PtoAct
  <2> QED BY <2>1, <2>2
<1>3. Forward(e, LossAct(e))
  <2> DEFINE f == LossAct(e)
  <2>1. f.gate = e.gate /\ f.key_generation = e.key_generation
    BY <1>0 DEF LossAct, Loop
  <2>2. LoopInv(f)
    BY LossActInv
  <2> HIDE DEF f
  <2>3. Forward(e, f)
    BY <2>1, <2>2, SameGateForward
  <2> QED BY <2>3 DEF f
<1>4. Forward(e, IdleAct(e))
  <2> DEFINE g == Close(e.gate, FALSE)
             f == [e EXCEPT !.gate = g]
  <2>1. GateInv(g, e.next_pn) /\ Grows(e.gate, g)
    BY Zenon, <1>0, OwnerCallsInv, CallsGrow, EvLoopAssumption
  <2> HIDE DEF g
  <2>2. LoopInv(f)
    BY <2>1, GateSwap
  <2>3. f.gate = g /\ f.key_generation = e.key_generation
    BY <1>0 DEF Loop
  <2> HIDE DEF f
  <2>4. Forward(e, f)
    BY <2>1, <2>2, <2>3 DEF Forward
  <2> QED BY <2>4 DEF f, g, IdleAct
<1>5. Forward(e, Emit(e))
  <2> DEFINE g == OnSend(e.gate, Level, TRUE, e.next_pn, SendLen)
             f == Emit(e)
  <2>1. f.gate = g /\ f.key_generation = e.key_generation
    BY <1>0 DEF Emit, Loop
  <2>2. Grows(e.gate, g)
    BY Zenon, <1>0, CallsGrow, EvLoopAssumption
  <2>3. LoopInv(f)
    BY EmitInv
  <2> HIDE DEF f, g
  <2>4. Forward(e, f)
    BY <2>1, <2>2, <2>3 DEF Forward
  <2> QED BY <2>4 DEF f
<1> QED BY <1>1, <1>2, <1>3, <1>4, <1>5

\* The timers and the send decision move the loop forward.
LEMMA PhasesForward ==
  ASSUME NEW e, LoopInv(e), NEW t \in Nat
  PROVE  Forward(e, PhaseTimers(e, t)) /\ Forward(e, PhaseSend(e))
<1>1. ASSUME NEW f, LoopInv(f)
      PROVE  /\ Forward(f, [f EXCEPT !.pto = Off])
             /\ Forward(f, [f EXCEPT !.loss = Off])
             /\ Forward(f, [f EXCEPT !.idle = Off])
             /\ Forward(f, [f EXCEPT !.ack_owed = FALSE])
  <2>1. f \in Loop /\ Off \in Timer
    BY <1>1 DEF LoopInv, Timer
  <2>3. Forward(f, [f EXCEPT !.pto = Off])
    <3> DEFINE h == [f EXCEPT !.pto = Off]
    <3>1. /\ h \in Loop /\ h.gate = f.gate /\ h.next_pn = f.next_pn
          /\ h.rx = f.rx /\ h.rtx = f.rtx /\ h.key_generation = f.key_generation
      BY <2>1 DEF Loop, Timer, Off
    <3> SUFFICES Forward(f, h) OBVIOUS
    <3> HIDE DEF h
    <3> QED BY <1>1, <3>1, SameCoreForward
  <2>4. Forward(f, [f EXCEPT !.loss = Off])
    <3> DEFINE h == [f EXCEPT !.loss = Off]
    <3>1. /\ h \in Loop /\ h.gate = f.gate /\ h.next_pn = f.next_pn
          /\ h.rx = f.rx /\ h.rtx = f.rtx /\ h.key_generation = f.key_generation
      BY <2>1 DEF Loop, Timer, Off
    <3> SUFFICES Forward(f, h) OBVIOUS
    <3> HIDE DEF h
    <3> QED BY <1>1, <3>1, SameCoreForward
  <2>5. Forward(f, [f EXCEPT !.idle = Off])
    <3> DEFINE h == [f EXCEPT !.idle = Off]
    <3>1. /\ h \in Loop /\ h.gate = f.gate /\ h.next_pn = f.next_pn
          /\ h.rx = f.rx /\ h.rtx = f.rtx /\ h.key_generation = f.key_generation
      BY Zenon, <2>1 DEF Loop, Timer, Off
    <3> SUFFICES Forward(f, h) OBVIOUS
    <3> HIDE DEF h
    <3> QED BY <1>1, <3>1, SameCoreForward
  <2>6. Forward(f, [f EXCEPT !.ack_owed = FALSE])
    <3> DEFINE h == [f EXCEPT !.ack_owed = FALSE]
    <3>1. /\ h \in Loop /\ h.gate = f.gate /\ h.next_pn = f.next_pn
          /\ h.rx = f.rx /\ h.rtx = f.rtx /\ h.key_generation = f.key_generation
      BY Zenon, <2>1 DEF Loop, Timer, Off
    <3> SUFFICES Forward(f, h) OBVIOUS
    <3> HIDE DEF h
    <3> QED BY <1>1, <3>1, SameCoreForward
  <2> QED BY <2>3, <2>4, <2>5, <2>6
<1>2. ASSUME NEW f, LoopInv(f) PROVE Forward(f, f)
  BY <1>2, SameGateForward
<1>3. ASSUME NEW f, LoopInv(f) PROVE Forward(f, RunPto(f, t))
  BY Zenon, <1>1, <1>2, <1>3, PartsForward, ForwardTrans DEF RunPto, Forward
<1>4. ASSUME NEW f, LoopInv(f) PROVE Forward(f, RunLoss(f, t))
  BY Zenon, <1>1, <1>2, <1>4, PartsForward, ForwardTrans DEF RunLoss, Forward
<1>5. ASSUME NEW f, LoopInv(f) PROVE Forward(f, RunIdle(f, t))
  BY Zenon, <1>1, <1>2, <1>5, PartsForward, ForwardTrans DEF RunIdle, Forward
<1>6. Forward(e, PhaseTimers(e, t))
  BY <1>3, <1>4, <1>5, ForwardTrans DEF PhaseTimers, Forward
<1>7. Forward(e, [Emit(e) EXCEPT !.ack_owed = FALSE])
  BY Zenon, <1>1, PartsForward, ForwardTrans DEF Forward
<1>8. Forward(e, SendData(e))
  <2>1. CASE e.rtx # <<>>
    <3> DEFINE f == [e EXCEPT !.rtx = SubSeq(e.rtx, 1, Len(e.rtx) - 1)]
    <3>1. LoopInv(f)
      BY <2>1, DropRtxInv
    <3>2. f.gate = e.gate /\ f.key_generation = e.key_generation
      BY DEF LoopInv, Loop
    <3>3. SendData(e) = Emit(f)
      BY <2>1 DEF SendData, EmitRetransmit
    <3> HIDE DEF f
    <3>4. Forward(e, f)
      BY <3>1, <3>2, SameGateForward
    <3>5. Forward(f, Emit(f))
      BY <3>1, PartsForward
    <3> QED BY <3>3, <3>4, <3>5, ForwardTrans
  <2>2. CASE e.rtx = <<>>
    BY <1>2, <2>2, PartsForward DEF SendData
  <2> QED BY <2>1, <2>2
<1>9. Forward(e, PhaseSend(e))
  BY <1>2, <1>7, <1>8 DEF PhaseSend
<1> QED BY <1>6, <1>9

\* quic_evloop_step moves the loop forward.
LEMMA StepForward ==
  ASSUME NEW e, LoopInv(e), NEW t \in Nat
  PROVE  Forward(e, StepLoop(e, t))
<1>1. Forward(e, e)
  BY SameGateForward
<1> DEFINE r == PhaseReceive(e)
           m == PhaseTimers(r, t)
<1>2. Forward(e, r)
  BY PartsForward
<1>3. Forward(r, m)
  BY <1>2, PhasesForward DEF Forward
<1>4. Forward(m, PhaseSend(m))
  BY <1>3, PhasesForward DEF Forward
<1>5. StepLoop(e, t) = e \/ StepLoop(e, t) = PhaseSend(m)
  BY DEF StepLoop
<1> HIDE DEF r, m
<1>6. LoopInv(r) /\ LoopInv(m)
  BY <1>2, <1>3 DEF Forward
<1>7. Forward(e, m)
  BY <1>2, <1>3, <1>6, ForwardTrans
<1>8. Forward(e, PhaseSend(m))
  BY <1>4, <1>6, <1>7, ForwardTrans
<1> QED BY <1>1, <1>5, <1>8

-----------------------------------------------------------------------------
(***************************************************************************)
(* The inductive invariant of the loop and its owner.                      *)
(***************************************************************************)
IInv == LoopInv(ev) /\ now \in Nat

\* Owner writes to fields other than the gate, the counter and the queues.
LEMMA OwnerFieldInv ==
  ASSUME NEW e, LoopInv(e), NEW d \in Timer, NEW b \in BOOLEAN
  PROVE  /\ LoopInv([e EXCEPT !.pto = d])
         /\ LoopInv([e EXCEPT !.loss = d])
         /\ LoopInv([e EXCEPT !.idle = d])
         /\ LoopInv([e EXCEPT !.have_new_data = b])
<1>0. e \in Loop
  BY DEF LoopInv
<1>1. LoopInv([e EXCEPT !.pto = d])
  BY Zenon, <1>0, SameCore DEF Loop
<1>2. LoopInv([e EXCEPT !.loss = d])
  BY Zenon, <1>0, SameCore DEF Loop
<1>3. LoopInv([e EXCEPT !.idle = d])
  BY Zenon, <1>0, SameCore DEF Loop
<1>4. LoopInv([e EXCEPT !.have_new_data = b])
  BY Zenon, <1>0, SameCore DEF Loop
<1> QED BY <1>1, <1>2, <1>3, <1>4

\* quic_evloop_initiate_key_update.
LEMMA KeyUpdateInv ==
  ASSUME NEW e, LoopInv(e), NEW t \in Nat
  PROVE  LoopInv(InitiateKeyUpdate(e, t))
<1>1. CASE MayInitiate(e, t)
  <2> DEFINE k == e.key_generation + 1
             f == [e EXCEPT !.key_generation = k, !.key_update_time = t]
  <2>1. InitiateKeyUpdate(e, t) = f
    BY <1>1 DEF InitiateKeyUpdate
  <2>2. e \in Loop /\ k \in Nat
    BY DEF LoopInv, Loop
  <2> HIDE DEF k
  <2>3. f \in Loop /\ f.gate = e.gate /\ f.next_pn = e.next_pn
        /\ f.rx = e.rx /\ f.rtx = e.rtx
    BY Zenon, <2>2 DEF Loop
  <2> HIDE DEF f
  <2> QED BY <2>1, <2>3, SameCore
<1>2. CASE ~MayInitiate(e, t)
  BY <1>2 DEF InitiateKeyUpdate
<1> QED BY <1>1, <1>2

\* The owner's handshake flags are not part of the gate invariant.
LEMMA ConfirmInv ==
  ASSUME NEW e, LoopInv(e)
  PROVE  LoopInv([e EXCEPT !.gate.handshake_complete = TRUE,
                           !.gate.handshake_confirmed = TRUE])
<1> DEFINE g == [e.gate EXCEPT !.handshake_complete = TRUE,
                               !.handshake_confirmed = TRUE]
<1>0. e \in Loop /\ e.gate \in Gate /\ GateInv(e.gate, e.next_pn)
  BY DEF LoopInv, GateInv
<1>1. g \in Gate /\ g.sent = e.gate.sent /\ g.pto_armed = e.gate.pto_armed
      /\ g.validated = e.gate.validated /\ g.recv_bytes = e.gate.recv_bytes
      /\ g.sent_bytes = e.gate.sent_bytes
  BY Zenon, <1>0 DEF Gate
<1>2. [e EXCEPT !.gate.handshake_complete = TRUE,
                !.gate.handshake_confirmed = TRUE] = [e EXCEPT !.gate = g]
  BY Zenon, <1>0 DEF Loop
<1> HIDE DEF g
<1>3. GateInv(g, e.next_pn)
  BY <1>0, <1>1 DEF GateInv, PtoSynced, AmpBound
<1>4. LoopInv([e EXCEPT !.gate = g])
  BY <1>3, GateSwap
<1> QED BY <1>2, <1>4

\* Every step of the loop or of its owner preserves the invariant.
LEMMA NextInv == IInv /\ [Next]_vars => IInv'
<1> SUFFICES ASSUME IInv, [Next]_vars PROVE IInv'
  OBVIOUS
<1>0. LoopInv(ev) /\ now \in Nat /\ ev \in Loop /\ ev.next_pn \in Nat
      /\ GateInv(ev.gate, ev.next_pn)
  BY DEF IInv, LoopInv, Loop
<1>1. CASE Step
  BY <1>0, <1>1, StepInv DEF Step, IInv
<1>2. ASSUME NEW b \in BOOLEAN, Receive(b) PROVE IInv'
  BY <1>0, <1>2, OnReceiveInv DEF Receive, IInv
<1>3. ASSUME NEW b \in BOOLEAN, SetNewData(b) PROVE IInv'
  BY Zenon, <1>0, <1>3, OwnerFieldInv DEF SetNewData, IInv, Timer, Off
<1>4. ASSUME NEW b \in BOOLEAN, CloseConn(b) PROVE IInv'
  <2>1. GateInv(Close(ev.gate, b), ev.next_pn)
    BY <1>0, OwnerCallsInv, EvLoopAssumption
  <2>2. LoopInv([ev EXCEPT !.gate = Close(ev.gate, b)])
    BY <1>0, <2>1, GateSwap
  <2> QED BY <1>0, <1>4, <2>2 DEF CloseConn, CloseLoop, IInv
<1>5. CASE Tick
  BY <1>0, <1>5 DEF Tick, IInv
<1>6. ASSUME NEW d \in Delays, ArmPto(d) \/ ArmLoss(d) \/ ArmIdle(d) PROVE IInv'
  <2>1. now + d \in Timer
    BY <1>0, DelaysAssumption DEF Timer
  <2>2. /\ LoopInv([ev EXCEPT !.pto = now + d])
        /\ LoopInv([ev EXCEPT !.loss = now + d])
        /\ LoopInv([ev EXCEPT !.idle = now + d])
    BY Zenon, <1>0, <2>1, OwnerFieldInv
  <2> QED BY <1>0, <1>6, <2>2 DEF ArmPto, ArmLoss, ArmIdle, IInv
<1>7. CASE Install
  <2>1. GateInv(InstallKey(ev.gate, Level), ev.next_pn)
    BY Zenon, <1>0, OwnerCallsInv, EvLoopAssumption
  <2> QED BY <1>0, <1>7, <2>1, GateSwap DEF Install, IInv
<1>8. CASE Discard
  <2>1. GateInv(DiscardKey(ev.gate, Level), ev.next_pn)
    BY Zenon, <1>0, OwnerCallsInv, EvLoopAssumption
  <2> QED BY <1>0, <1>8, <2>1, GateSwap DEF Discard, IInv
<1>9. CASE Confirm
  BY Zenon, <1>0, <1>9, ConfirmInv DEF Confirm, IInv
<1>10. CASE PathValidated
  <2>1. GateInv(Validate(ev.gate), ev.next_pn)
    BY Zenon, <1>0, OwnerCallsInv, EvLoopAssumption
  <2> QED BY <1>0, <1>10, <2>1, GateSwap DEF PathValidated, IInv
<1>11. CASE UpdateKey
  BY <1>0, <1>11, KeyUpdateInv DEF UpdateKey, IInv
<1>12. ASSUME NEW lo, NEW largest, PeerAck(lo, largest) PROVE IInv'
  <2> DEFINE g == OnAck(ev.gate, largest, <<largest - lo>>)
  <2>1. GateInv(g, ev.next_pn)
    BY <1>0, OnAckInv
  <2>2. LoopInv([ev EXCEPT !.gate = g])
    BY <1>0, <2>1, GateSwap
  <2> QED BY <1>0, <1>12, <2>2 DEF PeerAck, IInv
<1>13. CASE UNCHANGED vars
  BY <1>13 DEF vars, IInv
<1> QED
  BY <1>1, <1>2, <1>3, <1>4, <1>5, <1>6, <1>7, <1>8, <1>9, <1>10, <1>11, <1>12,
     <1>13 DEF Next

\* The loop keeps its type, its queue bounds and its gate invariant.
THEOREM LoopInvariant == Spec => []IInv
<1>1. Init => IInv
  BY LoopInitInv DEF Init, IInv
<1> QED BY <1>1, NextInv, PTL DEF Spec

\* The loop record keeps its type and its queues keep their bounds.
THEOREM TypeCorrect == Spec => []TypeOK
<1>1. IInv => TypeOK
  BY DEF IInv, LoopInv, TypeOK
<1> QED BY <1>1, LoopInvariant, PTL

\* No schedule of receives, timers and sends takes an unvalidated path past
\* three times what it received.
THEOREM AntiAmpHolds == Spec => []AntiAmp
<1>1. IInv => AntiAmp
  BY DEF IInv, LoopInv, GateInv, AmpBound, AntiAmp
<1> QED BY <1>1, LoopInvariant, PTL

\* The PTO flag follows the sent table.
THEOREM PtoFollowsInFlight == Spec => []PtoArmedIffInFlight
<1>1. IInv => PtoArmedIffInFlight
  BY DEF IInv, LoopInv, GateInv, PtoSynced, PtoArmedIffInFlight
<1> QED BY <1>1, LoopInvariant, PTL

\* Numbers in flight are handed out, and handed out once.
THEOREM NumbersAreFresh == Spec => []FreshNumbers
<1>1. IInv => FreshNumbers
  BY DEF IInv, LoopInv, GateInv, FreshBelow, FreshNumbers
<1> QED BY <1>1, LoopInvariant, PTL

\* The retention windows of successive updates do not overlap.
THEOREM GenerationsDoNotOverlap == Spec => TwoGenerations
<1>1. IInv /\ [Next]_vars
      => [ev'.key_generation # ev.key_generation => ~OldKeyRetained(ev, now)]_vars
  <2> SUFFICES ASSUME IInv, Next, ev'.key_generation # ev.key_generation
               PROVE  ~OldKeyRetained(ev, now)
    BY DEF vars
  <2>0. ev \in Loop /\ now \in Nat /\ LoopInv(ev)
    BY DEF IInv, LoopInv
  <2>1. UpdateKey
    <3>1. Step => ev'.key_generation = ev.key_generation
      BY <2>0, StepForward DEF Step, Forward
    <3>2. \A b \in BOOLEAN : Receive(b) \/ SetNewData(b) \/ CloseConn(b)
            => ev'.key_generation = ev.key_generation
      BY <2>0 DEF Receive, OnReceive, SetNewData, CloseConn, CloseLoop, Loop
    <3>3. \A d \in Delays : ArmPto(d) \/ ArmLoss(d) \/ ArmIdle(d)
            => ev'.key_generation = ev.key_generation
      BY <2>0 DEF ArmPto, ArmLoss, ArmIdle, Loop
    <3>4. Tick \/ Install \/ Discard \/ Confirm \/ PathValidated
            => ev'.key_generation = ev.key_generation
      BY Zenon, <2>0 DEF Tick, Install, Discard, Confirm, PathValidated, Loop
    <3>5. \A lo, largest : PeerAck(lo, largest)
            => ev'.key_generation = ev.key_generation
      BY <2>0 DEF PeerAck, Loop
    <3> QED BY <3>1, <3>2, <3>3, <3>4, <3>5 DEF Next
  <2>2. MayInitiate(ev, now)
    BY <2>0, <2>1 DEF UpdateKey, InitiateKeyUpdate
  <2>3. ev.key_update_time \in Nat
    BY <2>0 DEF Loop
  <2> QED BY <2>0, <2>2, <2>3, EvLoopAssumption DEF MayInitiate, OldKeyRetained
<1> QED BY <1>1, LoopInvariant, PTL DEF Spec, TwoGenerations

\* A step of the owner other than path validation keeps or grows the counters.
LEMMA OwnerForward ==
  ASSUME IInv, Next, ~PathValidated
  PROVE  Grows(ev.gate, ev.gate')
<1>0. ev \in Loop /\ now \in Nat /\ LoopInv(ev) /\ ev.gate \in Gate
      /\ ev.next_pn \in Nat
  BY DEF IInv, LoopInv, GateInv, Loop
<1>1. ev'.gate = ev.gate => Grows(ev.gate, ev.gate')
  BY Zenon, <1>0, CallsGrow, EvLoopAssumption DEF Levels
<1>2. CASE Step
  BY <1>0, <1>2, StepForward DEF Step, Forward
<1>3. ASSUME NEW b \in BOOLEAN, Receive(b) \/ SetNewData(b)
      PROVE  ev'.gate = ev.gate
  BY <1>0, <1>3 DEF Receive, OnReceive, SetNewData, Loop
<1>4. ASSUME NEW b \in BOOLEAN, CloseConn(b) PROVE Grows(ev.gate, ev.gate')
  <2>1. ev'.gate = Close(ev.gate, b)
    BY <1>0, <1>4 DEF CloseConn, CloseLoop, Loop
  <2> QED BY Zenon, <1>0, <2>1, CallsGrow, EvLoopAssumption
<1>5. ASSUME NEW d \in Delays, ArmPto(d) \/ ArmLoss(d) \/ ArmIdle(d)
      PROVE  ev'.gate = ev.gate
  BY <1>0, <1>5 DEF ArmPto, ArmLoss, ArmIdle, Loop
<1>6. CASE Tick
  BY <1>1, <1>6 DEF Tick
<1>7. CASE Install \/ Discard
  <2>1. ev'.gate = InstallKey(ev.gate, Level) \/ ev'.gate = DiscardKey(ev.gate, Level)
    BY <1>0, <1>7 DEF Install, Discard, Loop
  <2> QED BY Zenon, <1>0, <2>1, CallsGrow, EvLoopAssumption
<1>8. CASE Confirm
  <2>1. /\ ev'.gate.recv_bytes = ev.gate.recv_bytes
        /\ ev'.gate.sent_bytes = ev.gate.sent_bytes
        /\ ev'.gate.validated = ev.gate.validated /\ ev'.gate.phase = ev.gate.phase
    BY Zenon, <1>0, <1>8 DEF Confirm, Loop, Gate
  <2>2. Grows(ev.gate, ev.gate)
    BY Zenon, <1>0, CallsGrow, EvLoopAssumption DEF Levels
  <2> QED BY <2>1, <2>2 DEF Grows
<1>9. CASE UpdateKey
  <2>1. ev'.gate = ev.gate
    BY <1>0, <1>9 DEF UpdateKey, InitiateKeyUpdate, Loop
  <2> QED BY <1>1, <2>1
<1>10. ASSUME NEW lo, NEW largest, PeerAck(lo, largest)
       PROVE  Grows(ev.gate, ev.gate')
  <2>1. ev'.gate = OnAck(ev.gate, largest, <<largest - lo>>)
    BY <1>0, <1>10 DEF PeerAck, Loop
  <2>2. Grows(ev.gate, OnAck(ev.gate, largest, <<largest - lo>>))
    BY Zenon, <1>0, CallsGrow, EvLoopAssumption
  <2> QED BY <2>1, <2>2
<1> QED
  BY <1>1, <1>2, <1>3, <1>4, <1>5, <1>6, <1>7, <1>8, <1>9, <1>10 DEF Next

\* The gate's counters implement the anti-amplification contract: the loop
\* refines AmpBudget under the mapping of Amp.
THEOREM RefinesAmpBudget == Spec => AmpSpec
<1>1. Init => Amp!Init
  BY DEF Init, LoopInit, GateInit, Amp!Init
<1>2. IInv /\ IInv' /\ [Next]_vars => [Amp!Next]_(Amp!vars)
  <2> SUFFICES ASSUME IInv, IInv', [Next]_vars PROVE [Amp!Next]_(Amp!vars)
    OBVIOUS
  <2>0. ev \in Loop /\ ev.gate \in Gate /\ ev'.gate \in Gate /\ AmpBound(ev'.gate)
    BY DEF IInv, LoopInv, GateInv
  <2>1. CASE PathValidated
    <3>1. ev'.gate = [ev.gate EXCEPT !.validated = TRUE]
      BY <2>0, <2>1 DEF PathValidated, Validate, Loop
    <3> QED BY <2>0, <3>1 DEF Gate, Amp!Next, Amp!Validated
  <2>2. CASE Next /\ ~PathValidated
    <3>1. Grows(ev.gate, ev'.gate)
      BY <2>2, OwnerForward
    <3>2. ev'.gate.recv_bytes \in Nat /\ ev'.gate.sent_bytes \in Nat
      BY <2>0 DEF Gate
    <3>3. ev.gate.validated \/ ev'.gate.sent_bytes <= 3 * ev'.gate.recv_bytes
      BY <2>0, <3>1 DEF Grows, AmpBound
    <3>4. Amp!Transfer
      BY <3>1, <3>2, <3>3 DEF Grows, Amp!Transfer, Amp!Within
    <3> QED BY <3>4 DEF Amp!Next
  <2>3. CASE UNCHANGED vars
    BY <2>3 DEF vars, Amp!vars
  <2> QED BY <2>1, <2>2, <2>3
<1> QED BY <1>1, <1>2, LoopInvariant, PTL DEF Spec, AmpSpec, Amp!Spec

\* The connection never re-opens, and a closed loop stands still.
THEOREM ClosedStaysClosed == Spec => ClosedIsFinal
<1>1. IInv /\ [Next]_vars
      => [/\ ev'.gate.phase >= ev.gate.phase
          /\ Step /\ ev.gate.phase = CLOSED => ev' = ev]_vars
  <2> SUFFICES ASSUME IInv, Next
               PROVE  /\ ev'.gate.phase >= ev.gate.phase
                      /\ Step /\ ev.gate.phase = CLOSED => ev' = ev
    BY DEF vars
  <2>1. ~PathValidated => ev'.gate.phase >= ev.gate.phase
    BY OwnerForward DEF Grows
  <2>2. ASSUME PathValidated PROVE ev'.gate.phase >= ev.gate.phase
    <3>1. ev \in Loop /\ ev.gate \in Gate
      BY DEF IInv, LoopInv, GateInv
    <3>2. ev'.gate = [ev.gate EXCEPT !.validated = TRUE]
      BY <2>2, <3>1 DEF PathValidated, Validate, Loop
    <3>3. ev'.gate.phase = ev.gate.phase /\ ev.gate.phase \in 0 .. 3
      BY <3>1, <3>2 DEF Gate, Phases, ACTIVE, CLOSING, DRAINING, CLOSED
    <3> QED BY <3>3
  <2>3. Step /\ ev.gate.phase = CLOSED => ev' = ev
    BY DEF Step, StepLoop
  <2>4. ev'.gate.phase >= ev.gate.phase
    BY <2>1, <2>2
  <2> QED BY <2>3, <2>4
<1> QED BY <1>1, LoopInvariant, PTL DEF Spec, ClosedIsFinal

\* Until the send decision an iteration without a probe touches the resend
\* queue only by the loss timer, which adds at most one entry.
LEMMA BeforeSending ==
  ASSUME NEW e, LoopInv(e), NEW t \in Nat, ~TimerFires(e.pto, t),
         ~e.ack_owed, ~AnyEliciting(e.rx), NEW f, f = PhaseTimers(PhaseReceive(e), t)
  PROVE  /\ LoopInv(f) /\ f.next_pn = e.next_pn /\ f.ack_owed = FALSE
         /\ Len(f.rtx) = Len(e.rtx) + (IF TimerFires(e.loss, t) /\ Len(e.rtx) < QCap
                                       THEN 1 ELSE 0)
<1> DEFINE a == PhaseReceive(e)
           b == [a EXCEPT !.loss = Off]
           c == RunLoss(a, t)
           k == IF TimerFires(e.loss, t) /\ Len(e.rtx) < QCap THEN 1 ELSE 0
<1>1. e \in Loop /\ LoopInv(a) /\ a \in Loop
  BY PhaseReceiveInv DEF LoopInv
<1>2. /\ a.next_pn = e.next_pn /\ a.ack_owed = FALSE /\ a.rtx = e.rtx
      /\ a.pto = e.pto /\ a.loss = e.loss
  BY <1>1 DEF PhaseReceive, Loop
<1> HIDE DEF a
<1>3. RunPto(a, t) = a
  BY <1>2 DEF RunPto
<1>4. b \in Loop /\ b.next_pn = a.next_pn /\ b.ack_owed = a.ack_owed /\ b.rtx = a.rtx
  BY Zenon, <1>1 DEF Loop, Off, Timer
<1>a. e.rtx \in Seq(Nat) /\ Len(e.rtx) \in Nat /\ QCap \in Nat
  BY <1>1, EvLoopAssumption DEF Loop
<1> HIDE DEF b, c, k
<1>5. c.next_pn = e.next_pn /\ c.ack_owed = FALSE /\ Len(c.rtx) = Len(e.rtx) + k /\ c \in Loop
  <2>1. CASE ~TimerFires(e.loss, t)
    <3>1. c = a /\ k = 0
      BY <1>2, <2>1 DEF RunLoss, c, k
    <3> QED BY <1>1, <1>2, <1>a, <3>1
  <2>2. CASE TimerFires(e.loss, t) /\ ~(Len(e.rtx) < QCap)
    <3>1. Len(b.rtx) >= QCap
      BY <1>2, <1>4, <1>a, <2>2
    <3>2. c = b /\ k = 0
      BY <1>2, <2>2, <3>1 DEF RunLoss, LossAct, b, c, k
    <3> QED BY <1>2, <1>4, <1>a, <3>2
  <2>3. CASE TimerFires(e.loss, t) /\ Len(e.rtx) < QCap
    <3> DEFINE q == Append(b.rtx, b.next_pn)
               u == IF b.bytes_in_flight >= SendLen
                    THEN b.bytes_in_flight - SendLen ELSE b.bytes_in_flight
    <3>1. ~(Len(b.rtx) >= QCap) /\ k = 1
      BY <1>2, <1>4, <1>a, <2>3 DEF k
    <3>2. b.rtx \in Seq(Nat) /\ b.next_pn \in Nat /\ b.bytes_in_flight \in Nat
      BY <1>4 DEF Loop
    <3>3. c = [b EXCEPT !.rtx = q, !.bytes_in_flight = u]
      BY <1>2, <2>3, <3>1 DEF RunLoss, LossAct, b, c
    <3>4. q \in Seq(Nat) /\ Len(q) = Len(b.rtx) + 1 /\ u \in Nat
      BY <3>2, EvLoopAssumption
    <3> HIDE DEF q, u
    <3>5. c \in Loop /\ c.rtx = q /\ c.next_pn = b.next_pn /\ c.ack_owed = b.ack_owed
      BY Zenon, <1>4, <3>3, <3>4 DEF Loop
    <3> QED BY <1>2, <1>4, <3>1, <3>4, <3>5
  <2> QED BY Zenon, <2>1, <2>2, <2>3
<1>6. f = RunIdle(c, t)
  BY <1>3 DEF PhaseTimers, a, c
<1>7. f.next_pn = c.next_pn /\ f.ack_owed = c.ack_owed /\ f.rtx = c.rtx
  BY <1>5, <1>6 DEF RunIdle, IdleAct, Loop
<1>8. LoopInv(f)
  BY <1>1, PhaseTimersInv DEF a
<1> QED BY Zenon, <1>5, <1>7, <1>8 DEF k

\* New data never overtakes a retransmission, in any behaviour of the loop.
THEOREM RecoveryGoesFirst == Spec => RecoveryFirst
<1>1. IInv /\ [Next]_vars
      => [Step /\ Len(ev.rtx) + LossQueues > 0 /\ ~TimerFires(ev.pto, now)
               /\ ev'.next_pn # ev.next_pn
          => \/ Len(ev'.rtx) < Len(ev.rtx) + LossQueues
             \/ ev.ack_owed \/ AnyEliciting(ev.rx)]_vars
  <2> DEFINE k == IF TimerFires(ev.loss, now) /\ Len(ev.rtx) < QCap THEN 1 ELSE 0
             f == PhaseTimers(PhaseReceive(ev), now)
             g == [f EXCEPT !.rtx = SubSeq(f.rtx, 1, Len(f.rtx) - 1)]
  <2> SUFFICES ASSUME IInv, Step, Len(ev.rtx) + k > 0, ~TimerFires(ev.pto, now),
                      ev'.next_pn # ev.next_pn, ~ev.ack_owed, ~AnyEliciting(ev.rx)
               PROVE  Len(ev'.rtx) < Len(ev.rtx) + k
    BY Zenon DEF LossQueues
  <2>1. LoopInv(ev) /\ now \in Nat /\ ev \in Loop /\ ev.rtx \in Seq(Nat)
    BY DEF IInv, LoopInv, Loop
  <2>2. LoopInv(f) /\ f.next_pn = ev.next_pn /\ f.ack_owed = FALSE
        /\ Len(f.rtx) = Len(ev.rtx) + k
    BY Zenon, <2>1, BeforeSending
  <2>3. ev' = PhaseSend(f)
    BY DEF Step, StepLoop
  <2> HIDE DEF f
  <2>4. Len(ev.rtx) \in Nat /\ k \in 0 .. 1
    BY <2>1
  <2> HIDE DEF k
  <2>5. f \in Loop /\ f.rtx \in Seq(Nat) /\ f.rtx # <<>> /\ Len(f.rtx) \in Nat /\ Len(f.rtx) # 0
    <3>1. f \in Loop /\ f.rtx \in Seq(Nat)
      BY <2>2 DEF LoopInv, Loop
    <3>2. Len(f.rtx) > 0
      BY <2>2
    <3> QED BY <3>1, <3>2
  <2>6. ev' = Emit(g)
    BY <2>2, <2>3, <2>5 DEF PhaseSend, SendData, EmitRetransmit
  <2>7. Len(SubSeq(f.rtx, 1, Len(f.rtx) - 1)) = Len(f.rtx) - 1
    BY <2>5, LastDropped
  <2>8. LoopInv(g) /\ g.rtx = SubSeq(f.rtx, 1, Len(f.rtx) - 1)
    BY Zenon, <2>2, <2>5, DropRtxInv DEF Loop
  <2> HIDE DEF g
  <2>9. ev'.rtx = g.rtx
    BY <2>6, <2>8 DEF Emit, LoopInv, Loop
  <2> QED BY <2>2, <2>4, <2>5, <2>7, <2>8, <2>9
<1> QED BY <1>1, LoopInvariant, PTL DEF Spec, RecoveryFirst
=============================================================================
