------------------------------- MODULE EvLoop -------------------------------
(***************************************************************************)
(* The steady-state event loop of transport/conn/loop/evloop, as operators *)
(* on a record with the fields of quic_evloop.  One iteration drains the   *)
(* queued receives, runs the three timers and makes one send decision;     *)
(* every protocol judgement is the gate's (ConnGate).                      *)
(*                                                                         *)
(* Abstractions.  The level, the window, the packet size and the PTO       *)
(* period are set once by the owner, so they are constants.  A timer is    *)
(* its deadline, or Off: the deadline of a disarmed timer is never read.   *)
(* A retransmission keeps its packet number; its length is SendLen.        *)
(***************************************************************************)
EXTENDS ConnGate

CONSTANTS
  Level,       \* the protection level the loop sends and receives at
  Cwnd,        \* the congestion window, in bytes
  SendLen,     \* bytes per packet
  QCap,        \* QUIC_EVLOOP_QCAP: slots of the receive and resend queues
  PtoPeriod    \* the period 3 * PTO retention is measured against

ASSUME EvLoopAssumption ==
  /\ Level \in Levels
  /\ Cwnd \in Nat /\ SendLen \in Nat /\ PtoPeriod \in Nat
  /\ QCap \in Nat \ {0}

Off   == -1
Timer == Nat \cup {Off}

Loop ==
  [gate : Gate, next_pn : Nat, rx : Seq(BOOLEAN), ack_owed : BOOLEAN,
   rtx : Seq(Nat), have_new_data : BOOLEAN,
   pto : Timer, loss : Timer, idle : Timer, bytes_in_flight : Nat,
   key_generation : Nat, key_update_time : Nat]

LoopInit ==
  [gate |-> GateInit, next_pn |-> 0, rx |-> <<>>, ack_owed |-> FALSE,
   rtx |-> <<>>, have_new_data |-> FALSE,
   pto |-> Off, loss |-> Off, idle |-> Off, bytes_in_flight |-> 0,
   key_generation |-> 0, key_update_time |-> 0]

\* A full queue drops the packet.
OnReceive(e, eliciting) ==
  IF Len(e.rx) >= QCap THEN e ELSE [e EXCEPT !.rx = Append(@, eliciting)]

(***************************************************************************)
(* Phase 1: the queued receives.  Each counts SendLen bytes at the gate.   *)
(***************************************************************************)
AnyEliciting(rx) == \E i \in 1 .. Len(rx) : rx[i]

PhaseReceive(e) ==
  [e EXCEPT !.gate = OnRecv(@, Len(e.rx) * SendLen),
            !.ack_owed = @ \/ AnyEliciting(e.rx),
            !.rx = <<>>]

(***************************************************************************)
(* Phase 2: the timers, each disarmed before it acts.                      *)
(***************************************************************************)
TimerFires(t, now) == t # Off /\ now >= t

AntiampOk(e) ==
  SendAllowed(e.gate.recv_bytes, e.gate.sent_bytes, e.gate.validated, SendLen)

\* Mutant: a probe does not spend its packet number.
PtoAct_SameNumber(e) ==
  IF AntiampOk(e) /\ OnPtoResult(e.gate, Level)
  THEN [e EXCEPT !.gate = OnPto(@, Level, e.next_pn, SendLen)]
  ELSE e

PtoAct(e) ==
  IF AntiampOk(e) /\ OnPtoResult(e.gate, Level)
  THEN [e EXCEPT !.gate = OnPto(@, Level, e.next_pn, SendLen),
                 !.next_pn = @ + 1]
  ELSE e

LossAct(e) ==
  IF Len(e.rtx) >= QCap THEN e
  ELSE [e EXCEPT !.rtx = Append(@, e.next_pn),
                 !.bytes_in_flight = IF @ >= SendLen THEN @ - SendLen ELSE @]

IdleAct(e) == [e EXCEPT !.gate = Close(@, FALSE)]

RunPto(e, now) ==
  IF TimerFires(e.pto, now) THEN PtoAct([e EXCEPT !.pto = Off]) ELSE e
RunLoss(e, now) ==
  IF TimerFires(e.loss, now) THEN LossAct([e EXCEPT !.loss = Off]) ELSE e
RunIdle(e, now) ==
  IF TimerFires(e.idle, now) THEN IdleAct([e EXCEPT !.idle = Off]) ELSE e

PhaseTimers(e, now) == RunIdle(RunLoss(RunPto(e, now), now), now)

(***************************************************************************)
(* Phase 3: one send decision.                                             *)
(***************************************************************************)
CwndCanSend(in_flight, size) == in_flight + size <= Cwnd

SendPermitted(e) ==
  /\ e.gate.phase = ACTIVE
  /\ CwndCanSend(e.bytes_in_flight, SendLen)
  /\ AntiampOk(e)

\* The gate's verdict is not looked at: the number and the bytes are spent
\* whether or not the gate let the packet through.
Emit(e) ==
  [e EXCEPT !.gate = OnSend(@, Level, TRUE, e.next_pn, SendLen),
            !.next_pn = @ + 1,
            !.bytes_in_flight = @ + SendLen]

\* rtx_n-- gives up the last entry of the queue.
EmitRetransmit(e) == Emit([e EXCEPT !.rtx = SubSeq(@, 1, Len(@) - 1)])

\* Mutant: new data goes before what is waiting to be sent again.
SendData_NewFirst(e) ==
  IF e.have_new_data THEN Emit(e)
  ELSE IF e.rtx # <<>> THEN EmitRetransmit(e) ELSE e

SendData(e) ==
  IF e.rtx # <<>> THEN EmitRetransmit(e)
  ELSE IF e.have_new_data THEN Emit(e) ELSE e

\* Mutant: an owed ACK waits for data to travel with.
PhaseSend_NoBareAck(e) ==
  IF ~SendPermitted(e) THEN e
  ELSE IF e.ack_owed /\ (e.rtx # <<>> \/ e.have_new_data)
       THEN [Emit(e) EXCEPT !.ack_owed = FALSE]
  ELSE SendData(e)

PhaseSend(e) ==
  IF ~SendPermitted(e) THEN e
  ELSE IF e.ack_owed THEN [Emit(e) EXCEPT !.ack_owed = FALSE]
  ELSE SendData(e)

StepLoop(e, now) ==
  IF e.gate.phase = CLOSED THEN e
  ELSE PhaseSend(PhaseTimers(PhaseReceive(e), now))

(***************************************************************************)
(* Key update and close.                                                   *)
(***************************************************************************)

MayInitiate(e, now) ==
  e.gate.handshake_confirmed /\ now >= e.key_update_time + 3 * PtoPeriod

InitiateKeyUpdate(e, now) ==
  IF MayInitiate(e, now)
  THEN [e EXCEPT !.key_generation = @ + 1, !.key_update_time = now]
  ELSE e

OldKeyRetained(e, now) ==
  e.key_generation # 0 /\ now < e.key_update_time + 3 * PtoPeriod

CloseLoop(e, peer_closed) == [e EXCEPT !.gate = Close(@, peer_closed)]
=============================================================================
