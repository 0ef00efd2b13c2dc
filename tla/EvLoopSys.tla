----------------------------- MODULE EvLoopSys ------------------------------
(***************************************************************************)
(* One event loop and the owner that drives it.  The loop itself only      *)
(* moves in quic_evloop_step; everything else is a call of the owner: a    *)
(* packet is queued, a timer is armed, the handshake advances, the peer    *)
(* acknowledges, the path validates, the connection is closed.  The owner  *)
(* writes the fields the loop leaves to it (timers, have_new_data, the     *)
(* gate's keys, handshake and validation flags) directly, as the callers   *)
(* in tests/transport/evloop_test.c and connrunner do.                     *)
(***************************************************************************)
EXTENDS EvLoop, FiniteSets

CONSTANTS
  MaxPn,       \* the owner stops supplying work past this packet number
  MaxRecv,     \* bytes the peer sends at most
  MaxTime,     \* the clock stops here
  Delays,      \* how far ahead of the clock the owner arms a timer
  MaxGen       \* key updates the owner asks for

ASSUME DelaysAssumption == Delays \subseteq Nat

VARIABLES ev, now
vars == <<ev, now>>

Init == ev = LoopInit /\ now = 0

Busy == ev.next_pn <= MaxPn

Step == ev' = StepLoop(ev, now) /\ UNCHANGED now

Receive(eliciting) ==
  /\ ev.gate.recv_bytes + Len(ev.rx) * SendLen < MaxRecv
  /\ ev' = OnReceive(ev, eliciting)
  /\ UNCHANGED now

Tick == now < MaxTime /\ now' = now + 1 /\ UNCHANGED ev

ArmPto(d)  == Busy /\ ev' = [ev EXCEPT !.pto = now + d] /\ UNCHANGED now
ArmLoss(d) == Busy /\ ev' = [ev EXCEPT !.loss = now + d] /\ UNCHANGED now
ArmIdle(d) == Busy /\ ev' = [ev EXCEPT !.idle = now + d] /\ UNCHANGED now

SetNewData(b) == Busy /\ ev' = [ev EXCEPT !.have_new_data = b] /\ UNCHANGED now

Install == ev' = [ev EXCEPT !.gate = InstallKey(@, Level)] /\ UNCHANGED now

Discard == ev' = [ev EXCEPT !.gate = DiscardKey(@, Level)] /\ UNCHANGED now

Confirm ==
  /\ MaxGen > 0
  /\ ev' = [ev EXCEPT !.gate.handshake_complete = TRUE,
                      !.gate.handshake_confirmed = TRUE]
  /\ UNCHANGED now

PathValidated == ev' = [ev EXCEPT !.gate = Validate(@)] /\ UNCHANGED now

\* The peer acknowledges lo .. largest, numbers the loop has used.
PeerAck(lo, largest) ==
  /\ lo <= largest /\ largest < ev.next_pn
  /\ ev' = [ev EXCEPT !.gate = OnAck(@, largest, <<largest - lo>>)]
  /\ UNCHANGED now

UpdateKey ==
  /\ ev.key_generation < MaxGen
  /\ ev' = InitiateKeyUpdate(ev, now)
  /\ UNCHANGED now

CloseConn(peer_closed) == ev' = CloseLoop(ev, peer_closed) /\ UNCHANGED now

Next ==
  \/ Step
  \/ \E b \in BOOLEAN : Receive(b) \/ SetNewData(b) \/ CloseConn(b)
  \/ Tick
  \/ \E d \in Delays : ArmPto(d) \/ ArmLoss(d) \/ ArmIdle(d)
  \/ Install \/ Discard \/ Confirm \/ PathValidated \/ UpdateKey
  \/ \E lo, largest \in 0 .. (ev.next_pn - 1) : PeerAck(lo, largest)

Spec == Init /\ [][Next]_vars

\* The runner iterates until the connection is closed: steps keep coming.
FairSpec == Spec /\ WF_vars(Step)

-----------------------------------------------------------------------------
(***************************************************************************)
(* Properties.                                                             *)
(***************************************************************************)
\* Types, the queue bounds (evloop.c:28, 53) and the clock.
TypeOK ==
  /\ ev \in Loop
  /\ Len(ev.rx) <= QCap /\ Len(ev.rtx) <= QCap
  /\ now \in Nat

\* Until the path validates, the bytes the gate has counted as sent stay
\* within three times the bytes received, whatever mix of owed ACKs,
\* retransmissions, new data and PTO probes one iteration sends
\* (evloop.c:60-74, 97-102).
AntiAmp ==
  ~ev.gate.validated => ev.gate.sent_bytes <= 3 * ev.gate.recv_bytes

\* The PTO flag is up exactly while something is in flight, across sends,
\* probes, acknowledgements and closing (connloop.c:58-61, 83-99).
PtoArmedIffInFlight == ev.gate.pto_armed <=> AnySent(ev.gate.sent)

\* No packet number is ever in flight twice, and none is in flight that the
\* loop has not handed out: a number is never reused, although probes and
\* sends draw from one counter and slots are recycled (evloop.h:35).
FreshNumbers ==
  /\ \A i \in Slots : ev.gate.sent[i] < ev.next_pn
  /\ \A i, j \in Slots :
       i # j /\ ev.gate.sent[i] # Free => ev.gate.sent[i] # ev.gate.sent[j]

\* When a key update starts, the key before the outgoing one is no longer
\* retained: at most two generations are held at once (evloop_test.c:218).
TwoGenerations ==
  [][ev'.key_generation # ev.key_generation => ~OldKeyRetained(ev, now)]_vars

\* Leaving the active phase is final, and a closed loop does no work: it
\* hands out no number, counts no byte, drains no queue and fires no timer.
ClosedIsFinal ==
  [][/\ ev'.gate.phase >= ev.gate.phase
     /\ Step /\ ev.gate.phase = CLOSED => ev' = ev]_vars

\* Whether the loss timer puts a retransmission in the queue in this step.
LossQueues == IF TimerFires(ev.loss, now) /\ Len(ev.rtx) < QCap THEN 1 ELSE 0

\* While a retransmission waits, new data is held back, also when the loss timer
\* queued it in the same iteration: a step that spends a number with no ACK owed
\* and no probe due takes an entry off the queue (evloop.c:53-57, 118-124).
RecoveryFirst ==
  [][Step /\ Len(ev.rtx) + LossQueues > 0 /\ ~TimerFires(ev.pto, now)
          /\ ev'.next_pn # ev.next_pn
     => \/ Len(ev'.rtx) < Len(ev.rtx) + LossQueues
        \/ ev.ack_owed \/ AnyEliciting(ev.rx)]_vars

AckPending == ev.ack_owed \/ AnyEliciting(ev.rx)

\* A pending ACK leaves with the next send the gates admit: it is not starved
\* by retransmissions or new data (evloop.c:126-136).
AckNotStarved ==
  AckPending /\ SendPermitted(ev) ~> ~AckPending \/ ~SendPermitted(ev)

(***************************************************************************)
(* What comments and tests say of the loop and the code does not do.       *)
(***************************************************************************)
\* evloop_test.c:257: "an owed ACK is eventually sent while the connection
\* stays active and the path validates".  An acknowledgement never gives back
\* bytes in flight, so the window can stay closed with nothing outstanding.
AckEventuallySent ==
  /\ ev.ack_owed /\ ev.gate.validated
  /\ LevelUsable(ev.gate, Level) /\ ~AnySent(ev.gate.sent)
  ~> ~ev.ack_owed \/ ev.gate.phase # ACTIVE

\* The counters of the gate implement the anti-amplification contract.
Amp == INSTANCE AmpBudget WITH
         Factor <- 3, received <- ev.gate.recv_bytes,
         sent <- ev.gate.sent_bytes, validated <- ev.gate.validated
AmpSpec == Amp!Spec
=============================================================================
