------------------------------- MODULE Runner -------------------------------
(***************************************************************************)
(* The connection runner (transport/conn/loop/connrunner): one record with *)
(* the event loop that decides, the connection I/O that seals and opens,   *)
(* the metadata ring of sent packets, the key update and the reconnect     *)
(* state.  Advance is quic_connrunner_advance, the whole of one iteration. *)
(*                                                                         *)
(* Abstractions.  A datagram is the sequence of its packets.  A packet is  *)
(* its type, what its protection depends on (the connection ID behind an   *)
(* Initial key, the generation behind a 1-RTT key) and its frames.  What a *)
(* resend carries (stored bytes or a PING) is not told apart: either way   *)
(* there is a packet.                                                      *)
(***************************************************************************)
EXTENDS EvLoop, ConnIO, KeyUpdate, Reconnect, FiniteSetsExt

CONSTANT
  MetaCap      \* QUIC_SENTMETA_CAP: slots of the metadata ring

ASSUME MetaCapAssumption == MetaCap \in Nat

(***************************************************************************)
(* The metadata ring (recovery/rtx/sentmeta).                              *)
(***************************************************************************)
MetaSlots == 1 .. MetaCap
NoPkt     == [pn |-> -1, in_flight |-> FALSE, bytes |-> 0]
MetaPkt   == [pn : Nat, in_flight : BOOLEAN, bytes : Nat]

Meta == [pkts : [MetaSlots -> MetaPkt \cup {NoPkt}], count : Nat,
         total_in_flight : Nat]

MetaInit == [pkts |-> [i \in MetaSlots |-> NoPkt], count |-> 0,
             total_in_flight |-> 0]

Used(m) == {i \in MetaSlots : m.pkts[i] # NoPkt}

FlightBytes(p) == IF p.in_flight THEN p.bytes ELSE 0

MetaOnSent(m, pn, in_flight, bytes) ==
  LET free == MetaSlots \ Used(m)
      p    == [pn |-> pn, in_flight |-> in_flight, bytes |-> bytes]
  IN  IF free = {} THEN m
      ELSE [pkts |-> [m.pkts EXCEPT ![Min(free)] = p],
            count |-> m.count + 1,
            total_in_flight |-> m.total_in_flight + FlightBytes(p)]

\* Mutant: an acknowledged packet's bytes stay in the total.
Reclaim_NoSubtract(m, i) ==
  [m EXCEPT !.pkts[i] = NoPkt, !.count = @ - 1]

Reclaim(m, i) ==
  [pkts |-> [m.pkts EXCEPT ![i] = NoPkt],
   count |-> m.count - 1,
   total_in_flight |-> m.total_in_flight - FlightBytes(m.pkts[i])]

ReclaimAll(m, S) == FoldSet(LAMBDA i, acc : Reclaim(acc, i), m, S)

\* The time threshold is switched off (an infinite loss delay).
PacketThreshold == 3
Lost(m, largest) == {i \in Used(m) : largest >= m.pkts[i].pn + PacketThreshold}

(***************************************************************************)
(* The runner.                                                             *)
(***************************************************************************)
RunnerState ==
  [loop : Loop, io : IO, sent : Meta, rtx_held : BOOLEAN, rtx_pn : Nat,
   ku : Ku, recon : Recon]

RunnerInit(cid, version) ==
  [loop |-> LoopInit, io |-> IOInit(FALSE), sent |-> MetaInit,
   rtx_held |-> FALSE, rtx_pn |-> 0, ku |-> KuInit,
   recon |-> ReconInit(cid, version)]

(***************************************************************************)
(* Receiving.  Retry and Version Negotiation are handled first and queue   *)
(* nothing; a 1-RTT packet is admitted on its key phase bit, but opened    *)
(* with the one installed key.                                             *)
(***************************************************************************)
NOLEVEL == -1
PacketLevel(p) ==
  CASE p.type = "INITIAL" -> INITIAL
    [] p.type = "HANDSHAKE" -> HANDSHAKE
    [] p.type = "ONERTT" -> ONERTT
    [] OTHER -> NOLEVEL

PhaseAdmits(r, p) ==
  p.type = "ONERTT" =>
    RecvKeygen(r.ku, r.io.loop.handshake_confirmed, PhaseBit(p.key)) # NOKEY

RecvLevelOk(r, p) == PacketLevel(p) # NOLEVEL /\ PhaseAdmits(r, p)

Opens(r, p) ==
  CASE p.type = "INITIAL" -> p.key = r.recon.initial_key
    [] p.type = "ONERTT" -> p.key = r.ku.generation
    [] OTHER -> TRUE

\* quic_evloop_on_receive is called only for a packet whose frames were all
\* handled; the receive flags are this packet's.
OpenOne(r, p) ==
  LET io0 == [r.io EXCEPT !.disp.ack_eliciting = FALSE, !.disp.has_ack = FALSE]
      io1 == IORecv(io0, PacketLevel(p), p.frames, 1, Opens(r, p))
      ok  == IORecvResult(io0, PacketLevel(p), p.frames, Opens(r, p))
  IN  [r EXCEPT !.io = io1,
                !.loop = IF ok THEN OnReceive(@, io1.disp.ack_eliciting) ELSE @]

RecvOne(r, p) ==
  LET complete == r.io.loop.handshake_complete
  IN  CASE p.type = "VN" ->
             [r EXCEPT !.recon = RecvVn(@, complete, p.offered)]
        [] p.type = "RETRY" ->
             [r EXCEPT !.recon = RecvRetry(@, complete, p.over, p.scid, p.fits)]
        [] OTHER -> IF RecvLevelOk(r, p) THEN OpenOne(r, p) ELSE r

ProcessDatagram(r, dgram) ==
  LET after[i \in 0 .. Len(dgram)] ==
        IF i = 0 THEN r ELSE RecvOne(after[i - 1], dgram[i])
  IN  after[Len(dgram)]

\* Everything up to the largest acknowledged number is dropped.  has_ack
\* stays up until the next packet is opened.
TrackAcks(r) ==
  IF ~r.io.disp.has_ack THEN r
  ELSE [r EXCEPT !.sent =
          ReclaimAll(@, {i \in Used(@) : @.pkts[i].pn <= r.io.disp.largest_acked})]

(***************************************************************************)
(* Sending.                                                                *)
(***************************************************************************)
NOTHING == 0
ACKONLY == 1
RESEND  == 2
NEWDATA == 3

WillOweAck(r) == r.loop.ack_owed \/ AnyEliciting(r.loop.rx)

\* What the loop is expected to send, read before it steps.
PendingKind(r) ==
  IF WillOweAck(r) THEN ACKONLY
  ELSE IF r.loop.rtx # <<>> THEN RESEND
  ELSE IF r.loop.have_new_data THEN NEWDATA
  ELSE NOTHING

CaptureRtx(r) ==
  IF r.loop.rtx = <<>> THEN [r EXCEPT !.rtx_held = FALSE]
  ELSE [r EXCEPT !.rtx_held = TRUE, !.rtx_pn = r.loop.rtx[1]]

TrackLoss(r) ==
  LET lost == Lost(r.sent, r.io.disp.largest_acked)
  IN  IF ~r.io.disp.has_ack \/ lost = {} THEN r
      ELSE [r EXCEPT !.sent = ReclaimAll(@, lost),
                     !.rtx_held = TRUE,
                     !.rtx_pn = IF r.rtx_held THEN @ ELSE r.sent.pkts[Min(lost)].pn]

\* An ACK is built from the count of packets received at the loop's level;
\* with none there is nothing to build.
Built(r, kind) ==
  /\ kind # NOTHING
  /\ kind = ACKONLY => r.io.rx_pn[Level] # 0

\* The number an ACK names.
AckNumber(r) == r.io.rx_pn[Level] - 1

Sends(r, before, kind) ==
  /\ r.loop.next_pn # before
  /\ Built(r, kind)
  /\ SendReady(r.io, Level, 1)

FlushSends(r, before, kind) ==
  IF Sends(r, before, kind) THEN [r EXCEPT !.io = IOSend(@, Level, 1, TRUE)] ELSE r

\* Sealed bytes, different for the kinds so that the totals tell them apart.
SealedLen(kind) == kind

TrackSent(r, kind) ==
  [r EXCEPT !.sent = MetaOnSent(@, r.io.tx[Level] - 1, kind >= RESEND, SealedLen(kind))]

(***************************************************************************)
(* One iteration, with a datagram in hand or <<>>.  Prepared is the state  *)
(* in which the loop steps; the outcome is the state and what went out.    *)
(***************************************************************************)
Prepared(r, dgram) == TrackLoss(CaptureRtx(TrackAcks(ProcessDatagram(r, dgram))))

Advance(r, now, dgram) ==
  LET ready   == Prepared(r, dgram)
      kind    == PendingKind(ready)
      before  == ready.loop.next_pn
      stepped == [ready EXCEPT !.loop = StepLoop(@, now)]
      flushed == FlushSends(stepped, before, kind)
      out     == Sends(stepped, before, kind)
  IN  [state |-> IF out THEN TrackSent(flushed, kind) ELSE flushed,
       kind |-> IF out THEN kind ELSE NOTHING,
       decided |-> stepped.loop.next_pn - before]

(***************************************************************************)
(* A client's connection runner, its owner and the network.  The owner     *)
(* iterates it with or without a datagram, arms timers, supplies data,     *)
(* installs 1-RTT keys when the handshake completes, and calls the key     *)
(* update and reconnect entry points at any time they are open to it.      *)
(*                                                                         *)
(* wire and acked are history: the packets sealed, each with whether the   *)
(* ring was full, and the largest number an ACK that was opened named.     *)
(***************************************************************************)

CONSTANTS
  Datagrams,   \* what the network may deliver, next to ACKs of real numbers
  Thresholds,  \* key update thresholds the owner passes
  MaxCalls,    \* iterations, the completion of the handshake counting as one
  MaxTime,     \* the clock stops here
  MaxGen       \* key updates

VARIABLES r, now, wire, acked, calls
vars == <<r, now, wire, acked, calls>>

Cid0 == CHOOSE c \in Cids : \A d \in Cids : c <= d

\* As the callers set a runner up: Initial keys and a validated path at both
\* gates.
Armed(s) ==
  [s EXCEPT !.loop.gate = Validate(InstallKey(@, INITIAL)),
            !.io.loop = Validate(InstallKey(@, INITIAL))]

Init ==
  /\ \E v \in Versions : r = Armed(RunnerInit(Cid0, v))
  /\ now = 0 /\ wire = <<>> /\ acked = -1 /\ calls = 0

Sealed(s, kind) ==
  [pn |-> s.io.tx[Level], kind |-> kind, full |-> Used(s.sent) = MetaSlots]

Iterate(dgram) ==
  LET a == Advance(r, now, dgram)
  IN  /\ calls < MaxCalls
      /\ calls' = calls + 1
      /\ r' = a.state
      /\ wire' = IF a.kind = NOTHING THEN wire
                 ELSE Append(wire, Sealed(Prepared(r, dgram), a.kind))
      /\ acked' = IF a.state.io.disp.has_ack
                  THEN Max({acked, a.state.io.disp.largest_acked}) ELSE acked
      /\ UNCHANGED now

\* The peer acknowledges numbers this runner has used.
RecvAck(lo, hi) ==
  /\ lo <= hi /\ hi < r.io.tx[Level]
  /\ Iterate(<<[type |-> "INITIAL", key |-> r.recon.initial_key,
                frames |-> <<AckFrame(hi, <<hi - lo>>)>>]>>)

Owner(s) == r' = s /\ UNCHANGED <<now, wire, acked, calls>>

\* The clock runs once the handshake is confirmed: before that only the loop's
\* timers read it, and those are armed, while something is in flight, at a
\* deadline that is already due.
Tick ==
  /\ r.io.loop.handshake_confirmed /\ now < MaxTime
  /\ now' = now + 1
  /\ UNCHANGED <<r, wire, acked, calls>>

ArmPto  == r.loop.gate.pto_armed /\ Owner([r EXCEPT !.loop.pto = 0])
ArmLoss == r.loop.gate.pto_armed /\ Owner([r EXCEPT !.loop.loss = 0])
SetNewData == Owner([r EXCEPT !.loop.have_new_data = ~@])
CloseConn  == Owner([r EXCEPT !.loop = CloseLoop(@, FALSE)])

\* The handshake completes: the keys of its two later levels are installed and
\* the key update state starts from the last.
Finish ==
  /\ ~r.io.loop.handshake_complete
  /\ calls < MaxCalls
  /\ calls' = calls + 1
  /\ r' = [r EXCEPT !.io.loop = [InstallKey(InstallKey(@, HANDSHAKE), ONERTT)
                                   EXCEPT !.handshake_complete = TRUE],
                    !.ku = KuInit]
  /\ UNCHANGED <<now, wire, acked>>

Confirm ==
  /\ r.io.loop.handshake_complete
  /\ Owner([r EXCEPT !.io.loop.handshake_confirmed = TRUE])

InitiateKu(threshold) ==
  /\ r.ku.generation < MaxGen
  /\ MayInitiateKu(r.ku, r.io.loop.handshake_confirmed, now, threshold)
  /\ Owner([r EXCEPT !.ku = DoInitiate(@)])

DiscardKu  == MayDiscard(r.ku, now) /\ Owner([r EXCEPT !.ku = DiscardOld(@)])
CompleteKu == Owner([r EXCEPT !.ku = KuCompleted(@, now)])
Rederive   == Owner([r EXCEPT !.recon = RetryRederive(@)])

Next ==
  \/ \E dgram \in Datagrams \cup {<<>>} : Iterate(dgram)
  \/ \E lo, hi \in 0 .. MaxCalls : RecvAck(lo, hi)
  \/ Tick \/ ArmPto \/ ArmLoss \/ SetNewData \/ CloseConn
  \/ Finish \/ Confirm
  \/ \E threshold \in Thresholds : InitiateKu(threshold)
  \/ DiscardKu \/ CompleteKu \/ Rederive

Spec == Init /\ [][Next]_vars

-----------------------------------------------------------------------------
(***************************************************************************)
(* Properties.                                                             *)
(***************************************************************************)
\* Types of the runner and of everything it is made of.
TypeOK ==
  /\ r \in RunnerState
  /\ now \in Nat /\ calls \in Nat /\ acked \in Nat \cup {-1}

\* The ring's running totals are those of its slots: bytes_in_flight is never
\* off by a packet that was acknowledged, lost or sent again
\* (sentmeta/record.c:31-51, recv.c:73-85, send.c:125-134).
RingAccounts ==
  /\ r.sent.count = Cardinality(Used(r.sent))
  /\ r.sent.total_in_flight = 
       MapThenSumSet(LAMBDA i : FlightBytes(r.sent.pkts[i]), Used(r.sent))

\* What a slot holds of a sealed packet.
SlotOf(w) == [pn |-> w.pn, in_flight |-> w.kind # ACKONLY, bytes |-> SealedLen(w.kind)]

\* The ring holds each sealed packet above the largest number acknowledged, under
\* its own number and with its bytes, in flight unless it only carries an ACK,
\* and nothing else.  A packet sealed while the ring was full is never in it:
\* the ring's refusal is not looked at (send.c:99-111, recv.c:81-85,
\* sentmeta/record.c:38-39).
SentIsTracked ==
  {r.sent.pkts[i] : i \in Used(r.sent)} =
    {SlotOf(wire[i]) : i \in {j \in DOMAIN wire : wire[j].pn > acked /\ ~wire[j].full}}

\* A datagram goes out only on a decision of the loop, so a closed loop sends
\* none, whatever arrives and however often it is iterated (send.c:89-92).
SendsOnDecision == Len(wire) <= r.loop.next_pn

\* The ring holds exactly what was sealed with a slot free and is not yet
\* acknowledged, its totals are those of its slots, and only decisions of the
\* loop add to it.
RingTracksSent == TypeOK /\ RingAccounts /\ SentIsTracked /\ SendsOnDecision

\* A Retry whose tag is over the connection ID o.
Retry(o, s) == [type |-> "RETRY", over |-> o, scid |-> s, fits |-> TRUE]

\* The connection ID is replaced at most once, by the ID of the first valid
\* Retry whose token can be kept, and the Initial keys are always those of the
\* ID in use (connrunner/reconnect.c:26-60, retrydrive/reconnect.c:19).
RetryOnce ==
  [][/\ r'.recon.initial_key = r'.recon.dcid
     /\ r'.recon.dcid # r.recon.dcid => r.recon.dcid = Cid0
     /\ r'.recon.retry_dcid # r.recon.retry_dcid =>
          \E dgram \in Datagrams : \E i \in DOMAIN dgram :
            dgram[i] = Retry(r.recon.dcid, r'.recon.retry_dcid)]_vars

\* The read key of the generation before is dropped, by the discard or by the
\* next update, no sooner than three PTOs after the peer acknowledged the
\* update (keyupdate.c:60-110).
RetainedThreePto ==
  [][r.ku.have_old /\ (r'.ku.generation # r.ku.generation \/ ~r'.ku.have_old)
     => r.ku.completed_at # Unset /\ now >= r.ku.completed_at + 3 * Pto]_vars

(***************************************************************************)
(* What a comment says of the code and it does not do.                     *)
(***************************************************************************)
\* send.c:25-26: pending_kind reads the order off the loop's state "so the
\* flush builds the same packet the loop chose".  A probe or a loss timer that
\* fires inside the step makes the loop send what the kind read before it does
\* not name, and nothing is built.
FlushMatchesLoop ==
  [][r'.loop.next_pn # r.loop.next_pn => Len(wire') > Len(wire)]_vars

(***************************************************************************)
(* The datagrams of the runs.                                              *)
(***************************************************************************)
Ping == <<Simple("PING")>>
InitialPkt(cid) == [type |-> "INITIAL", key |-> cid, frames |-> Ping]
HandshakePkt    == [type |-> "HANDSHAKE", frames |-> Ping]
ZeroRtt         == [type |-> "0RTT", frames |-> Ping]
OneRtt(gen)     == [type |-> "ONERTT", key |-> gen, frames |-> Ping]
LongRetry(o, s) == [Retry(o, s) EXCEPT !.fits = FALSE]
Vn(offered)     == [type |-> "VN", offered |-> offered]

\* Packets under the old and the new Initial key, of the Handshake, of 0-RTT and
\* under two generations, alone and coalesced, Retries over either ID and one with a
\* token too long to keep, and version lists with and without a version in common.
MixedDatagrams ==
  {<<InitialPkt(0)>>, <<InitialPkt(1)>>, <<OneRtt(0)>>, <<OneRtt(1)>>,
   <<ZeroRtt, InitialPkt(0), OneRtt(0)>>, <<HandshakePkt>>,
   <<LongRetry(0, 2), Retry(0, 1)>>, <<Retry(1, 2), InitialPkt(0)>>,
   <<Vn({V2})>>, <<Vn({V1, V2})>>}
=============================================================================
