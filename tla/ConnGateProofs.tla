--------------------------- MODULE ConnGateProofs ---------------------------
(***************************************************************************)
(* What each entry point of the gate preserves: the type of the gate, the  *)
(* PTO flag, the anti-amplification bound and the freshness of the packet  *)
(* numbers in the sent table.  The lemmas are about operators, so every    *)
(* specification that owns a gate can use them.                            *)
(***************************************************************************)
EXTENDS ConnGate, TLAPS

\* The parts of the gate invariant.
PtoSynced(c) == c.pto_armed <=> AnySent(c.sent)

AmpBound(c) == ~c.validated => c.sent_bytes <= 3 * c.recv_bytes

FreshBelow(t, n) ==
  /\ \A i \in Slots : t[i] < n
  /\ \A i, j \in Slots : i # j /\ t[i] # Free => t[i] # t[j]

\* A free slot exists when the table has room.
LEMMA FreeSlotIsFree ==
  ASSUME NEW t \in SentTable, HasRoom(t)
  PROVE  FreeSlot(t) \in Slots /\ t[FreeSlot(t)] = Free
BY DEF HasRoom, FreeSlot

\* quic_sentpkt_on_send keeps the table a table, keeps what it holds and,
\* under a number above every tracked one, keeps the numbers distinct.
LEMMA SentOnSendFacts ==
  ASSUME NEW t \in SentTable, NEW pn \in Nat
  PROVE  /\ SentOnSend(t, pn) \in SentTable
         /\ AnySent(SentOnSend(t, pn))
         /\ FreshBelow(t, pn) => FreshBelow(SentOnSend(t, pn), pn + 1)
<1>1. CASE HasRoom(t)
  <2> DEFINE k == FreeSlot(t)
             u == [t EXCEPT ![k] = pn]
  <2>1. k \in Slots /\ t[k] = Free
    BY <1>1, FreeSlotIsFree
  <2>2. SentOnSend(t, pn) = u
    BY <1>1 DEF SentOnSend
  <2> HIDE DEF k
  <2>3. u \in SentTable
    BY <2>1 DEF SentTable
  <2>4. \A i \in Slots : u[i] = IF i = k THEN pn ELSE t[i]
    BY DEF SentTable
  <2>5. AnySent(u)
    <3>1. u[k] = pn /\ pn # Free
      BY <2>1, <2>4 DEF Free
    <3> QED BY <2>1, <3>1 DEF AnySent
  <2>6. FreshBelow(t, pn) => FreshBelow(u, pn + 1)
    <3> SUFFICES ASSUME FreshBelow(t, pn) PROVE FreshBelow(u, pn + 1)
      OBVIOUS
    <3>0. \A i \in Slots : t[i] \in Int /\ t[i] < pn
      BY DEF SentTable, Free, FreshBelow
    <3>1. \A i \in Slots : u[i] < pn + 1
      BY <2>4, <3>0
    <3>2. \A i, j \in Slots : i # j /\ u[i] # Free => u[i] # u[j]
      BY <2>4, <3>0 DEF FreshBelow
    <3> HIDE DEF u
    <3> QED BY <3>1, <3>2 DEF FreshBelow
  <2> HIDE DEF u
  <2> QED BY <2>2, <2>3, <2>5, <2>6
<1>2. CASE ~HasRoom(t)
  <2>1. SentOnSend(t, pn) = t
    BY <1>2 DEF SentOnSend
  <2>2. AnySent(t)
    <3>1. 1 \in Slots
      BY SentCapAssumption DEF Slots
    <3> QED BY <1>2, <3>1 DEF AnySent, HasRoom
  <2>3. FreshBelow(t, pn) => FreshBelow(t, pn + 1)
    <3>1. \A i \in Slots : t[i] \in Int
      BY DEF SentTable, Free
    <3> QED BY <3>1 DEF FreshBelow
  <2> QED BY <2>1, <2>2, <2>3
<1> QED BY <1>1, <1>2

\* quic_ack_process only frees slots.
LEMMA AckProcessFacts ==
  ASSUME NEW t \in SentTable, NEW largest, NEW wire
  PROVE  /\ AckProcess(t, largest, wire) \in SentTable
         /\ \A i \in Slots : AckProcess(t, largest, wire)[i] \in {t[i], Free}
BY DEF AckProcess, SentTable, Free

\* Freeing slots keeps the numbers fresh.
LEMMA FreeingKeepsFresh ==
  ASSUME NEW t \in SentTable, NEW u \in SentTable, NEW n \in Nat,
         \A i \in Slots : u[i] \in {t[i], Free}, FreshBelow(t, n)
  PROVE  FreshBelow(u, n)
<1>1. \A i \in Slots : u[i] < n
  BY DEF FreshBelow, Free
<1>2. \A i, j \in Slots : i # j /\ u[i] # Free => u[i] # u[j]
  BY DEF FreshBelow
<1> QED BY <1>1, <1>2 DEF FreshBelow

\* A larger next number keeps the numbers fresh.
LEMMA FreshWeaken ==
  ASSUME NEW t \in SentTable, NEW n \in Nat, FreshBelow(t, n)
  PROVE  FreshBelow(t, n + 1)
<1>1. \A i \in Slots : t[i] \in Int
  BY DEF SentTable, Free
<1> QED BY <1>1 DEF FreshBelow

-----------------------------------------------------------------------------
(***************************************************************************)
(* The gate invariant, and one lemma per entry point.                      *)
(***************************************************************************)
GateInv(c, n) ==
  c \in Gate /\ PtoSynced(c) /\ AmpBound(c) /\ FreshBelow(c.sent, n)

\* The gate connloop_init builds.
LEMMA GateInitInv == GateInv(GateInit, 0)
<1>1. SentInit \in SentTable /\ ~AnySent(SentInit) /\ FreshBelow(SentInit, 0)
  BY DEF SentInit, SentTable, AnySent, FreshBelow, Free
<1>2. GateInit \in Gate
  BY <1>1 DEF GateInit, Gate, Phases, ACTIVE, Levels, NoLevel
<1>3. GateInit.sent = SentInit /\ GateInit.pto_armed = FALSE
      /\ GateInit.sent_bytes = 0 /\ GateInit.recv_bytes = 0
  BY DEF GateInit
<1> QED BY <1>1, <1>2, <1>3 DEF GateInv, PtoSynced, AmpBound

\* Anti-amplification: an admitted send stays within the budget.
LEMMA AllowedStaysWithin ==
  ASSUME NEW r \in Nat, NEW s \in Nat, NEW v \in BOOLEAN, NEW len \in Nat,
         SendAllowed(r, s, v, len), ~v, s <= 3 * r
  PROVE  s + len <= 3 * r
BY DEF SendAllowed, AntiampBudget

\* quic_connloop_on_recv only adds to the bytes received.
LEMMA OnRecvInv ==
  ASSUME NEW c, NEW n \in Nat, NEW len \in Nat, GateInv(c, n)
  PROVE  GateInv(OnRecv(c, len), n)
<1> DEFINE d == OnRecv(c, len)
<1> SUFFICES GateInv(d, n)
  OBVIOUS
<1>1. d \in Gate
  BY DEF GateInv, OnRecv, Gate
<1>2. d.sent = c.sent /\ d.pto_armed = c.pto_armed /\ d.validated = c.validated
      /\ d.sent_bytes = c.sent_bytes /\ d.recv_bytes >= c.recv_bytes
  BY DEF GateInv, OnRecv, Gate
<1>3. c.sent_bytes \in Nat /\ c.recv_bytes \in Nat /\ d.recv_bytes \in Nat
  BY <1>1 DEF GateInv, Gate
<1> HIDE DEF d
<1> QED BY <1>1, <1>2, <1>3 DEF GateInv, PtoSynced, AmpBound

\* quic_connloop_on_send under the next fresh number.
LEMMA OnSendInv ==
  ASSUME NEW c, NEW n \in Nat, NEW len \in Nat, NEW level \in Levels,
         GateInv(c, n)
  PROVE  GateInv(OnSend(c, level, TRUE, n, len), n + 1)
<1> DEFINE d == OnSend(c, level, TRUE, n, len)
<1>0. c \in Gate /\ c.sent \in SentTable
  BY DEF GateInv, Gate
<1>1. CASE ~SendOk(c, level, len)
  <2>1. d = c
    BY <1>1 DEF OnSend
  <2>2. FreshBelow(c.sent, n + 1)
    BY <1>0, FreshWeaken DEF GateInv
  <2> QED BY Zenon, <2>1, <2>2 DEF GateInv
<1>2. CASE SendOk(c, level, len)
  <2>1. d = [c EXCEPT !.send_level = level, !.sent_bytes = @ + len,
                      !.sent = SentOnSend(c.sent, n), !.pto_armed = TRUE]
    BY Zenon, <1>0, <1>2, SentOnSendFacts DEF OnSend, Track, PtoSync, Gate
  <2>2. d \in Gate
    <3>1. SentOnSend(c.sent, n) \in SentTable
      BY <1>0, SentOnSendFacts
    <3>2. c.sent_bytes + len \in Nat
      BY <1>0 DEF Gate
    <3> QED BY Zenon, <1>0, <2>1, <3>1, <3>2 DEF Gate
  <2>3. d.sent = SentOnSend(c.sent, n) /\ d.pto_armed = TRUE
        /\ d.validated = c.validated /\ d.recv_bytes = c.recv_bytes
        /\ d.sent_bytes = c.sent_bytes + len
    BY Zenon, <1>0, <2>1 DEF Gate
  <2>4. AmpBound(d)
    <3>1. c.recv_bytes \in Nat /\ c.sent_bytes \in Nat /\ c.validated \in BOOLEAN
      BY <1>0 DEF Gate
    <3>2. SendAllowed(c.recv_bytes, c.sent_bytes, c.validated, len)
      BY <1>2 DEF SendOk, SendGated
    <3>3. ~c.validated => c.sent_bytes <= 3 * c.recv_bytes
      BY DEF GateInv, AmpBound
    <3>4. ~c.validated => c.sent_bytes + len <= 3 * c.recv_bytes
      BY <3>1, <3>2, <3>3, AllowedStaysWithin
    <3> QED BY Zenon, <2>3, <3>4 DEF AmpBound
  <2>5. PtoSynced(d) /\ FreshBelow(d.sent, n + 1)
    BY Zenon, <1>0, <2>3, SentOnSendFacts DEF PtoSynced, GateInv
  <2> QED BY Zenon, <2>2, <2>4, <2>5 DEF GateInv
<1> QED BY Zenon, <1>1, <1>2

\* quic_connloop_on_pto under the next fresh number, when the caller has asked
\* the anti-amplification gate first (the call itself does not).
LEMMA OnPtoInv ==
  ASSUME NEW c, NEW n \in Nat, NEW len \in Nat, NEW level \in Levels,
         GateInv(c, n),
         SendAllowed(c.recv_bytes, c.sent_bytes, c.validated, len),
         OnPtoResult(c, level)
  PROVE  GateInv(OnPto(c, level, n, len), n + 1)
<1> DEFINE d == OnPto(c, level, n, len)
<1>0. c \in Gate /\ c.sent \in SentTable
  BY DEF GateInv, Gate
<1>1. d = [c EXCEPT !.sent = SentOnSend(c.sent, n),
                    !.sent_bytes = @ + len, !.pto_armed = TRUE]
  BY <1>0 DEF OnPto, Track, Gate
<1>2. d \in Gate
  <2>1. SentOnSend(c.sent, n) \in SentTable
    BY <1>0, SentOnSendFacts
  <2>2. c.sent_bytes + len \in Nat
    BY <1>0 DEF Gate
  <2> QED BY Zenon, <1>0, <1>1, <2>1, <2>2 DEF Gate
<1>3. d.sent = SentOnSend(c.sent, n) /\ d.pto_armed = TRUE
      /\ d.validated = c.validated /\ d.recv_bytes = c.recv_bytes
      /\ d.sent_bytes = c.sent_bytes + len
  BY <1>0, <1>1 DEF Gate
<1>4. AmpBound(d)
  <2>1. c.recv_bytes \in Nat /\ c.sent_bytes \in Nat /\ c.validated \in BOOLEAN
    BY <1>0 DEF Gate
  <2>2. ~c.validated => c.sent_bytes <= 3 * c.recv_bytes
    BY DEF GateInv, AmpBound
  <2>3. ~c.validated => c.sent_bytes + len <= 3 * c.recv_bytes
    BY <2>1, <2>2, AllowedStaysWithin
  <2> QED BY <1>3, <2>3 DEF AmpBound
<1>5. PtoSynced(d) /\ FreshBelow(d.sent, n + 1)
  BY <1>0, <1>3, SentOnSendFacts DEF PtoSynced, GateInv
<1> QED BY <1>2, <1>4, <1>5 DEF GateInv

\* quic_connloop_on_ack.
LEMMA OnAckInv ==
  ASSUME NEW c, NEW n \in Nat, NEW largest, NEW wire, GateInv(c, n)
  PROVE  GateInv(OnAck(c, largest, wire), n)
<1> DEFINE t == AckProcess(c.sent, largest, wire)
           d == OnAck(c, largest, wire)
<1> SUFFICES GateInv(d, n)
  OBVIOUS
<1>0. c \in Gate /\ c.sent \in SentTable
  BY DEF GateInv, Gate
<1>1. t \in SentTable /\ \A i \in Slots : t[i] \in {c.sent[i], Free}
  BY <1>0, AckProcessFacts
<1>2. d = [c EXCEPT !.sent = t, !.pto_armed = AnySent(t)]
  BY <1>0 DEF OnAck, PtoSync, Gate
<1> HIDE DEF t
<1>3. AnySent(t) \in BOOLEAN
  BY DEF AnySent
<1>4. d \in Gate
  BY Zenon, <1>0, <1>1, <1>2, <1>3 DEF Gate
<1>5. d.sent = t /\ d.pto_armed = AnySent(t) /\ d.validated = c.validated
      /\ d.recv_bytes = c.recv_bytes /\ d.sent_bytes = c.sent_bytes
  BY <1>0, <1>2 DEF Gate
<1>6. FreshBelow(t, n)
  BY <1>0, <1>1, FreeingKeepsFresh DEF GateInv
<1> HIDE DEF d
<1> QED BY <1>4, <1>5, <1>6 DEF GateInv, PtoSynced, AmpBound

\* Closing, validation and the keyset leave the accounting alone, and
\* validation only weakens what the bound asks.
LEMMA OwnerCallsInv ==
  ASSUME NEW c, NEW n \in Nat, NEW level \in Levels, NEW b \in BOOLEAN,
         GateInv(c, n)
  PROVE  /\ GateInv(Close(c, b), n)
         /\ GateInv(Validate(c), n)
         /\ GateInv(InstallKey(c, level), n)
         /\ GateInv(DiscardKey(c, level), n)
<1>0. c \in Gate
  BY DEF GateInv
<1>1. ASSUME NEW d \in Gate, d.sent = c.sent, d.pto_armed = c.pto_armed,
             d.recv_bytes = c.recv_bytes, d.sent_bytes = c.sent_bytes,
             d.validated = c.validated \/ d.validated = TRUE
      PROVE  GateInv(d, n)
  BY <1>1 DEF GateInv, PtoSynced, AmpBound
<1>2. GateInv(Close(c, b), n)
  <2>1. Close(c, b) \in Gate
    BY <1>0 DEF Close, NextPhase, Gate, Phases, ACTIVE, CLOSING, DRAINING, CLOSED
  <2> QED BY Zenon, <1>0, <1>1, <2>1 DEF Close, Gate
<1>3. GateInv(Validate(c), n)
  BY Zenon, <1>0, <1>1 DEF Validate, Gate
<1>4. GateInv(InstallKey(c, level), n)
  <2>1. InstallKey(c, level) \in Gate
    BY <1>0 DEF InstallKey, Gate
  <2> QED BY Zenon, <1>0, <1>1, <2>1 DEF InstallKey, Gate
<1>5. GateInv(DiscardKey(c, level), n)
  <2>1. DiscardKey(c, level) \in Gate
    BY <1>0 DEF DiscardKey, Gate
  <2> QED BY Zenon, <1>0, <1>1, <2>1 DEF DiscardKey, Gate
<1> QED BY <1>2, <1>3, <1>4, <1>5

-----------------------------------------------------------------------------
(***************************************************************************)
(* No entry point but the owner's validation takes a byte count back,      *)
(* moves the validation flag or re-opens the connection.                   *)
(***************************************************************************)
Grows(c, d) ==
  /\ d.recv_bytes >= c.recv_bytes /\ d.sent_bytes >= c.sent_bytes
  /\ d.validated = c.validated /\ d.phase >= c.phase

\* The two preorders compose.
LEMMA GrowsTrans ==
  ASSUME NEW c \in Gate, NEW d \in Gate, NEW e \in Gate, Grows(c, d), Grows(d, e)
  PROVE  Grows(c, e)
<1>1. /\ c.recv_bytes \in Nat /\ d.recv_bytes \in Nat /\ e.recv_bytes \in Nat
      /\ c.sent_bytes \in Nat /\ d.sent_bytes \in Nat /\ e.sent_bytes \in Nat
      /\ c.phase \in Nat /\ d.phase \in Nat /\ e.phase \in Nat
  BY DEF Gate, Phases, ACTIVE, CLOSING, DRAINING, CLOSED
<1> QED BY <1>1 DEF Grows

\* Every entry point grows the gate.
LEMMA CallsGrow ==
  ASSUME NEW c \in Gate, NEW level \in Levels, NEW pn \in Nat, NEW len \in Nat,
         NEW b \in BOOLEAN, NEW largest, NEW wire
  PROVE  /\ Grows(c, c)
         /\ Grows(c, OnRecv(c, len))
         /\ Grows(c, OnSend(c, level, TRUE, pn, len))
         /\ Grows(c, OnPto(c, level, pn, len))
         /\ Grows(c, OnAck(c, largest, wire))
         /\ Grows(c, Close(c, b))
         /\ Grows(c, InstallKey(c, level))
         /\ Grows(c, DiscardKey(c, level))
<1>0. c.recv_bytes \in Nat /\ c.sent_bytes \in Nat /\ c.phase \in Phases
  BY DEF Gate
<1>1. c.phase \in 0 .. 3
  BY <1>0 DEF Phases, ACTIVE, CLOSING, DRAINING, CLOSED
<1>2. Grows(c, c)
  BY <1>0, <1>1 DEF Grows
<1>3. Grows(c, OnRecv(c, len))
  BY <1>0, <1>1 DEF Grows, OnRecv, Gate
<1>4. Grows(c, OnSend(c, level, TRUE, pn, len))
  <2> DEFINE s == [c EXCEPT !.send_level = level, !.sent_bytes = c.sent_bytes + len]
             u == SentOnSend(c.sent, pn)
             d == [s EXCEPT !.sent = u, !.pto_armed = AnySent(u)]
  <2>1. OnSend(c, level, TRUE, pn, len) = d \/ OnSend(c, level, TRUE, pn, len) = c
    BY DEF OnSend, Track, PtoSync, Gate
  <2>2. d.recv_bytes = c.recv_bytes /\ d.sent_bytes = c.sent_bytes + len
        /\ d.validated = c.validated /\ d.phase = c.phase
    BY DEF Gate
  <2>3. Grows(c, d)
    BY <1>0, <1>1, <2>2 DEF Grows
  <2> HIDE DEF d
  <2> QED BY Zenon, <1>2, <2>1, <2>3
<1>5. Grows(c, OnPto(c, level, pn, len))
  <2> DEFINE u == SentOnSend(c.sent, pn)
             d == [c EXCEPT !.sent = u, !.sent_bytes = c.sent_bytes + len,
                            !.pto_armed = TRUE]
  <2>1. OnPto(c, level, pn, len) = d \/ OnPto(c, level, pn, len) = c
    BY DEF OnPto, Track, Gate
  <2>2. d.recv_bytes = c.recv_bytes /\ d.sent_bytes = c.sent_bytes + len
        /\ d.validated = c.validated /\ d.phase = c.phase
    BY DEF Gate
  <2>3. Grows(c, d)
    BY <1>0, <1>1, <2>2 DEF Grows
  <2> HIDE DEF d
  <2> QED BY <1>2, <2>1, <2>3
<1>6. Grows(c, OnAck(c, largest, wire))
  <2> DEFINE u == AckProcess(c.sent, largest, wire)
             d == [c EXCEPT !.sent = u, !.pto_armed = AnySent(u)]
  <2>1. OnAck(c, largest, wire) = d
    BY DEF OnAck, PtoSync, Gate
  <2> HIDE DEF u
  <2>2. d.recv_bytes = c.recv_bytes /\ d.sent_bytes = c.sent_bytes
        /\ d.validated = c.validated /\ d.phase = c.phase
    BY DEF Gate
  <2> HIDE DEF d
  <2> QED BY <1>0, <1>1, <2>1, <2>2 DEF Grows
<1>7. Grows(c, Close(c, b))
  <2> DEFINE p == IF c.phase = ACTIVE /\ b THEN DRAINING ELSE NextPhase(c.phase)
             d == [c EXCEPT !.phase = p]
  <2>1. Close(c, b) = d
    BY DEF Close
  <2>2. p >= c.phase
    BY <1>1 DEF NextPhase, ACTIVE, DRAINING, CLOSED
  <2>3. d.recv_bytes = c.recv_bytes /\ d.sent_bytes = c.sent_bytes
        /\ d.validated = c.validated /\ d.phase = p
    BY DEF Gate
  <2> HIDE DEF d, p
  <2> QED BY <1>0, <2>1, <2>2, <2>3 DEF Grows
<1>8. Grows(c, InstallKey(c, level)) /\ Grows(c, DiscardKey(c, level))
  <2>1. ASSUME NEW k PROVE Grows(c, [c EXCEPT !.keys = k])
    BY <1>0, <1>1 DEF Grows, Gate
  <2> QED BY <2>1 DEF InstallKey, DiscardKey
<1> QED BY Zenon, <1>2, <1>3, <1>4, <1>5, <1>6, <1>7, <1>8

-----------------------------------------------------------------------------
(***************************************************************************)
(* The numbers in flight.                                                  *)
(***************************************************************************)
\* A number is in flight when a slot holds it.
LEMMA InFlightIn ==
  ASSUME NEW t \in SentTable
  PROVE  /\ InFlight(t) \in SUBSET Nat
         /\ \A pn : pn \in InFlight(t) <=> \E i \in Slots : t[i] # Free /\ t[i] = pn
BY DEF InFlight, SentTable, Free

\* quic_sentpkt_on_send puts one more number in flight when there is room.
LEMMA InFlightSend ==
  ASSUME NEW t \in SentTable, NEW pn \in Nat, HasRoom(t)
  PROVE  SentOnSend(t, pn) \in SentTable /\ InFlight(SentOnSend(t, pn)) = InFlight(t) \union {pn}
<1> DEFINE k == FreeSlot(t)
           u == [t EXCEPT ![k] = pn]
<1>1. k \in Slots /\ t[k] = Free
  BY FreeSlotIsFree
<1>2. SentOnSend(t, pn) = u
  BY DEF SentOnSend
<1> HIDE DEF k
<1>3. u \in SentTable /\ \A i \in Slots : u[i] = IF i = k THEN pn ELSE t[i]
  BY <1>1 DEF SentTable
<1>4. pn # Free
  BY DEF Free
<1> HIDE DEF u
<1>5. \A q : q \in InFlight(u) <=> q \in InFlight(t) \union {pn}
  BY <1>1, <1>3, <1>4, InFlightIn
<1> QED BY <1>2, <1>3, <1>5

\* An ACK frame takes out of flight just the numbers its blocks cover.
LEMMA InFlightAck ==
  ASSUME NEW t \in SentTable, NEW top, NEW ranges
  PROVE  /\ AckProcess(t, top, ranges) \in SentTable
         /\ InFlight(AckProcess(t, top, ranges)) =
              {pn \in InFlight(t) : ranges = <<>> \/ ~Covered(pn, AckBlocks(top, ranges))}
<1> DEFINE u == AckProcess(t, top, ranges)
           blocks == AckBlocks(top, ranges)
<1>1. u \in SentTable
  BY AckProcessFacts
<1>2. CASE ranges = <<>>
  <2>1. u = t
    BY <1>2 DEF AckProcess
  <2> QED BY <1>2, <2>1
<1>3. CASE ranges # <<>>
  <2> HIDE DEF blocks
  <2>1. \A i \in Slots : u[i] = IF t[i] # Free /\ Covered(t[i], blocks) THEN Free ELSE t[i]
    BY <1>3 DEF AckProcess, blocks
  <2> HIDE DEF u
  <2>2. \A q : q \in InFlight(u) <=> q \in {pn \in InFlight(t) : ~Covered(pn, blocks)}
    BY <1>1, <2>1, InFlightIn
  <2>3. InFlight(u) = {pn \in InFlight(t) : ~Covered(pn, blocks)}
    BY <2>2
  <2> QED BY <1>1, <1>3, <2>3 DEF u, blocks
<1> QED BY <1>2, <1>3

\* A report of one range covers the numbers of that range.
LEMMA OneBlock ==
  ASSUME NEW top \in Int, NEW low \in Int
  PROVE  \A pn \in Int : Covered(pn, AckBlocks(top, <<top - low>>)) <=> low <= pn /\ pn <= top
<1> DEFINE k == 1
           out == <<top - low>>
           Body(f, b) == IF b = 1 THEN top - out[1] ELSE f[b - 1] - out[2 * b - 2] - 2 - out[2 * b - 1]
           g == CHOOSE f : f = [b \in 1 .. k |-> Body(f, b)]
           Block(b) == <<g[b], IF b = 1 THEN top ELSE g[b] + out[2 * b - 1]>>
           h == [b \in 1 .. k |-> low]
<1>1. out[1] = top - low /\ 1 + (Len(out) - 1) \div 2 = k /\ top - out[1] = low
  OBVIOUS
<1> HIDE DEF out, k
<1>2. AckBlocks(top, out) = {Block(b) : b \in 1 .. k}
  BY <1>1 DEF AckBlocks
<1>3. 1 \in 1 .. k /\ \A b \in 1 .. k : b = 1
  BY DEF k
<1>4. h = [b \in 1 .. k |-> Body(h, b)]
  BY <1>1, <1>3
<1>5. g = [b \in 1 .. k |-> Body(g, b)]
  BY Zenon, <1>4
<1> HIDE DEF g
<1>6. g[1] = low
  BY <1>1, <1>3, <1>5
<1>7. Block(1) = <<low, top>>
  BY <1>6
<1> HIDE DEF Block
<1>8. \A pn : Covered(pn, AckBlocks(top, out)) <=> Block(1)[1] <= pn /\ pn <= Block(1)[2]
  BY <1>2, <1>3 DEF Covered
<1> QED BY <1>7, <1>8 DEF out
=============================================================================
