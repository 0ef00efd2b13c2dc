------------------------------ MODULE SrvLoop -------------------------------
(***************************************************************************)
(* The server side of the handshake (tls/handshake/roles/server) with the  *)
(* buffer that collects CRYPTO frames (transport/conn/loop/crecv), and     *)
(* the HTTP/3 server's wire loop (app/http3/server/srvloop) over it and    *)
(* the HTTP/3 server state (h3srv).                                        *)
(*                                                                         *)
(* A handshake message is a run of cells, each holding the message it is a *)
(* part of; the first cell stands for type and length.                     *)
(*                                                                         *)
(* A request is a run of cells of the request stream, the first one its    *)
(* HEADERS, the others its DATA; a cell holds the request it is part of.   *)
(***************************************************************************)
EXTENDS Integers, Sequences, SequencesExt, FiniteSets

CONSTANTS
  CrecvBuf,   \* cells in the buffer that collects CRYPTO frames (QUIC_CRECV_BUF)
  Requests,   \* the requests clients make
  ReqCap,     \* cells in the request buffer (2048 bytes)
  PnWin       \* values of a truncated packet number, a power of two

\* Protection levels, as crypto/kdf/keys/keyset.h numbers them.
INITIAL == 0
HANDSHAKE == 1
ONERTT == 2

\* The messages a client sends, and a cell nothing was written to.
CLIENT_HELLO == "ClientHello"
FINISHED == "Finished"
UNFILLED == "unfilled"

MsgTotal(m) == IF m = CLIENT_HELLO THEN 3 ELSE 2

Phases == {"INITIAL", "CH_RECVD", "FLIGHT_SENT", "CONFIRMED"}

Crecv == [buf : [0 .. CrecvBuf - 1 -> {CLIENT_HELLO, FINISHED, UNFILLED}],
          received_to : 0 .. CrecvBuf]

CrecvInit == [buf |-> [i \in 0 .. CrecvBuf - 1 |-> UNFILLED], received_to |-> 0]

ServerState ==
  [phase : Phases,
   stage : 0 .. 2,            \* of the key schedule
   confirmed : BOOLEAN,       \* srvfin: the handshake is complete
   hs_done_sent : BOOLEAN,
   crecv : Crecv]

ServerInit ==
  [phase |-> "INITIAL", stage |-> 0, confirmed |-> FALSE,
   hs_done_sent |-> FALSE, crecv |-> CrecvInit]

-----------------------------------------------------------------------------
(***************************************************************************)
(* Collecting CRYPTO frames.                                               *)
(***************************************************************************)
Place(buf, f) ==
  [i \in DOMAIN buf |-> IF i \in f.off .. f.off + f.len - 1 THEN f.msg ELSE buf[i]]

\* A frame that does not fit ends the walk; what was placed before it stays.
CollectOne(c, f) ==
  IF ~c.ok \/ f.t # "CRYPTO" THEN c
  ELSE IF f.off + f.len > CrecvBuf THEN [c EXCEPT !.ok = FALSE]
  ELSE [c EXCEPT !.buf = Place(@, f)]

AdvancePrefix(buf) ==
  CHOOSE n \in 0 .. CrecvBuf :
    /\ \A i \in 0 .. n - 1 : buf[i] # UNFILLED
    /\ n < CrecvBuf => buf[n] = UNFILLED

Collect(c, frames) ==
  LET w == FoldLeft(CollectOne, [ok |-> TRUE, buf |-> c.buf], frames)
  IN  [ok |-> w.ok,
       crecv |-> [buf |-> w.buf,
                  received_to |-> IF w.ok THEN AdvancePrefix(w.buf) ELSE c.received_to]]

\* The prefix may run past the message its first cell announces, when an
\* earlier, longer one was collected into the same buffer.
CompleteMessage(c) == c.received_to >= 1 /\ MsgTotal(c.buf[0]) <= c.received_to

-----------------------------------------------------------------------------
(***************************************************************************)
(* The handshake.                                                          *)
(***************************************************************************)
CanRecvInitial(s) == s.phase = "INITIAL"
RecvInitial(s) == [s EXCEPT !.phase = "CH_RECVD"]

\* The shared secret is refused when it is all zero; the phase then stays and
\* no handshake key is derived.
CanBuildFlight(s) == s.phase = "CH_RECVD"
BuildFlight(s, secret_ok) ==
  IF secret_ok /\ s.stage = 0
  THEN [s EXCEPT !.phase = "FLIGHT_SENT", !.stage = 1] ELSE s

\* A Finished verifies when every one of its bytes is the client's.
VerifyFinished_Header(c) == c.buf[0] = FINISHED
VerifyFinished(c) == \A i \in 0 .. MsgTotal(FINISHED) - 1 : c.buf[i] = FINISHED

SrvComplete(s) ==
  IF s.stage # 1 THEN s
  ELSE [s EXCEPT !.stage = 2, !.confirmed = TRUE, !.phase = "CONFIRMED"]

OnFinished(s) ==
  IF s.phase = "FLIGHT_SENT" /\ VerifyFinished(s.crecv) THEN SrvComplete(s) ELSE s

Feed(s, frames) ==
  LET c == Collect(s.crecv, frames)
      t == [s EXCEPT !.crecv = c.crecv]
  IN  IF c.ok /\ CompleteMessage(c.crecv) THEN OnFinished(t) ELSE t

CanHandshakeDone(s) == s.confirmed /\ ~s.hs_done_sent
HandshakeDone(s) == [s EXCEPT !.hs_done_sent = TRUE]

IsConfirmed(s) == s.phase = "CONFIRMED"

\* The keys the schedule has reached; both directions of a level come together.
HaveKeys(s, level) == s.stage >= level

-----------------------------------------------------------------------------
\* Memory no request was written to: zeros (an empty DATA frame to the
\* decoder, not a HEADERS frame) or bytes no decoder accepts.
ZERO == 0
JUNK == -1
ASSUME RequestsAreNumbered == Requests \subseteq Nat \ {ZERO}

LoopState ==
  [settings_sent : BOOLEAN, request_seen : BOOLEAN,
   tx_pn : Nat, hs_tx_pn : Nat,
   app_rx_pn : Nat, app_rx_seen : BOOLEAN,
   hs_rx_pn : Nat, hs_rx_seen : BOOLEAN,
   hs_done_sent : BOOLEAN,
   req : Seq(Requests \cup {ZERO, JUNK}),
   req_buf : [0 .. ReqCap - 1 -> Requests \cup {ZERO, JUNK}],
   req_len : 0 .. ReqCap, req_fin : BOOLEAN, req_done : BOOLEAN]

\* req_buf and req are left as the memory was.
SrvLoopInit(memory) ==
  [settings_sent |-> FALSE, request_seen |-> FALSE,
   tx_pn |-> 0, hs_tx_pn |-> 0,
   app_rx_pn |-> 0, app_rx_seen |-> FALSE,
   hs_rx_pn |-> 0, hs_rx_seen |-> FALSE,
   hs_done_sent |-> FALSE,
   req |-> <<>>,
   req_buf |-> [i \in 0 .. ReqCap - 1 |-> memory],
   req_len |-> 0, req_fin |-> FALSE, req_done |-> FALSE]

-----------------------------------------------------------------------------
(***************************************************************************)
(* Opening a packet.                                                       *)
(***************************************************************************)
\* The number nearest to the one expected next that ends in the given bits.
PnumDecode(truncated, largest) ==
  LET expected == largest + 1
      candidate == (expected \div PnWin) * PnWin + truncated
  IN  IF candidate + PnWin \div 2 <= expected THEN candidate + PnWin
      ELSE IF candidate > expected + PnWin \div 2 /\ candidate >= PnWin
           THEN candidate - PnWin
           ELSE candidate

\* Both are the number received last, not the largest one.
AppLargestPn(l) == IF l.app_rx_seen THEN l.app_rx_pn ELSE 0
HsLargestPn(l) == IF l.hs_rx_seen THEN l.hs_rx_pn ELSE 0

\* A 1-RTT packet opens under the number recovered for it, a Handshake packet
\* under its truncated number, an Initial always.
Recv(l, s, p) ==
  \/ p.level = INITIAL
  \/ p.level = HANDSHAKE /\ HaveKeys(s, HANDSHAKE) /\ p.pn < PnWin
  \/ p.level = ONERTT /\ HaveKeys(s, ONERTT)
     /\ PnumDecode(p.pn % PnWin, AppLargestPn(l)) = p.pn

NoteAppRx(l, p) ==
  IF p.level # ONERTT THEN l
  ELSE [l EXCEPT !.app_rx_pn = PnumDecode(p.pn % PnWin, AppLargestPn(l)),
                 !.app_rx_seen = TRUE]

NoteHsRx(l, p) ==
  IF p.level # HANDSHAKE THEN l
  ELSE [l EXCEPT !.hs_rx_pn = PnumDecode(p.pn % PnWin, HsLargestPn(l)),
                 !.hs_rx_seen = TRUE]

-----------------------------------------------------------------------------
(***************************************************************************)
(* Dispatching its frames.                                                 *)
(***************************************************************************)
GatherOne(l, f) ==
  IF f.t # "REQUEST" \/ f.off >= ReqCap THEN l
  ELSE LET end == f.off + f.len
           hi == IF end < ReqCap THEN end ELSE ReqCap
       IN  [l EXCEPT
             !.req_buf = IF end > ReqCap THEN @
                         ELSE [i \in DOMAIN @ |-> IF i \in f.off .. end - 1 THEN f.req ELSE @[i]],
             !.req_len = IF hi > @ THEN hi ELSE @,
             !.req_fin = @ \/ f.fin]

RequestComplete(l) == l.req_fin /\ ~l.req_done

\* What the request decoder makes of the first req_len cells.
Reassembled(l) == [i \in 1 .. l.req_len |-> l.req_buf[i - 1]]
Decodes(cells) ==
  /\ cells # <<>> /\ cells[1] \in Requests
  /\ \A i \in DOMAIN cells : cells[i] # JUNK

\* The request's body stays a view into a buffer of this call (ViewRead).
DriveComplete(x) ==
  LET cells == Reassembled(x.l)
      done == [x EXCEPT !.l.req_done = TRUE]
  IN  IF Decodes(cells)
      THEN [done EXCEPT !.l.request_seen = TRUE, !.l.req = cells, !.got = TRUE]
      ELSE done

Has(frames, t) == \E i \in DOMAIN frames : frames[i].t = t

ReassembleAndDrive(x, frames) ==
  LET y == [x EXCEPT !.l = FoldLeft(GatherOne, @, frames)]
  IN  IF RequestComplete(y.l) THEN DriveComplete(y) ELSE y

\* A payload with a request frame drives HTTP/3, one with other streams is
\* ignored, every other one goes whole to the handshake, whatever its level.
Dispatch(x, frames) ==
  IF Has(frames, "REQUEST") THEN ReassembleAndDrive(x, frames)
  ELSE IF frames = <<>> \/ Has(frames, "UNI") THEN x
  ELSE [x EXCEPT !.s = Feed(@, frames)]

StepOne(x, p) ==
  IF ~Recv(x.l, x.s, p) THEN x
  ELSE Dispatch([x EXCEPT !.l = NoteHsRx(NoteAppRx(@, p), p)], p.frames)

-----------------------------------------------------------------------------
(***************************************************************************)
(* The reply.  room says which of the reply's packets fit the caller's     *)
(* buffer.  A reply is [l, s, out, handled]: the packets written, and the  *)
(* requests the application's handler was called with.                     *)
(***************************************************************************)
AckOf(pn) == [t |-> "ACK", pn |-> pn]
Frame(t) == [t |-> t]

Nothing(l, s) == [l |-> l, s |-> s, out |-> <<>>, handled |-> <<>>]

AppAck(l) == IF l.app_rx_seen THEN <<AckOf(l.app_rx_pn)>> ELSE <<>>

\* The handler is called, and its answer framed, for a decoded request.
ResponseFrame(got) == IF got THEN <<Frame("RESPONSE")>> ELSE <<>>
MayRespond(l) == l.settings_sent /\ l.request_seen
Handled(l, got) == IF got THEN <<l.req>> ELSE <<>>

\* What a handler may find: its HEADERS were copied, its DATA are read from the
\* stack of a call that has returned, as they were or overwritten.
ViewRead(req) == {req, [i \in DOMAIN req |-> IF i = 1 THEN req[1] ELSE JUNK]}
ReadsOf(reqs) == IF reqs = <<>> THEN {<<>>} ELSE {<<r>> : r \in ViewRead(Head(reqs))}

\* The number is spent whether or not the packet is written.
HandshakeAck_Zero(l) == [level |-> HANDSHAKE, pn |-> l.hs_tx_pn, frames |-> <<AckOf(0)>>]
HandshakeAck(l) == [level |-> HANDSHAKE, pn |-> l.hs_tx_pn, frames |-> <<AckOf(l.hs_rx_pn)>>]
Onertt(l, frames) == [level |-> ONERTT, pn |-> l.tx_pn, frames |-> frames]

CanOpenControl(l) == TRUE

EmitConfirm(l, s, got, room) ==
  LET l1 == [l EXCEPT !.hs_tx_pn = @ + 1]
      l2 == [l1 EXCEPT !.settings_sent = TRUE]
      l3 == [l2 EXCEPT !.tx_pn = @ + 1]
      frames == <<Frame("SETTINGS"), Frame("HANDSHAKE_DONE")>>
                \o ResponseFrame(got) \o AppAck(l)
  IN  IF ~HaveKeys(s, HANDSHAKE) THEN Nothing(l, s)
      ELSE IF HANDSHAKE \notin room \/ ~CanOpenControl(l) THEN Nothing(l1, s)
      ELSE IF ~CanHandshakeDone(s) THEN Nothing(l2, s)
      ELSE IF got /\ ~MayRespond(l2) THEN Nothing(l2, HandshakeDone(s))
      ELSE IF ONERTT \notin room
           THEN [Nothing(l3, HandshakeDone(s)) EXCEPT !.handled = Handled(l, got)]
      ELSE [l |-> [l3 EXCEPT !.hs_done_sent = TRUE], s |-> HandshakeDone(s),
            out |-> <<HandshakeAck(l), Onertt(l, frames)>>,
            handled |-> Handled(l, got)]

SendOnertt(l, s, frames, handled, room) ==
  [l |-> [l EXCEPT !.tx_pn = @ + 1], s |-> s,
   out |-> IF ONERTT \in room /\ HaveKeys(s, ONERTT) THEN <<Onertt(l, frames)>> ELSE <<>>,
   handled |-> handled]

EmitResponse(l, s, room) ==
  IF MayRespond(l)
  THEN SendOnertt(l, s, ResponseFrame(TRUE) \o AppAck(l), Handled(l, TRUE), room)
  ELSE Nothing(l, s)

EmitAckOnly(l, s, room) ==
  IF AppAck(l) = <<>> THEN Nothing(l, s)
  ELSE SendOnertt(l, s, AppAck(l), <<>>, room)

ProduceConfirmed(l, s, got, room) ==
  IF got THEN EmitResponse(l, s, room) ELSE EmitAckOnly(l, s, room)

Produce_AnswerFirst(l, s, got, room) ==
  IF ~l.hs_done_sent /\ ~(got /\ IsConfirmed(s)) THEN EmitConfirm(l, s, got, room)
  ELSE ProduceConfirmed(l, s, got, room)
Produce(l, s, got, room) ==
  IF ~l.hs_done_sent THEN EmitConfirm(l, s, got, room)
  ELSE ProduceConfirmed(l, s, got, room)

\* req_buf keeps its contents.
RearmReqacc_KeepFin(l, got) ==
  IF got THEN [l EXCEPT !.req_len = 0, !.req_done = FALSE] ELSE l
RearmReqacc(l, got) ==
  IF got THEN [l EXCEPT !.req_len = 0, !.req_fin = FALSE, !.req_done = FALSE] ELSE l

\* A datagram is split into packets, each is processed, one reply is built.
StepLoop(l, s, dgram, room) ==
  LET x == FoldLeft(StepOne, [l |-> l, s |-> s, got |-> FALSE], dgram)
      r == Produce(x.l, x.s, x.got, room)
  IN  [r EXCEPT !.l = RearmReqacc(@, x.got)]

(***************************************************************************)
(* The HTTP/3 server, its owner, and a network that loses, repeats and     *)
(* reorders a client's datagrams.  The client makes its requests one after *)
(* the other on stream 0, each once the one before is answered.            *)
(*                                                                         *)
(* wire, handled, opened, fins and short are history: the packets written, *)
(* the requests the handler was called with, the packets opened, the FINs  *)
(* they carried, and which packet of the confirmation lacked room.         *)
(***************************************************************************)

CONSTANTS
  Datagrams,   \* sequences of the packets clients send
  Rooms,       \* what may fit the caller's buffer
  MaxSteps     \* datagrams delivered

VARIABLES l, s, wire, handled, opened, fins, short, steps
vars == <<l, s, wire, handled, opened, fins, short, steps>>

Init ==
  /\ \E memory \in {ZERO, JUNK} : l = SrvLoopInit(memory)
  /\ s = ServerInit
  /\ wire = <<>> /\ handled = <<>> /\ opened = {}
  /\ fins = 0 /\ short = "none" /\ steps = 0

Owner(t) == s' = t /\ UNCHANGED <<l, wire, handled, opened, fins, short, steps>>

AcceptInitial == CanRecvInitial(s) /\ Owner(RecvInitial(s))
SendFlight(secret_ok) == CanBuildFlight(s) /\ Owner(BuildFlight(s, secret_ok))

Packet(dgram) == {dgram[i] : i \in DOMAIN dgram}
Responses(packets) == Cardinality({i \in DOMAIN packets : Has(packets[i].frames, "RESPONSE")})

\* The client has sent the packets of the requests it has come to.
Sent(dgram) ==
  \A p \in Packet(dgram) : \A i \in DOMAIN p.frames :
    p.frames[i].t = "REQUEST" => p.frames[i].req <= Responses(wire) + 1

\* The packets of a datagram that open, one after the other.
OpenedOf(dgram) ==
  LET x(n) == FoldLeft(StepOne, [l |-> l, s |-> s, got |-> FALSE], SubSeq(dgram, 1, n))
  IN  {i \in DOMAIN dgram : Recv(x(i - 1).l, x(i - 1).s, dgram[i])}

Fins(packets) ==
  Cardinality({p \in packets :
    \E j \in DOMAIN p.frames : p.frames[j].t = "REQUEST" /\ p.frames[j].fin})

\* Of a server that verified the Finished and has not confirmed: the first of
\* the two packets of the confirmation that had no room in this reply, or that
\* the second one had none in an earlier reply.
ShortOf(after, room) ==
  IF l.hs_done_sent \/ short = "1-RTT" \/ ~IsConfirmed(after) THEN short
  ELSE IF HANDSHAKE \notin room THEN "Handshake"
  ELSE IF ONERTT \notin room THEN "1-RTT" ELSE "none"

Step(dgram) ==
  LET packets == {dgram[i] : i \in OpenedOf(dgram)}
  IN  /\ steps < MaxSteps /\ Sent(dgram)
      /\ steps' = steps + 1
      /\ opened' = opened \cup {<<p.level, p.pn>> : p \in packets}
      /\ fins' = fins + Fins(packets)
      /\ \E room \in Rooms :
           LET r == StepLoop(l, s, dgram, room)
           IN  /\ l' = r.l /\ s' = r.s
               /\ wire' = wire \o r.out
               /\ short' = ShortOf(r.s, room)
               /\ \E read \in ReadsOf(r.handled) : handled' = handled \o read

Next ==
  \/ AcceptInitial
  \/ \E secret_ok \in BOOLEAN : SendFlight(secret_ok)
  \/ \E dgram \in Datagrams : Step(dgram)

Spec == Init /\ [][Next]_vars

-----------------------------------------------------------------------------
(***************************************************************************)
(* Properties.                                                             *)
(***************************************************************************)
\* Types of the loop and the server.
TypeOK == l \in LoopState /\ s \in ServerState

OneRttPackets == SelectSeq(wire, LAMBDA p : p.level = ONERTT)

\* The first 1-RTT packet is the confirmation, and no other one is: SETTINGS
\* and HANDSHAKE_DONE come exactly once, before or with the first answer,
\* although an attempt to send them was made on every datagram before
\* (respond.c:206-239).
ConfirmationFirstAndOnce ==
  \A i \in DOMAIN OneRttPackets :
    \A t \in {"SETTINGS", "HANDSHAKE_DONE"} :
      Has(OneRttPackets[i].frames, t) <=> i = 1

\* A server that has verified the client's Finished tells the client so in the
\* same step if both packets have room.  If the Handshake packet had none it
\* tries again; if only the 1-RTT packet had none it never does, because
\* HANDSHAKE_DONE was marked sent before it was sealed (respond.c:58-67,116-163).
ConfirmsAtOnce == IsConfirmed(s) => (l.hs_done_sent <=> short = "none")

\* The confirmation is sent once, first, and as soon as it may be.
ConfirmationExact == ConfirmationFirstAndOnce /\ ConfirmsAtOnce

\* Nothing is sent under 1-RTT keys before every part of the client's Finished
\* was received, in whatever order its parts and repeated ClientHellos were
\* written to the one CRYPTO buffer (server.c:128-167, collect.c:30-70).
OneRttAfterFinished ==
  OneRttPackets # <<>> =>
    \A i \in 0 .. MsgTotal(FINISHED) - 1 :
      \E dgram \in Datagrams : \E p \in Packet(dgram) :
        /\ <<p.level, p.pn>> \in opened
        /\ \E j \in DOMAIN p.frames :
             p.frames[j].t = "CRYPTO" /\ p.frames[j].msg = FINISHED
             /\ i \in p.frames[j].off .. p.frames[j].off + p.frames[j].len - 1

HsOpened == {o[2] : o \in {q \in opened : q[1] = HANDSHAKE}}
WithinHalf(S) == \A m, n \in S : m - n < PnWin \div 2

\* An ACK names a packet that was opened in the space it is sent in
\* (srvloop.c:50-89, respond.c:27-45, 69-75).  A 1-RTT packet is opened under
\* the number that is recorded.  A Handshake packet is opened under its
\* truncated number: once two of them were half a window apart, the number
\* acknowledged ends in the bits of an opened one and may be windows above it.
AcksNameOpened ==
  \A i \in DOMAIN wire : \A j \in DOMAIN wire[i].frames :
    LET a == wire[i].frames[j]
    IN  a.t = "ACK" =>
          \/ <<wire[i].level, a.pn>> \in opened
          \/ /\ wire[i].level = HANDSHAKE /\ ~WithinHalf(HsOpened)
             /\ a.pn % PnWin \in HsOpened

\* Packet numbers the loop assigns grow in each space, across replies that were
\* given up half way (respond.c:44, 144, 177, 189).
NumbersGrow ==
  \A i, j \in DOMAIN wire :
    i < j /\ wire[i].level = wire[j].level => wire[i].pn < wire[j].pn

\* Numbers and acknowledgements are right in each space, with the loop and the
\* server in their types.
SpacesKept == TypeOK /\ AcksNameOpened /\ NumbersGrow

\* The handler runs at most once for each FIN that arrived: the accumulator is
\* re-armed after an answer and does not answer again (srvloop.c:122-131).
HandledPerFin == Len(handled) <= fins

(***************************************************************************)
(* What a comment says of the code and it does not do.                     *)
(***************************************************************************)
\* srvloop.c:122-124: after an answer "the next request (curl reuses stream 0
\* across requests) reassembles from a clean buffer rather than re-triggering
\* the finished one".  The bytes of the last request stay in the buffer, and
\* FIN completes a request whatever is missing before it: the handler is called
\* with a mixture of two requests.
HandledAsSent ==
  \A i \in DOMAIN handled :
    \A j, k \in DOMAIN handled[i] :
      {handled[i][j], handled[i][k]} \subseteq Requests => handled[i][j] = handled[i][k]
=============================================================================
