------------------------------ MODULE Streams -------------------------------
(***************************************************************************)
(* Stream identifiers, the state machines of the two halves of a stream,   *)
(* flow control, reassembly and the limits on streams (transport/stream).  *)
(*                                                                         *)
(* Every function is an operator from the old record to the new one.  The  *)
(* library leaves their composition to its caller; below they are composed *)
(* as the headers prescribe.                                               *)
(*                                                                         *)
(* Abstractions.  A byte is a number; the two arrays of the reassembler    *)
(* are one function from the received offsets to bytes.                    *)
(***************************************************************************)
EXTENDS Integers, Sequences, FiniteSetsExt, Functions, Fsm

CONSTANTS
  ReasmCap,        \* QUIC_REASM_CAP, bytes a reassembler holds
  MaxStreamsLimit  \* QUIC_MAX_STREAMS_LIMIT, 2^60

ASSUME ReasmCapAssumption == ReasmCap \in Nat \ {0}
ASSUME LimitAssumption == MaxStreamsLimit \in Nat \ {0}

(***************************************************************************)
(* Identifiers: bit 0 is the initiator, bit 1 the direction.               *)
(***************************************************************************)
IsClientInitiated(id) == id % 2 = 0

IsUni(id) == (id \div 2) % 2 = 1

StreamId(is_server, is_uni, index) ==
  4 * index + (IF is_uni THEN 2 ELSE 0) + (IF is_server THEN 1 ELSE 0)

AmInitiator(am_client, id) == am_client = IsClientInitiated(id)

CanSend(am_client, id) == IsUni(id) => AmInitiator(am_client, id)

CanReceive(am_client, id) == IsUni(id) => ~AmInitiator(am_client, id)

MaxStreamsOk(max_streams) == max_streams <= MaxStreamsLimit

NoStream == -1

MaxId(is_server, is_uni, max_streams) ==
  IF max_streams = 0 \/ ~MaxStreamsOk(max_streams) THEN NoStream
  ELSE StreamId(is_server, is_uni, max_streams - 1)

(***************************************************************************)
(* The two state machines.  A step without a row leaves the state alone.   *)
(***************************************************************************)
SendStates ==
  {"READY", "SEND", "DATA_SENT", "DATA_RECVD", "RESET_SENT", "RESET_RECVD"}

RecvStates ==
  {"RECV", "SIZE_KNOWN", "DATA_RECVD", "DATA_READ", "RESET_RECVD", "RESET_READ"}

SendRows == {
  <<"READY", "STREAM", "SEND">>,
  <<"SEND", "FIN_SENT", "DATA_SENT">>,
  <<"DATA_SENT", "ACKED", "DATA_RECVD">>,
  <<"READY", "RESET", "RESET_SENT">>,
  <<"SEND", "RESET", "RESET_SENT">>,
  <<"DATA_SENT", "RESET", "RESET_SENT">>,
  <<"RESET_SENT", "RESET_ACKED", "RESET_RECVD">>}

\* Mutant: a reset is also taken after all the data has arrived.
RecvRows_LateReset == {
  <<"RECV", "FIN", "SIZE_KNOWN">>,
  <<"SIZE_KNOWN", "ALL_DATA", "DATA_RECVD">>,
  <<"DATA_RECVD", "READ", "DATA_READ">>,
  <<"DATA_RECVD", "RESET", "RESET_RECVD">>,
  <<"RECV", "RESET", "RESET_RECVD">>,
  <<"SIZE_KNOWN", "RESET", "RESET_RECVD">>,
  <<"RESET_RECVD", "READ", "RESET_READ">>}

RecvRows == {
  <<"RECV", "FIN", "SIZE_KNOWN">>,
  <<"SIZE_KNOWN", "ALL_DATA", "DATA_RECVD">>,
  <<"DATA_RECVD", "READ", "DATA_READ">>,
  <<"RECV", "RESET", "RESET_RECVD">>,
  <<"SIZE_KNOWN", "RESET", "RESET_RECVD">>,
  <<"RESET_RECVD", "READ", "RESET_READ">>}

SendStep(s, ev) == FsmStep(SendRows, s, ev)

RecvStep(s, ev) == FsmStep(RecvRows, s, ev)

Bidi == [send : SendStates, recv : RecvStates]

BidiInit == [send |-> "READY", recv |-> "RECV"]

SendTerminal(s) == s \in {"DATA_RECVD", "RESET_RECVD"}

RecvTerminal(s) == s \in {"DATA_READ", "RESET_READ"}

BidiClosed(b) == SendTerminal(b.send) /\ RecvTerminal(b.recv)

(***************************************************************************)
(* Credit of a sender, and of a receiver (per stream and per connection).  *)
(***************************************************************************)
FlowSend == [sent : Nat, max_data : Nat]

FlowSendInit(max_data) == [sent |-> 0, max_data |-> max_data]

FlowSendAvail(f) == IF f.max_data > f.sent THEN f.max_data - f.sent ELSE 0

FlowSendFits(f, n) == n <= FlowSendAvail(f)

FlowSendRecord(f, n) == IF FlowSendFits(f, n) THEN [f EXCEPT !.sent = @ + n] ELSE f

FlowSendUpdateMax(f, max_data) == [f EXCEPT !.max_data = Max({@, max_data})]

FlowSendBlocked(f, want) == want # 0 /\ want > FlowSendAvail(f)

FlowCredit == [consumed : Nat, max_data : Nat, window : Nat]

FlowCreditInit(initial_max) ==
  [consumed |-> 0, window |-> initial_max, max_data |-> initial_max]

FlowCreditConsume(c, n) ==
  [c EXCEPT !.consumed = @ + n, !.max_data = c.consumed + n + c.window]

FlowCreditViolation(c, received_total) == received_total > c.max_data

StreamFlow == [consumed : Nat, max_stream_data : Nat, window : Nat]

StreamFlowInit(window) ==
  [consumed |-> 0, window |-> window, max_stream_data |-> window]

StreamFlowConsume(s, n) ==
  [s EXCEPT !.consumed = @ + n, !.max_stream_data = s.consumed + n + s.window]

StreamFlowViolation(received, max_stream_data) == received > max_stream_data

\* Mutant: a limit reached is a limit exceeded.
DualFlowOk_Strict(stream_used, stream_max, conn_used, conn_max) ==
  stream_used < stream_max /\ conn_used < conn_max

DualFlowOk(stream_used, stream_max, conn_used, conn_max) ==
  stream_used <= stream_max /\ conn_used <= conn_max

(***************************************************************************)
(* The number of streams: what the opener was granted, and what the peer   *)
(* of the opener has seen opened.                                          *)
(***************************************************************************)
StreamCredit == [max_streams : Nat, count : Nat]

StreamCreditInit(max_streams) == [max_streams |-> max_streams, count |-> 0]

StreamCreditMayOpen(s) == s.count < s.max_streams

StreamCreditOpen(s) == IF StreamCreditMayOpen(s) THEN [s EXCEPT !.count = @ + 1] ELSE s

StreamCreditGrant(s, new_max) ==
  IF new_max > s.max_streams THEN [s EXCEPT !.max_streams = new_max] ELSE s

MaxStreamsCanOpen(opened, max_streams) == opened < max_streams

PeerStreams == [limit : Nat, opened : Nat]

StreamsInit(limit) == [limit |-> limit, opened |-> 0]

\* Mutant: a limit raised by one is ignored.
StreamsSetMax_OffByOne(s, new_limit) ==
  IF new_limit <= s.limit + 1 THEN s ELSE [s EXCEPT !.limit = new_limit]

StreamsSetMax(s, new_limit) ==
  IF new_limit <= s.limit THEN s ELSE [s EXCEPT !.limit = new_limit]

StreamsMayOpen(s, index) == index < s.limit

StreamsObserve(s, index) == [s EXCEPT !.opened = Max({@, index + 1})]

\* quic_flowviol_check: the data limit is tested before the stream limit.
FlowViolCheck(received_total, max_data, stream_count, max_streams) ==
  IF FlowCreditViolation(FlowCreditInit(max_data), received_total)
  THEN "FLOW_CONTROL_ERROR"
  ELSE IF ~StreamCreditMayOpen([StreamCreditInit(max_streams) EXCEPT !.count = stream_count])
  THEN "STREAM_LIMIT_ERROR"
  ELSE "NONE"

(***************************************************************************)
(* The final size.                                                         *)
(***************************************************************************)
FinalSize == [highest : Nat, final_size : Nat, known : BOOLEAN]

FinalSizeInit == [highest |-> 0, final_size |-> 0, known |-> FALSE]

NoteHighest(f, offset, len) == [f EXCEPT !.highest = Max({@, offset + len})]

FinalSizeDataOk(f, offset, len) == f.known => offset + len <= f.final_size

SizeConsistent(f, size) ==
  IF f.known THEN size = f.final_size ELSE size >= f.highest

FinalSizeSet(f, size) ==
  IF SizeConsistent(f, size) THEN [f EXCEPT !.final_size = size, !.known = TRUE] ELSE f

(***************************************************************************)
(* Reassembly and the ordered read.                                        *)
(***************************************************************************)
IsReasm(r) ==
  /\ DOMAIN r.buf \subseteq 0 .. ReasmCap - 1
  /\ r.delivered \in 0 .. ReasmCap
  /\ r.final_size \in Nat /\ r.have_final \in BOOLEAN

ReasmInit == [buf |-> <<>>, delivered |-> 0, final_size |-> 0, have_final |-> FALSE]

InsertFits(r, offset, len) ==
  /\ offset + len <= ReasmCap
  /\ r.have_final => offset + len <= r.final_size

\* Mutant: every byte of a frame is copied from its first.
ReasmInsert_Shifted(r, offset, data) ==
  IF ~InsertFits(r, offset, Len(data)) THEN r
  ELSE [r EXCEPT !.buf =
         [o \in DOMAIN r.buf \union (offset .. offset + Len(data) - 1) |->
            IF o < offset \/ o >= offset + Len(data) THEN r.buf[o] ELSE data[1]]]

ReasmInsert(r, offset, data) ==
  IF ~InsertFits(r, offset, Len(data)) THEN r
  ELSE LET new == offset .. offset + Len(data) - 1
       IN  [r EXCEPT !.buf = [o \in DOMAIN r.buf \union new |->
              IF o \in new THEN data[o - offset + 1] ELSE r.buf[o]]]

ReasmSetFinal(r, final_size) ==
  IF final_size > ReasmCap THEN r
  ELSE [r EXCEPT !.final_size = final_size, !.have_final = TRUE]

ReasmDeliver(r) ==
  [r EXCEPT !.delivered =
     Max({d \in @ .. ReasmCap : (@ .. d - 1) \subseteq DOMAIN r.buf})]

StreamReadInit == [r |-> ReasmInit, read_off |-> 0]

StreamReadPush(s, offset, data) == [s EXCEPT !.r = ReasmInsert(@, offset, data)]

Readable(s, cap) == Min({ReasmDeliver(s.r).delivered - s.read_off, cap})

StreamReadPull(s, cap) ==
  [s EXCEPT !.r = ReasmDeliver(@), !.read_off = @ + Readable(s, cap)]

\* The bytes quic_stream_read_pull copies out.
PulledBytes(s, cap) == [i \in 1 .. Readable(s, cap) |-> s.r.buf[s.read_off + i - 1]]

(***************************************************************************)
(* One endpoint sends on unidirectional streams of its own, the other      *)
(* reads them.  The streams library composed as its headers prescribe:     *)
(* the sender opens a stream under the peer's MAX_STREAMS, sends within    *)
(* both credits, resets when its application asks; the receiver checks     *)
(* every limit before it buffers, delivers in order, and gives credit back *)
(* as its application reads.                                               *)
(*                                                                         *)
(* Frames stay in net once sent and are taken any number of times in any   *)
(* order: duplication, reordering, and loss repaired by retransmission.    *)
(***************************************************************************)

CONSTANTS
  NumStreams,  \* streams the application wants to send
  StreamLen,   \* bytes of each
  Chunk,       \* bound on the bytes of a frame
  ConnWindow, StreamWindow, InitStreams, \* limits of the handshake
  ReadCap,     \* bytes the application takes at a time
  Resets,      \* streams the application may abandon
  Resends      \* streams whose data is sent again in other pieces

ASSUME StreamsAssumption ==
  /\ {NumStreams, StreamLen, Chunk, ConnWindow, StreamWindow, InitStreams, ReadCap} \subseteq Nat
  /\ StreamLen <= ReasmCap   \* an owner gives a reassembler no stream it cannot hold

VARIABLES snd, rcv, net
streamVars == <<snd, rcv, net>>

Ids == {StreamId(FALSE, TRUE, i) : i \in 0 .. NumStreams - 1}
Index(id) == id \div 4
Byte(id, off) == 10 * (off + 1) + Index(id)

Frames(t) == {f \in net.frames : f.t = t}
Of(id, fs) == {f \in fs : f.id = id}

StreamInit ==
  /\ snd = [open |-> StreamCreditInit(InitStreams), conn |-> FlowSendInit(ConnWindow),
            half |-> [id \in Ids |-> BidiInit.send],
            flow |-> [id \in Ids |-> FlowSendInit(StreamWindow)]]
  /\ rcv = [open |-> StreamsInit(InitStreams), conn |-> FlowCreditInit(ConnWindow),
            half |-> [id \in Ids |-> BidiInit.recv],
            flow |-> [id \in Ids |-> StreamFlowInit(StreamWindow)],
            size |-> [id \in Ids |-> FinalSizeInit],
            read |-> [id \in Ids |-> StreamReadInit],
            out |-> [id \in Ids |-> <<>>], err |-> "NONE"]
  /\ net = [frames |-> {}, got |-> {}]

Emit(fs) == net' = [net EXCEPT !.frames = @ \union fs]

(***************************************************************************)
(* The sender.                                                             *)
(***************************************************************************)
Open ==
  /\ snd.open.count < NumStreams
  /\ MaxStreamsCanOpen(snd.open.count, snd.open.max_streams)
  /\ StreamId(FALSE, TRUE, snd.open.count) <= MaxId(FALSE, TRUE, snd.open.max_streams)
  /\ snd' = [snd EXCEPT !.open = StreamCreditOpen(@)]
  /\ UNCHANGED <<rcv, net>>

Opened(id) == Index(id) < snd.open.count

StreamFrame(id, off, n, fin) ==
  [t |-> "STREAM", id |-> id, off |-> off, fin |-> fin,
   data |-> [i \in 1 .. n |-> Byte(id, off + i - 1)]]

\* n bytes at the end of what was sent, with the FIN when they are the last.
SendData(id, n, fin) ==
  LET off == snd.flow[id].sent
      half == SendStep(snd.half[id], "STREAM")
  IN  /\ Opened(id) /\ CanSend(TRUE, id)
      /\ snd.half[id] \in {"READY", "SEND"}
      /\ off + n <= StreamLen
      /\ fin => off + n = StreamLen
      /\ n > 0 \/ fin
      /\ ~FlowSendBlocked(snd.flow[id], n) /\ ~FlowSendBlocked(snd.conn, n)
      /\ snd' = [snd EXCEPT
           !.flow[id] = FlowSendRecord(snd.flow[id], n), !.conn = FlowSendRecord(@, n),
           !.half[id] = IF fin THEN SendStep(half, "FIN_SENT") ELSE half]
      /\ Emit({StreamFrame(id, off, n, fin)}) /\ UNCHANGED rcv

\* Sent bytes sent again in one frame, across the frames they were first in.
Resend(id) ==
  /\ id \in Resends /\ snd.half[id] = "DATA_SENT"
  /\ Emit({StreamFrame(id, 0, snd.flow[id].sent, TRUE)})
  /\ UNCHANGED <<snd, rcv>>

Reset(id) ==
  /\ id \in Resets /\ Opened(id)
  /\ FsmAllows(SendRows, snd.half[id], "RESET")
  /\ snd' = [snd EXCEPT !.half[id] = SendStep(snd.half[id], "RESET")]
  /\ Emit({[t |-> "RESET_STREAM", id |-> id, size |-> snd.flow[id].sent]})
  /\ UNCHANGED rcv

\* Every STREAM frame of the stream, or its reset, was acknowledged.
Acked(id, ev) ==
  /\ FsmAllows(SendRows, snd.half[id], ev)
  /\ Of(id, Frames(IF ev = "ACKED" THEN "STREAM" ELSE "RESET_STREAM")) \subseteq net.got
  /\ snd' = [snd EXCEPT !.half[id] = SendStep(snd.half[id], ev)]
  /\ UNCHANGED <<rcv, net>>

TakeCredit(f) ==
  /\ f \in net.frames /\ f.t \in {"MAX_DATA", "MAX_STREAM_DATA", "MAX_STREAMS"}
  /\ snd' = CASE f.t = "MAX_DATA" -> [snd EXCEPT !.conn = FlowSendUpdateMax(@, f.max)]
             [] f.t = "MAX_STREAM_DATA" ->
                  [snd EXCEPT !.flow[f.id] = FlowSendUpdateMax(snd.flow[f.id], f.max)]
             [] f.t = "MAX_STREAMS" -> [snd EXCEPT !.open = StreamCreditGrant(@, f.max)]
  /\ UNCHANGED <<rcv, net>>

(***************************************************************************)
(* The receiver.                                                           *)
(***************************************************************************)
Received(sizes) == SumFunction([id \in Ids |-> sizes[id].highest])

\* The error of a frame that takes the sizes to these values.
Violation(id, sizes, consistent) ==
  LET limit == FlowViolCheck(Received(sizes), rcv.conn.max_data,
                             Index(id), rcv.open.limit)
  IN  IF ~CanReceive(FALSE, id) THEN "STREAM_STATE_ERROR"
      ELSE IF limit # "NONE" THEN limit
      ELSE IF \/ StreamFlowViolation(sizes[id].highest, rcv.flow[id].max_stream_data)
              \/ ~DualFlowOk(sizes[id].highest, rcv.flow[id].max_stream_data,
                             Received(sizes), rcv.conn.max_data)
      THEN "FLOW_CONTROL_ERROR"
      ELSE IF ~consistent THEN "FINAL_SIZE_ERROR" ELSE "NONE"

TakeStream(f) ==
  LET id == f.id
      end == f.off + Len(f.data)
      size1 == NoteHighest(rcv.size[id], f.off, Len(f.data))
      size2 == IF f.fin THEN FinalSizeSet(size1, end) ELSE size1
      err == Violation(id, [rcv.size EXCEPT ![id] = size1],
               /\ FinalSizeDataOk(size1, f.off, Len(f.data))
               /\ f.fin => SizeConsistent(size1, end))
      push0 == StreamReadPush(rcv.read[id], f.off, f.data)
      push == IF f.fin THEN [push0 EXCEPT !.r = ReasmSetFinal(@, end)] ELSE push0
      half == IF f.fin THEN RecvStep(rcv.half[id], "FIN") ELSE rcv.half[id]
      all == size2.known /\ ReasmDeliver(push.r).delivered = size2.final_size
  IN  /\ f \in Frames("STREAM") /\ rcv.err = "NONE"
      /\ rcv' = IF err # "NONE" THEN [rcv EXCEPT !.err = err]
                ELSE [rcv EXCEPT !.open = StreamsObserve(@, Index(id)),
                        !.size[id] = size2, !.read[id] = push,
                        !.half[id] = IF all THEN RecvStep(half, "ALL_DATA") ELSE half]
      /\ net' = [net EXCEPT !.got = @ \union {f}] /\ UNCHANGED snd

TakeReset(f) ==
  LET id == f.id
      size == FinalSizeSet(NoteHighest(rcv.size[id], 0, f.size), f.size)
      err == Violation(id, [rcv.size EXCEPT ![id] = size], SizeConsistent(rcv.size[id], f.size))
  IN  /\ f \in Frames("RESET_STREAM") /\ rcv.err = "NONE"
      /\ rcv' = IF err # "NONE" THEN [rcv EXCEPT !.err = err]
                ELSE [rcv EXCEPT !.open = StreamsObserve(@, Index(id)),
                        !.size[id] = size, !.half[id] = RecvStep(rcv.half[id], "RESET")]
      /\ net' = [net EXCEPT !.got = @ \union {f}] /\ UNCHANGED snd

\* The application reads, or learns of the reset; the credit it frees and,
\* for a finished stream, one more stream are advertised.
Read(id) ==
  LET n == IF rcv.half[id] = "RESET_RECVD" THEN 0 ELSE Readable(rcv.read[id], ReadCap)
      read == StreamReadPull(rcv.read[id], n)
      done == \/ rcv.half[id] = "RESET_RECVD"
              \/ rcv.half[id] = "DATA_RECVD" /\ read.read_off = rcv.size[id].final_size
      rest == IF rcv.half[id] = "RESET_RECVD"
              THEN rcv.size[id].final_size - rcv.flow[id].consumed ELSE n
      flow == StreamFlowConsume(rcv.flow[id], n)
      conn == FlowCreditConsume(rcv.conn, rest)
      open == IF done THEN StreamsSetMax(rcv.open, rcv.open.limit + 1) ELSE rcv.open
  IN  /\ rcv.err = "NONE"
      /\ n > 0 \/ done
      /\ rcv' = [rcv EXCEPT !.read[id] = read, !.flow[id] = flow, !.conn = conn, !.open = open,
                   !.out[id] = rcv.out[id] \o PulledBytes(rcv.read[id], n),
                   !.half[id] = IF done THEN RecvStep(rcv.half[id], "READ") ELSE rcv.half[id]]
      /\ Emit({[t |-> "MAX_DATA", max |-> conn.max_data],
               [t |-> "MAX_STREAM_DATA", id |-> id, max |-> flow.max_stream_data],
               [t |-> "MAX_STREAMS", max |-> open.limit]})
      /\ UNCHANGED snd

SendSome(id) == \E n \in 0 .. Chunk, fin \in BOOLEAN : SendData(id, n, fin)

StreamNext ==
  \/ Open
  \/ \E id \in Ids : SendSome(id) \/ Resend(id) \/ Reset(id) \/ Read(id)
  \/ \E id \in Ids, ev \in {"ACKED", "RESET_ACKED"} : Acked(id, ev)
  \/ \E f \in Frames("STREAM") : TakeStream(f)
  \/ \E f \in Frames("RESET_STREAM") : TakeReset(f)
  \/ \E f \in net.frames : TakeCredit(f)

StreamSpec == StreamInit /\ [][StreamNext]_streamVars

StreamTypeOK ==
  /\ snd.open \in StreamCredit /\ snd.conn \in FlowSend
  /\ \A id \in Ids :
       /\ snd.half[id] \in SendStates /\ snd.flow[id] \in FlowSend
       /\ rcv.half[id] \in RecvStates /\ rcv.flow[id] \in StreamFlow
       /\ rcv.size[id] \in FinalSize /\ IsReasm(rcv.read[id].r)
       /\ Len(rcv.out[id]) = rcv.read[id].read_off
  /\ rcv.open \in PeerStreams /\ rcv.conn \in FlowCredit
  /\ net.got \subseteq net.frames

\* A sender that keeps to the credit it was told of, however late or out of
\* order it was told, never makes the receiver report a flow-control, stream
\* limit, stream state or final size error.
NoFalseError == rcv.err = "NONE"

\* The application reads a prefix of what the peer wrote, whatever the order,
\* overlap and number of the frames.
ReadsWhatWasWritten ==
  \A id \in Ids : \A i \in 1 .. Len(rcv.out[id]) : rcv.out[id][i] = Byte(id, i - 1)

\* The two halves of a stream end the same way: data acknowledged as complete
\* is complete at the reader, a stream read to its end was not abandoned
\* earlier, and a reset the reader saw was sent.
HalvesAgree ==
  \A id \in Ids :
    /\ snd.half[id] = "DATA_RECVD" => rcv.half[id] \in {"DATA_RECVD", "DATA_READ"}
    /\ snd.half[id] = "RESET_RECVD" => rcv.half[id] \notin {"RECV", "SIZE_KNOWN"}
    /\ rcv.half[id] \in {"RESET_RECVD", "RESET_READ"}
         => snd.half[id] \in {"RESET_SENT", "RESET_RECVD"}
    /\ rcv.half[id] = "DATA_READ" => Len(rcv.out[id]) = StreamLen

\* What a stream delivers and how it ends agree with what was sent on it.
StreamsDelivered == StreamTypeOK /\ ReadsWhatWasWritten /\ HalvesAgree

\* A stream whose data all arrived is read to its end even if the peer resets
\* it afterwards (recv_rows has no reset after DATA_RECVD).
CompleteStaysComplete ==
  \A id \in Ids :
    rcv.half[id] = "DATA_RECVD" => rcv'.half[id] \in {"DATA_RECVD", "DATA_READ"}

\* The credit a sender holds never shrinks, even when an older frame arrives
\* after a newer one.
CreditNeverShrinks ==
  /\ snd'.conn.max_data >= snd.conn.max_data
  /\ snd'.open.max_streams >= snd.open.max_streams
  /\ \A id \in Ids : snd'.flow[id].max_data >= snd.flow[id].max_data

\* Neither a complete stream nor credit is taken back by a late frame.
StreamsNeverGoBack == [][CompleteStaysComplete /\ CreditNeverShrinks]_streamVars

\* Every stream ends on both sides.
AllStreamsEnd ==
  <>(\A id \in Ids : BidiClosed([send |-> snd.half[id], recv |-> rcv.half[id]]))
=============================================================================
