------------------------------- MODULE ConnIO -------------------------------
(***************************************************************************)
(* Connection I/O (transport/conn/loop/connio): the gate of ConnGate, the  *)
(* per-space packet numbers, and the dispatch of received frames into the  *)
(* sent table, the stream buffer and the receive flags, as operators on a  *)
(* record with the fields of quic_connio.                                  *)
(*                                                                         *)
(* Abstractions.  A packet is its sequence of frames; sealing and opening  *)
(* succeed or fail as a whole (a Boolean of the call).  A frame is its     *)
(* kind and what its handler reads.  A STREAM frame carries one byte; the  *)
(* byte at an offset is always the same, so the buffer is the set of       *)
(* offsets it holds.                                                       *)
(***************************************************************************)
EXTENDS ConnGate

CONSTANTS
  ReasmCap,    \* QUIC_REASM_CAP: offsets the stream buffer holds
  MaxData      \* initial_max_data

ASSUME ConnIOAssumption == ReasmCap \in Nat /\ MaxData \in Nat

Kinds == {"PADDING", "PING", "ACK", "CRYPTO", "STREAM", "MAX_DATA",
          "CONNECTION_CLOSE", "HANDSHAKE_DONE"}

Simple(kind)       == [kind |-> kind]
AckFrame(hi, wire) == [kind |-> "ACK", largest |-> hi, wire |-> wire]
StreamFrame(off)   == [kind |-> "STREAM", offset |-> off]
MaxDataFrame(v)    == [kind |-> "MAX_DATA", value |-> v]

\* Only ACK, PADDING and CONNECTION_CLOSE do not elicit an acknowledgement.
AckEliciting(kind) == kind \notin {"PADDING", "ACK", "CONNECTION_CLOSE"}

\* Kinds with a handler, and kinds the frame walker can measure.
Handled(kind) ==
  kind \in {"PADDING", "PING", "ACK", "STREAM", "MAX_DATA", "CONNECTION_CLOSE"}
Measurable(kind) ==
  kind \in {"PADDING", "PING", "HANDSHAKE_DONE", "ACK", "CRYPTO", "STREAM",
            "CONNECTION_CLOSE"}

(***************************************************************************)
(* The state.                                                              *)
(***************************************************************************)
Flags == [ack_eliciting : BOOLEAN, close : BOOLEAN, has_ack : BOOLEAN,
          largest_acked : Nat]

IO ==
  [is_server : BOOLEAN, loop : Gate,
   tx : [Levels -> Nat], rx_pn : [Levels -> Nat],
   have : SUBSET (0 .. (ReasmCap - 1)), read_off : Nat, max_data : Nat,
   disp : Flags]

IOInit(is_server) ==
  [is_server |-> is_server, loop |-> GateInit,
   tx |-> [l \in Levels |-> 0], rx_pn |-> [l \in Levels |-> 0],
   have |-> {}, read_off |-> 0, max_data |-> MaxData,
   disp |-> [ack_eliciting |-> FALSE, close |-> FALSE, has_ack |-> FALSE,
             largest_acked |-> 0]]

(***************************************************************************)
(* Sending.  The gate counts and tracks the packet before it is sealed; a  *)
(* packet that does not fit the output keeps its number for the next one.  *)
(***************************************************************************)
SendReady(io, level, len) == SendOk(io.loop, level, len)

\* Mutant: the number advances only in the application space.
NextPn_OneSpace(tx, level) == IF level = ONERTT THEN [tx EXCEPT ![level] = @ + 1] ELSE tx

NextPn(tx, level) == [tx EXCEPT ![level] = @ + 1]

IOSend(io, level, len, fits) ==
  IF ~SendReady(io, level, len) THEN io
  ELSE [io EXCEPT !.loop = OnSend(@, level, TRUE, io.tx[level], len),
                  !.tx = IF fits THEN NextPn(@, level) ELSE @]

(***************************************************************************)
(* The stream buffer.                                                      *)
(***************************************************************************)

InsertFits(off) == off + 1 <= ReasmCap

\* The end of the contiguous prefix.
Deliver(have) ==
  CHOOSE n \in 0 .. ReasmCap : 0 .. (n - 1) \subseteq have /\ n \notin have

\* What a buffer of cap bytes takes.
Pulled(io, cap) ==
  LET avail == Deliver(io.have) - io.read_off IN IF avail < cap THEN avail ELSE cap

Pull(io, cap) == [io EXCEPT !.read_off = @ + Pulled(io, cap)]

(***************************************************************************)
(* Dispatch.  The walk stops silently at the first frame it cannot         *)
(* measure; a frame with no handler is reported and the walk goes on.      *)
(***************************************************************************)
Mark(io, kind) == [io EXCEPT !.disp.ack_eliciting = io.disp.ack_eliciting \/ AckEliciting(kind)]

Handle(io, f) ==
  LET marked == Mark(io, f.kind)
  IN  CASE ~Handled(f.kind) -> io
        [] f.kind = "STREAM" ->
             IF InsertFits(f.offset) THEN [marked EXCEPT !.have = @ \cup {f.offset}]
             ELSE marked
        [] f.kind = "ACK" ->
             [marked EXCEPT !.disp.has_ack = TRUE,
                            !.disp.largest_acked = f.largest,
                            !.loop.sent = AckProcess(io.loop.sent, f.largest, f.wire)]
        [] f.kind = "MAX_DATA" -> [marked EXCEPT !.max_data = f.value]
        [] f.kind = "CONNECTION_CLOSE" -> [marked EXCEPT !.disp.close = TRUE]
        [] OTHER -> marked

HandleResult(f) == Handled(f.kind) /\ (f.kind = "STREAM" => InsertFits(f.offset))

\* How many frames the walk yields.
Walked(frames) ==
  CHOOSE n \in 0 .. Len(frames) :
    /\ \A i \in 1 .. n : Measurable(frames[i].kind)
    /\ n = Len(frames) \/ ~Measurable(frames[n + 1].kind)

DispatchAll(io, frames) ==
  LET after[i \in 0 .. Walked(frames)] ==
        IF i = 0 THEN io ELSE Handle(after[i - 1], frames[i])
  IN  after[Walked(frames)]

DispatchResult(frames) == \A i \in 1 .. Walked(frames) : HandleResult(frames[i])

(***************************************************************************)
(* Receiving.                                                              *)
(***************************************************************************)
\* Mutant: any packet validates the address.
ValidatesAddress_AnyLevel(io, level) == io.is_server

ValidatesAddress(io, level) == io.is_server /\ level = HANDSHAKE

RecvAccept(io, level, frames) ==
  LET counted == [io EXCEPT !.rx_pn[level] = io.rx_pn[level] + 1,
                            !.loop = IF ValidatesAddress(io, level) THEN Validate(@) ELSE @]
  IN  DispatchAll(counted, frames)

\* opens: header protection and AEAD succeed.
IORecv(io, level, frames, len, opens) ==
  LET gated == [io EXCEPT !.loop = OnRecv(@, len)]
  IN  IF OnRecvResult(io.loop, level) /\ opens
      THEN RecvAccept(gated, level, frames)
      ELSE gated

IORecvResult(io, level, frames, opens) ==
  OnRecvResult(io.loop, level) /\ opens /\ DispatchResult(frames)
=============================================================================
