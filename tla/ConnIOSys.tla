----------------------------- MODULE ConnIOSys ------------------------------
(***************************************************************************)
(* One connection endpoint and an honest peer behind a network that loses, *)
(* duplicates and reorders.  The owner installs and discards keys, marks   *)
(* the handshake complete, sends, receives and closes; the peer's packets  *)
(* carry any of Payloads or acknowledge numbers this endpoint really used  *)
(* at that level.                                                          *)
(*                                                                         *)
(* wire, unacked and got are history: what was sealed, what of it the peer *)
(* has not acknowledged, and the peer's numbers that were opened; calls    *)
(* and delivered count what the two sides have done, to bound it.          *)
(***************************************************************************)
EXTENDS ConnIO, FiniteSets

CONSTANTS
  Lens,        \* frame bytes of the packets this endpoint sends
  Payloads,    \* frame sequences of the peer's packets
  MaxCalls,    \* packets the gate lets through, sealed or not
  MaxPeerPn,   \* the peer's numbers go up to this one, at each level
  MaxGot       \* packets of the peer that are opened

\* What the peer's packets carry besides reports.
PeerFrame ==
  [kind : Kinds \ {"ACK", "STREAM", "MAX_DATA"}]
  \cup [kind : {"STREAM"}, offset : Nat] \cup [kind : {"MAX_DATA"}, value : Nat]

ASSUME PeerAssumption ==
  /\ Lens \subseteq Nat /\ Payloads \subseteq Seq(PeerFrame)
  /\ MaxCalls \in Nat /\ MaxPeerPn \in Nat

VARIABLES io, wire, unacked, got, calls, delivered
vars == <<io, wire, unacked, got, calls, delivered>>

Init ==
  /\ io = IOInit(TRUE)
  /\ wire = <<>> /\ unacked = {} /\ got = {}
  /\ calls = 0 /\ delivered = 0

Sealed(level) ==
  [level |-> level, pn |-> io.tx[level],
   complete |-> io.loop.handshake_complete \/ io.loop.handshake_confirmed]

Send(level, len, fits) ==
  /\ calls < MaxCalls
  /\ calls' = calls + (IF SendReady(io, level, len) THEN 1 ELSE 0)
  /\ io' = IOSend(io, level, len, fits)
  /\ LET out == SendReady(io, level, len) /\ fits
     IN  /\ wire' = IF out THEN Append(wire, Sealed(level)) ELSE wire
         /\ unacked' = IF out THEN unacked \cup {<<level, io.tx[level]>>} ELSE unacked
  /\ UNCHANGED <<got, delivered>>

\* A datagram of the peer.  One that does not open still counts its bytes.
Recv(level, pn, frames, opens) ==
  /\ delivered < MaxGot
  /\ delivered' = delivered + 1
  /\ io' = IORecv(io, level, frames, Len(frames), opens)
  /\ got' = IF OnRecvResult(io.loop, level) /\ opens
            THEN got \cup {<<level, pn>>} ELSE got
  /\ UNCHANGED <<wire, unacked, calls>>

RecvAck(level, pn, lo, hi) ==
  /\ delivered < MaxGot
  /\ lo <= hi /\ hi < io.tx[level]
  /\ delivered' = delivered + 1
  /\ io' = IORecv(io, level, <<AckFrame(hi, <<hi - lo>>)>>, 1, TRUE)
  /\ IF OnRecvResult(io.loop, level)
     THEN /\ got' = got \cup {<<level, pn>>}
          /\ unacked' = unacked \ ({level} \X (lo .. hi))
     ELSE UNCHANGED <<got, unacked>>
  /\ UNCHANGED <<wire, calls>>

PullStream ==
  /\ \E cap \in 0 .. ReasmCap : io' = Pull(io, cap)
  /\ UNCHANGED <<wire, unacked, got, calls, delivered>>

Install(level) ==
  /\ io' = [io EXCEPT !.loop = InstallKey(@, level)]
  /\ UNCHANGED <<wire, unacked, got, calls, delivered>>

\* Initial keys go once Handshake keys exist, Handshake keys on confirmation.
ShouldDiscard(level) ==
  \/ level = INITIAL /\ LevelUsable(io.loop, HANDSHAKE)
  \/ level = HANDSHAKE /\ io.loop.handshake_confirmed

Discard(level) ==
  /\ ShouldDiscard(level)
  /\ io' = [io EXCEPT !.loop = DiscardKey(@, level)]
  /\ UNCHANGED <<wire, unacked, got, calls, delivered>>

Complete(confirmed) ==
  /\ io' = [io EXCEPT !.loop.handshake_complete = TRUE,
                      !.loop.handshake_confirmed = io.loop.handshake_confirmed \/ confirmed]
  /\ UNCHANGED <<wire, unacked, got, calls, delivered>>

CloseConn(peer_closed) ==
  /\ io' = [io EXCEPT !.loop = Close(@, peer_closed)]
  /\ UNCHANGED <<wire, unacked, got, calls, delivered>>

Next ==
  \/ \E level \in Levels, len \in Lens, fits \in BOOLEAN : Send(level, len, fits)
  \/ \E level \in Levels, frames \in Payloads, pn \in 0 .. MaxPeerPn, opens \in BOOLEAN :
       Recv(level, pn, frames, opens)
  \/ \E level \in Levels, pn \in 0 .. MaxPeerPn, lo, hi \in 0 .. MaxCalls :
       RecvAck(level, pn, lo, hi)
  \/ \E level \in Levels : Install(level) \/ Discard(level)
  \/ \E b \in BOOLEAN : Complete(b) \/ CloseConn(b)
  \/ PullStream

Spec == Init /\ [][Next]_vars

-----------------------------------------------------------------------------
(***************************************************************************)
(* Properties.                                                             *)
(***************************************************************************)
\* Types; the read position never passes the contiguous prefix.
TypeOK ==
  /\ io \in IO /\ io.read_off <= Deliver(io.have)
  /\ unacked \subseteq Levels \X Nat /\ got \subseteq Levels \X Nat

\* No packet number is sealed twice at one level, although a seal that fails
\* leaves the number to the next packet: no AEAD nonce is reused
\* (connio.c:55-83, pnspace.c:8-12).
NumbersUnique ==
  \A i, j \in 1 .. Len(wire) :
    i # j /\ wire[i].level = wire[j].level => wire[i].pn # wire[j].pn

\* Nothing is sealed at 1-RTT before the handshake is complete, and the levels
\* on the wire never go back (connio.c:55-63).
OneRttAfterHandshake ==
  \A i \in 1 .. Len(wire) :
    /\ wire[i].level = ONERTT => wire[i].complete
    /\ \A j \in 1 .. i : wire[j].level <= wire[i].level

\* The server lifts the amplification limit only on a Handshake packet it has
\* opened: bytes that do not open, and packets at other levels, do not validate
\* the client's address (connio.c:107-120).
ValidatedByHandshake ==
  io.loop.validated => \E pn \in 0 .. MaxPeerPn : <<HANDSHAKE, pn>> \in got

\* What an endpoint may do at a level it has earned: it never seals at 1-RTT
\* before the handshake is complete, nor counts an address as validated before
\* a Handshake packet opened, and the buffer is never read past what arrived.
LevelsEarned == TypeOK /\ OneRttAfterHandshake /\ ValidatedByHandshake

\* While only one level has been used, what the peer has not acknowledged stays
\* tracked: an ACK of a later range does not forget an earlier packet
\* (dispatch_state.c:18-35, ack_process.c:24-41).
UnackedTrackedAtOneLevel ==
  io.loop.send_level = INITIAL
  => \A p \in unacked : p[2] \in InFlight(io.loop.sent)

(***************************************************************************)
(* What comments and documents say of the code and it does not do.         *)
(***************************************************************************)
\* connloop.h:66: "Removes exactly the acknowledged, genuinely-tracked packets
\* from in-flight".  The spaces share one table, and an ACK of a number at one
\* level removes the packet with that number at another.
UnackedStaysTracked ==
  Cardinality(unacked) <= Cardinality({i \in Slots : io.loop.sent[i] # Free})
=============================================================================
