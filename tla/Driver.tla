------------------------------- MODULE Driver -------------------------------
(***************************************************************************)
(* The connection driver (transport/conn/loop/driver) with the key         *)
(* schedule's stages (tls/keys/schedule_drive), on top of ConnIO and the   *)
(* order machine of HsOrder: operators on a record with the fields of      *)
(* quic_driver.                                                            *)
(*                                                                         *)
(* Abstractions.  A datagram is the level it was sealed at and the stream  *)
(* offset of its one-byte message; each peer sends its messages at         *)
(* consecutive offsets, so the offset determines the message.  A datagram  *)
(* opens with the key of its own level only.                               *)
(***************************************************************************)
EXTENDS ConnIO, HsOrder

(***************************************************************************)
(* The driver.                                                             *)
(***************************************************************************)
None == [level |-> NoLevel]
Datagram == [level : Levels, off : Nat]

DriverState ==
  [is_server : BOOLEAN, io : IO, hs : Hs, stage : 0 .. 2, tx_sent : Nat,
   rx_done : Nat, tx_off : Nat, in : Datagram \cup {None}, out : Datagram \cup {None}]

DriverInit(is_server) ==
  [is_server |-> is_server,
   io |-> [IOInit(is_server) EXCEPT !.loop = InstallKey(Validate(@), INITIAL)],
   hs |-> HsInit, stage |-> 0, tx_sent |-> 0, rx_done |-> 0, tx_off |-> 0,
   in |-> None, out |-> None]

\* A datagram that is still waiting is overwritten.
Feed(d, dgram) == [d EXCEPT !.in = dgram]

Take(d) == [d EXCEPT !.out = None]

HsPos(d) == d.tx_sent + d.rx_done

SendsIndex(d, pos) == IF d.is_server THEN pos # 0 ELSE pos = 0

InstallLevel(d, level) == [d EXCEPT !.io.loop = InstallKey(@, level)]

\* The stage moves only in order; a key is installed once its stage is there.
DeriveFor(d, msg) ==
  CASE msg = "SERVER_HELLO" ->
         InstallLevel([d EXCEPT !.stage = IF @ = 0 THEN 1 ELSE @], HANDSHAKE)
    [] msg = "FINISHED" ->
         LET later == [d EXCEPT !.stage = IF @ = 1 THEN 2 ELSE @]
         IN  IF later.stage = 2 THEN InstallLevel(later, ONERTT) ELSE later
    [] OTHER -> d

\* The order machine's refusal is not looked at.
AdvanceOrder(d, msg, level) ==
  LET verified == [d.hs EXCEPT !.cert_verified = @ \/ msg = "CERT_VERIFY"]
  IN  [d EXCEPT !.hs = HsRecv(verified, msg, level)]

\* Mutant: the gate is not told.
SyncCompletion_Missing(d) == d

SyncCompletion(d) ==
  [d EXCEPT !.io.loop.handshake_complete = d.hs.complete,
            !.io.loop.handshake_confirmed = d.hs.confirmed]

CanRecv(d) == d.in # None /\ HsPos(d) < Len(Order) /\ ~SendsIndex(d, HsPos(d))

\* The message the peer put at a stream offset.
MsgAt(d, off) == IF d.is_server THEN Order[off + 1] ELSE Order[off + 2]

\* The driver's 256 bytes hold every one-byte message of the exchange.
OneByte(d) == Pulled(d.io, ReasmCap) = 1

\* The bytes pulled are gone even when they are not exactly one message.
DoRecv(d) ==
  LET level  == OrderLevel[HsPos(d) + 1]
      keyed  == DeriveFor(d, Order[HsPos(d) + 1])
      frames == <<StreamFrame(d.in.off)>>
      opens  == d.in.level = level
      opened == [keyed EXCEPT !.io = IORecv(@, level, frames, 1, opens), !.in = None]
      pulled == [opened EXCEPT !.io = Pull(@, ReasmCap)]
      msg    == MsgAt(d, opened.io.read_off)
  IN  IF ~CanRecv(d) THEN d
      ELSE IF ~IORecvResult(keyed.io, level, frames, opens) THEN opened
      ELSE IF ~OneByte(opened) THEN pulled
      ELSE [AdvanceOrder(pulled, msg, level) EXCEPT !.rx_done = @ + 1]

CanSend(d) == d.out = None /\ HsPos(d) < Len(Order) /\ SendsIndex(d, HsPos(d))

DoSend(d) ==
  LET level == OrderLevel[HsPos(d) + 1]
      msg   == Order[HsPos(d) + 1]
      keyed == DeriveFor(d, msg)
      sent  == [keyed EXCEPT !.io = IOSend(@, level, 1, TRUE),
                             !.out = [level |-> level, off |-> d.tx_off]]
  IN  IF ~CanSend(d) THEN d
      ELSE IF ~SendReady(keyed.io, level, 1) THEN keyed
      ELSE [AdvanceOrder(sent, msg, level) EXCEPT !.tx_off = @ + 1, !.tx_sent = @ + 1]

\* One iteration: a message received, or else one sent.
StepDriver(d) ==
  LET received == SyncCompletion(DoRecv(d))
  IN  IF received.rx_done # d.rx_done THEN received
      ELSE SyncCompletion(DoSend(received))

(***************************************************************************)
(* Two drivers, a client and a server, and an owner that steps them and    *)
(* carries their datagrams.  A reliable network delivers each datagram     *)
(* once and in order, to an empty inbox; the other one loses, repeats and  *)
(* reorders them, and may overwrite one that is still waiting.             *)
(***************************************************************************)

CONSTANT MaxFeeds     \* datagrams fed to one peer at most

Client == 0
Server == 1
Peers  == {Client, Server}
Other(p) == 1 - p

VARIABLES
  drv,        \* the drivers
  reliable,   \* the kind of network
  wire,       \* datagrams taken from each peer's outbox
  feeds       \* how many were fed to each peer

driverVars == <<drv, reliable, wire, feeds>>

DriverSysInit ==
  /\ drv = [p \in Peers |-> DriverInit(p = Server)]
  /\ reliable \in BOOLEAN
  /\ wire = [p \in Peers |-> <<>>]
  /\ feeds = [p \in Peers |-> 0]

StepPeer(p) == drv' = [drv EXCEPT ![p] = StepDriver(@)] /\ UNCHANGED <<reliable, wire, feeds>>

TakeOut(p) ==
  /\ drv[p].out # None
  /\ wire' = [wire EXCEPT ![p] = Append(@, drv[p].out)]
  /\ drv' = [drv EXCEPT ![p] = Take(@)]
  /\ UNCHANGED <<reliable, feeds>>

\* The i-th datagram of the other peer arrives at p.
FeedIn(p, i) ==
  /\ feeds[p] < MaxFeeds
  /\ reliable => i = feeds[p] + 1 /\ drv[p].in = None
  /\ drv' = [drv EXCEPT ![p] = Feed(@, wire[Other(p)][i])]
  /\ feeds' = [feeds EXCEPT ![p] = @ + 1]
  /\ UNCHANGED <<reliable, wire>>

Carry(p) == \E i \in 1 .. Len(wire[Other(p)]) : FeedIn(p, i)

DriverNext == \E p \in Peers : StepPeer(p) \/ TakeOut(p) \/ Carry(p)

-----------------------------------------------------------------------------
(***************************************************************************)
(* Properties.                                                             *)
(***************************************************************************)
\* Types of both drivers, their order machines, key stages and connections: keys
\* are derived at most once per stage, also when opening is tried again
\* (driver.c:122-134).
DriverTypeOK == drv \in [Peers -> DriverState]

\* The peers agree on the transcript: neither counts a message that was not
\* sent, each is complete exactly when it has counted all six messages up to
\* Finished, and the client is complete, or confirmed, only when the server is
\* (driver.c:88-168, hsdriver.c:38-59).
PeersAgree ==
  /\ \A p \in Peers : drv[p].hs.recv_count <= drv[Client].tx_sent + drv[Server].tx_sent
  /\ \A p \in Peers : drv[p].hs.complete <=> drv[p].hs.recv_count >= 6
  /\ drv[Client].hs.complete => drv[Server].hs.complete
  /\ drv[Client].hs.confirmed => drv[Server].hs.confirmed /\ drv[Client].hs.complete

\* The client has 1-RTT keys only once CertificateVerify was accepted in its
\* turn: positions are counted apart from the order machine, and no pattern of
\* loss, repetition and reordering lets the count run ahead (driver.c:55,124-134).
OneRttKeysAuthenticated ==
  ONERTT \in drv[Client].io.loop.keys
  => drv[Client].hs.cert_verified /\ drv[Client].hs.recv_count >= 5

\* The two drivers agree on how far the handshake is, and keys follow it.
DriversAgree == DriverTypeOK /\ PeersAgree /\ OneRttKeysAuthenticated
=============================================================================
