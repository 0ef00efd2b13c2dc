# Verification of wired

wired is a QUIC / TLS 1.3 / HTTP/3 SDK in C without libc (`src/src`, about
21,800 lines of `.c` and 11,500 of `.h`). It is built in layers of small functions
on structs the caller owns; there are no threads, no allocation and no hidden
state. What is hard about it is therefore not locking but *order* (the same
connection struct is driven by datagrams that are lost, repeated and reordered, by
timers, and by an owner that may call any entry point at any time) and *agreement*
(what one end writes, in whatever form, is what the other reads). The models keep
every state change, guard and early return of the modelled code and abstract data
to what the properties tell apart.

## 1. The system and its parts

| part | source (under `src/src`) | modelled by |
|---|---|---|
| connection gate: phases, levels, anti-amplification, sent table, PTO flag | `transport/conn/loop/connloop`, `recovery/rtx/sentpkt`, `crypto/kdf/keys`, `conn/cid/path/antiamp.c` | `ConnGate` |
| event loop: receive, timers, send priority | `conn/loop/evloop` | `EvLoop`, `EvLoopSys`, `AmpBudget` |
| ACK generation, receive window, number spaces, loss detection | `recovery/detect/ackgen`, `recovery/detect/lossdrive`, `conn/pnspace` | `AckExchange` |
| sent bytes, RTT, PTO, congestion window, retransmission ring | `recovery/detect/recovery`, `recovery/congestion`, `recovery/rtx` | `Recovery` |
| connection I/O and frame dispatch | `conn/loop/connio`, `packet/frame/framedispatch`, `packet/frame/pipeline` | `ConnIO`, `ConnIOSys` |
| connection runner, key update, Retry and Version Negotiation (client) | `conn/loop/connrunner`, `recovery/rtx/sentmeta`, `tls/keys/kuswitch`, `tls/keys/kudrive`, `conn/cid/retrydrive`, `version/vndrive` | `Runner`, `KeyUpdate`, `Reconnect` |
| handshake driver, order machine, key schedule stages | `conn/loop/driver`, `tls/handshake/core/tls/hsdriver.c`, `tls/keys/schedule_drive` | `Driver`, `HsOrder` |
| TLS handshake: tlsdriver, fullhs, client and server roles | `tls/handshake/core/{tlsdriver,fullhs,sdrv}`, `tls/handshake/roles/{client,server,srvfin}` | `Handshake`, `Fullhs`, `HandshakeSys` |
| streams, flow control, reassembly, stream limits | `transport/stream` | `Fsm`, `Streams` |
| close, draining, idle timeout, stateless reset | `conn/lifecycle/{conn,closelife}` | `Fsm`, `Lifecycle` |
| paths, migration, connection IDs, path MTU | `conn/cid/{path,migrate,cid,pmtu}` | `Paths` |
| integers, frames, headers, datagrams | `common/bytes`, `packet/frame/frame`, `packet/header` | `Bytes`, `Frames`, `Headers` |
| packet protection and building | `packet/protect`, `packet/build`, modes of `crypto/symmetric/aead` | `Protect` |
| TLS messages, extensions, transport parameters | `tls/handshake/core/tls`, `tls/handshake/roles`, `tls/ext` | `TlsMsg` |
| certificates and trust store | `crypto/pki`, `ecdsasig`, `cvecdsa`, `certverify.c` | `Certs` |
| QPACK: dynamic table; codec and Huffman code | `app/qpack` | `QpackDyn`; `QpackWire` |
| HTTP/3: frames, requests, responses; order rules | `app/http3/core`, `app/http3/request`, `server/h3srv` | `H3Wire`; `H3Rules` |
| server role and HTTP/3 server loop | `tls/handshake/roles/server`, `conn/loop/crecv`, `app/http3/server/srvloop` | `SrvLoop` |

How they interact: a datagram enters the runner (or, in the example server, the
HTTP/3 server loop). The runner opens it through connection I/O, which asks the
gate, walks the frames and updates the gate's sent table and the CRYPTO and
STREAM buffers; then the event loop decides what to send, and the runner builds it
through connection I/O again. The handshake driver sits on connection I/O and moves
an order machine and the key schedule. The server loop does not use the runner: it
has its own packet numbers and its own request accumulator around the server role.
Streams, the close lifecycle, paths and the recovery numerics are libraries whose
functions the SDK offers to an owner. Nothing under `src/src` composes them as an
endpoint would: `dispatch_state.c` pushes every stream into one reassembler without
asking for its limits, and `session.c` holds both ends in one process. The steps of an
owner around them are therefore modelled from what the functions' headers ask of a
caller, and are marked external in `PROJECT.json`: every action of `Streams`, the sender
around `Recovery`, and the endpoints of `Lifecycle` and `Paths`.

## 2. How the modules are built

Each component is a module of operators on records: one record per C struct with the
struct's field names, one operator per C function, from old value to new. The
composition follows the C code: `EvLoop` and `ConnIO` extend `ConnGate`, `Driver`
extends `ConnIO`, `Runner` extends `EvLoop`, `ConnIO`, `KeyUpdate` and `Reconnect`;
`Driver` and `Handshake` extend `HsOrder`; `Fullhs` extends `Handshake`;
`H3Rules` extends `H3Wire` extends `Frames` and `QpackWire`; `Certs` extends `TlsMsg`;
all codecs extend `Bytes`.

State machines put such a record in a variable together with the environment (clock,
network, owner), have one action per entry point, and state the properties
(`EvLoopSys`, `ConnIOSys`, `HandshakeSys`, and the second half of `AckExchange`,
`Recovery`, `Runner`, `Driver`, `SrvLoop`, `Streams`, `Lifecycle`, `Paths`,
`QpackDyn`). Variables marked *history* record what happened and are read by
properties only. An `MC...` module adds the small sets a configuration names, and
where machines that share no state are checked in one run, a variable `unit`, chosen
in the initial state and never changed, says whose behaviour it is: the reachable
states are the disjoint union of those of the machines.

The codecs have no state. `WireSys` and `MessageSys` take one *case* per behaviour
(a frame, a packet, a hello, a chain of certificates, a request), and their
properties say of every case that what the code builds, the code reads. They are
stated of the step that finishes a case, `[][...]_case`: every case has one, so
nothing is left out.

Operators called `X_Something` next to an operator `X` are faulty variants of it,
there to see that some property notices.

Common abstractions:

- a packet number, time and byte count is a natural number; the code's `u64` would
  need 2^64 packets to wrap. Where a subtraction below zero matters (QPACK indices,
  packet number decoding, RTT adjustment) the operator says what the wrap amounts to;
- in the state machines a packet opens exactly under the level and key it was sealed
  with, and a key is named by everything it is derived from; in the codecs the block
  ciphers, hashes and signatures are uninterpreted functions, given small stand-ins
  in `MCWire`, and everything the code does around them is on bytes;
- a buffer too small for an output is a choice of the environment in the state
  machines, and a capacity in the codecs, so early returns on full buffers are taken;
- capacities (`SentCap`, `QCap`, `MetaCap`, `ReqCap`, `RtxSlots`, ...) are constants
  and small in the runs, so that "full" happens.

## 3. Modules and code

**ConnGate.** The record `Gate` is `quic_connloop`: phase, keyset, send level,
handshake flags, the 3x byte counters, the table of sent packets and the PTO flag.
`OnRecv`, `OnSend`, `OnAck`, `OnPto`, `Close`, `Validate`, `InstallKey` and
`DiscardKey` are its entry points.

**EvLoop, EvLoopSys, AmpBudget.** The record `Loop` is `quic_evloop`. `StepLoop` is
one iteration: drain the receive queue, fire due timers, send at most one packet in
the order owed ACK, retransmission, new data. The owner's calls and its writes to
timers and flags are actions of their own. `AmpBudget` is the abstract promise of
anti-amplification that the loop implements.

**AckExchange.** The receive window as a set inside `Window` below the largest
number, the encoding of its ranges, and a sender with a table per space, a receiver,
and a network that keeps everything ever put on it.

**Recovery.** Sent table with bytes in flight, RTT estimator, PTO with backoff,
congestion window, and the ring of frames kept for retransmission (which refuses
a frame longer than its slot, `RtxFrame`), each function as in its file; around them a sender that sends, retransmits, probes and takes ACKs of
any packets it sent, in any order and any number of times.

**ConnIO, ConnIOSys.** `IOSend` and `IORecv` are `quic_connio_send` and
`quic_connio_recv` with the frame walk, the dispatch of ACK, CRYPTO, STREAM,
MAX_DATA and CONNECTION_CLOSE, and reassembly. `Pull` takes at most as many bytes of
the stream as its caller has room for.

**Driver.** Two drivers exchange the seven messages of the handshake. The order
table, the authentication gate before Finished and the two stages of the key schedule
are those of `driver.c` and `hsdriver.c`. Each handshake chooses a reliable network or
one that loses, repeats, reorders and overwrites.

**Handshake, Fullhs, HandshakeSys.** The client and the server of the TLS
handshake with their transcripts, key schedules and key sets. A transcript stands for
its hash, a key for its inputs. Five pairs of ends are run against each other, because
the repository has two of each (`quic_client` and a fullhs seeded as its tests seed it;
`quic_server` and a fullhs) and they do not keep their transcripts alike; a client as
RFC 8446 describes it stands in where the code has none that completes with
`quic_server`. That `quic_client` does not is the run `handshake_interop`.

**Runner, KeyUpdate, Reconnect.** `Advance` is `quic_connrunner_advance`: read what
would be sent, receive, step the loop, track ACKs and losses, flush. A received packet
is let in by the phase as `recv.c` does, and a Retry is taken once, before completion,
if its connection ID fits. The ring of sent metadata, the key update state and the reconnect state are parts of the record.

**SrvLoop.** `StepLoop` is `quic_srvloop_step` on a datagram of coalesced
packets: open, note numbers, dispatch CRYPTO and STREAM frames, reassemble a request,
call the handler, and build the reply (confirmation, response, ACK). Memory a caller
did not clear is `ZERO` or `JUNK`.

**Streams.** Both halves of every stream, credit at stream and connection level, stream
limits, final sizes, reassembly and reading, at the two ends of a network that keeps
every frame, with data resent in other pieces and a reset.

**Lifecycle.** Two endpoints, each with the two phase machines of the code, that send,
close, crash, answer with a stateless reset, or fall silent.

**Paths.** The two paths of a connection with challenges, byte budgets and
confirmation; the migration record; the pool of connection IDs with Retire Prior To;
the search for the packet size over a path with a limit, with probes lost for other
reasons.

**Bytes, Frames, Headers, Protect, WireSys.** A buffer is a sequence of bytes; an
encoder gives the bytes or nothing, a decoder the value and the number of bytes used,
0 if it refuses. `Protect` has nonces, AES-CTR with GHASH and ChaCha20-Poly1305 as the
code composes them, header protection, and each builder and opener of a packet.

**TlsMsg, Certs, QpackWire, H3Wire, H3Rules, MessageSys.** The same for the
TLS messages, extensions and parameters; for certificates, from the DER reader to the
chain that `fullhs.c` accepts; for QPACK with its Huffman decoder; and for HTTP/3
messages. `H3Rules` has each order rule as the state it keeps and a step; the code has
several that overlap, and `HttpAgrees` says where they agree and with what a reader
accepts.

**QpackDyn.** The ring and its indices, and two tables connected by the encoder stream.
The duty of the encoder's owner not to evict what is referenced (RFC 9204 2.1.1) is
`MayEvict`; the code leaves it to the caller.

## 4. Runs

| run | checks | shows |
|---|---|---|
| `evloop` | `PtoArmedIffInFlight`, `FreshNumbers`, `RecoveryFirst`, `AmpSpec`, `AckNotStarved` | the loop under every interleaving of its owner's calls: PTO flag, fresh numbers, retransmission before new data, that it implements `AmpBudget`, and that an ACK that is owed and admitted leaves, whatever else waits |
| `evloop_stall` (violation) | `AckEventuallySent` | the test's claim that an owed ACK is always sent fails: an ACK received gives back no bytes in flight |
| `connio` | `NumbersUnique`, `LevelsEarned`, `UnackedTrackedAtOneLevel`; `AcksHonest`, `Accounted`; `BytesInFlightExact`, `NothingForgotten`, `WindowCutOnce`, `SmoothedWithinSamples` | an endpoint: no number sealed twice, levels and validation earned; an exchange of ACKs: acknowledged means arrived, and every packet is in flight, acknowledged or lost, exactly one of them; a sender: bytes in flight are exact, frames are held until delivered, a flight cuts the window once, the smoothed RTT stays among its samples |
| `connio_cross` (violation) | `UnackedStaysTracked` | levels share one sent table, so an ACK at one frees another's packet |
| `handshake` | `DriversAgree`, `HandshakeConfirmed`; `ClientAuthenticates`, `KeysAgree`, `ServerCompleteMeansClientVerified`, `HandshakeCompletes` | the drivers agree over any network and finish over a reliable one; of the five pairs, whoever completes has authenticated the other over the same transcript, both derive the same keys, and the two pairs that keep their transcripts alike complete |
| `handshake_interop` (violation) | `ClientDrivenToConfirmed` | `quic_client` never confirms against `quic_server`, as the usage guide has it: its transcript has no EncryptedExtensions |
| `runner` | `RingTracksSent`, `RetryOnce`, `RetainedThreePto` | the ring's totals, tracking of sealed packets, one Retry, retention of the old key |
| `runner_flush` (violation) | `FlushMatchesLoop` | a timer that fires inside the step makes the loop spend a number for a packet that is never built |
| `srvloop` | `ConfirmationExact`, `OneRttAfterFinished`, `SpacesKept`, `HandledPerFin` | the server's confirmation, ACKs, numbers and handler calls over a network that loses, repeats and reorders |
| `srvloop_mix` (violation) | `HandledAsSent` | a request reordered after an answered one reaches the handler with the first one's bytes |
| `transport` | `NoFalseError`, `StreamsDelivered`, `StreamsNeverGoBack`, `EveryStreamEnds`; `ClosingExact`, `BothEndsFinish`; `PathsProved`, `PmtuSearchEnds` | streams deliver what was written and end, with credit that binds; two endings meet in any order and both ends finish; a path is used only when proved, within its budget; the packet-size search ends at a size the path carries |
| `wire` | `PacketsReadBack`, `TlsReadBack`, `CertsTrusted`, `HttpAgrees`; `TablesAgree` | what the code writes the code reads, and refuses when it is cut short or altered; a chain is accepted exactly when every link, the anchor, the time and the host are right; the two QPACK tables agree over several turns of the ring |

Several of these are conjunctions of named properties, each with its own statement in
its module: `LevelsEarned`, `AcksHonest`, `WindowCutOnce`, `DriversAgree`,
`ClientAuthenticates`, `KeysAgree`, `RingTracksSent`, `ConfirmationExact`, `SpacesKept`,
`StreamsDelivered`, `StreamsNeverGoBack`, `ClosingExact`, `PathsProved`, `TablesAgree`
and the four of the codecs. The five violation runs each check one sentence of a
comment or test against the code; `PROJECT.json` quotes it. A counterexample of
`evloop_stall` is under weak fairness of the loop's step, the same as in `evloop`, and
that of `handshake_interop` under the fairness of the two roles, the same as in
`handshake`.

## 5. Bounds and fairness

- `evloop`: two slots in the sent table; the owner sets flags and arms timers until the
  first number is spent, and what it left behind (owed ACK, queued resend, data, timers)
  spends up to four more, so the table fills, is freed and is reused, and a send with a
  full table happens. A queue of one, so that the resend queue overflows; one byte per
  packet and one byte received, so the 3x budget is used up exactly, also when a probe
  comes due. A timer runs one tick, so it comes due at any point of the sends before it;
  one key update.
- `connio`, endpoint: three packets sent over all levels and two received, each with
  frames of every handler, frames past the buffer, and frames no handler knows.
  Exchange: a window of two below the largest of four numbers, so numbers fall out of
  it; a packet threshold of two and a time threshold of one, so that each declares
  losses without the other; a second space with one packet. Sender: three pieces of data
  in a table of four and a ring of three, so that both fill and the ring wraps over a
  packet still in flight; two ticks, so that a loss episode ends and another begins.
- `handshake`, drivers: six datagrams fed to each peer, enough for every message and, on
  the unreliable network, for repeated ones in their place. Roles: eight certificates
  (good, five with one defect, two of sizes that fill a buffer or do not fit), a full
  and an empty policy, transcripts of eight cells, one altered message.
- `runner`: three iterations, a ring of two, so that the third packet meets a full ring, three clock ticks (three PTOs with a PTO
  of one, the retention time exactly) and two key updates.
- `srvloop`: five datagrams of fifteen kinds, with truncated packet numbers of eight
  values and Handshake numbers both close and half of that apart: two packets of Finished, three requests
  (one in a single packet, one split, one longer than the buffer), and every combination
  of replies that do and do not fit.
- `transport`: two streams of two bytes with windows of one and two bytes and one stream
  allowed at first, so that each kind of credit blocks in turn; one stream reset, the
  other resent in one piece. Idle limits of two ticks and none. Two paths, three
  challenges, four connection IDs. Path limits on both sides of each step of the search.
- `wire`: integers at both edges of every length class, capacities one short of what is
  needed, every cut of an encoding, one altered byte in each region of a protected
  packet. Certificates: each kind of key and signature, each defect of a link on its
  own, chains of up to four with path lengths that are just enough and one short, years
  on both sides of the century rule. QPACK tables: three slots and a `Capacity` for four
  entries by `MaxEntries`, eleven insertions, so the ring turns three times and the
  Required Insert Count passes its modulus of eight. TLC's integers have 32 bits;
  `VarintMax` stands for 2^62 - 1 and the eight-byte class is reached through it.

No symmetry is used: packet numbers, levels, offsets and fields are ordered.

Deadlock is checked except where the system may stop: a server whose clients are
silent, a finished handshake, streams and connections that ended.

Fairness. `EvLoopSys!FairSpec` has weak fairness of `Step` alone: the code's owner calls
the step in a loop until the connection is closed, and promises nothing of the peer, the
timers or the path. The drivers have weak fairness of stepping, taking and carrying on
the reliable network only, which is what `quic_driver_run` and its callers do. The two
roles act again and again while they have a message to build or one they have not taken;
`HandshakeCompletes` asks nothing when a message was altered, split, sent early or built
short. The streams do not stand still while something can be sent, delivered,
acknowledged or read, in whatever order; that is what loss recovery and a reading
application provide. The endpoints of a closing connection have running timers and
nothing else: every packet may be lost. The packet-size search is fair in sending probes
and in learning their fate. Each of these is conjoined for the machine of its `unit`
only.

## 6. What is proved

TLAPS checks the following for every value of the constants, under the named
assumptions of the modules they extend: capacities, limits and thresholds are positive
or natural; a level is a level; a path carries at least `PMTU_BASE` bytes; the payloads
an endpoint receives are sequences of frames (`PeerAssumption`); the pieces of data a
sender has are finitely many (`SenderAssumption`); a slot of the retransmission ring
holds a datagram (`RtxAssumption`: in the code both are 1200 bytes). The bounds of
owner, clock and network are arbitrary, so they stand for an unbounded system.

| theorem | module | property | of run |
|---|---|---|---|
| `TypeCorrect`, `AntiAmpHolds`, `LoopInvariant` | `EvLoopProofs` | `TypeOK`, `AntiAmp`, `IInv` | |
| `PtoFollowsInFlight`, `NumbersAreFresh` | `EvLoopProofs` | `PtoArmedIffInFlight`, `FreshNumbers` | `evloop` |
| `RecoveryGoesFirst` | `EvLoopProofs` | `RecoveryFirst` | `evloop` |
| `RefinesAmpBudget` | `EvLoopProofs` | `AmpSpec`: the loop implements `AmpBudget` | `evloop` |
| `ClosedStaysClosed`, `GenerationsDoNotOverlap` | `EvLoopProofs` | `ClosedIsFinal`, `TwoGenerations` (action properties) | |
| `NumbersAlwaysUnique`, `LevelsAlwaysEarned` | `EndpointProofs` | `NumbersUnique`, `LevelsEarned` | `connio` |
| `UnackedAlwaysTracked` | `EndpointProofs` | `UnackedTrackedAtOneLevel`, if `MaxCalls <= SentCap` | `connio` |
| `AlwaysAccounted`, `AcksAlwaysHonest` | `PacketProofs` | `Accounted`, `AcksHonest` | `connio` |
| `BytesAlwaysExact`, `WindowIsCutOnce`, `NothingIsForgotten` | `SenderProofs` | `BytesInFlightExact`, `WindowCutOnce`, `NothingForgotten` | `connio` |
| `RttWithinSamples` | `RecoveryProofs` | `SmoothedWithinSamples` | `connio` |
| `WindowKept` | `RecoveryProofs` | every call of the congestion controller keeps the window's floor, and the window at or below `ssthresh` while recovering | |
| `PathsAlwaysProved`, `ClosingIsExact` | `TransportProofs` | `PathsProved`, `ClosingExact` | `transport` |
| `RicRoundTrip` | `TransportProofs` | the Required Insert Count of QPACK is decoded to what was encoded | |

`ConnGateProofs` and `Inductions` hold lemmas that several of these modules share.

The loop. None of the properties is inductive on its own: the 3x bound holds after a
probe only because the event loop asks the budget first (`quic_connloop_on_pto` does
not), and numbers are distinct in the table only because all of them are below the next
number. The inductive invariant `IInv` therefore says: the loop is a `Loop`, its queues
are within `QCap`, and its gate satisfies `GateInv(gate, next_pn)`: well-typed, PTO flag
up exactly while something is in flight, within three times the bytes received until
validated, and every tracked number distinct and below `next_pn`. `ConnGateProofs` shows
once, for each entry point of the gate, that it keeps `GateInv` and that counters,
validation and phase only grow (`Grows`). `EvLoopProofs` composes these along the phases
of an iteration, as `quic_evloop_step` composes the calls, and adds the owner's actions.

The count. With `n = 2 * MaxEntries`, the count `ric = n*q + m` and the largest
admissible value `n*p + k` are less than `n` apart, so `p` is `q` or `q + 1`. In the first
case the candidate is `ric`; in the second it is `ric + n`, above the maximum, and the
correction takes off one range.

The estimator. A sample is the clock minus a packet's sending time; that it is a natural
number needs the sending times in the table to lie in the past (`Clocked`), which every
step that sends, acknowledges or loses packets must keep. With it, `RttInv` is inductive:
the reported delay is taken off only while the result stays at or above the minimum
(`AdjustWithin`), and a mean of two values between the bounds stays between them
(`MeanWithin`).

The paths. That a matching response proves the path it came over is not inductive: it
needs that a value was sent on one path only, that no later value of another path equals
it, and that whoever holds an answer with path i's latest value was reached on path i
(`Fresh`). The connection ID in use survives retirements in any order because only IDs up
to it were ever retired (`OlderRetired`). A search ends less than one step below the
path's limit because, until a probe that fits is lost, the ceiling is the maximum or
above the limit and so is the lost size (`MtuInv`).

The end of a connection. Each endpoint has two phase machines, and that they agree
(`ClosingExact`) needs to be known of each end on its own (`EndInv` of
`TransportProofs`): which phase of one goes with which of the other, and that the close
timer stands still while the end is open and then counts exactly the ticks since, below
the period. `LifeInv` says this of both ends.

The endpoint. `EndInv` of `EndpointProofs`: a number on the wire is below the next one
of its level, no level on the wire or with numbers given out is above the sending level,
and 1-RTT is the sending level only if it was earned. The frame walk enters through a
lemma on what any walk over any payload leaves alone or moves in one direction only.
`UnackedAlwaysTracked` has a hypothesis that it cannot do without: the code drops the
record of a packet sent with a full table, so the theorem asks that no more packets are
let through than the table has slots. `TrackInv` counts the used slots against the calls.

The exchange of ACKs. `CountInv` says where each packet is and that what is in flight
was sent under a number below the next one. That ACKs are honest needs the encoding:
the window is exactly the recent part of what arrived (`Mirrors`), the ranges written
from it cover only what it holds, and the sender reads back exactly those ranges
(`Vouches`), for any window and any limit of ranges. `HonestInv` joins them.

The sender. `SenderInv` says of the sender's record: the bytes in flight are the sum over
the packets in flight, a packet is in the table under its own number, the ring holds at
a number's slot what the newest packet of that slot carried, a cut of the window was
made for a packet sent after the cut before it, and every frame that was taken from the
queue is acknowledged, in flight, resendable from the ring, or was pushed out of the ring
by newer packets (`Safe`).

Induction. What these arguments need of sums, walks and counts over tables of any size is
in `Inductions`. An induction theorem with an operator as its parameter cannot be used,
so induction is stated for sets: a set of numbers that holds 0 and with each number its
successor holds all of them (`NatSetInduction`), and a set of subsets that is closed
under adding a member holds the whole finite set (`FiniteSetInduction`). Both follow from
the least number of a nonempty set (`LeastNatural`). From them come that a walk along a
step function exists and is unique (`WalkExists`), and that a sum does not depend on the
order of its terms (`SumRemove`, `SumAdd`, `SumSplit`).

Only model-checked: liveness, which the prover does not handle; the streams, the two
QPACK tables (`TablesAgree`), the runner, the server loop, the drivers and the handshake
roles, where only the argument by enumeration was made; and the codecs, which use
recursion and bitwise operators that the prover's backends do not support.

## 7. Observations without a run

Behaviour that the models show, or that reading the code for them showed, and that no
violation run is about. Paths are under `src/src`.

- Event loop. A packet sent with a full sent table is untracked (`evloop.c:106`). An owed
  ACK is cleared although the gate may have refused the packet at 1-RTT (`evloop.c:132`).
  A retransmission takes the newest entry of the queue, not the oldest (`evloop.c:114`).
  The idle timer goes to closing rather than closed (`evloop.c:77`).
  `quic_connloop_on_pto` asks neither the budget nor the phase (`connloop.c:92`); its
  callers do.
- Connection I/O. The frame walk stops without an error at a frame it cannot measure
  (`framewalk.c:43-56`). `on_ack` does not resynchronise the PTO flag
  (`dispatch_state.c:33`). The gate counts frame bytes, not datagram bytes
  (`connio.c:75`). `rx_pn` counts packets whatever their numbers (`connio.c:117`). The
  close flag of the dispatcher is not read (`dispatch_state.c:50`).
- Receive window. A number older than the window is reported as new (`recvpn.c:12`).
- Recovery. Slots of `quic_sent` are never freed, so sending fails for good after
  `QUIC_SENT_CAP` packets (`sent.c`). The retransmission ring has 64 slots for 256
  tracked packets. A loss sent exactly at the start of recovery is new to `cc.c:31` and
  old to `ccloss.c:12`. `quic_rtxdrive_batch` stops silently when its output is full.
- Driver. A message that arrives out of order is dropped, and a refusal of the order
  machine is not reported (`driver.c:88-91`, `driver.c:119`).
- Handshake. The client confirms on the server's Finished, without HANDSHAKE_DONE. The
  tlsdriver's schedule is over the peer's hello alone, and a hello that arrives split in
  order is lost. `quic_client_build_initial` wraps a CRYPTO frame in a CRYPTO frame. A
  flight that fails half way leaves its first messages in the server's transcript.
  `quic_fullhs_init` resets policy and trust store. The verifier of CertificateVerify
  uses the scheme its caller gives it.
- Runner. The ACK names the number of packets received minus one, whatever their numbers
  were (`send.c:46`). A full metadata ring leaves a packet untracked
  (`sentmeta/record.c:39`). The gate of the event loop gets no ACKs, the gate of
  connection I/O does. The runner never calls `retry_rederive` or the key update itself.
  `drive_vn` drops the version it chose.
- Server loop. A complete request that does not decode leaves the accumulator done for
  ever; a repeated request is handled again; a FIN past the buffer is dropped with its
  frame. The confirmation is marked sent before it is sealed, and is not retransmitted.
  The largest 1-RTT number is the last one received. A Handshake packet is opened under
  its truncated number and recorded under the decoded one, so once two were half a window
  apart the ACK may name a number nobody sent (`AcksNameOpened` says which). All client streams share one
  accumulator and are answered on stream 0. The example seals its Handshake flight under
  number 0, which is also where `hs_tx_pn` starts.
- Lifecycle. Sending always restarts the idle timer, so an endpoint that keeps sending
  never notices a peer that is gone. `close_due` stays true in CLOSED, and `idle_due` is
  never true after a tick. After CLOSE no Application number is given out for a
  CONNECTION_CLOSE. `session.h:71` asks for Handshake keys before stream data;
  `quic_session_send_stream` does not look.
- Paths. A repeated PATH_RESPONSE returns "newly validated" again (`path.h:32`). The
  flags of a migration are never reset (`migrate.h:6-8`).
- Codecs. `pnum.h:11` says a packet number takes 1, 2 or 4 bytes; 3 occurs.
  `quic_hs_build_hello` asks for 83 bytes of room around the session ID and writes 84
  (`handshake.c:54`); the model has its check as it is. The STREAM decoder always reads
  a Length. Frame decoders skip one type byte, so a type in a longer form is misread. The
  1-RTT opener refuses an empty payload. The request builder's scratch space is halved
  for its second part (`request_drive.c:183`).
- HTTP/3. Both machines for the order of a request's frames refuse every type but HEADERS
  and DATA (`reqstream.c:30`, `reqorder.c:29`), where `frame_permit.h:10-11` lets unknown
  types through to be ignored. The set of pseudo-headers a request must have is asked of
  CONNECT too (`pseudoheader.c:75`), which `connect.c` allows two of only. `HttpAgrees`
  has both as exceptions.
- QPACK. The ring's free slot is asked for before entries are evicted (`dyntable.c:45`):
  once the ring holds as many entries as it has slots, no insertion succeeds any more,
  also when eviction would make room. A dynamic index in a field line is resolved in the
  static table.
- Certificates. The path length of a root in the store is not looked at
  (`pathvalidate.c:48-68`). The search for a root by its name takes the first match
  (`castore.c:44-48`), so a second root of the same name, a renewed one say, is never
  tried, where `pathvalidate.h:10-12` asks for a root that has the name and signs the
  tail. `CertsTrusted` is stated with the first match, and two stores of the run hold two
  roots of one name. The Ed25519 self-signed certificate has no
  alternative name and an algorithm the trust store does not list, so no chain ends in
  it.

## 8. What is not modelled

- Cryptographic primitives: the block and stream ciphers, hashes, HKDF, X25519, Ed25519,
  P-256, RSA and the big-number arithmetic under them (`crypto/asymmetric`,
  `crypto/symmetric`, most of `crypto/kdf`), the derivation of secrets and transcript
  hashes: arithmetic on large words, out of reach of a model checker and covered by
  published test vectors. They are parameters of `Protect` and `Certs`.
- System calls: sockets, batching, polling, clock, random numbers (`transport/io`,
  `common/platform`).
- Retry tokens and the detection of a stateless reset (`conn/cid/retrytoken`, `sreset`):
  keyed hashing; what follows from them is in `Reconnect` and `Lifecycle`.
- Layers that add no state of their own: the sealing of the roles' flights into packets
  (`clientwire.c`, `serverio.c`, `srvwire`), the in-process sessions, the timers that
  recompute thresholds from absolute times, the wrappers around one modelled codec.
- Records that nothing in the modelled handshake calls: 0-RTT and resumption.
- Single predicates and tables: pacing, ECN, ACK frequency, the spin bit, version 2
  constants, the DATAGRAM extension's size limit.
- Of the modelled parts, the owner that would compose streams, lifecycle, paths and
  recovery into one connection: the repository has none, so the four are checked apart.
- Proofs beyond section 6. Agreement of the two QPACK tables would need an invariant
  that ties each ring to the insertions so far.
