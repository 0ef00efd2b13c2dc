------------------------------- MODULE Paths --------------------------------
(***************************************************************************)
(* Path validation, migration, the pool of connection IDs and the search   *)
(* for the path's packet size (conn/cid: path, migrate, cid, pmtu).        *)
(***************************************************************************)
EXTENDS Integers, FiniteSets

CONSTANTS CidLimit  \* active_connection_id_limit of the peer

ASSUME CidLimitAssumption == CidLimit \in Nat \ {0}

PathIds == {0, 1}
NoChallenge == 0

PathState == [challenge : Nat, bytes_sent : Nat, bytes_received : Nat,
              validated : BOOLEAN, confirmed : BOOLEAN]

PathInit ==
  [paths |-> [i \in PathIds |-> [challenge |-> NoChallenge, bytes_sent |-> 0, bytes_received |-> 0,
                                 validated |-> FALSE, confirmed |-> FALSE]],
   active |-> 0]

PathSendChallenge(p, i, value) == [p EXCEPT !.paths[i].challenge = value]

\* Mutant: a response matches the challenge of whatever path sent it.
ResponseMatches_AnyPath(p, i, value) ==
  \E j \in PathIds : p.paths[j].challenge # NoChallenge /\ p.paths[j].challenge = value

ResponseMatches(p, i, value) ==
  p.paths[i].challenge # NoChallenge /\ p.paths[i].challenge = value

PathRecvResponse(p, i, value) ==
  IF ResponseMatches(p, i, value) THEN [p EXCEPT !.paths[i].validated = TRUE] ELSE p

PathCanSend(p, i, n) ==
  p.paths[i].validated \/ p.paths[i].bytes_sent + n <= 3 * p.paths[i].bytes_received

ClearConfirmed(p) == [p EXCEPT !.paths = [i \in PathIds |-> [@[i] EXCEPT !.confirmed = FALSE]]]

PathConfirm(p, i) ==
  IF p.paths[i].validated
  THEN [ClearConfirmed(p) EXCEPT !.paths[i].confirmed = TRUE, !.active = i] ELSE p

-----------------------------------------------------------------------------
MigrateInit(cid) ==
  [handshake_confirmed |-> FALSE, detected |-> FALSE, challenged |-> FALSE,
   validated |-> FALSE, confirmed |-> FALSE, cur_cid |-> cid, cc_reset |-> FALSE,
   port_only |-> FALSE]

MigrateDetect(m) == IF m.handshake_confirmed THEN [m EXCEPT !.detected = TRUE] ELSE m

MigrateChallenge(m) == IF m.detected THEN [m EXCEPT !.challenged = TRUE] ELSE m

MigrateValidate(m) == IF m.detected /\ m.challenged THEN [m EXCEPT !.validated = TRUE] ELSE m

ConfirmOk(m, new_cid) == m.validated /\ new_cid # m.cur_cid

MigrateConfirm(m, new_cid, port_only) ==
  IF ConfirmOk(m, new_cid)
  THEN [m EXCEPT !.cur_cid = new_cid, !.confirmed = TRUE, !.port_only = port_only,
                 !.cc_reset = ~port_only]
  ELSE m

-----------------------------------------------------------------------------
PoolInit(limit) == [limit |-> limit, next_seq |-> 0, retire_lo |-> 0]

ActiveCount(c) == c.next_seq - c.retire_lo

CanIssue(c) == ActiveCount(c) < c.limit

PoolIssue(c) == [c EXCEPT !.next_seq = @ + 1]

RetirePriorTo(c, seq) ==
  IF seq > c.next_seq \/ seq <= c.retire_lo THEN c ELSE [c EXCEPT !.retire_lo = seq]

-----------------------------------------------------------------------------
PMTU_BASE == 1200
PMTU_MAX  == 1452
PMTU_STEP == 64

PmtuInit ==
  [validated |-> PMTU_BASE, probe |-> 0, ceiling |-> PMTU_MAX, lost |-> 0, searching |-> TRUE]

Candidate(p) ==
  IF p.validated + PMTU_STEP < p.ceiling THEN p.validated + PMTU_STEP ELSE p.ceiling

\* Mutant: a size that was lost is tried again.
PmtuViable_Again(p, next) == next > p.validated

PmtuViable(p, next) == next > p.validated /\ next # p.lost

NextProbe(p) ==
  IF p.searching /\ PmtuViable(p, Candidate(p)) THEN [p EXCEPT !.probe = Candidate(p)]
  ELSE [p EXCEPT !.searching = FALSE]

PmtuOnAck(p, size) == [p EXCEPT !.validated = IF size > @ THEN size ELSE @, !.probe = 0]

PmtuOnLoss(p, size) ==
  [p EXCEPT !.ceiling = IF size < @ THEN size ELSE @, !.lost = size, !.probe = 0]

(***************************************************************************)
(* An endpoint whose peer moves between two paths, and the search for the  *)
(* packet size of a path.  Challenges and responses are delayed, lost and  *)
(* reordered, a response may come back over either path, and so may the    *)
(* retirements of connection IDs be.                                       *)
(***************************************************************************)

CONSTANTS
  ChallengeSize, MaxReceived,  \* bytes of a challenge; received on a path
  MaxChallenges, MaxCids,      \* challenges sent; connection IDs issued
  PathLimits, MaxSpurious      \* packet sizes a path may carry; losses at any size

ASSUME PathAssumption ==
  /\ ChallengeSize \in Nat
  /\ PathLimits \subseteq {n \in Nat : n >= PMTU_BASE}   \* RFC 9000 14: a QUIC path carries 1200

VARIABLES
  path,  \* q: quic_path, m: quic_migrate, pool: the peer's quic_cidpool; the packets
  mtu    \* q: quic_pmtu, limit: what the path carries; the probes

PathStart ==
  path = [q |-> PathInit, m |-> MigrateInit(0), pool |-> PoolIssue(PoolInit(CidLimit)),
          value |-> 0, challenges |-> {}, responses |-> {}, retires |-> {}, reached |-> {}]

HandshakeIsConfirmed ==
  /\ ~path.m.handshake_confirmed
  /\ path' = [path EXCEPT !.m.handshake_confirmed = TRUE]

\* A datagram arrives: on another path than the active one it is a migration.
PathReceive(i) ==
  /\ path.q.paths[i].bytes_received < MaxReceived
  /\ path' = [path EXCEPT !.q.paths[i].bytes_received = @ + 1,
                          !.m = IF i # path.q.active THEN MigrateDetect(@) ELSE @]

PathSent(q, i, n) == [q EXCEPT !.paths[i].bytes_sent = @ + n]

\* A PATH_CHALLENGE with a fresh value.
Challenge(i) ==
  LET v == path.value + 1
  IN  /\ path.value < MaxChallenges
      /\ PathCanSend(path.q, i, ChallengeSize)
      /\ path' = [path EXCEPT
           !.q = PathSent(PathSendChallenge(path.q, i, v), i, ChallengeSize),
           !.m = IF i # path.q.active THEN MigrateChallenge(@) ELSE @,
           !.value = v, !.challenges = @ \union {<<i, v>>}]

\* The peer answers, over whichever path it now uses.  reached is history.
PeerAnswers(c, i) ==
  path' = [path EXCEPT !.challenges = @ \ {c}, !.responses = @ \union {<<i, c[2]>>},
                       !.reached = @ \union {c[1]}]

RecvResponse(r) ==
  path' = [path EXCEPT !.responses = @ \ {r}, !.q = PathRecvResponse(@, r[1], r[2]),
                       !.m = IF ResponseMatches(path.q, r[1], r[2]) /\ r[1] # path.q.active
                             THEN MigrateValidate(@) ELSE @]

\* Migration to path i with an unused connection ID of the peer: the old ones
\* are retired by a frame to the peer.
Migrate(i, cid, port_only) ==
  /\ i # path.q.active /\ path.q.paths[i].validated
  /\ cid \in path.m.cur_cid + 1 .. path.pool.next_seq - 1
  /\ ConfirmOk(path.m, cid)
  /\ path' = [path EXCEPT !.q = PathConfirm(@, i), !.m = MigrateConfirm(@, cid, port_only),
                          !.retires = @ \union {cid}]

IssueCid ==
  /\ path.pool.next_seq < MaxCids /\ CanIssue(path.pool)
  /\ path' = [path EXCEPT !.pool = PoolIssue(@)]

\* Retirements overtake each other and may be repeated.
RetireArrives(seq) ==
  /\ path.pool # RetirePriorTo(path.pool, seq)
  /\ path' = [path EXCEPT !.pool = RetirePriorTo(@, seq)]

PathNext ==
  \/ HandshakeIsConfirmed \/ IssueCid
  \/ \E i \in PathIds :
       \/ PathReceive(i) \/ Challenge(i)
       \/ \E c \in path.challenges : PeerAnswers(c, i)
       \/ \E cid \in 0 .. MaxCids, po \in BOOLEAN : Migrate(i, cid, po)
  \/ \E r \in path.responses : RecvResponse(r)
  \/ \E seq \in path.retires : RetireArrives(seq)

-----------------------------------------------------------------------------
MtuStart(limit) == mtu = [q |-> PmtuInit, limit |-> limit, probes |-> <<0, 0>>, spurious |-> 0]

\* A probe of the next size, sent as the first or the second one outstanding.
SendProbePacket(k) ==
  /\ mtu.q.searching /\ mtu.probes[k] = 0
  /\ LET q == NextProbe(mtu.q)
     IN  mtu' = [mtu EXCEPT !.q = q, !.probes[k] = IF q.searching THEN q.probe ELSE 0]

ProbeAcked(k) ==
  /\ mtu.probes[k] \in 1 .. mtu.limit
  /\ mtu' = [mtu EXCEPT !.q = PmtuOnAck(@, mtu.probes[k]), !.probes[k] = 0]

\* Too large for the path, or lost for another reason.
ProbeLost(k) ==
  /\ mtu.probes[k] # 0
  /\ LET fits == mtu.probes[k] <= mtu.limit
     IN  /\ fits => mtu.spurious < MaxSpurious
         /\ mtu' = [mtu EXCEPT !.q = PmtuOnLoss(@, mtu.probes[k]), !.probes[k] = 0,
                               !.spurious = IF fits THEN @ + 1 ELSE @]

MtuNext == \E k \in 1 .. 2 : SendProbePacket(k) \/ ProbeAcked(k) \/ ProbeLost(k)

PathsInit == PathStart /\ \E limit \in PathLimits : MtuStart(limit)

PathsNext ==
  \/ PathNext /\ UNCHANGED mtu
  \/ MtuNext /\ UNCHANGED path

PathsSpec == PathsInit /\ [][PathsNext]_<<path, mtu>>

-----------------------------------------------------------------------------
\* A path counts as validated only if the peer received, on that path, a
\* challenge sent there: not on a response to the other path's challenge, or a
\* late one (path.c:18-27).
ValidatedMeansReached ==
  \A i \in PathIds : path.q.paths[i].validated => i \in path.reached

\* A path that is not validated carries at most three times what it brought,
\* challenges included (path.c:29-33).
PathAmplification ==
  \A i \in PathIds :
    path.q.paths[i].validated \/ path.q.paths[i].bytes_sent <= 3 * path.q.paths[i].bytes_received

\* After any number of moves back and forth one path is confirmed, it is the
\* active one and it was validated (path.c:35-46).
SolePath ==
  LET confirmed == {i \in PathIds : path.q.paths[i].confirmed}
  IN  confirmed # {} => confirmed = {path.q.active} /\ path.q.paths[path.q.active].validated

\* The connection ID in use is never retired, and the peer never has more of
\* them active than the limit, in whatever order retirements arrive
\* (cidpool.c:13-23, migrate.c:28-40).
CidAccounting ==
  /\ path.m.cur_cid \in path.pool.retire_lo .. path.pool.next_seq - 1
  /\ ActiveCount(path.pool) <= CidLimit

\* The validated size is one the path carries, and a search that met no other
\* loss ends less than one step below it (pmtu.c:11-42).
PmtuFits ==
  /\ mtu.q.validated <= mtu.limit
  /\ ~mtu.q.searching /\ mtu.spurious = 0 =>
       mtu.q.validated = PMTU_MAX \/ mtu.limit - mtu.q.validated < PMTU_STEP

\* A move to another path uses a path that is proved, within its budget, with
\* a connection ID that is good and a packet size the path carries.
PathsProved ==
  ValidatedMeansReached /\ PathAmplification /\ SolePath /\ CidAccounting /\ PmtuFits

\* The search ends.
SearchEnds == <>~mtu.q.searching
=============================================================================
