-------------------------- MODULE TransportProofs ---------------------------
(***************************************************************************)
(* What holds of a connection's paths and of its end for every value of    *)
(* the constants: a connection moves only to paths that are proved, for    *)
(* any number of challenges, connection IDs and datagrams and any limit of *)
(* the path, and it closes exactly, for any idle timeouts and any PTO; and *)
(* the counts of QPACK sections survive the wire for any table.            *)
(***************************************************************************)
EXTENDS Lifecycle, Paths, QpackDyn, TLAPS

(***************************************************************************)
(* Paths.                                                                  *)
(***************************************************************************)

\* The records of a path, of the migration and of the pool.
Migration == [handshake_confirmed : BOOLEAN, detected : BOOLEAN, challenged : BOOLEAN,
              validated : BOOLEAN, confirmed : BOOLEAN, cur_cid : Nat, cc_reset : BOOLEAN,
              port_only : BOOLEAN]
Pool == [limit : Nat, next_seq : Nat, retire_lo : Nat]
Tagged == PathIds \X Nat

PathRecord ==
  [q : [paths : [PathIds -> PathState], active : PathIds], m : Migration, pool : Pool,
   value : Nat, challenges : SUBSET Tagged, responses : SUBSET Tagged,
   retires : SUBSET Nat, reached : SUBSET PathIds]

\* What makes a matching response a proof: a value was sent on one path only,
\* so an answer that carries path i's latest value answers a challenge of path i.
Fresh ==
  /\ \A i \in PathIds : path.q.paths[i].challenge <= path.value
  /\ \A c \in path.challenges \union path.responses : c[2] <= path.value /\ c[2] # NoChallenge
  /\ \A i \in PathIds, c \in path.challenges : path.q.paths[i].challenge = c[2] => c[1] = i
  /\ \A i \in PathIds, r \in path.responses : path.q.paths[i].challenge = r[2] => i \in path.reached
  /\ path.q.paths[0].challenge = path.q.paths[1].challenge => path.q.paths[0].challenge = NoChallenge

\* What keeps the connection ID in use: only older ones were ever retired.
OlderRetired ==
  /\ path.pool.limit = CidLimit
  /\ \A seq \in path.retires : seq <= path.m.cur_cid

PathInv ==
  /\ path \in PathRecord /\ Fresh /\ OlderRetired
  /\ ValidatedMeansReached /\ PathAmplification /\ SolePath /\ CidAccounting

LEMMA PathInvInit == PathStart => PathInv
<1> SUFFICES ASSUME PathStart PROVE PathInv OBVIOUS
<1> USE DEF PathStart, PathInit, MigrateInit, PoolIssue, PoolInit, PathIds, NoChallenge
<1>1. path \in PathRecord
  BY CidLimitAssumption DEF PathRecord, PathState, Migration, Pool, Tagged
<1>2. Fresh /\ OlderRetired BY DEF Fresh, OlderRetired
<1>3. ValidatedMeansReached /\ PathAmplification /\ SolePath
  BY DEF ValidatedMeansReached, PathAmplification, SolePath
<1>4. CidAccounting BY CidLimitAssumption DEF CidAccounting, ActiveCount
<1> QED BY <1>1, <1>2, <1>3, <1>4 DEF PathInv

Quic == [paths : [PathIds -> PathState], active : PathIds]

USE DEF PathIds, NoChallenge

\* A step that touches none of the values sent and none of the flags of a path
\* keeps what they show.
LEMMA ProofsKept ==
  ASSUME PathInv, path'.q.active = path.q.active, path'.value = path.value,
         path'.challenges = path.challenges, path'.responses = path.responses,
         path'.reached = path.reached,
         \A j \in PathIds : /\ path'.q.paths[j].challenge = path.q.paths[j].challenge
                            /\ path'.q.paths[j].validated = path.q.paths[j].validated
                            /\ path'.q.paths[j].confirmed = path.q.paths[j].confirmed
  PROVE  Fresh' /\ ValidatedMeansReached' /\ SolePath'
<1>1. Fresh' BY DEF PathInv, Fresh
<1>2. ValidatedMeansReached' BY DEF PathInv, ValidatedMeansReached
<1>3. SolePath' BY DEF PathInv, SolePath
<1> QED BY <1>1, <1>2, <1>3

\* A step that leaves the pool, the retirements and the ID in use alone keeps
\* the accounts of IDs.
LEMMA IdsKept ==
  ASSUME PathInv, path'.pool = path.pool, path'.retires = path.retires,
         path'.m.cur_cid = path.m.cur_cid
  PROVE  OlderRetired' /\ CidAccounting'
BY DEF PathInv, OlderRetired, CidAccounting, ActiveCount

\* A step that leaves the bytes and the validation of every path alone, or
\* only adds to what a path received, keeps every budget.
LEMMA BudgetKept ==
  ASSUME PathInv, path' \in PathRecord,
         \A j \in PathIds : /\ path'.q.paths[j].bytes_sent = path.q.paths[j].bytes_sent
                            /\ path'.q.paths[j].bytes_received >= path.q.paths[j].bytes_received
                            /\ path.q.paths[j].validated => path'.q.paths[j].validated
  PROVE  PathAmplification'
BY DEF PathInv, PathAmplification, PathRecord, PathState

\* A datagram that arrives only adds to its path's budget.
LEMMA ReceiveKeeps == ASSUME PathInv, NEW i \in PathIds, PathReceive(i) PROVE PathInv'
<1> DEFINE p == [path.q.paths[i] EXCEPT !.bytes_received = @ + 1]
           q == [path.q EXCEPT !.paths = [@ EXCEPT ![i] = p]]
           m == IF i # path.q.active THEN MigrateDetect(path.m) ELSE path.m
<1>0. path \in PathRecord /\ path.q \in Quic /\ path.q.paths[i] \in PathState
  BY DEF PathInv, PathRecord, Quic
<1>1. q \in Quic
  <2>1. p \in PathState BY <1>0 DEF PathState
  <2> QED BY <1>0, <2>1 DEF Quic
<1>2. m \in Migration /\ m.cur_cid = path.m.cur_cid
  BY Zenon, <1>0 DEF PathRecord, Migration, MigrateDetect
<1>3. path' = [path EXCEPT !.q = q, !.m = m] BY <1>0 DEF PathReceive, PathRecord, Quic
<1> HIDE DEF m
<1>4. path' \in PathRecord BY Zenon, <1>0, <1>1, <1>2, <1>3 DEF PathRecord, Quic
<1>5. /\ path'.q = q /\ path'.m = m /\ path'.pool = path.pool /\ path'.value = path.value
      /\ path'.challenges = path.challenges /\ path'.responses = path.responses
      /\ path'.retires = path.retires /\ path'.reached = path.reached
  BY <1>0, <1>3 DEF PathRecord
<1>6. /\ path'.q.active = path.q.active
      /\ \A j \in PathIds : /\ path'.q.paths[j].challenge = path.q.paths[j].challenge
                            /\ path'.q.paths[j].bytes_sent = path.q.paths[j].bytes_sent
                            /\ path'.q.paths[j].bytes_received >= path.q.paths[j].bytes_received
                            /\ path'.q.paths[j].validated = path.q.paths[j].validated
                            /\ path'.q.paths[j].confirmed = path.q.paths[j].confirmed
  BY <1>0, <1>5, SMTT(20) DEF Quic, PathState
<1> HIDE DEF q, p
<1>7. Fresh' /\ ValidatedMeansReached' /\ SolePath' BY <1>5, <1>6, ProofsKept
<1>8. OlderRetired' /\ CidAccounting' BY <1>2, <1>5, IdsKept
<1>9. PathAmplification' BY <1>4, <1>6, BudgetKept
<1> QED BY <1>4, <1>7, <1>8, <1>9 DEF PathInv

\* The handshake's confirmation, a new connection ID and a retirement leave
\* the paths alone.
LEMMA ConfirmedKeeps == ASSUME PathInv, HandshakeIsConfirmed PROVE PathInv'
<1>0. path \in PathRecord BY DEF PathInv
<1>1. path' \in PathRecord BY Zenon, <1>0 DEF HandshakeIsConfirmed, PathRecord, Migration
<1>2. /\ path'.q = path.q /\ path'.pool = path.pool /\ path'.value = path.value
      /\ path'.challenges = path.challenges /\ path'.responses = path.responses
      /\ path'.retires = path.retires /\ path'.reached = path.reached
      /\ path'.m.cur_cid = path.m.cur_cid
  BY <1>0 DEF HandshakeIsConfirmed, PathRecord, Migration
<1>3. Fresh' /\ ValidatedMeansReached' /\ SolePath' BY <1>2, ProofsKept
<1>4. OlderRetired' /\ CidAccounting' BY <1>2, IdsKept
<1>5. PathAmplification' BY <1>2 DEF PathInv, PathAmplification
<1> QED BY <1>1, <1>3, <1>4, <1>5 DEF PathInv

LEMMA IssueKeeps == ASSUME PathInv, IssueCid PROVE PathInv'
<1> DEFINE c == [path.pool EXCEPT !.next_seq = @ + 1]
<1>0. path \in PathRecord /\ path.pool \in Pool BY DEF PathInv, PathRecord
<1>1. c \in Pool /\ c.limit = path.pool.limit /\ c.next_seq = path.pool.next_seq + 1
      /\ c.retire_lo = path.pool.retire_lo
  BY <1>0 DEF Pool
<1>2. path' = [path EXCEPT !.pool = c] BY <1>0 DEF IssueCid, PoolIssue, PathRecord
<1> HIDE DEF c
<1>3. path' \in PathRecord BY <1>0, <1>1, <1>2 DEF PathRecord
<1>4. /\ path'.q = path.q /\ path'.m = path.m /\ path'.pool = c /\ path'.value = path.value
      /\ path'.challenges = path.challenges /\ path'.responses = path.responses
      /\ path'.retires = path.retires /\ path'.reached = path.reached
  BY <1>0, <1>2 DEF PathRecord
<1>5. Fresh' /\ ValidatedMeansReached' /\ SolePath' BY <1>4, ProofsKept
<1>6. OlderRetired' BY <1>1, <1>4 DEF PathInv, OlderRetired
<1>7. CidAccounting'
  BY <1>0, <1>1, <1>4 DEF PathInv, OlderRetired, CidAccounting, ActiveCount, IssueCid, CanIssue,
     Pool, PathRecord, Migration
<1>8. PathAmplification' BY <1>4 DEF PathInv, PathAmplification
<1> QED BY <1>3, <1>5, <1>6, <1>7, <1>8 DEF PathInv

LEMMA RetireKeeps ==
  ASSUME PathInv, NEW seq \in path.retires, RetireArrives(seq) PROVE PathInv'
<1> DEFINE c == RetirePriorTo(path.pool, seq)
<1>0. path \in PathRecord /\ path.pool \in Pool /\ seq \in Nat
  BY DEF PathInv, PathRecord
<1>1. c \in Pool /\ c.limit = path.pool.limit /\ c.next_seq = path.pool.next_seq
      /\ c.retire_lo >= path.pool.retire_lo /\ c.retire_lo \in {path.pool.retire_lo, seq}
  BY <1>0 DEF Pool, RetirePriorTo
<1>2. path' = [path EXCEPT !.pool = c] BY <1>0 DEF RetireArrives
<1> HIDE DEF c
<1>3. path' \in PathRecord BY <1>0, <1>1, <1>2 DEF PathRecord
<1>4. /\ path'.q = path.q /\ path'.m = path.m /\ path'.pool = c /\ path'.value = path.value
      /\ path'.challenges = path.challenges /\ path'.responses = path.responses
      /\ path'.retires = path.retires /\ path'.reached = path.reached
  BY <1>0, <1>2 DEF PathRecord
<1>5. Fresh' /\ ValidatedMeansReached' /\ SolePath' BY <1>4, ProofsKept
<1>6. OlderRetired' BY <1>1, <1>4 DEF PathInv, OlderRetired
<1>7. CidAccounting'
  BY <1>0, <1>1, <1>4 DEF PathInv, OlderRetired, CidAccounting, ActiveCount, Pool, PathRecord, Migration
<1>8. PathAmplification' BY <1>4 DEF PathInv, PathAmplification
<1> QED BY <1>3, <1>5, <1>6, <1>7, <1>8 DEF PathInv

\* A challenge is new on its path and its bytes are in the budget.
LEMMA ChallengeKeeps == ASSUME PathInv, NEW i \in PathIds, Challenge(i) PROVE PathInv'
<1> DEFINE v == path.value + 1
           p == [path.q.paths[i] EXCEPT !.challenge = v,
                                        !.bytes_sent = path.q.paths[i].bytes_sent + ChallengeSize]
           q == [path.q EXCEPT !.paths = [@ EXCEPT ![i] = p]]
           m == IF i # path.q.active THEN MigrateChallenge(path.m) ELSE path.m
<1>0. path \in PathRecord /\ path.q \in Quic /\ path.q.paths[i] \in PathState /\ path.value \in Nat
  BY DEF PathInv, PathRecord, Quic
<1>a. ChallengeSize \in Nat BY PathAssumption
<1>1. q \in Quic
  <2> DEFINE b == path.q.paths[i].bytes_sent + ChallengeSize
  <2>a. v \in Nat /\ b \in Nat BY <1>0, <1>a DEF PathState
  <2> HIDE DEF v, b
  <2>1. [path.q.paths[i] EXCEPT !.challenge = v, !.bytes_sent = b] \in PathState
    BY Zenon, <1>0, <2>a DEF PathState
  <2> USE DEF b
  <2> QED BY <1>0, <2>1 DEF Quic
<1>2. m \in Migration /\ m.cur_cid = path.m.cur_cid
  BY Zenon, <1>0 DEF PathRecord, Migration, MigrateChallenge
<1>3. path' = [path EXCEPT !.q = q, !.m = m, !.value = v,
                           !.challenges = @ \union {<<i, v>>}]
  <2>1. q = PathSent(PathSendChallenge(path.q, i, v), i, ChallengeSize)
    BY Zenon, <1>0 DEF PathSent, PathSendChallenge, Quic, PathState
  <2> HIDE DEF q
  <2> QED BY <1>0, <2>1 DEF Challenge, PathRecord
<1> HIDE DEF m
<1>b. q \in [paths : [PathIds -> PathState], active : PathIds] /\ <<i, v>> \in Tagged
  BY <1>0, <1>1 DEF Quic, Tagged
<1> HIDE DEF q, p
<1>4. path' \in PathRecord
  <2> DEFINE s == path.challenges \union {<<i, v>>}
  <2>1. s \in SUBSET Tagged /\ v \in Nat BY <1>0, <1>b DEF PathRecord
  <2>2. path' = [path EXCEPT !.q = q, !.m = m, !.value = v, !.challenges = s] BY <1>3
  <2> HIDE DEF s, v
  <2> QED BY Zenon, <1>0, <1>b, <1>2, <2>1, <2>2 DEF PathRecord
<1> USE DEF q, p
<1>5. /\ path'.q = q /\ path'.m = m /\ path'.pool = path.pool /\ path'.value = v
      /\ path'.challenges = path.challenges \union {<<i, v>>}
      /\ path'.responses = path.responses
      /\ path'.retires = path.retires /\ path'.reached = path.reached
  BY <1>0, <1>3 DEF PathRecord
<1>6. /\ path'.q.active = path.q.active
      /\ path'.q.paths[i].challenge = v
      /\ path'.q.paths[i].bytes_sent = path.q.paths[i].bytes_sent + ChallengeSize
      /\ \A j \in PathIds : /\ j # i => path'.q.paths[j] = path.q.paths[j]
                            /\ path'.q.paths[j].bytes_received = path.q.paths[j].bytes_received
                            /\ path'.q.paths[j].validated = path.q.paths[j].validated
                            /\ path'.q.paths[j].confirmed = path.q.paths[j].confirmed
  BY <1>0, <1>5 DEF Quic, PathState
<1> HIDE DEF q, p
<1>7. Fresh'
  <2>1. \A j \in PathIds : path'.q.paths[j].challenge <= path'.value
    BY <1>0, <1>5, <1>6 DEF PathInv, Fresh, PathRecord, PathState
  <2>2. \A c \in path'.challenges \union path'.responses : c[2] <= path'.value /\ c[2] # NoChallenge
    BY <1>0, <1>5 DEF PathInv, Fresh, PathRecord, Tagged
  <2>3. \A j \in PathIds, c \in path'.challenges : path'.q.paths[j].challenge = c[2] => c[1] = j
    BY <1>0, <1>5, <1>6 DEF PathInv, Fresh, PathRecord, PathState, Tagged
  <2>4. \A j \in PathIds, r \in path'.responses :
          path'.q.paths[j].challenge = r[2] => j \in path'.reached
    BY <1>0, <1>5, <1>6 DEF PathInv, Fresh, PathRecord, PathState, Tagged
  <2>5. path'.q.paths[0].challenge = path'.q.paths[1].challenge
          => path'.q.paths[0].challenge = NoChallenge
    BY <1>0, <1>5, <1>6, SMTT(20) DEF PathInv, Fresh, PathRecord, PathState
  <2> QED BY <2>1, <2>2, <2>3, <2>4, <2>5 DEF Fresh
<1>8. OlderRetired' /\ CidAccounting' BY <1>2, <1>5, IdsKept
<1>9. ValidatedMeansReached' /\ SolePath'
  BY <1>5, <1>6 DEF PathInv, ValidatedMeansReached, SolePath
<1>10. PathAmplification'
  BY <1>0, <1>a, <1>6, SMTT(20) DEF PathInv, PathAmplification, Challenge, PathCanSend, PathRecord, PathState
<1> QED BY <1>4, <1>7, <1>8, <1>9, <1>10 DEF PathInv

\* An answer shows that the challenge's own path was reached, whichever path
\* brings the answer back.
LEMMA AnswersKeeps ==
  ASSUME PathInv, NEW i \in PathIds, NEW c \in path.challenges, PeerAnswers(c, i) PROVE PathInv'
<1>0. path \in PathRecord /\ c \in Tagged /\ c[1] \in PathIds /\ c[2] \in Nat
  BY DEF PathInv, PathRecord, Tagged
<1>1. <<i, c[2]>> \in Tagged BY <1>0 DEF Tagged
<1>2. path' \in PathRecord BY Zenon, <1>0, <1>1 DEF PeerAnswers, PathRecord
<1>3. /\ path'.q = path.q /\ path'.m = path.m /\ path'.pool = path.pool
      /\ path'.value = path.value /\ path'.challenges = path.challenges \ {c}
      /\ path'.responses = path.responses \union {<<i, c[2]>>}
      /\ path'.retires = path.retires /\ path'.reached = path.reached \union {c[1]}
  BY <1>0 DEF PeerAnswers, PathRecord
<1>4. Fresh' BY <1>0, <1>3 DEF PathInv, Fresh
<1>5. ValidatedMeansReached' /\ SolePath' /\ PathAmplification'
  BY <1>3 DEF PathInv, ValidatedMeansReached, SolePath, PathAmplification
<1>6. OlderRetired' /\ CidAccounting' BY <1>3, IdsKept
<1> QED BY <1>2, <1>4, <1>5, <1>6 DEF PathInv

\* A response validates the path it came over only if it carries that path's
\* latest value, which was sent nowhere else.
LEMMA ResponseKeeps ==
  ASSUME PathInv, NEW r \in path.responses, RecvResponse(r) PROVE PathInv'
<1> DEFINE i == r[1]
           q == PathRecvResponse(path.q, i, r[2])
           m == IF ResponseMatches(path.q, i, r[2]) /\ i # path.q.active
                THEN MigrateValidate(path.m) ELSE path.m
<1>0. path \in PathRecord /\ path.q \in Quic /\ i \in PathIds /\ path.q.paths[i] \in PathState
  BY DEF PathInv, PathRecord, Quic, Tagged
<1>1. q \in Quic BY Zenon, <1>0 DEF PathRecvResponse, Quic, PathState
<1>2. m \in Migration /\ m.cur_cid = path.m.cur_cid
  BY Zenon, <1>0 DEF PathRecord, Migration, MigrateValidate
<1>3. /\ q.active = path.q.active
      /\ \A j \in PathIds :
           /\ q.paths[j].challenge = path.q.paths[j].challenge
           /\ q.paths[j].bytes_sent = path.q.paths[j].bytes_sent
           /\ q.paths[j].bytes_received = path.q.paths[j].bytes_received
           /\ q.paths[j].confirmed = path.q.paths[j].confirmed
           /\ path.q.paths[j].validated => q.paths[j].validated
           /\ q.paths[j].validated =>
                path.q.paths[j].validated \/ (j = i /\ path.q.paths[i].challenge = r[2])
  BY Zenon, <1>0 DEF PathRecvResponse, ResponseMatches, Quic, PathState
<1>4. path' = [path EXCEPT !.responses = @ \ {r}, !.q = q, !.m = m] BY <1>0 DEF RecvResponse
<1> HIDE DEF q, m
<1>5. path' \in PathRecord BY Zenon, <1>0, <1>1, <1>2, <1>4 DEF PathRecord, Quic
<1>6. /\ path'.q = q /\ path'.m = m /\ path'.pool = path.pool /\ path'.value = path.value
      /\ path'.challenges = path.challenges /\ path'.responses = path.responses \ {r}
      /\ path'.retires = path.retires /\ path'.reached = path.reached
  BY <1>0, <1>4 DEF PathRecord
<1>7. Fresh' BY <1>3, <1>6, SMTT(20) DEF PathInv, Fresh
<1>8. ValidatedMeansReached' BY <1>0, <1>3, <1>6, SMTT(20) DEF PathInv, Fresh, ValidatedMeansReached
<1>9. SolePath' BY <1>0, <1>3, <1>6, SMTT(20) DEF PathInv, SolePath, Quic
<1>10. PathAmplification'
  <2>1. \A j \in PathIds : /\ path'.q.paths[j].bytes_sent = path.q.paths[j].bytes_sent
                           /\ path'.q.paths[j].bytes_received >= path.q.paths[j].bytes_received
                           /\ path.q.paths[j].validated => path'.q.paths[j].validated
    BY <1>0, <1>3, <1>6 DEF Quic, PathState
  <2> QED BY <1>5, <2>1, BudgetKept
<1>11. OlderRetired' /\ CidAccounting' BY <1>2, <1>6, IdsKept
<1> QED BY <1>5, <1>7, <1>8, <1>9, <1>10, <1>11 DEF PathInv

\* A move confirms the one path it goes to, and its connection ID is newer than
\* every one retired before.
LEMMA MigrateKeeps ==
  ASSUME PathInv, NEW i \in PathIds, NEW cid \in 0 .. MaxCids, NEW po \in BOOLEAN,
         Migrate(i, cid, po)
  PROVE  PathInv'
<1> DEFINE q == PathConfirm(path.q, i)
           m == MigrateConfirm(path.m, cid, po)
<1>0. /\ path \in PathRecord /\ path.q \in Quic /\ path.m \in Migration /\ path.pool \in Pool
      /\ cid \in Nat /\ cid > path.m.cur_cid /\ cid < path.pool.next_seq
      /\ path.q.paths[i].validated /\ ConfirmOk(path.m, cid)
  BY DEF PathInv, PathRecord, Quic, Migrate, Migration, Pool
<1>1. /\ q \in Quic /\ q.active = i
      /\ \A j \in PathIds :
           /\ q.paths[j].challenge = path.q.paths[j].challenge
           /\ q.paths[j].bytes_sent = path.q.paths[j].bytes_sent
           /\ q.paths[j].bytes_received = path.q.paths[j].bytes_received
           /\ q.paths[j].validated = path.q.paths[j].validated
           /\ q.paths[j].confirmed <=> j = i
  <2> DEFINE c == ClearConfirmed(path.q)
  <2>1. c \in Quic /\ \A j \in PathIds : c.paths[j] = [path.q.paths[j] EXCEPT !.confirmed = FALSE]
    BY <1>0, ZenonT(30) DEF ClearConfirmed, Quic, PathState
  <2>2. q = [c EXCEPT !.paths[i].confirmed = TRUE, !.active = i] BY <1>0 DEF PathConfirm
  <2> HIDE DEF c, q
  <2>3. q \in Quic /\ q.active = i BY <2>1, <2>2, ZenonT(30) DEF Quic, PathState
  <2>4. \A j \in PathIds : q.paths[j] = [c.paths[j] EXCEPT !.confirmed = (j = i)]
    BY Zenon, <2>1, <2>2 DEF Quic, PathState
  <2> QED BY <1>0, <2>1, <2>3, <2>4 DEF Quic, PathState
<1>2. m \in Migration /\ m.cur_cid = cid BY Zenon, <1>0 DEF Migration, MigrateConfirm
<1>3. path' = [path EXCEPT !.q = q, !.m = m, !.retires = @ \union {cid}] BY <1>0 DEF Migrate
<1> HIDE DEF q, m
<1>4. path' \in PathRecord BY Zenon, <1>0, <1>1, <1>2, <1>3 DEF PathRecord, Quic
<1>5. /\ path'.q = q /\ path'.m = m /\ path'.pool = path.pool /\ path'.value = path.value
      /\ path'.challenges = path.challenges /\ path'.responses = path.responses
      /\ path'.retires = path.retires \union {cid} /\ path'.reached = path.reached
  BY <1>0, <1>3 DEF PathRecord
<1>6. Fresh' BY <1>1, <1>5, SMTT(20) DEF PathInv, Fresh
<1>7. ValidatedMeansReached' BY <1>1, <1>5 DEF PathInv, ValidatedMeansReached
<1>8. SolePath' BY <1>0, <1>1, <1>5 DEF SolePath
<1>9. PathAmplification' BY <1>1, <1>5 DEF PathInv, PathAmplification
<1>10. OlderRetired'
  BY <1>0, <1>2, <1>5 DEF PathInv, OlderRetired, PathRecord, Migration
<1>11. CidAccounting'
  BY <1>0, <1>2, <1>5 DEF PathInv, CidAccounting, ActiveCount, Migration, Pool
<1> QED BY <1>4, <1>6, <1>7, <1>8, <1>9, <1>10, <1>11 DEF PathInv

LEMMA PathInvNext == ASSUME PathInv, PathNext PROVE PathInv'
<1>1. CASE HandshakeIsConfirmed BY <1>1, ConfirmedKeeps
<1>2. CASE IssueCid BY <1>2, IssueKeeps
<1>3. ASSUME NEW i \in PathIds, PathReceive(i) PROVE PathInv' BY <1>3, ReceiveKeeps
<1>4. ASSUME NEW i \in PathIds, Challenge(i) PROVE PathInv' BY <1>4, ChallengeKeeps
<1>5. ASSUME NEW i \in PathIds, NEW c \in path.challenges, PeerAnswers(c, i) PROVE PathInv'
  BY <1>5, AnswersKeeps
<1>6. ASSUME NEW i \in PathIds, NEW cid \in 0 .. MaxCids, NEW po \in BOOLEAN, Migrate(i, cid, po)
      PROVE PathInv'
  BY <1>6, MigrateKeeps
<1>7. ASSUME NEW r \in path.responses, RecvResponse(r) PROVE PathInv' BY <1>7, ResponseKeeps
<1>8. ASSUME NEW seq \in path.retires, RetireArrives(seq) PROVE PathInv' BY <1>8, RetireKeeps
<1> QED BY <1>1, <1>2, <1>3, <1>4, <1>5, <1>6, <1>7, <1>8 DEF PathNext

-----------------------------------------------------------------------------
\* The search for the packet size.
Search == [validated : Nat, probe : Nat, ceiling : Nat, lost : Nat, searching : BOOLEAN]
MtuRecord == [q : Search, limit : Nat, probes : [1 .. 2 -> Nat], spurious : Nat]

\* As long as no probe was lost that fits, the ceiling and the lost size are
\* above what the path carries: that is why the search ends close below it.
MtuInv ==
  /\ mtu \in MtuRecord
  /\ mtu.q.validated <= PMTU_MAX /\ mtu.q.ceiling <= PMTU_MAX
  /\ \A k \in 1 .. 2 : mtu.probes[k] <= PMTU_MAX
  /\ mtu.spurious = 0 =>
       /\ mtu.q.ceiling = PMTU_MAX \/ mtu.q.ceiling > mtu.limit
       /\ mtu.q.lost = 0 \/ mtu.q.lost > mtu.limit
  /\ PmtuFits

LEMMA MtuInvInit == ASSUME NEW limit \in PathLimits, MtuStart(limit) PROVE MtuInv
<1>1. limit \in Nat /\ limit >= PMTU_BASE BY PathAssumption
<1> QED BY <1>1 DEF MtuStart, PmtuInit, MtuInv, MtuRecord, Search, PmtuFits, PMTU_BASE, PMTU_MAX

\* A size that is not viable is at most one step above the validated one.
LEMMA SendProbeKeeps == ASSUME MtuInv, NEW k \in 1 .. 2, SendProbePacket(k) PROVE MtuInv'
<1> DEFINE q == NextProbe(mtu.q)
           n == IF q.searching THEN q.probe ELSE 0
<1>0. mtu \in MtuRecord /\ mtu.q \in Search /\ mtu.q.searching BY DEF MtuInv, MtuRecord, SendProbePacket
<1>1. /\ q \in Search /\ q.validated = mtu.q.validated /\ q.ceiling = mtu.q.ceiling
      /\ q.lost = mtu.q.lost
      /\ q.searching => q.probe <= mtu.q.ceiling
      /\ ~q.searching => ~PmtuViable(mtu.q, Candidate(mtu.q))
  <2> DEFINE c == Candidate(mtu.q)
  <2>1. c \in Nat /\ c <= mtu.q.ceiling BY <1>0 DEF Search, Candidate, PMTU_STEP
  <2> HIDE DEF c
  <2>2. CASE PmtuViable(mtu.q, c)
    <3>1. q = [mtu.q EXCEPT !.probe = c] BY <1>0, <2>2 DEF NextProbe, c
    <3> QED BY <1>0, <2>1, <3>1 DEF Search
  <2>3. CASE ~PmtuViable(mtu.q, c)
    <3>1. q = [mtu.q EXCEPT !.searching = FALSE] BY <1>0, <2>3 DEF NextProbe, c
    <3> HIDE DEF q
    <3> QED BY Zenon, <1>0, <2>3, <3>1 DEF Search, c
  <2> QED BY <2>2, <2>3
<1>2. mtu' = [mtu EXCEPT !.q = q, !.probes[k] = n] BY DEF SendProbePacket
<1> HIDE DEF q
<1>3. n \in Nat /\ n <= PMTU_MAX BY <1>0, <1>1 DEF MtuInv, Search, PMTU_MAX
<1> HIDE DEF n
<1>4. mtu' \in MtuRecord BY Zenon, <1>0, <1>1, <1>2, <1>3 DEF MtuRecord
<1>5. /\ mtu'.q = q /\ mtu'.limit = mtu.limit /\ mtu'.spurious = mtu.spurious
      /\ \A j \in 1 .. 2 : mtu'.probes[j] \in {mtu.probes[j], n}
  BY <1>0, <1>2 DEF MtuRecord
<1>6. PmtuFits'
  <2>1. q.validated <= mtu.limit BY <1>1 DEF MtuInv, PmtuFits
  <2>2. ASSUME ~q.searching, mtu.spurious = 0
        PROVE  q.validated = PMTU_MAX \/ mtu.limit - q.validated < PMTU_STEP
    BY <1>0, <1>1, <2>2 DEF MtuInv, MtuRecord, Search, PmtuViable, Candidate, PMTU_STEP, PMTU_MAX
  <2> QED BY <1>5, <2>1, <2>2 DEF PmtuFits
<1> QED BY <1>0, <1>1, <1>3, <1>4, <1>5, <1>6 DEF MtuInv

LEMMA AckKeeps == ASSUME MtuInv, NEW k \in 1 .. 2, ProbeAcked(k) PROVE MtuInv'
<1> DEFINE n == mtu.probes[k]
           q == PmtuOnAck(mtu.q, n)
<1>0. /\ mtu \in MtuRecord /\ mtu.q \in Search /\ n \in Nat
      /\ n <= mtu.limit /\ n <= PMTU_MAX /\ mtu.limit \in Nat
  BY DEF MtuInv, MtuRecord, ProbeAcked
<1>1. /\ q \in Search /\ q.ceiling = mtu.q.ceiling /\ q.lost = mtu.q.lost
      /\ q.searching = mtu.q.searching
      /\ q.validated = mtu.q.validated \/ (q.validated = n /\ n > mtu.q.validated)
  BY Zenon, <1>0 DEF PmtuOnAck, Search
<1>2. mtu' = [mtu EXCEPT !.q = q, !.probes[k] = 0] BY DEF ProbeAcked
<1> HIDE DEF q, n
<1>3. mtu' \in MtuRecord BY Zenon, <1>0, <1>1, <1>2 DEF MtuRecord
<1>4. /\ mtu'.q = q /\ mtu'.limit = mtu.limit /\ mtu'.spurious = mtu.spurious
      /\ \A j \in 1 .. 2 : mtu'.probes[j] \in {mtu.probes[j], 0}
  BY <1>0, <1>2 DEF MtuRecord
<1>5. PmtuFits'
  BY <1>0, <1>1, <1>4 DEF MtuInv, PmtuFits, Search, PMTU_MAX, PMTU_STEP
<1>6. q.validated <= PMTU_MAX BY <1>0, <1>1 DEF MtuInv
<1> QED BY <1>1, <1>3, <1>4, <1>5, <1>6 DEF MtuInv, PMTU_MAX

LEMMA LossKeeps == ASSUME MtuInv, NEW k \in 1 .. 2, ProbeLost(k) PROVE MtuInv'
<1> DEFINE n == mtu.probes[k]
           q == PmtuOnLoss(mtu.q, n)
           s == IF n <= mtu.limit THEN mtu.spurious + 1 ELSE mtu.spurious
<1>0. /\ mtu \in MtuRecord /\ mtu.q \in Search /\ n \in Nat
      /\ n <= PMTU_MAX /\ mtu.limit \in Nat /\ mtu.spurious \in Nat
  BY DEF MtuInv, MtuRecord
<1>1. /\ q \in Search /\ q.validated = mtu.q.validated /\ q.searching = mtu.q.searching
      /\ q.lost = n /\ q.ceiling \in {mtu.q.ceiling, n} /\ q.ceiling <= mtu.q.ceiling
  <2> DEFINE c == IF n < mtu.q.ceiling THEN n ELSE mtu.q.ceiling
  <2>1. c \in Nat /\ c \in {mtu.q.ceiling, n} /\ c <= mtu.q.ceiling BY <1>0 DEF Search
  <2>2. q = [mtu.q EXCEPT !.ceiling = c, !.lost = n, !.probe = 0] BY DEF PmtuOnLoss
  <2> HIDE DEF c, q, n
  <2> QED BY Zenon, <1>0, <2>1, <2>2 DEF Search
<1>2. mtu' = [mtu EXCEPT !.q = q, !.probes[k] = 0, !.spurious = s] BY DEF ProbeLost
<1>3. s \in Nat /\ (s = 0 => mtu.spurious = 0 /\ n > mtu.limit) BY <1>0
<1> HIDE DEF q, n, s
<1>4. mtu' \in MtuRecord BY Zenon, <1>0, <1>1, <1>2, <1>3 DEF MtuRecord
<1>5. /\ mtu'.q = q /\ mtu'.limit = mtu.limit /\ mtu'.spurious = s
      /\ \A j \in 1 .. 2 : mtu'.probes[j] \in {mtu.probes[j], 0}
  BY <1>0, <1>2 DEF MtuRecord
<1>6. PmtuFits' BY <1>1, <1>3, <1>5 DEF MtuInv, PmtuFits
<1>7. q.ceiling <= PMTU_MAX BY <1>0, <1>1 DEF MtuInv, Search, PMTU_MAX
<1> QED BY <1>1, <1>3, <1>4, <1>5, <1>6, <1>7 DEF MtuInv, PMTU_MAX

-----------------------------------------------------------------------------
\* Migration, the pool of connection IDs and the search together: a path counts
\* as validated only if the peer was reached on it, an unvalidated one stays in
\* its budget, one validated path is confirmed, the connection ID in use is not
\* retired and the packet size is one the path carries, for every limit of the
\* pool, size of a challenge, limit of the path and number of packets, in
\* whatever order they arrive (path.c:14-46, migrate.c:12-40, cidpool.c:8-23,
\* pmtu.c:11-42).
THEOREM PathsAlwaysProved == PathsSpec => []PathsProved
<1>1. PathsInit => PathInv /\ MtuInv BY PathInvInit, MtuInvInit DEF PathsInit
<1>2. PathInv /\ MtuInv /\ [PathsNext]_<<path, mtu>> => (PathInv /\ MtuInv)'
  <2> SUFFICES ASSUME PathInv, MtuInv, [PathsNext]_<<path, mtu>> PROVE PathInv' /\ MtuInv'
    OBVIOUS
  <2>1. ASSUME UNCHANGED path PROVE PathInv'
    BY <2>1 DEF PathInv, Fresh, OlderRetired, ValidatedMeansReached, PathAmplification, SolePath,
       CidAccounting
  <2>2. ASSUME UNCHANGED mtu PROVE MtuInv' BY <2>2 DEF MtuInv, PmtuFits
  <2>3. CASE PathNext /\ UNCHANGED mtu BY <2>3, <2>2, PathInvNext
  <2>4. CASE MtuNext /\ UNCHANGED path
    BY <2>4, <2>1, SendProbeKeeps, AckKeeps, LossKeeps DEF MtuNext
  <2>5. CASE UNCHANGED <<path, mtu>> BY <2>5, <2>1, <2>2
  <2> QED BY <2>3, <2>4, <2>5 DEF PathsNext
<1>3. PathInv /\ MtuInv => PathsProved BY DEF PathInv, MtuInv, PathsProved
<1> QED BY <1>1, <1>2, <1>3, PTL DEF PathsSpec

(***************************************************************************)
(* Closing.                                                                *)
(***************************************************************************)
End == [conn : Conn, gone : BOOLEAN, data : Nat, held : Nat, life : Life]

Period == DrainingPeriod(PtoTicks)

\* One endpoint: its two phases agree, the close timer stands still while it is
\* open and then counts the ticks since, and only what closed by itself closes
\* again.
EndInv(n) ==
  /\ n \in End
  /\ IF n.life.phase = "OPEN" THEN n.conn.phase \in OpenPhases ELSE n.conn.phase = n.life.phase
  /\ n.life.close_max = Period
  /\ n.life.phase = "OPEN" => n.life.close_ticks = 0 /\ n.held = 0
  /\ n.life.phase \in {"CLOSING", "DRAINING"} => n.life.close_ticks = n.held /\ n.held < Period
  /\ n.life.phase = "CLOSING" => n.life.sent_close

LifeInv ==
  /\ life = [end |-> life.end, net |-> life.net]
  /\ life.end = [e \in Ends |-> life.end[e]]
  /\ \A e \in Ends : EndInv(life.end[e])
  /\ CloseNotAnswered

LEMMA PeriodPositive == Period \in Nat /\ Period > 0
BY LifecycleAssumption DEF Period, DrainingPeriod

\* A row of the phase table with a state and an event is the only one.
LEMMA PhaseStep ==
  ASSUME NEW s, NEW ev, NEW t, <<s, ev, t>> \in PhaseRows
  PROVE  FsmStep(PhaseRows, s, ev) = t
<1>1. \A r \in PhaseRows : r[1] = s /\ r[2] = ev => r[3] = t
  BY DEF PhaseRows, OpenPhases
<1>2. FsmAllows(PhaseRows, s, ev)
  BY DEF FsmAllows
<1> QED BY <1>1, <1>2 DEF FsmStep, FsmAllows

\* Without a row the phase stays.
LEMMA PhaseStays ==
  ASSUME NEW s, NEW ev, \A t : <<s, ev, t>> \notin PhaseRows
  PROVE  FsmStep(PhaseRows, s, ev) = s
<1>1. \A r \in PhaseRows : r = <<r[1], r[2], r[3]>>
  BY DEF PhaseRows, OpenPhases
<1>2. ~FsmAllows(PhaseRows, s, ev)
  BY <1>1 DEF FsmAllows
<1> QED BY <1>2 DEF FsmStep

\* quic_conn_step on the events of closing.
LEMMA ConnSteps ==
  ASSUME NEW c \in Conn
  PROVE  /\ \A ev \in {"HS_PROGRESS", "HS_CONFIRMED", "CLOSE", "DRAIN", "CLOSED"} : ConnStep(c, ev) \in Conn
         /\ \A ev \in {"HS_PROGRESS", "HS_CONFIRMED"} :
              /\ c.phase \in OpenPhases => ConnStep(c, ev).phase \in OpenPhases
              /\ c.phase \notin OpenPhases => ConnStep(c, ev).phase = c.phase
         /\ c.phase \in OpenPhases => /\ ConnStep(c, "CLOSE").phase = "CLOSING"
                                      /\ ConnStep(c, "DRAIN").phase = "DRAINING"
         /\ c.phase \notin OpenPhases => ConnStep(c, "DRAIN").phase = c.phase
         /\ c.phase \notin OpenPhases => ConnStep(c, "CLOSED").phase = "CLOSED"
<1> DEFINE P == OpenPhases \union {"CLOSING", "DRAINING", "CLOSED"}
<1>1. c.phase \in P /\ \A q \in P : [c EXCEPT !.phase = q] \in Conn /\ [c EXCEPT !.phase = q].phase = q
  BY DEF Conn
<1>2. \A ev : ConnStep(c, ev) = [c EXCEPT !.phase = FsmStep(PhaseRows, c.phase, ev)]
  BY DEF ConnStep
<1>3. \A s \in OpenPhases : /\ FsmStep(PhaseRows, s, "CLOSE") = "CLOSING"
                            /\ FsmStep(PhaseRows, s, "DRAIN") = "DRAINING"
  BY PhaseStep DEF PhaseRows
<1>4. \A s \in P \ OpenPhases : /\ FsmStep(PhaseRows, s, "CLOSE") = s
                                /\ FsmStep(PhaseRows, s, "DRAIN") = s
                                /\ FsmStep(PhaseRows, s, "HS_PROGRESS") = s
                                /\ FsmStep(PhaseRows, s, "HS_CONFIRMED") = s
  <2> SUFFICES ASSUME NEW s \in P \ OpenPhases,
                      NEW ev \in {"CLOSE", "DRAIN", "HS_PROGRESS", "HS_CONFIRMED"}, NEW t
               PROVE  <<s, ev, t>> \notin PhaseRows
    BY PhaseStays
  <2> QED BY DEF PhaseRows, OpenPhases
<1>5. \A s \in P \ OpenPhases : FsmStep(PhaseRows, s, "CLOSED") = "CLOSED"
  <2>1. FsmStep(PhaseRows, "CLOSING", "CLOSED") = "CLOSED" /\ FsmStep(PhaseRows, "DRAINING", "CLOSED") = "CLOSED"
    BY PhaseStep DEF PhaseRows
  <2>2. \A t : <<"CLOSED", "CLOSED", t>> \notin PhaseRows
    BY DEF PhaseRows, OpenPhases
  <2>3. FsmStep(PhaseRows, "CLOSED", "CLOSED") = "CLOSED"
    BY <2>2, PhaseStays
  <2> QED BY <2>1, <2>3 DEF OpenPhases
<1>6. \A s \in OpenPhases : FsmStep(PhaseRows, s, "CLOSED") = s
  <2> SUFFICES ASSUME NEW s \in OpenPhases, NEW t PROVE <<s, "CLOSED", t>> \notin PhaseRows
    BY PhaseStays
  <2> QED BY DEF PhaseRows, OpenPhases
<1>7. /\ FsmStep(PhaseRows, "INITIAL", "HS_PROGRESS") = "HANDSHAKE"
      /\ FsmStep(PhaseRows, "HANDSHAKE", "HS_CONFIRMED") = "CONFIRMED"
  BY PhaseStep DEF PhaseRows
<1>8. /\ \A s \in {"HANDSHAKE", "CONFIRMED"} : FsmStep(PhaseRows, s, "HS_PROGRESS") = s
      /\ \A s \in {"INITIAL", "CONFIRMED"} : FsmStep(PhaseRows, s, "HS_CONFIRMED") = s
  <2>1. \A t : \A s \in {"HANDSHAKE", "CONFIRMED"} : <<s, "HS_PROGRESS", t>> \notin PhaseRows
    BY DEF PhaseRows, OpenPhases
  <2>2. \A t : \A s \in {"INITIAL", "CONFIRMED"} : <<s, "HS_CONFIRMED", t>> \notin PhaseRows
    BY DEF PhaseRows, OpenPhases
  <2> QED BY Zenon, <2>1, <2>2, PhaseStays
<1>9. \A s \in OpenPhases, ev \in {"HS_PROGRESS", "HS_CONFIRMED"} : FsmStep(PhaseRows, s, ev) \in OpenPhases
  BY <1>7, <1>8 DEF OpenPhases
<1> DEFINE f(ev) == FsmStep(PhaseRows, c.phase, ev)
<1>10. \A ev \in {"HS_PROGRESS", "HS_CONFIRMED", "CLOSE", "DRAIN", "CLOSED"} : f(ev) \in P
  BY <1>1, <1>3, <1>4, <1>5, <1>6, <1>9
<1>11. \A ev \in {"HS_PROGRESS", "HS_CONFIRMED", "CLOSE", "DRAIN", "CLOSED"} :
         ConnStep(c, ev) \in Conn /\ ConnStep(c, ev).phase = f(ev)
  BY Zenon, <1>1, <1>2, <1>10
<1> QED BY <1>1, <1>3, <1>4, <1>5, <1>9, <1>11

\* A step that changes one endpoint and takes a close only from one that closed.
LEMMA EndStep ==
  ASSUME LifeInv, NEW e \in Ends, NEW n, NEW net, EndInv(n),
         life' = [end |-> [life.end EXCEPT ![e] = n], net |-> net],
         n.life.sent_close \/ n.life.sent_close = life.end[e].life.sent_close,
         \A m \in net \ life.net : m[2] # "CC" \/ (m[1] = Peer(e) /\ n.life.sent_close)
  PROVE  LifeInv'
<1>1. life'.end = [life.end EXCEPT ![e] = n] /\ life'.net = net
  OBVIOUS
<1>2. DOMAIN life.end = Ends
  BY DEF LifeInv
<1>3. life'.end[e] = n /\ \A d \in Ends \ {e} : life'.end[d] = life.end[d]
  BY <1>1, <1>2
<1>4. life'.end = [d \in Ends |-> life'.end[d]]
  BY <1>1, <1>2
<1>5. \A d \in Ends : EndInv(life'.end[d])
  BY <1>3 DEF LifeInv
<1>6. CloseNotAnswered'
  <2> SUFFICES ASSUME NEW d \in Ends, <<Peer(d), "CC">> \in life'.net
               PROVE  life'.end[d].life.sent_close
    BY DEF CloseNotAnswered, LifeOf
  <2>1. CASE <<Peer(d), "CC">> \in life.net
    <3>1. life.end[d].life.sent_close
      BY <2>1 DEF LifeInv, CloseNotAnswered, LifeOf
    <3> QED BY <3>1, <1>3
  <2>2. CASE <<Peer(d), "CC">> \notin life.net
    <3>1. Peer(d) = Peer(e) /\ n.life.sent_close
      BY <2>2, <1>1
    <3>2. d = e
      BY <3>1 DEF Peer, Ends
    <3> QED BY <3>1, <3>2, <1>3
  <2> QED BY <2>1, <2>2
<1>7. life' = [end |-> life'.end, net |-> life'.net]
  BY <1>1
<1> QED BY <1>4, <1>5, <1>6, <1>7 DEF LifeInv

\* The handshake moves through the open phases.
LEMMA HsStepKeeps ==
  ASSUME LifeInv, NEW e \in Ends, NEW ev \in {"HS_PROGRESS", "HS_CONFIRMED"}, HsStep(e, ev)
  PROVE  LifeInv'
<1> DEFINE o == life.end[e]
           c == ConnStep(o.conn, ev)
           n == [o EXCEPT !.conn = c]
<1>1. EndInv(o) /\ o \in End /\ o.conn \in Conn
  BY DEF LifeInv, EndInv, End
<1>2. c \in Conn /\ (o.conn.phase \in OpenPhases => c.phase \in OpenPhases)
      /\ (o.conn.phase \notin OpenPhases => c.phase = o.conn.phase)
  BY <1>1, ConnSteps
<1> HIDE DEF c
<1>3. n \in End /\ n.conn = c /\ n.life = o.life /\ n.held = o.held
  BY <1>1, <1>2 DEF End
<1>4. o.life.phase # "OPEN" => o.conn.phase \notin OpenPhases
  BY <1>1 DEF EndInv, OpenPhases, End, Life, LifePhases
<1>5. EndInv(n)
  BY <1>1, <1>2, <1>3, <1>4 DEF EndInv
<1>6. life' = [end |-> [life.end EXCEPT ![e] = n], net |-> life.net]
  BY DEF HsStep, LifeInv, c
<1> HIDE DEF n
<1> QED BY <1>3, <1>5, <1>6, EndStep

\* The calls of quic_life keep their record well typed and never undo a close.
LEMMA LifeCalls ==
  ASSUME NEW l \in Life
  PROVE  /\ LifeActivity(l) \in Life /\ LifeClose(l) \in Life /\ LifePeerClose(l) \in Life
         /\ LifeReset(l) \in Life /\ LifeTick(l) \in Life
         /\ \A k \in {LifeActivity(l), LifeClose(l), LifePeerClose(l), LifeReset(l), LifeTick(l)} :
              k.close_max = l.close_max /\ (l.sent_close => k.sent_close)
<1> USE DEF Life, LifePhases
<1>1. LifeActivity(l) \in Life /\ LifeActivity(l).close_max = l.close_max
      /\ LifeActivity(l).sent_close = l.sent_close
  BY DEF LifeActivity
<1>2. LifeClose(l) \in Life /\ LifeClose(l).close_max = l.close_max
      /\ (l.sent_close => LifeClose(l).sent_close)
  BY Zenon DEF LifeClose
<1>3. LifePeerClose(l) \in Life /\ LifePeerClose(l).close_max = l.close_max
      /\ LifePeerClose(l).sent_close = l.sent_close
  BY Zenon DEF LifePeerClose
<1>4. LifeReset(l) \in Life /\ LifeReset(l).close_max = l.close_max
      /\ LifeReset(l).sent_close = l.sent_close
  BY DEF LifeReset
<1>5. LifeTick(l) \in Life /\ LifeTick(l).close_max = l.close_max
      /\ LifeTick(l).sent_close = l.sent_close
  <2> DEFINE i == l.idle_ticks + 1
             k == l.close_ticks + 1
             p == IF i >= l.idle_max THEN "CLOSED" ELSE l.phase
             q == IF k >= l.close_max THEN "CLOSED" ELSE l.phase
  <2>1. i \in Nat /\ k \in Nat /\ p \in LifePhases /\ q \in LifePhases
    OBVIOUS
  <2>2. TickOpen(l) = [l EXCEPT !.idle_ticks = i, !.phase = p]
        /\ TickClosing(l) = [l EXCEPT !.close_ticks = k, !.phase = q]
    BY DEF TickOpen, TickClosing
  <2> HIDE DEF i, k, p, q
  <2>3. TickOpen(l) \in Life /\ TickOpen(l).close_max = l.close_max
        /\ TickOpen(l).sent_close = l.sent_close
    BY Zenon, <2>1, <2>2
  <2>4. TickClosing(l) \in Life /\ TickClosing(l).close_max = l.close_max
        /\ TickClosing(l).sent_close = l.sent_close
    BY Zenon, <2>1, <2>2
  <2>5. LifeTick(l) \in {l, TickOpen(l), TickClosing(l)}
    BY DEF LifeTick
  <2> QED BY <2>3, <2>4, <2>5
<1> QED BY <1>1, <1>2, <1>3, <1>4, <1>5

\* A number is taken without changing the phase.
LEMMA NumberTaken ==
  ASSUME NEW c \in Conn, NEW space \in 0 .. 2
  PROVE  NextPn(c, space) \in Conn /\ NextPn(c, space).phase = c.phase
<1>1. c.next_pn \in [0 .. 2 -> Nat] /\ c.next_pn[space] + 1 \in Nat
  BY DEF Conn
<1>2. [c.next_pn EXCEPT ![space] = c.next_pn[space] + 1] \in [0 .. 2 -> Nat]
  BY <1>1
<1>3. NextPn(c, space) = [c EXCEPT !.next_pn = [c.next_pn EXCEPT ![space] = c.next_pn[space] + 1]]
  BY DEF NextPn
<1> DEFINE q == [c.next_pn EXCEPT ![space] = c.next_pn[space] + 1]
<1> HIDE DEF q
<1> QED BY <1>2, <1>3 DEF Conn, q

\* Data is sent by an open endpoint only.
LEMMA SendKeeps == ASSUME LifeInv, NEW e \in Ends, SendAppData(e) PROVE LifeInv'
<1> DEFINE o == life.end[e]
           c == NextPn(o.conn, 2)
           l == LifeActivity(o.life)
           n == [o EXCEPT !.data = o.data + 1, !.conn = c, !.life = l]
           net == life.net \union {<<Peer(e), "DATA">>}
<1>1. EndInv(o) /\ o \in End /\ o.conn \in Conn /\ o.life \in Life /\ o.data + 1 \in Nat
  BY DEF LifeInv, EndInv, End
<1>2. c \in Conn /\ c.phase = o.conn.phase
  BY <1>1, NumberTaken
<1>3. l \in Life /\ l.close_max = o.life.close_max
  BY <1>1, LifeCalls
<1>4. l.phase = o.life.phase /\ l.close_ticks = o.life.close_ticks /\ l.sent_close = o.life.sent_close
  BY <1>1 DEF LifeActivity, Life
<1>5. life' = [end |-> [life.end EXCEPT ![e] = n], net |-> net]
  BY Zenon DEF SendAppData, LifeInv, LifeOf
<1> HIDE DEF c, l
<1>6. n \in End /\ n.conn = c /\ n.life = l /\ n.held = o.held
  BY Zenon, <1>1, <1>2, <1>3 DEF End
<1>7. EndInv(n)
  BY <1>1, <1>2, <1>3, <1>4, <1>6 DEF EndInv
<1> HIDE DEF n
<1> QED BY <1>4, <1>5, <1>6, <1>7, EndStep

\* The application's close starts the closing period.
LEMMA CloseKeeps == ASSUME LifeInv, NEW e \in Ends, AppClose(e) PROVE LifeInv'
<1> DEFINE o == life.end[e]
           space == CASE o.conn.phase = "INITIAL" -> 0 [] o.conn.phase = "HANDSHAKE" -> 1 [] OTHER -> 2
           c == ConnStep(NextPn(o.conn, space), "CLOSE")
           l == LifeClose(o.life)
           n == [o EXCEPT !.life = l, !.conn = c]
           net == life.net \union {<<Peer(e), "CC">>}
<1>1. EndInv(o) /\ o \in End /\ o.conn \in Conn /\ o.life \in Life
  BY DEF LifeInv, EndInv, End
<1>2. o.life.phase = "OPEN" /\ o.conn.phase \in OpenPhases
  BY <1>1 DEF AppClose, LifeOf, EndInv
<1>3. space \in 0 .. 2
  OBVIOUS
<1>4. NextPn(o.conn, space) \in Conn /\ NextPn(o.conn, space).phase \in OpenPhases
  BY <1>1, <1>2, <1>3, NumberTaken
<1>5. c \in Conn /\ c.phase = "CLOSING"
  BY <1>4, ConnSteps
<1>6. l \in Life /\ l.close_max = o.life.close_max
  BY <1>1, LifeCalls
<1>7. l.phase = "CLOSING" /\ l.close_ticks = 0 /\ l.sent_close
  BY <1>1, <1>2 DEF LifeClose, Life
<1>8. life' = [end |-> [life.end EXCEPT ![e] = n], net |-> net]
  BY Zenon DEF AppClose, LifeInv, LifeOf
<1> HIDE DEF c, l
<1>9. n \in End /\ n.conn = c /\ n.life = l /\ n.held = o.held
  BY Zenon, <1>1, <1>5, <1>6 DEF End
<1>10. EndInv(n)
  BY <1>1, <1>2, <1>5, <1>6, <1>7, <1>9, PeriodPositive DEF EndInv
<1> HIDE DEF n
<1> QED BY <1>7, <1>8, <1>9, <1>10, EndStep, SMTT(20)

\* quic_conn follows a quic_life that is closed.
LEMMA OnClosedFollows ==
  ASSUME NEW c \in Conn, NEW l
  PROVE  /\ OnClosed(c, l) \in Conn
         /\ l.phase = "CLOSED" => OnClosed(c, l).phase = "CLOSED"
         /\ l.phase # "CLOSED" => OnClosed(c, l) = c
<1>1. ConnStep(c, "DRAIN") \in Conn /\ ConnStep(c, "DRAIN").phase \notin OpenPhases
  BY ConnSteps DEF OpenPhases
<1>2. ConnStep(ConnStep(c, "DRAIN"), "CLOSED") \in Conn
      /\ ConnStep(ConnStep(c, "DRAIN"), "CLOSED").phase = "CLOSED"
  BY <1>1, ConnSteps
<1> QED BY <1>2 DEF OnClosed

\* A packet moves an endpoint towards its end and never restarts its period.
LEMMA PacketKeeps ==
  ASSUME LifeInv, NEW e \in Ends, NEW kind \in {"DATA", "CC", "RESET"}, Receive(e, kind)
  PROVE  LifeInv'
<1> DEFINE o == life.end[e]
           l == CASE kind = "DATA"  -> LifeActivity(o.life)
                  [] kind = "CC"    -> LifePeerClose(o.life)
                  [] kind = "RESET" -> LifeReset(o.life)
           c == IF kind = "CC" THEN ConnStep(o.conn, "DRAIN") ELSE OnClosed(o.conn, l)
           reply == IF LifeSendKind(l) = "CC" /\ kind # "RESET" THEN {<<Peer(e), "CC">>} ELSE {}
           n == [o EXCEPT !.life = l, !.conn = c]
           net == (life.net \ {<<e, kind>>}) \union reply
<1>1. EndInv(o) /\ o \in End /\ o.conn \in Conn /\ o.life \in Life
  BY DEF LifeInv, EndInv, End
<1>2. l \in Life /\ l.close_max = o.life.close_max /\ (o.life.sent_close => l.sent_close)
  BY <1>1, LifeCalls
<1>3. /\ kind = "DATA" => /\ l.phase = o.life.phase /\ l.close_ticks = o.life.close_ticks
                          /\ l.sent_close = o.life.sent_close
      /\ kind = "RESET" => l.phase = "CLOSED"
      /\ kind = "CC" => /\ o.life.phase # "OPEN" => l = o.life
                        /\ o.life.phase = "OPEN" => l.phase = "DRAINING" /\ l.close_ticks = 0
  BY <1>1 DEF LifeActivity, LifePeerClose, LifeReset, Life
<1>4. life' = [end |-> [life.end EXCEPT ![e] = n], net |-> net]
  BY Zenon DEF Receive, LifeInv, LifeOf
<1>5. (\E m \in reply : TRUE) => l.phase = "CLOSING" /\ reply = {<<Peer(e), "CC">>}
  BY DEF LifeSendKind
<1>6. /\ c \in Conn
      /\ kind # "CC" => IF l.phase = "CLOSED" THEN c.phase = "CLOSED" ELSE c = o.conn
      /\ kind = "CC" => IF o.conn.phase \in OpenPhases THEN c.phase = "DRAINING"
                        ELSE c.phase = o.conn.phase
  BY <1>1, ConnSteps, OnClosedFollows
<1> HIDE DEF c, l, reply
<1>7. n \in End /\ n.conn = c /\ n.life = l /\ n.held = o.held
  BY Zenon, <1>1, <1>2, <1>6 DEF End
<1>8. o.life.phase # "OPEN" => o.conn.phase \notin OpenPhases
  BY <1>1 DEF EndInv, OpenPhases, End, Life, LifePhases
<1>9. EndInv(n)
  BY <1>1, <1>2, <1>3, <1>6, <1>7, <1>8, PeriodPositive DEF EndInv
<1>10. \A m \in net \ life.net : m[1] = Peer(e) /\ n.life.sent_close
  BY <1>5, <1>7, <1>9 DEF EndInv
<1>11. n.life.sent_close \/ n.life.sent_close = o.life.sent_close
  BY <1>1, <1>2, <1>7 DEF Life
<1> HIDE DEF n, net
<1> QED BY <1>4, <1>9, <1>10, <1>11, EndStep

\* What an endpoint without state sends is never a close.
LEMMA AnswerKeeps ==
  ASSUME LifeInv, NEW e \in Ends, NEW kind \in {"DATA", "CC", "RESET"}, Answer(e, kind)
  PROVE  LifeInv'
<1> DEFINE more == IF kind = "RESET" THEN {} ELSE {<<Peer(e), "RESET">>}
           net == (life.net \ {<<e, kind>>}) \union more
<1>1. life' = [end |-> life.end, net |-> net]
  BY DEF Answer, LifeInv
<1>2. life.end = [life.end EXCEPT ![e] = life.end[e]]
  BY DEF LifeInv
<1>3. \A m \in net \ life.net : m[2] # "CC"
  OBVIOUS
<1>4. EndInv(life.end[e])
  BY DEF LifeInv
<1> HIDE DEF net
<1> QED BY <1>1, <1>2, <1>3, <1>4, EndStep

\* A crash forgets the endpoint, not what its record was.
LEMMA CrashKeeps == ASSUME LifeInv, NEW e \in Ends, Crash(e) PROVE LifeInv'
<1> DEFINE o == life.end[e]
           n == [o EXCEPT !.gone = TRUE]
<1>1. EndInv(o) /\ o \in End
  BY DEF LifeInv, EndInv
<1>2. n \in End /\ n.conn = o.conn /\ n.life = o.life /\ n.held = o.held
  BY Zenon, <1>1 DEF End
<1>3. EndInv(n)
  BY <1>1, <1>2 DEF EndInv
<1>4. life' = [end |-> [life.end EXCEPT ![e] = n], net |-> life.net]
  BY Zenon DEF Crash, LifeInv
<1> HIDE DEF n
<1> QED BY <1>2, <1>3, <1>4, EndStep

\* A tick counts towards the end of an open or of a closing endpoint.
LEMMA TicksKeeps == ASSUME LifeInv, NEW e \in Ends, LifeTicks(e) PROVE LifeInv'
<1> DEFINE o == life.end[e]
           l == LifeTick(o.life)
           c == OnClosed(o.conn, l)
           h == IF o.life.phase = "OPEN" THEN o.held ELSE o.held + 1
           n == [o EXCEPT !.life = l, !.conn = c, !.held = h]
<1>1. EndInv(o) /\ o \in End /\ o.conn \in Conn /\ o.life \in Life /\ o.held \in Nat
  BY DEF LifeInv, EndInv, End
<1>2. l \in Life /\ l.close_max = o.life.close_max
  BY <1>1, LifeCalls
<1>3. /\ o.life.phase = "OPEN" =>
            /\ l.phase \in {"OPEN", "CLOSED"} /\ l.close_ticks = o.life.close_ticks
            /\ l.sent_close = o.life.sent_close
      /\ o.life.phase \in {"CLOSING", "DRAINING"} =>
            /\ l.close_ticks = o.life.close_ticks + 1 /\ l.sent_close = o.life.sent_close
            /\ IF o.life.close_ticks + 1 >= o.life.close_max THEN l.phase = "CLOSED"
               ELSE l.phase = o.life.phase
  BY <1>1 DEF LifeTick, TickOpen, TickClosing, Life
<1>4. o.life.phase \in {"OPEN", "CLOSING", "DRAINING"}
  BY <1>1 DEF LifeTicks, LifeOf, Life, LifePhases
<1>5. c \in Conn /\ IF l.phase = "CLOSED" THEN c.phase = "CLOSED" ELSE c = o.conn
  BY <1>1, OnClosedFollows
<1>6. life' = [end |-> [life.end EXCEPT ![e] = n], net |-> life.net]
  BY Zenon DEF LifeTicks, LifeInv, LifeOf
<1>7. h \in Nat /\ (o.life.phase = "OPEN" => h = o.held) /\ (o.life.phase # "OPEN" => h = o.held + 1)
  BY <1>1
<1> HIDE DEF c, l, h
<1>8. n \in End /\ n.conn = c /\ n.life = l /\ n.held = h
  BY Zenon, <1>1, <1>2, <1>5, <1>7 DEF End
<1>9. o.life.close_ticks \in Nat
  BY <1>1 DEF Life
<1>10. EndInv(n)
  BY <1>1, <1>2, <1>3, <1>4, <1>5, <1>7, <1>8, <1>9, PeriodPositive, SMTT(20) DEF EndInv
<1>11. n.life.sent_close = o.life.sent_close
  BY <1>3, <1>4, <1>8
<1> HIDE DEF n
<1> QED BY <1>6, <1>10, <1>11, EndStep

LEMMA LifeInvInit == LifeStart => LifeInv
<1> SUFFICES ASSUME LifeStart PROVE LifeInv
  OBVIOUS
<1> DEFINE idle == IdleFloor(IdleEffective(LocalIdle, PeerIdle), PtoTicks)
           n == [conn |-> ConnInit, gone |-> FALSE, data |-> 0, held |-> 0, life |-> LifeInit(idle, Period)]
<1>1. life = [end |-> [e \in Ends |-> n], net |-> {}]
  BY DEF LifeStart, Period
<1>2. idle \in Nat
  BY LifecycleAssumption DEF IdleFloor, IdleEffective
<1> HIDE DEF idle
<1>3. ConnInit \in Conn /\ ConnInit.phase \in OpenPhases
  BY DEF ConnInit, Conn, OpenPhases
<1>4. LifeInit(idle, Period) \in Life /\ LifeInit(idle, Period).phase = "OPEN"
      /\ LifeInit(idle, Period).close_max = Period /\ LifeInit(idle, Period).close_ticks = 0
  BY <1>2, PeriodPositive DEF LifeInit, Life, LifePhases
<1>5. EndInv(n)
  BY <1>3, <1>4 DEF EndInv, End
<1> HIDE DEF n
<1>6. life.end = [e \in Ends |-> n] /\ life.net = {}
  BY <1>1
<1> QED BY <1>1, <1>5, <1>6 DEF LifeInv, CloseNotAnswered

LEMMA LifeInvNext == LifeInv /\ [LifeNext]_life => LifeInv'
<1> SUFFICES ASSUME LifeInv, [LifeNext]_life PROVE LifeInv'
  OBVIOUS
<1>1. CASE LifeNext
  BY <1>1, HsStepKeeps, PacketKeeps, AnswerKeeps, SendKeeps, CloseKeeps, CrashKeeps, TicksKeeps
     DEF LifeNext
<1>2. CASE UNCHANGED life
  BY <1>2 DEF LifeInv, CloseNotAnswered, LifeOf
<1> QED BY <1>1, <1>2

\* However the applications' closes, the peer's, the idle timers, the resets of
\* an endpoint that lost its state and late packets interleave: the two records
\* of a phase never part, a closing or draining period is three PTOs from its
\* start and no longer, and an endpoint that did not close answers no close, for
\* every idle timeout and every PTO (conn.c:5-18, closelife.c:13-60,
\* termgate.c:3-23).
THEOREM ClosingIsExact == LifeSpec => []ClosingExact
<1>1. LifeInv => ClosingExact
  <2> SUFFICES ASSUME LifeInv, NEW e \in Ends
               PROVE  LET n == life.end[e]
                      IN  /\ IF n.life.phase = "OPEN" THEN n.conn.phase \in OpenPhases
                             ELSE n.conn.phase = n.life.phase
                          /\ n.life.phase \in {"CLOSING", "DRAINING"} =>
                               n.life.close_ticks = n.held /\ n.held < Period
                          /\ LifeCloseDue(n.life) => n.life.phase = "CLOSED"
    BY DEF LifeInv, ClosingExact, PhasesAgree, ClosePeriodExact, LifeOf, Period
  <2>1. EndInv(life.end[e])
    BY DEF LifeInv
  <2>2. life.end[e].life.phase \in LifePhases /\ life.end[e].life.close_ticks \in Nat /\ life.end[e].held \in Nat
    BY <2>1 DEF EndInv, End, Life
  <2> QED BY <2>1, <2>2, PeriodPositive, SMTT(20) DEF EndInv, LifeCloseDue, LifePhases
<1> QED BY <1>1, LifeInvInit, LifeInvNext, PTL DEF LifeSpec
-----------------------------------------------------------------------------
(***************************************************************************)
(* The Required Insert Count survives the wire.  The run of the tables     *)
(* checks it for one capacity; here it holds for every capacity and every  *)
(* number of insertions, as long as the two sides are less than a table    *)
(* apart.                                                                  *)
(***************************************************************************)
\* Quotient and remainder, as the provers know them.
LEMMA DivMod ==
  ASSUME NEW a \in Nat, NEW b \in Nat \ {0}
  PROVE  /\ a \div b \in Nat
         /\ a % b \in 0 .. b - 1
         /\ a = b * (a \div b) + (a % b)
  BY Z3

\* A difference of less than n in either direction is no more than one step of
\* the quotient.
LEMMA QuotientsClose ==
  ASSUME NEW n \in Nat \ {0}, NEW q \in Nat, NEW p \in Nat,
         NEW m \in 0 .. n - 1, NEW k \in 0 .. n - 1,
         n * q + m <= n * p + k, n * p + k < n * q + m + n
  PROVE  q = p \/ q + 1 = p
<1>1. n * (q - p) < n
  BY Z3
<1>2. n * (p - q) < 2 * n
  BY Z3
<1>3. q - p < 1
  BY <1>1, Z3
<1>4. p - q < 2
  BY <1>2, Z3
<1> QED BY <1>3, <1>4

\* quic_qpack_ric_decode undoes quic_qpack_ric_encode: a Required Insert Count
\* that is not zero, and within MaxEntries of the insertions the decoder has
\* received, is recovered exactly (insertcount.c:4-44).
THEOREM RicRoundTrip ==
  ASSUME NEW ric \in Nat \ {0}, NEW total \in Nat,
         MaxEntries \in Nat \ {0},
         total - MaxEntries < ric, ric <= total + MaxEntries
  PROVE  RicDecode(RicEncode(ric), total) = ric
<1> DEFINE n == 2 * MaxEntries
           max == total + MaxEntries
           q == ric \div n
           m == ric % n
           p == max \div n
           k == max % n
<1>1. n \in Nat \ {0} /\ max \in Nat /\ max < ric + n /\ ric <= max
  OBVIOUS
<1> HIDE DEF n, max
<1>2. q \in Nat /\ m \in 0 .. n - 1 /\ ric = n * q + m
  BY Zenon, <1>1, DivMod
<1>3. p \in Nat /\ k \in 0 .. n - 1 /\ max = n * p + k
  BY Zenon, <1>1, DivMod
<1>4. RicEncode(ric) = m + 1
  BY DEF RicEncode, n
<1>5. RicDecode(m + 1, total) = RicResolve(m + 1, n, max)
  BY <1>2, <1>1 DEF RicDecode, n, max
<1>6. RicCandidate(m + 1, n, max) = n * p + m
  <2>1. RicCandidate(m + 1, n, max) = p * n + (m + 1) - 1
    BY DEF RicCandidate
  <2> HIDE DEF p, m
  <2> QED BY <2>1, <1>1, <1>2, <1>3
<1> HIDE DEF q, m, p, k
<1>7. q = p \/ q + 1 = p
  BY <1>1, <1>2, <1>3, QuotientsClose
<1>8. CASE q = p
  <2>1. RicCandidate(m + 1, n, max) = ric
    BY <1>6, <1>2, <1>8
  <2>2. RicResolve(m + 1, n, max) = ric
    BY <2>1, <1>1, <1>2 DEF RicResolve, RicCorrect
  <2> QED BY <2>2, <1>4, <1>5
<1>9. CASE q + 1 = p
  <2>1. n * p = n * q + n
    BY <1>1, <1>2, <1>9
  <2>2. RicCandidate(m + 1, n, max) = ric + n
    BY <2>1, <1>6, <1>2, <1>1
  <2>3. RicResolve(m + 1, n, max) = ric
    BY <2>2, <1>1, <1>2 DEF RicResolve, RicCorrect
  <2> QED BY <2>3, <1>4, <1>5
<1> QED BY <1>7, <1>8, <1>9
=============================================================================
