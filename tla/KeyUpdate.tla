----------------------------- MODULE KeyUpdate ------------------------------
(***************************************************************************)
(* The 1-RTT key update of a connection runner (connrunner/keyupdate.c)    *)
(* over the two-generation store (tls/keys/kuswitch) and the judgements of *)
(* tls/keys/kudrive, as operators on the record of the runner's ku fields. *)
(*                                                                         *)
(* Abstractions.  The keys of a generation are its number: the current     *)
(* ones are generation, the retained ones generation - 1.  The secret and  *)
(* the advertised bit move with the generation.                            *)
(***************************************************************************)
EXTENDS Integers

CONSTANT Pto           \* the PTO the owner passes to the key update calls

ASSUME PtoAssumption == Pto \in Nat

Unset == -1            \* ku_completed_at = (u64)-1

Ku == [generation : Nat, have_old : BOOLEAN, phase : {0, 1},
       completed_at : Nat \cup {Unset}, sent_in_phase : Nat, unacked : BOOLEAN]

KuInit == [generation |-> 0, have_old |-> FALSE, phase |-> 0,
           completed_at |-> Unset, sent_in_phase |-> 0, unacked |-> FALSE]

PhaseBit(generation) == generation % 2

\* A generation is readable while it is the current or the retained one.
KeyForPhase(ku, bit) == bit = PhaseBit(ku.generation) \/ ku.have_old

SelectNext(ku, confirmed, bit) ==
  ku.generation = 0 /\ confirmed /\ bit # PhaseBit(ku.generation)

NEXTGEN == 1
HAVEKEY == 0
NOKEY   == -1

RecvKeygen(ku, confirmed, bit) ==
  IF SelectNext(ku, confirmed, bit) THEN NEXTGEN
  ELSE IF KeyForPhase(ku, bit) THEN HAVEKEY ELSE NOKEY

RetentionElapsed(now, mark) == now >= mark + 3 * Pto

ReinitFloorOk(ku, now) ==
  ku.completed_at = Unset \/ RetentionElapsed(now, ku.completed_at)

\* Mutant: the re-initiation floor is forgotten.
MayInitiateKu_NoFloor(ku, confirmed, now, threshold) ==
  confirmed /\ ku.sent_in_phase >= threshold /\ ~ku.unacked

MayInitiateKu(ku, confirmed, now, threshold) ==
  /\ confirmed /\ ku.sent_in_phase >= threshold
  /\ ~ku.unacked
  /\ ReinitFloorOk(ku, now)

\* Derive and rotate, then toggle the bit; the clocks start again.
DoInitiate(ku) ==
  LET next == ku.generation + 1
  IN  [generation |-> next, have_old |-> TRUE, phase |-> PhaseBit(next),
       completed_at |-> Unset, sent_in_phase |-> 0, unacked |-> TRUE]

MayDiscard(ku, now) ==
  /\ ku.have_old /\ ku.completed_at # Unset
  /\ RetentionElapsed(now, ku.completed_at)

DiscardOld(ku) == [ku EXCEPT !.have_old = FALSE]

KuCompleted(ku, now) ==
  IF ku.unacked THEN [ku EXCEPT !.completed_at = now, !.unacked = FALSE] ELSE ku
=============================================================================
