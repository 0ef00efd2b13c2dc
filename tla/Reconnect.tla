----------------------------- MODULE Reconnect ------------------------------
(***************************************************************************)
(* Retry and Version Negotiation at a connection runner                    *)
(* (connrunner/reconnect.c with conn/cid/retrydrive and version/vndrive),  *)
(* as operators on the record of the runner's reconnect fields.            *)
(*                                                                         *)
(* Abstractions.  A connection ID is a number, 0 the one the attempt       *)
(* started with; the Initial keys are the ID they were derived from.  A    *)
(* Retry carries the ID its tag was computed over, so its tag is valid     *)
(* against the current ID or not.  The token travels with the ID, and fits *)
(* the runner's buffer or not.                                             *)
(***************************************************************************)
EXTENDS Integers, Sequences

CONSTANTS
  Cids,        \* connection IDs
  Versions     \* versions a Version Negotiation may list

V1 == 1
V2 == 2
Supported == <<V2, V1>>
MaxVnRetry == 1          \* QUIC_VNDRIVE_MAX_RETRY

\* sent_version is the owner's to write; quic_connrunner_init leaves it as the
\* memory was.
Recon == [dcid : Cids, initial_key : Cids, received : BOOLEAN,
          key_rederive : BOOLEAN, retry_dcid : Cids,
          sent_version : Versions, vn_retry_count : 0 .. MaxVnRetry]

ReconInit(cid, version) ==
  [dcid |-> cid, initial_key |-> cid, received |-> FALSE,
   key_rederive |-> FALSE, retry_dcid |-> cid,
   sent_version |-> version, vn_retry_count |-> 0]

\* Mutant: a second Retry is accepted.
RetryOk_Again(rc, complete, over) == ~complete /\ over = rc.dcid

RetryOk(rc, complete, over) == ~complete /\ ~rc.received /\ over = rc.dcid

\* Nothing is taken of a Retry whose token does not fit, and the next may be.
RetryApply(rc, scid, fits) ==
  IF fits THEN [rc EXCEPT !.received = TRUE, !.key_rederive = TRUE, !.retry_dcid = scid] ELSE rc

RecvRetry(rc, complete, over, scid, fits) ==
  IF RetryOk(rc, complete, over) THEN RetryApply(rc, scid, fits) ELSE rc

\* The new Initial keys and the new ID are adopted together.
RetryRederive(rc) ==
  IF rc.key_rederive
  THEN [rc EXCEPT !.initial_key = rc.retry_dcid, !.dcid = rc.retry_dcid,
                  !.key_rederive = FALSE]
  ELSE rc

VnOk(rc, complete, offered) == ~complete /\ rc.sent_version \notin offered

\* The most preferred supported version that is offered, or 0.
VnSelect(offered) ==
  LET common == {i \in 1 .. Len(Supported) : Supported[i] \in offered}
  IN  IF common = {} THEN 0
      ELSE Supported[CHOOSE i \in common : \A j \in common : i <= j]

\* The chosen version itself is not kept (drive_vn drops it).
RecvVn(rc, complete, offered) ==
  IF /\ VnOk(rc, complete, offered)
     /\ VnSelect(offered) # 0
     /\ rc.vn_retry_count < MaxVnRetry
  THEN [rc EXCEPT !.vn_retry_count = @ + 1]
  ELSE rc
=============================================================================
