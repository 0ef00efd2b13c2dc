------------------------------ MODULE AmpBudget -----------------------------
(***************************************************************************)
(* What anti-amplification promises (docs/security.md: "a server does not  *)
(* send more than the allowed multiple of received bytes before address    *)
(* validation"): byte counters that only grow, a validation flag that only *)
(* rises, and, until it is raised, no step that sends and ends above       *)
(* Factor times the bytes received.                                        *)
(***************************************************************************)
EXTENDS Naturals

CONSTANT Factor
VARIABLES received, sent, validated

Within == sent <= Factor * received

Init == received = 0 /\ sent = 0 /\ validated = FALSE

\* One iteration may take in several packets and send several.
Transfer ==
  /\ received' \in Nat /\ received' >= received
  /\ sent' \in Nat /\ sent' >= sent
  /\ sent' = sent \/ validated \/ Within'
  /\ UNCHANGED validated

Validated == validated' = TRUE /\ UNCHANGED <<received, sent>>

Next == Transfer \/ Validated

vars == <<received, sent, validated>>
Spec == Init /\ [][Next]_vars
=============================================================================
