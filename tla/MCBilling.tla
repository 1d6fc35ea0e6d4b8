------------------------------ MODULE MCBilling ------------------------------
(***************************************************************************)
(* Instance of Billing and Metrics for TLC.  Billing is written against    *)
(* Metering, which Metrics implements: a behaviour is one of Billing or of *)
(* Metrics, and the other stays in its initial state.  Billing has one     *)
(* month of two days with metered usage, its dispatch in the next, two     *)
(* offers and two plan changes or payment retries.                         *)
(***************************************************************************)
EXTENDS Billing, Metrics, TLC

VARIABLE part

MCHours == 0..1
MCIncluded == [offer \in Offers \cup {Builder} |-> 1]
Symmetry == Permutations(Sources) \cup Permutations(Offers)

vars == <<billingVars, metricsVars, part>>

Init ==
    /\ part \in {"billing", "metrics"}
    /\ BillingInit /\ MetricsInit

(* A step of one part leaves the other alone. *)
Next ==
    /\ UNCHANGED part
    /\ \/ part = "billing" /\ BillingNext /\ UNCHANGED metricsVars
       \/ part = "metrics" /\ MetricsNext /\ UNCHANGED billingVars

Spec == Init /\ [][Next]_vars

(* The variables of the other part have one value each. *)
PartView == <<part, IF part = "billing" THEN billingVars ELSE metricsVars>>
=============================================================================
