---------------------------- MODULE Subscriptions ----------------------------
(***************************************************************************)
(* The subscription rows of one admin (apps/billing/models.py) and what a  *)
(* request or a task does to them (apps/billing/views.py,                  *)
(* apps/billing/tasks.py, apps/billing/signal_handlers.py).                *)
(*                                                                         *)
(* Time counts days; a row is active from start up to, not including, end. *)
(* An offer is a pricing plan with a commitment.                           *)
(***************************************************************************)
EXTENDS Integers, FiniteSets

CONSTANTS
    PerMonth,   \* days in a month
    Forever,    \* end of an open range
    Offers,     \* offers of paid plans
    Builder     \* the default plan, which is free

ASSUME SubscriptionsAssumption ==
    PerMonth \in Nat \ {0} /\ Forever \in Nat /\ Builder \notin Offers

Grace == 1      \* BILLING_GRACE_PERIOD_FOR_PLAN_CHANGING, one step of the clock

Month(t) == t \div PerMonth
FirstOf(m) == m * PerMonth

IsPaid(offer) == offer \in Offers

(* charged |-> -1 stands for NULL.  graced marks, for the properties, rows  *)
(* written by a plan change in the last hour of a month.                    *)
Row(id, offer, start, end, charged, graced) ==
    [id |-> id, offer |-> offer, start |-> start, end |-> end, charged |-> charged,
     graced |-> graced]

(* create_subscription_for_new_admin. *)
SignedUp(t, timeout) == {Row(1, Builder, t, t + timeout, -1, "no")}

ActiveAt(subs, t) == {s \in subs : s.start <= t /\ t < s.end}

FreshId(subs) == IF subs = {} THEN 1 ELSE 1 + CHOOSE n \in {s.id : s \in subs} :
                                                \A s \in subs : s.id <= n

InGrace(t) == IF Month(t + Grace) # Month(t) THEN "yes" ELSE "no"

(* A change from a paid plan starts with a billing cycle. *)
NextStart(t) == FirstOf(Month(t + Grace) + 1)

End(subs, row, t, graced) ==
    (subs \ {row}) \cup {[row EXCEPT !.end = t, !.graced = IF @ = "yes" THEN @ ELSE graced]}

(* subscribe, for an admin whose active row is that of a paid plan: what    *)
(* was to start then is replaced, and asking for the last row's offer       *)
(* again opens its range.                                                   *)
ChangedPlan(subs, row, offer, t) ==
    LET start == NextStart(t)
        kept == {s \in subs : s.start # start}
        last == CHOOSE s \in kept : \A r \in kept : r.id <= s.id
    IN  IF last.offer = offer
        THEN (kept \ {last}) \cup {[last EXCEPT !.end = Forever]}
        ELSE End(kept, row, start, InGrace(t))
                \cup {Row(FreshId(kept), offer, start, Forever, start, InGrace(t))}

FaultStartedPlan(subs, active, offer, t) ==
    {s \in subs : s \notin active}
        \cup {[s EXCEPT !.end = t] : s \in active}
        \cup {Row(FreshId(subs), offer, t, Forever, t, "no")}

(* subscribe, for an admin without a paid plan: it starts at once and its   *)
(* fee is charged up to the end of the month.                               *)
StartedPlan(subs, active, offer, t) ==
    {s \in subs : s \notin active}
        \cup {[s EXCEPT !.end = t] : s \in active}
        \cup {Row(FreshId(subs), offer, t, Forever, FirstOf(Month(t) + 1), "no")}

(* cancel: an open row ends with the coming period, one that is yet to      *)
(* start is deleted.                                                        *)
Cancelled(subs, row, t) ==
    IF row.end # Forever THEN subs
    ELSE IF row.start <= t + Grace THEN End(subs, row, NextStart(t), "no")
    ELSE subs \ {row}

(* PlanFeeDispatcher: paid rows that last to the end of the month and whose *)
(* fee for it is not charged yet.                                           *)
FeeDue(subs, t) ==
    LET until == FirstOf(Month(t) + 1)
    IN  {s \in subs : IsPaid(s.offer) /\ s.start <= t /\ until <= s.end
                        /\ s.charged # -1 /\ s.charged < until}

FeeCharged(subs, t) ==
    {IF s \in FeeDue(subs, t) THEN [s EXCEPT !.charged = FirstOf(Month(t) + 1)] ELSE s : s \in subs}
=============================================================================
