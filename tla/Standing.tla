------------------------------ MODULE Standing ------------------------------
(***************************************************************************)
(* Whether an account is served: spending limits, their marks, the cached  *)
(* billing status, and the limits of a plan (apps/billing).                *)
(*                                                                         *)
(* CheckSoftLimits and CheckHardLimits list the accounts above a limit and *)
(* then mark them, while a profile may be saved.  A mark is the month it   *)
(* was set in.  Amounts are in steps of one unit.                          *)
(***************************************************************************)
EXTENDS Integers

CONSTANTS
    Amounts,        \* values of limits and of the overage
    Months,         \* 1..n
    PlanStorage,    \* BILLING_STORAGE_LIMITS of the builder plan
    OwnStorage      \* the limit set for this account, -1 for none

ASSUME StandingAssumption ==
    /\ Amounts \subseteq Nat /\ 0 \in Amounts
    /\ Months \subseteq Nat \ {0} /\ 1 \in Months
    /\ PlanStorage \in Nat /\ OwnStorage \in Nat \cup {-1}

VARIABLES
    month,          \* Invoice.current_period
    overage,        \* overage_amount of this month's invoice
    plan,           \* of the active subscription: "builder", "paid" or "none"
    overdue,        \* an invoice that failed is past its due date
    profile,        \* limits and marks of the Profile row
    checks,         \* by limit: the month for which a run has listed the account, 0 for none
    overtaken,      \* history: the limit was changed between listing and marking
    status,         \* the cached billing status, "-" for none
    stored          \* the STORAGE_SIZE indicator

standingVars == <<month, overage, plan, overdue, profile, checks, overtaken, status, stored>>

Limits == {"soft", "hard"}

StandingInit ==
    /\ month = 1 /\ overage = 0
    /\ plan = "builder"
    /\ overdue = "no"
    /\ profile = [limit |-> [l \in Limits |-> 0], mark |-> [l \in Limits |-> 0]]
    /\ checks = [l \in Limits |-> 0]
    /\ overtaken = [l \in Limits |-> "no"]
    /\ status = "-"
    /\ stored = 0

Exceeds(value) == overage > value

-----------------------------------------------------------------------------
(* Profile *)

FaultNewMark(l, value) ==
    IF value = profile.limit[l] THEN profile.mark[l] ELSE IF Exceeds(value) THEN month ELSE profile.mark[l]

(* _validate_limit: a limit that is changed is marked or cleared at once. *)
NewMark(l, value) ==
    IF value = profile.limit[l] THEN profile.mark[l] ELSE IF Exceeds(value) THEN month ELSE 0

(* ProfileViewSet.update, with the row locked.  clean wants an adjustable   *)
(* plan for any change, and the soft limit below the hard one.              *)
SaveProfile(soft, hard) ==
    LET limit == [l \in Limits |-> IF l = "soft" THEN soft ELSE hard]
        mark == [l \in Limits |-> NewMark(l, limit[l])]
    IN  /\ limit # profile.limit
        /\ plan = "paid"
        /\ soft <= hard
        /\ profile' = [limit |-> limit, mark |-> mark]
        /\ overtaken' = [l \in Limits |-> IF checks[l] # 0 /\ limit[l] # profile.limit[l] THEN "yes" ELSE overtaken[l]]
        /\ status' = IF mark = profile.mark THEN status ELSE "-"
        /\ UNCHANGED <<month, overage, plan, overdue, checks, stored>>

(* build_query *)
Above(l) == profile.mark[l] < month /\ Exceeds(profile.limit[l])

ListAbove(l) ==
    /\ checks[l] = 0
    /\ Above(l)
    /\ checks' = [checks EXCEPT ![l] = month]
    /\ overtaken' = [overtaken EXCEPT ![l] = "no"]
    /\ UNCHANGED <<month, overage, plan, overdue, profile, status, stored>>

(* The update goes around save() and leaves the cached status alone. *)
MarkListed(l) ==
    /\ checks[l] # 0
    /\ profile' = [profile EXCEPT !.mark[l] = checks[l]]
    /\ checks' = [checks EXCEPT ![l] = 0]
    /\ UNCHANGED <<month, overage, plan, overdue, overtaken, status, stored>>

-----------------------------------------------------------------------------
(* Status *)

(* _get_billing_status *)
BillingStatus ==
    IF plan = "none" THEN "no_active_subscription"
    ELSE IF profile.mark["hard"] >= month
    THEN IF plan = "builder" THEN "free_limits_exceeded" ELSE "hard_limit_reached"
    ELSE IF overdue = "yes" THEN "overdue_invoices" ELSE "ok"

(* get_billing_status on every request; its key has the month in it. *)
CheckStanding ==
    /\ status = "-"
    /\ status' = BillingStatus
    /\ UNCHANGED <<month, overage, plan, overdue, profile, checks, overtaken, stored>>

Aggregate ==
    /\ overage + 1 \in Amounts
    /\ overage' = overage + 1
    /\ UNCHANGED <<month, plan, overdue, profile, checks, overtaken, status, stored>>

NewMonth ==
    /\ month + 1 \in Months
    /\ month' = month + 1
    /\ overage' = 0
    /\ status' = "-"
    /\ UNCHANGED <<plan, overdue, profile, checks, overtaken, stored>>

(* Subscribing invalidates the cached subscription; the status stays. *)
ChangePlan(p) ==
    /\ p # plan
    /\ plan' = p
    /\ UNCHANGED <<month, overage, overdue, profile, checks, overtaken, status, stored>>

(* process_charge invalidates the status. *)
Payment(result) ==
    /\ overdue' = result
    /\ status' = "-"
    /\ UNCHANGED <<month, overage, plan, profile, checks, overtaken, stored>>

-----------------------------------------------------------------------------
(* Limits of the plan *)

(* AdminLimit.get_for_plan: the account's own, the plan's, 0 without one. *)
StorageLimit ==
    IF OwnStorage >= 0 THEN OwnStorage
    ELSE IF plan = "none" THEN 0 ELSE IF plan = "builder" THEN PlanStorage ELSE -1

(* indicator_post_save_handler, under the lock of the indicator's row. *)
Store(n) ==
    /\ n # stored
    /\ n > stored /\ StorageLimit >= 0 => n <= StorageLimit
    /\ stored' = n
    /\ UNCHANGED <<month, overage, plan, overdue, profile, checks, overtaken, status>>

StandingNext ==
    \/ Aggregate \/ NewMonth \/ CheckStanding
    \/ \E l \in Limits : ListAbove(l) \/ MarkListed(l)
    \/ \E soft, hard \in Amounts : SaveProfile(soft, hard)
    \/ \E p \in {"builder", "paid", "none"} : ChangePlan(p)
    \/ \E result \in {"yes", "no"} : Payment(result)
    \/ \E n \in Amounts : Store(n)

StandingSpec == StandingInit /\ [][StandingNext]_standingVars

-----------------------------------------------------------------------------
(* A mark of this month means that the amount is above the limit as it is   *)
(* set now, unless the limit was changed between a check's two steps.       *)
BlockedForAReason ==
    \A l \in Limits : profile.mark[l] = month /\ overtaken[l] = "no" => Exceeds(profile.limit[l])
=============================================================================
