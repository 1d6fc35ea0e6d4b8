------------------------------- MODULE Billing -------------------------------
(***************************************************************************)
(* Billing of one admin (apps/billing): metered hours become transactions, *)
(* transactions become items of invoices, invoices are dispatched and      *)
(* charged through Stripe, plan fees are charged with the subscriptions of *)
(* module Subscriptions, and Stripe reports back with events.              *)
(*                                                                         *)
(* One metered hour stands for each day, all usage has the overage price   *)
(* 1, and the items of an invoice are kept per source.  Celery drops a     *)
(* task when its worker dies; TaskLockMixin drops one whose lock is held.  *)
(***************************************************************************)
EXTENDS Metering, Subscriptions, Sequences, FiniteSetsExt

CONSTANTS
    Sources,      \* billable metrics sources
    Included,     \* quantity of a source that an offer includes, -1 for no limit
    ChunkSize,    \* transactions that one AggregateTransactions handles
    MaxRetries,   \* max_retries of a celery task
    Timeout,      \* BILLING_DEFAULT_PLAN_TIMEOUT
    MaxTime, MaxUse, MaxChanges, MaxInvoices, MaxFaults   \* bounds

ASSUME BillingAssumption ==
    /\ Hours \subseteq Nat /\ IsFiniteSet(Sources)
    /\ Included \in [Offers \cup {Builder} -> Int]
    /\ ChunkSize \in Nat \ {0} /\ MaxRetries \in Nat /\ Timeout \in Nat
    /\ MaxTime \in Nat /\ MaxUse \in Nat /\ MaxChanges \in Nat /\ MaxInvoices \in Nat
    /\ MaxFaults \in Nat
    /\ Forever > FirstOf(Month(MaxTime + Grace) + 1)

Ids == 1..MaxInvoices
Months == 0..Month(MaxTime)

VARIABLES
    now,        \* the day
    subs,       \* subscription rows
    ran,        \* hours whose ChargeOneHour has run
    txs,        \* Transaction rows, one per hour and source
    wanted,     \* an AggregateTransactions message is queued
    agg,        \* the run of AggregateTransactions
    invoices,   \* Invoice rows with their items, by id
    tasks,      \* CreateInvoiceCharge messages
    retrying,   \* retry_payment requests between Stripe's answer and the save
    events,     \* Stripe events to be delivered
    overtaken,  \* history: invoices whose payment another step has overtaken
    changes, faults

usageVars == <<ran, txs, wanted, agg>>
chargeVars == <<tasks, retrying, events, overtaken>>
billingVars == <<now, subs, meteringVars, usageVars, invoices, chargeVars, changes, faults>>

Usages == Hours \X Sources
Stopped == [on |-> FALSE, todo |-> {}, cache |-> {}]

BillingInit ==
    /\ MeteringInit
    /\ now = 0
    /\ subs = SignedUp(0, Timeout)
    /\ ran = {}
    /\ txs = [u \in Usages |-> "none"]
    /\ wanted = FALSE
    /\ agg = Stopped
    /\ invoices = <<>>
    /\ tasks = {} /\ retrying = {} /\ events = {} /\ overtaken = {}
    /\ changes = 0 /\ faults = 0

Fault ==
    /\ faults < MaxFaults
    /\ faults' = faults + 1

Tick ==
    /\ now < MaxTime
    /\ now' = now + 1
    /\ UNCHANGED <<subs, meteringVars, usageVars, invoices, chargeVars, changes, faults>>

(* The metrics of a past hour, as Metering promises them. *)
Meter ==
    /\ \E h \in Hours :
        \/ h < now /\ \E total \in 1..MaxUse : HourStored(h, total)
        \/ h < now /\ HourFailed(h) /\ faults < MaxFaults
        \/ HourAnnounced(h)
    /\ faults' = faults + Cardinality({h \in Hours : hourEntry[h] # "failed" /\ hourEntry'[h] = "failed"})
    /\ UNCHANGED <<now, subs, usageVars, invoices, chargeVars, changes>>

-----------------------------------------------------------------------------
(* Transactions *)

(* The transactions are committed before AggregateTransactions is sent. *)
ChargeOneHour(h) ==
    /\ h \in charges \ ran
    /\ ran' = ran \cup {h}
    /\ txs' = [u \in Usages |-> IF u[1] = h THEN "open" ELSE txs[u]]
    /\ \/ wanted' = TRUE /\ UNCHANGED faults
       \/ Fault /\ UNCHANGED wanted
    /\ UNCHANGED <<now, subs, meteringVars, agg, invoices, chargeVars, changes>>

FaultOpen == {u \in Usages : txs[u] # "none"}

Open == {u \in Usages : txs[u] = "open"}

(* AggregateTransactions reads a chunk.  It ends there when another run     *)
(* holds the lock or nothing is open.  (A run that left transactions behind *)
(* ends with an exception, so none is sent for the rest.)                   *)
StartAggregate ==
    /\ wanted
    /\ wanted' = FALSE
    /\ IF agg.on \/ Open = {} THEN UNCHANGED agg
       ELSE \E chunk \in SUBSET Open :
                /\ Cardinality(chunk) = Min({ChunkSize, Cardinality(Open)})
                /\ agg' = [on |-> TRUE, todo |-> chunk, cache |-> {}]
    /\ UNCHANGED <<now, subs, meteringVars, ran, txs, invoices, chargeVars, changes, faults>>

(* _get_plan_info. *)
PlanAt(t) ==
    LET active == ActiveAt(subs, t)
    IN  IF active = {} THEN Builder ELSE (CHOOSE s \in active : TRUE).offer

OfMonth(m) == {i \in DOMAIN invoices : invoices[i].month = m}

FreeUsage(m, s) == SumFunctionOnSet([i \in DOMAIN invoices |-> invoices[i].free[s]], OfMonth(m))

(* _get_current_free_usage and _calculate_quantities. *)
FreePart(used, quantity, limit) ==
    LET current == IF limit > 0 THEN used ELSE 0
    IN  IF limit < 0 THEN quantity ELSE Min({Max({limit - current, 0}), quantity})

Cached(m) == {entry \in agg.cache : entry.month = m}

(* _create_or_update_invoice: the run keeps one invoice per month, whatever *)
(* its status, and saves all columns of the copy it has.                    *)
InvoiceFor(m, status) ==
    LET found == {i \in OfMonth(m) : invoices[i].status = status}
    IN  IF Cached(m) # {} THEN CHOOSE entry \in Cached(m) : TRUE
        ELSE IF found # {} THEN LET i == CHOOSE i \in found : TRUE
                                IN  [month |-> m, id |-> i, status |-> status,
                                     overage |-> invoices[i].overage]
        ELSE [month |-> m, id |-> Len(invoices) + 1, status |-> status, overage |-> 0]

NewInvoice(kind, m, status) ==
    [kind |-> kind, month |-> m, status |-> status, overage |-> 0,
     free |-> [s \in Sources |-> 0], paid |-> [s \in Sources |-> 0], taken |-> 0]

(* _create_or_update_invoice_items. *)
Itemed(row, s, free, paid) == [row EXCEPT !.free[s] = @ + free, !.paid[s] = @ + paid]

Quantity(group) == SumFunctionOnSet([u \in Usages |-> hourRows[u[1]]], group)

(* Stripe was asked for its payment and has taken it or will be answered. *)
Paying(i) ==
    i \in DOMAIN invoices /\ (invoices[i].taken > 0 \/ \E r \in retrying : r.id = i)

Overtaking(i, condition) == overtaken' = IF condition THEN overtaken \cup {i} ELSE overtaken

(* One group: the transactions of a month and a source.  The plan is that   *)
(* of the group's first transaction; invoice, items and transactions are    *)
(* written in one database transaction.  More than one active subscription  *)
(* or matching invoice raises.                                              *)
AggregateGroup(m, s) ==
    LET group == {u \in agg.todo : Month(u[1]) = m /\ u[2] = s}
    IN  /\ agg.on
        /\ group # {}
        /\ \E first \in group :
            LET offer == PlanAt(first[1])
                status == IF IsPaid(offer) THEN "new" ELSE "fake"
                quantity == Quantity(group)
                free == FreePart(FreeUsage(m, s), quantity, Included[offer])
                copy == InvoiceFor(m, status)
                saved == [copy EXCEPT !.overage = @ + (quantity - free)]
                row == IF copy.id \in DOMAIN invoices THEN invoices[copy.id]
                       ELSE NewInvoice("usage", m, status)
            IN  /\ Cardinality(ActiveAt(subs, first[1])) <= 1
                /\ Cached(m) = {} => Cardinality({i \in OfMonth(m) : invoices[i].status = status}) <= 1
                /\ copy.id \in Ids
                /\ invoices' = [i \in DOMAIN invoices \cup {copy.id} |->
                        IF i = copy.id
                        THEN Itemed([row EXCEPT !.status = saved.status, !.overage = saved.overage],
                                    s, free, quantity - free)
                        ELSE invoices[i]]
                /\ agg' = [agg EXCEPT !.todo = @ \ group,
                                      !.cache = {e \in @ : e.month # m} \cup {saved}]
                /\ Overtaking(copy.id, Paying(copy.id))
        /\ txs' = [u \in Usages |-> IF u \in group THEN "aggregated" ELSE txs[u]]
        /\ UNCHANGED <<now, subs, meteringVars, ran, wanted, tasks, retrying, events, changes, faults>>

(* The loop ends, an exception ends it, or the worker dies. *)
StopAggregate ==
    /\ agg.on
    /\ \/ agg.todo = {} /\ UNCHANGED faults
       \/ /\ \E u \in agg.todo :
                \/ Cardinality(ActiveAt(subs, u[1])) > 1
                \/ \E status \in {"new", "fake"} :
                    Cardinality({i \in OfMonth(Month(u[1])) : invoices[i].status = status}) > 1
          /\ UNCHANGED faults
       \/ agg.todo # {} /\ Fault
    /\ agg' = Stopped
    /\ UNCHANGED <<now, subs, meteringVars, ran, txs, wanted, invoices, chargeVars, changes>>

-----------------------------------------------------------------------------
(* Dispatching and charging *)

Task(i, force) == [id |-> i, force |-> force, tries |-> 0]

(* InvoiceDispatcher: the statuses are committed before the tasks are sent. *)
DispatchInvoices ==
    LET chunk == {i \in DOMAIN invoices : invoices[i].status = "new" /\ invoices[i].month < Month(now)}
    IN  /\ chunk # {}
        /\ invoices' = [i \in DOMAIN invoices |->
                            IF i \in chunk THEN [invoices[i] EXCEPT !.status = "pending"] ELSE invoices[i]]
        /\ \/ tasks' = tasks \cup {Task(i, FALSE) : i \in chunk} /\ UNCHANGED faults
           \/ Fault /\ UNCHANGED tasks
        /\ UNCHANGED <<now, subs, meteringVars, usageVars, retrying, events, overtaken, changes>>

(* Invoice.is_ready: every hour of the month is aggregated and no           *)
(* transaction of it is open, but those of the last day are not looked at.  *)
IsReady(m) ==
    /\ \A h \in Hours : Month(h) = m => hourEntry[h] = "done"
    /\ \A u \in Open : Month(u[1]) = m => u[1] = FirstOf(m + 1) - 1

Amount(i) == invoices[i].overage + (IF invoices[i].kind = "fee" THEN 1 ELSE 0)

(* Payments that Stripe has taken for an invoice, with one more if it was paid. *)
Taken(i, paid) == invoices[i].taken + (IF paid THEN 1 ELSE 0)

(* Invoice.charge; an event follows an answer of Stripe. *)
Charged(i, outcome) ==
    /\ invoices' = [invoices EXCEPT
            ![i].status = IF Amount(i) = 0 THEN "empty"
                          ELSE IF outcome = "paid" THEN "scheduled" ELSE "failed",
            ![i].taken = Taken(i, Amount(i) # 0 /\ outcome = "paid")]
    /\ events' = IF Amount(i) = 0 THEN events ELSE events \cup {[id |-> i, type |-> outcome]}

(* self.retry, or on_failure after the last one. *)
Retried(task) ==
    IF task.tries < MaxRetries
    THEN /\ tasks' = (tasks \ {task}) \cup {[task EXCEPT !.tries = @ + 1]}
         /\ UNCHANGED invoices
    ELSE /\ tasks' = tasks \ {task}
         /\ invoices' = [invoices EXCEPT ![task.id].status = "scheduling_failed"]

(* An error after Stripe's answer rolls back what was saved of it, and the  *)
(* retry asks Stripe again.                                                 *)
AnswerLost(task, outcome) ==
    /\ Amount(task.id) # 0
    /\ IF task.tries < MaxRetries
       THEN tasks' = (tasks \ {task}) \cup {[task EXCEPT !.tries = @ + 1]}
       ELSE tasks' = tasks \ {task}
    /\ invoices' = [invoices EXCEPT
            ![task.id].status = IF task.tries < MaxRetries THEN @ ELSE "scheduling_failed",
            ![task.id].taken = Taken(task.id, outcome = "paid")]
    /\ events' = events \cup {[id |-> task.id, type |-> outcome]}
    /\ Overtaking(task.id, outcome = "paid")

(* CreateInvoiceCharge holds the invoice's row for its transaction: an      *)
(* event for it waits.                                                      *)
CreateInvoiceCharge(task) ==
    /\ task \in tasks
    /\ LET pending == invoices[task.id].status = "pending"
           ready == task.force \/ IsReady(invoices[task.id].month)
       IN  \/ ~pending /\ tasks' = tasks \ {task} /\ UNCHANGED <<invoices, events, overtaken, faults>>
           \/ pending /\ ~ready /\ Retried(task) /\ UNCHANGED <<events, overtaken, faults>>
           \/ \E outcome \in {"paid", "declined"} :
                /\ pending /\ ready
                /\ \/ Charged(task.id, outcome) /\ tasks' = tasks \ {task} /\ UNCHANGED <<overtaken, faults>>
                   \/ AnswerLost(task, outcome) /\ Fault
           \/ pending /\ ready /\ Fault /\ Retried(task) /\ UNCHANGED <<events, overtaken>>
    /\ UNCHANGED <<now, subs, meteringVars, usageVars, retrying, changes>>

(* retry_payment reads the row without a lock, asks Stripe and saves all    *)
(* columns at the end.                                                      *)
RetryPayment(i, outcome) ==
    /\ i \in DOMAIN invoices
    /\ invoices[i].status = "failed"
    /\ changes < MaxChanges /\ changes' = changes + 1
    /\ retrying' = retrying \cup {[request |-> changes, id |-> i, overage |-> invoices[i].overage,
                                   status |-> IF outcome = "paid" THEN "scheduled" ELSE "failed"]}
    /\ invoices' = [invoices EXCEPT ![i].taken = Taken(i, outcome = "paid")]
    /\ events' = events \cup {[id |-> i, type |-> outcome]}
    /\ Overtaking(i, \E r \in retrying : r.id = i)
    /\ UNCHANGED <<now, subs, meteringVars, usageVars, tasks, faults>>

SaveRetried(r) ==
    /\ r \in retrying
    /\ retrying' = retrying \ {r}
    /\ invoices' = [invoices EXCEPT ![r.id].status = r.status, ![r.id].overage = r.overage]
    /\ UNCHANGED <<now, subs, meteringVars, usageVars, tasks, events, overtaken, changes, faults>>

(* The signal of charge.succeeded or charge.failed, which Event.from_payload *)
(* sends when Stripe confirms the event.                                     *)
StatusOf(type) == IF type = "paid" THEN "succeeded" ELSE "failed"

(* process_charge: a success is never overwritten. *)
ProcessCharge(e) ==
    invoices' = [invoices EXCEPT ![e.id].status = IF @ = "succeeded" THEN @ ELSE StatusOf(e.type)]

(* EventViewSet.create, for an event that is not on record yet. *)
DeliverEvent(e) ==
    /\ e \in events
    /\ events' = events \ {e}
    /\ ProcessCharge(e)
    /\ Overtaking(e.id, e.type = "declined" /\ invoices[e.id].status = "scheduled")
    /\ UNCHANGED <<now, subs, meteringVars, usageVars, tasks, retrying, changes, faults>>

-----------------------------------------------------------------------------
(* Plans *)

(* subscribe.  A declined card undoes all of it.  The event of a plan that  *)
(* starts at once may come before the commit and finds no invoice.          *)
Subscribe(offer) ==
    LET active == ActiveAt(subs, now)
        paid == {s \in active : IsPaid(s.offer)}
    IN  /\ changes < MaxChanges /\ changes' = changes + 1
        /\ Cardinality(active) <= 1
        /\ IF paid # {}
           THEN /\ subs' = ChangedPlan(subs, CHOOSE s \in paid : TRUE, offer, now)
                /\ UNCHANGED <<invoices, events>>
           ELSE /\ Len(invoices) < MaxInvoices
                /\ subs' = StartedPlan(subs, active, offer, now)
                /\ invoices' = Append(invoices, [NewInvoice("fee", Month(now), "scheduled") EXCEPT !.taken = 1])
                /\ events' \in {events, events \cup {[id |-> Len(invoices) + 1, type |-> "paid"]}}
        /\ UNCHANGED <<now, meteringVars, usageVars, tasks, retrying, overtaken, faults>>

CancelPlan(row) ==
    /\ row \in subs
    /\ now < row.end
    /\ IsPaid(row.offer)
    /\ changes < MaxChanges /\ changes' = changes + 1
    /\ subs' = Cancelled(subs, row, now)
    /\ UNCHANGED <<now, meteringVars, usageVars, invoices, chargeVars, faults>>

(* PlanFeeDispatcher: invoices and rows are committed, then the tasks sent. *)
DispatchPlanFees ==
    LET due == FeeDue(subs, now)
        ids == Len(invoices) + 1 .. Len(invoices) + Cardinality(due)
    IN  /\ due # {}
        /\ ids \subseteq Ids
        /\ invoices' = [i \in DOMAIN invoices \cup ids |->
                            IF i \in ids THEN NewInvoice("fee", Month(now), "pending") ELSE invoices[i]]
        /\ subs' = FeeCharged(subs, now)
        /\ \/ tasks' = tasks \cup {Task(i, TRUE) : i \in ids} /\ UNCHANGED faults
           \/ Fault /\ UNCHANGED tasks
        /\ UNCHANGED <<now, meteringVars, usageVars, retrying, events, overtaken, changes>>

BillingNext ==
    \/ Tick \/ Meter \/ StartAggregate \/ StopAggregate
    \/ DispatchInvoices \/ DispatchPlanFees
    \/ \E h \in Hours : ChargeOneHour(h)
    \/ \E m \in Months, s \in Sources : AggregateGroup(m, s)
    \/ \E task \in tasks : CreateInvoiceCharge(task)
    \/ \E i \in Ids, outcome \in {"paid", "declined"} : RetryPayment(i, outcome)
    \/ \E r \in retrying : SaveRetried(r)
    \/ \E e \in events : DeliverEvent(e)
    \/ \E offer \in Offers : Subscribe(offer)
    \/ \E row \in subs : CancelPlan(row)

BillingSpec == BillingInit /\ [][BillingNext]_billingVars

-----------------------------------------------------------------------------
(* What the invoices of a month list of a source is exactly the usage that *)
(* was aggregated: nothing is invoiced twice or dropped, whatever the      *)
(* aggregation, plan changes and charges do in between.                    *)
Listed(s) == [i \in DOMAIN invoices |-> invoices[i].free[s] + invoices[i].paid[s]]

Aggregated(m, s) == {u \in Usages : u[2] = s /\ Month(u[1]) = m /\ txs[u] = "aggregated"}

UsageOnInvoices ==
    \A m \in Months, s \in Sources :
        SumFunctionOnSet(Listed(s), OfMonth(m)) = Quantity(Aggregated(m, s))

(* The amount charged is that of the paid items, although it is kept by    *)
(* saves of copies: a run of AggregateTransactions and a payment retry may *)
(* each save a copy the other has outrun (overtaken).                      *)
OverageIsPaidItems ==
    \A i \in DOMAIN invoices \ overtaken :
        invoices[i].overage = SumFunctionOnSet(invoices[i].paid, Sources)

(* Nobody pays an invoice twice, unless its payment was overtaken: by a run *)
(* that saves the invoice as new again, by a report of an earlier failure,  *)
(* by a second retry, or by an error after Stripe has answered.             *)
ChargedOnce == \A i \in DOMAIN invoices \ overtaken : invoices[i].taken <= 1

(* Nobody pays a plan fee twice for a month, unless a plan was changed in  *)
(* the last hour of a month (see the README).                              *)
OneFeePerMonth ==
    (\A s \in subs : s.graced = "no") =>
        \A m \in Months : Cardinality({i \in OfMonth(m) : invoices[i].kind = "fee"}) <= 1

(* A pending invoice has a task that will charge it or give it up: only a   *)
(* worker that dies between a commit and the tasks it is to send leaves one *)
(* pending for ever.                                                        *)
PendingHasTask ==
    faults = 0 =>
        \A i \in DOMAIN invoices :
            invoices[i].status = "pending" => \E task \in tasks : task.id = i

(* The invoices of a month are in order: all of its usage is on them once,  *)
(* their amounts are those of their items, each is paid once and a pending  *)
(* one will be charged.                                                     *)
InvoicesAddUp == UsageOnInvoices /\ OverageIsPaidItems /\ ChargedOnce /\ PendingHasTask
=============================================================================
