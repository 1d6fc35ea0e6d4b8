------------------------------ MODULE Metering ------------------------------
(***************************************************************************)
(* What the rest of the platform may rely on about usage metrics: an hour  *)
(* gets its total once, the total never changes, and billing is told of an *)
(* hour at most once, after it has its total.  Metrics is the detailed     *)
(* specification; Billing is written against this one.                     *)
(***************************************************************************)
EXTENDS Integers

CONSTANT Hours

VARIABLES
    hourEntry,  \* WorkLogEntry of each hour: none, done or failed
    hourRows,   \* value of the HourAggregate rows of each hour
    charges     \* ChargeOneHour messages that were sent

meteringVars == <<hourEntry, hourRows, charges>>

MeteringInit ==
    /\ hourEntry = [h \in Hours |-> "none"]
    /\ hourRows = [h \in Hours |-> 0]
    /\ charges = {}

(* AggregateHourTask stores the total and marks the entry in one            *)
(* transaction.                                                             *)
HourStored(h, total) ==
    /\ hourEntry[h] = "none"
    /\ hourEntry' = [hourEntry EXCEPT ![h] = "done"]
    /\ hourRows' = [hourRows EXCEPT ![h] = total]
    /\ UNCHANGED charges

(* The task failed, before it stored the total or after that. *)
HourFailed(h) ==
    /\ hourEntry[h] \in {"none", "done"}
    /\ h \notin charges
    /\ hourEntry' = [hourEntry EXCEPT ![h] = "failed"]
    /\ UNCHANGED <<hourRows, charges>>

(* interval_aggregated reaches billing. *)
HourAnnounced(h) ==
    /\ hourEntry[h] = "done"
    /\ h \notin charges
    /\ charges' = charges \cup {h}
    /\ UNCHANGED <<hourEntry, hourRows>>

MeteringNext ==
    \E h \in Hours :
        \/ HourStored(h, hourRows'[h])
        \/ HourFailed(h)
        \/ HourAnnounced(h)

MeteringSpec == MeteringInit /\ [][MeteringNext]_meteringVars
=============================================================================
