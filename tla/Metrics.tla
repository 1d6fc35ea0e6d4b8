------------------------------- MODULE Metrics -------------------------------
(***************************************************************************)
(* Usage metrics (apps/metrics): requests and finished scripts increment a *)
(* redis hash per minute; a runner, started by the beat, gives every past  *)
(* minute a WorkLogEntry and sends a task that moves its hash into         *)
(* MinuteAggregate rows.  The task of the last minute of an hour starts,   *)
(* after a delay, the runner that gives hours whose minutes are all        *)
(* aggregated an entry and a task of their own; that one feeds the day     *)
(* rows and billing.                                                       *)
(*                                                                         *)
(* Minute m is the time between m and m + 1, hour h the minutes            *)
(* h * PerHour .. h * PerHour + PerHour - 1.  One (admin, instance,        *)
(* source) key stands for all of them: every step handles the keys of a    *)
(* hash alike.  Tasks run in any order and are acknowledged before they    *)
(* run, so a worker that dies loses its task.                              *)
(***************************************************************************)
EXTENDS Integers, FiniteSets, FiniteSetsExt

CONSTANTS
    PerHour,     \* minutes in an hour
    HourDelay,   \* METRICS_AGGREGATION_DELAY of hours, in minutes
    MaxHour,     \* bound: hours are 0..MaxHour
    MaxUses,     \* bound: increments
    MaxMetricsFaults \* bound: failed statements, dead workers

ASSUME MetricsAssumption ==
    /\ PerHour \in Nat \ {0}
    /\ HourDelay \in Nat /\ MaxHour \in Nat /\ MaxUses \in Nat /\ MaxMetricsFaults \in Nat

MinuteDelay == 1    \* METRICS_AGGREGATION_DELAY of minutes

HoursOfDay == 0..MaxHour
Minutes == 0..((MaxHour + 1) * PerHour - 1)
HourOf(m) == m \div PerHour
MinutesOf(h) == {m \in Minutes : HourOf(m) = h}
LastTime == (MaxHour + 1) * PerHour + HourDelay + MinuteDelay

VARIABLES
    clock,       \* the clock, in whole minutes
    coming,      \* increments that have the name of their hash and not yet the hincrby
    counters,    \* redis hash of each minute
    minuteEntry, \* WorkLogEntry of each minute
    minuteTask,  \* place of the AggregateMinuteTask of each minute
    scanned,     \* what that task has read
    minuteRows,  \* value of the MinuteAggregate rows
    runner,      \* the run of AggregateHourRunnerTask: its cursor and until, or idle
    hourRuns,    \* due times of the AggregateHourRunnerTask messages
    hourWork,    \* WorkLogEntry of each hour
    hourTotals,  \* value of the HourAggregate rows
    chargesSent, \* ChargeOneHour messages sent
    hourTask,    \* place of the AggregateHourTask of each hour
    dayRows,     \* value of the DayAggregate rows (the hours are of one day)
    uses, metricsFaults,
    onTime       \* history: increments stored before their minute was a minute old

clientVars == <<coming, counters, uses, onTime>>
minuteVars == <<minuteEntry, minuteTask, scanned, minuteRows>>
hourVars == <<hourWork, hourTotals, chargesSent, hourTask, dayRows>>
metricsVars == <<clock, clientVars, minuteVars, runner, hourRuns, hourVars, metricsFaults>>

NoRunner == [on |-> "no", next |-> 0, until |-> 0]

MetricsInit ==
    /\ clock = 0
    /\ coming = [m \in Minutes |-> 0]
    /\ counters = [m \in Minutes |-> 0]
    /\ minuteEntry = [m \in Minutes |-> "none"]
    /\ minuteTask = [m \in Minutes |-> "none"]
    /\ scanned = [m \in Minutes |-> 0]
    /\ minuteRows = [m \in Minutes |-> 0]
    /\ runner = NoRunner
    /\ hourRuns = {}
    /\ hourWork = [h \in HoursOfDay |-> "none"]
    /\ hourTotals = [h \in HoursOfDay |-> 0]
    /\ chargesSent = {}
    /\ hourTask = [h \in HoursOfDay |-> "none"]
    /\ dayRows = 0
    /\ uses = 0
    /\ metricsFaults = 0
    /\ onTime = [m \in Minutes |-> 0]

NextMinute ==
    /\ clock < LastTime
    /\ clock' = clock + 1
    /\ UNCHANGED <<clientVars, minuteVars, runner, hourRuns, hourVars, metricsFaults>>

MetricsFault ==
    /\ metricsFaults < MaxMetricsFaults
    /\ metricsFaults' = metricsFaults + 1

-----------------------------------------------------------------------------
(* Increments *)

(* A request or a script that counts takes the name of the current hash.    *)
NameBucket ==
    /\ uses < MaxUses
    /\ clock \in Minutes
    /\ uses' = uses + 1
    /\ coming' = [coming EXCEPT ![clock] = @ + 1]
    /\ UNCHANGED <<clock, counters, onTime, minuteVars, runner, hourRuns, hourVars, metricsFaults>>

(* redis.hincrby. *)
Increment(m) ==
    /\ coming[m] > 0
    /\ coming' = [coming EXCEPT ![m] = @ - 1]
    /\ counters' = [counters EXCEPT ![m] = @ + 1]
    /\ onTime' = [onTime EXCEPT ![m] = IF clock <= m + MinuteDelay THEN @ + 1 ELSE @]
    /\ UNCHANGED <<clock, uses, minuteVars, runner, hourRuns, hourVars, metricsFaults>>

-----------------------------------------------------------------------------
(* Runners.  A cursor is a right boundary. *)

EntriesOf(step) ==
    IF step = "minute" THEN {m + 1 : m \in {k \in Minutes : minuteEntry[k] # "none"}}
    ELSE {(h + 1) * PerHour : h \in {k \in HoursOfDay : hourWork[k] # "none"}}

StepOf(step) == IF step = "minute" THEN 1 ELSE PerHour

Floor(time, step) == (time \div StepOf(step)) * StepOf(step)

GetUntil(step) == clock - (IF step = "minute" THEN MinuteDelay ELSE HourDelay)

(* The right boundary of the first interval to aggregate. *)
GetResume(step) ==
    LET own == EntriesOf(step)
        all == EntriesOf("minute") \cup EntriesOf("hour")
    IN  IF own # {} THEN Max(own) + StepOf(step)
        ELSE IF all # {} THEN Floor(Min(all) + StepOf(step), step)
        ELSE Floor(GetUntil(step), step)

FaultIsCovered(h) == \A m \in MinutesOf(h) : minuteEntry[m] # "none"

IsCovered(h) == \A m \in MinutesOf(h) : minuteEntry[m] = "done"

(* The beat sends the minute runner every minute.  Only the next run reads  *)
(* the entries it makes, so the loop is one step: every minute up to until  *)
(* gets its entry and its task, or the worker dies between the last entry   *)
(* it makes and its task.                                                   *)
RunMinuteRunner ==
    LET todo == {m \in Minutes : GetResume("minute") <= m + 1 /\ m + 1 <= GetUntil("minute")}
        queue(made) == minuteEntry' = [m \in Minutes |-> IF m \in made THEN "queued" ELSE minuteEntry[m]]
        send(made) == minuteTask' = [m \in Minutes |-> IF m \in made THEN "sent" ELSE minuteTask[m]]
    IN  /\ \/ todo # {} /\ queue(todo) /\ send(todo) /\ UNCHANGED metricsFaults
           \/ \E last \in todo :
                /\ queue({m \in todo : m <= last})
                /\ send({m \in todo : m < last})
                /\ MetricsFault
        /\ UNCHANGED <<clock, clientVars, scanned, minuteRows, runner, hourRuns, hourVars>>

(* The task lock: a second run of the same runner returns at once. *)
StartHourRunner ==
    \E due \in hourRuns :
        /\ due <= clock
        /\ hourRuns' = hourRuns \ {due}
        /\ runner' = IF runner.on = "yes" THEN runner
                     ELSE [on |-> "yes", next |-> GetResume("hour"), until |-> GetUntil("hour")]
        /\ UNCHANGED <<clock, clientVars, minuteVars, hourVars, metricsFaults>>

Advance == [runner EXCEPT !.next = @ + PerHour]

(* One turn of the loop: the entry is created and the task is sent, unless  *)
(* the worker dies between the two.                                         *)
QueueHour ==
    LET h == runner.next \div PerHour - 1
    IN  /\ runner.on = "yes"
        /\ runner.next <= runner.until
        /\ h \in HoursOfDay
        /\ IsCovered(h)
        /\ hourWork' = [hourWork EXCEPT ![h] = "queued"]
        /\ \/ /\ hourTask' = [hourTask EXCEPT ![h] = "sent"]
              /\ runner' = Advance
              /\ UNCHANGED metricsFaults
           \/ /\ MetricsFault
              /\ runner' = NoRunner
              /\ UNCHANGED hourTask
        /\ UNCHANGED <<clock, clientVars, minuteVars, hourRuns, hourTotals, chargesSent, dayRows>>

(* An hour that is not covered is passed over. *)
PassHour ==
    LET h == runner.next \div PerHour - 1
    IN  /\ runner.on = "yes"
        /\ runner.next <= runner.until
        /\ h \in HoursOfDay
        /\ ~IsCovered(h)
        /\ runner' = Advance
        /\ UNCHANGED <<clock, clientVars, minuteVars, hourRuns, hourVars, metricsFaults>>

(* The end of the loop; beyond the last hour modelled nothing is created. *)
FinishRunner ==
    /\ runner.on = "yes"
    /\ runner.next > runner.until \/ runner.next > (MaxHour + 1) * PerHour
    /\ runner' = NoRunner
    /\ UNCHANGED <<clock, clientVars, minuteVars, hourRuns, hourVars, metricsFaults>>

-----------------------------------------------------------------------------
(* AggregateMinuteTask *)

ScanBucket(m) ==
    /\ minuteTask[m] = "sent"
    /\ scanned' = [scanned EXCEPT ![m] = counters[m]]
    /\ minuteTask' = [minuteTask EXCEPT ![m] = "scanned"]
    /\ UNCHANGED <<clock, clientVars, minuteEntry, minuteRows, runner, hourRuns, hourVars, metricsFaults>>

(* The signal of a minute concerns only the one that ends an hour. *)
EndsHour(m) == (m + 1) % PerHour = 0

(* redis.delete, then the commit of the rows and of the entry's status.    *)
(* The hash is deleted first; nothing puts it back when the commit fails. *)
StoreMinute(m) ==
    /\ minuteTask[m] = "scanned"
    /\ counters' = [counters EXCEPT ![m] = 0]
    /\ minuteRows' = [minuteRows EXCEPT ![m] = scanned[m]]
    /\ minuteEntry' = [minuteEntry EXCEPT ![m] = "done"]
    /\ minuteTask' = [minuteTask EXCEPT ![m] = IF EndsHour(m) THEN "signal" ELSE "ended"]
    /\ scanned' = [scanned EXCEPT ![m] = 0]
    /\ UNCHANGED <<clock, coming, uses, onTime, runner, hourRuns, hourVars, metricsFaults>>

(* aggregate_hour_after_last_minute_aggregated. *)
SignalMinute(m) ==
    /\ minuteTask[m] = "signal"
    /\ minuteTask' = [minuteTask EXCEPT ![m] = "ended"]
    /\ hourRuns' = hourRuns \cup {clock + HourDelay}
    /\ UNCHANGED <<clock, clientVars, minuteEntry, scanned, minuteRows, runner, hourVars, metricsFaults>>

(* A statement fails and the handler marks the entry, or the worker dies;   *)
(* either way the task is over.  The rows of a task that had only its       *)
(* signal left stay.                                                        *)
LoseMinute(m) ==
    /\ minuteTask[m] \in {"sent", "scanned", "signal"}
    /\ MetricsFault
    /\ minuteTask' = [minuteTask EXCEPT ![m] = "ended"]
    /\ scanned' = [scanned EXCEPT ![m] = 0]
    /\ counters' \in {counters} \cup {[counters EXCEPT ![m] = 0] : t \in {minuteTask[m]} \cap {"scanned"}}
    /\ minuteEntry' \in {minuteEntry, [minuteEntry EXCEPT ![m] = "failed"]}
    /\ UNCHANGED <<clock, coming, uses, onTime, minuteRows, runner, hourRuns, hourVars>>

-----------------------------------------------------------------------------
(* AggregateHourTask *)

SumOf(rows) == MapThenSumSet(LAMBDA m : rows[m], DOMAIN rows)

SumOfMinutes(h) == SumOf([m \in MinutesOf(h) |-> minuteRows[m]])

StoreHour(h) ==
    /\ hourTask[h] = "sent"
    /\ hourTotals' = [hourTotals EXCEPT ![h] = SumOfMinutes(h)]
    /\ hourWork' = [hourWork EXCEPT ![h] = "done"]
    /\ hourTask' = [hourTask EXCEPT ![h] = "day"]
    /\ UNCHANGED <<clock, clientVars, minuteVars, runner, hourRuns, chargesSent, dayRows, metricsFaults>>

(* aggregate_day_after_hour_aggregated, under the lock of the day. *)
SignalDay(h) ==
    /\ hourTask[h] = "day"
    /\ dayRows' = dayRows + hourTotals[h]
    /\ hourTask' = [hourTask EXCEPT ![h] = "charge"]
    /\ UNCHANGED <<clock, clientVars, minuteVars, runner, hourRuns, hourWork, hourTotals, chargesSent,
                   metricsFaults>>

(* charge_after_metrics_process_interval. *)
SignalCharge(h) ==
    /\ hourTask[h] = "charge"
    /\ chargesSent' = chargesSent \cup {h}
    /\ hourTask' = [hourTask EXCEPT ![h] = "ended"]
    /\ UNCHANGED <<clock, clientVars, minuteVars, runner, hourRuns, hourWork, hourTotals, dayRows,
                   metricsFaults>>

FaultRedeliverHour(h) ==
    /\ hourTask[h] \in {"sent", "day", "charge"}
    /\ MetricsFault
    /\ hourTask' = [hourTask EXCEPT ![h] = "sent"]
    /\ hourWork' \in {hourWork, [hourWork EXCEPT ![h] = "failed"]}
    /\ UNCHANGED <<clock, clientVars, minuteVars, runner, hourRuns, hourTotals, chargesSent, dayRows>>

LoseHour(h) ==
    /\ hourTask[h] \in {"sent", "day", "charge"}
    /\ MetricsFault
    /\ hourTask' = [hourTask EXCEPT ![h] = "ended"]
    /\ hourWork' \in {hourWork, [hourWork EXCEPT ![h] = "failed"]}
    /\ UNCHANGED <<clock, clientVars, minuteVars, runner, hourRuns, hourTotals, chargesSent, dayRows>>

MetricsNext ==
    \/ NextMinute \/ NameBucket \/ RunMinuteRunner \/ StartHourRunner
    \/ QueueHour \/ PassHour \/ FinishRunner
    \/ \E m \in Minutes :
        Increment(m) \/ ScanBucket(m) \/ StoreMinute(m) \/ SignalMinute(m) \/ LoseMinute(m)
    \/ \E h \in HoursOfDay : StoreHour(h) \/ SignalDay(h) \/ SignalCharge(h) \/ LoseHour(h)

MetricsSpec == MetricsInit /\ [][MetricsNext]_metricsVars

-----------------------------------------------------------------------------
(* An aggregated minute has every increment that reached redis before the  *)
(* minute was one minute old: METRICS_AGGREGATION_DELAY leaves a slow      *)
(* request that long.                                                      *)
PunctualUseCounted ==
    \A m \in Minutes : minuteEntry[m] = "done" => minuteRows[m] >= onTime[m]

(* The total of an hour stays the sum of its minutes: no minute gets its   *)
(* rows after the hour was summed up, whatever order the tasks run in.     *)
HourIsItsMinutes ==
    \A h \in HoursOfDay : hourWork[h] = "done" => hourTotals[h] = SumOfMinutes(h)

(* A queued entry is not yet anything to the others. *)
Abstract == INSTANCE Metering
    WITH Hours <- HoursOfDay, hourRows <- hourTotals, charges <- chargesSent,
         hourEntry <- [h \in HoursOfDay |-> IF hourWork[h] = "queued" THEN "none" ELSE hourWork[h]]

(* Metrics implements Metering: an hour's total is stored once, never      *)
(* changes, and is announced to billing at most once, whichever of the     *)
(* runners and tasks fail.                                                 *)
ImplementsMetering == Abstract!MeteringSpec

(* What was used in time is in the total of its minute and of its hour. *)
UsageIsCounted == PunctualUseCounted /\ HourIsItsMinutes
=============================================================================
