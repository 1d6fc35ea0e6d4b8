---------------------------- MODULE ScheduledRuns ----------------------------
(***************************************************************************)
(* One schedule, the script runs it and the API start, and their traces    *)
(* (apps/codeboxes/tasks.py, apps/codeboxes/models.py,                     *)
(* apps/redis_storage/models.py).                                          *)
(*                                                                         *)
(* SchedulerTask looks for a due schedule and takes a redis key for its    *)
(* due time before it sends a ScheduleTask; the schedule gets its next     *)
(* time only when the trace of the run has been saved.  What is between    *)
(* the two may be lost, and the key expires.  Due times are numbered in    *)
(* the order in which they are computed.                                   *)
(***************************************************************************)
EXTENDS Integers, FiniteSets, FiniteSetsExt

CONSTANTS
    MaxRuns,    \* bound: runs, numbered as they are started
    MaxTimes,   \* bound: due times computed
    MaxLost,    \* bound: messages and runs that are lost or doubled
    MaxTries,   \* stop_max_attempt_number of RedisModel._update
    ListMax     \* list_max_size

ASSUME RunsAssumption ==
    MaxRuns \in Nat /\ MaxTimes \in Nat /\ MaxLost \in Nat
        /\ MaxTries \in Nat \ {0} /\ ListMax \in Nat \ {0}

Runs == 1..MaxRuns
Times == 0..MaxTimes

VARIABLES
    row,        \* the schedule: whether it exists, and scheduled_next
    passed,     \* due times that are in the past
    fresh,      \* the last due time computed
    keys,       \* redis keys of the due times dispatched
    seen,       \* SchedulerTask: the due time it has read, at most one
    api,        \* an API update: its next step and the due time it has read
    used,       \* runs started so far
    run,        \* each run: kind, due time, place, update and save messages
    status,     \* the status of the trace a script run was started with
    nexts,      \* ScheduleNextTask messages
    seq,        \* the sequence of trace ids of schedules
    held,       \* ids taken for traces that are not saved yet
    listed,     \* ids in the sorted set of the schedule's traces
    trimmed,    \* history: ids removed from it
    lost,       \* bounded events so far
    sent,       \* history: runs sent for each due time
    expired,    \* history: expiries of each due time's key
    skipped,    \* history: past due times replaced before a run was sent
    edited      \* history: whether the API has updated the schedule

scheduleVars == <<row, passed, fresh>>
dispatchVars == <<keys, seen>>
traceVars == <<seq, held, listed, trimmed>>
runHistory == <<sent, expired, skipped, edited>>
runVars == <<scheduleVars, dispatchVars, api, used, run, status, nexts,
             traceVars, lost, runHistory>>

Unused == [kind |-> "unused", at |-> 0, place |-> "none", update |-> "none",
           tries |-> 0, results |-> 0]

\* Of a trace: success, failure and the rest are final; a key may expire.
Statuses == {"none", "pending", "processing", "final", "gone"}

RunsInit ==
    /\ row = [exists |-> "yes", next |-> 0] /\ passed = {} /\ fresh = 0
    /\ keys = {} /\ seen = {} /\ api = [pc |-> "idle", copy |-> 0]
    /\ used = 0 /\ run = [r \in Runs |-> Unused]
    /\ status = [r \in Runs |-> "none"]
    /\ nexts = 0 /\ seq = 0 /\ held = {} /\ listed = {} /\ trimmed = {}
    /\ lost = 0
    /\ sent = [t \in Times |-> 0] /\ expired = [t \in Times |-> 0]
    /\ skipped = {} /\ edited = "no"

\* get_for_process
IsDue == row.exists = "yes" /\ row.next \in passed

\* schedule_next of an existing row
ScheduleNext ==
    /\ fresh < MaxTimes
    /\ fresh' = fresh + 1
    /\ row' = [row EXCEPT !.next = fresh + 1]

\* run r becomes a run of this kind
StartRun(kind, t) ==
    /\ used < MaxRuns
    /\ used' = used + 1
    /\ run' = [run EXCEPT ![used + 1] =
                   [Unused EXCEPT !.kind = kind, !.at = t, !.place = "sent"]]

Lose == lost < MaxLost /\ lost' = lost + 1

-----------------------------------------------------------------------------
(* The scheduler *)

TimePasses ==
    /\ row.next \notin passed
    /\ passed' = passed \cup {row.next}
    /\ UNCHANGED <<row, fresh, dispatchVars, api, used, run, status, nexts,
                   traceVars, lost, runHistory>>

\* SchedulerTask reads the due schedules.
ReadDue ==
    /\ seen = {} /\ IsDue
    /\ seen' = {row.next}
    /\ UNCHANGED <<scheduleVars, keys, api, used, run, status, nexts, traceVars,
                   lost, runHistory>>

\* Fault: the key of the due time is not looked at.
FaultDispatchAgain(t) ==
    /\ seen = {t}
    /\ StartRun("schedule", t)
    /\ keys' = keys \cup {t}
    /\ sent' = [sent EXCEPT ![t] = @ + 1]
    /\ seen' = {}
    /\ UNCHANGED <<scheduleVars, api, status, nexts, traceVars, lost,
                   expired, skipped, edited>>

\* set(key, nx=True, ex=SCHEDULE_TRACE_TIMEOUT), then ScheduleTask.delay
Dispatch(t) ==
    /\ seen = {t}
    /\ \/ /\ t \in keys
          /\ UNCHANGED <<keys, used, run, sent>>
       \/ /\ t \notin keys
          /\ StartRun("schedule", t)
          /\ keys' = keys \cup {t}
          /\ sent' = [sent EXCEPT ![t] = @ + 1]
    /\ seen' = {}
    /\ UNCHANGED <<scheduleVars, api, status, nexts, traceVars, lost,
                   expired, skipped, edited>>

\* The key's six minutes are over.
ExpireKey(t) ==
    /\ t \in keys /\ expired[t] = 0
    /\ keys' = keys \ {t}
    /\ expired' = [expired EXCEPT ![t] = 1]
    /\ UNCHANGED <<scheduleVars, seen, api, used, run, status, nexts, traceVars,
                   lost, sent, skipped, edited>>

-----------------------------------------------------------------------------
(* The API *)

\* CodeBoxViewSet.run: the trace is created pending, the task is sent.
RunScript ==
    /\ StartRun("script", 0)
    /\ status' = [status EXCEPT ![used + 1] = "pending"]
    /\ UNCHANGED <<scheduleVars, dispatchVars, api, nexts, traceVars, lost,
                   runHistory>>

\* ScheduleViewSet.perform_update: the row is read without a lock, ...
ReadForUpdate ==
    /\ api.pc = "idle" /\ edited = "no" /\ row.exists = "yes"
    /\ api' = [pc |-> "save", copy |-> row.next]
    /\ edited' = "yes"
    /\ UNCHANGED <<scheduleVars, dispatchVars, used, run, status, nexts,
                   traceVars, lost, sent, expired, skipped>>

\* ... saved with every field as it was read (an UPDATE, or an INSERT if the row
\* was deleted meanwhile), ...
SaveUpdate ==
    /\ api.pc = "save"
    /\ row' = [exists |-> "yes", next |-> api.copy]
    /\ api' = [api EXCEPT !.pc = "next"]
    /\ UNCHANGED <<passed, fresh, dispatchVars, used, run, status, nexts,
                   traceVars, lost, runHistory>>

\* ... and given its next time, which raises if the row is deleted.
ScheduleUpdated ==
    /\ api.pc = "next"
    /\ \/ row.exists = "yes" /\ ScheduleNext
       \/ row.exists = "no" /\ UNCHANGED <<row, fresh>>
    /\ api' = [api EXCEPT !.pc = "idle"]
    /\ UNCHANGED <<passed, dispatchVars, used, run, status, nexts, traceVars,
                   lost, runHistory>>

DeleteSchedule ==
    /\ row.exists = "yes"
    /\ row' = [row EXCEPT !.exists = "no"]
    /\ UNCHANGED <<passed, fresh, dispatchVars, api, used, run, status, nexts,
                   traceVars, lost, runHistory>>

-----------------------------------------------------------------------------
(* The run: what the script queue or the broker makes of it *)

Moves(r, from, to) == run[r].place = from /\ run' = [run EXCEPT ![r].place = to]

RunRest == <<scheduleVars, dispatchVars, api, used, status, nexts, traceVars,
             runHistory>>

\* process: the schedule or the script is gone.
DropRun(r) ==
    /\ run[r].kind = "schedule" /\ row.exists = "no"
    /\ Moves(r, "sent", "over")
    /\ UNCHANGED <<RunRest, lost>>

\* block_run: owner, legacy format, environment or queue limit
BlockRun(r) ==
    /\ run[r].place = "sent"
    /\ run' = [run EXCEPT ![r].place = "over", ![r].results = @ + 1]
    /\ UNCHANGED <<RunRest, lost>>

\* The spec is pushed to the list of the instance.
Enqueue(r) == Moves(r, "sent", "queued") /\ UNCHANGED <<RunRest, lost>>

\* process_grpc: SimpleRun is repeated when the answer fails, though the broker
\* may have run the script; it saves the trace of each.
RunByBroker(r) ==
    /\ run[r].place = "sent"
    /\ \/ /\ run' = [run EXCEPT ![r].place = "over", ![r].results = @ + 1]
          /\ UNCHANGED lost
       \/ /\ run' = [run EXCEPT ![r].place = "over", ![r].results = @ + 2]
          /\ Lose
    /\ UNCHANGED RunRest

\* CodeBoxRunner.run: the trace, if there is one, is marked by UpdateTraceTask.
BeginRun(r) ==
    /\ run[r].place = "queued"
    /\ run' = [run EXCEPT ![r].place = "running",
                          ![r].update = IF run[r].kind = "script" THEN "sent"
                                        ELSE "none"]
    /\ UNCHANGED <<RunRest, lost>>

FinishRun(r) ==
    /\ run[r].place = "running"
    /\ run' = [run EXCEPT ![r].place = "over", ![r].results = @ + 1]
    /\ UNCHANGED <<RunRest, lost>>

\* A killed worker, an expired spec, an exception of the runner or of the last
\* try of SimpleRun
LoseRun(r) ==
    /\ run[r].place \in {"sent", "queued", "running"}
    /\ run' = [run EXCEPT ![r].place = "over"]
    /\ Lose
    /\ UNCHANGED RunRest

-----------------------------------------------------------------------------
(* UpdateTraceTask: RedisModel._update with an expected status *)

UpdateRest == <<scheduleVars, dispatchVars, api, used, nexts, traceVars, lost,
                runHistory>>

WatchTrace(r) ==
    /\ run[r].update = "sent"
    /\ run' = [run EXCEPT ![r].update = IF status[r] = "pending" THEN "watched"
                                        ELSE "none"]
    /\ UNCHANGED <<UpdateRest, status>>

\* EXEC, or WatchError when the trace has changed since WATCH
ExecUpdate(r) ==
    /\ \/ /\ run[r].update = "watched"
          /\ status' = [status EXCEPT ![r] = "processing"]
          /\ run' = [run EXCEPT ![r].update = "none"]
       \/ /\ run[r].update = "changed"
          /\ run' = [run EXCEPT
                ![r].update = IF run[r].tries + 1 < MaxTries THEN "sent" ELSE "none",
                ![r].tries = @ + 1]
          /\ UNCHANGED status
    /\ UNCHANGED UpdateRest

\* What a write to the trace of r makes of a pending EXEC
TraceTouched(r) == IF run[r].update = "watched" THEN "changed" ELSE run[r].update

\* The trace's time to live is over, or it was trimmed from its list before.
ExpireTrace(r) ==
    /\ status[r] \in {"pending", "processing", "final"}
    /\ status' = [status EXCEPT ![r] = "gone"]
    /\ run' = [run EXCEPT ![r].update = TraceTouched(r)]
    /\ UNCHANGED UpdateRest

-----------------------------------------------------------------------------
(* SaveTraceTask and ScheduleNextTask *)

\* The trace exists; if it is gone, get() raises.
SaveScriptTrace(r) ==
    /\ run[r].kind = "script" /\ run[r].results > 0
    /\ status' = [status EXCEPT ![r] = IF @ = "gone" THEN @ ELSE "final"]
    /\ run' = [run EXCEPT ![r].results = @ - 1, ![r].update = TraceTouched(r)]
    /\ UNCHANGED UpdateRest

\* The trace of a schedule is new: it takes an id, ...
NextTraceId(r) ==
    /\ run[r].kind = "schedule" /\ run[r].results > 0
    /\ run' = [run EXCEPT ![r].results = @ - 1]
    /\ seq' = seq + 1
    /\ held' = held \cup {seq + 1}
    /\ UNCHANGED <<scheduleVars, dispatchVars, api, used, status, nexts, listed,
                   trimmed, lost, runHistory>>

\* zremrangebyrank(list_key, 0, -(list_max_size + 1)): all but the last ids
Trim(ids) == {i \in ids : Cardinality({j \in ids : j > i}) >= ListMax}

\* zadd of id i and the trimming, in one MULTI
ListTrace(i) ==
    /\ i \in held
    /\ held' = held \ {i}
    /\ LET cut == IF i > ListMax THEN Trim(listed \cup {i}) ELSE {}
       IN  /\ listed' = (listed \cup {i}) \ cut
           /\ trimmed' = trimmed \cup cut
    /\ UNCHANGED <<scheduleVars, dispatchVars, api, used, run, status, seq, lost,
                   runHistory>>

\* Fault: nobody sends it.
FaultNoNext(i) == ListTrace(i) /\ UNCHANGED nexts

\* ... is saved and listed, the list trimmed; ScheduleNextTask is sent.
SaveScheduleTrace(i) == ListTrace(i) /\ nexts' = nexts + 1

\* ScheduleNextTask, which holds the row lock
RunScheduleNext ==
    /\ nexts > 0
    /\ nexts' = nexts - 1
    /\ \/ /\ row.exists = "yes"
          /\ ScheduleNext
          /\ skipped' = IF row.next \in passed /\ sent[row.next] = 0
                        THEN skipped \cup {row.next} ELSE skipped
       \/ /\ row.exists = "no"
          /\ UNCHANGED <<row, fresh, skipped>>
    /\ UNCHANGED <<passed, dispatchVars, api, used, run, status, traceVars, lost,
                   sent, expired, edited>>

\* A worker is killed on the way from the result to the next time.
LoseResult ==
    /\ Lose
    /\ \/ /\ \E r \in Runs : /\ run[r].results > 0
                             /\ run' = [run EXCEPT ![r].results = @ - 1]
          /\ UNCHANGED <<held, nexts>>
       \/ /\ \E i \in held : held' = held \ {i}
          /\ UNCHANGED <<run, nexts>>
       \/ /\ nexts > 0
          /\ nexts' = nexts - 1
          /\ UNCHANGED <<run, held>>
    /\ UNCHANGED <<scheduleVars, dispatchVars, api, used, status, seq, listed,
                   trimmed, runHistory>>

-----------------------------------------------------------------------------
ApiStep == SaveUpdate \/ ScheduleUpdated

\* One step of the tasks that carry run r
RunStep(r) ==
    \/ DropRun(r) \/ BlockRun(r) \/ Enqueue(r) \/ RunByBroker(r)
    \/ BeginRun(r) \/ FinishRun(r)

TraceStep(r) ==
    WatchTrace(r) \/ ExecUpdate(r) \/ SaveScriptTrace(r) \/ NextTraceId(r)

RunsNext ==
    \/ TimePasses \/ ReadDue \/ (\E t \in Times : Dispatch(t) \/ ExpireKey(t))
    \/ RunScript \/ ReadForUpdate \/ ApiStep \/ DeleteSchedule
    \/ \E r \in Runs : \/ RunStep(r) \/ LoseRun(r)
                       \/ TraceStep(r) \/ ExpireTrace(r)
    \/ (\E i \in held : SaveScheduleTrace(i)) \/ RunScheduleNext \/ LoseResult

\* The beat starts SchedulerTask every 20 seconds, celery runs what it is sent,
\* redis drops expired keys, and an API request goes on.
Fairness ==
    /\ WF_runVars(ReadDue) /\ WF_runVars(ApiStep) /\ WF_runVars(RunScheduleNext)
    /\ \A t \in Times : WF_runVars(Dispatch(t)) /\ WF_runVars(ExpireKey(t))
    /\ \A r \in Runs : WF_runVars(RunStep(r)) /\ WF_runVars(TraceStep(r))
    /\ WF_runVars(\E i \in held : SaveScheduleTrace(i))

RunsSpec == RunsInit /\ [][RunsNext]_runVars
FairRunsSpec == RunsSpec /\ Fairness

-----------------------------------------------------------------------------
(* Properties *)

RunTypeOK ==
    \A r \in Runs :
        /\ run[r].kind \in {"unused", "schedule", "script"}
        /\ run[r].kind = "unused" <=> r > used
        /\ run[r].at \in Times
        /\ run[r].place \in {"none", "sent", "queued", "running", "over"}
        /\ run[r].update \in {"none", "sent", "watched", "changed"}
        /\ run[r].tries \in 0..MaxTries /\ run[r].results \in 0..2
        /\ status[r] \in Statuses
        /\ status[r] # "none" <=> run[r].kind = "script"

\* Every variable has its type; ids and due times were given out before they
\* are used.
RunsTypeOK ==
    /\ row.next \in 0..fresh /\ passed \subseteq 0..fresh /\ fresh \in Times
    /\ keys \subseteq passed /\ seen \subseteq passed /\ Cardinality(seen) <= 1
    /\ RunTypeOK /\ used \in 0..MaxRuns /\ nexts \in Nat
    /\ held \cup listed \cup trimmed \subseteq 1..seq

\* A due time is dispatched once, and once more for each time its key expired:
\* however SchedulerTasks, API updates that write an old time back and reruns
\* interleave.
OneRunPerTime == \A t \in Times : sent[t] <= 1 + expired[t]

\* The final status of a trace is never overwritten by a late UpdateTraceTask.
FinalStays ==
    [][\A r \in Runs : status[r] = "final" => status'[r] \in {"final", "gone"}]_runVars

\* Trimming keeps the newest traces: what it removed is older than anything
\* still listed, but for ids so small that their save does not trim.
NewestKept ==
    \A i \in listed, j \in trimmed : i > ListMax => j < i

\* No due time is passed over: unless a key expired, an answer was lost or the
\* schedule edited, only a due time that was dispatched is replaced.
NoTimeSkipped ==
    lost = 0 /\ edited = "no" /\ (\A t \in Times : expired[t] = 0)
        => skipped = {}

\* A due time is dispatched once per key, none is passed over, and of its traces
\* the newest stay.
DispatchIsSound == OneRunPerTime /\ NoTimeSkipped /\ NewestKept

\* A bound stops the next dispatch or due time.
Exhausted == fresh = MaxTimes \/ (used = MaxRuns /\ seen # {} /\ seen \cap keys = {})

\* A due schedule gets its next time, even if a run of it is lost: its key
\* expires and it is dispatched again.
DueIsServed == IsDue ~> ~IsDue \/ Exhausted

\* A due schedule goes on, and what a run has come to is not undone meanwhile.
RunsEndAndStay == DueIsServed /\ FinalStays
=============================================================================
