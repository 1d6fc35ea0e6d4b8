--------------------------- MODULE SocketLifecycle ---------------------------
(***************************************************************************)
(* Sockets and socket environments of one instance and the background      *)
(* tasks that move them along: ObjectProcessorBaseTask under TaskLockMixin *)
(* (apps/core/tasks.py, apps/core/mixins), its three socket tasks          *)
(* (apps/sockets/tasks.py), the save signals that send them                *)
(* (apps/sockets/signal_handlers.py) and the API operations                *)
(* (apps/sockets/v2/views.py).                                             *)
(*                                                                         *)
(* An API request holds the row lock of its object (AtomicMixin), so its   *)
(* read, check and save are one step; the task it sends goes out after the *)
(* commit.  A task works on a copy it read without a lock.                 *)
(***************************************************************************)
EXTENDS Integers, FiniteSets

CONSTANTS
    Sockets, Envs,  \* rows (primary keys) of sockets and of socket environments
    Urls,           \* sockets with an install_url
    Workers,        \* celery worker slots
    None,
    MaxAttempts,    \* settings.SOCKETS_TASK_MAX_ATTEMPTS
    MaxRequests,    \* bound: API requests
    MaxFaults       \* bound: killed processes, tasks that raise and locks that
                    \* expire under a live task

Objects == Sockets \cup Envs

ASSUME LifecycleAssumption ==
    /\ Urls \subseteq Sockets /\ Sockets \cap Envs = {}
    /\ None \notin Objects \cup Workers
    /\ MaxAttempts \in Nat \ {0}
    /\ MaxRequests \in Nat /\ MaxFaults \in Nat

VARIABLES
    status,    \* the status column; "new" before the insert, "gone" once the
               \* row is soft-deleted
    older,     \* pairs of live objects, the first with the older updated_at
    part,      \* the last accepted content (zip or url) and config of each
               \* object: accepted, processed, refused or overwritten
    pending,   \* committed changes whose task is not sent yet, by task kind
    tasks,     \* task messages in the broker, by kind
    lock,      \* the redis lock of each kind
    attempt,   \* the redis attempt counter of each kind
    wpc, wkind, wobj, wtry,  \* each worker's place and locals
    wcopy,     \* whether a worker's copy of its object is still what was
               \* accepted last
    requests, crashes, expiries,  \* bounded events so far
    tries,     \* history: attempts made on each object at its status, counted
               \* up to MaxAttempts
    cause      \* history: why an object went to ERROR or PROMPT

rowVars == <<status, older, part>>
workerVars == <<wpc, wkind, wobj, wcopy, wtry>>
boundVars == <<requests, crashes, expiries>>
historyVars == <<tries, cause>>
vars == <<rowVars, pending, tasks, lock, attempt, workerVars, boundVars,
          historyVars>>

Kinds == {"processor", "checker", "environment"}
Statuses == {"new", "gone", "processing", "checking", "ok", "error", "prompt"}

\* model_class, expected_status and ok_status of the three tasks
Model(k) == IF k = "environment" THEN Envs ELSE Sockets
Expected(k) == IF k = "checker" THEN "checking" ELSE "processing"
OkStatus(k) == IF k = "processor" THEN "checking" ELSE "ok"

\* What task k brings up to date: the uploaded content or the config.
Part(k) == IF k = "checker" THEN "config" ELSE "content"
Parts == {"content", "config"}

\* self.query, and its first object in the order of updated_at
Matching(k) == {o \in Model(k) : status[o] = Expected(k)}
Oldest(k) == {o \in Matching(k) : \A x \in Matching(k) : <<x, o>> \notin older}

IsLive(o) == status[o] \notin {"new", "gone"}
IsLocked(o) == status[o] \in {"processing", "checking"}

\* post_save: the task that the new status calls for
Sender(o) == IF o \in Envs THEN "environment"
             ELSE IF status[o] = "checking" THEN "checker" ELSE "processor"

\* The places of a task inside its with block.
InLockPC == {"find", "process", "send_checker", "reset", "release"}

Init ==
    /\ status = [o \in Objects |-> "new"]
    /\ older = {}
    /\ part = [o \in Objects |-> [p \in Parts |-> "accepted"]]
    /\ pending = [k \in Kinds |-> 0] /\ tasks = [k \in Kinds |-> 0]
    /\ lock = [k \in Kinds |-> None] /\ attempt = [k \in Kinds |-> 0]
    /\ wpc = [w \in Workers |-> "idle"]
    /\ wkind = [w \in Workers |-> "processor"]
    /\ wobj = [w \in Workers |-> None]
    /\ wcopy = [w \in Workers |-> "current"] /\ wtry = [w \in Workers |-> 0]
    /\ requests = 0 /\ crashes = 0 /\ expiries = 0
    /\ tries = [o \in Objects |-> 0]
    /\ cause = [o \in Objects |-> "none"]

-----------------------------------------------------------------------------
(* The API: one committed request, then its task *)

Request == requests < MaxRequests /\ requests' = requests + 1

\* o left the order of updated_at, or came last with updated_at = now
Unstamped(o) == {pair \in older : o \notin {pair[1], pair[2]}}
Stamped(o) == Unstamped(o) \cup ({x \in Objects \ {o} : IsLive(x)} \X {o})

\* A committed request leaves o at status st with new values of the parts
\* ps; saving o has registered the task of st as a post-transaction operation.
Accept(o, st, ps, ord) ==
    /\ Request
    /\ status' = [status EXCEPT ![o] = st]
    /\ older' = ord
    /\ part' = [part EXCEPT ![o] = [p \in Parts |-> IF p \in ps THEN "accepted"
                                                             ELSE @[p]]]
    /\ wcopy' = [w \in Workers |-> IF wobj[w] = o /\ Part(wkind[w]) \in ps
                                   THEN "stale" ELSE wcopy[w]]
    /\ pending' = [pending EXCEPT ![Sender(o)'] = @ + 1]
    /\ tries' = [tries EXCEPT ![o] = 0]
    /\ cause' = [cause EXCEPT ![o] = "none"]
    /\ UNCHANGED <<tasks, lock, attempt, wpc, wkind, wobj, wtry, crashes,
                   expiries>>

\* perform_create of sockets and environments, and install
Create(o) ==
    /\ status[o] = "new"
    /\ Accept(o, "processing", Parts, Stamped(o))

\* The update route: Socket.update() saves status, status_info and zip_file
\* only, so updated_at keeps its old value.
UpdateFromUrl(s) ==
    /\ s \in Urls /\ IsLive(s) /\ ~IsLocked(s)
    /\ Accept(s, "processing", {"content"}, older)

\* Fault: perform_update does not ask is_locked.
FaultUpdateLocked(o, ps) ==
    /\ IsLive(o)
    /\ Accept(o, "processing", ps, Stamped(o))

\* perform_update with a new zip file, perhaps with a new config: the pre_save
\* handlers set PROCESSING.
UpdateZip(o, ps) ==
    /\ IsLive(o) /\ ~IsLocked(o)
    /\ Accept(o, "processing", ps, Stamped(o))

\* perform_update with a new config only: the pre_save handler sets CHECKING.
UpdateConfig(s) ==
    /\ s \in Sockets /\ IsLive(s) /\ ~IsLocked(s)
    /\ Accept(s, "checking", {"config"}, Stamped(s))

\* perform_update of a locked socket sends its task again and refuses.
RefuseLocked(s) ==
    /\ s \in Sockets /\ IsLocked(s)
    /\ Request
    /\ tasks' = [tasks EXCEPT ![Sender(s)] = @ + 1]
    /\ UNCHANGED <<rowVars, pending, lock, attempt, workerVars, crashes,
                   expiries, historyVars>>

\* perform_destroy; check_environment deletes an environment with its last
\* socket, whatever its status.
Destroy(o) ==
    /\ IsLive(o)
    /\ o \in Sockets => ~IsLocked(o)
    /\ Request
    /\ status' = [status EXCEPT ![o] = "gone"]
    /\ older' = Unstamped(o)
    /\ cause' = [cause EXCEPT ![o] = "none"]
    /\ UNCHANGED <<part, pending, tasks, lock, attempt, workerVars,
                   crashes, expiries, tries>>

\* The post-transaction operation: Task.delay(instance_pk)
SendTask(k) ==
    /\ pending[k] > 0
    /\ pending' = [pending EXCEPT ![k] = @ - 1]
    /\ tasks' = [tasks EXCEPT ![k] = @ + 1]
    /\ UNCHANGED <<rowVars, lock, attempt, workerVars, boundVars, historyVars>>

-----------------------------------------------------------------------------
(* TaskLockMixin.__call__ and ObjectProcessorBaseTask.run *)

WorkerAt(w, pc) == wpc[w] = pc
WorkerGoes(w, pc) ==
    /\ wpc' = [wpc EXCEPT ![w] = pc]
    /\ UNCHANGED <<wkind, wobj, wcopy, wtry>>
WorkerReturns(w) ==
    /\ wpc' = [wpc EXCEPT ![w] = "idle"]
    /\ wkind' = [wkind EXCEPT ![w] = "processor"]
    /\ wobj' = [wobj EXCEPT ![w] = None]
    /\ wcopy' = [wcopy EXCEPT ![w] = "current"]
    /\ wtry' = [wtry EXCEPT ![w] = 0]

\* The task message is taken; without the lock it ends with "Already locked."
TakeLock(w, k) ==
    /\ WorkerAt(w, "idle") /\ tasks[k] > 0
    /\ tasks' = [tasks EXCEPT ![k] = @ - 1]
    /\ \/ /\ lock[k] = None
          /\ lock' = [lock EXCEPT ![k] = w]
          /\ wpc' = [wpc EXCEPT ![w] = "find"]
          /\ wkind' = [wkind EXCEPT ![w] = k]
          /\ UNCHANGED <<wobj, wcopy, wtry>>
       \/ /\ lock[k] # None
          /\ UNCHANGED <<lock, workerVars>>
    /\ UNCHANGED <<rowVars, pending, attempt, boundVars, historyVars>>

\* The oldest matching object is read and an attempt is counted.
Find(w) ==
    LET k == wkind[w] IN
    /\ WorkerAt(w, "find")
    /\ \/ /\ Matching(k) = {}
          /\ WorkerGoes(w, "release")
          /\ UNCHANGED <<attempt, tries>>
       \/ /\ \E o \in Oldest(k) :
             /\ wobj' = [wobj EXCEPT ![w] = o]
             /\ wcopy' = [wcopy EXCEPT ![w] = "current"]
             /\ tries' = [tries EXCEPT ![o] = IF @ < MaxAttempts THEN @ + 1 ELSE @]
          /\ attempt' = [attempt EXCEPT ![k] = @ + 1]
          /\ wtry' = [wtry EXCEPT ![w] = attempt[k] + 1]
          /\ wpc' = [wpc EXCEPT ![w] = "process"]
          /\ UNCHANGED wkind
    /\ UNCHANGED <<rowVars, pending, tasks, lock, boundVars, cause>>

\* The task's save of its object: an UPDATE by primary key of the fields it
\* changed.  A row soft-deleted meanwhile stays deleted.
SaveRow(w, st, why) ==
    LET o == wobj[w] IN
    /\ status' = [status EXCEPT ![o] = IF @ = "gone" THEN @ ELSE st]
    /\ cause' = [cause EXCEPT ![o] = IF status[o] = "gone" THEN @ ELSE why]

\* process_object and save_object succeed: versions, status and updated_at are
\* committed, and the checker is sent after the commit of the processor.
Succeed(w) ==
    LET k == wkind[w]  o == wobj[w] IN
    /\ WorkerAt(w, "process")
    /\ SaveRow(w, OkStatus(k), "none")
    /\ older' = IF status[o] = "gone" THEN older ELSE Stamped(o)
    /\ part' = [part EXCEPT ![o][Part(k)] =
                     IF wcopy[w] = "current" THEN "processed" ELSE "overwritten"]
    /\ tries' = [tries EXCEPT ![o] = 0]
    /\ WorkerGoes(w, IF k = "processor" THEN "send_checker" ELSE "reset")
    /\ UNCHANGED <<pending, tasks, lock, attempt, boundVars>>

SendChecker(w) ==
    /\ WorkerAt(w, "send_checker")
    /\ tasks' = [tasks EXCEPT !["checker"] = @ + 1]
    /\ WorkerGoes(w, "reset")
    /\ UNCHANGED <<rowVars, pending, lock, attempt, boundVars, historyVars>>

\* handle_exception: an ObjectProcessingError carries its own status.
Fail(w) ==
    /\ WorkerAt(w, "process")
    /\ \/ SaveRow(w, "error", "invalid")
       \/ wkind[w] = "checker" /\ SaveRow(w, "prompt", "invalid")
       \/ wtry[w] >= MaxAttempts /\ SaveRow(w, "error", "attempts")
    /\ part' = [part EXCEPT ![wobj[w]][Part(wkind[w])] =
                     IF wcopy[w] = "current" THEN "refused" ELSE @]
    /\ WorkerGoes(w, "reset")
    /\ UNCHANGED <<older, pending, tasks, lock, attempt,
                   boundVars, tries>>

\* Fault: the attempt key is deleted before a retry, too.
FaultRetryResets(w) ==
    /\ WorkerAt(w, "process") /\ wtry[w] < MaxAttempts
    /\ WorkerGoes(w, "reset")
    /\ UNCHANGED <<rowVars, pending, tasks, lock, attempt, boundVars,
                   historyVars>>

\* An unexpected exception before the last attempt: run() returns.
Retry(w) ==
    /\ WorkerAt(w, "process") /\ wtry[w] < MaxAttempts
    /\ WorkerGoes(w, "release")
    /\ UNCHANGED <<rowVars, pending, tasks, lock, attempt, boundVars,
                   historyVars>>

\* redis.delete(attempt_key)
ResetAttempts(w) ==
    /\ WorkerAt(w, "reset")
    /\ attempt' = [attempt EXCEPT ![wkind[w]] = 0]
    /\ WorkerGoes(w, "release")
    /\ UNCHANGED <<rowVars, pending, tasks, lock, boundVars, historyVars>>

\* The end of the with block: releasing a lock that has expired raises
\* LockError, which is taken for "Already locked."
ReleaseLock(w) ==
    LET k == wkind[w] IN
    /\ WorkerAt(w, "release")
    /\ \/ /\ lock[k] = w
          /\ lock' = [lock EXCEPT ![k] = None]
          /\ WorkerGoes(w, "after")
       \/ /\ lock[k] # w
          /\ WorkerReturns(w)
          /\ UNCHANGED lock
    /\ UNCHANGED <<rowVars, pending, tasks, attempt, boundVars, historyVars>>

\* Fault: nothing is looked at after the release.
FaultNoSecondLook(w) ==
    /\ WorkerAt(w, "after")
    /\ WorkerReturns(w)
    /\ UNCHANGED <<rowVars, pending, tasks, lock, attempt, boundVars,
                   historyVars>>

\* after_lock_released: send the task again while something matches.
AfterRelease(w) ==
    LET k == wkind[w] IN
    /\ WorkerAt(w, "after")
    /\ \/ /\ Matching(k) # {}
          /\ tasks' = [tasks EXCEPT ![k] = @ + 1]
       \/ /\ Matching(k) = {}
          /\ UNCHANGED tasks
    /\ WorkerReturns(w)
    /\ UNCHANGED <<rowVars, pending, lock, attempt, boundVars, historyVars>>

-----------------------------------------------------------------------------
(* Killed processes, exceptions and expiring keys *)

Faults == crashes + expiries

\* The API process dies after the commit and before the task is sent.
CrashApi(k) ==
    /\ pending[k] > 0 /\ Faults < MaxFaults
    /\ crashes' = crashes + 1
    /\ pending' = [pending EXCEPT ![k] = @ - 1]
    /\ UNCHANGED <<rowVars, tasks, lock, attempt, workerVars, requests,
                   expiries, historyVars>>

\* The worker dies: its message was acknowledged when it was taken, its lock
\* stays until it expires.
CrashWorker(w) ==
    /\ ~WorkerAt(w, "idle") /\ Faults < MaxFaults
    /\ crashes' = crashes + 1
    /\ WorkerReturns(w)
    /\ UNCHANGED <<rowVars, pending, tasks, lock, attempt, requests,
                   expiries, historyVars>>

\* A query, redis call or save outside the reach of run()'s handlers raises (the
\* save of handle_exception does so for a row purged meanwhile): the with block
\* releases the lock, the exception skips after_lock_released.
Raise(w) ==
    /\ wpc[w] \in {"find", "process", "reset"} /\ Faults < MaxFaults
    /\ crashes' = crashes + 1
    /\ lock' = [k \in Kinds |-> IF k = wkind[w] /\ lock[k] = w THEN None
                                                              ELSE lock[k]]
    /\ WorkerReturns(w)
    /\ UNCHANGED <<rowVars, pending, tasks, attempt, requests, expiries,
                   historyVars>>

\* lock_expire after it was taken, by a worker that is gone or still at it.
OwnerGone(k) == \A w \in Workers : lock[k] = w =>
                    wkind[w] # k \/ wpc[w] \in {"idle", "after"}
ExpireLock(k) ==
    /\ lock[k] # None
    /\ \/ OwnerGone(k) /\ UNCHANGED expiries
       \/ /\ ~OwnerGone(k) /\ Faults < MaxFaults
          /\ expiries' = expiries + 1
    /\ lock' = [lock EXCEPT ![k] = None]
    /\ UNCHANGED <<rowVars, pending, tasks, attempt, workerVars, requests,
                   crashes, historyVars>>

-----------------------------------------------------------------------------
ApiStep ==
    \/ \E o \in Objects : Create(o) \/ Destroy(o)
    \/ \E o \in Objects : UpdateZip(o, {"content"})
    \/ \E s \in Sockets : UpdateZip(s, Parts)
    \/ \E s \in Sockets : UpdateFromUrl(s) \/ UpdateConfig(s) \/ RefuseLocked(s)

WorkerStep(w) ==
    \/ \E k \in Kinds : TakeLock(w, k)
    \/ Find(w) \/ Succeed(w) \/ SendChecker(w) \/ Fail(w) \/ Retry(w)
    \/ ResetAttempts(w) \/ ReleaseLock(w) \/ AfterRelease(w)

Next ==
    \/ ApiStep
    \/ \E k \in Kinds : SendTask(k) \/ CrashApi(k) \/ ExpireLock(k)
    \/ \E w \in Workers : WorkerStep(w) \/ CrashWorker(w) \/ Raise(w)

\* Celery keeps delivering messages and running started tasks, and the API
\* process goes on to its post-transaction operations.
Fairness ==
    /\ \A k \in Kinds : WF_vars(SendTask(k))
    /\ \A w \in Workers : WF_vars(WorkerStep(w))

Spec == Init /\ [][Next]_vars
FairSpec == Spec /\ Fairness

-----------------------------------------------------------------------------
(* Properties *)

RowTypeOK ==
    /\ status \in [Objects -> Statuses]
    /\ older \subseteq Objects \X Objects
    /\ part \in [Objects -> [Parts -> {"accepted", "processed", "refused",
                                        "overwritten"}]]

QueueTypeOK ==
    /\ pending \in [Kinds -> Nat] /\ tasks \in [Kinds -> Nat]
    /\ lock \in [Kinds -> Workers \cup {None}] /\ attempt \in [Kinds -> Nat]

WorkerTypeOK ==
    /\ wpc \in [Workers -> InLockPC \cup {"idle", "after"}]
    /\ wkind \in [Workers -> Kinds]
    /\ wobj \in [Workers -> Objects \cup {None}]
    /\ wcopy \in [Workers -> {"current", "stale"}]
    /\ wtry \in [Workers -> Nat]
    /\ \A w \in Workers : wpc[w] = "process" => wobj[w] \in Objects

HistoryTypeOK ==
    /\ requests \in Nat /\ crashes \in Nat /\ expiries \in Nat
    /\ tries \in [Objects -> Nat]
    /\ cause \in [Objects -> {"none", "invalid", "attempts"}]

\* Every variable has its type, and a task that processes has an object.
TypeOK == RowTypeOK /\ QueueTypeOK /\ WorkerTypeOK /\ HistoryTypeOK

\* No process was killed, no task raised, no lock expired under a live task.
Undisturbed == crashes = 0 /\ expiries = 0

\* Somebody will look for objects of kind k again.
TaskOnItsWay(k) ==
    \/ pending[k] > 0 \/ tasks[k] > 0
    \/ k = "checker" /\ \E w \in Workers : wpc[w] = "send_checker"
    \/ \E w \in Workers : wkind[w] = k /\ wpc[w] # "idle"

\* An object that waits for a task has one on its way: a message that ends
\* with "Already locked." loses nothing, because the holder of the lock looks
\* again after it has released it.
NoObjectStuck ==
    Undisturbed =>
        \A k \in Kinds : Matching(k) # {} => TaskOnItsWay(k)

\* An OK object has its last accepted config validated and its last accepted
\* content installed, or refused before a change of the config took it out of
\* ERROR, whatever processes are killed: is_locked keeps changes away from
\* the copy a task holds, as long as its lock does not expire.
OkIsUpToDate ==
    expiries = 0 => \A o \in Objects : status[o] = "ok" =>
        /\ part[o]["content"] \in {"processed", "refused"}
        /\ o \in Sockets => part[o]["config"] = "processed"

\* "Processing failed after max attempts" is only said of an object on which
\* max_attempts attempts were made.
AttemptsPerObject ==
    \A o \in Objects : cause[o] = "attempts" => tries[o] >= MaxAttempts

\* Every accepted change ends: the object leaves PROCESSING and CHECKING
\* unless a process is killed, a task raises or a lock expires.
EveryChangeSettles ==
    \A o \in Objects :
        IsLocked(o) /\ Undisturbed ~> ~IsLocked(o) \/ ~Undisturbed
=============================================================================
