---------------------------- MODULE CodeBoxQueue ----------------------------
(***************************************************************************)
(* The script queue of one instance (apps/codeboxes/tasks.py).             *)
(*                                                                         *)
(* Incentive tasks (BaseIncentiveTask.process: script, schedule, trigger   *)
(* and webhook runs) publish a spec under a redis key, push the key to the *)
(* priority or the normal list of the instance and send a CodeBoxRunTask.  *)
(* Each CodeBoxRunTask takes a slot of the instance's redis counter, pops  *)
(* one key, runs it, gives the slot back and sends itself again while a    *)
(* list still holds something.  One step is one redis or broker call: the  *)
(* workers interleave between any two of them.                             *)
(***************************************************************************)
EXTENDS Integers, Sequences, FiniteSets

CONSTANTS
    Producers,      \* worker slots executing incentive tasks
    Runners,        \* worker slots executing CodeBoxRunTask
    Specs,          \* spec keys (generate_key() never repeats one)
    NoSpec,         \* None
    PrioritySpecs,  \* specs of webhook tasks: is_incentive_priority
    Limits,         \* concurrency limits the owner's plan has had
    MaxLimit,       \* the largest of them
    QueuePerRunner, \* settings.CODEBOX_QUEUE_LIMIT_PER_RUNNER
    MaxFaults       \* bound: worker processes killed and counters expired

ASSUME QueueAssumption ==
    /\ IsFiniteSet(Producers) /\ IsFiniteSet(Runners) /\ IsFiniteSet(Specs)
    /\ NoSpec \notin Specs
    /\ PrioritySpecs \subseteq Specs
    /\ Limits \subseteq Nat
    /\ MaxLimit \in Limits /\ \A l \in Limits : l <= MaxLimit
    /\ QueuePerRunner \in Nat
    /\ MaxFaults \in Nat

VARIABLES
    key,       \* each spec's redis key: not yet set, stored, or gone
    verdict,   \* how each spec ended: the trace saved for it, or why none was
    queue,     \* the two redis lists
    counter,   \* the redis slot counter; 0 when the key does not exist
    ttl,       \* the counter key: absent, or whether it has a time to live
    tasks,     \* CodeBoxRunTask messages in the broker, by concurrency_limit
    ppc, pspec, plimit,  \* incentive tasks: next call, spec, limit
    rpc, rspec, rlimit,  \* CodeBoxRunTasks: next call, popped spec, limit
    crashes, expiries,   \* bounded events so far
    overshot,  \* history: some can_run() has incremented past its limit
    leaked,    \* history: slots taken by killed workers, never given back
    drift      \* history: decrements that outlived the key they belonged to

producerVars == <<ppc, pspec, plimit>>
runnerVars == <<rpc, rspec, rlimit>>
historyVars == <<crashes, expiries, overshot, leaked, drift>>
vars == <<key, verdict, queue, counter, ttl, tasks, producerVars,
          runnerVars, historyVars>>

Queues == {"priority", "normal"}
QueueOf(s) == IF s \in PrioritySpecs THEN "priority" ELSE "normal"

Verdicts == {"none", "blocked", "finished", "queue_timeout", "expired",
             "error", "lost"}

ProducerPC == {"idle", "check", "push", "wake"}
HoldingPC == {"set_ttl", "pop_priority", "pop_normal", "read", "exec",
              "delete", "putback", "cleanup"}
RunnerPC == HoldingPC \cup {"idle", "overshoot", "delkey",
                            "recheck_priority", "recheck_normal"}

\* A runner keeps the popped spec in a local variable in these steps.
CarryingPC == {"read", "exec", "delete", "putback"}

Holding == {r \in Runners : rpc[r] \in HoldingPC}
Overshooting == {r \in Runners : rpc[r] = "overshoot"}

Init ==
    /\ key = [s \in Specs |-> "fresh"]
    /\ verdict = [s \in Specs |-> "none"]
    /\ queue = [q \in Queues |-> <<>>]
    /\ counter = 0 /\ ttl = "absent"
    /\ tasks = [l \in Limits |-> 0]
    /\ ppc = [p \in Producers |-> "idle"]
    /\ pspec = [p \in Producers |-> NoSpec]
    /\ plimit = [p \in Producers |-> MaxLimit]
    /\ rpc = [r \in Runners |-> "idle"]
    /\ rspec = [r \in Runners |-> NoSpec]
    /\ rlimit = [r \in Runners |-> MaxLimit]
    /\ crashes = 0 /\ expiries = 0
    /\ overshot = "never" /\ leaked = 0 /\ drift = 0

-----------------------------------------------------------------------------
(* BaseIncentiveTask.process *)

ProducerAt(p, pc) == ppc[p] = pc
ProducerGoes(p, pc) ==
    /\ ppc' = [ppc EXCEPT ![p] = pc]
    /\ UNCHANGED <<pspec, plimit>>

\* The task function returns; its locals are gone.
ProducerReturns(p) ==
    /\ ppc' = [ppc EXCEPT ![p] = "idle"]
    /\ pspec' = [pspec EXCEPT ![p] = NoSpec]
    /\ plimit' = [plimit EXCEPT ![p] = MaxLimit]

\* The owner is not in good standing or legacy scripts are disabled:
\* block_run() saves a "blocked" trace and nothing is published.
Refuse(p, s) ==
    /\ ProducerAt(p, "idle") /\ key[s] = "fresh"
    /\ key' = [key EXCEPT ![s] = "gone"]
    /\ verdict' = [verdict EXCEPT ![s] = "blocked"]
    /\ UNCHANGED <<queue, counter, ttl, tasks, producerVars, runnerVars,
                   historyVars>>

\* publish_codebox_spec; create_run_spec has read the owner's limit l.
Publish(p, s, l) ==
    /\ ProducerAt(p, "idle") /\ key[s] = "fresh"
    /\ key' = [key EXCEPT ![s] = "stored"]
    /\ ppc' = [ppc EXCEPT ![p] = "check"]
    /\ pspec' = [pspec EXCEPT ![p] = s]
    /\ plimit' = [plimit EXCEPT ![p] = l]
    /\ UNCHANGED <<verdict, queue, counter, ttl, tasks, runnerVars,
                   historyVars>>

\* The llen() check that a full list does not pass.
QueueFull(p) ==
    Len(queue[QueueOf(pspec[p])]) >= QueuePerRunner * plimit[p]

CheckQueueLimit(p) ==
    /\ ProducerAt(p, "check")
    /\ \/ /\ QueueFull(p)
          /\ verdict' = [verdict EXCEPT ![pspec[p]] = "blocked"]
          /\ ProducerReturns(p)
       \/ /\ ~QueueFull(p)
          /\ ProducerGoes(p, "push")
          /\ UNCHANGED verdict
    /\ UNCHANGED <<key, queue, counter, ttl, tasks, runnerVars, historyVars>>

\* rpush(queue, spec_key)
PushSpec(p) ==
    /\ ProducerAt(p, "push")
    /\ queue' = [queue EXCEPT ![QueueOf(pspec[p])] = Append(@, pspec[p])]
    /\ ProducerGoes(p, "wake")
    /\ UNCHANGED <<key, verdict, counter, ttl, tasks, runnerVars, historyVars>>

\* CodeBoxRunTask.delay(instance_pk, concurrency_limit)
WakeRunner(p) ==
    /\ ProducerAt(p, "wake")
    /\ tasks' = [tasks EXCEPT ![plimit[p]] = @ + 1]
    /\ ProducerReturns(p)
    /\ UNCHANGED <<key, verdict, queue, counter, ttl, runnerVars, historyVars>>

-----------------------------------------------------------------------------
(* CodeBoxRunTask.run *)

RunnerAt(r, pc) == rpc[r] = pc
RunnerGoes(r, pc) ==
    /\ rpc' = [rpc EXCEPT ![r] = pc]
    /\ UNCHANGED <<rspec, rlimit>>

\* The runner lets go of the spec it carried and goes on at pc.
RunnerDrops(r, pc) ==
    /\ rpc' = [rpc EXCEPT ![r] = pc]
    /\ rspec' = [rspec EXCEPT ![r] = NoSpec]
    /\ UNCHANGED rlimit

RunnerReturns(r) ==
    /\ rpc' = [rpc EXCEPT ![r] = "idle"]
    /\ rspec' = [rspec EXCEPT ![r] = NoSpec]
    /\ rlimit' = [rlimit EXCEPT ![r] = MaxLimit]

\* INCR and DECR create a missing key; EXPIRE does nothing to one.
Touched == IF ttl = "absent" THEN "none" ELSE ttl
Renewed == IF ttl = "absent" THEN "absent" ELSE "set"

\* Fault: can_run compares the value before its own incr.
FaultIncrOffByOne(r, l) ==
    /\ RunnerAt(r, "idle") /\ tasks[l] > 0
    /\ tasks' = [tasks EXCEPT ![l] = @ - 1]
    /\ counter' = counter + 1 /\ ttl' = Touched
    /\ rlimit' = [rlimit EXCEPT ![r] = l]
    /\ \/ counter > l /\ rpc' = [rpc EXCEPT ![r] = "overshoot"] /\ overshot' = "once"
       \/ counter <= l /\ rpc' = [rpc EXCEPT ![r] = "set_ttl"] /\ UNCHANGED overshot
    /\ UNCHANGED <<key, verdict, queue, rspec, producerVars, crashes,
                   expiries, leaked, drift>>

\* can_run: redis.incr(limit_key) > limit.  Celery acknowledges the message
\* before the task function starts.
Incr(r, l) ==
    /\ RunnerAt(r, "idle") /\ tasks[l] > 0
    /\ tasks' = [tasks EXCEPT ![l] = @ - 1]
    /\ counter' = counter + 1 /\ ttl' = Touched
    /\ rlimit' = [rlimit EXCEPT ![r] = l]
    /\ \/ /\ counter + 1 > l
          /\ rpc' = [rpc EXCEPT ![r] = "overshoot"]
          /\ overshot' = "once"
       \/ /\ counter + 1 <= l
          /\ rpc' = [rpc EXCEPT ![r] = "set_ttl"]
          /\ UNCHANGED overshot
    /\ UNCHANGED <<key, verdict, queue, rspec, producerVars, crashes,
                   expiries, leaked, drift>>

\* can_run: redis.decr(limit_key); return False
GiveUp(r) ==
    /\ RunnerAt(r, "overshoot")
    /\ counter' = counter - 1 /\ ttl' = Touched
    /\ RunnerReturns(r)
    /\ UNCHANGED <<key, verdict, queue, tasks, producerVars, historyVars>>

\* can_run: redis.expire(limit_key, CODEBOX_COUNTER_TIMEOUT)
SetTTL(r) ==
    /\ RunnerAt(r, "set_ttl")
    /\ ttl' = Renewed
    /\ RunnerGoes(r, "pop_priority")
    /\ UNCHANGED <<key, verdict, queue, counter, tasks, producerVars,
                   historyVars>>

\* Fault: the key is read from the list but stays there while it runs.
FaultPopPeeks(r, q, pc, empty) ==
    /\ RunnerAt(r, pc)
    /\ \/ /\ queue[q] # <<>>
          /\ rspec' = [rspec EXCEPT ![r] = Head(queue[q])]
          /\ rpc' = [rpc EXCEPT ![r] = "read"]
          /\ UNCHANGED rlimit
       \/ queue[q] = <<>> /\ RunnerGoes(r, empty)
    /\ UNCHANGED <<key, verdict, queue, counter, ttl, tasks, producerVars,
                   historyVars>>

\* spec_key = redis.lpop(queue), first from the priority list
Pop(r, q, pc, empty) ==
    /\ RunnerAt(r, pc)
    /\ \/ /\ queue[q] # <<>>
          /\ queue' = [queue EXCEPT ![q] = Tail(@)]
          /\ rspec' = [rspec EXCEPT ![r] = Head(queue[q])]
          /\ rpc' = [rpc EXCEPT ![r] = "read"]
          /\ UNCHANGED rlimit
       \/ /\ queue[q] = <<>>
          /\ RunnerGoes(r, empty)
          /\ UNCHANGED queue
    /\ UNCHANGED <<key, verdict, counter, ttl, tasks, producerVars,
                   historyVars>>

PopPriority(r) == Pop(r, "priority", "pop_priority", "pop_normal")
PopNormal(r) == Pop(r, "normal", "pop_normal", "cleanup")

\* process_spec up to runner.run: the spec may be gone, and a webhook's spec
\* may have outlived its expire_at.
ReadSpec(r) ==
    LET s == rspec[r] IN
    /\ RunnerAt(r, "read")
    /\ \/ /\ key[s] # "stored"
          /\ verdict' = [verdict EXCEPT ![s] = "expired"]
          /\ RunnerDrops(r, "cleanup")
       \/ /\ key[s] = "stored" /\ s \in PrioritySpecs
          /\ verdict' = [verdict EXCEPT ![s] = "queue_timeout"]
          /\ RunnerDrops(r, "cleanup")
       \/ /\ key[s] = "stored"
          /\ RunnerGoes(r, "exec")
          /\ UNCHANGED verdict
    /\ UNCHANGED <<key, queue, counter, ttl, tasks, producerVars, historyVars>>

\* runner.run: the script ran and its trace was sent off, a container error
\* put it back (also after the trace was sent, when cleaning up failed), or
\* another exception was only logged.
Execute(r) ==
    LET s == rspec[r] IN
    /\ RunnerAt(r, "exec")
    /\ \/ /\ verdict' = [verdict EXCEPT ![s] = "finished"]
          /\ \/ RunnerGoes(r, "delete")
             \/ RunnerGoes(r, "putback")
       \/ /\ RunnerGoes(r, "putback")
          /\ UNCHANGED verdict
       \/ /\ verdict' = [verdict EXCEPT ![s] = IF @ = "none" THEN "error" ELSE @]
          /\ RunnerDrops(r, "cleanup")
    /\ UNCHANGED <<key, queue, counter, ttl, tasks, producerVars, historyVars>>

\* else: redis.delete(spec_key)
DeleteSpec(r) ==
    /\ RunnerAt(r, "delete")
    /\ key' = [key EXCEPT ![rspec[r]] = "gone"]
    /\ RunnerDrops(r, "cleanup")
    /\ UNCHANGED <<verdict, queue, counter, ttl, tasks, producerVars,
                   historyVars>>

\* Fault: the container error is only logged.
FaultNoPutBack(r) ==
    /\ RunnerAt(r, "putback")
    /\ RunnerDrops(r, "cleanup")
    /\ UNCHANGED <<key, verdict, queue, counter, ttl, tasks, producerVars,
                   historyVars>>

\* redis.lpush(queue, spec_key)
PutBack(r) ==
    /\ RunnerAt(r, "putback")
    /\ queue' = [queue EXCEPT ![QueueOf(rspec[r])] = <<rspec[r]>> \o @]
    /\ RunnerDrops(r, "cleanup")
    /\ UNCHANGED <<key, verdict, counter, ttl, tasks, producerVars,
                   historyVars>>

\* cleanup: decr, then delete of a negative counter or expire
Cleanup(r) ==
    /\ RunnerAt(r, "cleanup")
    /\ counter' = counter - 1
    /\ \/ /\ counter - 1 < 0
          /\ RunnerGoes(r, "delkey")
          /\ ttl' = Touched
       \/ /\ counter - 1 >= 0
          /\ RunnerGoes(r, "recheck_priority")
          /\ ttl' = Renewed
    /\ UNCHANGED <<key, verdict, queue, tasks, producerVars, historyVars>>

DeleteCounter(r) ==
    /\ RunnerAt(r, "delkey")
    /\ counter' = 0 /\ ttl' = "absent"
    /\ drift' = drift + counter
    /\ RunnerGoes(r, "recheck_priority")
    /\ UNCHANGED <<key, verdict, queue, tasks, producerVars, crashes,
                   expiries, overshot, leaked>>

\* if llen(priority) > 0 or llen(normal) > 0: self.delay(...)
Recheck(r, q, pc) ==
    /\ RunnerAt(r, pc)
    /\ \/ /\ queue[q] # <<>>
          /\ tasks' = [tasks EXCEPT ![rlimit[r]] = @ + 1]
          /\ RunnerReturns(r)
       \/ /\ queue[q] = <<>>
          /\ IF q = "priority" THEN RunnerGoes(r, "recheck_normal")
                               ELSE RunnerReturns(r)
          /\ UNCHANGED tasks
    /\ UNCHANGED <<key, verdict, queue, counter, ttl, producerVars,
                   historyVars>>

\* Fault: only the priority list is looked at again.
FaultNoRecheck(r) ==
    /\ RunnerAt(r, "recheck_normal")
    /\ RunnerReturns(r)
    /\ UNCHANGED <<key, verdict, queue, counter, ttl, tasks, producerVars,
                   historyVars>>

RecheckPriority(r) == Recheck(r, "priority", "recheck_priority")
RecheckNormal(r) == Recheck(r, "normal", "recheck_normal")

-----------------------------------------------------------------------------
(* Redis expiry and killed workers *)

\* SPEC_TIMEOUT
ExpireSpec(s) ==
    /\ key[s] = "stored"
    /\ key' = [key EXCEPT ![s] = "gone"]
    /\ UNCHANGED <<verdict, queue, counter, ttl, tasks, producerVars,
                   runnerVars, historyVars>>

\* QUEUE_TIMEOUT is four SPEC_TIMEOUTs after the last push, so every spec of
\* the list has expired before the list does.
ExpireQueue(q) ==
    /\ queue[q] # <<>>
    /\ \A i \in DOMAIN queue[q] : key[queue[q][i]] # "stored"
    /\ queue' = [queue EXCEPT ![q] = <<>>]
    /\ verdict' = [s \in Specs |->
                     IF \E i \in DOMAIN queue[q] : queue[q][i] = s
                     THEN "expired" ELSE verdict[s]]
    /\ UNCHANGED <<key, counter, ttl, tasks, producerVars, runnerVars,
                   historyVars>>

\* CODEBOX_COUNTER_TIMEOUT is twice the longest run and both ends of a run
\* renew it, so the key expires only while no run holds a slot or every run
\* that does is between the incr and the expire of its can_run().
ExpireCounter ==
    /\ ttl = "set" /\ crashes + expiries < MaxFaults
    /\ \A r \in Holding : RunnerAt(r, "set_ttl")
    /\ counter' = 0 /\ ttl' = "absent"
    /\ expiries' = expiries + 1
    /\ leaked' = 0
    /\ drift' = Cardinality(Holding) + Cardinality(Overshooting)
    /\ UNCHANGED <<key, verdict, queue, tasks, producerVars, runnerVars,
                   crashes, overshot>>

CrashProducer(p) ==
    /\ ~ProducerAt(p, "idle") /\ crashes + expiries < MaxFaults
    /\ crashes' = crashes + 1
    /\ verdict' = [s \in Specs |->
                     IF s = pspec[p] /\ ppc[p] # "wake"
                     THEN "lost" ELSE verdict[s]]
    /\ ProducerReturns(p)
    /\ UNCHANGED <<key, queue, counter, ttl, tasks, runnerVars, expiries,
                   overshot, leaked, drift>>

CrashRunner(r) ==
    /\ ~RunnerAt(r, "idle") /\ crashes + expiries < MaxFaults
    /\ crashes' = crashes + 1
    /\ verdict' = [s \in Specs |->
                     IF s = rspec[r] /\ verdict[s] = "none"
                     THEN "lost" ELSE verdict[s]]
    /\ leaked' = IF rpc[r] \in HoldingPC \cup {"overshoot"}
                 THEN leaked + 1 ELSE leaked
    /\ RunnerReturns(r)
    /\ UNCHANGED <<key, queue, counter, ttl, tasks, producerVars, expiries,
                   overshot, drift>>

-----------------------------------------------------------------------------
ProducerStep(p) ==
    \/ \E s \in Specs : Refuse(p, s)
    \/ \E s \in Specs, l \in Limits : Publish(p, s, l)
    \/ CheckQueueLimit(p) \/ PushSpec(p) \/ WakeRunner(p)

RunnerStep(r) ==
    \/ \E l \in Limits : Incr(r, l)
    \/ GiveUp(r) \/ SetTTL(r) \/ PopPriority(r) \/ PopNormal(r)
    \/ ReadSpec(r) \/ Execute(r) \/ DeleteSpec(r) \/ PutBack(r)
    \/ Cleanup(r) \/ DeleteCounter(r)
    \/ RecheckPriority(r) \/ RecheckNormal(r)

Next ==
    \/ \E p \in Producers : ProducerStep(p) \/ CrashProducer(p)
    \/ \E r \in Runners : RunnerStep(r) \/ CrashRunner(r)
    \/ \E s \in Specs : ExpireSpec(s)
    \/ \E q \in Queues : ExpireQueue(q)
    \/ ExpireCounter

Spec == Init /\ [][Next]_vars

-----------------------------------------------------------------------------
(* Properties *)

RedisTypeOK ==
    /\ key \in [Specs -> {"fresh", "stored", "gone"}]
    /\ verdict \in [Specs -> Verdicts]
    /\ queue \in [Queues -> Seq(Specs)]
    /\ counter \in Int /\ ttl \in {"absent", "none", "set"}
    /\ tasks \in [Limits -> Nat]

ProducerTypeOK ==
    /\ ppc \in [Producers -> ProducerPC]
    /\ pspec \in [Producers -> Specs \cup {NoSpec}]
    /\ plimit \in [Producers -> Limits]
    /\ \A p \in Producers : ppc[p] # "idle" => pspec[p] \in Specs

RunnerTypeOK ==
    /\ rpc \in [Runners -> RunnerPC]
    /\ rspec \in [Runners -> Specs \cup {NoSpec}]
    /\ rlimit \in [Runners -> Limits]
    /\ \A r \in Runners : rpc[r] \in CarryingPC <=> rspec[r] \in Specs

HistoryTypeOK ==
    /\ crashes \in 0..MaxFaults /\ expiries \in 0..MaxFaults
    /\ overshot \in {"never", "once"} /\ leaked \in Nat /\ drift \in Int

\* Every variable has its type, and a task has a spec in hand exactly between
\* the steps of process() and process_spec() that use it.
TypeOK == RedisTypeOK /\ ProducerTypeOK /\ RunnerTypeOK /\ HistoryTypeOK

\* The redis counter is the number of runs that took a slot and have not
\* given it back, plus the slots of killed workers, less the decrements that
\* came after the key had expired (CodeBoxRunTask.can_run and cleanup).
CounterAccounting ==
    counter + drift
        = Cardinality(Holding) + Cardinality(Overshooting) + leaked

\* No more runs of an instance are under way than the largest concurrency
\* limit its tasks carry; only an expiry of the counter between the two
\* calls of a can_run() lets more in, by as many as were in it then.
ConcurrencyLimit ==
    /\ Cardinality(Holding) <= MaxLimit + drift
    /\ expiries = 0 => drift = 0

\* Where spec s is: positions in a list, tasks about to push it, and runs
\* that popped it.
InQueue(s) == {i \in DOMAIN queue[QueueOf(s)] : queue[QueueOf(s)][i] = s}
WithProducer(s) == {p \in Producers : ppc[p] \in {"check", "push"}
                                        /\ pspec[p] = s}
WithRunner(s) == {r \in Runners : rspec[r] = s}

\* No spec is in two places at once: a put-back, a retry after a container
\* error or a race of two runners never makes two runs of one spec possible.
OnePlace ==
    \A s \in Specs :
        Cardinality(InQueue(s)) + Cardinality(WithProducer(s))
            + Cardinality(WithRunner(s)) <= 1

\* A spec that was published and has no outcome yet is still in a list or in
\* somebody's hands: none is dropped without a trace but by a killed worker,
\* an expiry or a logged exception.
NoSpecDropped ==
    \A s \in Specs :
        key[s] # "fresh" /\ verdict[s] = "none"
            => InQueue(s) # {} \/ WithProducer(s) # {} \/ WithRunner(s) # {}

\* Somebody will look at list q again.
WakeupPending(q) ==
    \/ \E l \in Limits : tasks[l] > 0
    \/ \E p \in Producers : ppc[p] = "wake"
    \/ \E r \in Runners : \/ rpc[r] \in HoldingPC \cup {"delkey", "recheck_priority"}
                          \/ q = "normal" /\ rpc[r] = "recheck_normal"

\* As long as no can_run() overshot and no worker was killed, a non-empty list
\* always has a runner on its way: the wake-up of process() and the requeue at
\* the end of run() miss no push that lands between two of their calls.
NoLostWakeup ==
    crashes = 0 /\ overshot = "never"
        => \A q \in Queues : queue[q] # <<>> => WakeupPending(q)

\* "Wake up codebox runner" and "Requeue itself if needed": without killed
\* workers, a non-empty list always has somebody who will look at it again.
QueueIsServed ==
    crashes = 0 => \A q \in Queues : queue[q] # <<>> => WakeupPending(q)

=============================================================================
