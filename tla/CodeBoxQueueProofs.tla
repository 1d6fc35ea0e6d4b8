------------------------- MODULE CodeBoxQueueProofs -------------------------
(***************************************************************************)
(* Proofs about the script queue, for any number of workers, specs and     *)
(* limits, and any number of killed workers and key expiries; and about    *)
(* schedules and the traces of their runs.                                 *)
(***************************************************************************)
EXTENDS CodeBoxQueue, ScheduledRuns, FiniteSetTheorems, SequenceTheorems, WellFoundedInduction, TLAPS

USE DEF producerVars, runnerVars, historyVars

\* Sending one more message keeps the per-limit message counts natural.
LEMMA BumpType ==
    ASSUME NEW f \in [Limits -> Nat], NEW l \in Limits
    PROVE  [f EXCEPT ![l] = f[l] + 1] \in [Limits -> Nat]
  OBVIOUS

\* Somebody is about to receive the message that was just sent.
LEMMA BumpPositive ==
    ASSUME NEW f \in [Limits -> Nat], NEW l \in Limits
    PROVE  [f EXCEPT ![l] = f[l] + 1][l] > 0
  OBVIOUS

\* Every variable keeps its type: in particular a list only ever holds specs,
\* so what a run pops is a spec.
THEOREM TypeCorrect == Spec => []TypeOK
<1> USE QueueAssumption
<1>1. Init => TypeOK
  BY DEF Init, TypeOK, RedisTypeOK, ProducerTypeOK, RunnerTypeOK,
         HistoryTypeOK, Queues, Verdicts, ProducerPC, RunnerPC, HoldingPC,
         CarryingPC
<1>2. ASSUME TypeOK, [Next]_vars PROVE TypeOK'
  <2> USE DEF TypeOK, QueueOf, ProducerAt, ProducerGoes, ProducerReturns,
              RunnerAt, RunnerGoes, RunnerDrops, RunnerReturns
  <2>1. ASSUME NEW p \in Producers, NEW s \in Specs, Refuse(p, s)
        PROVE  TypeOK'
    <3>1. RedisTypeOK'
      BY <1>2, <2>1 DEF Refuse, RedisTypeOK, Verdicts, Queues
    <3>2. ProducerTypeOK'
      BY <1>2, <2>1 DEF Refuse, ProducerTypeOK, ProducerPC
    <3>3. RunnerTypeOK'
      BY <1>2, <2>1 DEF Refuse, RunnerTypeOK, RunnerPC, HoldingPC, CarryingPC
    <3>4. HistoryTypeOK'
      BY <1>2, <2>1 DEF Refuse, HistoryTypeOK
    <3>5. QED
      BY <3>1, <3>2, <3>3, <3>4
  <2>2. ASSUME NEW p \in Producers, NEW s \in Specs, NEW l \in Limits, Publish(p, s, l)
        PROVE  TypeOK'
    <3>1. RedisTypeOK'
      BY <1>2, <2>2 DEF Publish, RedisTypeOK, Verdicts, Queues
    <3>2. ProducerTypeOK'
      BY <1>2, <2>2 DEF Publish, ProducerTypeOK, ProducerPC
    <3>3. RunnerTypeOK'
      BY <1>2, <2>2 DEF Publish, RunnerTypeOK, RunnerPC, HoldingPC, CarryingPC
    <3>4. HistoryTypeOK'
      BY <1>2, <2>2 DEF Publish, HistoryTypeOK
    <3>5. QED
      BY <3>1, <3>2, <3>3, <3>4
  <2>3. ASSUME NEW p \in Producers, CheckQueueLimit(p)
        PROVE  TypeOK'
    <3>1. RedisTypeOK'
      BY <1>2, <2>3 DEF CheckQueueLimit, RedisTypeOK, Verdicts, Queues, ProducerTypeOK, RunnerTypeOK, CarryingPC
    <3>2. ProducerTypeOK'
      BY <1>2, <2>3 DEF CheckQueueLimit, ProducerTypeOK, ProducerPC
    <3>3. RunnerTypeOK'
      BY <1>2, <2>3 DEF CheckQueueLimit, RunnerTypeOK, RunnerPC, HoldingPC, CarryingPC
    <3>4. HistoryTypeOK'
      BY <1>2, <2>3 DEF CheckQueueLimit, HistoryTypeOK
    <3>5. QED
      BY <3>1, <3>2, <3>3, <3>4
  <2>4. ASSUME NEW p \in Producers, PushSpec(p)
        PROVE  TypeOK'
    <3>1. RedisTypeOK'
      BY <1>2, <2>4 DEF PushSpec, RedisTypeOK, Verdicts, Queues, ProducerTypeOK, RunnerTypeOK, CarryingPC
    <3>2. ProducerTypeOK'
      BY <1>2, <2>4 DEF PushSpec, ProducerTypeOK, ProducerPC
    <3>3. RunnerTypeOK'
      BY <1>2, <2>4 DEF PushSpec, RunnerTypeOK, RunnerPC, HoldingPC, CarryingPC
    <3>4. HistoryTypeOK'
      BY <1>2, <2>4 DEF PushSpec, HistoryTypeOK
    <3>5. QED
      BY <3>1, <3>2, <3>3, <3>4
  <2>5. ASSUME NEW p \in Producers, WakeRunner(p)
        PROVE  TypeOK'
    <3>1. RedisTypeOK'
      <4>1. plimit[p] \in Limits
        BY <1>2 DEF ProducerTypeOK
      <4>2. tasks \in [Limits -> Nat]
        BY <1>2 DEF RedisTypeOK
      <4>3. tasks' = [tasks EXCEPT ![plimit[p]] = tasks[plimit[p]] + 1]
        BY <2>5 DEF WakeRunner
      <4>4. tasks' \in [Limits -> Nat]
        BY <4>1, <4>2, <4>3, BumpType
      <4>5. QED
        BY <1>2, <2>5, <4>4 DEF WakeRunner, RedisTypeOK
    <3>2. ProducerTypeOK'
      BY <1>2, <2>5 DEF WakeRunner, ProducerTypeOK, ProducerPC
    <3>3. RunnerTypeOK'
      BY <1>2, <2>5 DEF WakeRunner, RunnerTypeOK, RunnerPC, HoldingPC, CarryingPC
    <3>4. HistoryTypeOK'
      BY <1>2, <2>5 DEF WakeRunner, HistoryTypeOK
    <3>5. QED
      BY <3>1, <3>2, <3>3, <3>4
  <2>6. ASSUME NEW r \in Runners, NEW l \in Limits, Incr(r, l)
        PROVE  TypeOK'
    <3>1. RedisTypeOK'
      BY <1>2, <2>6 DEF Incr, Touched, Renewed, RedisTypeOK
    <3>2. ProducerTypeOK'
      BY <1>2, <2>6 DEF Incr, ProducerTypeOK, ProducerPC
    <3>3. RunnerTypeOK'
      BY <1>2, <2>6 DEF Incr, RunnerTypeOK, RunnerPC, HoldingPC, CarryingPC
    <3>4. HistoryTypeOK'
      BY <1>2, <2>6 DEF Incr, HistoryTypeOK
    <3>5. QED
      BY <3>1, <3>2, <3>3, <3>4
  <2>7. ASSUME NEW r \in Runners, GiveUp(r)
        PROVE  TypeOK'
    <3>1. RedisTypeOK'
      BY <1>2, <2>7 DEF GiveUp, Touched, Renewed, RedisTypeOK
    <3>2. ProducerTypeOK'
      BY <1>2, <2>7 DEF GiveUp, ProducerTypeOK, ProducerPC
    <3>3. RunnerTypeOK'
      BY <1>2, <2>7 DEF GiveUp, RunnerTypeOK, RunnerPC, HoldingPC, CarryingPC
    <3>4. HistoryTypeOK'
      BY <1>2, <2>7 DEF GiveUp, HistoryTypeOK
    <3>5. QED
      BY <3>1, <3>2, <3>3, <3>4
  <2>8. ASSUME NEW r \in Runners, SetTTL(r)
        PROVE  TypeOK'
    <3>1. RedisTypeOK'
      BY <1>2, <2>8 DEF SetTTL, Touched, Renewed, RedisTypeOK
    <3>2. ProducerTypeOK'
      BY <1>2, <2>8 DEF SetTTL, ProducerTypeOK, ProducerPC
    <3>3. RunnerTypeOK'
      BY <1>2, <2>8 DEF SetTTL, RunnerTypeOK, RunnerPC, HoldingPC, CarryingPC
    <3>4. HistoryTypeOK'
      BY <1>2, <2>8 DEF SetTTL, HistoryTypeOK
    <3>5. QED
      BY <3>1, <3>2, <3>3, <3>4
  <2>9. ASSUME NEW r \in Runners, PopPriority(r)
        PROVE  TypeOK'
    <3>1. RedisTypeOK'
      <4>1. queue["priority"] \in Seq(Specs)
        BY <1>2 DEF RedisTypeOK, Queues
      <4>2. queue["priority"] # <<>> => Tail(queue["priority"]) \in Seq(Specs)
        BY <4>1, HeadTailProperties
      <4>3. queue' \in [Queues -> Seq(Specs)]
        BY <1>2, <2>9, <4>2 DEF PopPriority, Pop, RedisTypeOK
      <4>4. QED
        BY <1>2, <2>9, <4>3 DEF PopPriority, Pop, RedisTypeOK
    <3>2. ProducerTypeOK'
      BY <1>2, <2>9 DEF PopPriority, Pop, ProducerTypeOK, ProducerPC
    <3>3. RunnerTypeOK'
      <4>1. queue["priority"] \in Seq(Specs)
        BY <1>2 DEF RedisTypeOK, Queues
      <4>2. queue["priority"] # <<>> => Head(queue["priority"]) \in Specs
        BY <4>1, HeadTailProperties
      <4>3. CASE queue["priority"] # <<>>
        BY <1>2, <2>9, <4>2, <4>3 DEF PopPriority, Pop, RunnerTypeOK,
           RunnerPC, HoldingPC, CarryingPC
      <4>4. CASE queue["priority"] = <<>>
        BY <1>2, <2>9, <4>4 DEF PopPriority, Pop, RunnerTypeOK, RunnerPC,
           HoldingPC, CarryingPC
      <4>5. QED
        BY <4>3, <4>4
    <3>4. HistoryTypeOK'
      BY <1>2, <2>9 DEF PopPriority, Pop, HistoryTypeOK
    <3>5. QED
      BY <3>1, <3>2, <3>3, <3>4
  <2>10. ASSUME NEW r \in Runners, PopNormal(r)
        PROVE  TypeOK'
    <3>1. RedisTypeOK'
      <4>1. queue["normal"] \in Seq(Specs)
        BY <1>2 DEF RedisTypeOK, Queues
      <4>2. queue["normal"] # <<>> => Tail(queue["normal"]) \in Seq(Specs)
        BY <4>1, HeadTailProperties
      <4>3. queue' \in [Queues -> Seq(Specs)]
        BY <1>2, <2>10, <4>2 DEF PopNormal, Pop, RedisTypeOK
      <4>4. QED
        BY <1>2, <2>10, <4>3 DEF PopNormal, Pop, RedisTypeOK
    <3>2. ProducerTypeOK'
      BY <1>2, <2>10 DEF PopNormal, Pop, ProducerTypeOK, ProducerPC
    <3>3. RunnerTypeOK'
      <4>1. queue["normal"] \in Seq(Specs)
        BY <1>2 DEF RedisTypeOK, Queues
      <4>2. queue["normal"] # <<>> => Head(queue["normal"]) \in Specs
        BY <4>1, HeadTailProperties
      <4>3. CASE queue["normal"] # <<>>
        BY <1>2, <2>10, <4>2, <4>3 DEF PopNormal, Pop, RunnerTypeOK,
           RunnerPC, HoldingPC, CarryingPC
      <4>4. CASE queue["normal"] = <<>>
        BY <1>2, <2>10, <4>4 DEF PopNormal, Pop, RunnerTypeOK, RunnerPC,
           HoldingPC, CarryingPC
      <4>5. QED
        BY <4>3, <4>4
    <3>4. HistoryTypeOK'
      BY <1>2, <2>10 DEF PopNormal, Pop, HistoryTypeOK
    <3>5. QED
      BY <3>1, <3>2, <3>3, <3>4
  <2>11. ASSUME NEW r \in Runners, ReadSpec(r)
        PROVE  TypeOK'
    <3>1. RedisTypeOK'
      BY <1>2, <2>11 DEF ReadSpec, RedisTypeOK, Verdicts, Queues, ProducerTypeOK, RunnerTypeOK, CarryingPC
    <3>2. ProducerTypeOK'
      BY <1>2, <2>11 DEF ReadSpec, ProducerTypeOK, ProducerPC
    <3>3. RunnerTypeOK'
      <4>1. CASE RunnerDrops(r, "cleanup")
        BY <1>2, <4>1 DEF RunnerTypeOK, RunnerPC, HoldingPC, CarryingPC
      <4>2. CASE RunnerGoes(r, "exec")
        BY <1>2, <2>11, <4>2 DEF ReadSpec, RunnerTypeOK, RunnerPC,
           HoldingPC, CarryingPC
      <4>3. QED
        BY <2>11, <4>1, <4>2 DEF ReadSpec
    <3>4. HistoryTypeOK'
      BY <1>2, <2>11 DEF ReadSpec, HistoryTypeOK
    <3>5. QED
      BY <3>1, <3>2, <3>3, <3>4
  <2>12. ASSUME NEW r \in Runners, Execute(r)
        PROVE  TypeOK'
    <3>1. RedisTypeOK'
      <4>1. rspec[r] \in Specs
        BY <1>2, <2>12 DEF Execute, RunnerTypeOK, CarryingPC
      <4>2. verdict' \in [Specs -> Verdicts]
        BY <1>2, <2>12, <4>1 DEF Execute, RedisTypeOK, Verdicts
      <4>3. QED
        BY <1>2, <2>12, <4>2 DEF Execute, RedisTypeOK
    <3>2. ProducerTypeOK'
      BY <1>2, <2>12 DEF Execute, ProducerTypeOK, ProducerPC
    <3>3. RunnerTypeOK'
      BY <1>2, <2>12 DEF Execute, RunnerTypeOK, RunnerPC, HoldingPC, CarryingPC
    <3>4. HistoryTypeOK'
      BY <1>2, <2>12 DEF Execute, HistoryTypeOK
    <3>5. QED
      BY <3>1, <3>2, <3>3, <3>4
  <2>13. ASSUME NEW r \in Runners, DeleteSpec(r)
        PROVE  TypeOK'
    <3>1. RedisTypeOK'
      BY <1>2, <2>13 DEF DeleteSpec, RedisTypeOK, Verdicts, Queues, ProducerTypeOK, RunnerTypeOK, CarryingPC
    <3>2. ProducerTypeOK'
      BY <1>2, <2>13 DEF DeleteSpec, ProducerTypeOK, ProducerPC
    <3>3. RunnerTypeOK'
      BY <1>2, <2>13 DEF DeleteSpec, RunnerTypeOK, RunnerPC, HoldingPC, CarryingPC
    <3>4. HistoryTypeOK'
      BY <1>2, <2>13 DEF DeleteSpec, HistoryTypeOK
    <3>5. QED
      BY <3>1, <3>2, <3>3, <3>4
  <2>14. ASSUME NEW r \in Runners, PutBack(r)
        PROVE  TypeOK'
    <3>1. RedisTypeOK'
      BY <1>2, <2>14 DEF PutBack, RedisTypeOK, Verdicts, Queues, ProducerTypeOK, RunnerTypeOK, CarryingPC
    <3>2. ProducerTypeOK'
      BY <1>2, <2>14 DEF PutBack, ProducerTypeOK, ProducerPC
    <3>3. RunnerTypeOK'
      BY <1>2, <2>14 DEF PutBack, RunnerTypeOK, RunnerPC, HoldingPC, CarryingPC
    <3>4. HistoryTypeOK'
      BY <1>2, <2>14 DEF PutBack, HistoryTypeOK
    <3>5. QED
      BY <3>1, <3>2, <3>3, <3>4
  <2>15. ASSUME NEW r \in Runners, Cleanup(r)
        PROVE  TypeOK'
    <3>1. RedisTypeOK'
      BY <1>2, <2>15 DEF Cleanup, Touched, Renewed, RedisTypeOK
    <3>2. ProducerTypeOK'
      BY <1>2, <2>15 DEF Cleanup, ProducerTypeOK, ProducerPC
    <3>3. RunnerTypeOK'
      BY <1>2, <2>15 DEF Cleanup, RunnerTypeOK, RunnerPC, HoldingPC, CarryingPC
    <3>4. HistoryTypeOK'
      BY <1>2, <2>15 DEF Cleanup, HistoryTypeOK
    <3>5. QED
      BY <3>1, <3>2, <3>3, <3>4
  <2>16. ASSUME NEW r \in Runners, DeleteCounter(r)
        PROVE  TypeOK'
    <3>1. RedisTypeOK'
      BY <1>2, <2>16 DEF DeleteCounter, RedisTypeOK, Verdicts, Queues
    <3>2. ProducerTypeOK'
      BY <1>2, <2>16 DEF DeleteCounter, ProducerTypeOK, ProducerPC
    <3>3. RunnerTypeOK'
      BY <1>2, <2>16 DEF DeleteCounter, RunnerTypeOK, RunnerPC, HoldingPC, CarryingPC
    <3>4. HistoryTypeOK'
      BY <1>2, <2>16 DEF DeleteCounter, HistoryTypeOK
    <3>5. QED
      BY <3>1, <3>2, <3>3, <3>4
  <2>17. ASSUME NEW r \in Runners, RecheckPriority(r)
        PROVE  TypeOK'
    <3>1. RedisTypeOK'
      BY <1>2, <2>17 DEF RecheckPriority, Recheck, RedisTypeOK, Verdicts, Queues
    <3>2. ProducerTypeOK'
      BY <1>2, <2>17 DEF RecheckPriority, Recheck, ProducerTypeOK, ProducerPC
    <3>3. RunnerTypeOK'
      BY <1>2, <2>17 DEF RecheckPriority, Recheck, RunnerTypeOK, RunnerPC, HoldingPC, CarryingPC
    <3>4. HistoryTypeOK'
      BY <1>2, <2>17 DEF RecheckPriority, Recheck, HistoryTypeOK
    <3>5. QED
      BY <3>1, <3>2, <3>3, <3>4
  <2>18. ASSUME NEW r \in Runners, RecheckNormal(r)
        PROVE  TypeOK'
    <3>1. RedisTypeOK'
      BY <1>2, <2>18 DEF RecheckNormal, Recheck, RedisTypeOK, Verdicts, Queues
    <3>2. ProducerTypeOK'
      BY <1>2, <2>18 DEF RecheckNormal, Recheck, ProducerTypeOK, ProducerPC
    <3>3. RunnerTypeOK'
      BY <1>2, <2>18 DEF RecheckNormal, Recheck, RunnerTypeOK, RunnerPC, HoldingPC, CarryingPC
    <3>4. HistoryTypeOK'
      BY <1>2, <2>18 DEF RecheckNormal, Recheck, HistoryTypeOK
    <3>5. QED
      BY <3>1, <3>2, <3>3, <3>4
  <2>19. ASSUME NEW s \in Specs, ExpireSpec(s)
        PROVE  TypeOK'
    <3>1. RedisTypeOK'
      BY <1>2, <2>19 DEF ExpireSpec, RedisTypeOK, Verdicts, Queues
    <3>2. ProducerTypeOK'
      BY <1>2, <2>19 DEF ExpireSpec, ProducerTypeOK, ProducerPC
    <3>3. RunnerTypeOK'
      BY <1>2, <2>19 DEF ExpireSpec, RunnerTypeOK, RunnerPC, HoldingPC, CarryingPC
    <3>4. HistoryTypeOK'
      BY <1>2, <2>19 DEF ExpireSpec, HistoryTypeOK
    <3>5. QED
      BY <3>1, <3>2, <3>3, <3>4
  <2>20. ASSUME NEW q \in Queues, ExpireQueue(q)
        PROVE  TypeOK'
    <3>1. RedisTypeOK'
      BY <1>2, <2>20 DEF ExpireQueue, RedisTypeOK, Verdicts, Queues
    <3>2. ProducerTypeOK'
      BY <1>2, <2>20 DEF ExpireQueue, ProducerTypeOK, ProducerPC
    <3>3. RunnerTypeOK'
      BY <1>2, <2>20 DEF ExpireQueue, RunnerTypeOK, RunnerPC, HoldingPC, CarryingPC
    <3>4. HistoryTypeOK'
      BY <1>2, <2>20 DEF ExpireQueue, HistoryTypeOK
    <3>5. QED
      BY <3>1, <3>2, <3>3, <3>4
  <2>21. ASSUME ExpireCounter
        PROVE  TypeOK'
    <3>1. IsFiniteSet(Overshooting) /\ IsFiniteSet(Holding)
      BY FS_Subset DEF Overshooting, Holding
    <3>2. Cardinality(Overshooting) \in Nat /\ Cardinality(Holding) \in Nat
      BY <3>1, FS_CardinalityType
    <3>3. QED
      BY <1>2, <2>21, <3>2 DEF ExpireCounter, RedisTypeOK, ProducerTypeOK,
         RunnerTypeOK, HistoryTypeOK
  <2>22. ASSUME NEW p \in Producers, CrashProducer(p)
        PROVE  TypeOK'
    <3>1. RedisTypeOK'
      BY <1>2, <2>22 DEF CrashProducer, RedisTypeOK, Verdicts, Queues
    <3>2. ProducerTypeOK'
      BY <1>2, <2>22 DEF CrashProducer, ProducerTypeOK, ProducerPC
    <3>3. RunnerTypeOK'
      BY <1>2, <2>22 DEF CrashProducer, RunnerTypeOK, RunnerPC, HoldingPC, CarryingPC
    <3>4. HistoryTypeOK'
      BY <1>2, <2>22 DEF CrashProducer, HistoryTypeOK
    <3>5. QED
      BY <3>1, <3>2, <3>3, <3>4
  <2>23. ASSUME NEW r \in Runners, CrashRunner(r)
        PROVE  TypeOK'
    <3>1. RedisTypeOK'
      BY <1>2, <2>23 DEF CrashRunner, RedisTypeOK, Verdicts, Queues
    <3>2. ProducerTypeOK'
      BY <1>2, <2>23 DEF CrashRunner, ProducerTypeOK, ProducerPC
    <3>3. RunnerTypeOK'
      BY <1>2, <2>23 DEF CrashRunner, RunnerTypeOK, RunnerPC, HoldingPC, CarryingPC
    <3>4. HistoryTypeOK'
      BY <1>2, <2>23 DEF CrashRunner, HistoryTypeOK
    <3>5. QED
      BY <3>1, <3>2, <3>3, <3>4
  <2>24. CASE UNCHANGED vars
    BY <1>2, <2>24 DEF vars, RedisTypeOK, ProducerTypeOK, RunnerTypeOK, HistoryTypeOK
  <2>25. QED
    BY <1>2, <2>1, <2>2, <2>3, <2>4, <2>5, <2>6, <2>7, <2>8, <2>9, <2>10, <2>11, <2>12, <2>13, <2>14, <2>15, <2>16, <2>17, <2>18, <2>19, <2>20, <2>21, <2>22, <2>23, <2>24 DEF Next, ProducerStep, RunnerStep
<1>3. QED
  BY <1>1, <1>2, PTL DEF Spec

-----------------------------------------------------------------------------
(* The concurrency limit *)

\* One if a run at pc holds a slot (is between incr and decr), else zero.
HoldsSlot(pc) == IF pc \in HoldingPC THEN 1 ELSE 0
Overshoots(pc) == IF pc = "overshoot" THEN 1 ELSE 0

\* Which steps hold a slot.
LEMMA SlotBits ==
    /\ \A pc : HoldsSlot(pc) \in {0, 1} /\ Overshoots(pc) \in {0, 1}
    /\ \A pc \in HoldingPC : HoldsSlot(pc) = 1 /\ Overshoots(pc) = 0
    /\ \A pc \in {"idle", "delkey", "recheck_priority", "recheck_normal"} :
          HoldsSlot(pc) = 0 /\ Overshoots(pc) = 0
    /\ HoldsSlot("overshoot") = 0 /\ Overshoots("overshoot") = 1
    /\ \A pc : pc # "overshoot" => Overshoots(pc) = 0
  BY DEF HoldsSlot, Overshoots, HoldingPC

\* The two sets of runs that the counter counts are finite.
LEMMA CountedFinite ==
    ASSUME TypeOK
    PROVE  /\ IsFiniteSet(Holding) /\ Cardinality(Holding) \in Nat
           /\ IsFiniteSet(Overshooting) /\ Cardinality(Overshooting) \in Nat
<1>1. IsFiniteSet(Holding) /\ IsFiniteSet(Overshooting)
  BY QueueAssumption, FS_Subset DEF Holding, Overshooting
<1>2. QED
  BY <1>1, FS_CardinalityType

\* What one run's move does to the number of runs that hold a slot and to the
\* number that are about to give one back.
LEMMA MoveCounts ==
    ASSUME TypeOK, NEW r \in Runners, NEW pc, rpc' = [rpc EXCEPT ![r] = pc]
    PROVE  /\ Cardinality(Holding')
                = Cardinality(Holding) + HoldsSlot(pc) - HoldsSlot(rpc[r])
           /\ Cardinality(Overshooting')
                = Cardinality(Overshooting) + Overshoots(pc)
                    - Overshoots(rpc[r])
<1>1. rpc'[r] = pc /\ \A x \in Runners \ {r} : rpc'[x] = rpc[x]
  BY DEF TypeOK, RunnerTypeOK
<1>2. Holding' = IF pc \in HoldingPC THEN Holding \cup {r} ELSE Holding \ {r}
  BY <1>1 DEF Holding
<1>3. Overshooting' = IF pc = "overshoot" THEN Overshooting \cup {r}
                                          ELSE Overshooting \ {r}
  BY <1>1 DEF Overshooting
<1>4. /\ r \in Holding <=> rpc[r] \in HoldingPC
      /\ r \in Overshooting <=> rpc[r] = "overshoot"
  BY DEF Holding, Overshooting
<1>5. Cardinality(Holding')
        = Cardinality(Holding) + HoldsSlot(pc) - HoldsSlot(rpc[r])
  <2>1. CASE pc \in HoldingPC
    <3>1. Cardinality(Holding \cup {r})
            = IF r \in Holding THEN Cardinality(Holding)
                               ELSE Cardinality(Holding) + 1
      BY CountedFinite, FS_AddElement
    <3>2. QED
      BY <1>2, <1>4, <2>1, <3>1, CountedFinite DEF HoldsSlot
  <2>2. CASE pc \notin HoldingPC
    <3>1. Cardinality(Holding \ {r})
            = IF r \in Holding THEN Cardinality(Holding) - 1
                               ELSE Cardinality(Holding)
      BY CountedFinite, FS_RemoveElement
    <3>2. QED
      BY <1>2, <1>4, <2>2, <3>1, CountedFinite DEF HoldsSlot
  <2>3. QED
    BY <2>1, <2>2
<1>6. Cardinality(Overshooting')
        = Cardinality(Overshooting) + Overshoots(pc) - Overshoots(rpc[r])
  <2>1. CASE pc = "overshoot"
    <3>1. Cardinality(Overshooting \cup {r})
            = IF r \in Overshooting THEN Cardinality(Overshooting)
                                    ELSE Cardinality(Overshooting) + 1
      BY CountedFinite, FS_AddElement
    <3>2. QED
      BY <1>3, <1>4, <2>1, <3>1, CountedFinite DEF Overshoots
  <2>2. CASE pc # "overshoot"
    <3>1. Cardinality(Overshooting \ {r})
            = IF r \in Overshooting THEN Cardinality(Overshooting) - 1
                                    ELSE Cardinality(Overshooting)
      BY CountedFinite, FS_RemoveElement
    <3>2. QED
      BY <1>3, <1>4, <2>2, <3>1, CountedFinite DEF Overshoots
  <2>3. QED
    BY <2>1, <2>2
<1>7. QED
  BY <1>5, <1>6

\* A negative counter, and with it a run about to delete the key, needs an
\* expiry of the key first.
NeverNegative ==
    expiries = 0 => \A r \in Runners : rpc[r] # "delkey"

SlotInv == CounterAccounting /\ ConcurrencyLimit /\ NeverNegative

\* A step that moves no run and leaves the counter alone keeps SlotInv.
LEMMA QuietStep ==
    ASSUME SlotInv, UNCHANGED <<rpc, counter, drift, leaked, expiries>>
    PROVE  SlotInv'
  BY DEF SlotInv, CounterAccounting, ConcurrencyLimit, NeverNegative, Holding,
         Overshooting

\* A run that moves on without touching the counter, from a step that holds a
\* slot to another one or between two that do not, keeps SlotInv.
LEMMA SameSlotStep ==
    ASSUME TypeOK, SlotInv, NEW r \in Runners, NEW pc,
           rpc' = [rpc EXCEPT ![r] = pc],
           HoldsSlot(pc) = HoldsSlot(rpc[r]), rpc[r] # "overshoot",
           pc # "overshoot", pc # "delkey",
           UNCHANGED <<counter, drift, leaked, expiries>>
    PROVE  SlotInv'
<1>1. /\ Cardinality(Holding') = Cardinality(Holding)
      /\ Cardinality(Overshooting') = Cardinality(Overshooting)
  <2>1. /\ HoldsSlot(pc) \in Int /\ HoldsSlot(rpc[r]) \in Int
        /\ Overshoots(pc) = 0 /\ Overshoots(rpc[r]) = 0
    BY SlotBits
  <2>2. /\ Cardinality(Holding')
              = Cardinality(Holding) + HoldsSlot(pc) - HoldsSlot(rpc[r])
        /\ Cardinality(Overshooting')
              = Cardinality(Overshooting) + Overshoots(pc) - Overshoots(rpc[r])
    BY MoveCounts
  <2>3. QED
    BY <2>1, <2>2, CountedFinite
<1>2. NeverNegative'
  BY DEF SlotInv, NeverNegative, TypeOK, RunnerTypeOK
<1>3. QED
  BY <1>1, <1>2 DEF SlotInv, CounterAccounting, ConcurrencyLimit

\* The redis counter accounts for every slot, and the number of runs under way
\* stays within the limit (plus the decrements an expiry has orphaned).
THEOREM SlotsCorrect == Spec => []SlotInv
<1> USE QueueAssumption
<1>1. Init => SlotInv
  <2> SUFFICES ASSUME Init PROVE SlotInv
    OBVIOUS
  <2>1. Holding = {} /\ Overshooting = {}
    BY DEF Init, Holding, Overshooting, HoldingPC
  <2>2. QED
    BY <2>1, FS_EmptySet DEF Init, SlotInv, CounterAccounting,
       ConcurrencyLimit, NeverNegative
<1>2. ASSUME TypeOK, SlotInv, [Next]_vars PROVE SlotInv'
  <2> USE DEF ProducerAt, RunnerAt
  <2>1. ASSUME NEW p \in Producers, ProducerStep(p) \/ CrashProducer(p)
        PROVE  SlotInv'
    BY <1>2, <2>1, QuietStep DEF ProducerStep, Refuse, Publish,
       CheckQueueLimit, PushSpec, WakeRunner, CrashProducer
  <2>2. ASSUME NEW r \in Runners, NEW l \in Limits, Incr(r, l)
        PROVE  SlotInv'
    <3>1. CASE counter + 1 > l
      <4>1. /\ Cardinality(Holding') = Cardinality(Holding)
            /\ Cardinality(Overshooting') = Cardinality(Overshooting) + 1
        <5>1. rpc' = [rpc EXCEPT ![r] = "overshoot"] /\ rpc[r] = "idle"
          BY <1>2, <2>2, <3>1 DEF Incr, TypeOK, RedisTypeOK
        <5>2. QED
          <6>1. /\ HoldsSlot("overshoot") = 0 /\ Overshoots("overshoot") = 1
                /\ HoldsSlot(rpc[r]) = 0 /\ Overshoots(rpc[r]) = 0
            BY <5>1, SlotBits DEF HoldingPC
          <6>2. /\ Cardinality(Holding')
                      = Cardinality(Holding) + HoldsSlot("overshoot") - HoldsSlot(rpc[r])
                /\ Cardinality(Overshooting')
                      = Cardinality(Overshooting) + Overshoots("overshoot") - Overshoots(rpc[r])
            BY <1>2, <5>1, MoveCounts
          <6>3. QED
            BY <1>2, <6>1, <6>2, CountedFinite
      <4>2. NeverNegative'
        BY <1>2, <2>2, <3>1 DEF Incr, SlotInv, NeverNegative, TypeOK,
           RunnerTypeOK
      <4>3. /\ counter' = counter + 1
            /\ leaked' = leaked /\ drift' = drift /\ expiries' = expiries
        BY <2>2 DEF Incr
      <4>4. /\ Cardinality(Holding) \in Nat /\ Cardinality(Overshooting) \in Nat
            /\ counter \in Int /\ leaked \in Nat /\ drift \in Int
        BY <1>2, CountedFinite DEF TypeOK, RedisTypeOK, HistoryTypeOK
      <4>5. QED
        BY <1>2, <4>1, <4>2, <4>3, <4>4 DEF SlotInv, CounterAccounting,
           ConcurrencyLimit
    <3>2. CASE counter + 1 <= l
      <4>1. /\ Cardinality(Holding') = Cardinality(Holding) + 1
            /\ Cardinality(Overshooting') = Cardinality(Overshooting)
        <5>1. rpc' = [rpc EXCEPT ![r] = "set_ttl"] /\ rpc[r] = "idle"
          BY <1>2, <2>2, <3>2 DEF Incr, TypeOK, RedisTypeOK
        <5>2. QED
          <6>1. /\ HoldsSlot("set_ttl") = 1 /\ Overshoots("set_ttl") = 0
                /\ HoldsSlot(rpc[r]) = 0 /\ Overshoots(rpc[r]) = 0
            BY <5>1, SlotBits DEF HoldingPC
          <6>2. /\ Cardinality(Holding')
                      = Cardinality(Holding) + HoldsSlot("set_ttl") - HoldsSlot(rpc[r])
                /\ Cardinality(Overshooting')
                      = Cardinality(Overshooting) + Overshoots("set_ttl") - Overshoots(rpc[r])
            BY <1>2, <5>1, MoveCounts
          <6>3. QED
            BY <1>2, <6>1, <6>2, CountedFinite
      <4>2. NeverNegative'
        BY <1>2, <2>2, <3>2 DEF Incr, SlotInv, NeverNegative, TypeOK,
           RunnerTypeOK
      <4>3. CounterAccounting'
        <5>1. counter' = counter + 1 /\ drift' = drift /\ leaked' = leaked
          BY <2>2 DEF Incr
        <5>2. counter \in Int /\ drift \in Int /\ leaked \in Int
          BY <1>2 DEF TypeOK, RedisTypeOK, HistoryTypeOK
        <5>3. QED
          BY <1>2, <4>1, <5>1, <5>2, CountedFinite DEF SlotInv,
             CounterAccounting
      <4>4. l <= MaxLimit /\ l \in Int /\ MaxLimit \in Int
        OBVIOUS
      <4>5. ConcurrencyLimit'
        BY <1>2, <2>2, <3>2, <4>1, <4>4, CountedFinite DEF Incr, SlotInv,
           CounterAccounting, ConcurrencyLimit, TypeOK, RedisTypeOK,
           HistoryTypeOK
      <4>6. QED
        BY <4>2, <4>3, <4>5 DEF SlotInv
    <3>3. QED
      BY <2>2, <3>1, <3>2 DEF Incr
  <2>3. ASSUME NEW r \in Runners, GiveUp(r)
        PROVE  SlotInv'
    <3>1. /\ Cardinality(Holding') = Cardinality(Holding)
          /\ Cardinality(Overshooting') = Cardinality(Overshooting) - 1
      <4>1. rpc' = [rpc EXCEPT ![r] = "idle"] /\ rpc[r] = "overshoot"
        BY <2>3 DEF GiveUp, RunnerReturns
      <4>2. /\ HoldsSlot("idle") = 0 /\ Overshoots("idle") = 0
            /\ HoldsSlot(rpc[r]) = 0 /\ Overshoots(rpc[r]) = 1
        BY <4>1, SlotBits
      <4>3. /\ Cardinality(Holding')
                  = Cardinality(Holding) + HoldsSlot("idle") - HoldsSlot(rpc[r])
            /\ Cardinality(Overshooting')
                  = Cardinality(Overshooting) + Overshoots("idle") - Overshoots(rpc[r])
        BY <1>2, <4>1, MoveCounts
      <4>4. QED
        BY <1>2, <4>2, <4>3, CountedFinite
    <3>2. NeverNegative'
      BY <1>2, <2>3 DEF GiveUp, RunnerReturns, SlotInv, NeverNegative, TypeOK,
         RunnerTypeOK
    <3>3. QED
      <4>1. counter' = counter - 1 /\ UNCHANGED <<drift, leaked, expiries>>
        BY <2>3 DEF GiveUp
      <4>2. counter \in Int /\ drift \in Int /\ leaked \in Int
        BY <1>2 DEF TypeOK, RedisTypeOK, HistoryTypeOK
      <4>3. QED
        BY <1>2, <3>1, <3>2, <4>1, <4>2, CountedFinite DEF SlotInv,
           CounterAccounting, ConcurrencyLimit
  <2>4. ASSUME NEW r \in Runners,
               \/ SetTTL(r) \/ PopPriority(r) \/ PopNormal(r) \/ ReadSpec(r)
               \/ Execute(r) \/ DeleteSpec(r) \/ PutBack(r)
        PROVE  SlotInv'
    <3>1. PICK pc \in HoldingPC : rpc' = [rpc EXCEPT ![r] = pc]
      BY <2>4 DEF SetTTL, PopPriority, PopNormal, Pop, ReadSpec, Execute,
         DeleteSpec, PutBack, RunnerGoes, RunnerDrops, HoldingPC
    <3>2. rpc[r] \in HoldingPC /\ rpc[r] # "overshoot"
      BY <2>4 DEF SetTTL, PopPriority, PopNormal, Pop, ReadSpec, Execute,
         DeleteSpec, PutBack, HoldingPC
    <3>3. UNCHANGED <<counter, drift, leaked, expiries>>
      BY <2>4 DEF SetTTL, PopPriority, PopNormal, Pop, ReadSpec, Execute,
         DeleteSpec, PutBack
    <3>4. pc # "overshoot" /\ pc # "delkey"
      BY DEF HoldingPC
    <3>5. QED
      BY <1>2, <3>1, <3>2, <3>3, <3>4, SameSlotStep DEF HoldsSlot
  <2>5. ASSUME NEW r \in Runners, Cleanup(r)
        PROVE  SlotInv'
    <3>1. /\ Cardinality(Holding') = Cardinality(Holding) - 1
          /\ Cardinality(Overshooting') = Cardinality(Overshooting)
      <4>1. PICK pc \in {"delkey", "recheck_priority"} :
                rpc' = [rpc EXCEPT ![r] = pc]
        BY <2>5 DEF Cleanup, RunnerGoes
      <4>2. HoldsSlot(pc) = 0 /\ Overshoots(pc) = 0
        BY DEF HoldsSlot, Overshoots, HoldingPC
      <4>3. HoldsSlot(rpc[r]) = 1 /\ Overshoots(rpc[r]) = 0
        BY <2>5 DEF Cleanup, HoldsSlot, Overshoots, HoldingPC
      <4>4. /\ Cardinality(Holding')
                  = Cardinality(Holding) + HoldsSlot(pc) - HoldsSlot(rpc[r])
            /\ Cardinality(Overshooting')
                  = Cardinality(Overshooting) + Overshoots(pc) - Overshoots(rpc[r])
        BY <1>2, <4>1, MoveCounts
      <4>5. QED
        BY <1>2, <4>2, <4>3, <4>4, CountedFinite
    <3>2. CounterAccounting' /\ ConcurrencyLimit'
      <4>1. /\ counter' = counter - 1 /\ drift' = drift
            /\ leaked' = leaked /\ expiries' = expiries
        BY <2>5 DEF Cleanup
      <4>2. /\ counter \in Int /\ drift \in Int /\ leaked \in Int
            /\ MaxLimit \in Int
        BY <1>2 DEF TypeOK, RedisTypeOK, HistoryTypeOK
      <4>3. QED
        BY <1>2, <3>1, <4>1, <4>2, CountedFinite DEF SlotInv,
           CounterAccounting, ConcurrencyLimit
    <3>3. NeverNegative'
      <4>1. CASE counter - 1 < 0
        <5>1. Cardinality(Holding) >= 1
          <6>1. r \in Holding
            BY <2>5 DEF Cleanup, Holding, HoldingPC
          <6>2. Cardinality(Holding) # 0
            BY <1>2, <6>1, CountedFinite, FS_EmptySet
          <6>3. QED
            BY <1>2, <6>2, CountedFinite
        <5>2. QED
          BY <1>2, <2>5, <4>1, <5>1, CountedFinite DEF Cleanup, SlotInv,
             CounterAccounting, ConcurrencyLimit, NeverNegative, TypeOK,
             RedisTypeOK, HistoryTypeOK
      <4>2. CASE counter - 1 >= 0
        BY <1>2, <2>5, <4>2 DEF Cleanup, RunnerGoes, SlotInv, NeverNegative,
           TypeOK, RedisTypeOK, RunnerTypeOK
      <4>3. QED
        BY <1>2, <4>1, <4>2 DEF TypeOK, RedisTypeOK
    <3>4. QED
      BY <3>2, <3>3 DEF SlotInv
  <2>6. ASSUME NEW r \in Runners, DeleteCounter(r)
        PROVE  SlotInv'
    <3>1. /\ Cardinality(Holding') = Cardinality(Holding)
          /\ Cardinality(Overshooting') = Cardinality(Overshooting)
      <4>1. /\ rpc' = [rpc EXCEPT ![r] = "recheck_priority"]
            /\ rpc[r] = "delkey"
        BY <2>6 DEF DeleteCounter, RunnerGoes
      <4>2. /\ HoldsSlot("recheck_priority") = 0
            /\ Overshoots("recheck_priority") = 0
            /\ HoldsSlot(rpc[r]) = 0 /\ Overshoots(rpc[r]) = 0
        BY <4>1, SlotBits
      <4>3. /\ Cardinality(Holding')
                  = Cardinality(Holding) + HoldsSlot("recheck_priority") - HoldsSlot(rpc[r])
            /\ Cardinality(Overshooting')
                  = Cardinality(Overshooting) + Overshoots("recheck_priority") - Overshoots(rpc[r])
        BY <1>2, <4>1, MoveCounts
      <4>4. QED
        BY <1>2, <4>2, <4>3, CountedFinite
    <3>2. expiries # 0
      BY <1>2, <2>6 DEF DeleteCounter, SlotInv, NeverNegative
    <3>3. MaxLimit \in Nat
      OBVIOUS
    <3>4. QED
      BY <1>2, <2>6, <3>1, <3>2, <3>3, CountedFinite DEF DeleteCounter,
         SlotInv, CounterAccounting, ConcurrencyLimit, NeverNegative, TypeOK,
         RedisTypeOK, HistoryTypeOK
  <2>7. ASSUME NEW r \in Runners, RecheckPriority(r) \/ RecheckNormal(r)
        PROVE  SlotInv'
    <3>1. PICK pc \in {"idle", "recheck_normal"} :
              rpc' = [rpc EXCEPT ![r] = pc]
      BY <2>7 DEF RecheckPriority, RecheckNormal, Recheck, RunnerGoes,
         RunnerReturns
    <3>2. rpc[r] \in {"recheck_priority", "recheck_normal"}
      BY <2>7 DEF RecheckPriority, RecheckNormal, Recheck
    <3>3. HoldsSlot(pc) = 0 /\ HoldsSlot(rpc[r]) = 0
      BY <3>2 DEF HoldsSlot, HoldingPC
    <3>4. UNCHANGED <<counter, drift, leaked, expiries>>
      BY <2>7 DEF RecheckPriority, RecheckNormal, Recheck
    <3>5. QED
      BY <1>2, <3>1, <3>2, <3>3, <3>4, SameSlotStep
  <2>8. ASSUME NEW r \in Runners, CrashRunner(r)
        PROVE  SlotInv'
    <3>1. /\ Cardinality(Holding')
                = Cardinality(Holding) - HoldsSlot(rpc[r])
          /\ Cardinality(Overshooting')
                = Cardinality(Overshooting) - Overshoots(rpc[r])
      <4>1. HoldsSlot("idle") = 0 /\ Overshoots("idle") = 0
        BY DEF HoldsSlot, Overshoots, HoldingPC
      <4>2. HoldsSlot(rpc[r]) \in {0, 1} /\ Overshoots(rpc[r]) \in {0, 1}
        BY DEF HoldsSlot, Overshoots
      <4>3. QED
        <5>1. rpc' = [rpc EXCEPT ![r] = "idle"]
          BY <2>8 DEF CrashRunner, RunnerReturns
        <5>2. /\ Cardinality(Holding')
                    = Cardinality(Holding) + HoldsSlot("idle") - HoldsSlot(rpc[r])
              /\ Cardinality(Overshooting')
                    = Cardinality(Overshooting) + Overshoots("idle") - Overshoots(rpc[r])
          BY <1>2, <5>1, MoveCounts
        <5>3. QED
          BY <1>2, <4>1, <4>2, <5>2, CountedFinite
    <3>2. leaked' = leaked + HoldsSlot(rpc[r]) + Overshoots(rpc[r])
      BY <1>2, <2>8 DEF CrashRunner, HoldsSlot, Overshoots, HoldingPC, TypeOK,
         HistoryTypeOK
    <3>3. HoldsSlot(rpc[r]) \in {0, 1} /\ Overshoots(rpc[r]) \in {0, 1}
      BY DEF HoldsSlot, Overshoots
    <3>4. NeverNegative'
      BY <1>2, <2>8 DEF CrashRunner, RunnerReturns, SlotInv, NeverNegative,
         TypeOK, RunnerTypeOK
    <3>5. UNCHANGED <<counter, drift, expiries>>
      BY <2>8 DEF CrashRunner
    <3>6. QED
      BY <1>2, <3>1, <3>2, <3>3, <3>4, <3>5, CountedFinite DEF SlotInv,
         CounterAccounting, ConcurrencyLimit, TypeOK, RedisTypeOK,
         HistoryTypeOK
  <2>9. ASSUME ExpireCounter
        PROVE  SlotInv'
    <3>1. Holding' = Holding /\ Overshooting' = Overshooting
      BY <2>9 DEF ExpireCounter, Holding, Overshooting
    <3>2. /\ counter' = 0 /\ leaked' = 0
          /\ drift' = Cardinality(Holding) + Cardinality(Overshooting)
      BY <2>9 DEF ExpireCounter
    <3>3. expiries' # 0
      BY <1>2, <2>9 DEF ExpireCounter, TypeOK, HistoryTypeOK
    <3>4. MaxLimit \in Nat
      OBVIOUS
    <3>5. QED
      BY <1>2, <2>9, <3>1, <3>2, <3>3, <3>4, CountedFinite DEF ExpireCounter,
         SlotInv, CounterAccounting, ConcurrencyLimit, NeverNegative
  <2>10. ASSUME \/ \E s \in Specs : ExpireSpec(s)
                \/ \E q \in Queues : ExpireQueue(q)
         PROVE  SlotInv'
    BY <1>2, <2>10, QuietStep DEF ExpireSpec, ExpireQueue
  <2>11. CASE UNCHANGED vars
    BY <1>2, <2>11, QuietStep DEF vars
  <2>12. QED
    BY <1>2, <2>1, <2>2, <2>3, <2>4, <2>5, <2>6, <2>7, <2>8, <2>9, <2>10,
       <2>11 DEF Next, RunnerStep
<1>3. QED
  BY <1>1, <1>2, TypeCorrect, PTL DEF Spec

\* ConcurrencyLimit, for every number of runners, producers and specs.
THEOREM ConcurrencyLimitHolds == Spec => [](CounterAccounting /\ ConcurrencyLimit)
<1>1. SlotInv => CounterAccounting /\ ConcurrencyLimit
  BY DEF SlotInv
<1>2. QED
  BY <1>1, SlotsCorrect, PTL

-----------------------------------------------------------------------------
(* Wake-ups *)

\* The steps of a run that come before its last look at list q.
WillLook(q) == HoldingPC \cup {"delkey", "recheck_priority"}
                 \cup (IF q = "normal" THEN {"recheck_normal"} ELSE {})

LEMMA PendingByRunner ==
    ASSUME NEW q \in Queues, NEW r \in Runners, rpc'[r] \in WillLook(q)
    PROVE  WakeupPending(q)'
  BY DEF WakeupPending, WillLook, Queues

LEMMA PendingByTask ==
    ASSUME NEW q \in Queues, NEW l \in Limits, tasks'[l] > 0
    PROVE  WakeupPending(q)'
  BY DEF WakeupPending

LEMMA PendingByProducer ==
    ASSUME NEW q \in Queues, NEW p \in Producers, ppc'[p] = "wake"
    PROVE  WakeupPending(q)'
  BY DEF WakeupPending

\* A step after which every list that holds something held something before,
\* and which takes away no message, waking task or run that will look again,
\* keeps NoLostWakeup.
LEMMA KeepsPending ==
    ASSUME NoLostWakeup, UNCHANGED crashes, overshot' = "never" => overshot = "never",
           \A q \in Queues : queue'[q] # <<>> => queue[q] # <<>>,
           \A l \in Limits : tasks[l] > 0 => tasks'[l] > 0,
           \A p \in Producers : ppc[p] = "wake" => ppc'[p] = "wake",
           \A q \in Queues, r \in Runners :
               rpc[r] \in WillLook(q) => rpc'[r] \in WillLook(q)
    PROVE  NoLostWakeup'
  BY DEF NoLostWakeup, WakeupPending, WillLook, Queues

\* Without killed workers and overshoots, no push is missed.
THEOREM NoLostWakeupHolds == Spec => []NoLostWakeup
<1> USE QueueAssumption
<1>1. Init => NoLostWakeup
  BY DEF Init, NoLostWakeup
<1>2. ASSUME TypeOK, NoLostWakeup, [Next]_vars PROVE NoLostWakeup'
  <2> USE DEF ProducerAt, RunnerAt
  <2>1. ASSUME NEW p \in Producers,
               \/ \E s \in Specs : Refuse(p, s)
               \/ \E s \in Specs, l \in Limits : Publish(p, s, l)
               \/ CheckQueueLimit(p)
        PROVE  NoLostWakeup'
    <3>1. /\ UNCHANGED <<crashes, overshot, queue, tasks, rpc>>
          /\ \A x \in Producers : ppc[x] = "wake" => ppc'[x] = "wake"
      BY <1>2, <2>1 DEF Refuse, Publish, CheckQueueLimit, ProducerGoes,
         ProducerReturns, TypeOK, ProducerTypeOK
    <3>2. QED
      BY <1>2, <3>1, KeepsPending
  <2>2. ASSUME NEW p \in Producers, PushSpec(p)
        PROVE  NoLostWakeup'
    <3>1. ppc'[p] = "wake"
      BY <1>2, <2>2 DEF PushSpec, ProducerGoes, TypeOK, ProducerTypeOK
    <3>2. QED
      BY <3>1, PendingByProducer DEF NoLostWakeup
  <2>3. ASSUME NEW p \in Producers, WakeRunner(p)
        PROVE  NoLostWakeup'
    <3> DEFINE t == [tasks EXCEPT ![plimit[p]] = tasks[plimit[p]] + 1]
    <3>1. tasks' = t /\ plimit[p] \in Limits
      BY <1>2, <2>3 DEF WakeRunner, TypeOK, ProducerTypeOK
    <3>a. tasks \in [Limits -> Nat]
      BY <1>2 DEF TypeOK, RedisTypeOK
    <3>b. t[plimit[p]] > 0
      BY <3>1, <3>a, BumpPositive
    <3>2. tasks'[plimit[p]] > 0
      BY <3>1, <3>b
    <3>3. QED
      BY <3>1, <3>2, PendingByTask DEF NoLostWakeup
  <2>4. ASSUME NEW r \in Runners, NEW l \in Limits, Incr(r, l)
        PROVE  NoLostWakeup'
    <3>1. CASE overshot' = "never"
      <4>1. rpc' = [rpc EXCEPT ![r] = "set_ttl"]
        BY <2>4, <3>1 DEF Incr
      <4>2. \A q \in Queues : rpc'[r] \in WillLook(q)
        BY <1>2, <4>1 DEF TypeOK, RunnerTypeOK, WillLook, HoldingPC
      <4>3. QED
        BY <4>2, PendingByRunner DEF NoLostWakeup
    <3>2. CASE overshot' # "never"
      BY <3>2 DEF NoLostWakeup
    <3>3. QED
      BY <3>1, <3>2
  <2>5. ASSUME NEW r \in Runners, GiveUp(r)
        PROVE  NoLostWakeup'
    <3>1. /\ UNCHANGED <<crashes, overshot, queue, tasks, ppc>>
          /\ \A x \in Runners : rpc'[x] # rpc[x] => rpc[x] = "overshoot"
      BY <1>2, <2>5 DEF GiveUp, RunnerReturns, TypeOK, RunnerTypeOK
    <3>2. \A q \in Queues : "overshoot" \notin WillLook(q)
      BY DEF WillLook, HoldingPC
    <3>3. QED
      BY <1>2, <3>1, <3>2, KeepsPending
  <2>6. ASSUME NEW r \in Runners,
               \/ SetTTL(r) \/ PopPriority(r) \/ PopNormal(r) \/ ReadSpec(r)
               \/ Execute(r) \/ DeleteSpec(r) \/ PutBack(r) \/ Cleanup(r)
               \/ DeleteCounter(r)
        PROVE  NoLostWakeup'
    <3>1. PICK pc \in HoldingPC \cup {"delkey", "recheck_priority"} :
              rpc' = [rpc EXCEPT ![r] = pc]
      BY <2>6 DEF SetTTL, PopPriority, PopNormal, Pop, ReadSpec, Execute,
         DeleteSpec, PutBack, Cleanup, DeleteCounter, RunnerGoes, RunnerDrops,
         HoldingPC
    <3>2. \A q \in Queues : rpc'[r] \in WillLook(q)
      BY <1>2, <3>1 DEF TypeOK, RunnerTypeOK, WillLook
    <3>3. QED
      BY <3>2, PendingByRunner DEF NoLostWakeup
  <2>7. ASSUME NEW r \in Runners, RecheckPriority(r)
        PROVE  NoLostWakeup'
    <3>1. CASE queue["priority"] # <<>>
      <4> DEFINE t == [tasks EXCEPT ![rlimit[r]] = tasks[rlimit[r]] + 1]
      <4>1. tasks' = t /\ rlimit[r] \in Limits
        BY <1>2, <2>7, <3>1 DEF RecheckPriority, Recheck, TypeOK, RunnerTypeOK
      <4>a. tasks \in [Limits -> Nat]
        BY <1>2 DEF TypeOK, RedisTypeOK
      <4>b. t[rlimit[r]] > 0
        BY <4>1, <4>a, BumpPositive
      <4>2. tasks'[rlimit[r]] > 0
        BY <4>1, <4>b
      <4>3. QED
        BY <4>1, <4>2, PendingByTask DEF NoLostWakeup
    <3>2. CASE queue["priority"] = <<>>
      <4>1. rpc' = [rpc EXCEPT ![r] = "recheck_normal"] /\ queue' = queue
        BY <2>7, <3>2 DEF RecheckPriority, Recheck, RunnerGoes
      <4>2. rpc'[r] \in WillLook("normal")
        BY <1>2, <4>1 DEF TypeOK, RunnerTypeOK, WillLook
      <4>3. \A q \in Queues : queue'[q] # <<>> => q = "normal"
        BY <3>2, <4>1 DEF Queues
      <4>4. QED
        BY <4>2, <4>3, PendingByRunner DEF NoLostWakeup, Queues
    <3>3. QED
      BY <3>1, <3>2
  <2>8. ASSUME NEW r \in Runners, RecheckNormal(r)
        PROVE  NoLostWakeup'
    <3>1. CASE queue["normal"] # <<>>
      <4> DEFINE t == [tasks EXCEPT ![rlimit[r]] = tasks[rlimit[r]] + 1]
      <4>1. tasks' = t /\ rlimit[r] \in Limits
        BY <1>2, <2>8, <3>1 DEF RecheckNormal, Recheck, TypeOK, RunnerTypeOK
      <4>a. tasks \in [Limits -> Nat]
        BY <1>2 DEF TypeOK, RedisTypeOK
      <4>b. t[rlimit[r]] > 0
        BY <4>1, <4>a, BumpPositive
      <4>2. tasks'[rlimit[r]] > 0
        BY <4>1, <4>b
      <4>3. QED
        BY <4>1, <4>2, PendingByTask DEF NoLostWakeup
    <3>2. CASE queue["normal"] = <<>>
      <4>1. /\ UNCHANGED <<crashes, overshot, queue, tasks, ppc>>
            /\ rpc[r] = "recheck_normal"
            /\ \A x \in Runners : rpc'[x] # rpc[x] => x = r
        BY <1>2, <2>8, <3>2 DEF RecheckNormal, Recheck, RunnerReturns, TypeOK,
           RunnerTypeOK
      <4>2. rpc[r] \notin WillLook("priority")
        BY <4>1 DEF WillLook, HoldingPC
      <4>3. \A x \in Runners : rpc[x] \in WillLook("priority")
                                  => rpc'[x] \in WillLook("priority")
        BY <4>1, <4>2
      <4>4. QED
        BY <1>2, <3>2, <4>1, <4>3 DEF NoLostWakeup, WakeupPending, WillLook,
           Queues
    <3>3. QED
      BY <3>1, <3>2
  <2>9. ASSUME \/ \E p \in Producers : CrashProducer(p)
               \/ \E r \in Runners : CrashRunner(r)
        PROVE  NoLostWakeup'
    <3>1. crashes' # 0
      BY <1>2, <2>9 DEF CrashProducer, CrashRunner, TypeOK, HistoryTypeOK
    <3>2. QED
      BY <3>1 DEF NoLostWakeup
  <2>10. ASSUME \/ \E s \in Specs : ExpireSpec(s)
                \/ \E q \in Queues : ExpireQueue(q)
                \/ ExpireCounter
         PROVE  NoLostWakeup'
    <3>1. /\ UNCHANGED <<crashes, overshot, tasks, ppc, rpc>>
          /\ \A q \in Queues : queue'[q] # <<>> => queue[q] # <<>>
      BY <1>2, <2>10 DEF ExpireSpec, ExpireQueue, ExpireCounter, TypeOK,
         RedisTypeOK
    <3>2. QED
      BY <1>2, <3>1, KeepsPending
  <2>11. CASE UNCHANGED vars
    BY <1>2, <2>11, KeepsPending DEF vars
  <2>12. QED
    BY <1>2, <2>1, <2>2, <2>3, <2>4, <2>5, <2>6, <2>7, <2>8, <2>9, <2>10,
       <2>11 DEF Next, ProducerStep, RunnerStep
<1>3. QED
  BY <1>1, <1>2, TypeCorrect, PTL DEF Spec

-----------------------------------------------------------------------------

(* Places of specs *)

\* A task of process() that has published a spec and not yet pushed it.
Bringing(p) == ppc[p] \in {"check", "push"}

\* The entries of a list: no spec twice, each in the list of its kind,
\* published, and in nobody's hands.
ListsSound ==
    \A q \in Queues :
        /\ \A i, j \in DOMAIN queue[q] : queue[q][i] = queue[q][j] => i = j
        /\ \A i \in DOMAIN queue[q] :
            /\ QueueOf(queue[q][i]) = q /\ key[queue[q][i]] # "fresh"
            /\ \A p \in Producers : Bringing(p) => pspec[p] # queue[q][i]
            /\ \A r \in Runners : rspec[r] # queue[q][i]

\* A spec in somebody's hands is published, and in nobody else's.
HandsSound ==
    /\ \A p \in Producers : Bringing(p) =>
        /\ key[pspec[p]] # "fresh"
        /\ \A o \in Producers : Bringing(o) /\ pspec[o] = pspec[p] => o = p
        /\ \A r \in Runners : rspec[r] # pspec[p]
    /\ \A r \in Runners : rspec[r] \in Specs =>
        /\ key[rspec[r]] # "fresh"
        /\ \A o \in Runners : rspec[o] = rspec[r] => o = r

PlaceInv == ListsSound /\ HandsSound

\* A spec with two places would be two entries of its list, in two pairs of
\* hands, or both.
LEMMA PlaceInvOnePlace ==
    ASSUME TypeOK, PlaceInv
    PROVE  OnePlace
<1> SUFFICES ASSUME NEW s \in Specs
             PROVE  Cardinality(InQueue(s)) + Cardinality(WithProducer(s))
                        + Cardinality(WithRunner(s)) <= 1
  BY DEF OnePlace
<1> DEFINE Q == InQueue(s)
           P == WithProducer(s)
           R == WithRunner(s)
<1>0. QueueOf(s) \in Queues
  BY DEF QueueOf, Queues
<1>1. \A i, j \in Q : i = j
  BY <1>0 DEF PlaceInv, ListsSound, InQueue
<1>2. \A i, j \in P : i = j
  BY DEF PlaceInv, HandsSound, WithProducer, Bringing
<1>3. \A i, j \in R : i = j
  BY DEF PlaceInv, HandsSound, WithRunner
<1>4. /\ Q # {} => P = {} /\ R = {}
      /\ P # {} => R = {}
  BY <1>0 DEF PlaceInv, ListsSound, HandsSound, InQueue, WithProducer, WithRunner, Bringing
<1> HIDE DEF Q, P, R
<1>5. ASSUME NEW S, \A i, j \in S : i = j
      PROVE  S = {} \/ \E x : S = {x}
  BY <1>5
<1>6. \A x : Cardinality({x}) = 1
  BY FS_Singleton
<1>7. Cardinality({}) = 0
  BY FS_EmptySet
<1>8. Cardinality(Q) = 0 \/ Cardinality(Q) = 1
  BY <1>1, <1>5, <1>6, <1>7
<1>9. Cardinality(P) = 0 \/ Cardinality(P) = 1
  BY <1>2, <1>5, <1>6, <1>7
<1>10. Cardinality(R) = 0 \/ Cardinality(R) = 1
  BY <1>3, <1>5, <1>6, <1>7
<1>11. QED
  BY <1>4, <1>7, <1>8, <1>9, <1>10 DEF Q, P, R

\* A step that brings no spec to a new place keeps PlaceInv.
LEMMA PlacesNarrow ==
    ASSUME TypeOK, TypeOK', PlaceInv,
           \A q \in Queues : queue'[q] = queue[q] \/ queue'[q] = <<>>,
           \A s \in Specs : key'[s] = "fresh" => key[s] = "fresh",
           \A p \in Producers : Bringing(p)' => Bringing(p) /\ pspec'[p] = pspec[p],
           \A r \in Runners : rspec'[r] = rspec[r] \/ rspec'[r] = NoSpec
    PROVE  PlaceInv'
<1> USE QueueAssumption
<1>1. \A p \in Producers : Bringing(p)' => pspec[p] \in Specs
  BY DEF TypeOK, ProducerTypeOK, Bringing
<1>2. \A q \in Queues : \A i \in DOMAIN queue'[q] :
        /\ queue'[q] = queue[q] /\ i \in DOMAIN queue[q]
        /\ queue'[q][i] = queue[q][i] /\ queue[q][i] \in Specs
  BY DEF TypeOK, RedisTypeOK
<1>3. ListsSound'
  BY <1>2 DEF PlaceInv, ListsSound
<1>4. HandsSound'
  BY <1>1 DEF PlaceInv, HandsSound
<1>5. QED
  BY <1>3, <1>4 DEF PlaceInv

\* An entry of a list that grew at its end, grew at its front or lost its head.
LEMMA AppendEntries ==
    ASSUME NEW S, NEW q \in Seq(S), NEW x \in S, NEW i \in DOMAIN Append(q, x)
    PROVE  /\ i \in 1..(Len(q) + 1)
           /\ i <= Len(q) => i \in DOMAIN q /\ Append(q, x)[i] = q[i]
           /\ i = Len(q) + 1 => Append(q, x)[i] = x
  OBVIOUS

\* The same, of an entry put at the head of a list, and of the rest of one.
LEMMA ConsEntries ==
    ASSUME NEW S, NEW q \in Seq(S), NEW x \in S, NEW i \in DOMAIN (<<x>> \o q)
    PROVE  /\ i \in 1..(Len(q) + 1)
           /\ i = 1 => (<<x>> \o q)[i] = x
           /\ i # 1 => i - 1 \in DOMAIN q /\ (<<x>> \o q)[i] = q[i - 1]
  OBVIOUS

LEMMA TailEntries ==
    ASSUME NEW S, NEW q \in Seq(S), q # <<>>, NEW i \in DOMAIN Tail(q)
    PROVE  /\ i \in Nat \ {0} /\ i + 1 \in DOMAIN q /\ Tail(q)[i] = q[i + 1]
           /\ 1 \in DOMAIN q /\ Head(q) = q[1]
  OBVIOUS

\* Every spec has one place at most: publishing, pushing, popping and putting
\* back each move a spec out of one place and into another.
THEOREM PlacesCorrect == Spec => []PlaceInv
<1> USE QueueAssumption
<1>1. Init => PlaceInv
  BY DEF Init, PlaceInv, ListsSound, HandsSound, Bringing
<1>2. ASSUME TypeOK, TypeOK', PlaceInv, [Next]_vars PROVE PlaceInv'
  <2> USE DEF ProducerAt, RunnerAt
  <2>1. ASSUME NEW p \in Producers,
               \/ \E s \in Specs : Refuse(p, s)
               \/ CheckQueueLimit(p) \/ WakeRunner(p) \/ CrashProducer(p)
        PROVE  PlaceInv'
    <3>1. /\ queue' = queue /\ rspec' = rspec
          /\ \A s \in Specs : key'[s] = "fresh" => key[s] = "fresh"
          /\ \A o \in Producers : Bringing(o)' => Bringing(o) /\ pspec'[o] = pspec[o]
      BY <1>2, <2>1 DEF Refuse, CheckQueueLimit, WakeRunner, CrashProducer, ProducerGoes,
         ProducerReturns, Bringing, TypeOK, ProducerTypeOK, RedisTypeOK
    <3>2. QED
      BY <1>2, <3>1, PlacesNarrow
  <2>2. ASSUME NEW p \in Producers, NEW s \in Specs, NEW l \in Limits, Publish(p, s, l)
        PROVE  PlaceInv'
    <3>1. /\ queue' = queue /\ rspec' = rspec
          /\ key[s] = "fresh" /\ key' = [key EXCEPT ![s] = "stored"]
          /\ ppc' = [ppc EXCEPT ![p] = "check"] /\ pspec' = [pspec EXCEPT ![p] = s]
      BY <2>2 DEF Publish
    <3>2. /\ key \in [Specs -> {"fresh", "stored", "gone"}]
          /\ queue \in [Queues -> Seq(Specs)]
          /\ ppc \in [Producers -> ProducerPC] /\ pspec \in [Producers -> Specs \cup {NoSpec}]
          /\ rspec \in [Runners -> Specs \cup {NoSpec}]
          /\ \A o \in Producers : ppc[o] # "idle" => pspec[o] \in Specs
      BY <1>2 DEF TypeOK, RedisTypeOK, ProducerTypeOK, RunnerTypeOK
    <3>3. \A o \in Producers : Bringing(o) => pspec[o] # s /\ pspec[o] \in Specs
      BY <1>2, <3>1, <3>2 DEF PlaceInv, HandsSound, Bringing
    <3>4. \A r \in Runners : rspec[r] # s
      BY <1>2, <3>1, <3>2 DEF PlaceInv, HandsSound
    <3>5. \A q \in Queues : \A i \in DOMAIN queue[q] : queue[q][i] # s /\ queue[q][i] \in Specs
      BY <1>2, <3>1, <3>2 DEF PlaceInv, ListsSound
    <3>6. \A o \in Producers :
            /\ o # p => Bringing(o)' = Bringing(o) /\ pspec'[o] = pspec[o]
            /\ o = p => pspec'[o] = s
      BY <3>1, <3>2 DEF Bringing
    <3>7. \A x \in Specs : key'[x] = "fresh" => key[x] = "fresh" /\ x # s
      BY <3>1, <3>2
    <3>8. ListsSound'
      BY <1>2, <3>1, <3>5, <3>6, <3>7 DEF PlaceInv, ListsSound
    <3>9. HandsSound'
      BY <1>2, <3>1, <3>3, <3>4, <3>6, <3>7 DEF PlaceInv, HandsSound
    <3>10. QED
      BY <3>8, <3>9 DEF PlaceInv
  <2>3. ASSUME NEW p \in Producers, PushSpec(p)
        PROVE  PlaceInv'
    <3> DEFINE s == pspec[p]
               h == QueueOf(s)
               new == Append(queue[h], s)
    <3>1. /\ queue' = [queue EXCEPT ![h] = new] /\ rspec' = rspec /\ key' = key
          /\ ppc[p] = "push" /\ ppc' = [ppc EXCEPT ![p] = "wake"] /\ pspec' = pspec
      BY <2>3 DEF PushSpec, ProducerGoes
    <3>2. /\ queue \in [Queues -> Seq(Specs)] /\ ppc \in [Producers -> ProducerPC]
          /\ s \in Specs /\ h \in Queues
      BY <1>2, <3>1 DEF TypeOK, RedisTypeOK, ProducerTypeOK, QueueOf, Queues
    <3>3. /\ key[s] # "fresh"
          /\ \A o \in Producers : Bringing(o) /\ pspec[o] = s => o = p
          /\ \A r \in Runners : rspec[r] # s
          /\ \A q \in Queues : \A i \in DOMAIN queue[q] : queue[q][i] # s
      BY <1>2, <3>1 DEF PlaceInv, ListsSound, HandsSound, Bringing
    <3>4. \A o \in Producers : Bringing(o)' => Bringing(o) /\ o # p
      BY <3>1, <3>2 DEF Bringing
    <3>5. \A i \in DOMAIN new :
            /\ i \in 1..(Len(queue[h]) + 1)
            /\ i <= Len(queue[h]) => i \in DOMAIN queue[h] /\ new[i] = queue[h][i]
            /\ i = Len(queue[h]) + 1 => new[i] = s
      BY <3>2, AppendEntries
    <3> HIDE DEF new
    <3>6. /\ queue'[h] = new
          /\ \A q \in Queues : q # h => queue'[q] = queue[q]
      BY <3>1, <3>2
    <3>a. Len(queue[h]) \in Nat
      BY <3>2
    <3>b. \A i \in DOMAIN new :
            \/ i \in DOMAIN queue[h] /\ i <= Len(queue[h]) /\ new[i] = queue[h][i]
            \/ i = Len(queue[h]) + 1 /\ new[i] = s
      BY <3>5, <3>a
    <3> HIDE DEF s, h
    <3>7. \A i, j \in DOMAIN new : new[i] = new[j] => i = j
      BY <1>2, <3>2, <3>3, <3>a, <3>b DEF PlaceInv, ListsSound
    <3>8. \A i \in DOMAIN new : QueueOf(new[i]) = h /\ key[new[i]] # "fresh"
      BY <1>2, <3>2, <3>3, <3>b DEF PlaceInv, ListsSound, h
    <3>c. \A i \in DOMAIN new : \A o \in Producers : Bringing(o)' => pspec[o] # new[i]
      BY <1>2, <3>2, <3>3, <3>4, <3>b DEF PlaceInv, ListsSound, h
    <3>d. \A i \in DOMAIN new : \A r \in Runners : rspec[r] # new[i]
      BY <1>2, <3>2, <3>3, <3>b DEF PlaceInv, ListsSound, h
    <3>e. \A q \in Queues : q # h =>
            \A i \in DOMAIN queue'[q] : \A o \in Producers : Bringing(o)' => pspec'[o] # queue'[q][i]
      BY <1>2, <3>1, <3>4, <3>6 DEF PlaceInv, ListsSound
    <3>9. ListsSound'
      BY <1>2, <3>1, <3>6, <3>7, <3>8, <3>c, <3>d, <3>e DEF PlaceInv, ListsSound
    <3>10. HandsSound'
      BY <1>2, <3>1, <3>4 DEF PlaceInv, HandsSound
    <3>11. QED
      BY <3>9, <3>10 DEF PlaceInv
  <2>4. ASSUME NEW r \in Runners,
               \/ \E l \in Limits : Incr(r, l)
               \/ GiveUp(r) \/ SetTTL(r) \/ ReadSpec(r) \/ Execute(r) \/ DeleteSpec(r)
               \/ Cleanup(r) \/ DeleteCounter(r) \/ RecheckPriority(r)
               \/ RecheckNormal(r) \/ CrashRunner(r)
        PROVE  PlaceInv'
    <3>1. /\ queue' = queue /\ ppc' = ppc /\ pspec' = pspec
          /\ key' = key \/ key' = [key EXCEPT ![rspec[r]] = "gone"]
          /\ rspec' = rspec \/ rspec' = [rspec EXCEPT ![r] = NoSpec]
      BY <2>4 DEF Incr, GiveUp, SetTTL, ReadSpec, Execute, DeleteSpec, Cleanup,
         DeleteCounter, RecheckPriority, RecheckNormal, Recheck, CrashRunner,
         RunnerGoes, RunnerDrops, RunnerReturns
    <3>2. /\ \A s \in Specs : key'[s] = "fresh" => key[s] = "fresh"
          /\ \A o \in Producers : Bringing(o)' => Bringing(o)
          /\ \A o \in Runners : rspec'[o] = rspec[o] \/ rspec'[o] = NoSpec
      BY <1>2, <3>1 DEF Bringing, TypeOK, RedisTypeOK, RunnerTypeOK
    <3>3. QED
      BY <1>2, <3>1, <3>2, PlacesNarrow
  <2>5. ASSUME NEW r \in Runners, NEW q \in Queues, NEW pc, NEW empty, Pop(r, q, pc, empty)
        PROVE  PlaceInv'
    <3>1. CASE queue[q] = <<>>
      <4>1. UNCHANGED <<queue, key, ppc, pspec, rspec>>
        BY <2>5, <3>1 DEF Pop, RunnerGoes
      <4>2. QED
        BY <1>2, <4>1, PlacesNarrow DEF Bringing
    <3>2. CASE queue[q] # <<>>
      <4> DEFINE s == Head(queue[q])
                 rest == Tail(queue[q])
      <4>1. /\ queue' = [queue EXCEPT ![q] = rest] /\ rspec' = [rspec EXCEPT ![r] = s]
            /\ UNCHANGED <<key, ppc, pspec>>
        BY <2>5, <3>2 DEF Pop
      <4>2. queue \in [Queues -> Seq(Specs)] /\ rspec \in [Runners -> Specs \cup {NoSpec}]
        BY <1>2 DEF TypeOK, RedisTypeOK, RunnerTypeOK
      <4>3. \A i \in DOMAIN rest : i \in Nat \ {0} /\ i + 1 \in DOMAIN queue[q] /\ rest[i] = queue[q][i + 1]
        BY <3>2, <4>2, TailEntries
      <4>4. 1 \in DOMAIN queue[q] /\ s = queue[q][1] /\ s \in Specs
        BY <3>2, <4>2
      <4> HIDE DEF s, rest
      <4>5. /\ QueueOf(s) = q /\ key[s] # "fresh"
            /\ \A p \in Producers : Bringing(p) => pspec[p] # s
            /\ \A o \in Runners : rspec[o] # s
        BY <1>2, <4>4 DEF PlaceInv, ListsSound
      <4>6. \A p \in Producers : Bringing(p)' = Bringing(p) /\ pspec'[p] = pspec[p]
        BY <4>1 DEF Bringing
      <4>7. \A o \in Runners : (o = r /\ rspec'[o] = s) \/ (o # r /\ rspec'[o] = rspec[o])
        BY <4>1, <4>2
      <4>8. /\ queue'[q] = rest
            /\ \A w \in Queues : w # q => queue'[w] = queue[w]
        BY <4>1, <4>2
      <4>9. \A i \in DOMAIN rest : rest[i] # s
        BY <1>2, <4>3, <4>4 DEF PlaceInv, ListsSound
      <4>10. \A w \in Queues : w # q => \A i \in DOMAIN queue[w] : queue[w][i] # s
        BY <1>2, <4>5 DEF PlaceInv, ListsSound
      <4>11. \A i, j \in DOMAIN rest : rest[i] = rest[j] => i = j
        BY <1>2, <4>3 DEF PlaceInv, ListsSound
      <4>12. \A i \in DOMAIN rest :
              /\ QueueOf(rest[i]) = q /\ key[rest[i]] # "fresh"
              /\ \A p \in Producers : Bringing(p) => pspec[p] # rest[i]
              /\ \A o \in Runners : rspec[o] # rest[i]
        BY <1>2, <4>3 DEF PlaceInv, ListsSound
      <4>13. ListsSound'
        BY <1>2, <4>1, <4>6, <4>7, <4>8, <4>9, <4>10, <4>11, <4>12 DEF PlaceInv, ListsSound
      <4>14. HandsSound'
        BY <1>2, <4>1, <4>4, <4>5, <4>6, <4>7 DEF PlaceInv, HandsSound
      <4>15. QED
        BY <4>13, <4>14 DEF PlaceInv
    <3>3. QED
      BY <3>1, <3>2
  <2>6. ASSUME NEW r \in Runners, PutBack(r)
        PROVE  PlaceInv'
    <3> DEFINE s == rspec[r]
               h == QueueOf(s)
               new == <<s>> \o queue[h]
    <3>1. /\ queue' = [queue EXCEPT ![h] = new] /\ rspec' = [rspec EXCEPT ![r] = NoSpec]
          /\ rpc[r] = "putback" /\ UNCHANGED <<key, ppc, pspec>>
      BY <2>6 DEF PutBack, RunnerDrops
    <3>2. /\ queue \in [Queues -> Seq(Specs)] /\ rspec \in [Runners -> Specs \cup {NoSpec}]
          /\ s \in Specs /\ h \in Queues
      BY <1>2, <3>1 DEF TypeOK, RedisTypeOK, RunnerTypeOK, CarryingPC, QueueOf, Queues
    <3>3. /\ key[s] # "fresh"
          /\ \A p \in Producers : Bringing(p) => pspec[p] # s
          /\ \A o \in Runners : rspec[o] = s => o = r
          /\ \A q \in Queues : \A i \in DOMAIN queue[q] : queue[q][i] # s
      BY <1>2, <3>2 DEF PlaceInv, ListsSound, HandsSound
    <3>4. /\ \A p \in Producers : Bringing(p)' = Bringing(p) /\ pspec'[p] = pspec[p]
          /\ \A o \in Runners : (o = r /\ rspec'[o] = NoSpec) \/ (o # r /\ rspec'[o] = rspec[o])
      BY <3>1, <3>2 DEF Bringing
    <3>5. \A i \in DOMAIN new :
            /\ i \in 1..(Len(queue[h]) + 1)
            /\ i = 1 => new[i] = s
            /\ i # 1 => i - 1 \in DOMAIN queue[h] /\ new[i] = queue[h][i - 1]
      BY <3>2, ConsEntries
    <3> HIDE DEF new
    <3>6. /\ queue'[h] = new
          /\ \A q \in Queues : q # h => queue'[q] = queue[q]
      BY <3>1, <3>2
    <3>a. Len(queue[h]) \in Nat
      BY <3>2
    <3> HIDE DEF s, h
    <3>7. \A i, j \in DOMAIN new : new[i] = new[j] => i = j
      BY <1>2, <3>2, <3>3, <3>5, <3>a DEF PlaceInv, ListsSound
    <3>b. \A i \in DOMAIN new : new[i] = s \/ \E j \in DOMAIN queue[h] : new[i] = queue[h][j]
      BY <3>5
    <3>8. \A i \in DOMAIN new :
            /\ QueueOf(new[i]) = h /\ key[new[i]] # "fresh"
            /\ \A p \in Producers : Bringing(p) => pspec[p] # new[i]
            /\ \A o \in Runners : o # r => rspec[o] # new[i]
      BY <1>2, <3>2, <3>3, <3>b DEF PlaceInv, ListsSound, h
    <3>c. \A q \in Queues : \A i \in DOMAIN queue'[q] : queue'[q][i] \in Specs
      BY <1>2 DEF TypeOK, RedisTypeOK
    <3>9. ListsSound'
      BY <1>2, <3>1, <3>4, <3>6, <3>7, <3>8, <3>c DEF PlaceInv, ListsSound
    <3>10. HandsSound'
      BY <1>2, <3>1, <3>4, <1>2 DEF PlaceInv, HandsSound, TypeOK, ProducerTypeOK, Bringing
    <3>11. QED
      BY <3>9, <3>10 DEF PlaceInv
  <2>7. ASSUME \/ \E s \in Specs : ExpireSpec(s)
               \/ \E q \in Queues : ExpireQueue(q)
               \/ ExpireCounter
               \/ UNCHANGED vars
        PROVE  PlaceInv'
    <3>1. /\ UNCHANGED <<ppc, pspec, rspec>>
          /\ \A s \in Specs : key'[s] = "fresh" => key[s] = "fresh"
          /\ \A q \in Queues : queue'[q] = queue[q] \/ queue'[q] = <<>>
      BY <1>2, <2>7 DEF ExpireSpec, ExpireQueue, ExpireCounter, vars, TypeOK, RedisTypeOK
    <3>2. QED
      BY <1>2, <3>1, PlacesNarrow DEF Bringing
  <2>8. QED
    BY <1>2, <2>1, <2>2, <2>3, <2>4, <2>5, <2>6, <2>7 DEF Next, ProducerStep, RunnerStep,
       PopPriority, PopNormal, Queues
<1>3. QED
  BY <1>1, <1>2, TypeCorrect, PTL DEF Spec

\* No interleaving of tasks, retries, crashes and expiries makes two runs of one
\* spec possible.
THEOREM OnePlaceHolds == Spec => []OnePlace
<1>1. TypeOK /\ PlaceInv => OnePlace
  BY PlaceInvOnePlace
<1>2. QED
  BY <1>1, TypeCorrect, PlacesCorrect, PTL

-----------------------------------------------------------------------------

(* Outcomes of specs *)

\* The spec is in a list, or in somebody's hands.
Placed(s) == InQueue(s) # {} \/ WithProducer(s) # {} \/ WithRunner(s) # {}

\* The key is deleted after the outcome of the run was sent.
DeletesFinished == \A r \in Runners : rpc[r] = "delete" => verdict[rspec[r]] # "none"

OutcomeInv == NoSpecDropped /\ DeletesFinished

\* No step takes the outcome of a spec back.
LEMMA OutcomesStay ==
    ASSUME TypeOK, [Next]_vars
    PROVE  \A s \in Specs : verdict'[s] = "none" => verdict[s] = "none"
<1>1. TypeOK => verdict \in [Specs -> Verdicts]
  BY DEF TypeOK, RedisTypeOK
<1>2. ASSUME NEW p \in Producers, ProducerStep(p) \/ CrashProducer(p)
      PROVE  \A s \in Specs : verdict'[s] = "none" => verdict[s] = "none"
  BY <1>1, <1>2 DEF ProducerStep, Refuse, Publish, CheckQueueLimit, PushSpec, WakeRunner,
     CrashProducer
<1>3. ASSUME NEW r \in Runners, RunnerStep(r) \/ CrashRunner(r)
      PROVE  \A s \in Specs : verdict'[s] = "none" => verdict[s] = "none"
  <2>1. CASE ReadSpec(r)
    BY <1>1, <2>1 DEF ReadSpec
  <2>2. CASE Execute(r)
    BY <1>1, <2>2 DEF Execute
  <2>3. CASE CrashRunner(r)
    BY <1>1, <2>3 DEF CrashRunner
  <2>4. QED
    BY <1>3, <2>1, <2>2, <2>3 DEF RunnerStep, Incr, GiveUp, SetTTL, PopPriority, PopNormal, Pop,
       DeleteSpec, PutBack, Cleanup, DeleteCounter, RecheckPriority, RecheckNormal, Recheck
<1>4. CASE \/ \E s \in Specs : ExpireSpec(s)
           \/ \E q \in Queues : ExpireQueue(q)
           \/ ExpireCounter
           \/ UNCHANGED vars
  BY <1>1, <1>4 DEF ExpireSpec, ExpireQueue, ExpireCounter, vars
<1>5. QED
  BY <1>2, <1>3, <1>4 DEF Next

\* Who has, in the next state, the spec it had.
LEMMA PlacedByList ==
    ASSUME NEW s \in Specs, NEW i \in DOMAIN queue'[QueueOf(s)], queue'[QueueOf(s)][i] = s
    PROVE  Placed(s)'
  BY DEF Placed, InQueue

\* The same, with a producer or a runner that has the spec in hand.
LEMMA PlacedByProducer ==
    ASSUME NEW s \in Specs, NEW p \in Producers, ppc'[p] \in {"check", "push"}, pspec'[p] = s
    PROVE  Placed(s)'
  BY DEF Placed, WithProducer

LEMMA PlacedByRunner ==
    ASSUME NEW s \in Specs, NEW r \in Runners, rspec'[r] = s
    PROVE  Placed(s)'
  BY DEF Placed, WithRunner

\* A spec whose list, and whose holders, do not change stays where it is.
LEMMA StaysPlaced ==
    ASSUME NEW s \in Specs, Placed(s),
           queue'[QueueOf(s)] = queue[QueueOf(s)],
           \A p \in Producers : ppc[p] \in {"check", "push"} /\ pspec[p] = s
                                  => ppc'[p] \in {"check", "push"} /\ pspec'[p] = s,
           \A r \in Runners : rspec[r] = s => rspec'[r] = s
    PROVE  Placed(s)'
  BY DEF Placed, InQueue, WithProducer, WithRunner

\* And one that has a place now had it before.
LEMMA WasPlaced ==
    ASSUME OutcomeInv, NEW s \in Specs, key[s] # "fresh", verdict[s] = "none"
    PROVE  Placed(s)
  BY DEF OutcomeInv, NoSpecDropped, Placed

\* A spec that is out of its last place has an outcome.
THEOREM OutcomesCorrect == Spec => []OutcomeInv
<1> USE QueueAssumption
<1>1. Init => OutcomeInv
  BY DEF Init, OutcomeInv, NoSpecDropped, DeletesFinished
<1>2. ASSUME TypeOK, TypeOK', OutcomeInv, [Next]_vars PROVE OutcomeInv'
  <2> USE DEF ProducerAt, RunnerAt
  <2>t. /\ key \in [Specs -> {"fresh", "stored", "gone"}] /\ verdict \in [Specs -> Verdicts]
        /\ queue \in [Queues -> Seq(Specs)]
        /\ ppc \in [Producers -> ProducerPC] /\ pspec \in [Producers -> Specs \cup {NoSpec}]
        /\ rpc \in [Runners -> RunnerPC] /\ rspec \in [Runners -> Specs \cup {NoSpec}]
        /\ \A p \in Producers : ppc[p] # "idle" => pspec[p] \in Specs
        /\ \A r \in Runners : rpc[r] \in CarryingPC <=> rspec[r] \in Specs
    BY <1>2 DEF TypeOK, RedisTypeOK, ProducerTypeOK, RunnerTypeOK
  <2>1. DeletesFinished'
    <3> SUFFICES ASSUME NEW r \in Runners, rpc'[r] = "delete" PROVE verdict'[rspec'[r]] # "none"
      BY DEF DeletesFinished
    <3>1. rspec'[r] \in Specs
      BY <1>2 DEF TypeOK, RunnerTypeOK, CarryingPC
    <3>2. CASE rpc[r] = "delete" /\ rspec'[r] = rspec[r]
      BY <1>2, <3>1, <3>2, OutcomesStay DEF OutcomeInv, DeletesFinished
    <3>3. CASE Execute(r)
      BY <2>t, <3>1, <3>3 DEF Execute, RunnerGoes, RunnerDrops, CarryingPC
    <3>4. \/ Execute(r)
          \/ rpc[r] = "delete" /\ rspec'[r] = rspec[r]
      <4>1. ASSUME NEW x \in Runners, x # r \/ ~Execute(x), RunnerStep(x) \/ CrashRunner(x)
            PROVE  rpc[r] = "delete" /\ rspec'[r] = rspec[r]
        <5>1. \/ rpc' = rpc /\ rspec' = rspec
              \/ \E pc \in RunnerPC \ {"delete"} :
                    /\ rpc' = [rpc EXCEPT ![x] = pc]
                    /\ rspec' = rspec \/ \E s : rspec' = [rspec EXCEPT ![x] = s]
              \/ Execute(x)
          BY <4>1 DEF RunnerStep, Incr, GiveUp, SetTTL, PopPriority, PopNormal, Pop, ReadSpec,
             DeleteSpec, PutBack, Cleanup, DeleteCounter, RecheckPriority, RecheckNormal, Recheck,
             CrashRunner, RunnerGoes, RunnerDrops, RunnerReturns, RunnerPC, HoldingPC
        <5>2. CASE Execute(x)
          BY <2>t, <4>1, <5>2 DEF Execute, RunnerGoes, RunnerDrops
        <5>3. QED
          BY <2>t, <5>1, <5>2
      <4>2. ASSUME \/ \E p \in Producers : ProducerStep(p) \/ CrashProducer(p)
                   \/ \E s \in Specs : ExpireSpec(s)
                   \/ \E q \in Queues : ExpireQueue(q)
                   \/ ExpireCounter
                   \/ UNCHANGED vars
            PROVE  rpc[r] = "delete" /\ rspec'[r] = rspec[r]
        BY <4>2 DEF ProducerStep, Refuse, Publish, CheckQueueLimit, PushSpec, WakeRunner,
           CrashProducer, ExpireSpec, ExpireQueue, ExpireCounter, vars
      <4>3. QED
        BY <1>2, <4>1, <4>2 DEF Next
    <3>5. QED
      BY <3>2, <3>3, <3>4
  <2>2. NoSpecDropped'
    <3> SUFFICES ASSUME NEW s \in Specs, key'[s] # "fresh", verdict'[s] = "none"
                 PROVE  Placed(s)'
      BY DEF NoSpecDropped, Placed
    <3>0. verdict[s] = "none"
      BY <1>2, OutcomesStay
    <3>h. QueueOf(s) \in Queues
      BY DEF QueueOf, Queues
    <3>1. ASSUME NEW p \in Producers, NEW x \in Specs, Refuse(p, x) PROVE Placed(s)'
      BY <1>2, <2>t, <3>0, <3>1, WasPlaced, StaysPlaced DEF Refuse
    <3>2. ASSUME NEW p \in Producers, NEW x \in Specs, NEW l \in Limits, Publish(p, x, l)
          PROVE  Placed(s)'
      <4>1. CASE x = s
        BY <2>t, <3>2, <4>1, PlacedByProducer DEF Publish
      <4>2. CASE x # s
        <5>1. Placed(s)
          BY <1>2, <2>t, <3>0, <3>2, <4>2, WasPlaced DEF Publish
        <5>2. \A o \in Producers : ppc[o] \in {"check", "push"} /\ pspec[o] = s
                => ppc'[o] \in {"check", "push"} /\ pspec'[o] = s
          BY <2>t, <3>2 DEF Publish
        <5>3. queue' = queue /\ rspec' = rspec
          BY <3>2 DEF Publish
        <5>4. QED
          BY <5>1, <5>2, <5>3, StaysPlaced
      <4>3. QED
        BY <4>1, <4>2
    <3>3. ASSUME NEW p \in Producers, CheckQueueLimit(p) \/ WakeRunner(p) \/ CrashProducer(p)
          PROVE  Placed(s)'
      <4>1. /\ UNCHANGED <<queue, rspec, key>>
            /\ \A o \in Producers : ppc[o] \in {"check", "push"} /\ pspec[o] = s
                => ppc'[o] \in {"check", "push"} /\ pspec'[o] = s
        BY <2>t, <3>3 DEF CheckQueueLimit, WakeRunner, CrashProducer, ProducerGoes, ProducerReturns
      <4>2. QED
        BY <1>2, <3>0, <4>1, WasPlaced, StaysPlaced
    <3>4. ASSUME NEW p \in Producers, PushSpec(p) PROVE Placed(s)'
      <4> DEFINE h == QueueOf(pspec[p])
                 new == Append(queue[h], pspec[p])
      <4>1. /\ queue' = [queue EXCEPT ![h] = new] /\ UNCHANGED <<key, rspec, pspec>>
            /\ ppc[p] = "push" /\ ppc' = [ppc EXCEPT ![p] = "wake"]
        BY <3>4 DEF PushSpec, ProducerGoes
      <4>2. pspec[p] \in Specs /\ h \in Queues /\ queue[h] \in Seq(Specs)
        BY <2>t, <4>1 DEF QueueOf, Queues
      <4>3. queue'[h] = new
        BY <2>t, <4>1, <4>2
      <4>4. CASE s = pspec[p]
        <5>1. Len(queue[h]) + 1 \in DOMAIN new /\ new[Len(queue[h]) + 1] = s
          BY <4>2, <4>4
        <5>2. QED
          BY <4>3, <4>4, <5>1, PlacedByList
      <4>5. CASE s # pspec[p]
        <5>1. Placed(s)
          BY <1>2, <3>0, <4>1, WasPlaced
        <5>2. CASE InQueue(s) # {}
          <6>1. PICK i \in DOMAIN queue[QueueOf(s)] : queue[QueueOf(s)][i] = s
            BY <5>2 DEF InQueue
          <6>2. CASE QueueOf(s) = h
            <7>1. i \in DOMAIN new /\ new[i] = s
              BY <4>2, <6>1, <6>2
            <7>2. QED
              BY <4>3, <6>2, <7>1, PlacedByList
          <6>3. CASE QueueOf(s) # h
            BY <2>t, <3>h, <4>1, <6>1, <6>3, PlacedByList
          <6>4. QED
            BY <6>2, <6>3
        <5>3. CASE WithProducer(s) # {}
          BY <2>t, <4>1, <4>5, <5>3, PlacedByProducer DEF WithProducer
        <5>4. CASE WithRunner(s) # {}
          BY <4>1, <5>4, PlacedByRunner DEF WithRunner
        <5>5. QED
          BY <5>1, <5>2, <5>3, <5>4 DEF Placed
      <4>6. QED
        BY <4>4, <4>5
    <3>5. ASSUME NEW r \in Runners,
                 \/ \E l \in Limits : Incr(r, l)
                 \/ GiveUp(r) \/ SetTTL(r) \/ Cleanup(r) \/ DeleteCounter(r)
                 \/ RecheckPriority(r) \/ RecheckNormal(r)
          PROVE  Placed(s)'
      <4>1. UNCHANGED <<key, queue, ppc, pspec>>
        BY <3>5 DEF Incr, GiveUp, SetTTL, Cleanup, DeleteCounter, RecheckPriority, RecheckNormal,
           Recheck
      <4>2. /\ rspec' = rspec \/ rspec' = [rspec EXCEPT ![r] = NoSpec]
            /\ rpc[r] \notin CarryingPC
        BY <3>5 DEF Incr, GiveUp, SetTTL, Cleanup, DeleteCounter, RecheckPriority, RecheckNormal,
           Recheck, RunnerGoes, RunnerReturns, CarryingPC
      <4>3. \A o \in Runners : rspec[o] = s => rspec'[o] = s
        BY <2>t, <4>2
      <4>4. QED
        BY <1>2, <3>0, <4>1, <4>3, WasPlaced, StaysPlaced
    <3>6. ASSUME NEW r \in Runners, NEW q \in Queues, NEW pc, NEW empty, Pop(r, q, pc, empty),
                 pc \notin CarryingPC
          PROVE  Placed(s)'
      <4>1. CASE queue[q] = <<>>
        <5>1. UNCHANGED <<key, queue, ppc, pspec, rspec>>
          BY <3>6, <4>1 DEF Pop, RunnerGoes
        <5>2. QED
          BY <1>2, <3>0, <5>1, WasPlaced, StaysPlaced
      <4>2. CASE queue[q] # <<>>
        <5> DEFINE x == Head(queue[q])
                   rest == Tail(queue[q])
        <5>1. /\ queue' = [queue EXCEPT ![q] = rest] /\ rspec' = [rspec EXCEPT ![r] = x]
              /\ UNCHANGED <<key, ppc, pspec>> /\ rpc[r] = pc
          BY <3>6, <4>2 DEF Pop
        <5>2. queue[q] \in Seq(Specs) /\ rspec[r] \notin Specs
          BY <2>t, <3>6, <5>1
        <5>3. CASE s = x
          BY <2>t, <5>1, <5>3, PlacedByRunner
        <5>4. CASE s # x
          <6>1. Placed(s)
            BY <1>2, <3>0, <5>1, WasPlaced
          <6>2. CASE InQueue(s) # {}
            <7>1. PICK i \in DOMAIN queue[QueueOf(s)] : queue[QueueOf(s)][i] = s
              BY <6>2 DEF InQueue
            <7>2. CASE QueueOf(s) = q
              <8>1. i # 1
                BY <4>2, <5>2, <5>4, <7>1, <7>2
              <8>2. i - 1 \in DOMAIN rest /\ rest[i - 1] = s
                BY <4>2, <5>2, <7>1, <7>2, <8>1
              <8>3. queue'[q] = rest
                BY <2>t, <5>1
              <8>4. QED
                BY <7>2, <8>2, <8>3, PlacedByList
            <7>3. CASE QueueOf(s) # q
              BY <2>t, <3>h, <5>1, <7>1, <7>3, PlacedByList
            <7>4. QED
              BY <7>2, <7>3
          <6>3. CASE WithProducer(s) # {}
            BY <5>1, <6>3, PlacedByProducer DEF WithProducer
          <6>4. CASE WithRunner(s) # {}
            BY <2>t, <5>1, <5>2, <6>4, PlacedByRunner DEF WithRunner
          <6>5. QED
            BY <6>1, <6>2, <6>3, <6>4 DEF Placed
        <5>5. QED
          BY <5>3, <5>4
      <4>3. QED
        BY <4>1, <4>2
    <3>7. ASSUME NEW r \in Runners, ReadSpec(r) \/ Execute(r) \/ CrashRunner(r)
          PROVE  Placed(s)'
      <4>1. UNCHANGED <<key, queue, ppc, pspec>>
        BY <3>7 DEF ReadSpec, Execute, CrashRunner
      <4>2. \A o \in Runners : rspec[o] = s => rspec'[o] = s
        <5>1. CASE ReadSpec(r)
          BY <2>t, <3>0, <5>1 DEF ReadSpec, RunnerGoes, RunnerDrops
        <5>2. CASE Execute(r)
          BY <2>t, <3>0, <5>2 DEF Execute, RunnerGoes, RunnerDrops
        <5>3. CASE CrashRunner(r)
          BY <2>t, <3>0, <5>3 DEF CrashRunner, RunnerReturns
        <5>4. QED
          BY <3>7, <5>1, <5>2, <5>3
      <4>3. QED
        BY <1>2, <3>0, <4>1, <4>2, WasPlaced, StaysPlaced
    <3>8. ASSUME NEW r \in Runners, DeleteSpec(r) PROVE Placed(s)'
      <4>1. /\ UNCHANGED <<verdict, queue, ppc, pspec>>
            /\ key' = [key EXCEPT ![rspec[r]] = "gone"]
            /\ rspec' = [rspec EXCEPT ![r] = NoSpec] /\ rpc[r] = "delete"
        BY <3>8 DEF DeleteSpec, RunnerDrops
      <4>2. rspec[r] \in Specs /\ verdict[rspec[r]] # "none"
        BY <1>2, <2>t, <4>1 DEF OutcomeInv, DeletesFinished, CarryingPC
      <4>3. key[s] # "fresh" /\ \A o \in Runners : rspec[o] = s => rspec'[o] = s
        BY <2>t, <3>0, <4>1, <4>2
      <4>4. QED
        BY <1>2, <3>0, <4>1, <4>3, WasPlaced, StaysPlaced
    <3>9. ASSUME NEW r \in Runners, PutBack(r) PROVE Placed(s)'
      <4> DEFINE h == QueueOf(rspec[r])
                 new == <<rspec[r]>> \o queue[h]
      <4>1. /\ queue' = [queue EXCEPT ![h] = new] /\ rspec' = [rspec EXCEPT ![r] = NoSpec]
            /\ UNCHANGED <<key, ppc, pspec>> /\ rpc[r] = "putback"
        BY <3>9 DEF PutBack, RunnerDrops
      <4>2. rspec[r] \in Specs /\ h \in Queues /\ queue[h] \in Seq(Specs)
        BY <2>t, <4>1 DEF QueueOf, Queues, CarryingPC
      <4>3. queue'[h] = new
        BY <2>t, <4>1, <4>2
      <4>4. CASE s = rspec[r]
        <5>1. 1 \in DOMAIN new /\ new[1] = s
          BY <4>2, <4>4
        <5>2. QED
          BY <4>3, <4>4, <5>1, PlacedByList
      <4>5. CASE s # rspec[r]
        <5>1. Placed(s)
          BY <1>2, <3>0, <4>1, WasPlaced
        <5>2. CASE InQueue(s) # {}
          <6>1. PICK i \in DOMAIN queue[QueueOf(s)] : queue[QueueOf(s)][i] = s
            BY <5>2 DEF InQueue
          <6>2. CASE QueueOf(s) = h
            <7>1. i + 1 \in DOMAIN new /\ new[i + 1] = s
              BY <4>2, <6>1, <6>2
            <7>2. QED
              BY <4>3, <6>2, <7>1, PlacedByList
          <6>3. CASE QueueOf(s) # h
            BY <2>t, <3>h, <4>1, <6>1, <6>3, PlacedByList
          <6>4. QED
            BY <6>2, <6>3
        <5>3. CASE WithProducer(s) # {}
          BY <4>1, <5>3, PlacedByProducer DEF WithProducer
        <5>4. CASE WithRunner(s) # {}
          BY <2>t, <4>1, <4>5, <5>4, PlacedByRunner DEF WithRunner
        <5>5. QED
          BY <5>1, <5>2, <5>3, <5>4 DEF Placed
      <4>6. QED
        BY <4>4, <4>5
    <3>10. ASSUME (\E x \in Specs : ExpireSpec(x)) \/ ExpireCounter \/ UNCHANGED vars
           PROVE  Placed(s)'
      <4>1. UNCHANGED <<queue, ppc, pspec, rspec>> /\ key[s] # "fresh"
        BY <2>t, <3>10 DEF ExpireSpec, ExpireCounter, vars
      <4>2. QED
        BY <1>2, <3>0, <4>1, WasPlaced, StaysPlaced
    <3>11. ASSUME NEW q \in Queues, ExpireQueue(q) PROVE Placed(s)'
      <4>1. /\ UNCHANGED <<key, ppc, pspec, rspec>>
            /\ queue' = [queue EXCEPT ![q] = <<>>]
            /\ ~\E i \in DOMAIN queue[q] : queue[q][i] = s
        BY <3>11 DEF ExpireQueue
      <4>2. Placed(s)
        BY <1>2, <3>0, <4>1, WasPlaced
      <4>3. QED
        BY <2>t, <3>h, <4>1, <4>2 DEF Placed, InQueue, WithProducer, WithRunner
    <3>12. QED
      BY <1>2, <3>1, <3>2, <3>3, <3>4, <3>5, <3>6, <3>7, <3>8, <3>9, <3>10, <3>11
      DEF Next, ProducerStep, RunnerStep, PopPriority, PopNormal, Queues, CarryingPC
  <2>3. QED
    BY <2>1, <2>2 DEF OutcomeInv
<1>3. QED
  BY <1>1, <1>2, TypeCorrect, PTL DEF Spec

\* No published spec is dropped without an outcome.
THEOREM NoSpecDroppedHolds == Spec => []NoSpecDropped
<1>1. OutcomeInv => NoSpecDropped
  BY DEF OutcomeInv
<1>2. QED
  BY <1>1, OutcomesCorrect, PTL

(***************************************************************************)
(* Schedules and traces                                                    *)
(***************************************************************************)

RunRows ==
    [kind : {"unused", "schedule", "script"}, at : Times,
     place : {"none", "sent", "queued", "running", "over"},
     update : {"none", "sent", "watched", "changed"}, tries : Nat, results : Nat]

SchedulerTypes ==
    /\ row \in [exists : {"yes", "no"}, next : Times]
    /\ passed \subseteq Times /\ fresh \in Times
    /\ keys \subseteq Times /\ seen \subseteq Times
    /\ api \in [pc : {"idle", "save", "next"}, copy : Times]
    /\ sent \in [Times -> Nat] /\ expired \in [Times -> {0, 1}]
    /\ skipped \subseteq Times /\ edited \in {"yes", "no"}

TraceTypes ==
    /\ used \in 0..MaxRuns
    /\ run \in [Runs -> RunRows] /\ status \in [Runs -> Statuses]
    /\ nexts \in Nat /\ seq \in Nat /\ lost \in Nat
    /\ held \subseteq 1..seq /\ listed \subseteq 1..seq /\ trimmed \subseteq 1..seq

\* A run that has not begun has nothing; an update is about to be executed only
\* for a trace that is still pending.
RunsSound ==
    \A r \in Runs :
        /\ run[r].kind = "unused" <=> r > used
        /\ run[r].kind = "unused" =>
              run[r].place = "none" /\ run[r].update = "none" /\ run[r].results = 0
        /\ status[r] # "none" <=> run[r].kind = "script"
        /\ run[r].update = "watched" => status[r] = "pending"

\* A due time whose key is there has been dispatched, one whose key is not has
\* been dispatched only if the key has expired.
KeysSound ==
    \A t \in Times :
        /\ t \in keys => sent[t] >= 1
        /\ sent[t] <= IF t \in keys THEN 1 + expired[t] ELSE expired[t]

\* Nothing was lost, nothing edited and no key has expired.
NoTrouble == lost = 0 /\ edited = "no" /\ \A t \in Times : expired[t] = 0

\* A dispatched run that may still give the schedule its next time.
Live(r) == run[r].kind = "schedule" /\ (run[r].place # "over" \/ run[r].results > 0)

\* Without trouble one thing at a time is on the way to the next due time: a run,
\* a trace to be listed, or the message of a ScheduleNextTask; and while it is,
\* the present due time is one that was dispatched.
OneOnItsWay ==
    /\ \A r \in Runs : Live(r) =>
        /\ run[r].results = IF run[r].place = "over" THEN 1 ELSE 0
        /\ \A q \in Runs : Live(q) => q = r
        /\ held = {} /\ nexts = 0 /\ row.next \in keys
    /\ \A i \in held :
        held = {i} /\ nexts = 0 /\ row.next \in keys
    /\ nexts <= 1
    /\ nexts = 1 => row.next \in keys

TroubleFree ==
    NoTrouble =>
        /\ api.pc = "idle" /\ skipped = {}
        /\ seen \subseteq {row.next} \cup keys
        /\ OneOnItsWay

Above(ids, i) == {k \in ids : k > i}

\* What was trimmed has enough newer ids in the list.
TrimSound == \A j \in trimmed : Cardinality(Above(listed, j)) >= ListMax

RunsInv ==
    /\ SchedulerTypes /\ TraceTypes
    /\ RunsSound /\ KeysSound /\ TroubleFree /\ TrimSound /\ NewestKept

RunAction(r) == RunStep(r) \/ LoseRun(r) \/ TraceStep(r) \/ ExpireTrace(r)

\* The invariant of schedules and traces holds before the first dispatch.
LEMMA RunsStart == RunsInit => RunsInv
<1> USE RunsAssumption
<1> SUFFICES ASSUME RunsInit PROVE RunsInv
  OBVIOUS
<1>1. SchedulerTypes /\ TraceTypes
  BY DEF RunsInit, SchedulerTypes, TraceTypes, RunRows, Unused, Statuses, Runs, Times
<1>2. RunsSound
  BY DEF RunsInit, RunsSound, Unused, Runs
<1>3. KeysSound
  BY DEF RunsInit, KeysSound
<1>4. TroubleFree
  BY DEF RunsInit, TroubleFree, OneOnItsWay, Live, Unused
<1>5. TrimSound /\ NewestKept
  BY DEF RunsInit, TrimSound, NewestKept
<1> QED
  BY <1>1, <1>2, <1>3, <1>4, <1>5 DEF RunsInv

\* What the scheduler and the API do to the schedule.
LEMMA SchedulerTypesKept ==
  ASSUME SchedulerTypes, [RunsNext]_runVars
  PROVE  SchedulerTypes'
<1> USE RunsAssumption DEF SchedulerTypes, Times
<1>1. CASE TimePasses
  BY <1>1 DEF TimePasses, dispatchVars, runHistory
<1>2. CASE ReadDue
  BY <1>2 DEF ReadDue, IsDue, scheduleVars, runHistory
<1>3. ASSUME NEW t \in Times, Dispatch(t) PROVE SchedulerTypes'
  <2>1. sent' = sent \/ sent' = [sent EXCEPT ![t] = sent[t] + 1]
    BY <1>3 DEF Dispatch
  <2>2. sent' \in [Times -> Nat]
    <3>1. sent \in [Times -> Nat] /\ sent[t] + 1 \in Nat
      OBVIOUS
    <3>2. PICK n \in Nat : n = sent[t] + 1
      BY <3>1
    <3> HIDE DEF Times, SchedulerTypes
    <3> QED
      BY <2>1, <3>1, <3>2
  <2>3. keys' \subseteq Times /\ seen' = {}
    BY <1>3 DEF Dispatch
  <2> QED
    BY <1>3, <2>2, <2>3 DEF Dispatch, scheduleVars
<1>4. ASSUME NEW t \in Times, ExpireKey(t) PROVE SchedulerTypes'
  BY <1>4 DEF ExpireKey, scheduleVars
<1>5. CASE RunScript
  BY <1>5 DEF RunScript, scheduleVars, dispatchVars, runHistory
<1>6. CASE ReadForUpdate
  BY <1>6 DEF ReadForUpdate, scheduleVars, dispatchVars
<1>7. CASE SaveUpdate
  BY <1>7 DEF SaveUpdate, dispatchVars, runHistory
<1>8. CASE ScheduleUpdated
  <2>1. row' \in [exists : {"yes", "no"}, next : Times] /\ fresh' \in Times
    BY <1>8 DEF ScheduleUpdated, ScheduleNext
  <2>2. api' \in [pc : {"idle", "save", "next"}, copy : Times]
    BY <1>8 DEF ScheduleUpdated
  <2> QED
    BY <1>8, <2>1, <2>2 DEF ScheduleUpdated, dispatchVars, runHistory
<1>9. CASE DeleteSchedule
  BY <1>9 DEF DeleteSchedule, dispatchVars, runHistory
<1>10. ASSUME NEW r \in Runs, RunAction(r) PROVE SchedulerTypes'
  BY <1>10 DEF RunAction, RunStep, LoseRun, TraceStep, ExpireTrace, DropRun, BlockRun, Enqueue,
     RunByBroker, BeginRun, FinishRun, WatchTrace, ExecUpdate, SaveScriptTrace, NextTraceId,
     RunRest, UpdateRest, scheduleVars, dispatchVars, runHistory
<1>11. ASSUME NEW i \in held, SaveScheduleTrace(i) PROVE SchedulerTypes'
  BY <1>11 DEF SaveScheduleTrace, ListTrace, scheduleVars, dispatchVars, runHistory
<1>12. CASE RunScheduleNext
  BY <1>12 DEF RunScheduleNext, ScheduleNext, dispatchVars
<1>13. CASE LoseResult
  BY <1>13 DEF LoseResult, scheduleVars, dispatchVars, runHistory
<1>14. CASE UNCHANGED runVars
  BY <1>14 DEF runVars, scheduleVars, dispatchVars, runHistory
<1> QED
  BY <1>1, <1>2, <1>3, <1>4, <1>5, <1>6, <1>7, <1>8, <1>9, <1>10, <1>11, <1>12, <1>13, <1>14
     DEF RunsNext, ApiStep, RunAction

\* What a task does to its run and the trace of it.
RunMoved(r) ==
    /\ run' \in [Runs -> RunRows] /\ status' \in [Runs -> Statuses]
    /\ \A q \in Runs : q # r => run'[q] = run[q] /\ status'[q] = status[q]
    /\ run[r].kind # "unused" /\ run'[r].kind = run[r].kind
    /\ status'[r] = "none" <=> status[r] = "none"
    /\ run'[r].update = "watched" => status'[r] = "pending"
    /\ status[r] = "final" => status'[r] \in {"final", "gone"}
    /\ run[r].kind = "schedule" /\ lost' = 0 /\ Live(r)' =>
          /\ Live(r)
          /\ run[r].results = (IF run[r].place = "over" THEN 1 ELSE 0) =>
                run'[r].results = IF run'[r].place = "over" THEN 1 ELSE 0

\* Every task of a run but NextTraceId moves that run only.
LEMMA RunActionMoves ==
  ASSUME SchedulerTypes, TraceTypes, RunsSound, NEW r \in Runs,
         RunStep(r) \/ LoseRun(r) \/ WatchTrace(r) \/ ExecUpdate(r) \/ SaveScriptTrace(r) \/ ExpireTrace(r)
  PROVE  RunMoved(r) /\ UNCHANGED <<used, nexts, seq, held, listed, trimmed>> /\ lost' \in Nat
<1> USE RunsAssumption DEF TraceTypes, RunsSound, RunMoved, Live
<1>1. run[r] \in RunRows /\ run[r].tries \in Nat /\ run[r].results \in Nat
  BY DEF RunRows
<1> USE <1>1 DEF RunRest, UpdateRest, traceVars, Moves, Lose
<1>2. CASE DropRun(r)
  BY <1>2 DEF DropRun, RunRows
<1>3. CASE BlockRun(r)
  BY <1>3 DEF BlockRun, RunRows
<1>4. CASE Enqueue(r)
  BY <1>4 DEF Enqueue, RunRows
<1>5. CASE RunByBroker(r)
  BY <1>5 DEF RunByBroker, RunRows
<1>6. CASE BeginRun(r)
  BY <1>6 DEF BeginRun, RunRows
<1>7. CASE FinishRun(r)
  BY <1>7 DEF FinishRun, RunRows
<1>8. CASE LoseRun(r)
  BY <1>8 DEF LoseRun, RunRows
<1>9. CASE WatchTrace(r)
  BY <1>9 DEF WatchTrace, RunRows
<1>10. CASE ExecUpdate(r)
  BY <1>10 DEF ExecUpdate, RunRows, Statuses
<1>11. CASE SaveScriptTrace(r)
  <2>1. run[r].results - 1 \in Nat /\ TraceTouched(r) \in {"none", "sent", "changed"}
    BY <1>11 DEF SaveScriptTrace, TraceTouched, RunRows
  <2>2. PICK u \in {"none", "sent", "changed"} : u = TraceTouched(r)
    BY <2>1
  <2>3. run' = [run EXCEPT ![r].results = run[r].results - 1, ![r].update = u]
    BY <1>11, <2>2 DEF SaveScriptTrace
  <2>4. run' \in [Runs -> RunRows] /\ run'[r].kind = "script" /\ run[r].kind = "script" /\ run'[r].update = u
    <3>1. PICK n \in Nat : n = run[r].results - 1
      BY <2>1
    <3>2. run' = [run EXCEPT ![r] = [run[r] EXCEPT !.results = n, !.update = u]]
      BY <2>3, <3>1
    <3>3. [run[r] EXCEPT !.results = n, !.update = u] \in RunRows
      BY <2>2 DEF RunRows
    <3>4. run[r].kind = "script"
      BY <1>11 DEF SaveScriptTrace
    <3> QED
      BY <3>2, <3>3, <3>4 DEF RunRows
  <2>5. \A q \in Runs : q # r => run'[q] = run[q]
    BY <2>3
  <2>6. PICK x \in {"gone", "final"} : x = IF status[r] = "gone" THEN "gone" ELSE "final"
    OBVIOUS
  <2>7. status' = [status EXCEPT ![r] = x]
    BY <1>11, <2>6 DEF SaveScriptTrace
  <2>8. status' \in [Runs -> Statuses] /\ status'[r] = x /\ status[r] # "none"
    BY <2>4, <2>7 DEF Statuses
  <2>9. \A q \in Runs : q # r => status'[q] = status[q]
    BY <2>7
  <2>10. UNCHANGED <<used, nexts, seq, held, listed, trimmed, lost>>
    BY <1>11 DEF SaveScriptTrace
  <2> QED
    BY <2>4, <2>5, <2>8, <2>9, <2>10, Zenon
<1>12. CASE ExpireTrace(r)
  BY <1>12 DEF ExpireTrace, TraceTouched, RunRows, Statuses
<1> QED
  BY <1>2, <1>3, <1>4, <1>5, <1>6, <1>7, <1>8, <1>9, <1>10, <1>11, <1>12 DEF RunStep

\* StartRun makes the next run from an unused one.
LEMMA RunStarted ==
  ASSUME TraceTypes, NEW kind \in {"schedule", "script"}, NEW t \in Times, StartRun(kind, t)
  PROVE  /\ used + 1 \in Runs /\ used' = used + 1
         /\ run' \in [Runs -> RunRows]
         /\ \A q \in Runs : q # used + 1 => run'[q] = run[q]
         /\ run'[used + 1].kind = kind /\ run'[used + 1].place = "sent"
         /\ run'[used + 1].update = "none" /\ run'[used + 1].results = 0
<1>1. used + 1 \in Runs /\ used' = used + 1
  BY RunsAssumption DEF TraceTypes, StartRun, Runs
<1>2. PICK x \in RunRows :
        /\ x = [Unused EXCEPT !.kind = kind, !.at = t, !.place = "sent"]
        /\ x.kind = kind /\ x.place = "sent" /\ x.update = "none" /\ x.results = 0
  <2>1. PICK u \in RunRows : u = Unused /\ u.update = "none" /\ u.results = 0
    <3>1. 0 \in Times
      BY RunsAssumption DEF Times
    <3>2. Unused \in RunRows
      BY <3>1 DEF RunRows, Unused
    <3>3. Unused.update = "none" /\ Unused.results = 0
      BY DEF Unused
    <3> QED
      BY <3>2, <3>3
  <2>2. PICK x \in RunRows : x = [u EXCEPT !.kind = kind, !.at = t, !.place = "sent"]
    BY DEF RunRows
  <2> QED
    BY <2>1, <2>2 DEF RunRows
<1>3. run' = [run EXCEPT ![used + 1] = x]
  BY <1>2 DEF StartRun
<1> QED
  BY <1>1, <1>2, <1>3 DEF TraceTypes

\* NextTraceId: a result of the run becomes an id.
LEMMA ResultTaken ==
  ASSUME TraceTypes, NEW r \in Runs, NextTraceId(r)
  PROVE  /\ run' \in [Runs -> RunRows]
         /\ \A q \in Runs : q # r => run'[q] = run[q]
         /\ run[r].kind = "schedule" /\ run[r].results > 0 /\ run[r].results \in Nat
         /\ run'[r].kind = "schedule" /\ run'[r].place = run[r].place
         /\ run'[r].update = run[r].update /\ run'[r].results = run[r].results - 1
<1>1. run[r] \in RunRows /\ run[r].results \in Nat /\ run[r].results > 0 /\ run[r].kind = "schedule"
  BY DEF TraceTypes, NextTraceId, RunRows
<1>2. PICK n \in Nat : n = run[r].results - 1
  BY <1>1
<1>3. PICK x \in RunRows :
        /\ x = [run[r] EXCEPT !.results = n]
        /\ x.kind = run[r].kind /\ x.place = run[r].place /\ x.update = run[r].update /\ x.results = n
  <2>1. PICK u \in RunRows : u = run[r]
    BY <1>1
  <2>2. PICK x \in RunRows : x = [u EXCEPT !.results = n]
    BY DEF RunRows
  <2> QED
    BY <2>1, <2>2 DEF RunRows
<1>4. run' = [run EXCEPT ![r] = x]
  BY <1>2, <1>3 DEF NextTraceId
<1> QED
  BY <1>1, <1>2, <1>3, <1>4 DEF TraceTypes

\* LoseResult, unless it takes an id or a message
LEMMA ResultLost ==
  ASSUME TraceTypes, NEW r \in Runs, run[r].results > 0, run' = [run EXCEPT ![r].results = @ - 1]
  PROVE  /\ run' \in [Runs -> RunRows]
         /\ \A q \in Runs : q # r => run'[q] = run[q]
         /\ run'[r].kind = run[r].kind /\ run'[r].place = run[r].place /\ run'[r].update = run[r].update
<1>1. run[r] \in RunRows /\ run[r].results \in Nat
  BY DEF TraceTypes, RunRows
<1>2. PICK n \in Nat : n = run[r].results - 1
  BY <1>1
<1>3. PICK x \in RunRows :
        /\ x = [run[r] EXCEPT !.results = n]
        /\ x.kind = run[r].kind /\ x.place = run[r].place /\ x.update = run[r].update /\ x.results = n
  <2>1. PICK u \in RunRows : u = run[r]
    BY <1>1
  <2>2. PICK x \in RunRows : x = [u EXCEPT !.results = n]
    BY DEF RunRows
  <2> QED
    BY <2>1, <2>2 DEF RunRows
<1>4. run' = [run EXCEPT ![r] = x]
  BY <1>2, <1>3
<1> QED
  BY <1>1, <1>2, <1>3, <1>4 DEF TraceTypes

\* Runs, traces and ids keep their types.
LEMMA TraceTypesKept ==
  ASSUME SchedulerTypes, TraceTypes, RunsSound, [RunsNext]_runVars
  PROVE  TraceTypes'
<1> USE RunsAssumption
<1>1. CASE UNCHANGED <<used, run, status, nexts, lost, traceVars>>
  BY <1>1 DEF TraceTypes, traceVars
<1>2. ASSUME NEW t \in Times, Dispatch(t) PROVE TraceTypes'
  <2>1. run' \in [Runs -> RunRows] /\ used' \in 0..MaxRuns
    <3>1. CASE UNCHANGED <<used, run>>
      BY <3>1 DEF TraceTypes
    <3>2. CASE StartRun("schedule", t)
      BY <3>2, RunStarted DEF Runs
    <3> QED
      BY <1>2, <3>1, <3>2 DEF Dispatch
  <2> QED
    BY <1>2, <2>1 DEF Dispatch, TraceTypes, traceVars
<1>3. CASE RunScript
  <2>1. run' \in [Runs -> RunRows] /\ used' \in 0..MaxRuns /\ used + 1 \in Runs
    BY <1>3, RunStarted DEF RunScript, Runs, Times
  <2>2. status' \in [Runs -> Statuses]
    BY <1>3, <2>1 DEF RunScript, TraceTypes, Statuses
  <2> QED
    BY <1>3, <2>1, <2>2 DEF RunScript, TraceTypes, traceVars
<1>4. ASSUME NEW r \in Runs, RunAction(r) PROVE TraceTypes'
  <2>1. CASE NextTraceId(r)
    <3>1. run' \in [Runs -> RunRows]
      BY <2>1, ResultTaken
    <3>2. seq' \in Nat /\ held' \subseteq 1..seq' /\ listed' \subseteq 1..seq' /\ trimmed' \subseteq 1..seq'
      BY <2>1 DEF NextTraceId, TraceTypes
    <3> QED
      BY <2>1, <3>1, <3>2 DEF NextTraceId, TraceTypes
  <2>2. CASE ~NextTraceId(r)
    BY <1>4, <2>2, RunActionMoves DEF RunAction, TraceStep, RunMoved, TraceTypes
  <2> QED
    BY <2>1, <2>2
<1>5. ASSUME NEW i \in held, SaveScheduleTrace(i) PROVE TraceTypes'
  <2>1. held' \subseteq 1..seq /\ listed' \subseteq 1..seq /\ trimmed' \subseteq 1..seq
    BY <1>5 DEF SaveScheduleTrace, ListTrace, TraceTypes, Trim
  <2>2. UNCHANGED <<used, run, status, seq, lost>> /\ nexts' = nexts + 1
    BY <1>5 DEF SaveScheduleTrace, ListTrace
  <2> QED
    BY <2>1, <2>2 DEF TraceTypes
<1>6. CASE RunScheduleNext
  BY <1>6 DEF RunScheduleNext, TraceTypes, traceVars
<1>7. CASE LoseResult
  <2>1. run' \in [Runs -> RunRows]
    <3>1. CASE UNCHANGED run
      BY <3>1 DEF TraceTypes
    <3>2. ASSUME NEW r \in Runs, run[r].results > 0, run' = [run EXCEPT ![r].results = @ - 1]
          PROVE  run' \in [Runs -> RunRows]
      BY <3>2, ResultLost
    <3> QED
      BY <1>7, <3>1, <3>2 DEF LoseResult
  <2>2. nexts' \in Nat /\ held' \subseteq 1..seq /\ lost' \in Nat
    BY <1>7 DEF LoseResult, Lose, TraceTypes
  <2> QED
    BY <1>7, <2>1, <2>2 DEF LoseResult, TraceTypes
<1>8. CASE TimePasses \/ ReadDue \/ (\E t \in Times : ExpireKey(t)) \/ ReadForUpdate \/ SaveUpdate
           \/ ScheduleUpdated \/ DeleteSchedule \/ UNCHANGED runVars
  BY <1>1, <1>8 DEF TimePasses, ReadDue, ExpireKey, ReadForUpdate, SaveUpdate, ScheduleUpdated,
     DeleteSchedule, runVars
<1> QED
  BY <1>2, <1>3, <1>4, <1>5, <1>6, <1>7, <1>8 DEF RunsNext, ApiStep, RunAction

\* Runs are numbered as they start, and a watched trace is pending.
LEMMA RunsSoundKept ==
  ASSUME SchedulerTypes, TraceTypes, RunsSound, [RunsNext]_runVars
  PROVE  RunsSound'
<1> USE RunsAssumption
<1>1. CASE UNCHANGED <<used, run, status>>
  BY <1>1 DEF RunsSound
<1>2. ASSUME NEW t \in Times, Dispatch(t) PROVE RunsSound'
  <2>1. CASE UNCHANGED <<used, run>>
    BY <1>1, <1>2, <2>1 DEF Dispatch
  <2>2. CASE StartRun("schedule", t)
    <3>1. status' = status
      BY <1>2 DEF Dispatch
    <3>2. used \in 0..MaxRuns
      BY DEF TraceTypes
    <3> QED
      BY <2>2, <3>1, <3>2, RunStarted DEF RunsSound, Runs
  <2> QED
    BY <1>2, <2>1, <2>2 DEF Dispatch
<1>3. CASE RunScript
  <2>1. /\ used + 1 \in Runs /\ used' = used + 1
        /\ \A q \in Runs : q # used + 1 => run'[q] = run[q]
        /\ run'[used + 1].kind = "script" /\ run'[used + 1].place = "sent"
        /\ run'[used + 1].update = "none" /\ run'[used + 1].results = 0
    BY <1>3, RunStarted DEF RunScript, Times
  <2>2. status'[used + 1] = "pending" /\ \A q \in Runs : q # used + 1 => status'[q] = status[q]
    BY <1>3, <2>1 DEF RunScript, TraceTypes
  <2>3. used \in 0..MaxRuns
    BY DEF TraceTypes
  <2> QED
    BY <2>1, <2>2, <2>3 DEF RunsSound, Runs
<1>4. ASSUME NEW r \in Runs, RunAction(r) PROVE RunsSound'
  <2>1. CASE NextTraceId(r)
    <3>1. UNCHANGED <<used, status>>
      BY <2>1 DEF NextTraceId
    <3> QED
      BY <2>1, <3>1, ResultTaken DEF RunsSound
  <2>2. CASE ~NextTraceId(r)
    <3>1. RunMoved(r) /\ used' = used
      BY <1>4, <2>2, RunActionMoves DEF RunAction, TraceStep
    <3> QED
      BY <3>1 DEF RunMoved, RunsSound
  <2> QED
    BY <2>1, <2>2
<1>5. CASE LoseResult
  <2>1. UNCHANGED <<used, status>>
    BY <1>5 DEF LoseResult
  <2>2. CASE UNCHANGED run
    BY <1>1, <2>1, <2>2
  <2>3. ASSUME NEW r \in Runs, run[r].results > 0, run' = [run EXCEPT ![r].results = @ - 1]
        PROVE  RunsSound'
    BY <2>1, <2>3, ResultLost DEF RunsSound
  <2> QED
    BY <1>5, <2>2, <2>3 DEF LoseResult
<1>6. CASE TimePasses \/ ReadDue \/ (\E t \in Times : ExpireKey(t)) \/ ReadForUpdate \/ SaveUpdate
           \/ ScheduleUpdated \/ DeleteSchedule \/ (\E i \in held : SaveScheduleTrace(i))
           \/ RunScheduleNext \/ UNCHANGED runVars
  BY <1>1, <1>6 DEF TimePasses, ReadDue, ExpireKey, ReadForUpdate, SaveUpdate, ScheduleUpdated,
     DeleteSchedule, SaveScheduleTrace, ListTrace, RunScheduleNext, runVars
<1> QED
  BY <1>2, <1>3, <1>4, <1>5, <1>6 DEF RunsNext, ApiStep, RunAction

\* A due time is dispatched when its key is taken, and its key goes once.
LEMMA KeysSoundKept ==
  ASSUME SchedulerTypes, KeysSound, [RunsNext]_runVars
  PROVE  KeysSound'
<1>1. CASE UNCHANGED <<keys, sent, expired>>
  BY <1>1 DEF KeysSound
<1>2. ASSUME NEW t \in Times, Dispatch(t) PROVE KeysSound'
  <2>1. CASE t \in keys
    BY <1>1, <1>2, <2>1 DEF Dispatch
  <2>2. CASE t \notin keys
    <3>1. expired' = expired /\ keys' = keys \cup {t} /\ sent' = [sent EXCEPT ![t] = sent[t] + 1]
      BY <1>2, <2>2 DEF Dispatch
    <3>2. ASSUME NEW u \in Times, u # t PROVE sent'[u] = sent[u] /\ (u \in keys' <=> u \in keys)
      BY <3>1, <3>2
    <3>3. sent'[t] = sent[t] + 1 /\ t \in keys' /\ sent[t] \in Nat /\ expired[t] \in {0, 1}
      BY <3>1 DEF SchedulerTypes
    <3>4. sent[t] <= expired[t]
      BY <2>2 DEF KeysSound
    <3> QED
      BY <3>1, <3>2, <3>3, <3>4 DEF KeysSound
  <2> QED
    BY <2>1, <2>2
<1>3. ASSUME NEW t \in Times, ExpireKey(t) PROVE KeysSound'
  <2>1. sent' = sent /\ keys' = keys \ {t} /\ expired' = [expired EXCEPT ![t] = 1] /\ t \in keys /\ expired[t] = 0
    BY <1>3 DEF ExpireKey
  <2>2. ASSUME NEW u \in Times, u # t PROVE expired'[u] = expired[u] /\ (u \in keys' <=> u \in keys)
    BY <2>1, <2>2 DEF SchedulerTypes
  <2>3. expired'[t] = 1 /\ t \notin keys' /\ sent[t] \in Nat
    BY <2>1 DEF SchedulerTypes
  <2>4. sent[t] <= 1
    BY <2>1, <2>3 DEF KeysSound
  <2> QED
    BY <2>1, <2>2, <2>3, <2>4 DEF KeysSound
<1>4. ASSUME NEW r \in Runs, RunAction(r) PROVE KeysSound'
  BY <1>1, <1>4 DEF RunAction, RunStep, LoseRun, TraceStep, ExpireTrace, DropRun, BlockRun, Enqueue,
     RunByBroker, BeginRun, FinishRun, WatchTrace, ExecUpdate, SaveScriptTrace, NextTraceId,
     RunRest, UpdateRest, scheduleVars, dispatchVars, runHistory
<1>5. CASE TimePasses \/ ReadDue \/ RunScript \/ ReadForUpdate \/ SaveUpdate \/ ScheduleUpdated \/ DeleteSchedule
           \/ (\E i \in held : SaveScheduleTrace(i)) \/ RunScheduleNext \/ LoseResult \/ UNCHANGED runVars
  BY <1>1, <1>5 DEF TimePasses, ReadDue, RunScript, ReadForUpdate, SaveUpdate, ScheduleUpdated,
     DeleteSchedule, SaveScheduleTrace, ListTrace, RunScheduleNext, LoseResult, runVars, dispatchVars, runHistory
<1> QED
  BY <1>2, <1>3, <1>4, <1>5 DEF RunsNext, ApiStep, RunAction

-----------------------------------------------------------------------------
(* Without trouble *)

\* A dispatch begins what is on its way to the next due time.
LEMMA TroubleDispatch ==
  ASSUME SchedulerTypes, TraceTypes, RunsSound, KeysSound, TroubleFree, NEW t \in Times, Dispatch(t)
  PROVE  TroubleFree'
<1> SUFFICES ASSUME NoTrouble' PROVE TroubleFree!2'
  BY DEF TroubleFree
<1>1. NoTrouble /\ UNCHANGED <<row, api, skipped, nexts, held>> /\ seen' = {}
  BY DEF Dispatch, NoTrouble, scheduleVars, traceVars
<1>2. api.pc = "idle" /\ skipped = {} /\ t \in {row.next} \cup keys /\ OneOnItsWay
  BY <1>1 DEF TroubleFree, Dispatch
<1>3. CASE UNCHANGED <<keys, run>>
  BY <1>1, <1>2, <1>3 DEF OneOnItsWay, Live
<1>4. CASE t \notin keys /\ StartRun("schedule", t) /\ keys' = keys \cup {t}
  <2>1. t = row.next /\ row.next \notin keys
    BY <1>2, <1>4
  <2>2. held = {} /\ nexts = 0 /\ \A r \in Runs : ~Live(r)
    BY <1>2, <2>1 DEF OneOnItsWay, TraceTypes
  <2>3. \A r \in Runs : r # used + 1 => ~Live(r)'
    BY <1>4, <2>2, RunStarted DEF Live
  <2>4. used + 1 \in Runs /\ run'[used + 1].results = 0 /\ run'[used + 1].place = "sent"
    BY <1>4, RunStarted
  <2>5. row'.next \in keys'
    BY <1>1, <1>4, <2>1
  <2> QED
    BY <1>1, <1>2, <2>2, <2>3, <2>4, <2>5 DEF OneOnItsWay
<1> QED
  BY <1>3, <1>4 DEF Dispatch

\* ScheduleNextTask replaces a due time that was dispatched.
LEMMA TroubleNext ==
  ASSUME SchedulerTypes, TraceTypes, KeysSound, TroubleFree, RunScheduleNext
  PROVE  TroubleFree'
<1> SUFFICES ASSUME NoTrouble' PROVE TroubleFree!2'
  BY DEF TroubleFree
<1>1. NoTrouble /\ UNCHANGED <<api, run, held, keys, seen>> /\ nexts' = nexts - 1 /\ nexts > 0
  BY DEF RunScheduleNext, NoTrouble, dispatchVars, traceVars
<1>2. api.pc = "idle" /\ skipped = {} /\ seen \subseteq {row.next} \cup keys /\ OneOnItsWay
  BY <1>1 DEF TroubleFree
<1>3. nexts = 1 /\ row.next \in keys /\ held = {} /\ \A r \in Runs : ~Live(r)
  BY <1>1, <1>2 DEF OneOnItsWay, TraceTypes
<1>4. sent[row.next] >= 1 /\ sent[row.next] \in Nat
  BY <1>3 DEF KeysSound, SchedulerTypes
<1>5. skipped' = {}
  BY <1>2, <1>4 DEF RunScheduleNext
<1>6. seen' \subseteq keys'
  BY <1>1, <1>2, <1>3
<1> QED
  BY <1>1, <1>2, <1>3, <1>5, <1>6 DEF OneOnItsWay, Live

\* Without trouble one thing stays on the way to the next due time.
LEMMA TroubleFreeKept ==
  ASSUME SchedulerTypes, TraceTypes, RunsSound, KeysSound, TroubleFree, [RunsNext]_runVars
  PROVE  TroubleFree'
<1>1. ASSUME UNCHANGED <<run, keys, seen, skipped, nexts, held>>, row'.next = row.next,
             NoTrouble' => NoTrouble, NoTrouble' => api'.pc = api.pc
      PROVE  TroubleFree'
  BY <1>1 DEF TroubleFree, OneOnItsWay, Live
<1>2. CASE TimePasses \/ DeleteSchedule \/ UNCHANGED runVars
  <2>1. row'.next = row.next
    BY <1>2 DEF TimePasses, DeleteSchedule, SchedulerTypes, runVars, scheduleVars
  <2> QED
    BY <1>1, <1>2, <2>1 DEF TimePasses, DeleteSchedule, runVars, scheduleVars, dispatchVars, traceVars, runHistory,
       NoTrouble
<1>3. CASE ReadDue
  <2> SUFFICES ASSUME NoTrouble' PROVE TroubleFree!2'
    BY DEF TroubleFree
  <2>1. NoTrouble /\ UNCHANGED <<row, api, skipped, run, keys, nexts, held>> /\ seen' = {row.next}
    BY <1>3 DEF ReadDue, NoTrouble, scheduleVars, traceVars, runHistory
  <2> QED
    BY <2>1 DEF TroubleFree, OneOnItsWay, Live
<1>4. ASSUME NEW t \in Times, Dispatch(t) PROVE TroubleFree'
  BY <1>4, TroubleDispatch
<1>5. ASSUME NEW t \in Times, ExpireKey(t) PROVE TroubleFree'
  <2>1. expired'[t] = 1
    BY <1>5 DEF ExpireKey, SchedulerTypes
  <2> QED
    BY <2>1 DEF TroubleFree, NoTrouble
<1>6. CASE RunScript
  <2>1. UNCHANGED <<row, keys, seen, api, skipped, nexts, held, lost, edited, expired>>
    BY <1>6 DEF RunScript, scheduleVars, dispatchVars, traceVars, runHistory
  <2>2. NoTrouble' => NoTrouble
    BY <2>1 DEF NoTrouble
  <2>3. StartRun("script", 0) /\ 0 \in Times
    BY <1>6, RunsAssumption DEF RunScript, Times
  <2>4. ASSUME NEW r \in Runs PROVE Live(r)' => Live(r) /\ run'[r] = run[r]
    BY <2>3, RunStarted DEF Live
  <2> QED
    BY <2>1, <2>2, <2>4 DEF TroubleFree, OneOnItsWay
<1>7. CASE ReadForUpdate
  BY <1>7 DEF ReadForUpdate, TroubleFree, NoTrouble
<1>8. CASE SaveUpdate \/ ScheduleUpdated
  <2>1. UNCHANGED <<lost, edited, expired>> /\ api.pc # "idle"
    BY <1>8 DEF SaveUpdate, ScheduleUpdated, runHistory
  <2> QED
    BY <2>1 DEF TroubleFree, NoTrouble
<1>9. ASSUME NEW r \in Runs, RunAction(r) PROVE TroubleFree'
  <2>1. UNCHANGED <<row, keys, seen, api, skipped, edited, expired, nexts>>
    BY <1>9 DEF RunAction, RunStep, LoseRun, TraceStep, ExpireTrace, DropRun, BlockRun, Enqueue,
       RunByBroker, BeginRun, FinishRun, WatchTrace, ExecUpdate, SaveScriptTrace, NextTraceId,
       RunRest, UpdateRest, scheduleVars, dispatchVars, runHistory
  <2> SUFFICES ASSUME NoTrouble' PROVE TroubleFree!2'
    BY DEF TroubleFree
  <2>2. lost \in Nat /\ (lost' = lost \/ lost' = lost + 1)
    BY <1>9 DEF RunAction, RunStep, LoseRun, TraceStep, ExpireTrace, DropRun, BlockRun, Enqueue,
       RunByBroker, BeginRun, FinishRun, WatchTrace, ExecUpdate, SaveScriptTrace, NextTraceId,
       RunRest, UpdateRest, Lose, TraceTypes
  <2>3. lost' = 0 /\ NoTrouble
    BY <2>1, <2>2 DEF NoTrouble
  <2>4. api.pc = "idle" /\ skipped = {} /\ seen \subseteq {row.next} \cup keys /\ OneOnItsWay
    BY <2>3 DEF TroubleFree
  <2>5. CASE NextTraceId(r)
    <3>1. /\ \A q \in Runs : q # r => run'[q] = run[q]
          /\ run[r].kind = "schedule" /\ run[r].results > 0 /\ run[r].results \in Nat
          /\ run'[r].place = run[r].place /\ run'[r].results = run[r].results - 1
      BY <2>5, ResultTaken
    <3>2. Live(r)
      BY <3>1 DEF Live
    <3>3. /\ run[r].place = "over" /\ run[r].results = 1
          /\ \A q \in Runs : Live(q) => q = r
          /\ held = {} /\ nexts = 0 /\ row.next \in keys
      BY <2>4, <3>1, <3>2 DEF OneOnItsWay
    <3>4. \A q \in Runs : ~Live(q)'
      BY <3>1, <3>3 DEF Live
    <3>5. held' = {seq + 1}
      BY <2>5, <3>3 DEF NextTraceId
    <3> QED
      BY <2>1, <2>4, <3>3, <3>4, <3>5 DEF OneOnItsWay
  <2>6. CASE ~NextTraceId(r)
    <3>1. RunMoved(r) /\ UNCHANGED <<nexts, held>>
      BY <1>9, <2>6, RunActionMoves DEF RunAction, TraceStep
    <3>2. ASSUME NEW q \in Runs, Live(q)'
          PROVE  Live(q) /\ run'[q].results = IF run'[q].place = "over" THEN 1 ELSE 0
      <4>1. CASE q # r
        <5>1. run'[q] = run[q] /\ Live(q)
          BY <3>1, <3>2, <4>1 DEF RunMoved, Live
        <5> QED
          BY <2>4, <5>1 DEF OneOnItsWay
      <4>2. CASE q = r
        <5>1. run[r].kind = "schedule"
          BY <3>1, <3>2, <4>2 DEF RunMoved, Live
        <5>2. Live(r)
          BY <2>3, <3>1, <3>2, <4>2, <5>1 DEF RunMoved
        <5>3. run[r].results = IF run[r].place = "over" THEN 1 ELSE 0
          BY <2>4, <5>2 DEF OneOnItsWay
        <5> QED
          BY <2>3, <3>1, <3>2, <4>2, <5>1, <5>2, <5>3 DEF RunMoved
      <4> QED
        BY <4>1, <4>2
    <3> QED
      BY <2>1, <2>4, <3>1, <3>2 DEF OneOnItsWay
  <2> QED
    BY <2>5, <2>6
<1>10. ASSUME NEW i \in held, SaveScheduleTrace(i) PROVE TroubleFree'
  <2> SUFFICES ASSUME NoTrouble' PROVE TroubleFree!2'
    BY DEF TroubleFree
  <2>1. NoTrouble /\ UNCHANGED <<row, keys, seen, api, skipped, run>> /\ held' = held \ {i} /\ nexts' = nexts + 1
    BY <1>10 DEF SaveScheduleTrace, ListTrace, NoTrouble, scheduleVars, dispatchVars, runHistory
  <2>2. api.pc = "idle" /\ skipped = {} /\ seen \subseteq {row.next} \cup keys /\ OneOnItsWay
    BY <2>1 DEF TroubleFree
  <2>3. held = {i} /\ nexts = 0 /\ row.next \in keys /\ \A r \in Runs : ~Live(r)
    BY <2>2 DEF OneOnItsWay
  <2> QED
    BY <2>1, <2>2, <2>3 DEF OneOnItsWay, Live
<1>11. CASE RunScheduleNext
  BY <1>11, TroubleNext
<1>12. CASE LoseResult
  <2>1. lost' # 0
    BY <1>12 DEF LoseResult, Lose, TraceTypes
  <2> QED
    BY <2>1 DEF TroubleFree, NoTrouble
<1> QED
  BY <1>2, <1>3, <1>4, <1>5, <1>6, <1>7, <1>8, <1>9, <1>10, <1>11, <1>12 DEF RunsNext, ApiStep, RunAction

-----------------------------------------------------------------------------
(* The list of traces *)

\* A nonempty set of ids has a greatest element: the least upper bound.
LEMMA Greatest ==
  ASSUME NEW n \in Nat, NEW S, S \subseteq 1..n, S # {}
  PROVE  \E m \in S : \A x \in S : x <= m
<1> DEFINE U == {u \in Nat : \A x \in S : x <= u}
<1>1. n \in U
  OBVIOUS
<1>2. \E u \in U : \A v \in U : ~(<<v, u>> \in OpToRel(<, Nat))
  BY <1>1, NatLessThanWellFounded, WFMin
<1>3. PICK u \in U : \A v \in U : ~(<<v, u>> \in OpToRel(<, Nat))
  BY <1>2
<1>4. \A v \in U : u <= v
  <2>1. \A v \in U : ~(v < u)
    BY <1>3 DEF OpToRel
  <2> QED
    BY <2>1
<1>5. u \in S
  <2> SUFFICES ASSUME u \notin S PROVE FALSE
    OBVIOUS
  <2>1. PICK x \in S : TRUE
    OBVIOUS
  <2>2. u \in Nat /\ \A y \in S : y < u
    OBVIOUS
  <2>3. u - 1 \in U
    BY <2>1, <2>2
  <2> QED
    BY <1>4, <2>2, <2>3
<1> QED
  BY <1>5

\* A part of a set of ids has a number of elements, and no more than the set.
LEMMA Fewer ==
  ASSUME NEW n \in Nat, NEW S, S \subseteq 1..n, NEW T, T \subseteq S
  PROVE  Cardinality(T) \in Nat /\ Cardinality(S) \in Nat /\ Cardinality(T) <= Cardinality(S)
<1>1. IsFiniteSet(1..n)
  BY FS_Interval
<1>2. IsFiniteSet(S)
  BY <1>1, FS_Subset
<1>3. IsFiniteSet(T) /\ Cardinality(T) <= Cardinality(S)
  BY <1>2, FS_Subset
<1> QED
  BY <1>2, <1>3, FS_CardinalityType

\* What is newer than an id is newer than the ids before it.
LEMMA AboveShrinks ==
  ASSUME NEW n \in Nat, NEW ids, ids \subseteq 1..n, NEW i \in Int, NEW j \in Int, i <= j
  PROVE  /\ Cardinality(Above(ids, i)) \in Nat /\ Cardinality(Above(ids, j)) \in Nat
         /\ Cardinality(Above(ids, j)) <= Cardinality(Above(ids, i))
<1>1. Above(ids, i) \subseteq 1..n
  BY DEF Above
<1>2. ASSUME NEW x \in Above(ids, j) PROVE x \in Above(ids, i)
  <2>1. x \in ids /\ x \in 1..n /\ x > j
    BY <1>2 DEF Above
  <2>2. x > i
    BY <2>1
  <2> QED
    BY <2>1, <2>2 DEF Above
<1> QED
  BY <1>1, <1>2, Fewer

\* Trimming keeps the newest ids: what it keeps is newer than what it cuts, and
\* what has enough newer ids before has them afterwards.
LEMMA TrimKeepsNewest ==
  ASSUME NEW n \in Nat, NEW ids, ids \subseteq 1..n
  PROVE  /\ \A i \in ids \ Trim(ids), j \in Trim(ids) : j < i
         /\ \A j \in 1..n : Cardinality(Above(ids, j)) >= ListMax =>
                Cardinality(Above(ids \ Trim(ids), j)) >= ListMax
<1> USE RunsAssumption
<1>1. Trim(ids) = {i \in ids : Cardinality(Above(ids, i)) >= ListMax}
  BY DEF Trim, Above
<1>0. Trim(ids) \subseteq ids /\ \A x \in ids : x \in Int
  BY <1>1
<1>2. ASSUME NEW i \in ids \ Trim(ids), NEW j \in Trim(ids) PROVE j < i
  <2>0. i \in ids /\ i \in Int /\ j \in ids /\ j \in Int
    BY <1>0
  <2> SUFFICES ASSUME i <= j PROVE FALSE
    BY <2>0
  <2>2. /\ Cardinality(Above(ids, j)) \in Nat /\ Cardinality(Above(ids, i)) \in Nat
        /\ Cardinality(Above(ids, j)) <= Cardinality(Above(ids, i))
    BY <2>0, AboveShrinks
  <2> QED
    BY <1>1, <2>0, <2>2
<1>3. ASSUME NEW j \in 1..n, Cardinality(Above(ids, j)) >= ListMax
      PROVE  Cardinality(Above(ids \ Trim(ids), j)) >= ListMax
  <2>1. CASE \A x \in Trim(ids) : x <= j
    <3>1. Above(ids \ Trim(ids), j) = Above(ids, j)
      <4>1. Above(ids, j) \subseteq Above(ids \ Trim(ids), j)
        <5> SUFFICES ASSUME NEW x \in ids, x > j PROVE x \notin Trim(ids)
          BY DEF Above
        <5>1. x \in Int /\ j \in Int
          BY <1>0
        <5> QED
          BY <2>1, <5>1
      <4> QED
        BY <4>1 DEF Above
    <3> QED
      BY <1>3, <3>1
  <2>2. CASE \E x \in Trim(ids) : x > j
    <3>1. Trim(ids) \subseteq 1..n /\ Trim(ids) # {}
      BY <1>0, <2>2
    <3>2. PICK m \in Trim(ids) : \A x \in Trim(ids) : x <= m
      BY <3>1, Greatest
    <3>3. m > j
      BY <2>2, <3>1, <3>2
    <3>4. Above(ids, m) \subseteq Above(ids \ Trim(ids), j)
      <4>1. m \in Int /\ j \in Int
        BY <3>1
      <4>2. ASSUME NEW x \in ids, x > m PROVE x > j /\ x \notin Trim(ids)
        BY <1>0, <3>2, <3>3, <4>1, <4>2
      <4> QED
        BY <4>2 DEF Above
    <3>5. Above(ids \ Trim(ids), j) \subseteq 1..n
      BY DEF Above
    <3>6. /\ Cardinality(Above(ids, m)) \in Nat /\ Cardinality(Above(ids \ Trim(ids), j)) \in Nat
          /\ Cardinality(Above(ids, m)) <= Cardinality(Above(ids \ Trim(ids), j))
      BY <3>4, <3>5, Fewer
    <3>7. Cardinality(Above(ids, m)) >= ListMax
      BY <1>1, <3>2
    <3> QED
      BY <3>6, <3>7
  <2>3. \A x \in Trim(ids) : x \in Int
    BY <1>0
  <2> QED
    BY <2>1, <2>2, <2>3
<1> QED
  BY <1>2, <1>3

\* Listing an id and trimming keeps the newest.
LEMMA TrimKept ==
  ASSUME TraceTypes, TrimSound, NewestKept, NEW i \in held, ListTrace(i)
  PROVE  TrimSound' /\ NewestKept'
<1> USE RunsAssumption
<1> DEFINE ids == listed \cup {i}
<1>1. seq \in Nat /\ i \in 1..seq /\ listed \subseteq 1..seq /\ trimmed \subseteq 1..seq /\ ids \subseteq 1..seq
  BY DEF TraceTypes
<1>2. ASSUME NEW j \in trimmed PROVE Cardinality(Above(ids, j)) >= ListMax
  <2>1. Above(listed, j) \subseteq Above(ids, j) /\ Above(ids, j) \subseteq 1..seq
    BY <1>1 DEF Above
  <2>2. /\ Cardinality(Above(listed, j)) \in Nat /\ Cardinality(Above(ids, j)) \in Nat
        /\ Cardinality(Above(listed, j)) <= Cardinality(Above(ids, j))
    BY <1>1, <2>1, Fewer
  <2> QED
    BY <2>2 DEF TrimSound
<1>3. CASE ~(i > ListMax)
  <2>1. listed' = ids /\ trimmed' = trimmed
    BY <1>3 DEF ListTrace
  <2> QED
    BY <1>2, <1>3, <2>1 DEF TrimSound, NewestKept
<1>4. CASE i > ListMax
  <2>1. listed' = ids \ Trim(ids) /\ trimmed' = trimmed \cup Trim(ids)
    BY <1>4 DEF ListTrace
  <2>2. /\ \A k \in ids \ Trim(ids), j \in Trim(ids) : j < k
        /\ \A j \in 1..seq : Cardinality(Above(ids, j)) >= ListMax =>
               Cardinality(Above(ids \ Trim(ids), j)) >= ListMax
    BY <1>1, TrimKeepsNewest
  <2>3. \A j \in Trim(ids) : j \in 1..seq /\ Cardinality(Above(ids, j)) >= ListMax
    BY <1>1 DEF Trim, Above
  <2>4. \A j \in trimmed' : Cardinality(Above(listed', j)) >= ListMax
    BY <1>1, <1>2, <2>1, <2>2, <2>3
  <2>5. ASSUME NEW k \in listed', NEW j \in trimmed', k > ListMax PROVE j < k
    <3>1. CASE j \in Trim(ids)
      BY <2>1, <2>2, <2>5, <3>1
    <3>2. CASE j \in trimmed /\ k \in listed
      BY <2>5, <3>2 DEF NewestKept
    <3>3. CASE j \in trimmed /\ k = i
      <4> SUFFICES ASSUME i <= j PROVE FALSE
        BY <1>1, <3>3
      <4>1. i \in Int /\ j \in Int
        BY <1>1, <3>3
      <4>2. /\ Cardinality(Above(ids, j)) \in Nat /\ Cardinality(Above(ids, i)) \in Nat
            /\ Cardinality(Above(ids, j)) <= Cardinality(Above(ids, i))
        BY <1>1, <4>1, AboveShrinks
      <4>3. Cardinality(Above(ids, i)) >= ListMax
        BY <1>2, <3>3, <4>2
      <4>4. i \in Trim(ids)
        BY <4>3 DEF Trim, Above
      <4> QED
        BY <2>1, <2>5, <3>3, <4>4
    <3> QED
      BY <2>1, <2>5, <3>1, <3>2, <3>3
  <2> QED
    BY <2>4, <2>5 DEF TrimSound, NewestKept, Above
<1> QED
  BY <1>3, <1>4

\* Only SaveScheduleTrace changes the list.
LEMMA NewestKeptKept ==
  ASSUME TraceTypes, TrimSound, NewestKept, [RunsNext]_runVars
  PROVE  TrimSound' /\ NewestKept'
<1>1. CASE UNCHANGED <<listed, trimmed>>
  BY <1>1 DEF TrimSound, NewestKept
<1>2. ASSUME NEW i \in held, SaveScheduleTrace(i) PROVE TrimSound' /\ NewestKept'
  BY <1>2, TrimKept DEF SaveScheduleTrace
<1>3. ASSUME NEW r \in Runs, RunAction(r) PROVE TrimSound' /\ NewestKept'
  BY <1>1, <1>3 DEF RunAction, RunStep, LoseRun, TraceStep, ExpireTrace, DropRun, BlockRun, Enqueue,
     RunByBroker, BeginRun, FinishRun, WatchTrace, ExecUpdate, SaveScriptTrace, NextTraceId,
     RunRest, UpdateRest, traceVars
<1>4. CASE \/ TimePasses \/ ReadDue \/ (\E t \in Times : Dispatch(t) \/ ExpireKey(t)) \/ RunScript
           \/ ReadForUpdate \/ SaveUpdate \/ ScheduleUpdated \/ DeleteSchedule
           \/ RunScheduleNext \/ LoseResult \/ UNCHANGED runVars
  BY <1>1, <1>4 DEF TimePasses, ReadDue, Dispatch, ExpireKey, RunScript, ReadForUpdate, SaveUpdate,
     ScheduleUpdated, DeleteSchedule, RunScheduleNext, LoseResult, runVars, traceVars
<1> QED
  BY <1>2, <1>3, <1>4 DEF RunsNext, ApiStep, RunAction

\* Every step keeps the invariant of schedules and traces.
LEMMA RunsStepKept == RunsInv /\ [RunsNext]_runVars => RunsInv'
  BY SchedulerTypesKept, TraceTypesKept, RunsSoundKept, KeysSoundKept, TroubleFreeKept, NewestKeptKept
     DEF RunsInv

\* However the scheduler, edits, expired keys, lost and doubled runs interleave:
\* a due time is dispatched once per key, none is passed over as long as nothing
\* goes wrong, and the list keeps the newest traces (SchedulerTask,
\* ScheduleNextTask, RedisModel.save).
THEOREM DispatchIsSoundHolds == RunsSpec => []DispatchIsSound
<1>1. RunsInv => DispatchIsSound
  <2> SUFFICES ASSUME RunsInv PROVE DispatchIsSound
    OBVIOUS
  <2>1. OneRunPerTime
    <3> SUFFICES ASSUME NEW t \in Times PROVE sent[t] <= 1 + expired[t]
      BY DEF OneRunPerTime
    <3>1. sent[t] \in Nat /\ expired[t] \in {0, 1}
      BY DEF RunsInv, SchedulerTypes
    <3>2. sent[t] <= IF t \in keys THEN 1 + expired[t] ELSE expired[t]
      BY DEF RunsInv, KeysSound
    <3> QED
      BY <3>1, <3>2
  <2>2. NoTimeSkipped
    BY DEF RunsInv, TroubleFree, NoTrouble, NoTimeSkipped
  <2> QED
    BY <2>1, <2>2 DEF RunsInv, DispatchIsSound
<1> QED
  BY <1>1, RunsStart, RunsStepKept, PTL DEF RunsSpec

\* A trace that has its final status keeps it until it expires: no late
\* UpdateTraceTask and no other run overwrites it (RedisModel._update).
THEOREM FinalStatusStays == RunsSpec => FinalStays
<1> DEFINE Stay == \A r \in Runs : status[r] = "final" => status'[r] \in {"final", "gone"}
<1>1. ASSUME RunsInv, [RunsNext]_runVars PROVE [Stay]_runVars
  <2>0. SchedulerTypes /\ TraceTypes /\ RunsSound
    BY <1>1 DEF RunsInv
  <2>1. CASE UNCHANGED status
    BY <2>1
  <2>2. ASSUME NEW r \in Runs, RunAction(r) PROVE Stay
    <3>1. CASE NextTraceId(r)
      BY <3>1 DEF NextTraceId
    <3>2. CASE ~NextTraceId(r)
      <4>1. RunMoved(r)
        BY <2>0, <2>2, <3>2, RunActionMoves DEF RunAction, TraceStep
      <4> QED
        BY <4>1 DEF RunMoved
    <3> QED
      BY <3>1, <3>2
  <2>3. CASE RunScript
    <3>1. used + 1 \in Runs /\ used \in Nat
      BY <2>0, <2>3, RunsAssumption, RunStarted DEF RunScript, Times, TraceTypes
    <3>2. status[used + 1] = "none"
      BY <2>0, <3>1 DEF RunsSound
    <3> QED
      BY <2>0, <2>3, <3>1, <3>2 DEF RunScript, TraceTypes
  <2>4. CASE \/ TimePasses \/ ReadDue \/ (\E t \in Times : Dispatch(t) \/ ExpireKey(t)) \/ ReadForUpdate
             \/ SaveUpdate \/ ScheduleUpdated \/ DeleteSchedule
             \/ (\E i \in held : SaveScheduleTrace(i)) \/ RunScheduleNext \/ LoseResult \/ UNCHANGED runVars
    BY <2>1, <2>4 DEF TimePasses, ReadDue, Dispatch, ExpireKey, ReadForUpdate, SaveUpdate,
       ScheduleUpdated, DeleteSchedule, SaveScheduleTrace, ListTrace, RunScheduleNext, LoseResult, runVars
  <2> QED
    BY <1>1, <2>2, <2>3, <2>4 DEF RunsNext, ApiStep, RunAction
<1> QED
  BY <1>1, RunsStart, RunsStepKept, PTL DEF RunsSpec, FinalStays
=============================================================================
