---------------------------- MODULE BillingProofs ----------------------------
(***************************************************************************)
(* Theorems about metering and billing.  Metrics: with any number of hours *)
(* and any use, an hour that is done has all the usage that was in time,   *)
(* and the pipeline implements the promise that module Metering states.    *)
(* Billing: whatever plan changes, cancellations, metered usage, charges,  *)
(* retries and events do in between, nobody pays two plan fees for a month *)
(* unless a plan was changed in the grace period; and what the invoices of *)
(* a month ask for adds up to what was metered.                            *)
(***************************************************************************)
EXTENDS Billing, Metrics, Sums, FiniteSetTheorems, SequenceTheorems, WellFoundedInduction, TLAPS

-----------------------------------------------------------------------------
(* Metering *)

Entries == {"none", "queued", "done", "failed"}

MetricsTypes ==
    /\ clock \in Nat
    /\ coming \in [Minutes -> Nat] /\ counters \in [Minutes -> Nat] /\ onTime \in [Minutes -> Nat]
    /\ scanned \in [Minutes -> Nat] /\ minuteRows \in [Minutes -> Nat]
    /\ minuteEntry \in [Minutes -> Entries]
    /\ minuteTask \in [Minutes -> {"none", "sent", "scanned", "signal", "ended"}]
    /\ runner \in [on : {"yes", "no"}, next : Int, until : Int]
    /\ hourWork \in [HoursOfDay -> Entries]
    /\ hourTask \in [HoursOfDay -> {"none", "sent", "day", "charge", "ended"}]
    /\ DOMAIN hourTotals = HoursOfDay /\ chargesSent \subseteq HoursOfDay

\* A minute gets its entry and task when it is a minute old; until its task has
\* read the hash, every use that was in time is in it.
MinuteSound(m) ==
    /\ minuteEntry[m] = "none" => minuteTask[m] = "none"
    /\ minuteEntry[m] # "none" => m + MinuteDelay < clock
    /\ minuteTask[m] \in {"sent", "scanned"} => minuteEntry[m] = "queued"
    /\ minuteEntry[m] = "none" \/ minuteTask[m] = "sent" => counters[m] >= onTime[m]
    /\ minuteTask[m] = "scanned" => scanned[m] >= onTime[m]
    /\ minuteEntry[m] = "done" => minuteRows[m] >= onTime[m] /\ minuteTask[m] \in {"signal", "ended"}

\* An hour has an entry when the rows of its minutes are final, and is announced
\* at the end of the one task it gets.
HourSound(h) ==
    /\ hourWork[h] # "none" => \A m \in MinutesOf(h) : minuteTask[m] \in {"signal", "ended"}
    /\ hourWork[h] = "none" => hourTask[h] = "none"
    /\ hourTask[h] = "sent" => hourWork[h] = "queued"
    /\ hourTask[h] \in {"day", "charge"} => hourWork[h] = "done"
    /\ hourTask[h] # "ended" => h \notin chargesSent
    /\ hourWork[h] = "done" => hourTotals[h] = SumOfMinutes(h)

\* The runner is at the end of an hour and before it there is no entry.
RunnerSound ==
    runner.on = "yes" =>
        \E k \in Int : /\ runner.next = k * PerHour
                       /\ \A h \in HoursOfDay : h + 1 >= k => hourWork[h] = "none"

MetricsInv ==
    /\ MetricsTypes
    /\ \A m \in Minutes : MinuteSound(m)
    /\ \A h \in HoursOfDay : HourSound(h)
    /\ RunnerSound

\* A nonempty set of naturals has a least element, and one that is bounded has a
\* greatest.
LEMMA LeastOne ==
  ASSUME NEW S, S \subseteq Nat, S # {}
  PROVE  Min(S) \in S /\ \A x \in S : Min(S) <= x
<1>1. \E m \in S : \A x \in S : ~(<<x, m>> \in OpToRel(<, Nat))
  BY NatLessThanWellFounded, WFMin
<1>2. PICK m \in S : \A x \in S : ~(<<x, m>> \in OpToRel(<, Nat))
  BY <1>1
<1>3. \A x \in S : ~(x < m)
  BY <1>2 DEF OpToRel
<1>4. \A x \in S : m <= x
  BY <1>3
<1> QED
  BY <1>4 DEF Min

\* A nonempty set of naturals that is bounded has a greatest element.
LEMMA GreatestOne ==
  ASSUME NEW n \in Nat, NEW S, S \subseteq 0..n, S # {}
  PROVE  Max(S) \in S /\ \A x \in S : x <= Max(S)
<1> DEFINE U == {u \in Nat : \A x \in S : x <= u}
<1>1. n \in U
  OBVIOUS
<1>2. Min(U) \in U /\ \A v \in U : Min(U) <= v
  BY <1>1, LeastOne
<1>3. PICK u \in U : \A v \in U : u <= v
  BY <1>2
<1>4. u \in S
  <2> SUFFICES ASSUME u \notin S PROVE FALSE
    OBVIOUS
  <2>1. PICK x \in S : TRUE
    OBVIOUS
  <2>2. u \in Nat /\ \A y \in S : y < u
    OBVIOUS
  <2>3. u - 1 \in U
    BY <2>1, <2>2
  <2> QED
    BY <1>3, <2>2, <2>3
<1> QED
  BY <1>3, <1>4 DEF Max

\* Hours follow each other in the order of their first minutes.
LEMMA MulMono ==
  ASSUME NEW a \in Int, NEW b \in Int, a * PerHour <= b * PerHour
  PROVE  a <= b
<1>1. PerHour \in Nat \ {0}
  BY MetricsAssumption
<1> SUFFICES ASSUME a >= b + 1 PROVE FALSE
  OBVIOUS
<1>2. a * PerHour >= (b + 1) * PerHour
  BY <1>1
<1>3. (b + 1) * PerHour = b * PerHour + PerHour
  BY <1>1
<1>4. a * PerHour \in Int /\ b * PerHour \in Int
  BY <1>1
<1> QED
  BY <1>1, <1>2, <1>3, <1>4

\* The hour of an hour's first minute is that hour.
LEMMA DivMul ==
  ASSUME NEW k \in Int
  PROVE  (k * PerHour) \div PerHour = k
  BY MetricsAssumption

\* Every minute has an hour.
LEMMA DivInt ==
  ASSUME NEW x \in Int
  PROVE  x \div PerHour \in Int
  BY MetricsAssumption

\* The minute runner goes on after the last minute that has an entry.
LEMMA ResumeMinute ==
  ASSUME MetricsTypes, NEW m \in Minutes, GetResume("minute") <= m + 1
  PROVE  minuteEntry[m] = "none"
<1> SUFFICES ASSUME minuteEntry[m] # "none" PROVE FALSE
  OBVIOUS
<1> DEFINE S == EntriesOf("minute")
<1>1. S = {k + 1 : k \in {k \in Minutes : minuteEntry[k] # "none"}}
  BY DEF EntriesOf
<1>2. m + 1 \in S
  BY <1>1
<1>3. PICK n \in Nat : Minutes = 0..n \/ Minutes = {}
  <2>1. (MaxHour + 1) * PerHour - 1 \in Int
    BY MetricsAssumption
  <2>2. CASE (MaxHour + 1) * PerHour - 1 >= 0
    BY <2>1, <2>2 DEF Minutes
  <2>3. CASE (MaxHour + 1) * PerHour - 1 < 0
    BY <2>1, <2>3 DEF Minutes
  <2> QED
    BY <2>1, <2>2, <2>3
<1>4. S \subseteq 0..(n + 1) /\ S # {}
  BY <1>1, <1>2, <1>3
<1>5. Max(S) \in S /\ \A x \in S : x <= Max(S)
  BY <1>4, GreatestOne
<1>6. PICK last \in Nat : last = Max(S) /\ m + 1 <= last
  BY <1>2, <1>4, <1>5
<1>7. GetResume("minute") = last + 1
  BY <1>4, <1>6 DEF GetResume, StepOf
<1>8. m \in Nat
  BY DEF Minutes
<1> QED
  BY <1>6, <1>7, <1>8

\* A run of the hour runner begins after the last hour that has an entry.
LEMMA ResumeHour ==
  ASSUME MetricsTypes
  PROVE  \E k \in Int : /\ GetResume("hour") = k * PerHour
                        /\ \A h \in HoursOfDay : h + 1 >= k => hourWork[h] = "none"
<1>1. PerHour \in Nat \ {0} /\ MaxHour \in Nat /\ HourDelay \in Nat /\ HoursOfDay = 0..MaxHour
  BY MetricsAssumption DEF HoursOfDay
<1> DEFINE S == EntriesOf("hour")
<1>2. S = {(h + 1) * PerHour : h \in {h \in HoursOfDay : hourWork[h] # "none"}}
  BY DEF EntriesOf
<1>3. S \subseteq Nat
  BY <1>1, <1>2
<1>4. CASE S # {}
  <2>1. ASSUME NEW x \in S PROVE x <= (MaxHour + 1) * PerHour
    <3>1. PICK h \in 0..MaxHour : x = (h + 1) * PerHour
      BY <1>1, <1>2
    <3>2. PICK d \in Nat : MaxHour + 1 = h + 1 + d
      <4>1. MaxHour - h \in Nat /\ MaxHour + 1 = h + 1 + (MaxHour - h)
        BY <1>1
      <4> QED
        BY <4>1
    <3>3. (h + 1 + d) * PerHour = (h + 1) * PerHour + d * PerHour /\ d * PerHour >= 0
      BY <1>1
    <3> QED
      BY <1>1, <3>1, <3>2, <3>3
  <2>2. PICK n \in Nat : n = (MaxHour + 1) * PerHour
    BY <1>1
  <2>3. S \subseteq 0..n
    BY <1>3, <2>1, <2>2
  <2>4. Max(S) \in S /\ \A x \in S : x <= Max(S)
    BY <1>4, <2>3, GreatestOne
  <2>5. PICK last \in HoursOfDay : Max(S) = (last + 1) * PerHour
    BY <1>2, <2>4
  <2>6. GetResume("hour") = (last + 1) * PerHour + PerHour
    BY <1>4, <2>5 DEF GetResume, StepOf
  <2>7. (last + 1) * PerHour + PerHour = (last + 2) * PerHour /\ last + 2 \in Int
    BY <1>1
  <2>8. ASSUME NEW h \in HoursOfDay, hourWork[h] # "none" PROVE h <= last
    <3>1. (h + 1) * PerHour <= (last + 1) * PerHour
      BY <1>2, <2>4, <2>5, <2>8
    <3>2. h + 1 <= last + 1
      BY <1>1, <3>1, MulMono
    <3> QED
      BY <1>1, <3>2
  <2>9. \A h \in HoursOfDay : h + 1 >= last + 2 => hourWork[h] = "none"
    BY <1>1, <2>8
  <2> QED
    BY <2>6, <2>7, <2>9
<1>5. CASE S = {}
  <2>1. \A h \in HoursOfDay : hourWork[h] = "none"
    BY <1>2, <1>5
  <2>2. \E x \in Int : GetResume("hour") = Floor(x, "hour")
    <3> DEFINE all == EntriesOf("minute") \cup EntriesOf("hour")
    <3>1. CASE all = {}
      <4>1. GetResume("hour") = Floor(GetUntil("hour"), "hour")
        BY <1>5, <3>1 DEF GetResume
      <4>2. GetUntil("hour") \in Int
        BY <1>1 DEF GetUntil, MetricsTypes
      <4> QED
        BY <4>1, <4>2
    <3>2. CASE all # {}
      <4>1. GetResume("hour") = Floor(Min(all) + StepOf("hour"), "hour")
        BY <1>5, <3>2 DEF GetResume
      <4>2. all \subseteq Nat
        BY <1>3 DEF EntriesOf, Minutes
      <4>3. Min(all) \in Nat
        BY <3>2, <4>2, LeastOne
      <4>4. Min(all) + StepOf("hour") \in Int
        BY <1>1, <4>3 DEF StepOf
      <4> QED
        BY <4>1, <4>4
    <3> QED
      BY <3>1, <3>2
  <2>3. PICK x \in Int : GetResume("hour") = Floor(x, "hour")
    BY <2>2
  <2>4. Floor(x, "hour") = (x \div PerHour) * PerHour
    BY DEF Floor, StepOf
  <2>5. x \div PerHour \in Int
    BY DivInt
  <2> QED
    BY <2>1, <2>3, <2>4, <2>5
<1> QED
  BY <1>4, <1>5

\* What the minute runner does, whether or not its worker survives.
LEMMA MinuteRunnerStep ==
  ASSUME MetricsTypes, RunMinuteRunner
  PROVE  \E made \in SUBSET Minutes, told \in SUBSET Minutes :
            /\ told \subseteq made
            /\ \A m \in made : minuteEntry[m] = "none" /\ m + MinuteDelay < clock
            /\ minuteEntry' = [m \in Minutes |-> IF m \in made THEN "queued" ELSE minuteEntry[m]]
            /\ minuteTask' = [m \in Minutes |-> IF m \in told THEN "sent" ELSE minuteTask[m]]
<1> DEFINE todo == {m \in Minutes : GetResume("minute") <= m + 1 /\ m + 1 <= GetUntil("minute")}
<1>1. ASSUME NEW m \in todo PROVE minuteEntry[m] = "none" /\ m + MinuteDelay < clock
  <2>1. m \in Minutes /\ m \in Nat /\ GetResume("minute") <= m + 1 /\ m + 1 <= GetUntil("minute")
    BY <1>1 DEF Minutes
  <2>2. m + 1 <= clock - 1 /\ clock \in Nat
    BY <2>1 DEF GetUntil, MinuteDelay, MetricsTypes
  <2> QED
    BY <2>1, <2>2, ResumeMinute DEF MinuteDelay
<1>2. CASE /\ minuteEntry' = [m \in Minutes |-> IF m \in todo THEN "queued" ELSE minuteEntry[m]]
           /\ minuteTask' = [m \in Minutes |-> IF m \in todo THEN "sent" ELSE minuteTask[m]]
  <2> HIDE DEF todo
  <2>1. todo \subseteq Minutes
    BY DEF todo
  <2> QED
    BY <1>1, <1>2, <2>1
<1>3. ASSUME NEW last \in todo,
             minuteEntry' = [m \in Minutes |-> IF m \in {k \in todo : k <= last} THEN "queued" ELSE minuteEntry[m]],
             minuteTask' = [m \in Minutes |-> IF m \in {k \in todo : k < last} THEN "sent" ELSE minuteTask[m]]
      PROVE  \E made \in SUBSET Minutes, told \in SUBSET Minutes :
                /\ told \subseteq made
                /\ \A m \in made : minuteEntry[m] = "none" /\ m + MinuteDelay < clock
                /\ minuteEntry' = [m \in Minutes |-> IF m \in made THEN "queued" ELSE minuteEntry[m]]
                /\ minuteTask' = [m \in Minutes |-> IF m \in told THEN "sent" ELSE minuteTask[m]]
  <2>0. todo \subseteq Minutes /\ \A k \in todo : k \in Nat
    BY DEF Minutes
  <2> HIDE DEF todo
  <2>1. PICK made : made = {k \in todo : k <= last}
    OBVIOUS
  <2>2. PICK told : told = {k \in todo : k < last}
    OBVIOUS
  <2>3. told \subseteq made /\ made \subseteq todo
    BY <2>0, <2>1, <2>2
  <2> QED
    BY <1>1, <1>3, <2>0, <2>1, <2>2, <2>3
<1> QED
  BY <1>2, <1>3 DEF RunMinuteRunner

\* What a failed or killed AggregateMinuteTask leaves.
LEMMA LoseMinuteStep ==
  ASSUME MetricsTypes, NEW m \in Minutes, LoseMinute(m)
  PROVE  /\ minuteTask[m] \in {"sent", "scanned", "signal"}
         /\ minuteTask' = [minuteTask EXCEPT ![m] = "ended"]
         /\ scanned' = [scanned EXCEPT ![m] = 0]
         /\ counters' = counters \/ (minuteTask[m] = "scanned" /\ counters' = [counters EXCEPT ![m] = 0])
         /\ minuteEntry' = minuteEntry \/ minuteEntry' = [minuteEntry EXCEPT ![m] = "failed"]
         /\ UNCHANGED <<clock, coming, uses, onTime, minuteRows, runner, hourRuns, hourVars>>
<1>1. counters' = counters \/ (minuteTask[m] = "scanned" /\ counters' = [counters EXCEPT ![m] = 0])
  BY DEF LoseMinute
<1> QED
  BY <1>1 DEF LoseMinute

\* Steps of the hours, which leave the minutes alone.
HourStep ==
    \/ StartHourRunner \/ QueueHour \/ PassHour \/ FinishRunner
    \/ \E h \in HoursOfDay : StoreHour(h) \/ SignalDay(h) \/ SignalCharge(h) \/ LoseHour(h)

\* The tasks of hours change nothing of the minutes,
LEMMA HourStepFrame == HourStep => UNCHANGED <<clock, clientVars, minuteVars>>
  BY DEF HourStep, StartHourRunner, QueueHour, PassHour, FinishRunner, StoreHour, SignalDay, SignalCharge, LoseHour

\* Steps of the minutes, which leave the hours alone.
MinuteStep ==
    \/ NextMinute \/ NameBucket \/ RunMinuteRunner
    \/ \E m \in Minutes : Increment(m) \/ ScanBucket(m) \/ StoreMinute(m) \/ SignalMinute(m) \/ LoseMinute(m)

\* and those of minutes nothing of the hours.
LEMMA MinuteStepFrame == MinuteStep => UNCHANGED <<runner, hourVars>>
  BY DEF MinuteStep, NextMinute, NameBucket, RunMinuteRunner, Increment, ScanBucket, StoreMinute,
     SignalMinute, LoseMinute

MinuteTypes ==
    /\ clock \in Nat
    /\ coming \in [Minutes -> Nat] /\ counters \in [Minutes -> Nat] /\ onTime \in [Minutes -> Nat]
    /\ scanned \in [Minutes -> Nat] /\ minuteRows \in [Minutes -> Nat]
    /\ minuteEntry \in [Minutes -> Entries]
    /\ minuteTask \in [Minutes -> {"none", "sent", "scanned", "signal", "ended"}]

\* The clock, the clients and the tasks of minutes keep the types.
LEMMA MinuteTypesKept ==
  ASSUME MetricsTypes, MinuteStep
  PROVE  MinuteTypes'
<1>0. MinuteTypes
  BY DEF MetricsTypes, MinuteTypes
<1>1. CASE NextMinute
  BY <1>0, <1>1 DEF NextMinute, MinuteTypes, clientVars, minuteVars
<1>2. CASE NameBucket
  BY <1>0, <1>2 DEF NameBucket, MinuteTypes, minuteVars
<1>3. CASE RunMinuteRunner
  <2>1. UNCHANGED <<clock, clientVars, scanned, minuteRows>>
    BY <1>3 DEF RunMinuteRunner
  <2>2. PICK made \in SUBSET Minutes, told \in SUBSET Minutes :
            /\ minuteEntry' = [m \in Minutes |-> IF m \in made THEN "queued" ELSE minuteEntry[m]]
            /\ minuteTask' = [m \in Minutes |-> IF m \in told THEN "sent" ELSE minuteTask[m]]
    BY <1>3, MinuteRunnerStep
  <2> QED
    BY <1>0, <2>1, <2>2 DEF MinuteTypes, clientVars, Entries
<1>4. ASSUME NEW m \in Minutes, Increment(m) PROVE MinuteTypes'
  <2>1. UNCHANGED <<clock, minuteVars>>
    BY <1>4 DEF Increment
  <2>2. coming[m] - 1 \in Nat /\ counters[m] + 1 \in Nat /\ onTime[m] + 1 \in Nat
    BY <1>0, <1>4 DEF Increment, MinuteTypes
  <2>3. coming' \in [Minutes -> Nat] /\ counters' \in [Minutes -> Nat]
    BY <1>0, <1>4, <2>2 DEF Increment, MinuteTypes
  <2>4. onTime' \in [Minutes -> Nat]
    BY <1>0, <1>4, <2>2 DEF Increment, MinuteTypes
  <2> QED
    BY <1>0, <2>1, <2>3, <2>4 DEF MinuteTypes, minuteVars
<1>5. ASSUME NEW m \in Minutes, ScanBucket(m) PROVE MinuteTypes'
  BY <1>0, <1>5 DEF ScanBucket, MinuteTypes, clientVars
<1>6. ASSUME NEW m \in Minutes, StoreMinute(m) PROVE MinuteTypes'
  BY <1>0, <1>6 DEF StoreMinute, MinuteTypes, Entries
<1>7. ASSUME NEW m \in Minutes, SignalMinute(m) PROVE MinuteTypes'
  BY <1>0, <1>7 DEF SignalMinute, MinuteTypes, clientVars
<1>8. ASSUME NEW m \in Minutes, LoseMinute(m) PROVE MinuteTypes'
  <2>1. /\ minuteTask' = [minuteTask EXCEPT ![m] = "ended"]
        /\ scanned' = [scanned EXCEPT ![m] = 0]
        /\ counters' = counters \/ counters' = [counters EXCEPT ![m] = 0]
        /\ minuteEntry' = minuteEntry \/ minuteEntry' = [minuteEntry EXCEPT ![m] = "failed"]
        /\ UNCHANGED <<clock, coming, onTime, minuteRows>>
    BY <1>8, LoseMinuteStep
  <2> QED
    BY <1>0, <2>1 DEF MinuteTypes, Entries
<1> QED
  BY <1>1, <1>2, <1>3, <1>4, <1>5, <1>6, <1>7, <1>8 DEF MinuteStep

HourTypes ==
    /\ runner \in [on : {"yes", "no"}, next : Int, until : Int]
    /\ hourWork \in [HoursOfDay -> Entries]
    /\ hourTask \in [HoursOfDay -> {"none", "sent", "day", "charge", "ended"}]
    /\ DOMAIN hourTotals = HoursOfDay /\ chargesSent \subseteq HoursOfDay

\* The tasks of hours keep the types.
LEMMA HourTypesKept ==
  ASSUME MetricsTypes, HourStep
  PROVE  HourTypes'
<1> USE MetricsAssumption DEF HourTypes, Entries
<1>0. HourTypes
  BY DEF MetricsTypes
<1>1. NoRunner \in [on : {"yes", "no"}, next : Int, until : Int]
  BY DEF NoRunner
<1>2. Advance \in [on : {"yes", "no"}, next : Int, until : Int]
  BY <1>0 DEF Advance
<1>3. CASE StartHourRunner
  <2>1. GetResume("hour") \in Int
    BY ResumeHour
  <2>2. GetUntil("hour") \in Int
    BY DEF GetUntil, MetricsTypes
  <2>3. runner' \in [on : {"yes", "no"}, next : Int, until : Int]
    BY <1>0, <1>3, <2>1, <2>2 DEF StartHourRunner
  <2> QED
    BY <1>0, <1>3, <2>3 DEF StartHourRunner, hourVars
<1>4. CASE QueueHour
  BY <1>0, <1>1, <1>2, <1>4 DEF QueueHour
<1>5. CASE PassHour \/ FinishRunner
  BY <1>0, <1>1, <1>2, <1>5 DEF PassHour, FinishRunner, hourVars
<1>6. ASSUME NEW h \in HoursOfDay, StoreHour(h) PROVE HourTypes'
  BY <1>0, <1>6 DEF StoreHour
<1>7. ASSUME NEW h \in HoursOfDay, SignalDay(h) PROVE HourTypes'
  BY <1>0, <1>7 DEF SignalDay
<1>8. ASSUME NEW h \in HoursOfDay, SignalCharge(h) PROVE HourTypes'
  BY <1>0, <1>8 DEF SignalCharge
<1>9. ASSUME NEW h \in HoursOfDay, LoseHour(h) PROVE HourTypes'
  BY <1>0, <1>9 DEF LoseHour
<1> QED
  BY <1>3, <1>4, <1>5, <1>6, <1>7, <1>8, <1>9 DEF HourStep

\* Every step keeps the types.
LEMMA MetricsTypesKept ==
  ASSUME MetricsTypes, [MetricsNext]_metricsVars
  PROVE  MetricsTypes'
<1>0. MinuteTypes /\ HourTypes
  BY DEF MetricsTypes, MinuteTypes, HourTypes
<1>1. CASE MinuteStep
  <2>1. MinuteTypes'
    BY <1>1, MinuteTypesKept
  <2>2. HourTypes'
    BY <1>0, <1>1, MinuteStepFrame DEF HourTypes, hourVars
  <2> QED
    BY <2>1, <2>2 DEF MetricsTypes, MinuteTypes, HourTypes
<1>2. CASE HourStep
  <2>1. HourTypes'
    BY <1>2, HourTypesKept
  <2>2. MinuteTypes'
    BY <1>0, <1>2, HourStepFrame DEF MinuteTypes, clientVars, minuteVars
  <2> QED
    BY <2>1, <2>2 DEF MetricsTypes, MinuteTypes, HourTypes
<1>3. CASE UNCHANGED metricsVars
  BY <1>3 DEF MetricsTypes, metricsVars, clientVars, minuteVars, hourVars
<1> QED
  BY <1>1, <1>2, <1>3 DEF MetricsNext, MinuteStep, HourStep

\* Every step leaves the minutes sound.
LEMMA MinuteSoundKept ==
  ASSUME MetricsTypes, \A m \in Minutes : MinuteSound(m), MinuteStep, NEW k \in Minutes
  PROVE  MinuteSound(k)'
<1>0. MinuteSound(k) /\ MinuteTypes /\ k \in Nat
  BY DEF MetricsTypes, MinuteTypes, Minutes
<1>1. CASE NextMinute
  BY <1>0, <1>1 DEF NextMinute, MinuteSound, clientVars, minuteVars, MinuteTypes, MinuteDelay
<1>2. CASE NameBucket
  BY <1>0, <1>2 DEF NameBucket, MinuteSound, minuteVars
<1>3. CASE RunMinuteRunner
  <2>1. UNCHANGED <<clock, counters, onTime, scanned, minuteRows>>
    BY <1>3 DEF RunMinuteRunner, clientVars
  <2>2. PICK made \in SUBSET Minutes, told \in SUBSET Minutes :
            /\ told \subseteq made
            /\ \A m \in made : minuteEntry[m] = "none" /\ m + MinuteDelay < clock
            /\ minuteEntry' = [m \in Minutes |-> IF m \in made THEN "queued" ELSE minuteEntry[m]]
            /\ minuteTask' = [m \in Minutes |-> IF m \in told THEN "sent" ELSE minuteTask[m]]
    BY <1>3, MinuteRunnerStep
  <2>3. CASE k \in made
    <3>1. minuteEntry[k] = "none" /\ k + MinuteDelay < clock /\ minuteEntry'[k] = "queued"
          /\ minuteTask'[k] \in {"sent", "none"}
      BY <1>0, <2>2, <2>3 DEF MinuteSound
    <3> QED
      BY <1>0, <2>1, <3>1 DEF MinuteSound
  <2>4. CASE k \notin made
    <3>1. minuteEntry'[k] = minuteEntry[k] /\ minuteTask'[k] = minuteTask[k]
      BY <2>2, <2>4
    <3> QED
      BY <1>0, <2>1, <3>1 DEF MinuteSound
  <2> QED
    BY <2>3, <2>4
<1>4. ASSUME NEW m \in Minutes, Increment(m) PROVE MinuteSound(k)'
  <2>1. UNCHANGED <<clock, minuteEntry, minuteTask, scanned, minuteRows>>
    BY <1>4 DEF Increment, minuteVars
  <2>2. CASE k # m
    <3>1. counters'[k] = counters[k] /\ onTime'[k] = onTime[k]
      BY <1>0, <1>4, <2>2 DEF Increment, MinuteTypes
    <3> QED
      BY <1>0, <2>1, <3>1 DEF MinuteSound
  <2>3. CASE k = m
    <3>1. counters'[k] = counters[k] + 1 /\ onTime'[k] = IF clock <= k + MinuteDelay THEN onTime[k] + 1 ELSE onTime[k]
      BY <1>0, <1>4, <2>3 DEF Increment, MinuteTypes
    <3>2. counters[k] \in Nat /\ onTime[k] \in Nat /\ clock \in Nat
      BY <1>0 DEF MinuteTypes
    <3>3. minuteEntry[k] # "none" => ~(clock <= k + MinuteDelay)
      BY <1>0, <3>2 DEF MinuteSound, MinuteDelay
    <3>4. minuteEntry[k] # "none" => onTime'[k] = onTime[k]
      BY <3>1, <3>3
    <3>5. counters[k] >= onTime[k] => counters'[k] >= onTime'[k]
      BY <3>1, <3>2
    <3>6. minuteTask[k] = "scanned" => minuteEntry[k] # "none"
      BY <1>0 DEF MinuteSound
    <3> QED
      BY <1>0, <2>1, <3>4, <3>5, <3>6 DEF MinuteSound
  <2> QED
    BY <2>2, <2>3
<1>5. ASSUME NEW m \in Minutes, ScanBucket(m) PROVE MinuteSound(k)'
  BY <1>0, <1>5 DEF ScanBucket, MinuteSound, clientVars, MinuteTypes
<1>6. ASSUME NEW m \in Minutes, StoreMinute(m) PROVE MinuteSound(k)'
  <2>1. UNCHANGED <<clock, onTime>>
    BY <1>6 DEF StoreMinute
  <2>2. CASE k # m
    <3>1. /\ counters'[k] = counters[k] /\ minuteRows'[k] = minuteRows[k] /\ minuteEntry'[k] = minuteEntry[k]
          /\ minuteTask'[k] = minuteTask[k] /\ scanned'[k] = scanned[k]
      BY <1>0, <1>6, <2>2 DEF StoreMinute, MinuteTypes
    <3> QED
      BY <1>0, <2>1, <3>1 DEF MinuteSound
  <2>3. CASE k = m
    <3>1. /\ minuteRows'[k] = scanned[k] /\ minuteEntry'[k] = "done"
          /\ minuteTask'[k] \in {"signal", "ended"} /\ minuteTask[k] = "scanned"
      BY <1>0, <1>6, <2>3 DEF StoreMinute, MinuteTypes
    <3>2. scanned[k] >= onTime[k] /\ k + MinuteDelay < clock
      BY <1>0, <3>1 DEF MinuteSound
    <3> QED
      BY <2>1, <3>1, <3>2 DEF MinuteSound
  <2> QED
    BY <2>2, <2>3
<1>7. ASSUME NEW m \in Minutes, SignalMinute(m) PROVE MinuteSound(k)'
  BY <1>0, <1>7 DEF SignalMinute, MinuteSound, clientVars, MinuteTypes
<1>8. ASSUME NEW m \in Minutes, LoseMinute(m) PROVE MinuteSound(k)'
  <2>1. /\ minuteTask[m] \in {"sent", "scanned", "signal"}
        /\ minuteTask' = [minuteTask EXCEPT ![m] = "ended"]
        /\ scanned' = [scanned EXCEPT ![m] = 0]
        /\ counters' = counters \/ (minuteTask[m] = "scanned" /\ counters' = [counters EXCEPT ![m] = 0])
        /\ minuteEntry' = minuteEntry \/ minuteEntry' = [minuteEntry EXCEPT ![m] = "failed"]
        /\ UNCHANGED <<clock, onTime, minuteRows>>
    BY <1>8, LoseMinuteStep
  <2>2. CASE k # m
    <3>1. /\ counters'[k] = counters[k] /\ minuteEntry'[k] = minuteEntry[k]
          /\ minuteTask'[k] = minuteTask[k] /\ scanned'[k] = scanned[k]
      BY <1>0, <2>1, <2>2 DEF MinuteTypes
    <3> QED
      BY <1>0, <2>1, <3>1 DEF MinuteSound
  <2>3. CASE k = m
    <3>1. minuteTask'[k] = "ended" /\ minuteEntry'[k] \in {minuteEntry[k], "failed"} /\ minuteEntry[k] # "none"
      BY <1>0, <2>1, <2>3 DEF MinuteTypes, MinuteSound
    <3> QED
      BY <1>0, <2>1, <3>1 DEF MinuteSound
  <2> QED
    BY <2>2, <2>3
<1> QED
  BY <1>1, <1>2, <1>3, <1>4, <1>5, <1>6, <1>7, <1>8 DEF MinuteStep

\* A minute whose task is over stays so, and its rows stay.
LEMMA SettledMinute ==
  ASSUME MetricsTypes, \A m \in Minutes : MinuteSound(m), MinuteStep,
         NEW k \in Minutes, minuteTask[k] \in {"signal", "ended"}
  PROVE  minuteTask'[k] \in {"signal", "ended"} /\ minuteRows'[k] = minuteRows[k]
<1>0. MinuteSound(k) /\ MinuteTypes
  BY DEF MetricsTypes, MinuteTypes
<1>1. CASE RunMinuteRunner
  <2>1. UNCHANGED minuteRows
    BY <1>1 DEF RunMinuteRunner
  <2>2. PICK made \in SUBSET Minutes, told \in SUBSET Minutes :
            /\ told \subseteq made
            /\ \A m \in made : minuteEntry[m] = "none"
            /\ minuteTask' = [m \in Minutes |-> IF m \in told THEN "sent" ELSE minuteTask[m]]
    BY <1>1, MinuteRunnerStep
  <2>3. k \notin told
    BY <1>0, <2>2 DEF MinuteSound
  <2> QED
    BY <2>1, <2>2, <2>3
<1>2. ASSUME NEW m \in Minutes, StoreMinute(m) PROVE minuteTask'[k] \in {"signal", "ended"} /\ minuteRows'[k] = minuteRows[k]
  <2>1. m # k
    BY <1>2 DEF StoreMinute
  <2> QED
    BY <1>0, <1>2, <2>1 DEF StoreMinute, MinuteTypes
<1>3. ASSUME NEW m \in Minutes, ScanBucket(m) \/ SignalMinute(m) \/ LoseMinute(m)
      PROVE  minuteTask'[k] \in {"signal", "ended"} /\ minuteRows'[k] = minuteRows[k]
  BY <1>0, <1>3 DEF ScanBucket, SignalMinute, LoseMinute, MinuteTypes
<1>4. CASE NextMinute \/ NameBucket \/ \E m \in Minutes : Increment(m)
  BY <1>4 DEF NextMinute, NameBucket, Increment, minuteVars
<1> QED
  BY <1>1, <1>2, <1>3, <1>4 DEF MinuteStep

\* Every step leaves the hours sound: the rows of an hour's minutes do not change any more.
LEMMA HourSoundKept ==
  ASSUME MetricsTypes, \A m \in Minutes : MinuteSound(m), RunnerSound,
         [MetricsNext]_metricsVars, NEW h \in HoursOfDay, HourSound(h)
  PROVE  HourSound(h)'
<1>0. HourTypes /\ MinutesOf(h) \subseteq Minutes
  BY DEF MetricsTypes, HourTypes, MinutesOf
<1>1. CASE MinuteStep
  <2>1. UNCHANGED <<hourWork, hourTask, hourTotals, chargesSent>>
    BY <1>1, MinuteStepFrame DEF hourVars
  <2>2. CASE hourWork[h] = "none"
    BY <2>1, <2>2 DEF HourSound
  <2>3. CASE hourWork[h] # "none"
    <3>1. ASSUME NEW m \in MinutesOf(h)
          PROVE  minuteTask'[m] \in {"signal", "ended"} /\ minuteRows'[m] = minuteRows[m]
      BY <1>0, <1>1, <2>3, SettledMinute DEF HourSound
    <3>2. SumOfMinutes(h)' = SumOfMinutes(h)
      <4>1. [m \in MinutesOf(h) |-> minuteRows'[m]] = [m \in MinutesOf(h) |-> minuteRows[m]]
        BY <3>1
      <4> QED
        BY <4>1 DEF SumOfMinutes
    <3> QED
      BY <2>1, <3>1, <3>2 DEF HourSound
  <2> QED
    BY <2>2, <2>3
<1>2. CASE HourStep
  <2>1. UNCHANGED <<minuteEntry, minuteTask, minuteRows>>
    BY <1>2, HourStepFrame DEF minuteVars
  <2>2. SumOfMinutes(h)' = SumOfMinutes(h)
    BY <2>1 DEF SumOfMinutes
  <2>3. ASSUME UNCHANGED <<hourWork, hourTask, hourTotals, chargesSent>> PROVE HourSound(h)'
    BY <2>1, <2>2, <2>3 DEF HourSound
  <2>4. CASE StartHourRunner \/ PassHour \/ FinishRunner
    BY <2>3, <2>4 DEF StartHourRunner, PassHour, FinishRunner, hourVars
  <2>5. CASE QueueHour
    <3> DEFINE g == runner.next \div PerHour - 1
    <3>1. /\ runner.on = "yes" /\ g \in HoursOfDay /\ IsCovered(g)
          /\ hourWork' = [hourWork EXCEPT ![g] = "queued"]
          /\ hourTask' = [hourTask EXCEPT ![g] = "sent"] \/ hourTask' = hourTask
          /\ UNCHANGED <<hourTotals, chargesSent>>
      BY <2>5 DEF QueueHour
    <3>2. CASE h # g
      <4>1. hourWork'[h] = hourWork[h] /\ hourTask'[h] = hourTask[h]
        BY <1>0, <3>1, <3>2 DEF HourTypes
      <4> QED
        BY <2>1, <2>2, <3>1, <4>1 DEF HourSound
    <3>3. CASE h = g
      <4>1. PICK k \in Int : runner.next = k * PerHour /\ \A e \in HoursOfDay : e + 1 >= k => hourWork[e] = "none"
        BY <3>1 DEF RunnerSound
      <4>2. g = k - 1
        BY <4>1, DivMul
      <4>3. hourWork[h] = "none"
        BY <3>3, <4>1, <4>2
      <4>4. hourTask[h] = "none" /\ h \notin chargesSent
        BY <4>3 DEF HourSound
      <4>5. hourWork'[h] = "queued" /\ hourTask'[h] \in {"sent", "none"}
        BY <1>0, <3>1, <3>3, <4>4 DEF HourTypes
      <4>6. \A m \in MinutesOf(h) : minuteTask[m] \in {"signal", "ended"}
        BY <1>0, <3>1, <3>3 DEF IsCovered, MinuteSound
      <4> QED
        BY <2>1, <3>1, <4>4, <4>5, <4>6 DEF HourSound
    <3> QED
      BY <3>2, <3>3
  <2>6. ASSUME NEW g \in HoursOfDay, StoreHour(g) PROVE HourSound(h)'
    BY <1>0, <2>1, <2>2, <2>6 DEF StoreHour, HourSound, HourTypes
  <2>7. ASSUME NEW g \in HoursOfDay, SignalDay(g) PROVE HourSound(h)'
    BY <1>0, <2>1, <2>2, <2>7 DEF SignalDay, HourSound, HourTypes
  <2>8. ASSUME NEW g \in HoursOfDay, SignalCharge(g) PROVE HourSound(h)'
    BY <1>0, <2>1, <2>2, <2>8 DEF SignalCharge, HourSound, HourTypes
  <2>9. ASSUME NEW g \in HoursOfDay, LoseHour(g) PROVE HourSound(h)'
    BY <1>0, <2>1, <2>2, <2>9 DEF LoseHour, HourSound, HourTypes
  <2> QED
    BY <1>2, <2>4, <2>5, <2>6, <2>7, <2>8, <2>9 DEF HourStep
<1>3. CASE UNCHANGED metricsVars
  BY <1>3 DEF HourSound, SumOfMinutes, metricsVars, hourVars, minuteVars
<1> QED
  BY <1>1, <1>2, <1>3 DEF MetricsNext, MinuteStep, HourStep

\* Every step leaves the runner of hours sound.
LEMMA RunnerSoundKept ==
  ASSUME MetricsTypes, \A h \in HoursOfDay : HourSound(h), RunnerSound, [MetricsNext]_metricsVars
  PROVE  RunnerSound'
<1>0. HourTypes
  BY DEF MetricsTypes, HourTypes
<1>1. ASSUME UNCHANGED <<runner, hourWork>> PROVE RunnerSound'
  BY <1>1 DEF RunnerSound
<1>2. CASE MinuteStep \/ UNCHANGED metricsVars
  BY <1>1, <1>2, MinuteStepFrame DEF metricsVars, hourVars
<1>3. CASE StartHourRunner
  <2>1. UNCHANGED hourWork
    BY <1>3 DEF StartHourRunner, hourVars
  <2>2. CASE runner.on = "yes"
    BY <1>1, <1>3, <2>1, <2>2 DEF StartHourRunner
  <2>3. CASE runner.on # "yes"
    <3>1. runner'.next = GetResume("hour")
      BY <1>3, <2>3 DEF StartHourRunner
    <3> QED
      BY <2>1, <3>1, ResumeHour DEF RunnerSound
  <2> QED
    BY <2>2, <2>3
<1>4. ASSUME runner.on = "yes", runner' = Advance,
             \/ hourWork' = hourWork
             \/ hourWork' = [hourWork EXCEPT ![runner.next \div PerHour - 1] = "queued"]
      PROVE  RunnerSound'
  <2>1. PICK k \in Int : runner.next = k * PerHour /\ \A e \in HoursOfDay : e + 1 >= k => hourWork[e] = "none"
    BY <1>4 DEF RunnerSound
  <2>2. runner.next \div PerHour - 1 = k - 1
    BY <2>1, DivMul
  <2>3. runner'.next = k * PerHour + PerHour
    BY <1>0, <1>4, <2>1 DEF Advance, HourTypes
  <2>4. k * PerHour + PerHour = (k + 1) * PerHour /\ k + 1 \in Int
    BY MetricsAssumption
  <2>5. ASSUME NEW e \in HoursOfDay, e + 1 >= k + 1 PROVE hourWork'[e] = "none"
    <3>1. e \in Int /\ e # k - 1 /\ e + 1 >= k
      BY <2>5 DEF HoursOfDay
    <3> QED
      BY <1>0, <1>4, <2>1, <2>2, <3>1 DEF HourTypes
  <2> QED
    BY <2>3, <2>4, <2>5 DEF RunnerSound
<1>5. CASE QueueHour
  <2>1. CASE runner' = Advance
    BY <1>4, <1>5, <2>1 DEF QueueHour
  <2>2. CASE runner' = NoRunner
    BY <2>2 DEF RunnerSound, NoRunner
  <2> QED
    BY <1>5, <2>1, <2>2 DEF QueueHour
<1>6. CASE PassHour
  BY <1>4, <1>6 DEF PassHour, hourVars
<1>7. CASE FinishRunner
  BY <1>7 DEF FinishRunner, RunnerSound, NoRunner
<1>8. ASSUME NEW h \in HoursOfDay, StoreHour(h) \/ SignalDay(h) \/ SignalCharge(h) \/ LoseHour(h)
      PROVE  RunnerSound'
  <2>1. hourTask[h] # "none" /\ runner' = runner
    BY <1>8 DEF StoreHour, SignalDay, SignalCharge, LoseHour
  <2>2. hourWork[h] # "none"
    BY <2>1 DEF HourSound
  <2>3. ASSUME NEW e \in HoursOfDay, hourWork[e] = "none" PROVE hourWork'[e] = "none"
    <3>1. e # h
      BY <2>2, <2>3
    <3> QED
      BY <1>0, <1>8, <2>3, <3>1 DEF StoreHour, SignalDay, SignalCharge, LoseHour, HourTypes
  <2> QED
    BY <2>1, <2>3 DEF RunnerSound
<1> QED
  BY <1>2, <1>3, <1>5, <1>6, <1>7, <1>8 DEF MetricsNext, MinuteStep

\* Nothing is metered in the initial state.
LEMMA MetricsStart == MetricsInit => MetricsInv
<1> SUFFICES ASSUME MetricsInit PROVE MetricsInv
  OBVIOUS
<1>1. MetricsTypes
  BY DEF MetricsInit, MetricsTypes, Entries, NoRunner
<1>2. \A m \in Minutes : MinuteSound(m)
  BY DEF MetricsInit, MinuteSound
<1>3. \A h \in HoursOfDay : HourSound(h)
  BY DEF MetricsInit, HourSound
<1>4. RunnerSound
  BY DEF MetricsInit, RunnerSound, NoRunner
<1> QED
  BY <1>1, <1>2, <1>3, <1>4 DEF MetricsInv

\* The invariant of metering is inductive.
LEMMA MetricsStep == MetricsInv /\ [MetricsNext]_metricsVars => MetricsInv'
<1> SUFFICES ASSUME MetricsInv, [MetricsNext]_metricsVars PROVE MetricsInv'
  OBVIOUS
<1>1. MetricsTypes /\ (\A m \in Minutes : MinuteSound(m)) /\ (\A h \in HoursOfDay : HourSound(h)) /\ RunnerSound
  BY DEF MetricsInv
<1>2. MetricsTypes'
  BY <1>1, MetricsTypesKept
<1>3. ASSUME NEW k \in Minutes PROVE MinuteSound(k)'
  <2>1. CASE MinuteStep
    BY <1>1, <2>1, MinuteSoundKept
  <2>2. CASE HourStep
    BY <1>1, <2>2, HourStepFrame DEF MinuteSound, clientVars, minuteVars
  <2>3. CASE UNCHANGED metricsVars
    BY <1>1, <2>3 DEF MinuteSound, metricsVars, clientVars, minuteVars
  <2> QED
    BY <2>1, <2>2, <2>3 DEF MetricsNext, MinuteStep, HourStep
<1>4. \A h \in HoursOfDay : HourSound(h)'
  BY <1>1, HourSoundKept
<1>5. RunnerSound'
  BY <1>1, RunnerSoundKept
<1> QED
  BY <1>2, <1>3, <1>4, <1>5 DEF MetricsInv

\* For any length of an hour, delay, number of uses, failed statements and dead
\* workers: a use that was in time is in the rows of its minute, and the total of
\* an hour stays the sum of its minutes (apps/metrics).
THEOREM UsageIsCountedHolds == MetricsSpec => []UsageIsCounted
<1>1. MetricsInv => UsageIsCounted
  BY DEF MetricsInv, MinuteSound, HourSound, UsageIsCounted, PunctualUseCounted, HourIsItsMinutes
<1> QED
  BY <1>1, MetricsStart, MetricsStep, PTL DEF MetricsSpec

\* The entry of an hour as billing sees it.
Shown == [h \in HoursOfDay |-> IF hourWork[h] = "queued" THEN "none" ELSE hourWork[h]]

\* What the hours look like to billing changes by a step of Metering.
LEMMA MetricsStepIsMetering ==
  ASSUME MetricsInv, [MetricsNext]_metricsVars
  PROVE  [Abstract!MeteringNext]_(Abstract!meteringVars)
<1>0. MetricsTypes /\ HourTypes /\ \A h \in HoursOfDay : HourSound(h)
  BY DEF MetricsInv, MetricsTypes, HourTypes
<1>s. ASSUME UNCHANGED <<hourTotals, chargesSent>>, Shown' = Shown PROVE UNCHANGED Abstract!meteringVars
  BY <1>s DEF Abstract!meteringVars, Shown
<1>1. CASE MinuteStep \/ UNCHANGED metricsVars \/ StartHourRunner \/ PassHour \/ FinishRunner
  <2>1. UNCHANGED <<hourTotals, chargesSent, hourWork>>
    BY <1>1, MinuteStepFrame DEF metricsVars, hourVars, StartHourRunner, PassHour, FinishRunner
  <2> QED
    BY <1>s, <2>1 DEF Shown
<1>2. CASE QueueHour
  <2> DEFINE g == runner.next \div PerHour - 1
  <2>1. /\ runner.on = "yes" /\ g \in HoursOfDay
        /\ hourWork' = [hourWork EXCEPT ![g] = "queued"]
        /\ UNCHANGED <<hourTotals, chargesSent>>
    BY <1>2 DEF QueueHour
  <2>2. PICK k \in Int : runner.next = k * PerHour /\ \A e \in HoursOfDay : e + 1 >= k => hourWork[e] = "none"
    BY <2>1 DEF MetricsInv, RunnerSound
  <2>3. g = k - 1
    BY <2>2, DivMul
  <2>4. hourWork[g] = "none"
    BY <2>1, <2>2, <2>3
  <2>5. Shown' = Shown
    BY <1>0, <2>1, <2>4 DEF Shown, HourTypes
  <2> QED
    BY <1>s, <2>1, <2>5
<1>3. ASSUME NEW h \in HoursOfDay, StoreHour(h) PROVE Abstract!MeteringNext
  <2>1. /\ hourTotals' = [hourTotals EXCEPT ![h] = SumOfMinutes(h)]
        /\ hourWork' = [hourWork EXCEPT ![h] = "done"]
        /\ hourTask[h] = "sent" /\ UNCHANGED chargesSent
    BY <1>3 DEF StoreHour
  <2>2. hourWork[h] = "queued"
    BY <1>0, <2>1 DEF HourSound
  <2>3. Shown[h] = "none" /\ Shown' = [Shown EXCEPT ![h] = "done"]
    BY <1>0, <2>1, <2>2 DEF Shown, HourTypes
  <2>4. hourTotals' = [hourTotals EXCEPT ![h] = hourTotals'[h]]
    BY <1>0, <2>1 DEF HourTypes
  <2>5. Abstract!HourStored(h, hourTotals'[h])
    BY <2>1, <2>3, <2>4 DEF Abstract!HourStored, Shown
  <2> QED
    BY <2>5 DEF Abstract!MeteringNext
<1>4. ASSUME NEW h \in HoursOfDay, SignalDay(h) PROVE UNCHANGED Abstract!meteringVars
  BY <1>s, <1>4 DEF SignalDay, Shown
<1>5. ASSUME NEW h \in HoursOfDay, SignalCharge(h) PROVE Abstract!MeteringNext
  <2>1. hourTask[h] = "charge" /\ chargesSent' = chargesSent \cup {h} /\ UNCHANGED <<hourWork, hourTotals>>
    BY <1>5 DEF SignalCharge
  <2>2. hourWork[h] = "done" /\ h \notin chargesSent
    BY <1>0, <2>1 DEF HourSound
  <2>3. Shown[h] = "done" /\ Shown' = Shown
    BY <2>1, <2>2 DEF Shown
  <2>4. Abstract!HourAnnounced(h)
    BY <2>1, <2>2, <2>3 DEF Abstract!HourAnnounced, Shown
  <2> QED
    BY <2>4 DEF Abstract!MeteringNext
<1>6. ASSUME NEW h \in HoursOfDay, LoseHour(h) PROVE [Abstract!MeteringNext]_(Abstract!meteringVars)
  <2>1. /\ hourTask[h] \in {"sent", "day", "charge"} /\ UNCHANGED <<hourTotals, chargesSent>>
        /\ hourWork' = hourWork \/ hourWork' = [hourWork EXCEPT ![h] = "failed"]
    BY <1>6 DEF LoseHour
  <2>2. hourWork[h] \in {"queued", "done"} /\ h \notin chargesSent
    BY <1>0, <2>1 DEF HourSound
  <2>3. CASE hourWork' = hourWork
    BY <1>s, <2>1, <2>3 DEF Shown
  <2>4. CASE hourWork' = [hourWork EXCEPT ![h] = "failed"]
    <3>1. Shown[h] \in {"none", "done"} /\ Shown' = [Shown EXCEPT ![h] = "failed"]
      BY <1>0, <2>2, <2>4 DEF Shown, HourTypes
    <3>2. Abstract!HourFailed(h)
      BY <2>1, <2>2, <3>1 DEF Abstract!HourFailed, Shown
    <3> QED
      BY <3>2 DEF Abstract!MeteringNext
  <2> QED
    BY <2>1, <2>3, <2>4
<1> QED
  BY <1>1, <1>2, <1>3, <1>4, <1>5, <1>6 DEF MetricsNext, MinuteStep

\* Metrics implements what billing relies on: an hour's total is stored once, never
\* changes, and is announced once, by an hour that has it, for any failures of the
\* runners and tasks.
THEOREM MetricsImplementMetering == MetricsSpec => ImplementsMetering
<1>1. MetricsInit => Abstract!MeteringInit
  BY DEF MetricsInit, Abstract!MeteringInit
<1>2. MetricsInv /\ [MetricsNext]_metricsVars => [Abstract!MeteringNext]_(Abstract!meteringVars)
  BY MetricsStepIsMetering
<1> QED
  BY <1>1, <1>2, MetricsStart, MetricsStep, PTL DEF MetricsSpec, ImplementsMetering, Abstract!MeteringSpec

-----------------------------------------------------------------------------
(* Plans and their fees *)

SubRows ==
    [id : Nat \ {0}, offer : Offers \cup {Builder}, start : Nat, end : Nat, charged : Int,
     graced : {"yes", "no"}]

Ungraced(S) == \A s \in S : s.graced = "no"

\* Some plan that has begun was changed in the grace period, if any was.
GracedBegan(S, t) == Ungraced(S) \/ \E s \in S : s.graced = "yes" /\ s.start <= t

Numbered(S) == \E n \in Nat : \A s \in S : s.id <= n

\* Plans follow each other in the order of their ids; the free one is the first.
Following(S) ==
    /\ \A s, r \in S : s.id = r.id => s = r
    /\ \A s, r \in S : IsPaid(r.offer) /\ s.id < r.id => s.end <= r.start
    /\ \A s \in S : IF IsPaid(s.offer) THEN s.start < s.end ELSE s.id = 1

\* A plan that has not begun is paid and replaces, with the coming month, one
\* that has.
Begun(S, t) ==
    \A s \in S :
        \/ s.start <= t
        \/ /\ IsPaid(s.offer)
           /\ s.start = FirstOf(Month(t) + 1)
           /\ \E a \in S : IsPaid(a.offer) /\ a.start <= t /\ a.end = s.start

Orderly(S, t) == Following(S) /\ Begun(S, t)

\* A paid plan lasts to the end of the month, and the fee for it is charged.
Covered(S, t) ==
    \E s \in S : /\ IsPaid(s.offer) /\ s.start <= t
                 /\ FirstOf(Month(t) + 1) <= s.end /\ FirstOf(Month(t) + 1) <= s.charged

\* What the assumptions say of the constants of plans.
LEMMA PlanConstants ==
  /\ PerMonth \in Nat /\ PerMonth > 0 /\ Forever \in Nat /\ MaxTime \in Nat /\ Timeout \in Nat
  /\ Builder \notin Offers
BY SubscriptionsAssumption, BillingAssumption

\* A day is in its month.
LEMMA MonthBounds ==
  ASSUME NEW t \in Nat
  PROVE  /\ Month(t) \in Nat /\ FirstOf(Month(t) + 1) \in Nat
         /\ FirstOf(Month(t)) <= t /\ t < FirstOf(Month(t) + 1)
BY PlanConstants DEF Month, FirstOf

\* Months follow each other,
LEMMA FirstMono ==
  ASSUME NEW a \in Nat, NEW b \in Nat, a <= b
  PROVE  FirstOf(a) \in Nat /\ FirstOf(a) <= FirstOf(b)
<1>1. PICK d \in Nat : b = a + d
  <2>1. b - a \in Nat /\ b = a + (b - a)
    OBVIOUS
  <2> QED BY <2>1
<1>2. (a + d) * PerMonth = a * PerMonth + d * PerMonth
  BY PlanConstants
<1>3. d * PerMonth \in Nat /\ a * PerMonth \in Nat
  BY PlanConstants
<1> QED
  BY <1>1, <1>2, <1>3 DEF FirstOf

\* and a later day is not in an earlier month.
LEMMA MonthMono ==
  ASSUME NEW t \in Nat, NEW u \in Nat, t <= u
  PROVE  Month(t) <= Month(u)
<1> SUFFICES ASSUME Month(u) + 1 <= Month(t) PROVE FALSE
  BY MonthBounds
<1>1. FirstOf(Month(u) + 1) <= FirstOf(Month(t))
  BY MonthBounds, FirstMono
<1> QED
  BY <1>1, MonthBounds, FirstMono

\* The next day is in the same month, or the first of the next one.
LEMMA MonthNext ==
  ASSUME NEW t \in Nat
  PROVE  \/ Month(t + 1) = Month(t)
         \/ Month(t + 1) = Month(t) + 1 /\ FirstOf(Month(t) + 1) = t + 1
<1>1. Month(t) <= Month(t + 1) /\ Month(t + 1) \in Nat /\ Month(t) \in Nat
  BY MonthMono, MonthBounds
<1>2. FirstOf(Month(t + 1)) <= t + 1 /\ t < FirstOf(Month(t) + 1) /\ FirstOf(Month(t) + 1) \in Nat
  BY MonthBounds
<1>3. CASE Month(t + 1) >= Month(t) + 1
  <2>1. FirstOf(Month(t) + 1) <= FirstOf(Month(t + 1))
    BY <1>1, <1>3, FirstMono
  <2>2. FirstOf(Month(t) + 1) = t + 1
    <3>1. FirstOf(Month(t + 1)) \in Nat
      BY <1>1, FirstMono
    <3> QED
      BY <2>1, <1>2, <3>1
  <2>3. Month(t + 1) = Month(t) + 1
    <3>1. FirstOf(Month(t) + 1) = (Month(t) + 1) * PerMonth
      BY DEF FirstOf
    <3>2. \A k \in Nat : (k * PerMonth) \div PerMonth = k
      BY PlanConstants
    <3>3. Month(t) + 1 \in Nat
      BY <1>1
    <3>4. ((Month(t) + 1) * PerMonth) \div PerMonth = Month(t) + 1
      BY <3>2, <3>3
    <3> QED
      BY <2>2, <3>1, <3>4 DEF Month
  <2> QED
    BY <2>2, <2>3
<1> QED
  BY <1>1, <1>3

\* A change of plan begins later than the next day, with the coming month unless it is in
\* the grace period.
LEMMA Graceful ==
  ASSUME NEW t \in Nat, t <= MaxTime
  PROVE  /\ NextStart(t) \in Nat /\ t + 1 < NextStart(t) /\ NextStart(t) < Forever
         /\ FirstOf(Month(t) + 1) <= NextStart(t)
         /\ InGrace(t) \in {"yes", "no"}
         /\ InGrace(t) = "no" => NextStart(t) = FirstOf(Month(t) + 1)
<1>1. t + 1 < FirstOf(Month(t + 1) + 1) /\ FirstOf(Month(t + 1) + 1) \in Nat
  BY MonthBounds
<1>2. FirstOf(Month(t) + 1) <= FirstOf(Month(t + 1) + 1) /\ FirstOf(Month(t) + 1) \in Nat
  BY MonthBounds, MonthMono, FirstMono
<1>3. FirstOf(Month(t + 1) + 1) <= FirstOf(Month(MaxTime + 1) + 1)
  <2>1. t + 1 <= MaxTime + 1 /\ MaxTime + 1 \in Nat
    BY PlanConstants
  <2>2. Month(t + 1) <= Month(MaxTime + 1) /\ Month(t + 1) \in Nat /\ Month(MaxTime + 1) \in Nat
    BY <2>1, MonthMono, MonthBounds
  <2> QED
    BY <2>2, FirstMono
<1>4. FirstOf(Month(MaxTime + 1) + 1) < Forever /\ FirstOf(Month(MaxTime + 1) + 1) \in Nat
  BY BillingAssumption, MonthBounds, PlanConstants DEF Grace
<1>5. InGrace(t) \in {"yes", "no"} /\ (InGrace(t) = "no" => Month(t + 1) = Month(t))
  BY DEF InGrace, Grace
<1> QED
  BY <1>1, <1>2, <1>3, <1>4, <1>5, PlanConstants DEF NextStart, Grace

\* A nonempty set of rows has one with the last id.
LEMMA TopOne ==
  ASSUME NEW S, S \subseteq SubRows, S # {}, Numbered(S)
  PROVE  \E s \in S : \A r \in S : r.id <= s.id
<1>1. PICK n \in Nat : \A s \in S : s.id <= n
  BY DEF Numbered
<1> DEFINE Bounds == {u \in Nat : \A s \in S : s.id <= u}
<1>2. Bounds \subseteq Nat /\ Bounds # {}
  BY <1>1
<1>4. PICK u \in Bounds : \A x \in Bounds : u <= x
  BY <1>2, LeastOne
<1>5. \E s \in S : s.id = u
  <2> SUFFICES ASSUME \A s \in S : s.id # u PROVE FALSE
    OBVIOUS
  <2>1. \A s \in S : s.id \in Nat \ {0} /\ s.id <= u
    BY <1>4 DEF SubRows
  <2>2. PICK s \in S : TRUE
    OBVIOUS
  <2>3. u - 1 \in Bounds
    BY <2>1, <2>2
  <2> QED
    BY <1>4, <2>3
<1> QED
  BY <1>5

\* FreshId is an id that no row has.
LEMMA Fresh ==
  ASSUME NEW S, S \subseteq SubRows, Numbered(S)
  PROVE  FreshId(S) \in Nat \ {0} /\ \A s \in S : s.id < FreshId(S)
<1>1. CASE S = {}
  BY <1>1 DEF FreshId
<1>2. CASE S # {}
  <2>1. PICK s \in S : \A r \in S : r.id <= s.id
    BY <1>2, TopOne
  <2>2. \E n \in {r.id : r \in S} : \A r \in S : r.id <= n
    BY <2>1
  <2> DEFINE top == CHOOSE n \in {r.id : r \in S} : \A r \in S : r.id <= n
  <2>4. top \in {r.id : r \in S} /\ \A r \in S : r.id <= top
    BY <2>2
  <2>5. top \in Nat /\ \A r \in S : r.id \in Nat
    BY <2>4 DEF SubRows
  <2>6. FreshId(S) = 1 + top
    BY <1>2 DEF FreshId
  <2> HIDE DEF top
  <2> QED
    BY <2>4, <2>5, <2>6
<1> QED
  BY <1>1, <1>2

\* The id of an active paid row is the last of those that have begun.
LEMMA ActiveIsLast ==
  ASSUME NEW S, S \subseteq SubRows, Following(S), NEW t \in Nat,
         NEW row \in S, IsPaid(row.offer), t < row.end,
         NEW r \in S, r.start <= t
  PROVE  r.id <= row.id
<1> SUFFICES ASSUME row.id < r.id PROVE FALSE
  BY DEF SubRows
<1>1. IsPaid(r.offer)
  BY DEF Following, SubRows
<1>2. row.end <= r.start
  BY <1>1 DEF Following
<1> QED
  BY <1>2 DEF SubRows

\* The rows that a change of plan keeps.
Kept(S, t) == {s \in S : s.start # NextStart(t)}

\* The range of the last row is opened again.
Reopened(S, t, offer, last, x) ==
    /\ last \in Kept(S, t) /\ \A r \in Kept(S, t) : r.id <= last.id
    /\ last.offer = offer
    /\ x.id = last.id /\ x.offer = offer /\ x.start = last.start /\ x.end = Forever
    /\ x.charged = last.charged /\ x.graced = last.graced

\* The active row ends and a new one follows.
Replaced(S, t, row, offer, x, y) ==
    /\ x.id = row.id /\ x.offer = row.offer /\ x.start = row.start /\ x.end = NextStart(t)
    /\ x.charged = row.charged /\ x.graced = IF row.graced = "yes" THEN "yes" ELSE InGrace(t)
    /\ \A s \in Kept(S, t) : s.id < y.id
    /\ y.offer = offer /\ y.start = NextStart(t) /\ y.end = Forever /\ y.graced = InGrace(t)

\* What a set of rows satisfies, whatever was changed.
Rows(S, t) == S \subseteq SubRows /\ IsFiniteSet(S) /\ Numbered(S) /\ GracedBegan(S, t)

\* A change of plan keeps the rows that have begun.
LEMMA KeptRows ==
  ASSUME NEW S, NEW t \in Nat, t <= MaxTime, Rows(S, t), NEW row \in S, row.start <= t
  PROVE  /\ row \in Kept(S, t) /\ Kept(S, t) \subseteq SubRows /\ Numbered(Kept(S, t))
         /\ \E s \in Kept(S, t) : \A r \in Kept(S, t) : r.id <= s.id
<1>1. row \in Kept(S, t)
  BY Graceful DEF SubRows, Rows, Kept
<1>2. Kept(S, t) \subseteq SubRows /\ Numbered(Kept(S, t))
  BY DEF Numbered, Rows, Kept
<1> QED
  BY <1>1, <1>2, TopOne

\* The rows after a change of plan.
LEMMA ChangedRows ==
  ASSUME NEW S, NEW t \in Nat, t <= MaxTime, Rows(S, t),
         NEW row \in S, row.start <= t, NEW offer \in Offers
  PROVE  \/ \E last \in S, x \in SubRows :
               /\ Reopened(S, t, offer, last, x)
               /\ ChangedPlan(S, row, offer, t) = (Kept(S, t) \ {last}) \cup {x}
         \/ \E x, y \in SubRows :
               /\ Replaced(S, t, row, offer, x, y)
               /\ ChangedPlan(S, row, offer, t) = (Kept(S, t) \ {row}) \cup {x, y}
<1> DEFINE kept == Kept(S, t)
           last == CHOOSE s \in kept : \A r \in kept : r.id <= s.id
<1>1. /\ row \in kept /\ kept \subseteq SubRows /\ Numbered(kept)
      /\ last \in kept /\ \A r \in kept : r.id <= last.id
  BY KeptRows
<1>2. ChangedPlan(S, row, offer, t) =
         IF last.offer = offer THEN (kept \ {last}) \cup {[last EXCEPT !.end = Forever]}
         ELSE End(kept, row, NextStart(t), InGrace(t))
                \cup {Row(FreshId(kept), offer, NextStart(t), Forever, NextStart(t), InGrace(t))}
  BY DEF ChangedPlan, Kept
<1>3. last \in S
  BY <1>1 DEF Kept
<1> HIDE DEF last
<1>4. CASE last.offer = offer
  <2>1. PICK x : x = [last EXCEPT !.end = Forever]
    OBVIOUS
  <2>2. /\ x \in SubRows /\ x.id = last.id /\ x.offer = offer /\ x.start = last.start /\ x.end = Forever
        /\ x.charged = last.charged /\ x.graced = last.graced
    BY <2>1, <1>1, <1>4, PlanConstants DEF SubRows
  <2>3. Reopened(S, t, offer, last, x)
    BY <2>2, <1>1, <1>4 DEF Reopened
  <2>4. ChangedPlan(S, row, offer, t) = (kept \ {last}) \cup {x}
    BY <1>2, <1>4, <2>1
  <2> QED
    BY <2>2, <2>3, <2>4, <1>3
<1>5. CASE last.offer # offer
  <2>1. PICK x : x = [row EXCEPT !.end = NextStart(t),
                                 !.graced = IF @ = "yes" THEN @ ELSE InGrace(t)]
    OBVIOUS
  <2>2. PICK y : y = Row(FreshId(kept), offer, NextStart(t), Forever, NextStart(t), InGrace(t))
    OBVIOUS
  <2>3. /\ x \in SubRows /\ x.id = row.id /\ x.offer = row.offer /\ x.start = row.start
        /\ x.end = NextStart(t) /\ x.charged = row.charged
        /\ x.graced = IF row.graced = "yes" THEN "yes" ELSE InGrace(t)
    BY <2>1, Graceful DEF SubRows, Rows
  <2>4. FreshId(kept) \in Nat \ {0} /\ \A s \in kept : s.id < FreshId(kept)
    BY <1>1, Fresh
  <2>5. /\ y \in SubRows /\ \A s \in kept : s.id < y.id
        /\ y.offer = offer /\ y.start = NextStart(t) /\ y.end = Forever /\ y.graced = InGrace(t)
    BY <2>2, <2>4, Graceful, PlanConstants DEF SubRows, Row
  <2>6. ChangedPlan(S, row, offer, t) = (kept \ {row}) \cup {x, y}
    BY <1>2, <1>5, <2>1, <2>2 DEF End
  <2>7. Replaced(S, t, row, offer, x, y)
    BY <2>3, <2>5 DEF Replaced
  <2> QED
    BY <2>3, <2>5, <2>6, <2>7
<1> QED
  BY <1>4, <1>5

\* A change of plan leaves rows.
LEMMA ChangedTypes ==
  ASSUME NEW S, NEW t \in Nat, t <= MaxTime, Rows(S, t),
         NEW row \in S, row.start <= t, NEW offer \in Offers
  PROVE  Rows(ChangedPlan(S, row, offer, t), t)
<1> DEFINE new == ChangedPlan(S, row, offer, t)
<1>1. S \subseteq SubRows /\ Kept(S, t) \subseteq S /\ \A s \in S : s.start <= t => s \in Kept(S, t)
  BY Graceful DEF Kept, Rows, SubRows
<1>2. PICK n \in Nat : \A s \in S : s.id <= n
  BY DEF Rows, Numbered
<1>3. ASSUME NEW last \in S, NEW x \in SubRows, Reopened(S, t, offer, last, x),
             new = (Kept(S, t) \ {last}) \cup {x}
      PROVE  Rows(new, t)
  <2>1. new \subseteq SubRows
    BY <1>1, <1>3
  <2>2. Numbered(new)
    BY <1>1, <1>2, <1>3 DEF Numbered, Reopened
  <2>3. GracedBegan(new, t)
    BY <1>1, <1>3 DEF GracedBegan, Rows, Ungraced, Reopened
  <2>4. IsFiniteSet(new)
    <3>1. IsFiniteSet(Kept(S, t) \ {last})
      BY <1>1, FS_Subset DEF Rows
    <3> QED
      BY <3>1, <1>3, FS_AddElement
  <2> QED
    BY <2>1, <2>2, <2>3, <2>4 DEF Rows
<1>4. ASSUME NEW x \in SubRows, NEW y \in SubRows, Replaced(S, t, row, offer, x, y),
             new = (Kept(S, t) \ {row}) \cup {x, y}
      PROVE  Rows(new, t)
  <2>1. new \subseteq SubRows
    BY <1>1, <1>4
  <2>2. Numbered(new)
    <3>1. row.id < y.id /\ y.id \in Nat /\ x.id = row.id
      BY <1>1, <1>4 DEF Replaced, SubRows
    <3>2. \A s \in new : s.id <= y.id
      <4>1. \A s \in Kept(S, t) : s.id <= y.id
        BY <1>1, <1>4 DEF Replaced, SubRows
      <4> QED
        BY <4>1, <3>1, <1>1, <1>4 DEF SubRows
    <3> QED
      BY <3>1, <3>2 DEF Numbered
  <2>3. GracedBegan(new, t)
    <3>1. CASE InGrace(t) = "yes"
      <4>1. x.graced = "yes" /\ x.start <= t
        BY <1>4, <3>1 DEF Replaced
      <4> QED
        BY <4>1, <1>4 DEF GracedBegan
    <3>2. CASE InGrace(t) = "no" /\ Ungraced(S)
      <4>1. \A s \in new : s.graced = "no"
        BY <1>1, <1>4, <3>2 DEF Replaced, Ungraced
      <4> QED
        BY <4>1 DEF GracedBegan, Ungraced
    <3>3. CASE ~Ungraced(S)
      <4>1. PICK s \in S : s.graced = "yes" /\ s.start <= t
        BY <3>3 DEF Rows, GracedBegan
      <4>2. s \in Kept(S, t)
        BY <1>1, <4>1
      <4>3. CASE s = row
        BY <4>1, <4>3, <1>4 DEF Replaced, GracedBegan
      <4>4. CASE s # row
        BY <4>1, <4>2, <4>4, <1>4 DEF GracedBegan
      <4> QED
        BY <4>3, <4>4
    <3> QED
      BY <3>1, <3>2, <3>3, Graceful
  <2>4. IsFiniteSet(new)
    <3>1. IsFiniteSet(Kept(S, t) \ {row})
      BY <1>1, FS_Subset DEF Rows
    <3>2. IsFiniteSet(((Kept(S, t) \ {row}) \cup {x}) \cup {y})
      BY <3>1, FS_AddElement
    <3>3. new = ((Kept(S, t) \ {row}) \cup {x}) \cup {y}
      BY <1>4
    <3> QED
      BY <3>2, <3>3
  <2> QED
    BY <2>1, <2>2, <2>3, <2>4 DEF Rows
<1> HIDE DEF new
<1>5. \/ \E last \in S, x \in SubRows :
               /\ Reopened(S, t, offer, last, x)
               /\ new = (Kept(S, t) \ {last}) \cup {x}
      \/ \E x, y \in SubRows :
               /\ Replaced(S, t, row, offer, x, y)
               /\ new = (Kept(S, t) \ {row}) \cup {x, y}
  BY ChangedRows DEF new
<1>6. Rows(new, t)
  BY <1>3, <1>4, <1>5
<1> QED
  BY <1>6 DEF new

\* Opening the last range again leaves the rows in order.
LEMMA ReopenedOrderly ==
  ASSUME NEW S, NEW t \in Nat, t <= MaxTime, Rows(S, t), Orderly(S, t),
         NEW offer \in Offers, NEW last \in S, NEW x \in SubRows,
         Reopened(S, t, offer, last, x)
  PROVE  LET new == (Kept(S, t) \ {last}) \cup {x}
         IN  Orderly(new, t) /\ (Covered(S, t) => Covered(new, t))
<1> DEFINE kept == Kept(S, t)
           new == (kept \ {last}) \cup {x}
<1>1. /\ S \subseteq SubRows /\ kept \subseteq S /\ \A s \in S : s.start <= t => s \in kept
  BY Graceful DEF Kept, Rows, SubRows
<1>2. /\ last \in kept /\ \A r \in kept : r.id <= last.id
      /\ last.offer = offer
      /\ x.id = last.id /\ x.offer = offer /\ x.start = last.start /\ x.end = Forever
      /\ x.charged = last.charged
  BY DEF Reopened
<1>3. x \notin kept \/ x = last
  BY <1>1, <1>2 DEF Orderly, Following
<1>4. \A s \in kept \ {last} : s.id < last.id
  BY <1>1, <1>2 DEF Orderly, Following, SubRows
<1>5. \A s, r \in new : s.id = r.id => s = r
  BY <1>1, <1>2, <1>4 DEF Orderly, Following, SubRows
<1>6. ASSUME NEW s \in new, NEW r \in new, IsPaid(r.offer), s.id < r.id
      PROVE  s.end <= r.start
  <2>1. s \in kept \ {last}
    BY <1>1, <1>2, <1>4, <1>6 DEF SubRows
  <2>2. CASE r = x
    <3>1. IsPaid(last.offer) /\ s.id < last.id
      BY <1>2, <1>4, <2>1 DEF IsPaid
    <3> QED
      BY <3>1, <2>1, <2>2, <1>1, <1>2 DEF Orderly, Following
  <2>3. CASE r # x
    BY <2>1, <2>3, <1>1, <1>6 DEF Orderly, Following
  <2> QED
    BY <2>2, <2>3
<1>7. ASSUME NEW s \in new
      PROVE  IF IsPaid(s.offer) THEN s.start < s.end ELSE s.id = 1
  <2>1. CASE s = x
    <3>1. IsPaid(x.offer)
      BY <1>2 DEF IsPaid
    <3>2. last.start < Forever
      BY <1>1, Graceful, PlanConstants, MonthBounds DEF Orderly, Begun, SubRows
    <3> QED
      BY <2>1, <3>1, <3>2, <1>2
  <2>2. CASE s # x
    BY <2>2, <1>1 DEF Orderly, Following
  <2> QED
    BY <2>1, <2>2
<1>8. ASSUME NEW s \in kept, ~(s.start <= t)
      PROVE  /\ IsPaid(s.offer) /\ s.start = FirstOf(Month(t) + 1)
             /\ \E a \in new : IsPaid(a.offer) /\ a.start <= t /\ a.end = s.start
  <2>1. PICK a \in S : IsPaid(a.offer) /\ a.start <= t /\ a.end = s.start
    BY <1>1, <1>8 DEF Orderly, Begun
  <2>2. a \in kept
    BY <1>1, <2>1
  <2>3. a # last
    <3> SUFFICES ASSUME a = last PROVE FALSE
      OBVIOUS
    <3>1. s # last /\ IsPaid(s.offer) /\ s.start < s.end
      BY <1>1, <1>8, <2>1 DEF Orderly, Following, Begun
    <3>2. s.end <= a.start
      BY <3>1, <1>1, <1>4, <2>1 DEF Orderly, Following
    <3> QED
      BY <3>1, <3>2, <2>1, <1>1, <1>8 DEF SubRows
  <2>4. IsPaid(s.offer) /\ s.start = FirstOf(Month(t) + 1)
    BY <1>1, <1>8 DEF Orderly, Begun
  <2> QED
    BY <2>1, <2>2, <2>3, <2>4
<1>9. Begun(new, t)
  <2> SUFFICES ASSUME NEW s \in new, ~(s.start <= t)
               PROVE  /\ IsPaid(s.offer) /\ s.start = FirstOf(Month(t) + 1)
                      /\ \E a \in new : IsPaid(a.offer) /\ a.start <= t /\ a.end = s.start
    BY DEF Begun
  <2>1. CASE s = x
    <3>1. ~(last.start <= t) /\ IsPaid(s.offer)
      BY <2>1, <1>2 DEF IsPaid
    <3> QED
      BY <3>1, <2>1, <1>2, <1>8
  <2>2. CASE s # x
    BY <2>2, <1>8
  <2> QED
    BY <2>1, <2>2
<1>10. ASSUME Covered(S, t)
       PROVE  Covered(new, t)
  <2>1. PICK s \in S : /\ IsPaid(s.offer) /\ s.start <= t
                       /\ FirstOf(Month(t) + 1) <= s.end /\ FirstOf(Month(t) + 1) <= s.charged
    BY <1>10 DEF Covered
  <2>2. CASE s = last
    <3>1. FirstOf(Month(t) + 1) <= Forever
      BY Graceful, MonthBounds, PlanConstants
    <3>2. IsPaid(x.offer) /\ x \in new /\ x.start <= t /\ FirstOf(Month(t) + 1) <= x.charged
      BY <2>1, <2>2, <1>2 DEF IsPaid
    <3> QED
      BY <3>1, <3>2, <1>2 DEF Covered
  <2>3. CASE s # last
    <3>1. s \in new
      BY <2>1, <2>3, <1>1
    <3> QED
      BY <3>1, <2>1 DEF Covered
  <2> QED
    BY <2>2, <2>3
<1>11. Following(new)
  BY <1>5, <1>6, <1>7 DEF Following
<1> QED
  BY <1>9, <1>10, <1>11 DEF Orderly

\* A new row after the active one leaves the rows in order.
LEMMA ReplacedOrderly ==
  ASSUME NEW S, NEW t \in Nat, t <= MaxTime, Rows(S, t), Orderly(S, t),
         NEW offer \in Offers, NEW row \in S, row.start <= t, t < row.end, IsPaid(row.offer),
         NEW x \in SubRows, NEW y \in SubRows,
         Replaced(S, t, row, offer, x, y), InGrace(t) = "no"
  PROVE  LET new == (Kept(S, t) \ {row}) \cup {x, y}
         IN  Orderly(new, t) /\ (Covered(S, t) => Covered(new, t))
<1> DEFINE kept == Kept(S, t)
           new == (kept \ {row}) \cup {x, y}
           next == FirstOf(Month(t) + 1)
<1>1. /\ S \subseteq SubRows /\ kept \subseteq S /\ row \in kept
      /\ \A s \in S : s.start <= t => s \in kept
  BY Graceful DEF Kept, Rows, SubRows
<1>2. next = NextStart(t) /\ next \in Nat /\ t < next /\ next < Forever
  BY Graceful
<1>3. \A s \in kept : s.start <= t
  BY <1>2 DEF Orderly, Begun, Kept
<1>4. \A s \in kept \ {row} : s.id < row.id
  <2> SUFFICES ASSUME NEW s \in kept \ {row} PROVE s.id < row.id
    OBVIOUS
  <2>1. s.id <= row.id
    BY <1>1, <1>3, ActiveIsLast DEF Orderly
  <2>2. s.id # row.id
    BY <1>1 DEF Orderly, Following
  <2> QED
    BY <2>1, <2>2, <1>1 DEF SubRows
<1>5. /\ x.id = row.id /\ x.offer = row.offer /\ x.start = row.start /\ x.end = next
      /\ x.charged = row.charged
      /\ \A s \in kept : s.id < y.id
      /\ y.offer = offer /\ y.start = next /\ y.end = Forever
  BY <1>2 DEF Replaced
<1>6. IsPaid(x.offer) /\ IsPaid(y.offer)
  BY <1>5 DEF IsPaid
<1>7. \A s \in kept \ {row} : s.id < x.id /\ s.id < y.id /\ s.end <= x.start /\ s.end <= y.start
  <2> SUFFICES ASSUME NEW s \in kept \ {row}
               PROVE  s.id < x.id /\ s.id < y.id /\ s.end <= x.start /\ s.end <= y.start
    OBVIOUS
  <2>1. s.id < row.id /\ s.id < y.id
    BY <1>4, <1>5
  <2>2. s.end <= row.start
    BY <2>1, <1>1 DEF Orderly, Following
  <2> QED
    BY <2>1, <2>2, <1>1, <1>2, <1>5 DEF SubRows
<1>8. x.id < y.id /\ x.end <= y.start /\ x.start < x.end /\ y.start < y.end
  BY <1>1, <1>2, <1>5 DEF SubRows
<1>9. \A s, r \in new : s.id = r.id => s = r
  BY <1>1, <1>7, <1>8 DEF Orderly, Following, SubRows
<1>10. \A s, r \in new : IsPaid(r.offer) /\ s.id < r.id => s.end <= r.start
  <2> SUFFICES ASSUME NEW s \in new, NEW r \in new, IsPaid(r.offer), s.id < r.id
               PROVE  s.end <= r.start
    OBVIOUS
  <2>1. CASE r = y
    BY <2>1, <1>7, <1>8 DEF SubRows
  <2>2. CASE r = x
    BY <2>2, <1>7, <1>8 DEF SubRows
  <2>3. CASE r \in kept \ {row}
    <3>1. s \in kept \ {row}
      BY <2>3, <1>1, <1>7 DEF SubRows
    <3> QED
      BY <3>1, <2>3, <1>1 DEF Orderly, Following
  <2> QED
    BY <2>1, <2>2, <2>3
<1>11. \A s \in new : IF IsPaid(s.offer) THEN s.start < s.end ELSE s.id = 1
  BY <1>1, <1>6, <1>8 DEF Orderly, Following
<1>12. Begun(new, t)
  <2>1. \A s \in new : s.start <= t \/ s = y
    BY <1>3, <1>5
  <2>2. IsPaid(x.offer) /\ x.start <= t /\ x.end = y.start /\ y.start = next
    BY <1>5, <1>6
  <2> QED
    BY <2>1, <2>2, <1>6 DEF Begun
<1>13. ASSUME Covered(S, t)
       PROVE  Covered(new, t)
  <2>1. PICK s \in S : IsPaid(s.offer) /\ s.start <= t /\ next <= s.end /\ next <= s.charged
    BY <1>13 DEF Covered
  <2>2. CASE s = row
    <3>1. x.start <= t /\ next <= x.end /\ next <= x.charged
      BY <2>1, <2>2, <1>2, <1>5
    <3> QED
      BY <3>1, <1>6 DEF Covered
  <2>3. CASE s # row
    <3>1. s \in new
      BY <2>1, <2>3, <1>1
    <3> QED
      BY <3>1, <2>1 DEF Covered
  <2> QED
    BY <2>2, <2>3
<1>14. Following(new)
  BY <1>9, <1>10, <1>11 DEF Following
<1> QED
  BY <1>12, <1>13, <1>14 DEF Orderly

\* A change of plan leaves the rows in order.
LEMMA ChangedOrderly ==
  ASSUME NEW S, NEW t \in Nat, t <= MaxTime, Rows(S, t), Orderly(S, t),
         NEW offer \in Offers, NEW row \in S, row.start <= t, t < row.end, IsPaid(row.offer),
         Ungraced(ChangedPlan(S, row, offer, t))
  PROVE  /\ Orderly(ChangedPlan(S, row, offer, t), t)
         /\ Covered(S, t) => Covered(ChangedPlan(S, row, offer, t), t)
<1> DEFINE new == ChangedPlan(S, row, offer, t)
<1>1. ASSUME NEW last \in S, NEW x \in SubRows, Reopened(S, t, offer, last, x),
             new = (Kept(S, t) \ {last}) \cup {x}
      PROVE  Orderly(new, t) /\ (Covered(S, t) => Covered(new, t))
  BY <1>1, ReopenedOrderly
<1>2. ASSUME NEW x \in SubRows, NEW y \in SubRows, Replaced(S, t, row, offer, x, y),
             new = (Kept(S, t) \ {row}) \cup {x, y}
      PROVE  Orderly(new, t) /\ (Covered(S, t) => Covered(new, t))
  <2>1. InGrace(t) = "no"
    BY <1>2 DEF Replaced, Ungraced
  <2> QED
    BY <1>2, <2>1, ReplacedOrderly
<1> HIDE DEF new
<1>3. \/ \E last \in S, x \in SubRows :
               /\ Reopened(S, t, offer, last, x)
               /\ new = (Kept(S, t) \ {last}) \cup {x}
      \/ \E x, y \in SubRows :
               /\ Replaced(S, t, row, offer, x, y)
               /\ new = (Kept(S, t) \ {row}) \cup {x, y}
  BY ChangedRows DEF new
<1>4. Orderly(new, t) /\ (Covered(S, t) => Covered(new, t))
  BY <1>1, <1>2, <1>3
<1> QED
  BY <1>4 DEF new

\* A change of plan keeps a row that was changed in the grace period.
LEMMA ChangedGraced ==
  ASSUME NEW S, NEW t \in Nat, t <= MaxTime, Rows(S, t),
         NEW offer \in Offers, NEW row \in S, row.start <= t,
         Ungraced(ChangedPlan(S, row, offer, t))
  PROVE  Ungraced(S)
<1> DEFINE new == ChangedPlan(S, row, offer, t)
<1> SUFFICES ASSUME ~Ungraced(S) PROVE \E r \in new : r.graced # "no"
  BY DEF Ungraced
<1>1. PICK s \in S : s.graced = "yes" /\ s.start <= t
  BY DEF Rows, GracedBegan
<1>2. s \in Kept(S, t)
  BY <1>1, Graceful DEF Kept, Rows, SubRows
<1>3. ASSUME NEW last \in S, NEW x \in SubRows, Reopened(S, t, offer, last, x),
             new = (Kept(S, t) \ {last}) \cup {x}
      PROVE  \E r \in new : r.graced # "no"
  BY <1>1, <1>2, <1>3 DEF Reopened
<1>4. ASSUME NEW x \in SubRows, NEW y \in SubRows, Replaced(S, t, row, offer, x, y),
             new = (Kept(S, t) \ {row}) \cup {x, y}
      PROVE  \E r \in new : r.graced # "no"
  BY <1>1, <1>2, <1>4 DEF Replaced
<1>5. \/ \E last \in S, x \in SubRows :
               /\ Reopened(S, t, offer, last, x)
               /\ new = (Kept(S, t) \ {last}) \cup {x}
      \/ \E x, y \in SubRows :
               /\ Replaced(S, t, row, offer, x, y)
               /\ new = (Kept(S, t) \ {row}) \cup {x, y}
  BY ChangedRows
<1> HIDE DEF new
<1> QED
  BY <1>3, <1>4, <1>5

\* Who has no paid plan has none that is to begin either, and no fee is charged.
LEMMA StartedOrderly ==
  ASSUME NEW S, NEW t \in Nat, t <= MaxTime, Rows(S, t), NEW offer \in Offers,
         NEW active, active = ActiveAt(S, t), \A s \in active : ~IsPaid(s.offer)
  PROVE  LET new == StartedPlan(S, active, offer, t)
         IN  /\ Rows(new, t)
             /\ Ungraced(new) => Ungraced(S)
             /\ Orderly(S, t) => Orderly(new, t) /\ Covered(new, t) /\ ~Covered(S, t)
<1> DEFINE new == StartedPlan(S, active, offer, t)
           next == FirstOf(Month(t) + 1)
<1>1. S \subseteq SubRows /\ active \subseteq S
  BY DEF Rows, ActiveAt
<1>2. PICK y : y = Row(FreshId(S), offer, t, Forever, next, "no")
  OBVIOUS
<1>3. FreshId(S) \in Nat \ {0} /\ \A s \in S : s.id < FreshId(S)
  BY Fresh DEF Rows
<1>4. /\ y \in SubRows /\ y.id \in Nat /\ \A s \in S : s.id < y.id
      /\ y.offer = offer /\ y.start = t /\ y.end = Forever /\ y.charged = next /\ y.graced = "no"
  BY <1>2, <1>3, MonthBounds, PlanConstants DEF SubRows, Row
<1> DEFINE ended(s) == [s EXCEPT !.end = t]
<1>5. new = {s \in S : s \notin active} \cup {ended(s) : s \in active} \cup {y}
  BY <1>2 DEF StartedPlan
<1>6. \A s \in active : /\ ended(s) \in SubRows /\ ended(s).id = s.id /\ ended(s).offer = s.offer
                        /\ ended(s).start = s.start /\ ended(s).end = t
                        /\ ended(s).graced = s.graced
  BY <1>1 DEF SubRows
<1> HIDE DEF ended
<1>7. \A s \in active : s.start <= t /\ t < s.end /\ ~IsPaid(s.offer)
  BY DEF ActiveAt
<1> HIDE DEF new
<1>8. Rows(new, t)
  <2>1. new \subseteq SubRows
    BY <1>1, <1>4, <1>5, <1>6
  <2>2. \A s \in new : s.id <= y.id
    BY <1>1, <1>4, <1>5, <1>6 DEF SubRows
  <2>3. GracedBegan(new, t)
    <3>1. CASE Ungraced(S)
      <4>1. \A s \in new : s.graced = "no"
        BY <1>1, <1>4, <1>5, <1>6, <3>1 DEF Ungraced
      <4> QED
        BY <4>1 DEF GracedBegan, Ungraced
    <3>2. CASE ~Ungraced(S)
      <4>1. PICK s \in S : s.graced = "yes" /\ s.start <= t
        BY <3>2 DEF Rows, GracedBegan
      <4>2. s \in new \/ (s \in active /\ ended(s) \in new)
        BY <4>1, <1>5
      <4> QED
        BY <4>1, <4>2, <1>6 DEF GracedBegan
    <3> QED
      BY <3>1, <3>2
  <2>4. IsFiniteSet(new)
    <3> DEFINE f == [s \in active |-> ended(s)]
               U == {ended(s) : s \in active}
    <3>1. IsFiniteSet(active) /\ IsFiniteSet({s \in S : s \notin active})
      BY <1>1, FS_Subset DEF Rows
    <3>2. f \in Surjection(active, U)
      BY DEF Surjection
    <3>3. IsFiniteSet(U)
      BY <3>1, <3>2, FS_Surjection
    <3>4. IsFiniteSet({s \in S : s \notin active} \cup U)
      BY <3>1, <3>3, FS_Union
    <3> QED
      BY <3>4, <1>5, FS_AddElement
  <2> QED
    BY <2>1, <2>2, <2>3, <2>4, <1>4 DEF Rows, Numbered
<1>9. ASSUME Ungraced(new)
      PROVE  Ungraced(S)
  <2> SUFFICES ASSUME NEW s \in S PROVE s.graced = "no"
    BY DEF Ungraced
  <2>1. s \in new \/ (s \in active /\ ended(s) \in new)
    BY <1>5
  <2> QED
    BY <2>1, <1>6, <1>9 DEF Ungraced
<1>10. ASSUME Orderly(S, t)
       PROVE  Orderly(new, t) /\ Covered(new, t) /\ ~Covered(S, t)
  <2>1. next \in Nat /\ t < next /\ t < Forever /\ next <= Forever
    BY MonthBounds, Graceful, PlanConstants
  <2>2. \A s \in S \ active : s.start <= t => s.end <= t
    BY <1>1 DEF ActiveAt, SubRows
  <2>3. \A s \in S : s.start <= t
    <3> SUFFICES ASSUME NEW s \in S, ~(s.start <= t) PROVE FALSE
      OBVIOUS
    <3>1. PICK a \in S : IsPaid(a.offer) /\ a.start <= t /\ a.end = next
      BY <1>10 DEF Orderly, Begun
    <3>2. a \notin active /\ a.end <= t
      BY <3>1, <1>7, <2>2
    <3> QED
      BY <3>1, <3>2, <2>1, <1>1 DEF SubRows
  <2>4. ~Covered(S, t)
    <3> SUFFICES ASSUME NEW s \in S, IsPaid(s.offer), s.start <= t, next <= s.end PROVE FALSE
      BY DEF Covered
    <3>1. s \notin active /\ s.end <= t
      BY <1>7, <2>2
    <3> QED
      BY <3>1, <2>1, <1>1 DEF SubRows
  <2>5. IsPaid(y.offer)
    BY <1>4 DEF IsPaid
  <2>6. Covered(new, t)
    <3>1. y \in new /\ y.start <= t /\ next <= y.end /\ next <= y.charged
      BY <1>4, <1>5, <2>1
    <3> QED
      BY <3>1, <2>5 DEF Covered
  <2>7. \A s \in new : s.start <= t
    BY <2>3, <1>4, <1>5, <1>6, <1>7
  <2>8. \A s \in new : s = y \/ \E r \in S : /\ s.id = r.id /\ s.offer = r.offer /\ s.start = r.start
                                             /\ s.end <= r.end /\ s.end <= t
                                             /\ IF r \in active THEN s = ended(r) ELSE s = r
    <3> SUFFICES ASSUME NEW s \in new, s # y
                 PROVE  \E r \in S : /\ s.id = r.id /\ s.offer = r.offer /\ s.start = r.start
                                     /\ s.end <= r.end /\ s.end <= t
                                     /\ IF r \in active THEN s = ended(r) ELSE s = r
      OBVIOUS
    <3>1. CASE s \in S /\ s \notin active
      BY <3>1, <2>2, <2>3, <1>1 DEF SubRows
    <3>2. CASE s \in {ended(r) : r \in active}
      <4>1. PICK r \in active : s = ended(r)
        BY <3>2
      <4> QED
        BY <4>1, <1>1, <1>6, <1>7 DEF SubRows
    <3> QED
      BY <3>1, <3>2, <1>5
  <2>9. ASSUME NEW s \in new, NEW r \in new, s.id = r.id
        PROVE  s = r
    BY <2>8, <2>9, <1>4, <1>10 DEF Orderly, Following, SubRows
  <2>10. ASSUME NEW s \in new, NEW r \in new, IsPaid(r.offer), s.id < r.id
         PROVE  s.end <= r.start
    <3>1. s # y
      BY <2>8, <2>10, <1>1, <1>4 DEF SubRows
    <3>2. PICK p \in S : s.id = p.id /\ s.end <= p.end /\ s.end <= t
      BY <2>8, <3>1
    <3>3. CASE r = y
      BY <3>2, <3>3, <1>4
    <3>4. CASE r # y
      <4>1. PICK q \in S : r.id = q.id /\ r.offer = q.offer /\ r.start = q.start
        BY <2>8, <3>4
      <4>2. p.end <= q.start
        BY <4>1, <3>2, <2>10, <1>10 DEF Orderly, Following
      <4>3. s \in SubRows /\ r \in SubRows
        BY <1>8 DEF Rows
      <4> QED
        BY <4>1, <4>2, <4>3, <3>2, <1>1 DEF SubRows
    <3> QED
      BY <3>3, <3>4
  <2>11. ASSUME NEW s \in new
         PROVE  IF IsPaid(s.offer) THEN s.start < s.end ELSE s.id = 1
    <3>1. CASE s = y
      BY <3>1, <1>4, <2>1, <2>5
    <3>2. CASE s # y
      <4>1. PICK r \in S : /\ s.id = r.id /\ s.offer = r.offer
                           /\ IF r \in active THEN s = ended(r) ELSE s = r
        BY <2>8, <3>2
      <4> QED
        BY <4>1, <1>7, <1>10 DEF Orderly, Following
    <3> QED
      BY <3>1, <3>2
  <2>12. Following(new)
    BY <2>9, <2>10, <2>11 DEF Following
  <2> QED
    BY <2>4, <2>6, <2>7, <2>12 DEF Orderly, Begun
<1> QED
  BY <1>8, <1>9, <1>10 DEF new

\* Cancelling a plan leaves the rows in order.
LEMMA CancelledOrderly ==
  ASSUME NEW S, NEW t \in Nat, t <= MaxTime, Rows(S, t),
         NEW row \in S, t < row.end, IsPaid(row.offer)
  PROVE  LET new == Cancelled(S, row, t)
         IN  /\ Rows(new, t)
             /\ Ungraced(new) => Ungraced(S)
             /\ Orderly(S, t) => Orderly(new, t) /\ (Covered(S, t) => Covered(new, t))
<1> DEFINE new == Cancelled(S, row, t)
           next == FirstOf(Month(t) + 1)
<1>1. S \subseteq SubRows /\ next \in Nat /\ t < next /\ next < Forever
  BY Graceful, MonthBounds, PlanConstants DEF Rows
<1>2. PICK n \in Nat : \A s \in S : s.id <= n
  BY DEF Rows, Numbered
<1>3. CASE row.end # Forever
  <2>1. new = S
    BY <1>3 DEF Cancelled
  <2> HIDE DEF new
  <2> QED
    BY <2>1 DEF new
<1>4. CASE row.end = Forever /\ row.start <= t + 1
  <2>1. PICK x : x = [row EXCEPT !.end = NextStart(t), !.graced = IF @ = "yes" THEN @ ELSE "no"]
    OBVIOUS
  <2>2. /\ x \in SubRows /\ x.id = row.id /\ x.offer = row.offer /\ x.start = row.start
        /\ x.end = NextStart(t) /\ x.charged = row.charged /\ x.graced = row.graced
    BY <2>1, <1>1, Graceful DEF SubRows
  <2>3. new = (S \ {row}) \cup {x}
    BY <2>1, <1>4 DEF Cancelled, End, Grace
  <2>4. x.start < x.end /\ x.end < row.end /\ next <= x.end
    BY <2>2, <1>1, <1>4, Graceful DEF SubRows
  <2> HIDE DEF new
  <2>5. Rows(new, t)
    <3>1. new \subseteq SubRows
      BY <2>2, <2>3, <1>1
    <3>2. \A s \in new : s.id <= n
      BY <1>2, <2>2, <2>3
    <3>3. GracedBegan(new, t)
      BY <2>2, <2>3 DEF GracedBegan, Ungraced, Rows
    <3>4. IsFiniteSet(new)
      BY <2>3, FS_RemoveElement, FS_AddElement DEF Rows
    <3> QED
      BY <3>1, <3>2, <3>3, <3>4 DEF Rows, Numbered
  <2>6. Ungraced(new) => Ungraced(S)
    BY <2>2, <2>3 DEF Ungraced
  <2>7. ASSUME Orderly(S, t)
        PROVE  Orderly(new, t) /\ (Covered(S, t) => Covered(new, t))
    <3>1. \A s, r \in new : s.id = r.id => s = r
      BY <2>2, <2>3, <2>7 DEF Orderly, Following
    <3>2. ASSUME NEW s \in new, NEW r \in new, IsPaid(r.offer), s.id < r.id
          PROVE  s.end <= r.start
      <4>1. PICK p \in S : s.id = p.id /\ s.end <= p.end
        BY <2>2, <2>3, <2>4, <1>1 DEF SubRows
      <4>2. PICK q \in S : r.id = q.id /\ r.offer = q.offer /\ r.start = q.start
        BY <2>2, <2>3
      <4>3. p.end <= q.start
        BY <4>1, <4>2, <3>2, <2>7 DEF Orderly, Following
      <4>4. s \in SubRows /\ r \in SubRows
        BY <2>5 DEF Rows
      <4> QED
        BY <4>1, <4>2, <4>3, <4>4, <1>1 DEF SubRows
    <3>3. \A s \in new : IF IsPaid(s.offer) THEN s.start < s.end ELSE s.id = 1
      BY <2>2, <2>3, <2>4, <2>7 DEF Orderly, Following
    <3>4. Following(new)
      BY <3>1, <3>2, <3>3 DEF Following
    <3>5. Begun(new, t)
      <4> SUFFICES ASSUME NEW s \in new, ~(s.start <= t)
                   PROVE  /\ IsPaid(s.offer) /\ s.start = next
                          /\ \E a \in new : IsPaid(a.offer) /\ a.start <= t /\ a.end = s.start
        BY DEF Begun
      <4>1. PICK p \in S : p.offer = s.offer /\ p.start = s.start
        BY <2>2, <2>3
      <4>2. IsPaid(s.offer) /\ s.start = next
        BY <4>1, <2>7 DEF Orderly, Begun
      <4>3. PICK a \in S : IsPaid(a.offer) /\ a.start <= t /\ a.end = s.start
        BY <4>1, <2>7 DEF Orderly, Begun
      <4>4. a # row
        BY <4>2, <4>3, <1>1, <1>4
      <4> QED
        BY <4>2, <4>3, <4>4, <2>3
    <3>6. ASSUME Covered(S, t)
          PROVE  Covered(new, t)
      <4>1. PICK s \in S : IsPaid(s.offer) /\ s.start <= t /\ next <= s.end /\ next <= s.charged
        BY <3>6 DEF Covered
      <4>2. CASE s = row
        BY <4>1, <4>2, <2>2, <2>3, <2>4 DEF Covered
      <4>3. CASE s # row
        BY <4>1, <4>3, <2>3 DEF Covered
      <4> QED
        BY <4>2, <4>3
    <3> QED
      BY <3>4, <3>5, <3>6 DEF Orderly
  <2> QED
    BY <2>5, <2>6, <2>7 DEF new
<1>5. CASE row.end = Forever /\ ~(row.start <= t + 1)
  <2>1. new = S \ {row} /\ ~(row.start <= t)
    BY <1>1, <1>5 DEF Cancelled, Grace, SubRows
  <2> HIDE DEF new
  <2>2. Rows(new, t)
    <3>1. GracedBegan(new, t)
      BY <2>1 DEF GracedBegan, Ungraced, Rows
    <3>2. IsFiniteSet(new)
      BY <2>1, FS_RemoveElement DEF Rows
    <3> QED
      BY <3>1, <3>2, <2>1, <1>1, <1>2 DEF Rows, Numbered
  <2>3. Ungraced(new) => Ungraced(S)
    BY <2>1 DEF GracedBegan, Ungraced, Rows
  <2>4. ASSUME Orderly(S, t)
        PROVE  Orderly(new, t) /\ (Covered(S, t) => Covered(new, t))
    <3>1. Following(new)
      BY <2>1, <2>4 DEF Orderly, Following
    <3>2. Begun(new, t)
      BY <2>1, <2>4 DEF Orderly, Begun
    <3>3. Covered(S, t) => Covered(new, t)
      BY <2>1 DEF Covered
    <3> QED
      BY <3>1, <3>2, <3>3 DEF Orderly
  <2> QED
    BY <2>2, <2>3, <2>4 DEF new
<1> QED
  BY <1>3, <1>4, <1>5

\* Paid plans do not overlap.
LEMMA OnePaid ==
  ASSUME NEW S, NEW t \in Nat, S \subseteq SubRows, Orderly(S, t),
         NEW s \in S, IsPaid(s.offer), s.start <= t, t < s.end,
         NEW r \in S, IsPaid(r.offer), r.start <= t, t < r.end
  PROVE  s = r
<1>1. s.id <= r.id /\ r.id <= s.id
  BY ActiveIsLast DEF Orderly
<1> QED
  BY <1>1 DEF Orderly, Following, SubRows

\* A fee is due for one plan at most, and not when the month is covered.
LEMMA DueOnce ==
  ASSUME NEW S, NEW t \in Nat, t <= MaxTime, Rows(S, t), Orderly(S, t),
         NEW row \in FeeDue(S, t)
  PROVE  FeeDue(S, t) = {row} /\ ~Covered(S, t)
<1> DEFINE next == FirstOf(Month(t) + 1)
<1>1. S \subseteq SubRows /\ next \in Nat /\ t < next
  BY MonthBounds DEF Rows
<1>2. \A s \in FeeDue(S, t) :
        s \in S /\ IsPaid(s.offer) /\ s.start <= t /\ t < s.end /\ s.charged < next
  BY <1>1 DEF FeeDue, SubRows
<1>3. FeeDue(S, t) = {row}
  BY <1>1, <1>2, OnePaid
<1>4. ~Covered(S, t)
  <2> SUFFICES ASSUME NEW s \in S, IsPaid(s.offer), s.start <= t, next <= s.end, next <= s.charged
               PROVE  FALSE
    BY DEF Covered
  <2>1. s = row
    BY <1>1, <1>2, OnePaid DEF SubRows
  <2> QED
    BY <2>1, <1>1, <1>2 DEF SubRows
<1> QED
  BY <1>3, <1>4

\* Charging a fee changes only what is charged.
LEMMA ChargedOrderly ==
  ASSUME NEW S, NEW t \in Nat, t <= MaxTime, Rows(S, t)
  PROVE  LET new == FeeCharged(S, t)
         IN  /\ Rows(new, t)
             /\ Ungraced(new) => Ungraced(S)
             /\ Orderly(S, t) => Orderly(new, t)
             /\ FeeDue(S, t) # {} => Covered(new, t)
<1> DEFINE new == FeeCharged(S, t)
           next == FirstOf(Month(t) + 1)
           paid(s) == IF s \in FeeDue(S, t) THEN [s EXCEPT !.charged = next] ELSE s
<1>1. S \subseteq SubRows /\ next \in Nat /\ t < next
  BY MonthBounds DEF Rows
<1>2. new = {paid(s) : s \in S}
  BY DEF FeeCharged
<1>3. \A s \in S : /\ paid(s) \in SubRows /\ paid(s).id = s.id /\ paid(s).offer = s.offer
                   /\ paid(s).start = s.start /\ paid(s).end = s.end /\ paid(s).graced = s.graced
                   /\ s \in FeeDue(S, t) => paid(s).charged = next
  BY <1>1 DEF SubRows
<1> HIDE DEF new, paid
<1>4. Rows(new, t)
  <2>1. new \subseteq SubRows
    BY <1>2, <1>3
  <2>2. Numbered(new)
    BY <1>2, <1>3 DEF Rows, Numbered
  <2>3. GracedBegan(new, t)
    BY <1>2, <1>3 DEF GracedBegan, Ungraced, Rows
  <2>4. IsFiniteSet(new)
    <3> DEFINE f == [s \in S |-> paid(s)]
    <3>1. f \in Surjection(S, new)
      BY <1>2 DEF Surjection
    <3> QED
      BY <3>1, FS_Surjection DEF Rows
  <2> QED
    BY <2>1, <2>2, <2>3, <2>4 DEF Rows
<1>5. Ungraced(new) => Ungraced(S)
  BY <1>2, <1>3 DEF Ungraced
<1>6. ASSUME Orderly(S, t)
      PROVE  Orderly(new, t)
  <2>1. Following(new)
    BY <1>2, <1>3, <1>6 DEF Orderly, Following
  <2>2. Begun(new, t)
    <3> SUFFICES ASSUME NEW s \in S, ~(s.start <= t)
                 PROVE  /\ IsPaid(s.offer) /\ s.start = next
                        /\ \E a \in new : IsPaid(a.offer) /\ a.start <= t /\ a.end = s.start
      BY <1>2, <1>3 DEF Begun
    <3>1. PICK a \in S : IsPaid(a.offer) /\ a.start <= t /\ a.end = s.start
      BY <1>6 DEF Orderly, Begun
    <3> QED
      BY <3>1, <1>2, <1>3, <1>6 DEF Orderly, Begun
  <2> QED
    BY <2>1, <2>2 DEF Orderly
<1>7. ASSUME NEW s \in FeeDue(S, t)
      PROVE  Covered(new, t)
  <2>1. s \in S /\ IsPaid(s.offer) /\ s.start <= t /\ next <= s.end
    BY DEF FeeDue
  <2>2. paid(s) \in new /\ paid(s).charged = next
    BY <2>1, <1>2, <1>3
  <2> QED
    BY <2>1, <2>2, <1>1, <1>3 DEF Covered
<1> QED
  BY <1>4, <1>5, <1>6, <1>7 DEF new

\* The next day a month may begin, and with it the plans that replace others.
LEMMA TickOrderly ==
  ASSUME NEW S, NEW t \in Nat, Rows(S, t)
  PROVE  /\ Rows(S, t + 1)
         /\ Orderly(S, t) => Orderly(S, t + 1)
         /\ Month(t + 1) = Month(t) /\ Covered(S, t) => Covered(S, t + 1)
<1>1. S \subseteq SubRows /\ \A s \in S : s.start <= t => s.start <= t + 1
  BY DEF Rows, SubRows
<1>2. Rows(S, t + 1)
  BY <1>1 DEF Rows, GracedBegan
<1>3. ASSUME Orderly(S, t)
      PROVE  Orderly(S, t + 1)
  <2>1. CASE Month(t + 1) = Month(t)
    BY <1>1, <1>3, <2>1 DEF Orderly, Begun
  <2>2. CASE FirstOf(Month(t) + 1) = t + 1
    BY <1>1, <1>3, <2>2 DEF Orderly, Begun, SubRows
  <2> QED
    BY <2>1, <2>2, MonthNext
<1>4. Month(t + 1) = Month(t) /\ Covered(S, t) => Covered(S, t + 1)
  BY <1>1 DEF Covered
<1> QED
  BY <1>2, <1>3, <1>4

\* The row of a new admin is in order.
LEMMA SignedUpOrderly ==
  Rows(SignedUp(0, Timeout), 0) /\ Orderly(SignedUp(0, Timeout), 0)
<1>1. PICK y : y = Row(1, Builder, 0, 0 + Timeout, -1, "no")
  OBVIOUS
<1>2. /\ y \in SubRows /\ y.id = 1 /\ y.offer = Builder /\ y.start = 0 /\ y.graced = "no"
  BY <1>1, PlanConstants DEF SubRows, Row
<1>3. SignedUp(0, Timeout) = {y}
  BY <1>1 DEF SignedUp
<1>4. ~IsPaid(y.offer)
  BY <1>2, PlanConstants DEF IsPaid
<1>5. Rows({y}, 0)
  BY <1>2, FS_Singleton DEF Rows, Numbered, GracedBegan, Ungraced
<1>6. Orderly({y}, 0)
  BY <1>2, <1>4 DEF Orderly, Following, Begun
<1> QED
  BY <1>3, <1>5, <1>6

\* Every invoice has a kind and a month, and a run keeps invoices that exist.
Bills ==
    /\ \E n \in Nat : DOMAIN invoices = 1..n
    /\ invoices = [i \in DOMAIN invoices |-> invoices[i]]
    /\ \A i \in DOMAIN invoices : {"kind", "month"} \subseteq DOMAIN invoices[i]
    /\ "cache" \in DOMAIN agg
    /\ \A entry \in agg.cache : "id" \in DOMAIN entry /\ entry.id \in DOMAIN invoices

Fees == {i \in DOMAIN invoices : invoices[i].kind = "fee"}

\* The one fee of this month is that of a plan which lasts to its end.
FeesSound ==
    /\ \A i, j \in Fees : invoices[i].month = invoices[j].month => i = j
    /\ \A i \in Fees : invoices[i].month \in Nat /\ invoices[i].month <= Month(now)
    /\ (\E i \in Fees : invoices[i].month = Month(now)) => Covered(subs, now)

FeesInv ==
    /\ now \in Nat /\ now <= MaxTime
    /\ Rows(subs, now)
    /\ Bills
    /\ Ungraced(subs) => Orderly(subs, now) /\ FeesSound

\* A step that makes no fee invoice.
NoNewFee ==
    \A i \in Fees' : i \in Fees /\ invoices'[i].month = invoices[i].month

Updated(new) ==
    /\ DOMAIN new = DOMAIN invoices /\ new = [i \in DOMAIN new |-> new[i]]
    /\ \A i \in DOMAIN invoices :
          /\ new[i].kind = invoices[i].kind /\ new[i].month = invoices[i].month
          /\ {"kind", "month"} \subseteq DOMAIN new[i]

\* A step that updates invoices keeps their kinds and months.
LEMMA UpdatedStep ==
  ASSUME Bills, Updated(invoices'), agg' = agg
  PROVE  Bills' /\ NoNewFee
<1>1. Bills'
  BY DEF Bills, Updated
<1>2. NoNewFee
  BY DEF Updated, NoNewFee, Fees
<1> QED
  BY <1>1, <1>2

\* Setting one column of an invoice updates it,
LEMMA SetOne ==
  ASSUME Bills, NEW i, NEW v
  PROVE  Updated([invoices EXCEPT ![i].status = v]) /\ Updated([invoices EXCEPT ![i].taken = v])
BY DEF Bills, Updated

\* and setting two of them does.
LEMMA SetTwo ==
  ASSUME Bills, NEW i, NEW v, NEW w
  PROVE  /\ Updated([invoices EXCEPT ![i].status = v, ![i].taken = w])
         /\ Updated([invoices EXCEPT ![i].status = v, ![i].overage = w])
BY DEF Bills, Updated

\* Without a new fee or other rows, the fees stay sound.
LEMMA FeesKept ==
  ASSUME FeesSound, NoNewFee, subs' = subs, now' = now
  PROVE  FeesSound'
<1>1. \A i \in Fees' : i \in Fees /\ invoices'[i].month = invoices[i].month
  BY DEF NoNewFee
<1> QED
  BY <1>1 DEF FeesSound

\* Without a new fee or other rows, the invariant of plans holds.
LEMMA BillsKept ==
  ASSUME FeesInv, Bills', NoNewFee, subs' = subs, now' = now
  PROVE  FeesInv'
<1>1. Ungraced(subs') => Orderly(subs', now') /\ FeesSound'
  BY FeesKept DEF FeesInv
<1> QED
  BY <1>1 DEF FeesInv

\* A step that leaves the invoices and does not add to the copies of the run.
LEMMA SameInvoices ==
  ASSUME Bills, invoices' = invoices,
         \/ agg' = agg
         \/ \E on, todo : agg' = [on |-> on, todo |-> todo, cache |-> {}]
  PROVE  Bills' /\ NoNewFee
<1>1. "cache" \in DOMAIN agg' /\ agg'.cache \subseteq agg.cache
  BY DEF Bills
<1> QED
  BY <1>1 DEF Bills, NoNewFee, Fees

\* StartAggregate: the run has no copies yet.
LEMMA StepStart ==
  ASSUME FeesInv, StartAggregate
  PROVE  FeesInv'
<1>1. Bills /\ invoices' = invoices /\ subs' = subs /\ now' = now
  BY DEF FeesInv, StartAggregate, chargeVars
<1>2. \/ agg' = agg
      \/ \E on, todo : agg' = [on |-> on, todo |-> todo, cache |-> {}]
  BY DEF StartAggregate
<1> QED
  BY <1>1, <1>2, SameInvoices, BillsKept

\* StopAggregate: the copies are gone.
LEMMA StepStop ==
  ASSUME FeesInv, StopAggregate
  PROVE  FeesInv'
<1>1. Bills /\ invoices' = invoices /\ subs' = subs /\ now' = now
  BY DEF FeesInv, StopAggregate, chargeVars
<1>2. agg' = [on |-> FALSE, todo |-> {}, cache |-> {}]
  BY DEF StopAggregate, Stopped
<1> QED
  BY <1>1, <1>2, SameInvoices, BillsKept

\* Metering and ChargeOneHour touch neither rows nor invoices.
LEMMA StepQuiet ==
  ASSUME FeesInv, Meter \/ \E h \in Hours : ChargeOneHour(h)
  PROVE  FeesInv'
<1>1. Bills /\ invoices' = invoices /\ subs' = subs /\ now' = now /\ agg' = agg
  BY DEF FeesInv, Meter, ChargeOneHour, usageVars
<1> QED
  BY <1>1, SameInvoices, BillsKept

\* DispatchInvoices sets statuses.
LEMMA StepDispatch ==
  ASSUME FeesInv, DispatchInvoices
  PROVE  FeesInv'
<1> DEFINE chunk == {i \in DOMAIN invoices : invoices[i].status = "new" /\ invoices[i].month < Month(now)}
<1>1. Bills /\ subs' = subs /\ now' = now /\ agg' = agg
  BY DEF FeesInv, DispatchInvoices, usageVars
<1>2. invoices' = [i \in DOMAIN invoices |->
                      IF i \in chunk THEN [invoices[i] EXCEPT !.status = "pending"] ELSE invoices[i]]
  BY DEF DispatchInvoices
<1> HIDE DEF chunk
<1>3. Updated(invoices')
  BY <1>1, <1>2 DEF Bills, Updated
<1> QED
  BY <1>1, <1>3, UpdatedStep, BillsKept

\* CreateInvoiceCharge sets the status of its invoice and what was taken for it.
LEMMA StepCharge ==
  ASSUME FeesInv, NEW task \in tasks, CreateInvoiceCharge(task)
  PROVE  FeesInv'
<1>1. Bills /\ subs' = subs /\ now' = now /\ agg' = agg
  BY DEF FeesInv, CreateInvoiceCharge, usageVars
<1>2. Updated(invoices)
  BY <1>1 DEF Bills, Updated
<1>3. Updated(invoices')
  <2>1. CASE invoices' = invoices
    BY <1>2, <2>1
  <2>2. CASE Retried(task)
    <3>1. CASE task.tries < MaxRetries
      BY <1>2, <2>2, <3>1 DEF Retried
    <3>2. CASE ~(task.tries < MaxRetries)
      <4>1. invoices' = [invoices EXCEPT ![task.id].status = "scheduling_failed"]
        BY <2>2, <3>2 DEF Retried
      <4> QED
        BY <4>1, <1>1, SetOne
    <3> QED
      BY <3>1, <3>2
  <2>3. ASSUME NEW outcome, Charged(task.id, outcome)
        PROVE  Updated(invoices')
    BY <1>1, <2>3, SetTwo DEF Charged
  <2>4. ASSUME NEW outcome, AnswerLost(task, outcome)
        PROVE  Updated(invoices')
    BY <1>1, <2>4, SetTwo DEF AnswerLost
  <2> QED
    BY <2>1, <2>2, <2>3, <2>4 DEF CreateInvoiceCharge
<1> QED
  BY <1>1, <1>3, UpdatedStep, BillsKept

\* RetryPayment counts what was taken.
LEMMA StepRetry ==
  ASSUME FeesInv, NEW i \in Ids, NEW outcome, RetryPayment(i, outcome)
  PROVE  FeesInv'
<1>1. Bills /\ subs' = subs /\ now' = now /\ agg' = agg
  BY DEF FeesInv, RetryPayment, usageVars
<1>2. Updated(invoices')
  BY <1>1, SetOne DEF RetryPayment
<1> QED
  BY <1>1, <1>2, UpdatedStep, BillsKept

\* SaveRetried saves the status and amount it has.
LEMMA StepSave ==
  ASSUME FeesInv, NEW r \in retrying, SaveRetried(r)
  PROVE  FeesInv'
<1>1. Bills /\ subs' = subs /\ now' = now /\ agg' = agg
  BY DEF FeesInv, SaveRetried, usageVars
<1>2. Updated(invoices')
  BY <1>1, SetTwo DEF SaveRetried
<1> QED
  BY <1>1, <1>2, UpdatedStep, BillsKept

\* DeliverEvent sets a status.
LEMMA StepEvent ==
  ASSUME FeesInv, NEW e \in events, DeliverEvent(e)
  PROVE  FeesInv'
<1>1. Bills /\ subs' = subs /\ now' = now /\ agg' = agg
  BY DEF FeesInv, DeliverEvent, usageVars
<1>2. Updated(invoices')
  BY <1>1, SetOne DEF DeliverEvent, ProcessCharge
<1> QED
  BY <1>1, <1>2, UpdatedStep, BillsKept

\* Tick: no fee of a new month is charged yet.
LEMMA StepTick ==
  ASSUME FeesInv, Tick
  PROVE  FeesInv'
<1>1. /\ invoices' = invoices /\ subs' = subs /\ agg' = agg
      /\ now' = now + 1 /\ now \in Nat /\ now' <= MaxTime
  BY PlanConstants DEF FeesInv, Tick, usageVars
<1>2. Rows(subs', now') /\ Bills'
  BY <1>1, TickOrderly, SameInvoices DEF FeesInv
<1>3. ASSUME Ungraced(subs)
      PROVE  Orderly(subs', now') /\ FeesSound'
  <2>1. Orderly(subs', now')
    BY <1>1, <1>3, TickOrderly DEF FeesInv
  <2>2. FeesSound /\ Fees' = Fees
    BY <1>1, <1>3 DEF FeesInv, Fees
  <2>3. Month(now) \in Nat /\ Month(now') \in Nat /\ Month(now) <= Month(now')
    BY <1>1, MonthBounds, MonthMono
  <2>4. ASSUME NEW i \in Fees', invoices'[i].month = Month(now')
        PROVE  Covered(subs', now')
    <3>1. i \in Fees /\ invoices[i].month <= Month(now) /\ invoices[i].month \in Nat
      BY <2>2 DEF FeesSound
    <3>2. Month(now') = Month(now)
      BY <3>1, <2>3, <2>4, <1>1
    <3>3. Covered(subs, now)
      BY <3>1, <3>2, <2>2, <2>4, <1>1 DEF FeesSound
    <3> QED
      BY <3>2, <3>3, <1>1, TickOrderly DEF FeesInv
  <2> QED
    BY <2>1, <2>2, <2>3, <2>4, <1>1 DEF FeesSound
<1> QED
  BY <1>1, <1>2, <1>3 DEF FeesInv

\* CancelPlan: what covers this month still does.
LEMMA StepCancel ==
  ASSUME FeesInv, NEW row \in subs, CancelPlan(row)
  PROVE  FeesInv'
<1>1. /\ invoices' = invoices /\ agg' = agg /\ subs' = Cancelled(subs, row, now) /\ now' = now
      /\ now \in Nat /\ now <= MaxTime /\ Rows(subs, now) /\ now < row.end /\ IsPaid(row.offer)
  BY DEF FeesInv, CancelPlan, usageVars
<1>2. /\ Rows(subs', now') /\ (Ungraced(subs') => Ungraced(subs))
      /\ Orderly(subs, now) => Orderly(subs', now') /\ (Covered(subs, now) => Covered(subs', now'))
  BY <1>1, CancelledOrderly
<1>3. Bills' /\ Fees' = Fees
  BY <1>1, SameInvoices DEF FeesInv, Fees
<1>4. ASSUME Ungraced(subs')
      PROVE  Orderly(subs', now') /\ FeesSound'
  BY <1>1, <1>2, <1>3, <1>4 DEF FeesInv, FeesSound
<1> QED
  BY <1>1, <1>2, <1>3, <1>4 DEF FeesInv

\* The copy of an invoice that a group is added to is one that exists or the next.
LEMMA CopyExists ==
  ASSUME Bills, NEW m, NEW status
  PROVE  /\ "id" \in DOMAIN InvoiceFor(m, status)
         /\ \/ InvoiceFor(m, status).id \in DOMAIN invoices
            \/ InvoiceFor(m, status).id = Len(invoices) + 1
<1> DEFINE found == {i \in OfMonth(m) : invoices[i].status = status}
<1>1. CASE Cached(m) # {}
  <2>1. (CHOOSE entry \in Cached(m) : TRUE) \in Cached(m)
    BY <1>1
  <2>2. InvoiceFor(m, status) \in agg.cache
    BY <1>1, <2>1 DEF InvoiceFor, Cached
  <2> QED
    BY <2>2 DEF Bills
<1>2. CASE Cached(m) = {} /\ found # {}
  <2>1. PICK i : i = CHOOSE k \in found : TRUE
    OBVIOUS
  <2>2. i \in DOMAIN invoices
    BY <1>2, <2>1 DEF OfMonth
  <2>3. InvoiceFor(m, status) = [month |-> m, id |-> i, status |-> status, overage |-> invoices[i].overage]
    BY <1>2, <2>1 DEF InvoiceFor
  <2> QED
    BY <2>2, <2>3
<1>3. CASE Cached(m) = {} /\ found = {}
  BY <1>3 DEF InvoiceFor
<1> QED
  BY <1>1, <1>2, <1>3

\* Invoices are numbered from one.
LEMMA InvoiceCount ==
  ASSUME Bills
  PROVE  Len(invoices) \in Nat /\ DOMAIN invoices = 1..Len(invoices) /\ invoices \in Seq({invoices[i] : i \in DOMAIN invoices})
<1>1. PICK n \in Nat : DOMAIN invoices = 1..n
  BY DEF Bills
<1> DEFINE R == {invoices[i] : i \in DOMAIN invoices}
<1>2. invoices \in [1..n -> R]
  BY <1>1 DEF Bills
<1>3. invoices \in Seq(R)
  BY <1>2, SeqDef
<1> QED
  BY <1>3, LenProperties

\* AggregateGroup adds to an invoice or makes one of usage.
LEMMA StepGroup ==
  ASSUME FeesInv, NEW m \in Months, NEW s \in Sources, AggregateGroup(m, s)
  PROVE  FeesInv'
<1> DEFINE group == {u \in agg.todo : Month(u[1]) = m /\ u[2] = s}
<1>1. Bills /\ subs' = subs /\ now' = now
  BY DEF FeesInv, AggregateGroup
<1>2. PICK first \in group :
            LET offer == PlanAt(first[1])
                status == IF IsPaid(offer) THEN "new" ELSE "fake"
                quantity == Quantity(group)
                free == FreePart(FreeUsage(m, s), quantity, Included[offer])
                copy == InvoiceFor(m, status)
                saved == [copy EXCEPT !.overage = @ + (quantity - free)]
                row == IF copy.id \in DOMAIN invoices THEN invoices[copy.id]
                       ELSE NewInvoice("usage", m, status)
            IN  /\ invoices' = [i \in DOMAIN invoices \cup {copy.id} |->
                        IF i = copy.id
                        THEN Itemed([row EXCEPT !.status = saved.status, !.overage = saved.overage],
                                    s, free, quantity - free)
                        ELSE invoices[i]]
                /\ agg' = [agg EXCEPT !.todo = @ \ group,
                                      !.cache = {e \in @ : e.month # m} \cup {saved}]
  BY DEF AggregateGroup
<1>3. PICK status : status = IF IsPaid(PlanAt(first[1])) THEN "new" ELSE "fake"
  OBVIOUS
<1>4. PICK free : free = FreePart(FreeUsage(m, s), Quantity(group), Included[PlanAt(first[1])])
  OBVIOUS
<1>5. PICK paid : paid = Quantity(group) - free
  OBVIOUS
<1>6. PICK copy : copy = InvoiceFor(m, status)
  OBVIOUS
<1>7. PICK saved : saved = [copy EXCEPT !.overage = @ + paid]
  OBVIOUS
<1>8. PICK row : row = IF copy.id \in DOMAIN invoices THEN invoices[copy.id]
                       ELSE NewInvoice("usage", m, status)
  OBVIOUS
<1> HIDE DEF group
<1>9. PICK new : new = Itemed([row EXCEPT !.status = saved.status, !.overage = saved.overage],
                              s, free, paid)
  OBVIOUS
<1>10. invoices' = [i \in DOMAIN invoices \cup {copy.id} |-> IF i = copy.id THEN new ELSE invoices[i]]
  <2>1. copy = InvoiceFor(m, IF IsPaid(PlanAt(first[1])) THEN "new" ELSE "fake")
    BY <1>3, <1>6
  <2>2. DOMAIN invoices' = DOMAIN invoices \cup {copy.id}
    BY <1>2, <2>1
  <2>3. ASSUME NEW i \in DOMAIN invoices \cup {copy.id}, i # copy.id
        PROVE  invoices'[i] = invoices[i]
    BY <1>2, <2>1, <2>3
  <2>4. invoices'[copy.id] = new
    BY <1>2, <1>3, <1>4, <1>5, <1>6, <1>7, <1>8, <1>9
  <2>5. invoices' = [i \in DOMAIN invoices' |-> invoices'[i]]
    BY <1>2
  <2> QED
    BY <2>2, <2>3, <2>4, <2>5
<1>11. agg' = [agg EXCEPT !.todo = @ \ group, !.cache = {e \in @ : e.month # m} \cup {saved}]
  BY <1>2, <1>3, <1>4, <1>5, <1>6, <1>7, Zenon
<1>12. /\ "id" \in DOMAIN copy
       /\ copy.id \in DOMAIN invoices \/ copy.id = Len(invoices) + 1
  BY <1>1, <1>6, CopyExists
<1>13. "id" \in DOMAIN saved /\ saved.id = copy.id
  BY <1>7, <1>12
<1>14. /\ {"kind", "month"} \subseteq DOMAIN row
       /\ copy.id \in DOMAIN invoices => row = invoices[copy.id]
       /\ copy.id \notin DOMAIN invoices => row.kind = "usage"
  BY <1>1, <1>8 DEF Bills, NewInvoice
<1>15. PICK rich : rich = [row EXCEPT !.status = saved.status, !.overage = saved.overage]
  OBVIOUS
<1>16. {"kind", "month"} \subseteq DOMAIN rich /\ rich.kind = row.kind /\ rich.month = row.month
  BY <1>14, <1>15
<1>17. new = Itemed(rich, s, free, paid)
  BY <1>9, <1>15
<1>18. {"kind", "month"} \subseteq DOMAIN new /\ new.kind = row.kind /\ new.month = row.month
  BY <1>16, <1>17 DEF Itemed
<1>19. DOMAIN invoices' = DOMAIN invoices \cup {copy.id}
  BY <1>10
<1>20. \E n \in Nat : DOMAIN invoices' = 1..n
  BY <1>1, <1>12, <1>19, InvoiceCount
<1>21. "cache" \in DOMAIN agg' /\ agg'.cache \subseteq agg.cache \cup {saved}
  <2>1. PICK todo, cache : /\ agg' = [agg EXCEPT !.todo = todo, !.cache = cache]
                           /\ cache = {e \in agg.cache : e.month # m} \cup {saved}
    BY <1>11
  <2> QED
    BY <2>1, <1>1 DEF Bills
<1>22. \A entry \in agg'.cache : "id" \in DOMAIN entry /\ entry.id \in DOMAIN invoices'
  BY <1>1, <1>13, <1>19, <1>21 DEF Bills
<1>23. \A i \in DOMAIN invoices' : {"kind", "month"} \subseteq DOMAIN invoices'[i]
  BY <1>1, <1>18, <1>10 DEF Bills
<1>24. Bills'
  BY <1>10, <1>20, <1>21, <1>22, <1>23 DEF Bills
<1>25. NoNewFee
  BY <1>14, <1>18, <1>10 DEF NoNewFee, Fees
<1> QED
  BY <1>1, <1>24, <1>25, BillsKept

\* A step that makes one fee invoice of this month, which was not covered.
LEMMA OneNewFee ==
  ASSUME FeesSound, now \in Nat, now' = now, NEW id,
         \A i \in Fees' : \/ i \in Fees /\ invoices'[i].month = invoices[i].month
                          \/ i = id /\ invoices'[i].month = Month(now),
         ~Covered(subs, now), Covered(subs', now)
  PROVE  FeesSound'
<1>1. \A i \in Fees : invoices[i].month # Month(now)
  BY DEF FeesSound
<1>2. Month(now) \in Nat
  BY MonthBounds
<1>3. \A i, j \in Fees' : invoices'[i].month = invoices'[j].month => i = j
  BY <1>1 DEF FeesSound
<1>4. \A i \in Fees' : invoices'[i].month \in Nat /\ invoices'[i].month <= Month(now')
  BY <1>2 DEF FeesSound
<1> QED
  BY <1>3, <1>4 DEF FeesSound

\* Subscribe makes a fee invoice only when no paid plan covers the month.
LEMMA StepSubscribe ==
  ASSUME FeesInv, NEW offer \in Offers, Subscribe(offer)
  PROVE  FeesInv'
<1> DEFINE active == ActiveAt(subs, now)
           paid == {s \in active : IsPaid(s.offer)}
<1>1. /\ now' = now /\ agg' = agg /\ now \in Nat /\ now <= MaxTime
      /\ Rows(subs, now) /\ Bills
  BY DEF FeesInv, Subscribe, usageVars
<1>2. CASE paid # {}
  <2>1. PICK row : row = CHOOSE s \in paid : TRUE
    OBVIOUS
  <2>2. row \in subs /\ row.start <= now /\ now < row.end /\ IsPaid(row.offer)
    BY <1>2, <2>1 DEF ActiveAt
  <2>3. subs' = ChangedPlan(subs, row, offer, now) /\ invoices' = invoices
    BY <1>2, <2>1 DEF Subscribe
  <2>4. Rows(subs', now) /\ (Ungraced(subs') => Ungraced(subs))
    BY <1>1, <2>2, <2>3, ChangedTypes, ChangedGraced
  <2>5. Bills' /\ Fees' = Fees
    BY <1>1, <2>3, SameInvoices DEF Fees
  <2>6. ASSUME Ungraced(subs')
        PROVE  Orderly(subs', now) /\ FeesSound'
    <3>1. Orderly(subs, now) /\ FeesSound
      BY <2>4, <2>6 DEF FeesInv
    <3>2. Orderly(subs', now) /\ (Covered(subs, now) => Covered(subs', now))
      BY <1>1, <2>2, <2>3, <2>6, <3>1, ChangedOrderly
    <3> QED
      BY <1>1, <2>3, <2>5, <3>1, <3>2 DEF FeesSound
  <2> QED
    BY <1>1, <2>4, <2>5, <2>6 DEF FeesInv
<1>3. CASE paid = {}
  <2>1. PICK bill : bill = [NewInvoice("fee", Month(now), "scheduled") EXCEPT !.taken = 1]
    OBVIOUS
  <2>2. /\ {"kind", "month"} \subseteq DOMAIN bill /\ bill.month = Month(now)
    BY <2>1 DEF NewInvoice
  <2>3. subs' = StartedPlan(subs, active, offer, now) /\ invoices' = Append(invoices, bill)
    BY <1>3, <2>1 DEF Subscribe
  <2>4. PICK n \in Nat : n = Len(invoices) /\ DOMAIN invoices = 1..n
    BY <1>1, InvoiceCount
  <2>5. /\ DOMAIN invoices' = 1..(n + 1) /\ \A i \in 1..n : invoices'[i] = invoices[i]
        /\ invoices'[n + 1] = bill /\ invoices' = [i \in DOMAIN invoices' |-> invoices'[i]]
    <3> DEFINE R == {invoices[i] : i \in DOMAIN invoices} \cup {bill}
    <3>1. invoices \in [1..n -> R]
      BY <1>1, <2>4 DEF Bills
    <3>2. invoices \in Seq(R)
      BY <3>1, SeqDef
    <3>3. bill \in R
      OBVIOUS
    <3>4. /\ invoices' \in Seq(R) /\ Len(invoices') = n + 1
          /\ \A i \in 1..n : invoices'[i] = invoices[i]
          /\ invoices'[n + 1] = bill
      <4> HIDE DEF R
      <4> QED
        BY <3>2, <3>3, <2>3, <2>4, AppendProperties
    <3>5. invoices' \in [1..(n + 1) -> R]
      <4> HIDE DEF R
      <4> QED
        BY <3>4, LenProperties
    <3> QED
      BY <3>4, <3>5
  <2>6. Bills'
    BY <1>1, <2>2, <2>4, <2>5 DEF Bills
  <2>7. \A s \in active : ~IsPaid(s.offer)
    BY <1>3
  <2>8. /\ Rows(subs', now) /\ (Ungraced(subs') => Ungraced(subs))
        /\ Orderly(subs, now) => Orderly(subs', now) /\ Covered(subs', now) /\ ~Covered(subs, now)
    BY <1>1, <2>3, <2>7, StartedOrderly
  <2>9. \A i \in Fees' : \/ i \in Fees /\ invoices'[i].month = invoices[i].month
                         \/ i = n + 1 /\ invoices'[i].month = Month(now)
    BY <2>2, <2>4, <2>5 DEF Fees
  <2>10. ASSUME Ungraced(subs')
         PROVE  Orderly(subs', now) /\ FeesSound'
    <3>1. Orderly(subs, now) /\ FeesSound
      BY <2>8, <2>10 DEF FeesInv
    <3> QED
      BY <1>1, <2>8, <2>9, <3>1, OneNewFee
  <2> QED
    BY <1>1, <2>6, <2>8, <2>10 DEF FeesInv
<1> QED
  BY <1>2, <1>3

\* DispatchPlanFees makes one fee invoice, for the plan that is due.
LEMMA StepPlanFees ==
  ASSUME FeesInv, DispatchPlanFees
  PROVE  FeesInv'
<1> DEFINE due == FeeDue(subs, now)
           ids == Len(invoices) + 1 .. Len(invoices) + Cardinality(due)
<1>1. /\ now' = now /\ agg' = agg /\ now \in Nat /\ now <= MaxTime
      /\ Rows(subs, now) /\ Bills /\ due # {} /\ subs' = FeeCharged(subs, now)
      /\ ids \subseteq Ids
  BY DEF FeesInv, DispatchPlanFees, usageVars
<1>2. PICK bill : bill = NewInvoice("fee", Month(now), "pending")
  OBVIOUS
<1>3. {"kind", "month"} \subseteq DOMAIN bill /\ bill.month = Month(now)
  BY <1>2 DEF NewInvoice
<1>4. invoices' = [i \in DOMAIN invoices \cup ids |-> IF i \in ids THEN bill ELSE invoices[i]]
  BY <1>2 DEF DispatchPlanFees
<1>5. PICK n \in Nat : n = Len(invoices) /\ DOMAIN invoices = 1..n
  BY <1>1, InvoiceCount
<1>6. PICK d \in Nat : d = Cardinality(due)
  <2>1. due \in SUBSET subs
    BY DEF FeeDue
  <2> QED
    BY <2>1, <1>1, FS_Subset, FS_CardinalityType DEF Rows
<1>7. ids = (n + 1)..(n + d)
  BY <1>5, <1>6
<1> HIDE DEF ids
<1>8. Bills'
  <2>1. DOMAIN invoices' = 1..(n + d)
    BY <1>4, <1>5, <1>7
  <2> QED
    BY <2>1, <1>1, <1>3, <1>4 DEF Bills
<1>9. /\ Rows(subs', now) /\ (Ungraced(subs') => Ungraced(subs))
      /\ Orderly(subs, now) => Orderly(subs', now)
      /\ Covered(subs', now)
  BY <1>1, ChargedOrderly
<1>10. ASSUME Ungraced(subs')
       PROVE  Orderly(subs', now) /\ FeesSound'
  <2>1. Orderly(subs, now) /\ FeesSound
    BY <1>9, <1>10 DEF FeesInv
  <2>2. PICK row \in due : TRUE
    BY <1>1
  <2>3. due = {row} /\ ~Covered(subs, now)
    BY <1>1, <2>1, <2>2, DueOnce
  <2>4. ids = {n + 1}
    <3>1. d = 1
      BY <1>6, <2>3, FS_Singleton
    <3> QED
      BY <3>1, <1>7
  <2>5. \A i \in Fees' : \/ i \in Fees /\ invoices'[i].month = invoices[i].month
                         \/ i = n + 1 /\ invoices'[i].month = Month(now)
    BY <1>3, <1>4, <2>4 DEF Fees
  <2> HIDE DEF due
  <2> QED
    BY <1>1, <1>9, <2>1, <2>3, <2>5, OneNewFee
<1> QED
  BY <1>1, <1>8, <1>9, <1>10 DEF FeesInv

\* The invariant of plans and their fees is inductive.
THEOREM FeesInvariant == BillingSpec => []FeesInv
<1>1. BillingInit => FeesInv
  <2> SUFFICES ASSUME BillingInit PROVE FeesInv
    OBVIOUS
  <2>1. now = 0 /\ subs = SignedUp(0, Timeout) /\ invoices = <<>> /\ agg = Stopped
    BY DEF BillingInit
  <2>2. Bills
    BY <2>1 DEF Bills, Stopped
  <2>3. FeesSound
    BY <2>1 DEF FeesSound, Fees
  <2> QED
    BY <2>1, <2>2, <2>3, SignedUpOrderly, PlanConstants DEF FeesInv
<1>2. FeesInv /\ [BillingNext]_billingVars => FeesInv'
  <2> SUFFICES ASSUME FeesInv, [BillingNext]_billingVars PROVE FeesInv'
    OBVIOUS
  <2>1. CASE UNCHANGED billingVars
    <3>1. now' = now /\ subs' = subs /\ invoices' = invoices /\ agg' = agg
      BY <2>1 DEF billingVars, usageVars
    <3>2. Bills' /\ NoNewFee
      BY <3>1, SameInvoices DEF FeesInv
    <3> QED
      BY <3>1, <3>2, BillsKept
  <2>2. CASE BillingNext
    BY <2>2, StepTick, StepQuiet, StepStart, StepStop, StepDispatch, StepPlanFees, StepGroup,
       StepCharge, StepRetry, StepSave, StepEvent, StepSubscribe, StepCancel DEF BillingNext
  <2> QED
    BY <2>1, <2>2
<1> QED
  BY <1>1, <1>2, PTL DEF BillingSpec

\* Nobody pays two fees for a month.
THEOREM OneFeePerMonthHolds == BillingSpec => []OneFeePerMonth
<1>1. FeesInv => OneFeePerMonth
  <2> SUFFICES ASSUME FeesInv, \A s \in subs : s.graced = "no", NEW m \in Months
               PROVE  Cardinality({i \in OfMonth(m) : invoices[i].kind = "fee"}) <= 1
    BY DEF OneFeePerMonth
  <2> DEFINE F == {i \in OfMonth(m) : invoices[i].kind = "fee"}
  <2>1. \A i, j \in F : i = j
    BY DEF FeesInv, Ungraced, FeesSound, Fees, OfMonth
  <2>2. CASE F = {}
    BY <2>2, FS_EmptySet
  <2>3. CASE F # {}
    <3>1. PICK i \in F : F = {i}
      BY <2>1, <2>3
    <3>2. Cardinality(F) = 1
      <4> HIDE DEF F
      <4> QED
        BY <3>1, FS_Singleton
    <3> QED
      BY <3>2
  <2> QED
    BY <2>2, <2>3
<1> QED
  BY <1>1, FeesInvariant, PTL

-----------------------------------------------------------------------------
(* Accounts *)

\* Zeros add up to zero.
LEMMA SumZero ==
  ASSUME NEW f, NEW S, IsFiniteSet(S), \A x \in S : f[x] = 0
  PROVE  SumFunctionOnSet(f, S) = 0
<1> DEFINE Bad == {s \in SUBSET S : SumFunctionOnSet(f, s) # 0}
<1> SUFFICES ASSUME Bad # {} PROVE FALSE
  OBVIOUS
<1>0. Bad \subseteq SUBSET S
  OBVIOUS
<1>1. PICK s \in Bad : IsFiniteSet(s) /\ \A t \in SUBSET s : t # s => t \notin Bad
  <2> HIDE DEF Bad
  <2> QED
    BY <1>0, SmallestSet
<1>2. s # {}
  BY <1>1, SumEmpty
<1>3. PICK x \in s : SumFunctionOnSet(f, s) = f[x] + SumFunctionOnSet(f, s \ {x})
  BY <1>1, <1>2, SumFirst
<1>4. SumFunctionOnSet(f, s \ {x}) = 0
  BY <1>1
<1> QED
  BY <1>1, <1>3, <1>4

-----------------------------------------------------------------------------
(* Invoices *)

Statuses == {"new", "fake", "pending", "empty", "scheduled", "failed", "succeeded", "scheduling_failed"}
Items == [Sources -> Int]
InvoiceRows ==
    [kind : {"usage", "fee"}, month : Int, status : Statuses, overage : Int,
     free : Items, paid : Items, taken : Nat]

BookTypes ==
    /\ faults \in Nat
    /\ \E n \in Nat : invoices \in [1..n -> InvoiceRows]
    /\ tasks \subseteq [id : DOMAIN invoices, force : BOOLEAN, tries : Nat]
    /\ retrying \subseteq [request : Int, id : DOMAIN invoices, overage : Int,
                           status : {"scheduled", "failed"}]
    /\ events \subseteq [id : DOMAIN invoices, type : {"paid", "declined"}]
    /\ changes \in Int

Copies == [month : Int, id : Int, status : {"new", "fake"}, overage : Int]

\* Transactions are of hours that have their total, and a run has open ones.
UsageSound ==
    /\ ran \subseteq charges /\ charges \subseteq Hours
    /\ txs \in [Usages -> {"none", "open", "aggregated"}]
    /\ hourRows \in [Hours -> Int] /\ hourEntry \in [Hours -> {"none", "done", "failed"}]
    /\ agg \in [on : BOOLEAN, todo : SUBSET Usages, cache : SUBSET Copies]
    /\ \A h \in charges : hourEntry[h] = "done"
    /\ \A u \in Usages : txs[u] # "none" => u[1] \in ran
    /\ agg.todo \subseteq Open

\* The copy of a run is of an invoice of the month and has its amount.
CopySound(entry) ==
    /\ entry.id \in DOMAIN invoices /\ invoices[entry.id].month = entry.month
    /\ entry.id \notin overtaken => entry.overage = invoices[entry.id].overage

\* What Stripe has taken is on record or will be saved.
PaymentSound(i) ==
    /\ invoices[i].overage = SumFunctionOnSet(invoices[i].paid, Sources)
    /\ invoices[i].taken <= 1
    /\ \A q, r \in retrying : q.id = i /\ r.id = i => q = r
    /\ invoices[i].status = "scheduled" => invoices[i].taken = 1
    /\ invoices[i].taken = 1 =>
        \/ invoices[i].status \in {"scheduled", "succeeded"}
        \/ \E r \in retrying : r.id = i
    /\ \A r \in retrying : r.id = i =>
        /\ invoices[i].status \in {"failed", "succeeded"}
        /\ r.overage = invoices[i].overage
        /\ r.status = "scheduled" <=> invoices[i].taken = 1

AccountsInv ==
    /\ BookTypes /\ UsageSound
    /\ \A entry \in agg.cache : CopySound(entry)
    /\ \A i \in DOMAIN invoices \ overtaken : PaymentSound(i)
    /\ UsageOnInvoices /\ PendingHasTask

\* The days of a month are finitely many, and so is its usage.
LEMMA MonthFinite ==
  ASSUME NEW m \in Int, NEW s
  PROVE  IsFiniteSet({u \in Usages : u[2] = s /\ Month(u[1]) = m})
<1> DEFINE D == {h \in Hours : Month(h) = m}
<1>1. CASE m \in Nat
  <2>1. FirstOf(m + 1) \in Nat
    BY <1>1, FirstMono
  <2>2. D \subseteq 0..FirstOf(m + 1)
    <3>1. \A h \in D : h \in Nat /\ h < FirstOf(Month(h) + 1) /\ Month(h) = m
      BY BillingAssumption, MonthBounds
    <3> QED
      BY <2>1, <3>1
  <2>3. IsFiniteSet(D)
    <3>1. IsFiniteSet(0..FirstOf(m + 1))
      BY <2>1, FS_Interval
    <3> QED
      BY <2>2, <3>1, FS_Subset
  <2>4. IsFiniteSet(D \X {s})
    BY <2>3, FS_Product, FS_Singleton
  <2>5. {u \in Usages : u[2] = s /\ Month(u[1]) = m} \subseteq D \X {s}
    BY DEF Usages
  <2> QED
    BY <2>4, <2>5, FS_Subset
<1>2. CASE m \notin Nat
  <2>1. {u \in Usages : u[2] = s /\ Month(u[1]) = m} = {}
    BY <1>2, BillingAssumption, MonthBounds DEF Usages
  <2> QED
    BY <2>1, FS_EmptySet
<1> QED
  BY <1>1, <1>2

\* Invoices are finitely many, and what they list are integers.
LEMMA ListedTypes ==
  ASSUME BookTypes, NEW m, NEW s \in Sources
  PROVE  /\ IsFiniteSet(OfMonth(m)) /\ IsFiniteSet(DOMAIN invoices)
         /\ DOMAIN Listed(s) = DOMAIN invoices
         /\ \A i \in DOMAIN invoices : Listed(s)[i] = invoices[i].free[s] + invoices[i].paid[s] /\ Listed(s)[i] \in Int
<1>1. PICK n \in Nat : invoices \in [1..n -> InvoiceRows]
  BY DEF BookTypes
<1>2. IsFiniteSet(DOMAIN invoices)
  BY <1>1, FS_Interval
<1>3. IsFiniteSet(OfMonth(m))
  BY <1>2, FS_Subset DEF OfMonth
<1>4. \A i \in DOMAIN invoices : invoices[i].free[s] \in Int /\ invoices[i].paid[s] \in Int
  BY <1>1 DEF InvoiceRows, Items
<1> QED
  BY <1>2, <1>3, <1>4 DEF Listed

\* The usage of transactions is the sum of their hours.
Used == [u \in Usages |-> hourRows[u[1]]]

LEMMA UsageTypes ==
  ASSUME UsageSound, NEW m \in Int, NEW s
  PROVE  /\ IsFiniteSet(Aggregated(m, s)) /\ Aggregated(m, s) \subseteq Usages
         /\ \A u \in Usages : Used[u] = hourRows[u[1]] /\ Used[u] \in Int
<1>1. Aggregated(m, s) \subseteq {u \in Usages : u[2] = s /\ Month(u[1]) = m}
  BY DEF Aggregated
<1>2. IsFiniteSet(Aggregated(m, s))
  BY <1>1, MonthFinite, FS_Subset
<1> QED
  BY <1>1, <1>2 DEF UsageSound, Usages, Used

\* A step that neither aggregates nor changes what is listed.
LEMMA UsageKept ==
  ASSUME BookTypes, BookTypes', UsageSound, UsageOnInvoices,
         \A u \in Usages : txs'[u] = "aggregated" <=> txs[u] = "aggregated",
         \A h \in ran : hourRows'[h] = hourRows[h],
         DOMAIN invoices \subseteq DOMAIN invoices',
         \A i \in DOMAIN invoices :
            /\ invoices'[i].month = invoices[i].month
            /\ invoices'[i].free = invoices[i].free /\ invoices'[i].paid = invoices[i].paid,
         \A i \in DOMAIN invoices' \ DOMAIN invoices : \A s \in Sources :
            invoices'[i].free[s] = 0 /\ invoices'[i].paid[s] = 0
  PROVE  UsageOnInvoices'
<1> SUFFICES ASSUME NEW m \in Months, NEW s \in Sources
             PROVE  SumFunctionOnSet(Listed(s)', OfMonth(m)') = SumFunctionOnSet(Used', Aggregated(m, s)')
  BY DEF UsageOnInvoices, Quantity, Used
<1>0. m \in Int
  BY DEF Months
<1>1. SumFunctionOnSet(Listed(s), OfMonth(m)) = SumFunctionOnSet(Used, Aggregated(m, s))
  BY DEF UsageOnInvoices, Quantity, Used
<1>2. SumFunctionOnSet(Used', Aggregated(m, s)') = SumFunctionOnSet(Used, Aggregated(m, s))
  <2>1. Aggregated(m, s)' = Aggregated(m, s)
    BY DEF Aggregated
  <2>2. \A u \in Aggregated(m, s) : Used'[u] = Used[u]
    BY DEF Aggregated, Used, UsageSound
  <2> QED
    BY <2>1, <2>2, <1>0, UsageTypes, SumSame
<1> DEFINE added == OfMonth(m)' \ OfMonth(m)
<1>3. /\ IsFiniteSet(OfMonth(m)) /\ OfMonth(m) \subseteq DOMAIN invoices
      /\ \A i \in DOMAIN invoices : Listed(s)[i] = invoices[i].free[s] + invoices[i].paid[s] /\ Listed(s)[i] \in Int
  BY ListedTypes DEF OfMonth
<1>4. /\ IsFiniteSet(OfMonth(m)') /\ OfMonth(m)' \subseteq DOMAIN invoices'
      /\ \A i \in DOMAIN invoices' : Listed(s)'[i] = invoices'[i].free[s] + invoices'[i].paid[s] /\ Listed(s)'[i] \in Int
  <2>1. PICK n \in Nat : invoices' \in [1..n -> InvoiceRows]
    BY DEF BookTypes
  <2>2. IsFiniteSet(OfMonth(m)') /\ OfMonth(m)' \subseteq DOMAIN invoices'
    BY <2>1, FS_Interval, FS_Subset DEF OfMonth
  <2>3. \A i \in DOMAIN invoices' : invoices'[i].free[s] \in Int /\ invoices'[i].paid[s] \in Int
    BY <2>1 DEF InvoiceRows, Items
  <2> QED
    BY <2>2, <2>3 DEF Listed
<1>5. OfMonth(m)' = OfMonth(m) \cup added /\ OfMonth(m) \cap added = {} /\ added \cap DOMAIN invoices = {}
  BY DEF OfMonth
<1>6. SumFunctionOnSet(Listed(s)', OfMonth(m)) = SumFunctionOnSet(Listed(s), OfMonth(m))
  <2>1. \A i \in OfMonth(m) : Listed(s)'[i] = Listed(s)[i]
    BY <1>3, <1>4
  <2> QED
    BY <2>1, <1>3, SumSame
<1>7. IsFiniteSet(added)
  BY <1>4, FS_Subset
<1>8. SumFunctionOnSet(Listed(s)', added) = 0
  <2>1. \A i \in added : Listed(s)'[i] = 0
    BY <1>4, <1>5
  <2> HIDE DEF added
  <2> QED
    BY <2>1, <1>7, SumZero
<1>9. SumFunctionOnSet(Listed(s), OfMonth(m)) \in Int
  BY <1>3, SumRemove
<1>10. SumFunctionOnSet(Listed(s)', OfMonth(m)')
          = SumFunctionOnSet(Listed(s)', OfMonth(m)) + SumFunctionOnSet(Listed(s)', added)
  <2>1. \A i \in OfMonth(m) \cup added : Listed(s)'[i] \in Int
    BY <1>4, <1>5
  <2> HIDE DEF added
  <2> QED
    BY <2>1, <1>3, <1>5, <1>7, SumUnion
<1> QED
  BY <1>1, <1>2, <1>6, <1>8, <1>9, <1>10

usageFrame == <<ran, txs, agg, hourEntry, hourRows, charges>>

\* One row is replaced by one that lists the same.
RowChange(j) ==
    /\ invoices' \in [DOMAIN invoices -> InvoiceRows]
    /\ \A i \in DOMAIN invoices \ {j} : invoices'[i] = invoices[i]
    /\ invoices'[j].month = invoices[j].month
    /\ invoices'[j].free = invoices[j].free /\ invoices'[j].paid = invoices[j].paid

\* Invoices that a step leaves alone stay sound.
LEMMA PaymentKept ==
  ASSUME NEW i \in DOMAIN invoices, PaymentSound(i), invoices'[i] = invoices[i],
         \A r : r.id = i => (r \in retrying' <=> r \in retrying)
  PROVE  PaymentSound(i)'
<1>1. \A r \in retrying' : r.id = i => r \in retrying
  OBVIOUS
<1>2. \A r \in retrying : r.id = i => r \in retrying'
  OBVIOUS
<1> QED
  BY <1>1, <1>2 DEF PaymentSound

\* A step of the run of none, which changes one invoice.
LEMMA RowStep ==
  ASSUME AccountsInv, NEW j \in DOMAIN invoices, RowChange(j), BookTypes', UNCHANGED usageFrame,
         overtaken \subseteq overtaken',
         \A r : r.id # j => (r \in retrying' <=> r \in retrying),
         j \notin overtaken' => PaymentSound(j)' /\ invoices'[j].overage = invoices[j].overage,
         faults' = 0 => faults = 0,
         \A task \in tasks : task.id # j => task \in tasks',
         faults' = 0 /\ invoices'[j].status = "pending" => \E task \in tasks' : task.id = j
  PROVE  AccountsInv'
<1>1. UsageSound'
  BY DEF AccountsInv, UsageSound, usageFrame, Open
<1>2. UsageOnInvoices'
  <2>1. DOMAIN invoices' = DOMAIN invoices
    BY DEF RowChange
  <2>2. \A i \in DOMAIN invoices :
            /\ invoices'[i].month = invoices[i].month
            /\ invoices'[i].free = invoices[i].free /\ invoices'[i].paid = invoices[i].paid
    BY DEF RowChange
  <2>3. txs' = txs /\ hourRows' = hourRows
    BY DEF usageFrame
  <2> QED
    BY <2>1, <2>2, <2>3, UsageKept DEF AccountsInv
<1>3. ASSUME NEW entry \in agg'.cache
      PROVE  CopySound(entry)'
  <2>1. CopySound(entry)
    BY <1>3 DEF usageFrame, AccountsInv
  <2> QED
    BY <2>1 DEF CopySound, RowChange
<1>4. ASSUME NEW i \in DOMAIN invoices' \ overtaken'
      PROVE  PaymentSound(i)'
  <2>1. CASE i = j
    BY <2>1, <1>4
  <2>2. CASE i # j
    <3>1. i \in DOMAIN invoices \ overtaken
      BY DEF RowChange
    <3>2. PaymentSound(i) /\ invoices'[i] = invoices[i]
      BY <3>1, <2>2 DEF RowChange, AccountsInv
    <3> QED
      BY <2>2, <3>1, <3>2, PaymentKept
  <2> QED
    BY <2>1, <2>2
<1>5. PendingHasTask'
  <2> SUFFICES ASSUME faults' = 0, NEW i \in DOMAIN invoices', invoices'[i].status = "pending"
               PROVE  \E task \in tasks' : task.id = i
    BY DEF PendingHasTask
  <2>1. CASE i # j
    <3>1. i \in DOMAIN invoices /\ invoices[i].status = "pending"
      BY <2>1 DEF RowChange
    <3>2. PICK task \in tasks : task.id = i
      BY <3>1 DEF AccountsInv, PendingHasTask
    <3> QED
      BY <2>1, <3>2
  <2> QED
    BY <2>1
<1> QED
  BY <1>1, <1>2, <1>3, <1>4, <1>5 DEF AccountsInv

\* An invoice gets another status, amount and payment,
Rowed(j, status, overage, taken) ==
    [invoices EXCEPT ![j] = [invoices[j] EXCEPT !.status = status, !.overage = overage, !.taken = taken]]

\* and lists the same.
LEMMA RowSet ==
  ASSUME BookTypes, NEW j \in DOMAIN invoices, NEW status \in Statuses, NEW overage \in Int, NEW taken \in Nat,
         invoices' = Rowed(j, status, overage, taken)
  PROVE  /\ RowChange(j) /\ DOMAIN invoices' = DOMAIN invoices
         /\ \E n \in Nat : invoices' \in [1..n -> InvoiceRows]
         /\ invoices'[j].status = status /\ invoices'[j].overage = overage /\ invoices'[j].taken = taken
         /\ invoices'[j].paid = invoices[j].paid
<1>1. PICK n \in Nat : invoices \in [1..n -> InvoiceRows]
  BY DEF BookTypes
<1>2. PICK new : new = [invoices[j] EXCEPT !.status = status, !.overage = overage, !.taken = taken]
  OBVIOUS
<1>3. invoices[j] \in InvoiceRows /\ j \in 1..n
  BY <1>1
<1>4. /\ new \in InvoiceRows /\ new.month = invoices[j].month
      /\ new.free = invoices[j].free /\ new.paid = invoices[j].paid
      /\ new.status = status /\ new.overage = overage /\ new.taken = taken
  BY <1>2, <1>3 DEF InvoiceRows
<1>5. invoices' = [invoices EXCEPT ![j] = new]
  BY <1>2 DEF Rowed
<1>6. invoices'[j] = new /\ DOMAIN invoices' = DOMAIN invoices
  BY <1>1, <1>3, <1>5
<1>7. invoices' \in [1..n -> InvoiceRows]
  <2> DEFINE R == InvoiceRows
  <2>1. invoices \in [1..n -> R] /\ new \in R
    BY <1>1, <1>4
  <2> HIDE DEF R
  <2>2. [invoices EXCEPT ![j] = new] \in [1..n -> R]
    BY <2>1, <1>3
  <2> QED
    BY <2>2, <1>5 DEF R
<1>8. \A i \in DOMAIN invoices \ {j} : invoices'[i] = invoices[i]
  BY <1>5
<1>9. DOMAIN invoices = 1..n
  BY <1>1
<1> QED
  BY <1>4, <1>6, <1>7, <1>8, <1>9 DEF RowChange

\* What a row is.
LEMMA RowIs ==
  ASSUME BookTypes, NEW j \in DOMAIN invoices
  PROVE  /\ invoices[j] \in InvoiceRows
         /\ invoices[j].status \in Statuses /\ invoices[j].overage \in Int /\ invoices[j].taken \in Nat
         /\ invoices[j].kind \in {"usage", "fee"} /\ invoices[j].month \in Int
         /\ invoices[j].free \in Items /\ invoices[j].paid \in Items
<1>1. PICK n \in Nat : invoices \in [1..n -> InvoiceRows]
  BY DEF BookTypes
<1>2. invoices[j] \in InvoiceRows /\ j \in 1..n
  BY <1>1
<1> QED
  BY <1>2 DEF InvoiceRows

\* Statements that set some columns of a row are of that form.
LEMMA RowStatus ==
  ASSUME BookTypes, NEW j \in DOMAIN invoices, NEW status
  PROVE  [invoices EXCEPT ![j].status = status] = Rowed(j, status, invoices[j].overage, invoices[j].taken)
<1>1. PICK n \in Nat : invoices \in [1..n -> InvoiceRows]
  BY DEF BookTypes
<1>2. PICK row : row = invoices[j]
  OBVIOUS
<1>3. PICK x : x = [row EXCEPT !.status = status]
  OBVIOUS
<1>4. x = [row EXCEPT !.status = status, !.overage = row.overage, !.taken = row.taken]
  BY <1>2, <1>3, RowIs DEF InvoiceRows
<1>5. [invoices EXCEPT ![j].status = status] = [invoices EXCEPT ![j] = x]
  BY <1>1, <1>2, <1>3
<1> QED
  BY <1>2, <1>4, <1>5 DEF Rowed

\* A payment is counted.
LEMMA RowTaken ==
  ASSUME BookTypes, NEW j \in DOMAIN invoices, NEW taken
  PROVE  [invoices EXCEPT ![j].taken = taken] = Rowed(j, invoices[j].status, invoices[j].overage, taken)
<1>1. PICK n \in Nat : invoices \in [1..n -> InvoiceRows]
  BY DEF BookTypes
<1>2. PICK row : row = invoices[j]
  OBVIOUS
<1>3. PICK x : x = [row EXCEPT !.taken = taken]
  OBVIOUS
<1>4. x = [row EXCEPT !.status = row.status, !.overage = row.overage, !.taken = taken]
  BY <1>2, <1>3, RowIs DEF InvoiceRows
<1>5. [invoices EXCEPT ![j].taken = taken] = [invoices EXCEPT ![j] = x]
  BY <1>1, <1>2, <1>3
<1> QED
  BY <1>2, <1>4, <1>5 DEF Rowed

\* A payment is counted and the status is set.
LEMMA RowPaid ==
  ASSUME BookTypes, NEW j \in DOMAIN invoices, NEW status, NEW taken
  PROVE  [invoices EXCEPT ![j].status = status, ![j].taken = taken] = Rowed(j, status, invoices[j].overage, taken)
<1>1. PICK n \in Nat : invoices \in [1..n -> InvoiceRows]
  BY DEF BookTypes
<1>2. PICK row : row = invoices[j]
  OBVIOUS
<1>3. PICK x : x = [row EXCEPT !.status = status, !.taken = taken]
  OBVIOUS
<1>4. x = [row EXCEPT !.status = status, !.overage = row.overage, !.taken = taken]
  BY <1>2, <1>3, RowIs DEF InvoiceRows
<1>5. [invoices EXCEPT ![j].status = status, ![j].taken = taken] = [invoices EXCEPT ![j] = x]
  BY <1>1, <1>2, <1>3
<1> QED
  BY <1>2, <1>4, <1>5 DEF Rowed

\* The columns of a copy are saved.
LEMMA RowSaved ==
  ASSUME BookTypes, NEW j \in DOMAIN invoices, NEW status, NEW overage
  PROVE  [invoices EXCEPT ![j].status = status, ![j].overage = overage] = Rowed(j, status, overage, invoices[j].taken)
<1>1. PICK n \in Nat : invoices \in [1..n -> InvoiceRows]
  BY DEF BookTypes
<1>2. PICK row : row = invoices[j]
  OBVIOUS
<1>3. PICK x : x = [row EXCEPT !.status = status, !.overage = overage]
  OBVIOUS
<1>4. x = [row EXCEPT !.status = status, !.overage = overage, !.taken = row.taken]
  BY <1>2, <1>3, RowIs DEF InvoiceRows
<1>5. [invoices EXCEPT ![j].status = status, ![j].overage = overage] = [invoices EXCEPT ![j] = x]
  BY <1>1, <1>2, <1>3
<1> QED
  BY <1>2, <1>4, <1>5 DEF Rowed

\* RetryPayment: a second retry of an invoice overtakes the first.
LEMMA AccountRetry ==
  ASSUME AccountsInv, NEW i \in Ids, NEW outcome \in {"paid", "declined"}, RetryPayment(i, outcome)
  PROVE  AccountsInv'
<1> DEFINE taken == Taken(i, outcome = "paid")
           saved == IF outcome = "paid" THEN "scheduled" ELSE "failed"
           r == [request |-> changes, id |-> i, overage |-> invoices[i].overage, status |-> saved]
<1>1. /\ BookTypes /\ i \in DOMAIN invoices /\ invoices[i].status = "failed"
      /\ UNCHANGED usageFrame /\ tasks' = tasks /\ faults' = faults
      /\ overtaken' = IF \E q \in retrying : q.id = i THEN overtaken \cup {i} ELSE overtaken
      /\ events' = events \cup {[id |-> i, type |-> outcome]}
      /\ changes' = changes + 1
      /\ retrying' = retrying \cup {r}
  BY DEF AccountsInv, RetryPayment, usageVars, meteringVars, usageFrame, Overtaking
<1>2. /\ invoices[i].status \in Statuses /\ invoices[i].overage \in Int /\ invoices[i].taken \in Nat
      /\ taken \in Nat
  <2>1. /\ invoices[i].status \in Statuses /\ invoices[i].overage \in Int /\ invoices[i].taken \in Nat
    BY <1>1, RowIs
  <2> QED
    BY <2>1 DEF Taken
<1>3. invoices' = Rowed(i, invoices[i].status, invoices[i].overage, taken)
  <2>1. invoices' = [invoices EXCEPT ![i].taken = taken]
    BY DEF RetryPayment
  <2> HIDE DEF taken
  <2> QED
    BY <2>1, <1>1, RowTaken
<1>4. /\ RowChange(i) /\ DOMAIN invoices' = DOMAIN invoices
      /\ \E n \in Nat : invoices' \in [1..n -> InvoiceRows]
      /\ invoices'[i].status = "failed" /\ invoices'[i].overage = invoices[i].overage
      /\ invoices'[i].taken = taken /\ invoices'[i].paid = invoices[i].paid
  <2> HIDE DEF taken
  <2> QED
    BY <1>1, <1>2, <1>3, RowSet
<1>5. BookTypes'
  <2>1. r \in [request : Int, id : DOMAIN invoices', overage : Int, status : {"scheduled", "failed"}]
    BY <1>1, <1>2, <1>4 DEF BookTypes
  <2>2. [id |-> i, type |-> outcome] \in [id : DOMAIN invoices', type : {"paid", "declined"}]
    BY <1>1, <1>4
  <2> HIDE DEF r
  <2>3. retrying' \subseteq [request : Int, id : DOMAIN invoices', overage : Int, status : {"scheduled", "failed"}]
    BY <1>1, <1>4, <2>1 DEF BookTypes
  <2>4. events' \subseteq [id : DOMAIN invoices', type : {"paid", "declined"}]
    BY <1>1, <1>4, <2>2 DEF BookTypes
  <2>5. tasks' \subseteq [id : DOMAIN invoices', force : BOOLEAN, tries : Nat]
    BY <1>1, <1>4 DEF BookTypes
  <2>6. faults' \in Nat /\ changes' \in Int
    BY <1>1 DEF BookTypes
  <2> QED
    BY <1>4, <2>3, <2>4, <2>5, <2>6 DEF BookTypes
<1>6. ASSUME i \notin overtaken'
      PROVE  PaymentSound(i)' /\ invoices'[i].overage = invoices[i].overage
  <2>1. /\ PaymentSound(i) /\ \A q \in retrying : q.id # i
    BY <1>1, <1>6 DEF AccountsInv
  <2>2. invoices[i].taken = 0
    BY <2>1, <1>1, <1>2 DEF PaymentSound
  <2>3. \A q \in retrying' : q.id = i => q = r
    BY <1>1, <2>1
  <2>4. r \in retrying' /\ r.id = i /\ r.overage = invoices[i].overage /\ r.status = saved
    BY <1>1
  <2>5. taken \in {0, 1} /\ (saved = "scheduled" <=> taken = 1)
    BY <2>2 DEF Taken
  <2> HIDE DEF r, taken
  <2> QED
    BY <1>4, <2>1, <2>2, <2>3, <2>4, <2>5 DEF PaymentSound
<1>7. \A q : q.id # i => (q \in retrying' <=> q \in retrying)
  BY <1>1
<1> HIDE DEF r, taken
<1> QED
  BY <1>1, <1>4, <1>5, <1>6, <1>7, RowStep

\* SaveRetried: the copy it saves is the invoice, unless that was overtaken.
LEMMA AccountSave ==
  ASSUME AccountsInv, NEW r \in retrying, SaveRetried(r)
  PROVE  AccountsInv'
<1>1. /\ BookTypes /\ r.id \in DOMAIN invoices /\ r.status \in {"scheduled", "failed"} /\ r.overage \in Int
      /\ UNCHANGED usageFrame /\ tasks' = tasks /\ faults' = faults
      /\ overtaken' = overtaken /\ events' = events /\ changes' = changes
      /\ retrying' = retrying \ {r}
  BY DEF AccountsInv, BookTypes, SaveRetried, usageVars, meteringVars, usageFrame
<1>2. r.status \in Statuses /\ invoices[r.id].taken \in Nat
  BY <1>1, RowIs DEF Statuses
<1>3. invoices' = Rowed(r.id, r.status, r.overage, invoices[r.id].taken)
  BY <1>1, RowSaved DEF SaveRetried
<1>4. /\ RowChange(r.id) /\ DOMAIN invoices' = DOMAIN invoices
      /\ \E n \in Nat : invoices' \in [1..n -> InvoiceRows]
      /\ invoices'[r.id].status = r.status /\ invoices'[r.id].overage = r.overage
      /\ invoices'[r.id].taken = invoices[r.id].taken /\ invoices'[r.id].paid = invoices[r.id].paid
  BY <1>1, <1>2, <1>3, RowSet
<1>5. BookTypes'
  BY <1>1, <1>2, <1>4 DEF BookTypes
<1>6. ASSUME r.id \notin overtaken'
      PROVE  PaymentSound(r.id)' /\ invoices'[r.id].overage = invoices[r.id].overage
  <2>1. PaymentSound(r.id)
    BY <1>1, <1>6 DEF AccountsInv
  <2>2. /\ r.overage = invoices[r.id].overage /\ (r.status = "scheduled" <=> invoices[r.id].taken = 1)
        /\ \A q \in retrying' : q.id # r.id
    BY <1>1, <2>1 DEF PaymentSound
  <2> QED
    BY <1>1, <1>2, <1>4, <2>1, <2>2 DEF PaymentSound
<1>7. \A q : q.id # r.id => (q \in retrying' <=> q \in retrying)
  BY <1>1
<1>8. invoices'[r.id].status # "pending"
  BY <1>1, <1>4
<1> QED
  BY <1>1, <1>4, <1>5, <1>6, <1>7, <1>8, RowStep

\* DeliverEvent: the report of an earlier failure overtakes a payment.
LEMMA AccountEvent ==
  ASSUME AccountsInv, NEW e \in events, DeliverEvent(e)
  PROVE  AccountsInv'
<1> DEFINE status == IF invoices[e.id].status = "succeeded" THEN "succeeded" ELSE StatusOf(e.type)
<1>1. /\ BookTypes /\ e.id \in DOMAIN invoices /\ e.type \in {"paid", "declined"}
      /\ UNCHANGED usageFrame /\ tasks' = tasks /\ faults' = faults
      /\ overtaken' = IF e.type = "declined" /\ invoices[e.id].status = "scheduled"
                      THEN overtaken \cup {e.id} ELSE overtaken
      /\ events' = events \ {e} /\ changes' = changes
      /\ retrying' = retrying
  BY DEF AccountsInv, BookTypes, DeliverEvent, usageVars, meteringVars, usageFrame, Overtaking
<1>2. /\ status \in Statuses /\ invoices[e.id].overage \in Int /\ invoices[e.id].taken \in Nat
      /\ invoices[e.id].status \in Statuses
  BY <1>1, RowIs DEF Statuses, StatusOf
<1>3. invoices' = Rowed(e.id, status, invoices[e.id].overage, invoices[e.id].taken)
  <2>1. invoices' = [invoices EXCEPT ![e.id].status = status]
    BY DEF DeliverEvent, ProcessCharge
  <2> HIDE DEF status
  <2> QED
    BY <2>1, <1>1, RowStatus
<1>4. /\ RowChange(e.id) /\ DOMAIN invoices' = DOMAIN invoices
      /\ \E n \in Nat : invoices' \in [1..n -> InvoiceRows]
      /\ invoices'[e.id].status = status /\ invoices'[e.id].overage = invoices[e.id].overage
      /\ invoices'[e.id].taken = invoices[e.id].taken /\ invoices'[e.id].paid = invoices[e.id].paid
  <2> HIDE DEF status
  <2> QED
    BY <1>1, <1>2, <1>3, RowSet
<1>5. BookTypes'
  BY <1>1, <1>2, <1>4 DEF BookTypes
<1>6. ASSUME e.id \notin overtaken'
      PROVE  PaymentSound(e.id)' /\ invoices'[e.id].overage = invoices[e.id].overage
  <2>1. PaymentSound(e.id) /\ (e.type = "declined" => invoices[e.id].status # "scheduled")
    BY <1>1, <1>6 DEF AccountsInv
  <2>2. \/ status = "succeeded"
        \/ status = "failed" /\ e.type = "declined" /\ invoices[e.id].status # "succeeded"
    <3>1. e.type \in {"paid", "declined"}
      BY <1>1
    <3> QED
      BY <3>1 DEF StatusOf
  <2> HIDE DEF status
  <2> QED
    BY <1>1, <1>2, <1>4, <2>1, <2>2 DEF PaymentSound
<1>7. invoices'[e.id].status # "pending"
  BY <1>4 DEF StatusOf
<1> HIDE DEF status
<1> QED
  BY <1>1, <1>4, <1>5, <1>6, <1>7, RowStep

\* A task of CreateInvoiceCharge leaves its invoice's payment as it is, or ends
\* it; while the invoice is pending there is a next try.
ChargeOutcome(task, j, status, taken, next) ==
    /\ j = task.id /\ next.id = j /\ next \in [id : DOMAIN invoices, force : BOOLEAN, tries : Nat]
    /\ invoices' = Rowed(j, status, invoices[j].overage, taken)
    /\ UNCHANGED usageFrame /\ retrying' = retrying /\ changes' = changes
    /\ faults' \in Nat /\ (faults' = 0 => faults = 0)
    /\ events' \subseteq events \cup [id : {j}, type : {"paid", "declined"}]
    /\ overtaken' \in {overtaken, overtaken \cup {j}}
    /\ tasks' \in {tasks \ {task}, (tasks \ {task}) \cup {next}}
    /\ status = "pending" => tasks' = (tasks \ {task}) \cup {next}
    /\ j \notin overtaken' =>
            \/ status = invoices[j].status /\ taken = invoices[j].taken
            \/ /\ invoices[j].status = "pending"
               /\ \/ status = "scheduled" /\ (invoices[j].taken = 0 => taken = 1)
                  \/ status \in {"empty", "failed", "scheduling_failed"} /\ taken = invoices[j].taken

LEMMA ChargeStep ==
  ASSUME AccountsInv, NEW task \in tasks, NEW status, NEW taken, NEW next, NEW j,
         status \in Statuses, taken \in Nat,
         ChargeOutcome(task, j, status, taken, next)
  PROVE  AccountsInv'
<1>1. BookTypes /\ j \in DOMAIN invoices
  BY DEF AccountsInv, BookTypes, ChargeOutcome
<1>2. next \in [id : DOMAIN invoices, force : BOOLEAN, tries : Nat] /\ next.id = j
  BY DEF ChargeOutcome
<1>3. /\ invoices[j].status \in Statuses /\ invoices[j].overage \in Int
      /\ invoices[j].taken \in Nat
  BY <1>1, RowIs
<1>4. /\ RowChange(j) /\ DOMAIN invoices' = DOMAIN invoices
      /\ \E n \in Nat : invoices' \in [1..n -> InvoiceRows]
      /\ invoices'[j].status = status /\ invoices'[j].overage = invoices[j].overage
      /\ invoices'[j].taken = taken /\ invoices'[j].paid = invoices[j].paid
  <2>1. invoices' = Rowed(j, status, invoices[j].overage, taken)
    BY DEF ChargeOutcome
  <2> QED
    BY <1>1, <1>3, <2>1, RowSet
<1>5. BookTypes'
  <2>1. tasks' \subseteq [id : DOMAIN invoices', force : BOOLEAN, tries : Nat]
    BY <1>1, <1>2, <1>4 DEF BookTypes, ChargeOutcome
  <2>2. events' \subseteq [id : DOMAIN invoices', type : {"paid", "declined"}]
    BY <1>1, <1>4 DEF BookTypes, ChargeOutcome
  <2>3. retrying' \subseteq [request : Int, id : DOMAIN invoices', overage : Int, status : {"scheduled", "failed"}]
    BY <1>1, <1>4 DEF BookTypes, ChargeOutcome
  <2>4. changes' \in Int /\ faults' \in Nat
    BY <1>1 DEF BookTypes, ChargeOutcome
  <2> QED
    BY <1>4, <2>1, <2>2, <2>3, <2>4 DEF BookTypes
<1>6. ASSUME j \notin overtaken'
      PROVE  PaymentSound(j)' /\ invoices'[j].overage = invoices[j].overage
  <2>1. PaymentSound(j)
    BY <1>1, <1>6 DEF AccountsInv, ChargeOutcome
  <2>2. retrying' = retrying
    BY DEF ChargeOutcome
  <2>3. CASE status = invoices[j].status /\ taken = invoices[j].taken
    BY <1>4, <2>1, <2>2, <2>3 DEF PaymentSound
  <2>4. CASE /\ invoices[j].status = "pending"
             /\ \/ status = "scheduled" /\ (invoices[j].taken = 0 => taken = 1)
                \/ status \in {"empty", "failed", "scheduling_failed"} /\ taken = invoices[j].taken
    <3>1. \A r \in retrying : r.id # j
      BY <2>1, <2>4 DEF PaymentSound
    <3>2. invoices[j].taken = 0
      BY <1>3, <2>1, <2>4, <3>1 DEF PaymentSound
    <3>3. taken <= 1 /\ (status = "scheduled" => taken = 1) /\ (taken = 1 => status = "scheduled")
      BY <2>4, <3>2
    <3>4. invoices[j].overage = SumFunctionOnSet(invoices[j].paid, Sources)
      BY <2>1 DEF PaymentSound
    <3>5. PaymentSound(j)'
      BY <1>4, <2>2, <3>1, <3>3, <3>4 DEF PaymentSound
    <3> QED
      BY <1>4, <3>5
  <2> QED
    BY <1>6, <2>3, <2>4 DEF ChargeOutcome
<1>7. /\ UNCHANGED usageFrame /\ overtaken \subseteq overtaken' /\ retrying' = retrying
      /\ faults' = 0 => faults = 0
  BY DEF ChargeOutcome
<1>8. \A t \in tasks : t.id # j => t \in tasks'
  BY DEF ChargeOutcome
<1>9. invoices'[j].status = "pending" => \E t \in tasks' : t.id = j
  BY <1>2, <1>4 DEF ChargeOutcome
<1> QED
  BY <1>1, <1>4, <1>5, <1>6, <1>7, <1>8, <1>9, RowStep

\* A row is itself with its own status, amount and payment.
LEMMA RowSelf ==
  ASSUME BookTypes, NEW j \in DOMAIN invoices
  PROVE  invoices = Rowed(j, invoices[j].status, invoices[j].overage, invoices[j].taken)
<1>1. PICK n \in Nat : invoices \in [1..n -> InvoiceRows]
  BY DEF BookTypes
<1>2. PICK row : row = invoices[j]
  OBVIOUS
<1>3. row = [row EXCEPT !.status = row.status, !.overage = row.overage, !.taken = row.taken]
  BY <1>1, <1>2 DEF InvoiceRows
<1>4. invoices = [invoices EXCEPT ![j] = row]
  BY <1>1, <1>2
<1> QED
  BY <1>2, <1>3, <1>4 DEF Rowed

\* CreateInvoiceCharge: its outcomes are payments made, refused or lost.
LEMMA AccountCharge ==
  ASSUME AccountsInv, NEW task \in tasks, CreateInvoiceCharge(task)
  PROVE  AccountsInv'
<1>1. /\ BookTypes /\ task.id \in DOMAIN invoices /\ faults \in Nat /\ task.tries \in Nat
      /\ UNCHANGED usageFrame /\ retrying' = retrying /\ changes' = changes
  BY DEF AccountsInv, BookTypes, CreateInvoiceCharge, usageVars, meteringVars, usageFrame
<1>2. PICK next : next = [task EXCEPT !.tries = @ + 1]
  OBVIOUS
<1>0. PICK j : j = task.id
  OBVIOUS
<1>3. PICK row : row = invoices[j]
  OBVIOUS
<1>12. next \in [id : DOMAIN invoices, force : BOOLEAN, tries : Nat] /\ next.id = j
  <2>1. task \in [id : DOMAIN invoices, force : BOOLEAN, tries : Nat]
    BY DEF AccountsInv, BookTypes
  <2>2. PICK tries \in Nat : tries = task.tries + 1
    BY <1>1
  <2>3. next = [task EXCEPT !.tries = tries]
    BY <1>2, <2>2
  <2> QED
    BY <1>0, <2>1, <2>3
<1>4. /\ row.status \in Statuses /\ row.overage \in Int /\ row.taken \in Nat /\ row.taken + 1 \in Nat
      /\ invoices = Rowed(j, row.status, row.overage, row.taken)
  <2>1. row.status \in Statuses /\ row.overage \in Int /\ row.taken \in Nat
    BY <1>0, <1>1, <1>3, RowIs
  <2> QED
    BY <1>0, <1>1, <1>3, <2>1, RowSelf
<1>5. {"scheduling_failed", "empty", "scheduled", "failed"} \subseteq Statuses
  BY DEF Statuses
<1>6. Fault => faults' \in Nat /\ faults' # 0
  BY <1>1 DEF Fault
<1>7. ASSUME row.status # "pending", tasks' = tasks \ {task}, UNCHANGED <<invoices, events, overtaken, faults>>
      PROVE  AccountsInv'
  BY <1>0, <1>1, <1>2, <1>12, <1>3, <1>4, <1>7, ChargeStep DEF ChargeOutcome
<1>8. ASSUME row.status = "pending", Retried(task), UNCHANGED <<events, overtaken>>,
             faults' \in Nat, faults' = 0 => faults = 0
      PROVE  AccountsInv'
  <2>1. CASE task.tries < MaxRetries
    <3>1. tasks' = (tasks \ {task}) \cup {next} /\ invoices' = invoices
      BY <1>2, <1>8, <2>1 DEF Retried
    <3>2. invoices' = Rowed(j, row.status, row.overage, row.taken) /\ events' \subseteq events
      BY <1>4, <1>8, <3>1
    <3>3. ChargeOutcome(task, j, row.status, row.taken, next)
      BY <1>0, <1>1, <1>12, <1>3, <1>8, <3>1, <3>2 DEF ChargeOutcome
    <3> QED
      BY <1>4, <3>3, ChargeStep
  <2>2. CASE ~(task.tries < MaxRetries)
    <3>1. tasks' = tasks \ {task} /\ invoices' = [invoices EXCEPT ![j].status = "scheduling_failed"]
      BY <1>0, <1>8, <2>2 DEF Retried
    <3>2. invoices' = Rowed(j, "scheduling_failed", row.overage, row.taken)
      BY <1>0, <1>1, <1>3, <3>1, RowStatus
    <3>3. events' \subseteq events
      BY <1>8
    <3>4. ChargeOutcome(task, j, "scheduling_failed", row.taken, next)
      BY <1>0, <1>1, <1>12, <1>3, <1>8, <3>1, <3>2, <3>3 DEF ChargeOutcome
    <3> QED
      BY <1>4, <1>5, <3>4, ChargeStep
  <2> QED
    BY <2>1, <2>2
<1>9. ASSUME NEW outcome \in {"paid", "declined"}, row.status = "pending", Charged(j, outcome),
             tasks' = tasks \ {task}, UNCHANGED <<overtaken, faults>>
      PROVE  AccountsInv'
  <2>1. PICK status : status = IF Amount(j) = 0 THEN "empty"
                               ELSE IF outcome = "paid" THEN "scheduled" ELSE "failed"
    OBVIOUS
  <2>2. PICK taken : taken = Taken(j, Amount(j) # 0 /\ outcome = "paid")
    OBVIOUS
  <2>9. /\ (Amount(j) # 0 /\ outcome = "paid") => taken = row.taken + 1
        /\ ~(Amount(j) # 0 /\ outcome = "paid") => taken = row.taken
    BY <1>3, <1>4, <2>2 DEF Taken
  <2>3. invoices' = [invoices EXCEPT ![j].status = status, ![j].taken = taken]
    BY <1>0, <1>3, <1>9, <2>1, <2>2 DEF Charged
  <2>4. invoices' = Rowed(j, status, row.overage, taken)
    BY <1>0, <1>1, <1>3, <2>3, RowPaid
  <2>5. events' \subseteq events \cup [id : {j}, type : {"paid", "declined"}]
    BY <1>9 DEF Charged
  <2>6. status \in Statuses /\ taken \in Nat
    BY <1>4, <1>5, <2>1, <2>9
  <2>7. \/ status = "scheduled" /\ (row.taken = 0 => taken = 1)
        \/ status \in {"empty", "failed", "scheduling_failed"} /\ taken = row.taken
    BY <1>4, <1>9, <2>1, <2>9
  <2> QED
    BY <1>0, <1>1, <1>2, <1>12, <1>3, <1>9, <2>4, <2>5, <2>6, <2>7, ChargeStep DEF ChargeOutcome
<1>10. ASSUME NEW outcome \in {"paid", "declined"}, row.status = "pending", AnswerLost(task, outcome), Fault
       PROVE  AccountsInv'
  <2>1. PICK status : status = IF task.tries < MaxRetries THEN row.status ELSE "scheduling_failed"
    OBVIOUS
  <2>2. PICK taken : taken = Taken(j, outcome = "paid")
    OBVIOUS
  <2>9. /\ outcome = "paid" => taken = row.taken + 1
        /\ ~(outcome = "paid") => taken = row.taken
    BY <1>3, <1>4, <2>2 DEF Taken
  <2>3. invoices' = [invoices EXCEPT ![j].status = status, ![j].taken = taken]
    BY <1>0, <1>3, <1>10, <2>1, <2>2 DEF AnswerLost
  <2>4. invoices' = Rowed(j, status, row.overage, taken)
    BY <1>0, <1>1, <1>3, <2>3, RowPaid
  <2>5. events' \subseteq events \cup [id : {j}, type : {"paid", "declined"}]
    BY <1>0, <1>10 DEF AnswerLost
  <2>6. status \in Statuses /\ taken \in Nat
    BY <1>4, <1>5, <2>1, <2>9
  <2>7. /\ tasks' \in {tasks \ {task}, (tasks \ {task}) \cup {next}}
        /\ status = "pending" => tasks' = (tasks \ {task}) \cup {next}
    BY <1>2, <1>10, <2>1 DEF AnswerLost
  <2>8. /\ overtaken' \in {overtaken, overtaken \cup {j}}
        /\ j \notin overtaken' => taken = row.taken /\ status \in {row.status, "scheduling_failed"}
    <3>1. outcome = "paid" => j \in overtaken'
      BY <1>0, <1>10 DEF AnswerLost, Overtaking
    <3>2. overtaken' \in {overtaken, overtaken \cup {j}}
      BY <1>0, <1>10 DEF AnswerLost, Overtaking
    <3> QED
      BY <2>1, <2>9, <3>1, <3>2
  <2> QED
    BY <1>0, <1>1, <1>2, <1>12, <1>3, <1>6, <1>10, <2>4, <2>5, <2>6, <2>7, <2>8, ChargeStep DEF ChargeOutcome
<1> QED
  BY <1>0, <1>1, <1>3, <1>6, <1>7, <1>8, <1>9, <1>10 DEF CreateInvoiceCharge

\* A step that touches neither invoices nor payments.
LEMMA QuietAccounts ==
  ASSUME AccountsInv, UNCHANGED <<invoices, tasks, retrying, events, overtaken>>, changes' \in Int,
         faults' \in Nat, faults' = 0 => faults = 0,
         UsageSound', agg'.cache \subseteq agg.cache,
         \A u \in Usages : txs'[u] = "aggregated" <=> txs[u] = "aggregated",
         \A h \in ran : hourRows'[h] = hourRows[h]
  PROVE  AccountsInv'
<1>1. BookTypes'
  BY DEF AccountsInv, BookTypes
<1>2. UsageOnInvoices'
  <2>1. BookTypes /\ UsageSound /\ UsageOnInvoices
    BY DEF AccountsInv
  <2> QED
    BY <1>1, <2>1, UsageKept
<1>3. \A entry \in agg'.cache : CopySound(entry)'
  BY DEF AccountsInv, CopySound
<1>4. \A i \in DOMAIN invoices' \ overtaken' : PaymentSound(i)'
  BY DEF AccountsInv, PaymentSound
<1>5. PendingHasTask'
  BY DEF AccountsInv, PendingHasTask
<1> QED
  BY <1>1, <1>2, <1>3, <1>4, <1>5 DEF AccountsInv

\* The clock, plans and the start or end of a run leave the accounts alone.
LEMMA AccountPause ==
  ASSUME AccountsInv, Tick \/ (\E row \in subs : CancelPlan(row)) \/ StartAggregate \/ StopAggregate
  PROVE  AccountsInv'
<1>1. /\ UNCHANGED <<invoices, tasks, retrying, events, overtaken, ran, txs, hourRows, hourEntry, charges>>
      /\ changes' \in {changes, changes + 1}
      /\ faults' \in {faults, faults + 1}
  BY DEF Tick, CancelPlan, StartAggregate, StopAggregate, Fault, meteringVars, chargeVars, usageVars
<1>2. BookTypes /\ UsageSound /\ faults \in Nat /\ changes \in Int
  BY DEF AccountsInv, BookTypes
<1>3. \/ agg' = agg
      \/ \E chunk \in SUBSET Open : agg' = [on |-> TRUE, todo |-> chunk, cache |-> {}]
      \/ agg' = [on |-> FALSE, todo |-> {}, cache |-> {}]
  BY DEF Tick, CancelPlan, StartAggregate, StopAggregate, usageVars, Stopped
<1>4. UsageSound' /\ agg'.cache \subseteq agg.cache
  <2>1. Open' = Open /\ Open \subseteq Usages
    BY <1>1 DEF Open
  <2>2. /\ agg' \in [on : BOOLEAN, todo : SUBSET Usages, cache : SUBSET Copies]
        /\ agg'.todo \subseteq Open /\ agg'.cache \subseteq agg.cache
    <3>1. CASE agg' = agg
      BY <1>2, <3>1 DEF UsageSound
    <3>2. ASSUME NEW chunk \in SUBSET Open, agg' = [on |-> TRUE, todo |-> chunk, cache |-> {}]
          PROVE  /\ agg' \in [on : BOOLEAN, todo : SUBSET Usages, cache : SUBSET Copies]
                 /\ agg'.todo \subseteq Open /\ agg'.cache \subseteq agg.cache
      BY <2>1, <3>2
    <3>3. CASE agg' = [on |-> FALSE, todo |-> {}, cache |-> {}]
      BY <3>3
    <3> QED
      BY <1>3, <3>1, <3>2, <3>3
  <2> QED
    BY <1>1, <1>2, <2>1, <2>2 DEF UsageSound
<1> QED
  BY <1>1, <1>2, <1>4, QuietAccounts

\* Metering: what is final for a run stays.
LEMMA AccountMeter ==
  ASSUME AccountsInv, Meter
  PROVE  AccountsInv'
<1>1. /\ UNCHANGED <<invoices, tasks, retrying, events, overtaken, ran, txs, agg, changes>>
      /\ faults' = faults + Cardinality({h \in Hours : hourEntry[h] # "failed" /\ hourEntry'[h] = "failed"})
  BY DEF Meter, chargeVars, usageVars
<1>2. PICK h \in Hours : (\E total \in 1..MaxUse : HourStored(h, total)) \/ HourFailed(h) \/ HourAnnounced(h)
  BY DEF Meter
<1>3. BookTypes /\ UsageSound /\ faults \in Nat /\ changes \in Int
  BY DEF AccountsInv, BookTypes
<1>4. faults' \in Nat /\ (faults' = 0 => faults = 0)
  <2> DEFINE F == {k \in Hours : hourEntry[k] # "failed" /\ hourEntry'[k] = "failed"}
  <2>1. F \subseteq {h}
    BY <1>2, <1>3 DEF HourStored, HourFailed, HourAnnounced, UsageSound
  <2>2. IsFiniteSet(F)
    BY <2>1, FS_Singleton, FS_Subset
  <2>3. Cardinality(F) \in Nat
    BY <2>2, FS_CardinalityType
  <2> HIDE DEF F
  <2>4. \A c \in Nat : faults + c \in Nat /\ (faults + c = 0 => faults = 0)
    BY <1>3
  <2> QED
    BY <1>1, <2>3, <2>4 DEF F
<1>5. ran \subseteq charges /\ \A k \in ran : hourRows'[k] = hourRows[k]
  BY <1>2, <1>3 DEF HourStored, HourFailed, HourAnnounced, UsageSound
<1>6. UsageSound'
  <2>1. CASE \E total \in 1..MaxUse : HourStored(h, total)
    BY <1>1, <1>3, <2>1 DEF HourStored, UsageSound, Open
  <2>2. CASE HourFailed(h)
    BY <1>1, <1>3, <2>2 DEF HourFailed, UsageSound, Open
  <2>3. CASE HourAnnounced(h)
    BY <1>1, <1>3, <2>3 DEF HourAnnounced, UsageSound, Open
  <2> QED
    BY <1>2, <2>1, <2>2, <2>3
<1> QED
  BY <1>1, <1>3, <1>4, <1>5, <1>6, QuietAccounts

\* ChargeOneHour: the transactions of an hour are made once.
LEMMA AccountHour ==
  ASSUME AccountsInv, NEW h \in Hours, ChargeOneHour(h)
  PROVE  AccountsInv'
<1>1. /\ UNCHANGED <<invoices, tasks, retrying, events, overtaken, agg, changes, hourRows, hourEntry, charges>>
      /\ h \in charges \ ran /\ ran' = ran \cup {h}
      /\ txs' = [u \in Usages |-> IF u[1] = h THEN "open" ELSE txs[u]]
      /\ faults' \in {faults, faults + 1}
  BY DEF ChargeOneHour, chargeVars, meteringVars, Fault
<1>2. BookTypes /\ UsageSound /\ faults \in Nat /\ changes \in Int
  BY DEF AccountsInv, BookTypes
<1>3. \A u \in Usages : u[1] = h => txs[u] = "none"
  BY <1>1, <1>2 DEF UsageSound
<1>4. UsageSound'
  <2>1. Open \subseteq Open'
    BY <1>1, <1>3 DEF Open
  <2>2. txs' \in [Usages -> {"none", "open", "aggregated"}]
    BY <1>1, <1>2 DEF UsageSound
  <2>3. \A u \in Usages : txs'[u] # "none" => u[1] \in ran'
    BY <1>1, <1>2 DEF UsageSound
  <2> QED
    BY <1>1, <1>2, <2>1, <2>2, <2>3 DEF UsageSound
<1>5. \A u \in Usages : txs'[u] = "aggregated" <=> txs[u] = "aggregated"
  BY <1>1, <1>3
<1> QED
  BY <1>1, <1>2, <1>4, <1>5, QuietAccounts

\* A step that dispatches invoices or makes new ones, of fees.
LEMMA RowsStep ==
  ASSUME AccountsInv, BookTypes', UNCHANGED usageFrame, retrying' = retrying, overtaken' = overtaken,
         DOMAIN invoices \subseteq DOMAIN invoices',
         \A i \in DOMAIN invoices :
            /\ invoices'[i].month = invoices[i].month
            /\ invoices'[i].free = invoices[i].free /\ invoices'[i].paid = invoices[i].paid
            /\ invoices'[i].overage = invoices[i].overage /\ invoices'[i].taken = invoices[i].taken
            /\ \/ invoices'[i].status = invoices[i].status
               \/ invoices[i].status = "new" /\ invoices'[i].status = "pending",
         \A i \in DOMAIN invoices' \ DOMAIN invoices :
            /\ \A s \in Sources : invoices'[i].free[s] = 0 /\ invoices'[i].paid[s] = 0
            /\ invoices'[i].overage = 0
            /\ \/ invoices'[i].status = "pending" /\ invoices'[i].taken = 0
               \/ invoices'[i].status = "scheduled" /\ invoices'[i].taken = 1,
         PendingHasTask'
  PROVE  AccountsInv'
<1>1. UsageSound'
  BY DEF AccountsInv, UsageSound, usageFrame, Open
<1>2. UsageOnInvoices'
  <2>1. BookTypes /\ UsageSound /\ UsageOnInvoices /\ txs' = txs /\ hourRows' = hourRows
    BY DEF AccountsInv, usageFrame
  <2> QED
    BY <2>1, UsageKept
<1>3. ASSUME NEW entry \in agg'.cache
      PROVE  CopySound(entry)'
  <2>1. CopySound(entry)
    BY <1>3 DEF usageFrame, AccountsInv
  <2> QED
    BY <2>1 DEF CopySound
<1>4. ASSUME NEW i \in DOMAIN invoices' \ overtaken'
      PROVE  PaymentSound(i)'
  <2>1. CASE i \in DOMAIN invoices
    <3>1. PaymentSound(i)
      BY <1>4, <2>1 DEF AccountsInv
    <3>2. CASE invoices'[i].status = invoices[i].status
      BY <2>1, <3>1, <3>2 DEF PaymentSound
    <3>3. CASE invoices[i].status = "new" /\ invoices'[i].status = "pending"
      <4>1. \A r \in retrying : r.id # i
        BY <3>1, <3>3 DEF PaymentSound
      <4>2. invoices[i].taken # 1
        BY <3>1, <3>3, <4>1 DEF PaymentSound
      <4> QED
        BY <2>1, <3>1, <3>3, <4>1, <4>2 DEF PaymentSound
    <3> QED
      BY <2>1, <3>2, <3>3
  <2>2. CASE i \notin DOMAIN invoices
    <3>1. \A r \in retrying : r.id # i
      BY <2>2 DEF AccountsInv, BookTypes
    <3>2. SumFunctionOnSet(invoices'[i].paid, Sources) = 0
      BY <1>4, <2>2, SumZero, BillingAssumption
    <3> QED
      BY <1>4, <2>2, <3>1, <3>2 DEF PaymentSound
  <2> QED
    BY <2>1, <2>2
<1> QED
  BY <1>1, <1>2, <1>3, <1>4 DEF AccountsInv

\* DispatchInvoices: every invoice it makes pending gets its task.
LEMMA AccountDispatch ==
  ASSUME AccountsInv, DispatchInvoices
  PROVE  AccountsInv'
<1> DEFINE chunk == {i \in DOMAIN invoices : invoices[i].status = "new" /\ invoices[i].month < Month(now)}
           sent == {Task(i, FALSE) : i \in chunk}
<1>1. /\ UNCHANGED usageFrame /\ retrying' = retrying /\ overtaken' = overtaken /\ events' = events
      /\ changes' = changes
      /\ invoices' = [i \in DOMAIN invoices |->
                          IF i \in chunk THEN [invoices[i] EXCEPT !.status = "pending"] ELSE invoices[i]]
      /\ \/ tasks' = tasks \cup sent /\ faults' = faults
         \/ Fault /\ tasks' = tasks
  BY DEF DispatchInvoices, usageVars, meteringVars, usageFrame
<1>2. BookTypes
  BY DEF AccountsInv
<1>3. chunk \subseteq DOMAIN invoices /\ \A i \in chunk : invoices[i].status = "new"
  OBVIOUS
<1>4. ASSUME NEW i \in chunk
      PROVE  /\ Task(i, FALSE) \in sent /\ Task(i, FALSE).id = i
             /\ Task(i, FALSE) \in [id : DOMAIN invoices, force : BOOLEAN, tries : Nat]
  BY <1>3 DEF Task
<1>5. sent \subseteq [id : DOMAIN invoices, force : BOOLEAN, tries : Nat]
  <2> HIDE DEF chunk
  <2> QED
    BY <1>4
<1> HIDE DEF chunk, sent
<1>6. DOMAIN invoices' = DOMAIN invoices
  BY <1>1
<1>7. ASSUME NEW i \in DOMAIN invoices
      PROVE  /\ invoices'[i] \in InvoiceRows
             /\ invoices'[i].month = invoices[i].month
             /\ invoices'[i].free = invoices[i].free /\ invoices'[i].paid = invoices[i].paid
             /\ invoices'[i].overage = invoices[i].overage /\ invoices'[i].taken = invoices[i].taken
             /\ \/ invoices'[i].status = invoices[i].status
                \/ i \in chunk /\ invoices[i].status = "new" /\ invoices'[i].status = "pending"
  <2>1. PICK row : row = invoices[i] /\ row \in InvoiceRows
    BY <1>2, RowIs
  <2>2. CASE i \in chunk
    <3>1. invoices'[i] = [row EXCEPT !.status = "pending"]
      BY <1>1, <2>1, <2>2
    <3> QED
      BY <1>3, <2>1, <2>2, <3>1 DEF InvoiceRows, Statuses
  <2>3. CASE i \notin chunk
    <3>1. invoices'[i] = row
      BY <1>1, <2>1, <2>3
    <3> QED
      BY <2>1, <3>1
  <2> QED
    BY <2>2, <2>3
<1>8. faults' \in Nat /\ (faults' = 0 => faults = 0 /\ tasks' = tasks \cup sent)
  <2>1. faults \in Nat
    BY <1>2 DEF BookTypes
  <2> QED
    BY <1>1, <2>1 DEF Fault
<1>9. BookTypes'
  <2>1. PICK n \in Nat : invoices \in [1..n -> InvoiceRows]
    BY <1>2 DEF BookTypes
  <2>2. invoices' \in [1..n -> InvoiceRows]
    BY <1>1, <1>7, <2>1
  <2>3. tasks' \subseteq [id : DOMAIN invoices', force : BOOLEAN, tries : Nat]
    BY <1>2, <1>6, <1>5, <1>1 DEF BookTypes
  <2> QED
    BY <1>1, <1>2, <1>6, <1>8, <2>2, <2>3 DEF BookTypes
<1>10. PendingHasTask'
  <2> SUFFICES ASSUME faults' = 0, NEW i \in DOMAIN invoices', invoices'[i].status = "pending"
               PROVE  \E task \in tasks' : task.id = i
    BY DEF PendingHasTask
  <2>1. CASE i \in chunk
    <3>1. Task(i, FALSE) \in tasks' /\ Task(i, FALSE).id = i
      BY <1>8, <1>4, <2>1
    <3> QED
      BY <3>1
  <2>2. CASE i \notin chunk
    <3>1. invoices[i].status = "pending" /\ i \in DOMAIN invoices
      BY <1>6, <1>7, <2>2
    <3> QED
      BY <1>8, <3>1 DEF AccountsInv, PendingHasTask
  <2> QED
    BY <2>1, <2>2
<1> QED
  BY <1>1, <1>6, <1>7, <1>9, <1>10, RowsStep

FeeBill(month, status, taken) == [NewInvoice("fee", month, status) EXCEPT !.taken = taken]

\* A fee invoice lists no usage.
LEMMA FeeRow ==
  ASSUME NEW month \in Int, NEW status \in {"pending", "scheduled"}, NEW taken \in {0, 1}, NEW bill,
         bill = FeeBill(month, status, taken)
  PROVE  /\ bill \in InvoiceRows /\ bill.status = status /\ bill.taken = taken /\ bill.overage = 0
         /\ \A s \in Sources : bill.free[s] = 0 /\ bill.paid[s] = 0
BY DEF FeeBill, NewInvoice, InvoiceRows, Items, Statuses

\* Subscribe: the fee of a plan that starts at once is on an invoice that is paid.
LEMMA AccountSubscribe ==
  ASSUME FeesInv, AccountsInv, NEW offer \in Offers, Subscribe(offer)
  PROVE  AccountsInv'
<1>1. /\ UNCHANGED usageFrame /\ retrying' = retrying /\ overtaken' = overtaken /\ tasks' = tasks
      /\ faults' = faults /\ changes' = changes + 1
  BY DEF Subscribe, usageVars, meteringVars, usageFrame
<1>2. BookTypes /\ UsageSound /\ Bills /\ now \in Nat /\ faults \in Nat /\ changes \in Int
  BY DEF AccountsInv, FeesInv, BookTypes
<1>3. PICK bill : bill = [NewInvoice("fee", Month(now), "scheduled") EXCEPT !.taken = 1]
  OBVIOUS
<1>4. \/ invoices' = invoices /\ events' = events
      \/ /\ invoices' = Append(invoices, bill)
         /\ events' \subseteq events \cup {[id |-> Len(invoices) + 1, type |-> "paid"]}
  BY <1>3 DEF Subscribe
<1>5. CASE invoices' = invoices /\ events' = events
  <2>1. UsageSound'
    BY <1>1, <1>2 DEF UsageSound, usageFrame, Open
  <2>2. agg' = agg /\ txs' = txs /\ hourRows' = hourRows
    BY <1>1 DEF usageFrame
  <2> QED
    BY <1>1, <1>2, <1>5, <2>1, <2>2, QuietAccounts
<1>6. CASE /\ invoices' = Append(invoices, bill)
           /\ events' \subseteq events \cup {[id |-> Len(invoices) + 1, type |-> "paid"]}
  <2>1. Month(now) \in Int
    BY <1>2, MonthBounds
  <2>2. /\ bill \in InvoiceRows /\ bill.status = "scheduled" /\ bill.taken = 1 /\ bill.overage = 0
        /\ \A s \in Sources : bill.free[s] = 0 /\ bill.paid[s] = 0
    <3>1. bill = FeeBill(Month(now), "scheduled", 1)
      BY <1>3 DEF FeeBill
    <3> QED
      BY <2>1, <3>1, FeeRow
  <2>3. PICK n \in Nat : n = Len(invoices) /\ DOMAIN invoices = 1..n
    BY <1>2, InvoiceCount
  <2>4. /\ invoices' \in [1..(n + 1) -> InvoiceRows] /\ DOMAIN invoices' = 1..(n + 1)
        /\ \A i \in 1..n : invoices'[i] = invoices[i]
        /\ invoices'[n + 1] = bill
    <3> DEFINE R == InvoiceRows
    <3>1. bill \in R /\ \E k \in Nat : invoices \in [1..k -> R]
      BY <1>2, <2>2 DEF BookTypes
    <3> HIDE DEF R
    <3>2. invoices \in Seq(R)
      BY <3>1, SeqDef
    <3>3. /\ invoices' \in Seq(R) /\ Len(invoices') = n + 1
          /\ \A i \in 1..n : invoices'[i] = invoices[i]
          /\ invoices'[n + 1] = bill
      BY <1>6, <2>3, <3>1, <3>2, AppendProperties
    <3>4. invoices' \in [1..(n + 1) -> R]
      BY <3>3, LenProperties
    <3> QED
      BY <3>3, <3>4 DEF R
  <2>5. DOMAIN invoices \subseteq DOMAIN invoices' /\ DOMAIN invoices' \ DOMAIN invoices = {n + 1}
    BY <2>3, <2>4
  <2>6. BookTypes'
    <3>1. events' \subseteq [id : DOMAIN invoices', type : {"paid", "declined"}]
      <4>1. [id |-> n + 1, type |-> "paid"] \in [id : DOMAIN invoices', type : {"paid", "declined"}]
        BY <2>4
      <4> QED
        BY <1>2, <1>6, <2>3, <2>5, <4>1 DEF BookTypes
    <3>2. tasks' \subseteq [id : DOMAIN invoices', force : BOOLEAN, tries : Nat]
      BY <1>1, <1>2, <2>5 DEF BookTypes
    <3>3. retrying' \subseteq [request : Int, id : DOMAIN invoices', overage : Int, status : {"scheduled", "failed"}]
      BY <1>1, <1>2, <2>5 DEF BookTypes
    <3>4. changes' \in Int /\ n + 1 \in Nat /\ faults' \in Nat
      BY <1>1, <1>2
    <3> QED
      BY <2>4, <3>1, <3>2, <3>3, <3>4 DEF BookTypes
  <2>7. PendingHasTask'
    BY <1>1, <2>2, <2>3, <2>4 DEF AccountsInv, PendingHasTask
  <2>8. \A i \in DOMAIN invoices : invoices'[i] = invoices[i]
    BY <2>3, <2>4
  <2>9. \A i \in DOMAIN invoices' \ DOMAIN invoices : invoices'[i] = bill
    BY <2>4, <2>5
  <2> QED
    BY <1>1, <2>2, <2>5, <2>6, <2>7, <2>8, <2>9, RowsStep
<1> QED
  BY <1>4, <1>5, <1>6

\* DispatchPlanFees: every fee invoice it makes gets its task.
LEMMA AccountPlanFees ==
  ASSUME FeesInv, AccountsInv, DispatchPlanFees
  PROVE  AccountsInv'
<1> DEFINE due == FeeDue(subs, now)
           ids == Len(invoices) + 1 .. Len(invoices) + Cardinality(due)
           sent == {Task(i, TRUE) : i \in ids}
<1>1. /\ UNCHANGED usageFrame /\ retrying' = retrying /\ overtaken' = overtaken /\ events' = events
      /\ changes' = changes
      /\ \/ tasks' = tasks \cup sent /\ faults' = faults
         \/ Fault /\ tasks' = tasks
  BY DEF DispatchPlanFees, usageVars, meteringVars, usageFrame
<1>2. BookTypes /\ Bills /\ now \in Nat /\ faults \in Nat
  BY DEF AccountsInv, FeesInv, BookTypes
<1>3. PICK n \in Nat : n = Len(invoices) /\ DOMAIN invoices = 1..n
  BY <1>2, InvoiceCount
<1>4. PICK d \in Nat : d = Cardinality(due)
  <2>1. due \in SUBSET subs
    BY DEF FeeDue
  <2> QED
    BY <2>1, FS_Subset, FS_CardinalityType DEF FeesInv, Rows
<1>5. ids = (n + 1)..(n + d)
  BY <1>3, <1>4
<1>6. PICK bill : bill = NewInvoice("fee", Month(now), "pending")
  OBVIOUS
<1>7. invoices' = [i \in DOMAIN invoices \cup ids |-> IF i \in ids THEN bill ELSE invoices[i]]
  BY <1>6 DEF DispatchPlanFees
<1>8. ASSUME NEW i \in ids
      PROVE  /\ Task(i, TRUE) \in sent /\ Task(i, TRUE).id = i
             /\ Task(i, TRUE) \in [id : ids, force : BOOLEAN, tries : Nat]
  BY DEF Task
<1>9. sent \subseteq [id : ids, force : BOOLEAN, tries : Nat]
  <2> HIDE DEF ids
  <2> QED
    BY <1>8
<1> HIDE DEF due, ids, sent
<1>10. /\ bill \in InvoiceRows /\ bill.status = "pending" /\ bill.taken = 0 /\ bill.overage = 0
       /\ \A s \in Sources : bill.free[s] = 0 /\ bill.paid[s] = 0
  <2>1. Month(now) \in Int
    BY <1>2, MonthBounds
  <2>2. bill = FeeBill(Month(now), "pending", 0)
    BY <1>6 DEF FeeBill, NewInvoice
  <2> QED
    BY <2>1, <2>2, FeeRow
<1>11. /\ DOMAIN invoices' = 1..(n + d) /\ n + d \in Nat
       /\ DOMAIN invoices \subseteq DOMAIN invoices' /\ DOMAIN invoices' \ DOMAIN invoices = ids
  BY <1>3, <1>5, <1>7
<1>12. /\ \A i \in DOMAIN invoices : invoices'[i] = invoices[i]
       /\ \A i \in ids : invoices'[i] = bill
  BY <1>3, <1>5, <1>7
<1>13. faults' \in Nat /\ (faults' = 0 => faults = 0 /\ tasks' = tasks \cup sent)
  BY <1>1, <1>2 DEF Fault
<1>14. BookTypes'
  <2>1. invoices' \in [1..(n + d) -> InvoiceRows]
    <3>1. \A i \in DOMAIN invoices' : invoices'[i] \in InvoiceRows
      BY <1>2, <1>10, <1>11, <1>12, RowIs
    <3> QED
      BY <1>7, <1>11, <3>1
  <2>2. tasks' \subseteq [id : DOMAIN invoices', force : BOOLEAN, tries : Nat]
    BY <1>1, <1>2, <1>9, <1>11 DEF BookTypes
  <2>3. retrying' \subseteq [request : Int, id : DOMAIN invoices', overage : Int, status : {"scheduled", "failed"}]
    BY <1>1, <1>2, <1>11 DEF BookTypes
  <2>4. events' \subseteq [id : DOMAIN invoices', type : {"paid", "declined"}]
    BY <1>1, <1>2, <1>11 DEF BookTypes
  <2>5. changes' \in Int
    BY <1>1, <1>2 DEF BookTypes
  <2> QED
    BY <1>11, <1>13, <2>1, <2>2, <2>3, <2>4, <2>5 DEF BookTypes
<1>15. PendingHasTask'
  <2> SUFFICES ASSUME faults' = 0, NEW i \in DOMAIN invoices', invoices'[i].status = "pending"
               PROVE  \E task \in tasks' : task.id = i
    BY DEF PendingHasTask
  <2>1. CASE i \in ids
    BY <1>8, <1>13, <2>1
  <2>2. CASE i \notin ids
    BY <1>11, <1>12, <1>13, <2>2 DEF AccountsInv, PendingHasTask
  <2> QED
    BY <2>1, <2>2
<1> QED
  BY <1>1, <1>10, <1>11, <1>12, <1>14, <1>15, RowsStep

\* One term is added to, or a new one is added.
Put(f, e, S, T, y, d) ==
    /\ d \in Int /\ IsFiniteSet(S) /\ T = S \cup {y}
    /\ \A x \in S : f[x] \in Int
    /\ \A x \in S : x # y => e[x] = f[x]
    /\ y \in S => e[y] = f[y] + d
    /\ y \notin S => e[y] = d

LEMMA SumPut ==
  ASSUME NEW f, NEW e, NEW S, NEW T, NEW y, NEW d, Put(f, e, S, T, y, d)
  PROVE  SumFunctionOnSet(e, T) = SumFunctionOnSet(f, S) + d
<1> USE DEF Put
<1>1. CASE y \in S
  <2>1. T = S /\ e[y] \in Int /\ e[y] - f[y] = d
    BY <1>1
  <2>2. \A x \in S : f[x] \in Int /\ e[x] \in Int
    BY <2>1
  <2>3. SumFunctionOnSet(e, S) = SumFunctionOnSet(f, S) + (e[y] - f[y])
    BY <1>1, <2>2, SumChange
  <2> QED
    BY <2>1, <2>3
<1>2. CASE y \notin S
  <2>1. SumFunctionOnSet(e, S) = SumFunctionOnSet(f, S)
    BY <1>2, SumSame
  <2>2. SumFunctionOnSet(e, S \cup {y}) = SumFunctionOnSet(e, S) + e[y]
    BY <1>2, SumInsert
  <2> QED
    BY <1>2, <2>1, <2>2
<1> QED
  BY <1>1, <1>2

\* The lesser of two integers, and the greater.
LEMMA LesserGreater ==
  ASSUME NEW a \in Int, NEW b \in Int, NEW S, S = {a, b}
  PROVE  Min(S) \in Int /\ Max(S) \in Int
<1>1. \E x \in S : \A y \in S : x <= y
  OBVIOUS
<1>2. \E x \in S : \A y \in S : x >= y
  OBVIOUS
<1>3. Min(S) \in S
  BY <1>1 DEF Min
<1>4. Max(S) \in S
  BY <1>2 DEF Max
<1> QED
  BY <1>3, <1>4

\* What is free of a quantity is an integer.
LEMMA FreeInt ==
  ASSUME NEW used \in Int, NEW quantity \in Int, NEW limit \in Int
  PROVE  FreePart(used, quantity, limit) \in Int
<1>1. PICK current \in Int : current = IF limit > 0 THEN used ELSE 0
  OBVIOUS
<1>2. PICK rest, none : rest = limit - current /\ none = 0
  OBVIOUS
<1>3. PICK S : S = {rest, none}
  OBVIOUS
<1>4. Max(S) \in Int
  <2>1. rest \in Int /\ none \in Int
    BY <1>1, <1>2
  <2> QED
    BY <1>3, <2>1, LesserGreater
<1>5. PICK left : left = Max(S)
  OBVIOUS
<1>6. PICK T : T = {left, quantity}
  OBVIOUS
<1>7. Min(T) \in Int
  BY <1>4, <1>5, <1>6, LesserGreater
<1>8. FreePart(used, quantity, limit) = IF limit < 0 THEN quantity ELSE Min(T)
  BY <1>1, <1>2, <1>3, <1>5, <1>6 DEF FreePart
<1> QED
  BY <1>7, <1>8

\* The copy that a run has of an invoice, or makes of it.
LEMMA CopyKnown ==
  ASSUME AccountsInv, Bills, NEW m \in Months, NEW status \in {"new", "fake"}, NEW copy,
         copy = InvoiceFor(m, status)
  PROVE  /\ copy \in Copies /\ copy.month = m
         /\ \/ copy.id \in DOMAIN invoices /\ CopySound(copy)
            \/ copy.id = Len(invoices) + 1 /\ copy.overage = 0
<1> DEFINE found == {i \in OfMonth(m) : invoices[i].status = status}
<1>1. m \in Int /\ BookTypes /\ UsageSound
  BY DEF Months, AccountsInv
<1>2. CASE Cached(m) # {}
  <2>1. copy \in Cached(m)
    BY <1>2 DEF InvoiceFor
  <2>2. copy \in agg.cache /\ copy.month = m
    BY <2>1 DEF Cached
  <2> QED
    BY <1>1, <2>2 DEF AccountsInv, UsageSound, CopySound
<1>3. CASE Cached(m) = {} /\ found # {}
  <2>1. PICK i : i = CHOOSE k \in found : TRUE
    OBVIOUS
  <2>2. i \in DOMAIN invoices /\ invoices[i].month = m
    BY <1>3, <2>1 DEF OfMonth
  <2>3. copy = [month |-> m, id |-> i, status |-> status, overage |-> invoices[i].overage]
    BY <1>3, <2>1 DEF InvoiceFor
  <2>4. i \in Int /\ invoices[i].overage \in Int
    <3>1. DOMAIN invoices \subseteq Int
      BY <1>1 DEF BookTypes
    <3> QED
      BY <1>1, <2>2, <3>1, RowIs
  <2>5. copy \in Copies /\ copy.id = i /\ copy.month = m /\ copy.overage = invoices[i].overage
    BY <1>1, <2>3, <2>4 DEF Copies
  <2> QED
    BY <2>2, <2>5 DEF CopySound
<1>4. CASE Cached(m) = {} /\ found = {}
  <2>1. copy = [month |-> m, id |-> Len(invoices) + 1, status |-> status, overage |-> 0]
    BY <1>4 DEF InvoiceFor
  <2>2. Len(invoices) + 1 \in Int
    BY InvoiceCount
  <2> QED
    BY <1>1, <2>1, <2>2 DEF Copies
<1> QED
  BY <1>2, <1>3, <1>4

Saved(row, status, overage) == [row EXCEPT !.status = status, !.overage = overage]

\* An invoice with items added of one source.
LEMMA ItemsAdded ==
  ASSUME NEW row \in InvoiceRows, NEW status \in Statuses, NEW overage \in Int, NEW s \in Sources,
         NEW free \in Int, NEW paid \in Int, NEW new,
         NEW rich,
         rich = Saved(row, status, overage), new = Itemed(rich, s, free, paid)
  PROVE  /\ new \in InvoiceRows /\ new.month = row.month /\ new.taken = row.taken
         /\ new.status = status /\ new.overage = overage
         /\ new.free[s] = row.free[s] + free /\ new.paid[s] = row.paid[s] + paid
         /\ \A other \in Sources \ {s} : new.free[other] = row.free[other] /\ new.paid[other] = row.paid[other]
<1>2. /\ rich \in InvoiceRows /\ rich.month = row.month /\ rich.taken = row.taken
      /\ rich.status = status /\ rich.overage = overage /\ rich.free = row.free /\ rich.paid = row.paid
  BY DEF InvoiceRows, Saved
<1>3. PICK f : f = [rich.free EXCEPT ![s] = rich.free[s] + free]
  OBVIOUS
<1>4. PICK p : p = [rich.paid EXCEPT ![s] = rich.paid[s] + paid]
  OBVIOUS
<1>5. new = [rich EXCEPT !.free = f, !.paid = p]
  BY <1>2, <1>3, <1>4 DEF Itemed, InvoiceRows
<1>6. rich.free \in [Sources -> Int] /\ rich.paid \in [Sources -> Int]
  BY <1>2 DEF InvoiceRows, Items
<1>7. /\ f \in Items /\ f[s] = rich.free[s] + free
      /\ \A other \in Sources \ {s} : f[other] = rich.free[other]
  BY <1>3, <1>6 DEF Items
<1>8. /\ p \in Items /\ p[s] = rich.paid[s] + paid
      /\ \A other \in Sources \ {s} : p[other] = rich.paid[other]
  BY <1>4, <1>6 DEF Items
<1>9. /\ new \in InvoiceRows /\ new.month = rich.month /\ new.taken = rich.taken
      /\ new.status = rich.status /\ new.overage = rich.overage /\ new.free = f /\ new.paid = p
  BY <1>2, <1>5, <1>7, <1>8 DEF InvoiceRows
<1> QED
  BY <1>2, <1>7, <1>8, <1>9

\* The usage of a group of a month and a source is added to an invoice of the month.
Grouped(m, s, group, id, old, new, free, paid) ==
    /\ group \subseteq {u \in Open : u[2] = s /\ Month(u[1]) = m}
    /\ free \in Int /\ paid \in Int /\ free + paid = Quantity(group)
    /\ DOMAIN invoices' = DOMAIN invoices \cup {id} /\ invoices'[id] = new
    /\ \A i \in DOMAIN invoices \ {id} : invoices'[i] = invoices[i]
    /\ id \in DOMAIN invoices => old = invoices[id] /\ old.month = m
    /\ id \notin DOMAIN invoices => \A r \in Sources : old.free[r] = 0 /\ old.paid[r] = 0
    /\ \A r \in Sources : old.free[r] \in Int /\ old.paid[r] \in Int
    /\ new.month = m
    /\ new.free[s] = old.free[s] + free /\ new.paid[s] = old.paid[s] + paid
    /\ \A r \in Sources \ {s} : new.free[r] = old.free[r] /\ new.paid[r] = old.paid[r]
    /\ txs' = [u \in Usages |-> IF u \in group THEN "aggregated" ELSE txs[u]] /\ hourRows' = hourRows

\* Then the invoices list it.
LEMMA GroupUsage ==
  ASSUME BookTypes, UsageSound, UsageOnInvoices, NEW m \in Months, NEW s \in Sources,
         NEW group, NEW id, NEW old, NEW new, NEW free, NEW paid,
         Grouped(m, s, group, id, old, new, free, paid)
  PROVE  UsageOnInvoices'
<1> USE DEF Grouped
<1> SUFFICES ASSUME NEW n \in Months, NEW r \in Sources
             PROVE  SumFunctionOnSet(Listed(r)', OfMonth(n)') = SumFunctionOnSet(Used', Aggregated(n, r)')
  BY DEF UsageOnInvoices, Quantity, Used
<1>1. n \in Int /\ m \in Int
  BY DEF Months
<1>2. SumFunctionOnSet(Listed(r), OfMonth(n)) = SumFunctionOnSet(Used, Aggregated(n, r))
  BY DEF UsageOnInvoices, Quantity, Used
<1>3. Used' = Used
  BY DEF Used
<1>4. /\ IsFiniteSet(OfMonth(n)) /\ OfMonth(n) \subseteq DOMAIN invoices
      /\ \A i \in DOMAIN invoices : Listed(r)[i] = invoices[i].free[r] + invoices[i].paid[r] /\ Listed(r)[i] \in Int
  BY ListedTypes DEF OfMonth
<1>5. \A i \in DOMAIN invoices' : Listed(r)'[i] = invoices'[i].free[r] + invoices'[i].paid[r]
  BY DEF Listed
<1>6. \A i \in OfMonth(n) \ {id} : Listed(r)'[i] = Listed(r)[i]
  BY <1>4, <1>5
<1>7. /\ n # m => OfMonth(n)' = OfMonth(n) /\ id \notin OfMonth(n)
      /\ n = m => OfMonth(n)' = OfMonth(n) \cup {id} /\ (id \in OfMonth(n) <=> id \in DOMAIN invoices)
  BY DEF OfMonth
<1>8. \A u \in Open : txs[u] # "aggregated" /\ u \in Usages
  BY DEF Open
<1>9. ASSUME n # m \/ r # s
      PROVE  SumFunctionOnSet(Used', Aggregated(n, r)') = SumFunctionOnSet(Used, Aggregated(n, r))
  <2>1. Aggregated(n, r)' = Aggregated(n, r)
    BY <1>8, <1>9 DEF Aggregated
  <2> QED
    BY <1>3, <2>1
<1>10. CASE n # m
  <2>1. \A i \in OfMonth(n) : Listed(r)'[i] = Listed(r)[i]
    BY <1>6, <1>7, <1>10
  <2>2. SumFunctionOnSet(Listed(r)', OfMonth(n)) = SumFunctionOnSet(Listed(r), OfMonth(n))
    BY <2>1, <1>4, SumSame
  <2> QED
    BY <1>2, <1>7, <1>9, <1>10, <2>2
<1>11. ASSUME n = m, NEW d, d \in Int,
              id \in DOMAIN invoices => Listed(r)'[id] = Listed(r)[id] + d,
              id \notin DOMAIN invoices => Listed(r)'[id] = d
       PROVE  SumFunctionOnSet(Listed(r)', OfMonth(n)') = SumFunctionOnSet(Listed(r), OfMonth(n)) + d
  <2>1. PICK S, T, f, e : S = OfMonth(n) /\ T = OfMonth(n)' /\ f = Listed(r) /\ e = Listed(r)'
    OBVIOUS
  <2>2. Put(f, e, S, T, id, d)
    BY <1>4, <1>6, <1>7, <1>11, <2>1 DEF Put
  <2>3. SumFunctionOnSet(e, T) = SumFunctionOnSet(f, S) + d
    BY <2>2, SumPut
  <2> QED
    BY <2>1, <2>3
<1>12. CASE n = m /\ r # s
  <2>1. /\ id \in DOMAIN invoices => Listed(r)'[id] = Listed(r)[id] + 0
        /\ id \notin DOMAIN invoices => Listed(r)'[id] = 0
    <3>1. Listed(r)'[id] = new.free[r] + new.paid[r]
      BY <1>5
    <3>2. new.free[r] = old.free[r] /\ new.paid[r] = old.paid[r]
      BY <1>12
    <3>3. id \in DOMAIN invoices => Listed(r)[id] = old.free[r] + old.paid[r] /\ Listed(r)[id] \in Int
      BY <1>4
    <3>4. id \notin DOMAIN invoices => old.free[r] = 0 /\ old.paid[r] = 0
      OBVIOUS
    <3> HIDE DEF Grouped
    <3> QED
      BY <3>1, <3>2, <3>3, <3>4
  <2>2. SumFunctionOnSet(Listed(r)', OfMonth(n)') = SumFunctionOnSet(Listed(r), OfMonth(n)) + 0
    BY <1>11, <1>12, <2>1
  <2>3. SumFunctionOnSet(Listed(r), OfMonth(n)) \in Int
    BY <1>4, SumRemove
  <2> QED
    BY <1>2, <1>9, <1>12, <2>2, <2>3
<1>13. CASE n = m /\ r = s
  <2>1. PICK d : d = free + paid
    OBVIOUS
  <2>2. d \in Int /\ d = SumFunctionOnSet(Used, group)
    BY <2>1 DEF Quantity, Used
  <2>3. /\ id \in DOMAIN invoices => Listed(r)'[id] = Listed(r)[id] + d
        /\ id \notin DOMAIN invoices => Listed(r)'[id] = d
    <3>1. Listed(r)'[id] = new.free[s] + new.paid[s]
      BY <1>5, <1>13
    <3>2. /\ new.free[s] = old.free[s] + free /\ new.paid[s] = old.paid[s] + paid
          /\ old.free[s] \in Int /\ old.paid[s] \in Int
      OBVIOUS
    <3>3. Listed(r)'[id] = (old.free[s] + old.paid[s]) + d
      BY <2>1, <3>1, <3>2
    <3>4. id \in DOMAIN invoices => Listed(r)[id] = old.free[s] + old.paid[s]
      BY <1>4, <1>13
    <3>5. id \notin DOMAIN invoices => old.free[s] = 0 /\ old.paid[s] = 0
      OBVIOUS
    <3> QED
      BY <2>2, <3>2, <3>3, <3>4, <3>5
  <2>4. SumFunctionOnSet(Listed(r)', OfMonth(n)') = SumFunctionOnSet(Listed(r), OfMonth(n)) + d
    BY <1>11, <1>13, <2>2, <2>3
  <2>5. /\ IsFiniteSet(Aggregated(n, r)) /\ IsFiniteSet(group) /\ Aggregated(n, r) \cap group = {}
        /\ \A u \in Aggregated(n, r) \cup group : Used[u] \in Int
    <3>1. group \subseteq {u \in Usages : u[2] = s /\ Month(u[1]) = m}
      BY <1>8
    <3>2. IsFiniteSet(group)
      <4>1. PICK G : G = {u \in Usages : u[2] = s /\ Month(u[1]) = m}
        OBVIOUS
      <4>2. IsFiniteSet(G) /\ group \in SUBSET G
        BY <1>1, <3>1, <4>1, MonthFinite
      <4> QED
        BY <4>2, FS_Subset
    <3>3. /\ IsFiniteSet(Aggregated(n, r)) /\ Aggregated(n, r) \subseteq Usages
          /\ \A u \in Usages : Used[u] \in Int
      BY <1>1, UsageTypes
    <3>4. Aggregated(n, r) \cap group = {}
      BY <1>8 DEF Aggregated
    <3> QED
      BY <3>1, <3>2, <3>3, <3>4
  <2>6. SumFunctionOnSet(Used, Aggregated(n, r) \cup group)
            = SumFunctionOnSet(Used, Aggregated(n, r)) + SumFunctionOnSet(Used, group)
    BY <2>5, SumUnion
  <2>7. Aggregated(n, r)' = Aggregated(n, r) \cup group
    BY <1>8, <1>13 DEF Aggregated
  <2> QED
    BY <1>2, <1>3, <2>2, <2>4, <2>6, <2>7
<1> QED
  BY <1>10, <1>12, <1>13

\* AggregateGroup: the copy it saves is the invoice with the items of the group.
LEMMA AccountGroup ==
  ASSUME FeesInv, AccountsInv, NEW m \in Months, NEW s \in Sources, AggregateGroup(m, s)
  PROVE  AccountsInv'
<1> DEFINE group == {u \in agg.todo : Month(u[1]) = m /\ u[2] = s}
<1>1. /\ BookTypes /\ UsageSound /\ UsageOnInvoices /\ Bills /\ m \in Int
      /\ UNCHANGED <<ran, tasks, retrying, events, changes, faults, hourRows, hourEntry, charges>>
      /\ txs' = [u \in Usages |-> IF u \in group THEN "aggregated" ELSE txs[u]]
  <2>1. BookTypes /\ UsageSound /\ UsageOnInvoices /\ Bills
    BY DEF AccountsInv, FeesInv
  <2>2. m \in Int
    BY DEF Months
  <2>3. /\ UNCHANGED <<now, subs, meteringVars, ran, wanted, tasks, retrying, events, changes, faults>>
        /\ txs' = [u \in Usages |-> IF u \in group THEN "aggregated" ELSE txs[u]]
    <3> HIDE DEF group
    <3>1. group = {u \in agg.todo : Month(u[1]) = m /\ u[2] = s}
      BY DEF group
    <3> QED
      BY <3>1, Zenon DEF AggregateGroup
  <2>4. UNCHANGED <<hourRows, hourEntry, charges>>
    BY <2>3 DEF meteringVars
  <2> QED
    BY <2>1, <2>2, <2>3, <2>4
<1>2. PICK first \in group :
            LET offer == PlanAt(first[1])
                status == IF IsPaid(offer) THEN "new" ELSE "fake"
                quantity == Quantity(group)
                free == FreePart(FreeUsage(m, s), quantity, Included[offer])
                copy == InvoiceFor(m, status)
                saved == [copy EXCEPT !.overage = @ + (quantity - free)]
                row == IF copy.id \in DOMAIN invoices THEN invoices[copy.id]
                       ELSE NewInvoice("usage", m, status)
            IN  /\ invoices' = [i \in DOMAIN invoices \cup {copy.id} |->
                        IF i = copy.id
                        THEN Itemed([row EXCEPT !.status = saved.status, !.overage = saved.overage],
                                    s, free, quantity - free)
                        ELSE invoices[i]]
                /\ agg' = [agg EXCEPT !.todo = @ \ group,
                                      !.cache = {e \in @ : e.month # m} \cup {saved}]
                /\ Overtaking(copy.id, Paying(copy.id))
  BY DEF AggregateGroup
<1>3. PICK status : status = IF IsPaid(PlanAt(first[1])) THEN "new" ELSE "fake"
  OBVIOUS
<1>4. PICK free : free = FreePart(FreeUsage(m, s), Quantity(group), Included[PlanAt(first[1])])
  OBVIOUS
<1>5. PICK paid : paid = Quantity(group) - free
  OBVIOUS
<1>6. PICK copy : copy = InvoiceFor(m, status)
  OBVIOUS
<1>7. PICK saved : saved = [copy EXCEPT !.overage = @ + paid]
  OBVIOUS
<1>8. PICK row : row = IF copy.id \in DOMAIN invoices THEN invoices[copy.id]
                       ELSE NewInvoice("usage", m, status)
  OBVIOUS
<1>9. /\ group \subseteq {u \in Open : u[2] = s /\ Month(u[1]) = m}
      /\ group \subseteq {u \in Usages : u[2] = s /\ Month(u[1]) = m}
  BY <1>1 DEF UsageSound, Open
<1>10. Quantity(group) \in Int
  <2>1. PICK G : G = {u \in Usages : u[2] = s /\ Month(u[1]) = m}
    OBVIOUS
  <2>2. IsFiniteSet(G) /\ group \in SUBSET G
    BY <1>1, <1>9, <2>1, MonthFinite
  <2>3. IsFiniteSet(group)
    BY <2>2, FS_Subset
  <2>4. \A u \in Usages : Used[u] \in Int
    BY <1>1, UsageTypes
  <2>5. \A u \in group : Used[u] \in Int
    BY <1>9, <2>4
  <2> HIDE DEF group
  <2> QED
    BY <2>3, <2>5, SumRemove DEF Quantity, Used
<1> HIDE DEF group
<1>11. free \in Int /\ paid \in Int /\ free + paid = Quantity(group)
  <2>1. PICK used : used = FreeUsage(m, s)
    OBVIOUS
  <2>2. used \in Int
    <3>1. PICK f, S : f = [i \in DOMAIN invoices |-> invoices[i].free[s]] /\ S = OfMonth(m)
      OBVIOUS
    <3>2. IsFiniteSet(S) /\ S \subseteq DOMAIN invoices
      BY <1>1, <3>1, ListedTypes DEF OfMonth
    <3>3. \A i \in DOMAIN invoices : invoices[i].free \in Items
      BY <1>1, RowIs
    <3>4. \A i \in S : f[i] \in Int
      BY <3>1, <3>2, <3>3 DEF Items
    <3>5. SumFunctionOnSet(f, S) \in Int
      BY <3>2, <3>4, SumRemove
    <3> QED
      BY <2>1, <3>1, <3>5 DEF FreeUsage
  <2>3. PICK limit : limit = Included[PlanAt(first[1])]
    OBVIOUS
  <2>4. limit \in Int
    <3>1. PlanAt(first[1]) \in Offers \cup {Builder}
      <4>1. \A r \in subs : r.offer \in Offers \cup {Builder}
        BY DEF FeesInv, Rows, SubRows
      <4>2. ActiveAt(subs, first[1]) \subseteq subs
        BY DEF ActiveAt
      <4> QED
        BY <4>1, <4>2 DEF PlanAt
    <3> QED
      BY <2>3, <3>1, BillingAssumption
  <2>5. free = FreePart(used, Quantity(group), limit)
    BY <1>4, <2>1, <2>3
  <2>6. free \in Int
    BY <1>10, <2>2, <2>4, <2>5, FreeInt
  <2> QED
    BY <1>5, <1>10, <2>6
<1>12. status \in {"new", "fake"}
  BY <1>3
<1>13. /\ copy \in Copies /\ copy.month = m
       /\ \/ copy.id \in DOMAIN invoices /\ CopySound(copy)
          \/ copy.id = Len(invoices) + 1 /\ copy.overage = 0
  BY <1>1, <1>6, <1>12, CopyKnown
<1>14. /\ saved \in Copies /\ saved.id = copy.id /\ saved.month = m /\ saved.status = copy.status
       /\ saved.overage = copy.overage + paid
  <2>1. PICK more : more = copy.overage + paid
    OBVIOUS
  <2>2. more \in Int
    BY <1>11, <1>13, <2>1 DEF Copies
  <2>3. saved = [copy EXCEPT !.overage = more]
    BY <1>7, <2>1
  <2> QED
    BY <1>13, <2>1, <2>2, <2>3 DEF Copies
<1>15. PICK kept : kept = [row EXCEPT !.status = saved.status, !.overage = saved.overage]
  OBVIOUS
<1>29. PICK new : new = Itemed(kept, s, free, paid)
  OBVIOUS
<1>16. /\ DOMAIN invoices' = DOMAIN invoices \cup {copy.id} /\ invoices'[copy.id] = new
       /\ \A i \in DOMAIN invoices \ {copy.id} : invoices'[i] = invoices[i]
       /\ invoices' = [i \in DOMAIN invoices' |-> invoices'[i]]
  <2>1. copy = InvoiceFor(m, IF IsPaid(PlanAt(first[1])) THEN "new" ELSE "fake")
    BY <1>3, <1>6
  <2>2. DOMAIN invoices' = DOMAIN invoices \cup {copy.id}
    BY <1>2, <2>1
  <2>3. ASSUME NEW i \in DOMAIN invoices \ {copy.id}
        PROVE  invoices'[i] = invoices[i]
    BY <1>2, <2>1, <2>3
  <2>4. invoices'[copy.id] = new
    BY <1>2, <1>3, <1>4, <1>5, <1>6, <1>7, <1>8, <1>15, <1>29
  <2>5. invoices' = [i \in DOMAIN invoices' |-> invoices'[i]]
    BY <1>2
  <2> QED
    BY <2>2, <2>3, <2>4, <2>5
<1>17. agg' = [agg EXCEPT !.todo = @ \ group, !.cache = {e \in @ : e.month # m} \cup {saved}]
  BY <1>2, <1>3, <1>4, <1>5, <1>6, <1>7, Zenon
<1>18. overtaken' = IF Paying(copy.id) THEN overtaken \cup {copy.id} ELSE overtaken
  BY <1>2, <1>3, <1>6 DEF Overtaking
<1>19. /\ row \in InvoiceRows /\ row.month = m
       /\ copy.id \in DOMAIN invoices => row = invoices[copy.id]
       /\ copy.id \notin DOMAIN invoices =>
            /\ row.taken = 0 /\ row.paid = [r \in Sources |-> 0]
            /\ \A r \in Sources : row.free[r] = 0 /\ row.paid[r] = 0
  <2>1. CASE copy.id \in DOMAIN invoices
    <3>1. row = invoices[copy.id]
      BY <1>8, <2>1
    <3>2. ~(copy.id = Len(invoices) + 1)
      BY <1>1, <2>1, InvoiceCount
    <3> QED
      BY <1>1, <1>13, <2>1, <3>1, <3>2, RowIs DEF CopySound
  <2>2. CASE copy.id \notin DOMAIN invoices
    <3>1. row = NewInvoice("usage", m, status)
      BY <1>8, <2>2
    <3> QED
      BY <1>1, <1>12, <2>2, <3>1 DEF NewInvoice, InvoiceRows, Items, Statuses
  <2> QED
    BY <2>1, <2>2
<1>20. /\ new \in InvoiceRows /\ new.month = m /\ new.taken = row.taken
       /\ new.status \in {"new", "fake"} /\ new.overage = copy.overage + paid
       /\ new.free[s] = row.free[s] + free /\ new.paid[s] = row.paid[s] + paid
       /\ \A r \in Sources \ {s} : new.free[r] = row.free[r] /\ new.paid[r] = row.paid[r]
  <2>1. saved.status \in {"new", "fake"} /\ saved.overage \in Int
    BY <1>14 DEF Copies
  <2>2. saved.status \in Statuses
    BY <2>1 DEF Statuses
  <2>3. PICK state, amount : state = saved.status /\ amount = saved.overage
    OBVIOUS
  <2>4. kept = Saved(row, state, amount)
    BY <1>15, <2>3 DEF Saved
  <2>5. row \in InvoiceRows /\ state \in Statuses /\ amount \in Int
    BY <1>19, <2>1, <2>2, <2>3
  <2>6. /\ new \in InvoiceRows /\ new.month = row.month /\ new.taken = row.taken
        /\ new.status = state /\ new.overage = amount
        /\ new.free[s] = row.free[s] + free /\ new.paid[s] = row.paid[s] + paid
        /\ \A r \in Sources \ {s} : new.free[r] = row.free[r] /\ new.paid[r] = row.paid[r]
    BY <1>11, <1>29, <2>4, <2>5, ItemsAdded
  <2> QED
    BY <1>14, <1>19, <2>1, <2>3, <2>6
<1>21. BookTypes'
  <2>1. \E n \in Nat : DOMAIN invoices' = 1..n
    <3>1. PICK n \in Nat : n = Len(invoices) /\ DOMAIN invoices = 1..n
      BY <1>1, InvoiceCount
    <3>2. CASE copy.id \in DOMAIN invoices
      <4>1. DOMAIN invoices' = 1..n
        BY <1>16, <3>1, <3>2
      <4> QED
        BY <4>1
    <3>3. CASE copy.id \notin DOMAIN invoices
      <4>1. copy.id = n + 1
        BY <1>13, <3>1, <3>3 DEF CopySound
      <4>2. DOMAIN invoices' = 1..(n + 1)
        BY <1>16, <3>1, <4>1
      <4> QED
        BY <4>2
    <3> QED
      BY <3>2, <3>3
  <2>2. \A i \in DOMAIN invoices' : invoices'[i] \in InvoiceRows
    BY <1>1, <1>16, <1>20, RowIs
  <2>3. \E n \in Nat : invoices' \in [1..n -> InvoiceRows]
    BY <1>16, <2>1, <2>2
  <2>4. DOMAIN invoices \subseteq DOMAIN invoices'
    BY <1>16
  <2> QED
    BY <1>1, <2>3, <2>4 DEF BookTypes
<1>22. /\ agg' \in [on : BOOLEAN, todo : SUBSET Usages, cache : SUBSET Copies]
       /\ agg'.todo = agg.todo \ group
       /\ agg'.cache = {e \in agg.cache : e.month # m} \cup {saved}
  <2>1. PICK todo, cache : todo = agg.todo \ group /\ cache = {e \in agg.cache : e.month # m} \cup {saved}
    OBVIOUS
  <2>2. agg' = [agg EXCEPT !.todo = todo, !.cache = cache]
    BY <1>17, <2>1
  <2>3. agg \in [on : BOOLEAN, todo : SUBSET Usages, cache : SUBSET Copies]
    BY <1>1 DEF UsageSound
  <2>4. todo \in SUBSET Usages /\ cache \in SUBSET Copies
    BY <1>14, <2>1, <2>3
  <2> QED
    BY <2>1, <2>2, <2>3, <2>4
<1>23. UsageSound'
  <2>1. agg'.todo \subseteq Open'
    BY <1>1, <1>22 DEF UsageSound, Open
  <2>2. txs' \in [Usages -> {"none", "open", "aggregated"}]
    BY <1>1 DEF UsageSound
  <2>3. \A u \in Usages : txs'[u] # "none" => u[1] \in ran
    BY <1>1, <1>9 DEF UsageSound, Open
  <2> QED
    BY <1>1, <1>22, <2>1, <2>2, <2>3 DEF UsageSound
<1>24. UsageOnInvoices'
  <2>1. \A r \in Sources : row.free[r] \in Int /\ row.paid[r] \in Int
    BY <1>19 DEF InvoiceRows, Items
  <2>2. Grouped(m, s, group, copy.id, row, new, free, paid)
    BY <1>1, <1>9, <1>11, <1>16, <1>19, <1>20, <2>1 DEF Grouped
  <2> QED
    BY <1>1, <2>2, GroupUsage
<1>25. ASSUME NEW entry \in agg'.cache
       PROVE  CopySound(entry)'
  <2>1. CASE entry = saved
    BY <1>14, <1>16, <1>20, <2>1 DEF CopySound
  <2>2. CASE entry # saved
    <3>1. CopySound(entry) /\ entry.month # m
      BY <1>22, <2>2 DEF AccountsInv
    <3>2. entry.id # copy.id /\ entry.id \in DOMAIN invoices
      BY <1>19, <3>1 DEF CopySound
    <3> QED
      BY <1>16, <1>18, <3>1, <3>2 DEF CopySound
  <2> QED
    BY <2>1, <2>2
<1>26. ASSUME NEW i \in DOMAIN invoices' \ overtaken'
       PROVE  PaymentSound(i)'
  <2>1. CASE i # copy.id
    <3>1. i \in DOMAIN invoices /\ i \notin overtaken /\ invoices'[i] = invoices[i]
      BY <1>16, <1>18, <1>26, <2>1
    <3>2. PaymentSound(i)
      BY <3>1 DEF AccountsInv
    <3> QED
      BY <1>1, <3>1, <3>2, PaymentKept
  <2>2. CASE i = copy.id
    <3>1. ~Paying(i) /\ i \notin overtaken
      BY <1>18, <1>26, <2>2
    <3>2. \A r \in retrying : r.id # i
      <4>1. CASE i \in DOMAIN invoices
        BY <3>1, <4>1 DEF Paying
      <4>2. CASE i \notin DOMAIN invoices
        BY <1>1, <4>2 DEF BookTypes
      <4> QED
        BY <4>1, <4>2
    <3>3. new.taken = 0
      <4>1. CASE i \in DOMAIN invoices
        <5>1. invoices[i].taken \in Nat /\ ~(invoices[i].taken > 0)
          BY <1>1, <3>1, <4>1, RowIs DEF Paying
        <5> QED
          BY <1>19, <1>20, <2>2, <4>1, <5>1
      <4>2. CASE i \notin DOMAIN invoices
        BY <1>19, <1>20, <2>2, <4>2
      <4> QED
        BY <4>1, <4>2
    <3>4. copy.overage = SumFunctionOnSet(row.paid, Sources)
      <4>1. CASE i \in DOMAIN invoices
        <5>1. CopySound(copy)
          BY <1>1, <1>13, <2>2, <4>1, InvoiceCount
        <5>2. PaymentSound(i)
          BY <3>1, <4>1 DEF AccountsInv
        <5> QED
          BY <1>19, <2>2, <3>1, <4>1, <5>1, <5>2 DEF CopySound, PaymentSound
      <4>2. CASE i \notin DOMAIN invoices
        BY <1>13, <1>19, <2>2, <4>2, SumZero, BillingAssumption
      <4> QED
        BY <4>1, <4>2
    <3>5. new.overage = SumFunctionOnSet(new.paid, Sources)
      <4>1. PICK f, e : f = row.paid /\ e = new.paid
        OBVIOUS
      <4>2. Put(f, e, Sources, Sources, s, paid)
        <5>1. \A r \in Sources : row.paid[r] \in Int
          BY <1>19 DEF InvoiceRows, Items
        <5> QED
          BY <1>11, <1>20, <4>1, <5>1, BillingAssumption DEF Put
      <4>3. SumFunctionOnSet(e, Sources) = SumFunctionOnSet(f, Sources) + paid
        BY <4>2, SumPut
      <4> QED
        BY <1>20, <3>4, <4>1, <4>3
    <3> QED
      BY <1>1, <1>16, <1>20, <2>2, <3>2, <3>3, <3>5 DEF PaymentSound
  <2> QED
    BY <2>1, <2>2
<1>27. PendingHasTask'
  BY <1>1, <1>16, <1>20 DEF AccountsInv, PendingHasTask
<1> QED
  BY <1>21, <1>23, <1>24, <1>25, <1>26, <1>27 DEF AccountsInv

\* No invoice, no usage.
LEMMA AccountsStart == BillingInit => AccountsInv
<1> SUFFICES ASSUME BillingInit PROVE AccountsInv
  OBVIOUS
<1>1. /\ invoices = <<>> /\ tasks = {} /\ retrying = {} /\ events = {} /\ changes = 0 /\ faults = 0
      /\ ran = {} /\ charges = {} /\ txs = [u \in Usages |-> "none"] /\ agg = Stopped
      /\ hourEntry = [h \in Hours |-> "none"] /\ hourRows = [h \in Hours |-> 0]
  BY DEF BillingInit, MeteringInit
<1>2. invoices \in [1..0 -> InvoiceRows] /\ DOMAIN invoices = {}
  BY <1>1
<1>3. BookTypes
  BY <1>1, <1>2 DEF BookTypes
<1>4. UsageSound
  BY <1>1 DEF UsageSound, Stopped, Open
<1>5. UsageOnInvoices
  <2> SUFFICES ASSUME NEW m \in Months, NEW s \in Sources
               PROVE  SumFunctionOnSet(Listed(s), OfMonth(m)) = Quantity(Aggregated(m, s))
    BY DEF UsageOnInvoices
  <2>1. OfMonth(m) = {} /\ Aggregated(m, s) = {}
    BY <1>1, <1>2 DEF OfMonth, Aggregated
  <2> QED
    BY <2>1, SumEmpty DEF Quantity
<1>6. PendingHasTask /\ agg.cache = {}
  BY <1>1, <1>2 DEF PendingHasTask, Stopped
<1> QED
  BY <1>2, <1>3, <1>4, <1>5, <1>6 DEF AccountsInv

\* The accounts stay in order.
LEMMA AccountsStep == FeesInv /\ AccountsInv /\ [BillingNext]_billingVars => AccountsInv'
<1> SUFFICES ASSUME FeesInv, AccountsInv, [BillingNext]_billingVars PROVE AccountsInv'
  OBVIOUS
<1>1. CASE UNCHANGED billingVars
  <2>1. /\ UNCHANGED <<invoices, tasks, retrying, events, overtaken, changes, faults>>
        /\ UNCHANGED usageFrame
    BY <1>1 DEF billingVars, usageVars, chargeVars, meteringVars, usageFrame
  <2>2. BookTypes /\ UsageSound /\ faults \in Nat /\ changes \in Int
    BY DEF AccountsInv, BookTypes
  <2>3. UsageSound' /\ agg' = agg /\ txs' = txs /\ hourRows' = hourRows
    BY <2>1, <2>2 DEF UsageSound, usageFrame, Open
  <2> QED
    BY <2>1, <2>2, <2>3, QuietAccounts
<1>2. CASE BillingNext
  BY <1>2, AccountPause, AccountMeter, AccountHour, AccountGroup, AccountDispatch, AccountPlanFees,
     AccountCharge, AccountRetry, AccountSave, AccountEvent, AccountSubscribe DEF BillingNext
<1> QED
  BY <1>1, <1>2

\* What invoices list is the usage that was aggregated, their amounts are those of
\* their items, nobody pays one twice and a pending one has its task: whatever
\* the aggregation, plan changes, charges, retries and events do in between.
THEOREM InvoicesAddUpHolds == BillingSpec => []InvoicesAddUp
<1>1. AccountsInv => InvoicesAddUp
  <2> SUFFICES ASSUME AccountsInv PROVE InvoicesAddUp
    OBVIOUS
  <2>1. OverageIsPaidItems
    BY DEF AccountsInv, PaymentSound, OverageIsPaidItems
  <2>2. ChargedOnce
    BY DEF AccountsInv, PaymentSound, ChargedOnce
  <2> QED
    BY <2>1, <2>2 DEF AccountsInv, InvoicesAddUp
<1> QED
  BY <1>1, AccountsStart, AccountsStep, FeesInvariant, PTL DEF BillingSpec
=============================================================================
