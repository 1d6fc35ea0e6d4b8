--------------------------- MODULE ServicesProofs ---------------------------
(***************************************************************************)
(* Theorems about the containers of a script worker, the triggers of       *)
(* changes, push notifications, the installation of a socket, hostings and *)
(* their files, and the tasks of sockets (Containers, Triggers, Push,      *)
(* SocketInstall, Hosting, HostingFiles, SocketLifecycle).  Each of them   *)
(* has an inductive invariant of its own; they share no state.             *)
(***************************************************************************)
EXTENDS Containers, Triggers, Push, SocketInstall, Hosting, HostingFiles, SocketLifecycle, Sums,
        FiniteSetTheorems, TLAPS

(* Containers *)

BoxRows == [state : {"none", "up", "removed"}, wrapper : {"none", "ready", "closed"}, traces : SUBSET Specs]
JobSteps == {"idle", "write", "execute", "result", "broken", "sent", "failed"}

ContainersTypeOK ==
    /\ waiting \subseteq Specs
    /\ boxes \in [Boxes -> BoxRows]
    /\ cached \in Boxes \cup {NoBox}
    /\ job \in [at : JobSteps, spec : Specs \cup {"none"}, box : Boxes \cup {NoBox}]
    /\ sent \in [Specs -> 0..2]
    /\ unlucky \subseteq Specs

\* A run has a spec, which waits no more, and a container.
RunSound ==
    job.at # "idle" => job.spec \in Specs /\ job.spec \notin waiting /\ job.box \in Boxes

\* Only the container of the run has files in it, those of its spec.
TracesSound ==
    /\ \A b \in Boxes : boxes[b].traces # {} =>
        job.at \notin {"idle", "write"} /\ b = job.box /\ boxes[b].traces = {job.spec}
    /\ job.at = "execute" => boxes[job.box].traces = {job.spec}

\* A spec that waits or runs has no result.
ResultsSound ==
    \A s \in Specs : s \notin unlucky =>
        /\ sent[s] <= 1
        /\ s \in waiting => sent[s] = 0
        /\ job.at \notin {"idle", "sent"} /\ job.spec = s => sent[s] = 0

ContainersInv == ContainersTypeOK /\ RunSound /\ TracesSound /\ ResultsSound

\* A step of the run between its containers: the spec and the container stay,
\* and of the containers only files of the spec come to that of the run.
LEMMA RunGoesOn ==
    ASSUME ContainersInv, NEW step \in JobSteps \ {"idle", "write"}, job.at # "idle", To(step),
           UNCHANGED <<waiting, unlucky>>, boxes' \in [Boxes -> BoxRows],
           \A b \in Boxes : \/ boxes'[b].traces = boxes[b].traces
                            \/ b = job.box /\ boxes'[b].traces = {job.spec},
           step = "execute" => boxes'[job.box].traces = {job.spec},
           job.at # "sent", cached' = cached,
           \/ sent' = sent
           \/ step = "sent" /\ sent' = [sent EXCEPT ![job.spec] = IF @ = 2 THEN 2 ELSE @ + 1]
    PROVE  ContainersInv'
<1>t. ContainersTypeOK /\ RunSound /\ TracesSound /\ ResultsSound
  BY DEF ContainersInv
<1>1. /\ job'.at = step /\ job'.spec = job.spec /\ job'.box = job.box
      /\ job' \in [at : JobSteps, spec : Specs \cup {"none"}, box : Boxes \cup {NoBox}]
  BY <1>t DEF ContainersTypeOK, To
<1>2. job.spec \in Specs /\ job.spec \notin waiting /\ job.box \in Boxes
  BY <1>t DEF RunSound
<1>3. ContainersTypeOK'
  BY <1>t, <1>1, <1>2 DEF ContainersTypeOK
<1>4. RunSound'
  BY <1>1, <1>2 DEF RunSound
<1>5. TracesSound'
  BY <1>t, <1>1, <1>2 DEF TracesSound
<1>6. ResultsSound'
  <2>1. CASE sent' = sent
    BY <1>t, <1>1, <2>1 DEF ResultsSound
  <2>2. CASE step = "sent" /\ sent' = [sent EXCEPT ![job.spec] = IF @ = 2 THEN 2 ELSE @ + 1]
    <3>1. /\ sent'[job.spec] = IF sent[job.spec] = 2 THEN 2 ELSE sent[job.spec] + 1
          /\ \A s \in Specs : s # job.spec => sent'[s] = sent[s]
      BY <1>t, <1>2, <2>2 DEF ContainersTypeOK
    <3>2. job.spec \notin unlucky => sent[job.spec] = 0
      BY <1>t, <1>2 DEF ResultsSound
    <3>3. QED
      BY <1>t, <1>1, <1>2, <2>2, <3>1, <3>2 DEF ResultsSound
  <2>3. QED
    BY <2>1, <2>2
<1>7. QED
  BY <1>3, <1>4, <1>5, <1>6 DEF ContainersInv

\* The end of a run: its container is empty or gone, and the spec waits again
\* only if it has no result or no container could be had.
LEMMA RunEnds ==
    ASSUME ContainersInv, job.at # "idle", Idle, UNCHANGED <<cached, sent>>,
           boxes' \in [Boxes -> BoxRows],
           \A b \in Boxes : \/ boxes'[b].traces = {}
                            \/ b # job.box /\ boxes'[b] = boxes[b],
           unlucky \subseteq unlucky', unlucky' \subseteq Specs,
           \/ waiting' = waiting
           \/ GiveBack /\ (job.at = "sent" => job.spec \in unlucky')
    PROVE  ContainersInv'
<1>t. ContainersTypeOK /\ RunSound /\ TracesSound /\ ResultsSound
  BY DEF ContainersInv
<1>2. job.spec \in Specs /\ job.spec \notin waiting /\ job.box \in Boxes
  BY <1>t DEF RunSound
<1>3. job' = [at |-> "idle", spec |-> "none", box |-> NoBox]
  BY DEF Idle
<1>4. ContainersTypeOK'
  BY <1>t, <1>2, <1>3 DEF ContainersTypeOK, GiveBack, JobSteps
<1>5. RunSound'
  BY <1>3 DEF RunSound
<1>6. TracesSound'
  BY <1>t, <1>3 DEF TracesSound
<1>7. ResultsSound'
  <2> SUFFICES ASSUME NEW s \in Specs, s \notin unlucky'
               PROVE  sent[s] <= 1 /\ (s \in waiting' => sent[s] = 0)
    BY <1>3 DEF ResultsSound
  <2>1. s \notin unlucky
    OBVIOUS
  <2>2. s \in waiting' => s \in waiting \/ (s = job.spec /\ job.at # "sent")
    BY DEF GiveBack
  <2>3. QED
    BY <1>t, <2>1, <2>2 DEF ResultsSound
<1>8. QED
  BY <1>4, <1>5, <1>6, <1>7 DEF ContainersInv

\* A script runs among no files but its own, and a spec has one result unless no
\* container could be had after its run.
THEOREM OwnRunOnlyHolds == ContainersSpec => []OwnRunOnly
<1>1. ContainersInit => ContainersInv
  BY DEF ContainersInit, ContainersInv, ContainersTypeOK, RunSound, TracesSound, ResultsSound,
     BoxRows, JobSteps, Unborn
<1>2. ASSUME ContainersInv, [ContainersNext]_containersVars PROVE ContainersInv'
  <2>t. ContainersTypeOK /\ RunSound /\ TracesSound /\ ResultsSound
    BY <1>2 DEF ContainersInv
  <2>b. Unborn \in BoxRows /\ Fresh \in BoxRows /\ Unborn.traces = {} /\ Fresh.traces = {}
    BY DEF Unborn, Fresh, BoxRows
  <2>0. boxes \in [Boxes -> BoxRows] /\ (job.at # "idle" => job.box \in Boxes /\ job.spec \in Specs)
    BY <2>t DEF ContainersTypeOK, RunSound
  <2>1. ASSUME NEW s \in Specs, GetContainer(s) PROVE ContainersInv'
    <3>1. /\ boxes' \in [Boxes -> BoxRows] /\ cached' \in Boxes
          /\ \A b \in Boxes : boxes'[b].traces = boxes[b].traces \/ boxes'[b].traces = {}
      BY <2>t, <2>b, <2>1, ContainersAssumption DEF GetContainer, Prepared, ContainersTypeOK
    <3>2. /\ job' = [at |-> "write", spec |-> s, box |-> cached'] /\ job.at = "idle"
          /\ waiting' = waiting \ {s} /\ s \in waiting /\ UNCHANGED <<sent, unlucky>>
      BY <2>1 DEF GetContainer
    <3>3. ContainersTypeOK'
      BY <2>t, <3>1, <3>2 DEF ContainersTypeOK, JobSteps
    <3>4. TracesSound'
      BY <2>t, <3>1, <3>2 DEF TracesSound
    <3>5. RunSound' /\ ResultsSound'
      BY <2>t, <3>1, <3>2 DEF RunSound, ResultsSound
    <3>6. QED
      BY <3>3, <3>4, <3>5 DEF ContainersInv
  <2>2. CASE WriteSource
    <3>1. CASE boxes[job.box].state = "up"
      <4>1. /\ boxes' = [boxes EXCEPT ![job.box].traces = @ \cup {job.spec}] /\ job.at = "write"
            /\ To("execute") /\ UNCHANGED <<waiting, cached, sent, unlucky>>
        BY <2>2, <3>1 DEF WriteSource
      <4>2. boxes[job.box].traces = {}
        BY <2>0, <2>t, <4>1 DEF TracesSound
      <4>3. boxes' \in [Boxes -> BoxRows]
        BY <2>0, <4>1 DEF BoxRows
      <4>4. /\ boxes'[job.box].traces = {job.spec}
            /\ \A b \in Boxes : b # job.box => boxes'[b] = boxes[b]
        BY <2>0, <4>1, <4>2 DEF BoxRows
      <4>5. QED
        BY <1>2, <4>1, <4>3, <4>4, RunGoesOn DEF JobSteps
    <3>2. CASE boxes[job.box].state # "up"
      BY <1>2, <2>0, <2>2, <3>2, RunGoesOn DEF WriteSource, JobSteps
    <3>3. QED
      BY <3>1, <3>2
  <2>3. CASE RunScript
    <3>1. boxes' \in [Boxes -> BoxRows] /\ \A b \in Boxes : boxes'[b].traces = boxes[b].traces
      BY <2>0, <2>3 DEF RunScript, BoxRows
    <3>2. QED
      BY <1>2, <2>3, <3>1, RunGoesOn DEF RunScript, JobSteps
  <2>4. CASE BreakWrapper
    BY <1>2, <2>0, <2>4, RunGoesOn DEF BreakWrapper, JobSteps
  <2>5. CASE SendResult
    BY <1>2, <2>0, <2>5, RunGoesOn DEF SendResult, JobSteps
  <2>6. CASE CleanupContainer
    <3>1. boxes' \in [Boxes -> BoxRows] /\ boxes'[job.box].traces = {}
            /\ \A b \in Boxes : b # job.box => boxes'[b] = boxes[b]
      BY <2>0, <2>b, <2>6 DEF CleanupContainer, Cleaned
    <3>2. QED
      BY <1>2, <2>t, <2>6, <3>1, RunEnds DEF CleanupContainer, ContainersTypeOK
  <2>7. CASE ReplaceContainer
    <3> DEFINE removed == [state |-> "removed", wrapper |-> "closed", traces |-> {}]
               gone == [boxes EXCEPT ![job.box] = removed]
    <3>0. job.at # "idle" /\ job.box \in Boxes /\ Idle /\ UNCHANGED <<cached, sent>>
      BY <2>0, <2>7 DEF ReplaceContainer
    <3>1. removed \in BoxRows /\ removed.traces = {}
      BY DEF BoxRows
    <3>2. boxes' = gone \/ \E b \in Boxes : boxes' = [gone EXCEPT ![b] = Fresh]
      BY <2>7 DEF ReplaceContainer, Prepared
    <3>3. \/ /\ IF job.at # "sent" THEN GiveBack ELSE UNCHANGED waiting
             /\ UNCHANGED unlucky
          \/ /\ GiveBack
             /\ unlucky' = IF job.at = "sent" THEN unlucky \cup {job.spec} ELSE unlucky
      BY <2>7 DEF ReplaceContainer
    <3> HIDE DEF removed
    <3>g. /\ gone \in [Boxes -> BoxRows] /\ gone[job.box].traces = {}
          /\ \A b \in Boxes : b # job.box => gone[b] = boxes[b]
      BY <2>0, <3>0, <3>1
    <3> HIDE DEF gone
    <3>4. /\ boxes' \in [Boxes -> BoxRows]
          /\ \A b \in Boxes : boxes'[b].traces = {} \/ (b # job.box /\ boxes'[b] = boxes[b])
      <4>1. CASE boxes' = gone
        BY <3>g, <4>1
      <4>2. ASSUME NEW c \in Boxes, boxes' = [gone EXCEPT ![c] = Fresh]
            PROVE  /\ boxes' \in [Boxes -> BoxRows]
                   /\ boxes'[c] = Fresh /\ \A b \in Boxes : b # c => boxes'[b] = gone[b]
        BY <2>b, <3>g, <4>2
      <4>3. QED
        BY <2>b, <3>2, <3>g, <4>1, <4>2
    <3>5. unlucky \subseteq unlucky' /\ unlucky' \subseteq Specs
      BY <2>t, <2>0, <3>0, <3>3 DEF ContainersTypeOK
    <3>6. waiting' = waiting \/ (GiveBack /\ (job.at = "sent" => job.spec \in unlucky'))
      <4>1. CASE job.at = "sent"
        BY <3>3, <4>1 DEF GiveBack
      <4>2. CASE job.at # "sent"
        BY <3>3, <4>2
      <4>3. QED
        BY <4>1, <4>2
    <3>7. QED
      BY <1>2, <3>0, <3>4, <3>5, <3>6, RunEnds
  <2>8. CASE RestartWorker
    <3>1. /\ boxes' \in [Boxes -> BoxRows] /\ \A b \in Boxes : boxes'[b].traces = {}
          /\ job.at = "idle" /\ cached' = NoBox /\ UNCHANGED <<waiting, job, sent, unlucky>>
      BY <2>b, <2>8 DEF RestartWorker
    <3>2. QED
      BY <2>t, <3>1 DEF ContainersInv, ContainersTypeOK, RunSound, TracesSound, ResultsSound
  <2>9. CASE UNCHANGED containersVars
    BY <2>t, <2>9 DEF containersVars, ContainersInv, ContainersTypeOK, RunSound, TracesSound, ResultsSound
  <2>10. QED
    BY <1>2, <2>1, <2>2, <2>3, <2>4, <2>5, <2>6, <2>7, <2>8, <2>9 DEF ContainersNext
<1>3. ContainersInv => OwnRunOnly
  BY DEF ContainersInv, TracesSound, ResultsSound, OwnRunOnly
<1>4. QED
  BY <1>1, <1>2, <1>3, PTL DEF ContainersSpec

-----------------------------------------------------------------------------
(* Triggers *)

TriggersTypeOK ==
    /\ on \in TriggerEvents \cup {NoEvent}
    /\ match \in [TriggerEvents -> {"hit", "miss", "-"}]
    /\ saved \in TriggerEvents \cup {NoEvent, NotSaved}
    /\ progress \in [Changes -> [TriggerEvents -> {"none", "registered", "sent", "handled"}]]
    /\ request \in [Changes -> [at : {"new", "open", "over"}, kind : {"object", "user"}]]
    /\ due \in [Changes -> SUBSET TriggerEvents]
    /\ calm \subseteq Changes /\ early \subseteq TriggerEvents
    /\ fired \in [Changes -> [TriggerEvents -> Nat]]

\* A cached match that is not early is right, and stays so when the trigger that
\* was saved is committed.
MatchSound ==
    \A e \in TriggerEvents :
        \/ match[e] = "-"
        \/ e \in early
        \/ /\ match[e] = IF on = e THEN "hit" ELSE "miss"
           /\ saved # NotSaved => e # on /\ e # saved

\* Tasks are sent once: nothing has fired before its event was handled.
FiredSound ==
    \A c \in Changes : \A e \in TriggerEvents :
        /\ fired[c][e] = 0 \/ (fired[c][e] = 1 /\ progress[c][e] = "handled")
        /\ request[c].at = "new" => progress[c][e] = "none"
        /\ request[c].at = "open" => progress[c][e] \in {"none", "registered"}

\* What has been done for a change in whose time nothing happened to the trigger.
CalmSound ==
    \A c \in calm :
        /\ saved = NotSaved /\ request[c].at # "new"
        /\ early \cap EventsOf(request[c].kind) = {}
        /\ due[c] \subseteq EventsOf(request[c].kind) \cap {on}
        /\ \A e \in TriggerEvents :
            /\ e \notin due[c] => progress[c][e] = "none"
            /\ e \in due[c] /\ request[c].at = "open" => progress[c][e] = "registered"
            /\ e \in due[c] /\ request[c].at = "over" =>
                progress[c][e] = "sent" \/ (progress[c][e] = "handled" /\ fired[c][e] = 1)

TriggersInv == TriggersTypeOK /\ MatchSound /\ FiredSound /\ CalmSound

\* What is looked up is right if it is not early, and only then is it not early.
LEMMA FillsSound ==
    ASSUME TriggersTypeOK, MatchSound, NEW events \in SUBSET TriggerEvents, Fills(events),
           UNCHANGED <<on, saved>>
    PROVE  /\ match' \in [TriggerEvents -> {"hit", "miss", "-"}] /\ early' \subseteq TriggerEvents
           /\ early \subseteq early' /\ (saved = NotSaved => early' = early)
           /\ MatchSound'
           /\ saved = NotSaved =>
                \A e \in events \ early : Match(e) = IF on = e THEN "hit" ELSE "miss"
<1>1. \A e \in TriggerEvents : Match(e) \in {"hit", "miss"}
  BY DEF Match, TriggersTypeOK
<1>2. /\ match' = [e \in TriggerEvents |-> IF e \in events THEN Match(e) ELSE match[e]]
      /\ early' = IF saved # NotSaved THEN early \cup {e \in events : match[e] = "-"} ELSE early
  BY DEF Fills
<1>3. match' \in [TriggerEvents -> {"hit", "miss", "-"}]
  BY <1>1, <1>2 DEF TriggersTypeOK
<1>4. /\ early' \subseteq TriggerEvents /\ early \subseteq early'
      /\ saved = NotSaved => early' = early
  BY <1>2 DEF TriggersTypeOK
<1>5. ASSUME NEW e \in TriggerEvents
      PROVE  \/ match'[e] = "-"
             \/ e \in early'
             \/ /\ match'[e] = IF on = e THEN "hit" ELSE "miss"
                /\ saved # NotSaved => e # on /\ e # saved
  <2>1. match'[e] = IF e \in events THEN Match(e) ELSE match[e]
    BY <1>2
  <2>2. CASE e \in events /\ match[e] = "-"
    BY <1>2, <2>1, <2>2 DEF Match
  <2>3. CASE e \notin events \/ match[e] # "-"
    BY <1>4, <2>1, <2>3 DEF Match, MatchSound
  <2>4. QED
    BY <2>2, <2>3
<1>6. saved = NotSaved => \A e \in events \ early : Match(e) = IF on = e THEN "hit" ELSE "miss"
  BY DEF Match, MatchSound
<1>7. QED
  BY <1>3, <1>4, <1>5, <1>6 DEF MatchSound

\* A change runs the trigger once if the trigger has its event and not at all if
\* it has not, and it never runs twice.
THEOREM FiresOnceHolds == TriggersSpec => []FiresOnce
<1> USE TriggersAssumption
<1>1. TriggersInit => TriggersInv
  BY DEF TriggersInit, TriggersInv, TriggersTypeOK, MatchSound, FiredSound, CalmSound
<1>2. ASSUME TriggersInv, [TriggersNext]_triggersVars PROVE TriggersInv'
  <2>t. TriggersTypeOK /\ MatchSound /\ FiredSound /\ CalmSound
    BY <1>2 DEF TriggersInv
  <2>1. ASSUME NEW c \in Changes, NEW kind \in {"object", "user"}, ChangeData(c, kind)
        PROVE  TriggersInv'
    <3> DEFINE mine == [e \in TriggerEvents |->
                   IF e \in EventsOf(kind) /\ Match(e) = "hit" THEN "registered" ELSE "none"]
    <3>0. EventsOf(kind) \in SUBSET TriggerEvents
      BY DEF EventsOf, TriggerEvents
    <3>1. /\ request[c].at = "new" /\ request' = [request EXCEPT ![c] = [at |-> "open", kind |-> kind]]
          /\ progress' = [progress EXCEPT ![c] = mine]
          /\ due' = [due EXCEPT ![c] = EventsOf(kind) \cap {on}]
          /\ calm' = IF saved = NotSaved /\ early \cap EventsOf(kind) = {} THEN calm \cup {c} ELSE calm
          /\ Fills(EventsOf(kind)) /\ UNCHANGED <<on, saved, fired>>
      BY <2>1 DEF ChangeData
    <3>2. /\ match' \in [TriggerEvents -> {"hit", "miss", "-"}] /\ early' \subseteq TriggerEvents
          /\ (saved = NotSaved => early' = early) /\ MatchSound'
          /\ saved = NotSaved =>
                \A e \in EventsOf(kind) \ early : Match(e) = IF on = e THEN "hit" ELSE "miss"
      BY <2>t, <3>0, <3>1, FillsSound
    <3>3. mine \in [TriggerEvents -> {"none", "registered", "sent", "handled"}]
      OBVIOUS
    <3>4. \A e \in TriggerEvents : mine[e] = IF e \in EventsOf(kind) /\ Match(e) = "hit" THEN "registered" ELSE "none"
      OBVIOUS
    <3> HIDE DEF mine
    <3>5. TriggersTypeOK'
      BY <2>t, <3>0, <3>1, <3>2, <3>3 DEF TriggersTypeOK
    <3>6. /\ request'[c] = [at |-> "open", kind |-> kind] /\ progress'[c] = mine
          /\ due'[c] = EventsOf(kind) \cap {on}
          /\ \A d \in Changes : d # c => /\ request'[d] = request[d] /\ progress'[d] = progress[d]
                                         /\ due'[d] = due[d]
      BY <2>t, <3>1 DEF TriggersTypeOK
    <3>7. \A e \in TriggerEvents : fired[c][e] = 0
      BY <2>t, <3>1 DEF FiredSound
    <3>8. FiredSound'
      BY <2>t, <3>1, <3>4, <3>6, <3>7 DEF FiredSound
    <3>9. c \notin calm
      BY <2>t, <3>1 DEF CalmSound
    <3>10. CalmSound'
      <4> SUFFICES ASSUME NEW d \in calm' PROVE CalmSound!(d)'
        BY DEF CalmSound
      <4>1. saved = NotSaved /\ early' = early
        BY <2>t, <3>1, <3>2 DEF CalmSound
      <4>2. CASE d # c
        <5>1. d \in calm /\ d \in Changes
          BY <2>t, <3>1, <4>2 DEF TriggersTypeOK
        <5>2. QED
          BY <2>t, <3>1, <3>6, <4>1, <4>2, <5>1 DEF CalmSound
      <4>3. CASE d = c
        <5>1. early \cap EventsOf(kind) = {}
          BY <3>1, <3>9, <4>3
        <5>2. \A e \in TriggerEvents : e \in EventsOf(kind) => Match(e) = IF on = e THEN "hit" ELSE "miss"
          BY <3>2, <4>1, <5>1
        <5>3. \A e \in TriggerEvents : mine[e] = IF e \in EventsOf(kind) \cap {on} THEN "registered" ELSE "none"
          BY <3>4, <5>2
        <5>4. QED
          BY <3>1, <3>6, <4>1, <4>3, <5>1, <5>3
      <4>4. QED
        BY <4>2, <4>3
    <3>11. QED
      BY <3>2, <3>5, <3>8, <3>10 DEF TriggersInv
  <2>2. ASSUME NEW c \in Changes, CommitData(c) PROVE TriggersInv'
    <3> DEFINE mine == [e \in TriggerEvents |-> IF progress[c][e] = "registered" THEN "sent" ELSE progress[c][e]]
    <3>1. /\ request[c].at = "open" /\ request' = [request EXCEPT ![c].at = "over"]
          /\ progress' = [progress EXCEPT ![c] = mine]
          /\ UNCHANGED <<on, match, saved, due, calm, early, fired>>
      BY <2>t, <2>2 DEF CommitData, TriggersTypeOK
    <3>2. mine \in [TriggerEvents -> {"none", "registered", "sent", "handled"}]
      BY <2>t DEF TriggersTypeOK
    <3>3. \A e \in TriggerEvents : mine[e] = IF progress[c][e] = "registered" THEN "sent" ELSE progress[c][e]
      OBVIOUS
    <3> HIDE DEF mine
    <3>4. TriggersTypeOK'
      BY <2>t, <3>1, <3>2 DEF TriggersTypeOK
    <3>5. /\ request'[c].at = "over" /\ request'[c].kind = request[c].kind /\ progress'[c] = mine
          /\ \A d \in Changes : d # c => request'[d] = request[d] /\ progress'[d] = progress[d]
      BY <2>t, <3>1 DEF TriggersTypeOK
    <3>6. MatchSound'
      BY <2>t, <3>1 DEF MatchSound
    <3>7. FiredSound'
      BY <2>t, <3>1, <3>3, <3>5 DEF FiredSound
    <3>8. CalmSound'
      <4> SUFFICES ASSUME NEW d \in calm' PROVE CalmSound!(d)'
        BY DEF CalmSound
      <4>1. d \in calm /\ d \in Changes
        BY <2>t, <3>1 DEF TriggersTypeOK
      <4>2. CASE d # c
        BY <2>t, <3>1, <3>5, <4>1, <4>2 DEF CalmSound
      <4>3. CASE d = c
        BY <2>t, <3>1, <3>3, <3>5, <4>1, <4>3 DEF CalmSound
      <4>4. QED
        BY <4>2, <4>3
    <3>9. QED
      BY <3>4, <3>6, <3>7, <3>8 DEF TriggersInv
  <2>3. ASSUME NEW c \in Changes, RollbackData(c) PROVE TriggersInv'
    <3> DEFINE mine == [e \in TriggerEvents |-> "none"]
    <3>1. /\ request[c].at = "open" /\ request' = [request EXCEPT ![c].at = "over"]
          /\ progress' = [progress EXCEPT ![c] = mine] /\ due' = [due EXCEPT ![c] = {}]
          /\ UNCHANGED <<on, match, saved, calm, early, fired>>
      BY <2>3 DEF RollbackData
    <3>2. mine \in [TriggerEvents -> {"none", "registered", "sent", "handled"}] /\ \A e \in TriggerEvents : mine[e] = "none"
      OBVIOUS
    <3> HIDE DEF mine
    <3>4. TriggersTypeOK'
      BY <2>t, <3>1, <3>2 DEF TriggersTypeOK
    <3>5. /\ request'[c].at = "over" /\ request'[c].kind = request[c].kind /\ progress'[c] = mine
          /\ due'[c] = {}
          /\ \A d \in Changes : d # c => /\ request'[d] = request[d] /\ progress'[d] = progress[d]
                                         /\ due'[d] = due[d]
      BY <2>t, <3>1 DEF TriggersTypeOK
    <3>6. MatchSound'
      BY <2>t, <3>1 DEF MatchSound
    <3>7. FiredSound'
      BY <2>t, <3>1, <3>2, <3>5 DEF FiredSound
    <3>8. CalmSound'
      <4> SUFFICES ASSUME NEW d \in calm' PROVE CalmSound!(d)'
        BY DEF CalmSound
      <4>1. d \in calm /\ d \in Changes
        BY <2>t, <3>1 DEF TriggersTypeOK
      <4>2. CASE d # c
        BY <2>t, <3>1, <3>5, <4>1, <4>2 DEF CalmSound
      <4>3. CASE d = c
        BY <2>t, <3>1, <3>2, <3>5, <4>1, <4>3 DEF CalmSound
      <4>4. QED
        BY <4>2, <4>3
    <3>9. QED
      BY <3>4, <3>6, <3>7, <3>8 DEF TriggersInv
  <2>4. ASSUME NEW c \in Changes, NEW e \in TriggerEvents, HandleEvent(c, e) PROVE TriggersInv'
    <3>1. /\ progress[c][e] = "sent" /\ progress' = [progress EXCEPT ![c][e] = "handled"]
          /\ fired' = [fired EXCEPT ![c][e] = IF Match(e) = "hit" THEN @ + 1 ELSE @]
          /\ Fills({e}) /\ UNCHANGED <<on, saved, request, due, calm>>
      BY <2>4 DEF HandleEvent
    <3>2. /\ match' \in [TriggerEvents -> {"hit", "miss", "-"}] /\ early' \subseteq TriggerEvents
          /\ (saved = NotSaved => early' = early) /\ MatchSound'
          /\ saved = NotSaved =>
                \A x \in {e} \ early : Match(x) = IF on = x THEN "hit" ELSE "miss"
      BY <2>t, <3>1, FillsSound
    <3>3. TriggersTypeOK'
      BY <2>t, <3>1, <3>2 DEF TriggersTypeOK
    <3>4. /\ progress'[c][e] = "handled"
          /\ fired'[c][e] = IF Match(e) = "hit" THEN fired[c][e] + 1 ELSE fired[c][e]
          /\ \A d \in Changes : \A x \in TriggerEvents :
                d # c \/ x # e => progress'[d][x] = progress[d][x] /\ fired'[d][x] = fired[d][x]
      BY <2>t, <3>1 DEF TriggersTypeOK
    <3>5. fired[c][e] = 0 /\ request[c].at = "over"
      BY <2>t, <3>1 DEF FiredSound, TriggersTypeOK
    <3>6. FiredSound'
      BY <2>t, <3>1, <3>4, <3>5 DEF FiredSound
    <3>7. CalmSound'
      <4> SUFFICES ASSUME NEW d \in calm' PROVE CalmSound!(d)'
        BY DEF CalmSound
      <4>1. d \in calm /\ d \in Changes /\ saved = NotSaved /\ early' = early
        BY <2>t, <3>1, <3>2 DEF TriggersTypeOK, CalmSound
      <4>2. CASE d # c
        BY <2>t, <3>1, <3>4, <4>1, <4>2 DEF CalmSound
      <4>3. CASE d = c
        <5>1. e \in due[c] /\ on = e /\ e \notin early
          BY <2>t, <3>1, <4>1, <4>3 DEF CalmSound
        <5>2. fired'[c][e] = 1
          BY <3>2, <3>4, <3>5, <4>1, <5>1
        <5>3. QED
          BY <2>t, <3>1, <3>4, <3>5, <4>1, <4>3, <5>1, <5>2 DEF CalmSound
      <4>4. QED
        BY <4>2, <4>3
    <3>8. QED
      BY <3>2, <3>3, <3>6, <3>7 DEF TriggersInv
  <2>5. ASSUME NEW new \in TriggerEvents \cup {NoEvent}, SaveTrigger(new) PROVE TriggersInv'
    <3>1. /\ saved = NotSaved /\ saved' = new /\ calm' = {}
          /\ match' = [e \in TriggerEvents |-> IF e \in Stale(new) THEN "-" ELSE match[e]]
          /\ early' = early \ Stale(new) /\ UNCHANGED <<on, progress, request, due, fired>>
      BY <2>5 DEF SaveTrigger
    <3>2. \A e \in TriggerEvents : e \in Stale(new) <=> e = on \/ e = new
      BY DEF Stale
    <3>3. TriggersTypeOK'
      BY <2>t, <3>1 DEF TriggersTypeOK
    <3>4. MatchSound'
      BY <2>t, <3>1, <3>2 DEF MatchSound
    <3>5. FiredSound' /\ CalmSound'
      BY <2>t, <3>1 DEF FiredSound, CalmSound
    <3>6. QED
      BY <3>3, <3>4, <3>5 DEF TriggersInv
  <2>6. ASSUME CommitTrigger \/ UndoTrigger PROVE TriggersInv'
    <3>1. /\ saved # NotSaved /\ saved' = NotSaved /\ (on' = saved \/ on' = on)
          /\ UNCHANGED <<match, progress, request, due, calm, early, fired>>
      BY <2>6 DEF CommitTrigger, UndoTrigger, EndTrigger
    <3>2. TriggersTypeOK'
      BY <2>t, <3>1 DEF TriggersTypeOK
    <3>3. MatchSound'
      BY <2>t, <3>1 DEF MatchSound
    <3>4. FiredSound' /\ CalmSound'
      BY <2>t, <3>1 DEF FiredSound, CalmSound
    <3>5. QED
      BY <3>2, <3>3, <3>4 DEF TriggersInv
  <2>7. ASSUME NEW e \in TriggerEvents, EvictMatch(e) PROVE TriggersInv'
    <3>1. /\ match' = [match EXCEPT ![e] = "-"] /\ early' = early \ {e}
          /\ UNCHANGED <<on, saved, progress, request, due, calm, fired>>
      BY <2>7 DEF EvictMatch
    <3>2. TriggersTypeOK'
      BY <2>t, <3>1 DEF TriggersTypeOK
    <3>3. MatchSound'
      BY <2>t, <3>1 DEF MatchSound, TriggersTypeOK
    <3>4. FiredSound' /\ CalmSound'
      BY <2>t, <3>1 DEF FiredSound, CalmSound
    <3>5. QED
      BY <3>2, <3>3, <3>4 DEF TriggersInv
  <2>8. CASE UNCHANGED triggersVars
    BY <2>t, <2>8 DEF triggersVars, TriggersInv, TriggersTypeOK, MatchSound, FiredSound, CalmSound
  <2>9. QED
    BY <1>2, <2>1, <2>2, <2>3, <2>4, <2>5, <2>6, <2>7, <2>8 DEF TriggersNext
<1>3. TriggersInv => FiresOnce
  <2> SUFFICES ASSUME TriggersInv, NEW c \in Changes, NEW e \in TriggerEvents
               PROVE  /\ fired[c][e] <= 1
                      /\ request[c].at = "over" /\ c \in calm /\ progress[c][e] # "sent"
                            => fired[c][e] = Cardinality({e} \cap due[c])
    BY DEF FiresOnce
  <2>1. Cardinality({e}) = 1 /\ Cardinality({}) = 0
    BY FS_Singleton, FS_EmptySet
  <2>2. fired[c][e] = 0 \/ fired[c][e] = 1
    BY DEF TriggersInv, FiredSound
  <2>3. {e} \cap due[c] = IF e \in due[c] THEN {e} ELSE {}
    OBVIOUS
  <2>4. ASSUME request[c].at = "over", c \in calm, progress[c][e] # "sent"
        PROVE  fired[c][e] = IF e \in due[c] THEN 1 ELSE 0
    BY <2>4 DEF TriggersInv, FiredSound, CalmSound
  <2>5. QED
    BY <2>1, <2>2, <2>3, <2>4
<1>4. QED
  BY <1>1, <1>2, <1>3, PTL DEF TriggersSpec

-----------------------------------------------------------------------------
(* Push notifications *)

EditRows == [device : SUBSET Devices, seen : DeviceStates, wanted : DeviceStates]

AppleTypeOK ==
    /\ apns \in [Devices -> DeviceStates]
    /\ apnsCount \in Int /\ ghosts \in Int
    /\ edit \in [Editors -> EditRows]
    /\ told \subseteq Devices
    /\ overlapped \in {"yes", "no"}

\* A request has read a device or none.
EditsShaped == \A e \in Editors : edit[e] = NoEdit \/ \E d \in Devices : edit[e].device = {d}

\* One request at a time is about a device: it has seen what the device is, unless
\* feedback has deactivated it meanwhile, and does not delete what is not there.
EditsSound ==
    \A e \in Editors : \A d \in Devices : edit[e].device = {d} =>
        /\ edit[e].seen = apns[d] \/ (edit[e].seen = "active" /\ apns[d] = "inactive")
        /\ edit[e].seen # "none" \/ edit[e].wanted # "none"
        /\ \A f \in Editors : edit[f].device = {d} => f = e

\* Devices that were deactivated under a request that will take them off.
Haunted ==
    {d \in Devices : /\ apns[d] # "active"
                     /\ \E e \in Editors : edit[e].device = {d} /\ edit[e].seen = "active"}

CountSound == apnsCount = Cardinality(Active) + ghosts /\ Cardinality(Haunted) <= ghosts

AppleInv ==
    /\ AppleTypeOK /\ EditsShaped
    /\ overlapped = "no" => EditsSound /\ CountSound

\* Counts of devices are numbers.
LEMMA DevicesFinite ==
    /\ IsFiniteSet(Active) /\ Cardinality(Active) \in Nat
    /\ IsFiniteSet(Haunted) /\ Cardinality(Haunted) \in Nat
<1>1. Active \subseteq Devices /\ Haunted \subseteq Devices
  BY DEF Active, Haunted
<1>2. IsFiniteSet(Active) /\ IsFiniteSet(Haunted)
  BY <1>1, PushAssumption, FS_Subset
<1>3. QED
  BY <1>2, FS_CardinalityType

\* The active devices after one of them is saved, and after feedback.
LEMMA ActiveAfterSave ==
    ASSUME AppleTypeOK, NEW d \in Devices, NEW wanted \in DeviceStates, apns' = [apns EXCEPT ![d] = wanted]
    PROVE  Cardinality(Active') = Cardinality(Active) + One(wanted = "active") - One(apns[d] = "active")
<1>1. CASE wanted = "active"
  <2>1. Active' = Active \cup {d}
    BY <1>1 DEF Active, AppleTypeOK
  <2>2. Cardinality(Active \cup {d}) = IF d \in Active THEN Cardinality(Active) ELSE Cardinality(Active) + 1
    BY DevicesFinite, FS_AddElement
  <2>3. d \in Active <=> apns[d] = "active"
    BY DEF Active
  <2>4. QED
    BY <1>1, <2>1, <2>2, <2>3, DevicesFinite DEF One
<1>2. CASE wanted # "active"
  <2>1. Active' = Active \ {d}
    BY <1>2 DEF Active, AppleTypeOK
  <2>2. Cardinality(Active \ {d}) = IF d \in Active THEN Cardinality(Active) - 1 ELSE Cardinality(Active)
    BY DevicesFinite, FS_RemoveElement
  <2>3. d \in Active <=> apns[d] = "active"
    BY DEF Active
  <2>4. QED
    BY <1>2, <2>1, <2>2, <2>3, DevicesFinite DEF One
<1>3. QED
  BY <1>1, <1>2

\* A request saves a device: the count follows, and the request haunts nothing any more.
LEMMA SaveDeviceKeeps ==
    ASSUME AppleInv, NEW e \in Editors, SaveDevice(e)
    PROVE  AppleInv'
<1>t. AppleTypeOK /\ EditsShaped
  BY DEF AppleInv
<1>1. PICK d \in edit[e].device :
        /\ IF edit[e].seen = "none" /\ apns[d] # "none"
           THEN UNCHANGED <<apns, apnsCount, ghosts>>
           ELSE /\ apns' = [apns EXCEPT ![d] = edit[e].wanted]
                /\ apnsCount' = apnsCount + DeviceChange(edit[e].seen, edit[e].wanted)
                /\ ghosts' = ghosts + One(edit[e].seen = "none" /\ edit[e].wanted = "inactive")
                                    - One(edit[e].seen = "active" /\ apns[d] # "active")
  BY DEF SaveDevice
<1>2. edit' = [edit EXCEPT ![e] = NoEdit] /\ UNCHANGED <<told, overlapped>>
  BY DEF SaveDevice
<1>3. d \in Devices /\ edit[e].device = {d} /\ edit[e].seen \in DeviceStates /\ edit[e].wanted \in DeviceStates
  <2>1. edit[e] \in EditRows
    BY <1>t DEF AppleTypeOK
  <2>2. \E c \in Devices : edit[e].device = {c}
    BY <1>1, <1>t DEF EditsShaped, NoEdit
  <2>3. QED
    BY <1>1, <2>1, <2>2 DEF EditRows
<1>4. NoEdit \in EditRows /\ NoEdit.device = {}
  BY DEF NoEdit, EditRows, DeviceStates
<1>5. /\ edit' \in [Editors -> EditRows] /\ edit'[e] = NoEdit
      /\ \A f \in Editors : f # e => edit'[f] = edit[f]
  BY <1>t, <1>2, <1>4 DEF AppleTypeOK
<1>6. AppleTypeOK'
  <2>1. apns' \in [Devices -> DeviceStates]
    BY <1>t, <1>1, <1>3 DEF AppleTypeOK
  <2>2. apnsCount' \in Int /\ ghosts' \in Int
    BY <1>t, <1>1 DEF AppleTypeOK, DeviceChange, One
  <2>3. QED
    BY <1>t, <1>2, <1>5, <2>1, <2>2 DEF AppleTypeOK
<1>7. EditsShaped'
  BY <1>t, <1>5 DEF EditsShaped
<1>8. ASSUME overlapped = "no" PROVE EditsSound' /\ CountSound'
  <2>0. EditsSound /\ CountSound
    BY <1>8 DEF AppleInv
  <2>1. /\ edit[e].seen = apns[d] \/ (edit[e].seen = "active" /\ apns[d] = "inactive")
        /\ edit[e].seen # "none" \/ edit[e].wanted # "none"
        /\ \A f \in Editors : edit[f].device = {d} => f = e
    BY <1>3, <2>0 DEF EditsSound
  <2>2. /\ apns' = [apns EXCEPT ![d] = edit[e].wanted]
        /\ apnsCount' = apnsCount + DeviceChange(edit[e].seen, edit[e].wanted)
        /\ ghosts' = ghosts + One(edit[e].seen = "none" /\ edit[e].wanted = "inactive")
                            - One(edit[e].seen = "active" /\ apns[d] # "active")
    BY <1>1, <2>1
  <2>3. \A c \in Devices : c # d => apns'[c] = apns[c]
    BY <1>t, <2>2 DEF AppleTypeOK
  <2>4. \A f \in Editors : edit'[f].device # {d}
    BY <1>4, <1>5, <2>1
  <2>5. EditsSound'
    <3> SUFFICES ASSUME NEW f \in Editors, NEW c \in Devices, edit'[f].device = {c}
                 PROVE  /\ edit'[f].seen = apns'[c] \/ (edit'[f].seen = "active" /\ apns'[c] = "inactive")
                        /\ edit'[f].seen # "none" \/ edit'[f].wanted # "none"
                        /\ \A g \in Editors : edit'[g].device = {c} => g = f
      BY DEF EditsSound
    <3>1. f # e /\ c # d
      BY <1>4, <1>5, <2>4
    <3>2. edit[f].device = {c} /\ edit'[f] = edit[f] /\ apns'[c] = apns[c]
      BY <1>5, <2>3, <3>1
    <3>3. \A g \in Editors : edit'[g].device = {c} => edit[g].device = {c}
      BY <1>4, <1>5
    <3>4. QED
      BY <2>0, <3>2, <3>3 DEF EditsSound
  <2>6. Haunted' = Haunted \ {d}
    BY <1>4, <1>5, <2>3, <2>4 DEF Haunted
  <2>7. d \in Haunted <=> edit[e].seen = "active" /\ apns[d] # "active"
    BY <1>3, <2>1 DEF Haunted
  <2>8. Cardinality(Haunted') = Cardinality(Haunted) - One(edit[e].seen = "active" /\ apns[d] # "active")
    <3>1. Cardinality(Haunted \ {d}) = IF d \in Haunted THEN Cardinality(Haunted) - 1 ELSE Cardinality(Haunted)
      BY DevicesFinite, FS_RemoveElement
    <3>2. QED
      BY <2>6, <2>7, <3>1, DevicesFinite DEF One
  <2>9. Cardinality(Active') = Cardinality(Active) + One(edit[e].wanted = "active") - One(apns[d] = "active")
    BY <1>t, <1>3, <2>2, ActiveAfterSave
  <2>10. /\ apnsCount \in Int /\ ghosts \in Int /\ Cardinality(Active) \in Nat /\ Cardinality(Haunted) \in Nat
         /\ apnsCount = Cardinality(Active) + ghosts /\ Cardinality(Haunted) <= ghosts
    BY <1>t, <2>0, DevicesFinite DEF AppleTypeOK, CountSound
  <2>11. apnsCount' = Cardinality(Active') + ghosts'
    BY <1>3, <2>1, <2>2, <2>9, <2>10 DEF DeviceChange, One, DeviceStates
  <2>12. Cardinality(Haunted') <= ghosts'
    BY <2>2, <2>8, <2>10 DEF One
  <2>13. QED
    BY <2>5, <2>11, <2>12 DEF CountSound
<1>9. QED
  BY <1>2, <1>6, <1>7, <1>8 DEF AppleInv

\* A request reads a device, which nobody else is about to change or all bets are off.
LEMMA ReadDeviceKeeps ==
    ASSUME AppleInv, NEW e \in Editors, NEW d \in Devices, NEW wanted \in DeviceStates,
           ReadDevice(e, d, wanted)
    PROVE  AppleInv'
<1> DEFINE row == [device |-> {d}, seen |-> apns[d], wanted |-> wanted]
<1>t. AppleTypeOK /\ EditsShaped
  BY DEF AppleInv
<1>1. /\ edit[e] = NoEdit /\ edit' = [edit EXCEPT ![e] = row]
      /\ ~(apns[d] = "none" /\ wanted = "none")
      /\ overlapped' = IF \E f \in Editors : edit[f].device = {d} THEN "yes" ELSE overlapped
      /\ UNCHANGED <<apns, apnsCount, told, ghosts>>
  BY DEF ReadDevice
<1>2. row \in EditRows /\ row.device = {d} /\ row.seen = apns[d] /\ row.wanted = wanted
  BY <1>t DEF EditRows, AppleTypeOK
<1> HIDE DEF row
<1>3. /\ edit' \in [Editors -> EditRows] /\ edit'[e] = row
      /\ \A f \in Editors : f # e => edit'[f] = edit[f]
  BY <1>t, <1>1, <1>2 DEF AppleTypeOK
<1>4. AppleTypeOK' /\ EditsShaped'
  BY <1>t, <1>1, <1>2, <1>3 DEF AppleTypeOK, EditsShaped
<1>5. ASSUME overlapped' = "no" PROVE EditsSound' /\ CountSound'
  <2>1. overlapped = "no" /\ \A f \in Editors : edit[f].device # {d}
    BY <1>1, <1>5
  <2>2. EditsSound /\ CountSound
    BY <2>1 DEF AppleInv
  <2>3. EditsSound'
    <3> SUFFICES ASSUME NEW f \in Editors, NEW c \in Devices, edit'[f].device = {c}
                 PROVE  /\ edit'[f].seen = apns'[c] \/ (edit'[f].seen = "active" /\ apns'[c] = "inactive")
                        /\ edit'[f].seen # "none" \/ edit'[f].wanted # "none"
                        /\ \A g \in Editors : edit'[g].device = {c} => g = f
      BY DEF EditsSound
    <3>1. CASE f = e
      <4>1. c = d
        BY <1>2, <1>3, <3>1
      <4>2. QED
        BY <1>1, <1>2, <1>3, <2>1, <3>1, <4>1
    <3>2. CASE f # e
      <4>1. edit[f].device = {c} /\ edit'[f] = edit[f] /\ c # d
        BY <1>3, <2>1, <3>2
      <4>2. \A g \in Editors : edit'[g].device = {c} => edit[g].device = {c}
        BY <1>2, <1>3, <4>1
      <4>3. QED
        BY <1>1, <2>2, <4>1, <4>2 DEF EditsSound
    <3>3. QED
      BY <3>1, <3>2
  <2>4. Haunted' = Haunted
    <3>1. ASSUME NEW c \in Devices, apns[c] # "active"
          PROVE  (\E f \in Editors : edit'[f].device = {c} /\ edit'[f].seen = "active") <=>
                 (\E f \in Editors : edit[f].device = {c} /\ edit[f].seen = "active")
      <4>1. edit[e].device = {}
        BY <1>1 DEF NoEdit
      <4>2. \A f \in Editors : edit[f].device = {c} => edit'[f] = edit[f]
        BY <1>3, <4>1
      <4>3. \A f \in Editors : edit'[f].device = {c} /\ edit'[f].seen = "active" => f # e
        BY <1>2, <1>3, <3>1
      <4>4. QED
        BY <1>3, <4>2, <4>3
    <3>2. QED
      BY <1>1, <3>1 DEF Haunted
  <2>5. Active' = Active
    BY <1>1 DEF Active
  <2>6. QED
    BY <1>1, <2>2, <2>3, <2>4, <2>5 DEF CountSound
<1>6. QED
  BY <1>4, <1>5 DEF AppleInv

\* Feedback deactivates devices without taking them off the count: ghosts, as many as there were.
LEMMA GetFeedbackKeeps ==
    ASSUME AppleInv, GetFeedback
    PROVE  AppleInv'
<1>t. AppleTypeOK /\ EditsShaped
  BY DEF AppleInv
<1>1. CASE UNCHANGED <<apns, ghosts, told>>
  <2>1. UNCHANGED <<apns, ghosts, told, apnsCount, edit, overlapped>>
    BY <1>1 DEF GetFeedback
  <2>2. QED
    BY <2>1 DEF AppleInv, AppleTypeOK, EditsShaped, EditsSound, CountSound, Haunted, Active
<1>2. CASE /\ apns' = [d \in Devices |-> IF d \in told /\ apns[d] = "active" THEN "inactive" ELSE apns[d]]
           /\ ghosts' = ghosts + Cardinality(told \cap Active)
           /\ told' = {}
  <2>0. UNCHANGED <<apnsCount, edit, overlapped>>
    BY DEF GetFeedback
  <2>1. IsFiniteSet(told \cap Active) /\ Cardinality(told \cap Active) \in Nat
    BY DevicesFinite, FS_Intersection, FS_CardinalityType
  <2>2. AppleTypeOK' /\ EditsShaped'
    BY <1>t, <1>2, <2>0, <2>1 DEF AppleTypeOK, EditsShaped, DeviceStates
  <2>3. ASSUME overlapped = "no" PROVE EditsSound' /\ CountSound'
    <3>0. EditsSound /\ CountSound
      BY <2>3 DEF AppleInv
    <3>1. EditsSound'
      BY <1>2, <2>0, <3>0 DEF EditsSound
    <3>2. Active' = Active \ told
      BY <1>2 DEF Active
    <3>3. Cardinality(Active \ told) = Cardinality(Active) - Cardinality(Active \cap told)
      BY DevicesFinite, FS_Difference
    <3>4. Active \cap told = told \cap Active
      OBVIOUS
    <3>5. Haunted' \subseteq Haunted \cup (told \cap Active)
      BY <1>2, <2>0 DEF Haunted, Active
    <3>6. IsFiniteSet(Haunted \cup (told \cap Active)) /\
          Cardinality(Haunted \cup (told \cap Active)) <= Cardinality(Haunted) + Cardinality(told \cap Active)
      <4>1. /\ IsFiniteSet(Haunted \cup (told \cap Active))
            /\ Cardinality(Haunted \cup (told \cap Active)) =
                 Cardinality(Haunted) + Cardinality(told \cap Active) - Cardinality(Haunted \cap (told \cap Active))
        BY <2>1, DevicesFinite, FS_Union
      <4>2. Cardinality(Haunted \cap (told \cap Active)) \in Nat
        BY <2>1, DevicesFinite, FS_Intersection, FS_CardinalityType
      <4>3. QED
        BY <2>1, <4>1, <4>2, DevicesFinite
    <3>7. Cardinality(Haunted') <= Cardinality(Haunted \cup (told \cap Active)) /\ Cardinality(Haunted') \in Nat
          /\ Cardinality(Haunted \cup (told \cap Active)) \in Nat
      BY <3>5, <3>6, FS_Subset, FS_CardinalityType
    <3>8. apnsCount \in Int /\ ghosts \in Int /\ Cardinality(Active) \in Nat /\ Cardinality(Haunted) \in Nat
      BY <1>t, DevicesFinite DEF AppleTypeOK
    <3>9. apnsCount' = Cardinality(Active') + ghosts'
      <4>1. Cardinality(Active') = Cardinality(Active) - Cardinality(told \cap Active)
        BY <3>2, <3>3, <3>4
      <4>2. apnsCount = Cardinality(Active) + ghosts
        BY <3>0 DEF CountSound
      <4>3. QED
        BY <1>2, <2>0, <2>1, <3>8, <4>1, <4>2
    <3>10. Cardinality(Haunted') <= ghosts'
      BY <1>2, <2>1, <3>0, <3>6, <3>7, <3>8 DEF CountSound
    <3>11. QED
      BY <3>1, <3>9, <3>10 DEF CountSound
  <2>4. QED
    BY <2>0, <2>2, <2>3 DEF AppleInv
<1>3. QED
  BY <1>1, <1>2 DEF GetFeedback

\* What a message is before it is sent, and what it reports afterwards.
GoogleTypeOK ==
    /\ gcm \in [Tokens -> DeviceStates]
    /\ message \in [status : {"none", "scheduled", "lost", "error", "delivered", "partially_delivered"},
                    targets : SUBSET Tokens, accepted : SUBSET Tokens, foreign : SUBSET Tokens,
                    clash : {"yes", "no"}]

GoogleInv ==
    /\ GoogleTypeOK /\ ReportIsTrue
    /\ message.status \in {"none", "scheduled"} => message.accepted = {} /\ message.clash = "no"

\* What SentStatus makes of a rejection of some of the targets.
LEMMA KnownWithin ==
    ASSUME NEW targets \in SUBSET Tokens, NEW rejected \in SUBSET targets
    PROVE  /\ SentStatus(targets, rejected) \in {"error", "delivered", "partially_delivered"}
           /\ SentStatus(targets, rejected) = "delivered" => Known(rejected) = {}
           /\ SentStatus(targets, rejected) = "error" => rejected = targets
<1>1. Known(rejected) \subseteq rejected
  BY DEF Known
<1>2. IsFiniteSet(targets)
  BY PushAssumption, FS_Subset
<1>3. Cardinality(targets) = Cardinality(Known(rejected)) => targets = Known(rejected)
  <2>1. Known(rejected) \in SUBSET targets
    BY <1>1
  <2>2. QED
    BY <1>2, <2>1, FS_Subset
<1>4. SentStatus(targets, rejected) = "error" => Cardinality(Known(rejected)) = Cardinality(targets)
  BY DEF SentStatus
<1>5. /\ SentStatus(targets, rejected) \in {"error", "delivered", "partially_delivered"}
      /\ SentStatus(targets, rejected) = "delivered" => Known(rejected) = {}
  BY DEF SentStatus
<1>6. QED
  BY <1>1, <1>3, <1>4, <1>5

\* Google accepts some of the targets.
LEMMA SendMessageKeeps ==
    ASSUME GoogleInv, NEW rejected \in SUBSET Tokens, NEW old \in Tokens, NEW new \in Tokens,
           SendMessage(rejected, old, new)
    PROVE  GoogleInv'
<1> DEFINE marked == [t \in Tokens |-> IF t \in Known(rejected) THEN "inactive" ELSE gcm[t]]
           clash == old # new /\ gcm[old] # "none" /\ gcm[new] # "none"
           answered == IF clash THEN "error" ELSE SentStatus(message.targets, rejected)
<1>t. GoogleTypeOK
  BY DEF GoogleInv
<1>1. rejected \subseteq message.targets /\ old \in message.targets \ rejected /\ message.targets \subseteq Tokens
  BY <1>t DEF SendMessage, GoogleTypeOK
<1>2. /\ gcm' = IF clash \/ gcm[old] = "none" THEN marked
                ELSE [t \in Tokens |-> IF t = new THEN marked[old] ELSE IF t = old THEN "none" ELSE marked[t]]
      /\ message' = [message EXCEPT !.status = answered, !.accepted = message.targets \ rejected,
                                    !.foreign = rejected \ Known(rejected),
                                    !.clash = IF clash THEN "yes" ELSE "no"]
  BY DEF SendMessage
<1>3. gcm' \in [Tokens -> DeviceStates]
  <2>1. marked \in [Tokens -> DeviceStates]
    BY <1>t DEF GoogleTypeOK, DeviceStates
  <2> HIDE DEF marked, clash
  <2>2. QED
    BY <1>2, <2>1 DEF DeviceStates
<1>4. /\ SentStatus(message.targets, rejected) \in {"error", "delivered", "partially_delivered"}
      /\ SentStatus(message.targets, rejected) = "delivered" => Known(rejected) = {}
      /\ SentStatus(message.targets, rejected) # "error"
  BY <1>1, KnownWithin
<1>5. /\ answered \in {"error", "delivered", "partially_delivered"}
      /\ answered = "delivered" => Known(rejected) = {}
      /\ answered = "error" => clash
  BY <1>4
<1>6. Known(rejected) \subseteq rejected
  BY DEF Known
<1> HIDE DEF marked, clash, answered
<1>7. /\ message'.status = answered /\ message'.targets = message.targets
      /\ message'.accepted = message.targets \ rejected /\ message'.foreign = rejected \ Known(rejected)
      /\ message'.clash = IF clash THEN "yes" ELSE "no"
  BY <1>t, <1>2 DEF GoogleTypeOK
<1>8. GoogleTypeOK'
  BY <1>t, <1>1, <1>2, <1>3, <1>5 DEF GoogleTypeOK
<1>9. ReportIsTrue'
  BY <1>5, <1>7 DEF ReportIsTrue
<1>10. QED
  BY <1>5, <1>7, <1>8, <1>9 DEF GoogleInv

\* Google accepts none of them.
LEMMA FailMessageKeeps ==
    ASSUME GoogleInv, FailMessage
    PROVE  GoogleInv'
<1> DEFINE answered == SentStatus(message.targets, message.targets)
<1>t. GoogleTypeOK /\ message.accepted = {} /\ message.clash = "no" /\ message.targets \in SUBSET Tokens
  BY DEF GoogleInv, FailMessage, GoogleTypeOK
<1>1. /\ answered \in {"error", "delivered", "partially_delivered"}
      /\ answered = "delivered" => Known(message.targets) = {}
  BY <1>t, KnownWithin
<1> HIDE DEF answered
<1>2. CASE /\ gcm' = [t \in Tokens |-> IF t \in Known(message.targets) THEN "inactive" ELSE gcm[t]]
           /\ message' = [message EXCEPT !.status = answered,
                                         !.foreign = message.targets \ Known(message.targets)]
  <2>1. gcm' \in [Tokens -> DeviceStates]
    BY <1>t, <1>2 DEF GoogleTypeOK, DeviceStates
  <2>2. /\ message'.status = answered /\ message'.targets = message.targets /\ message'.accepted = {}
        /\ message'.foreign = message.targets \ Known(message.targets)
    BY <1>t, <1>2 DEF GoogleTypeOK
  <2>3. GoogleTypeOK'
    BY <1>t, <1>1, <1>2, <2>1 DEF GoogleTypeOK
  <2>4. QED
    BY <1>1, <2>2, <2>3 DEF GoogleInv, ReportIsTrue
<1>3. CASE UNCHANGED gcm /\ message' = [message EXCEPT !.status = "error"]
  <2>1. GoogleTypeOK' /\ message'.status = "error" /\ message'.accepted = {}
    BY <1>t, <1>3 DEF GoogleTypeOK
  <2>2. QED
    BY <2>1 DEF GoogleInv, ReportIsTrue
<1>4. QED
  BY <1>2, <1>3 DEF FailMessage, answered

\* Devices that services reject are noticed, and a message reports what became of
\* it.
THEOREM PushIsSoundHolds == PushSpec => []PushIsSound
<1>1. PushInit => AppleInv /\ GoogleInv
  <2> SUFFICES ASSUME PushInit PROVE AppleInv /\ GoogleInv
    OBVIOUS
  <2>1. Active = {} /\ Haunted = {}
    BY DEF PushInit, Active, Haunted, NoEdit
  <2>2. AppleTypeOK /\ EditsShaped /\ EditsSound
    BY DEF PushInit, AppleTypeOK, EditsShaped, EditsSound, EditRows, NoEdit, DeviceStates
  <2>3. CountSound
    BY <2>1, FS_EmptySet DEF PushInit, CountSound
  <2>4. GoogleInv
    BY DEF PushInit, GoogleInv, GoogleTypeOK, ReportIsTrue, NoMessage, DeviceStates
  <2>5. QED
    BY <2>2, <2>3, <2>4 DEF AppleInv
<1>2. ASSUME AppleInv, GoogleInv, [PushNext]_pushVars PROVE AppleInv' /\ GoogleInv'
  <2>1. ASSUME UNCHANGED <<apns, apnsCount, edit, ghosts, overlapped>>, told' \subseteq Devices PROVE AppleInv'
    BY <1>2, <2>1 DEF AppleInv, AppleTypeOK, EditsShaped, EditsSound, CountSound, Haunted, Active
  <2>2. ASSUME UNCHANGED message, gcm' \in [Tokens -> DeviceStates] PROVE GoogleInv'
    BY <1>2, <2>2 DEF GoogleInv, GoogleTypeOK, ReportIsTrue
  <2>t. told \subseteq Devices /\ gcm \in [Tokens -> DeviceStates]
    BY <1>2 DEF AppleInv, GoogleInv, AppleTypeOK, GoogleTypeOK
  <2>3. CASE AppleNext
    <3>1. UNCHANGED <<gcm, message>>
      BY <2>3 DEF AppleNext, ReadDevice, SaveDevice, Uninstall, DispatchFeedback, GetFeedback
    <3>2. GoogleInv'
      BY <2>2, <2>t, <3>1
    <3>3. ASSUME NEW d \in Devices, Uninstall(d) PROVE AppleInv'
      BY <2>1, <2>t, <3>3 DEF Uninstall
    <3>4. CASE DispatchFeedback
      <4>1. UNCHANGED <<apns, apnsCount, edit, ghosts, overlapped, told>>
        BY <3>4 DEF DispatchFeedback
      <4>2. QED
        BY <2>1, <2>t, <3>2, <4>1
    <3>5. QED
      BY <1>2, <2>3, <3>2, <3>3, <3>4, ReadDeviceKeeps, SaveDeviceKeeps, GetFeedbackKeeps DEF AppleNext
  <2>4. CASE GoogleNext
    <3>1. UNCHANGED <<apns, apnsCount, edit, ghosts, overlapped, told>>
      BY <2>4 DEF GoogleNext, SaveGCMDevice, CreateMessage, LoseMessage, SendMessage, FailMessage
    <3>2. AppleInv'
      BY <2>1, <2>t, <3>1
    <3>3. ASSUME NEW t \in Tokens, NEW state \in DeviceStates, SaveGCMDevice(t, state) PROVE GoogleInv'
      BY <2>2, <2>t, <3>3 DEF SaveGCMDevice
    <3>4. ASSUME NEW targets \in SUBSET Tokens, CreateMessage(targets) PROVE GoogleInv'
      <4>1. message' = [NoMessage EXCEPT !.status = "scheduled", !.targets = targets] /\ gcm' = gcm
        BY <3>4 DEF CreateMessage
      <4>2. QED
        BY <1>2, <4>1 DEF GoogleInv, GoogleTypeOK, ReportIsTrue, NoMessage
    <3>5. CASE LoseMessage
      <4>1. message' = [message EXCEPT !.status = "lost"] /\ gcm' = gcm
        BY <3>5 DEF LoseMessage
      <4>2. message'.status = "lost" /\ GoogleTypeOK'
        BY <1>2, <4>1 DEF GoogleInv, GoogleTypeOK
      <4>3. QED
        BY <3>2, <4>2 DEF GoogleInv, ReportIsTrue
    <3>6. QED
      BY <1>2, <2>4, <3>2, <3>3, <3>4, <3>5, SendMessageKeeps, FailMessageKeeps DEF GoogleNext
  <2>5. CASE UNCHANGED pushVars
    BY <2>1, <2>2, <2>t, <2>5 DEF pushVars
  <2>6. QED
    BY <1>2, <2>3, <2>4, <2>5 DEF PushNext
<1>3. AppleInv /\ GoogleInv => PushIsSound
  BY DevicesFinite DEF AppleInv, AppleTypeOK, GoogleInv, CountSound, PushIsSound, PolledWhileActive
<1>4. QED
  BY <1>1, <1>2, <1>3, PTL DEF PushSpec

-----------------------------------------------------------------------------
(* SocketInstall: the entries of files against what was installed last.    *)

Sums == Contents \cup {Absent}
Entries == [sum : Sums, stored : Sums, helper : {"yes", "no"}]

InstallTypeOK ==
    /\ files \in [Paths -> Entries]
    /\ scripts \subseteq Paths
    /\ endpoint \in Targets /\ handler \in Targets /\ trigger \in Targets

\* A file that was not emptied has the content of its checksum, which was installed last.
FilesSound ==
    \A p \in Filed \ emptied : files[p].stored = files[p].sum /\ files[p].sum = latest[p]

\* The scripts that are called have a row, and a file unless it was emptied or misfiled.
CallsSound ==
    \A p \in {endpoint, handler} \ {NoPath} :
        p \in scripts /\ (p \notin emptied \cup misfiled => p \in Filed)

ScriptsSound == \A p \in scripts : files[p].helper = "yes" => p \in misfiled

TriggerSound == handler # NoPath /\ moved = "no" => trigger = handler

InstallInv == InstallTypeOK /\ FilesSound /\ CallsSound /\ ScriptsSound /\ TriggerSound

\* Nothing is installed in the initial state.
LEMMA InstallStart == InstallInit => InstallInv
BY DEF InstallInit, InstallInv, InstallTypeOK, FilesSound, CallsSound, ScriptsSound, TriggerSound, Filed,
   NoFile, Entries, Sums, Targets

\* What add_file leaves of an entry.
LEMMA AddedFile ==
  ASSUME NEW f \in Entries, NEW sum \in Sums, NEW helper \in {"yes", "no"}
  PROVE  /\ Added(f, sum, helper) \in Entries
         /\ f.sum = sum => Added(f, sum, helper) = f
         /\ f.sum # sum /\ sum = Empty => Added(f, sum, helper).sum = f.sum
         /\ f.sum # sum /\ sum # Empty => Added(f, sum, helper).sum = sum /\ Added(f, sum, helper).stored = sum
BY DEF Added, Entries, Sums

\* What an installation makes of one path: added from the zip, kept, or gone.
Follows(f, g, sum) ==
    \/ g.sum = Absent
    \/ sum = Absent /\ g.sum = f.sum /\ g.stored = f.stored
    \/ sum = Empty
    \/ sum = f.sum /\ g.sum = f.sum /\ g.stored = f.stored
    \/ sum \notin {Empty, f.sum} /\ g.sum = sum /\ g.stored = sum

\* If each path follows the zip, the files stay sound.
LEMMA FilesFollow ==
  ASSUME InstallInv, NEW zip \in Zips, NEW used,
         \A p \in Paths : Follows(files[p], files'[p], zip[p]),
         Noted(zip, used)
  PROVE  FilesSound'
<1> SUFFICES ASSUME NEW p \in Paths, files'[p].sum # Absent, p \notin emptied'
             PROVE  files'[p].stored = files'[p].sum /\ files'[p].sum = latest'[p]
  BY DEF FilesSound, Filed
<1>1. latest'[p] = IF zip[p] # Absent THEN zip[p] ELSE files[p].sum
  BY DEF Noted, SumOf
<1>2. zip[p] # Empty
  BY DEF Noted
<1>3. p \in emptied => zip[p] # Absent /\ zip[p] # files[p].sum
  BY <1>2 DEF Noted, In
<1>4. p \notin emptied /\ files[p].sum # Absent => files[p].stored = files[p].sum
  BY DEF InstallInv, FilesSound, Filed
<1>5. Follows(files[p], files'[p], zip[p])
  OBVIOUS
<1>6. CASE zip[p] = Absent
  BY <1>1, <1>2, <1>3, <1>4, <1>5, <1>6, SocketInstallAssumption DEF Follows
<1>7. CASE zip[p] # Absent /\ zip[p] = files[p].sum
  BY <1>1, <1>2, <1>3, <1>4, <1>5, <1>7 DEF Follows
<1>8. CASE zip[p] # Absent /\ zip[p] # files[p].sum
  BY <1>1, <1>2, <1>5, <1>8 DEF Follows
<1> QED
  BY <1>6, <1>7, <1>8

\* An installation with a specification.
LEMMA FullStep ==
  ASSUME InstallInv, NEW zip \in Zips, NEW e \in Targets, NEW h \in Targets, InstallFull(zip, e, h)
  PROVE  InstallInv'
<1> PICK used : used = EndpointPaths(e) \cup HandlerPaths(h)
  OBVIOUS
<1> PICK added : added = Processed(zip, used)
  OBVIOUS
<1>1. /\ used \subseteq In(zip) \cup Filed
      /\ FilesSaved(FALSE, used \cup In(zip), added)
      /\ scripts' = used /\ endpoint' = e /\ handler' = h
      /\ trigger' = Cascaded(TriggerInstalled(h), used)
      /\ moved' = IF h # NoPath /\ trigger \notin {NoPath, h} THEN "yes" ELSE "no"
      /\ Noted(zip, used)
  BY DEF InstallFull, EndpointInstalled, HandlerInstalled
<1>2. used \subseteq Paths /\ (e # NoPath => e \in used) /\ (h # NoPath => h \in used)
  BY DEF EndpointPaths, HandlerPaths, Targets
<1>3. \A p \in Paths : files[p] \in Entries /\ zip[p] \in Sums
  BY DEF InstallInv, InstallTypeOK, Zips, Sums
<1>4. PICK gone : /\ gone \cap (used \cup In(zip)) = {}
                  /\ files' = [p \in Paths |-> IF p \in gone THEN NoFile
                                               ELSE IF p \in used \cup In(zip) THEN added[p] ELSE files[p]]
  BY <1>1 DEF FilesSaved, Unwanted
<1>5. ASSUME NEW p \in used \cup In(zip)
      PROVE  /\ added[p] \in Entries /\ Follows(files[p], added[p], zip[p])
             /\ zip[p] # Empty => added[p].sum # Absent
  <2>1. p \in Paths /\ files[p] \in Entries /\ zip[p] \in Sums
    BY <1>2, <1>3 DEF In
  <2>2. CASE p \in HelperPaths(zip, used)
    <3>1. added[p] = Added(files[p], zip[p], "yes") /\ zip[p] # Absent
      BY <2>2 DEF Processed, HelperFiled, HelperPaths, In
    <3> QED
      BY <2>1, <3>1, AddedFile DEF Follows
  <2>3. CASE p \notin HelperPaths(zip, used) /\ zip[p] # Absent
    <3>1. added[p] = Added(files[p], zip[p], "no")
      BY <2>3 DEF Processed, AsScript, SumOf
    <3> QED
      BY <2>1, <2>3, <3>1, AddedFile DEF Follows
  <2>4. CASE p \notin HelperPaths(zip, used) /\ zip[p] = Absent
    <3>1. added[p] = Added([files[p] EXCEPT !.helper = "no"], files[p].sum, "no")
      BY <2>4 DEF Processed, AsScript, SumOf
    <3>2. PICK f : f = [files[p] EXCEPT !.helper = "no"]
      OBVIOUS
    <3>3. f \in Entries /\ f.sum = files[p].sum /\ f.stored = files[p].stored
      BY <2>1, <3>2 DEF Entries
    <3>4. added[p] = f
      BY <3>1, <3>2, <3>3 DEF Added
    <3>5. files[p].sum # Absent
      BY <1>1, <2>4 DEF In, Filed
    <3> QED
      BY <2>4, <3>3, <3>4, <3>5 DEF Follows
  <2> QED
    BY <2>2, <2>3, <2>4
<1>6. NoFile \in Entries /\ NoFile.sum = Absent
  BY DEF NoFile, Entries, Sums
<1>7. /\ files' \in [Paths -> Entries]
      /\ \A p \in Paths : Follows(files[p], files'[p], zip[p])
  <2>1. ASSUME NEW p \in Paths
        PROVE  files'[p] \in Entries /\ Follows(files[p], files'[p], zip[p])
    <3>1. CASE p \in gone
      BY <1>4, <1>6, <3>1 DEF Follows
    <3>2. CASE p \notin gone /\ p \in used \cup In(zip)
      BY <1>4, <1>5, <3>2
    <3>3. CASE p \notin gone /\ p \notin used \cup In(zip)
      BY <1>3, <1>4, <3>3 DEF Follows, In
    <3> QED
      BY <3>1, <3>2, <3>3
  <2>2. files' = [p \in Paths |-> files'[p]]
    BY <1>4
  <2> QED
    BY <2>1, <2>2
<1>8. trigger' \in Targets /\ TriggerSound'
  BY <1>1, <1>2 DEF InstallInv, InstallTypeOK, TriggerInstalled, Cascaded, Targets, TriggerSound
<1>9. InstallTypeOK'
  BY <1>1, <1>2, <1>7, <1>8 DEF InstallTypeOK
<1>10. FilesSound'
  BY <1>1, <1>7, FilesFollow
<1>11. CallsSound'
  <2>1. ASSUME NEW p \in used, p \notin emptied'
        PROVE  p \in Filed'
    <3>1. zip[p] # Empty
      BY <1>1, <1>2, <2>1 DEF Noted
    <3>2. files'[p].sum # Absent
      BY <1>2, <1>4, <1>5, <3>1
    <3> QED
      BY <1>2, <3>2 DEF Filed
  <2> QED
    BY <1>1, <1>2, <2>1 DEF CallsSound
<1>12. ScriptsSound'
  BY <1>1 DEF Noted, ScriptsSound
<1> QED
  BY <1>8, <1>9, <1>10, <1>11, <1>12 DEF InstallInv

\* A partial installation leaves scripts and deletes unwanted helpers only.
LEMMA PartialStep ==
  ASSUME InstallInv, NEW zip \in Zips, InstallPartial(zip)
  PROVE  InstallInv'
<1> PICK code : code = {p \in In(zip) \cap Filed : files[p].helper = "no"}
  OBVIOUS
<1> PICK added : added = [p \in In(zip) |-> Added(files[p], zip[p], IF p \in code THEN "no" ELSE "yes")]
  OBVIOUS
<1>1. /\ FilesSaved(TRUE, In(zip), added) /\ scripts' = scripts \cup code
      /\ UNCHANGED <<endpoint, handler, trigger, moved>> /\ Noted(zip, {})
  BY DEF InstallPartial
<1>2. \A p \in Paths : files[p] \in Entries /\ zip[p] \in Sums
  BY DEF InstallInv, InstallTypeOK, Zips, Sums
<1>3. PICK gone : /\ \A p \in gone : p \notin In(zip) /\ files[p].helper = "yes"
                  /\ files' = [p \in Paths |-> IF p \in gone THEN NoFile
                                               ELSE IF p \in In(zip) THEN added[p] ELSE files[p]]
  BY <1>1 DEF FilesSaved, Unwanted
<1>4. ASSUME NEW p \in In(zip)
      PROVE  /\ added[p] \in Entries /\ Follows(files[p], added[p], zip[p])
             /\ zip[p] # Empty => added[p].sum # Absent
  <2>1. p \in Paths /\ files[p] \in Entries /\ zip[p] \in Sums /\ zip[p] # Absent
    BY <1>2 DEF In
  <2>2. PICK helper \in {"yes", "no"} : helper = IF p \in code THEN "no" ELSE "yes"
    OBVIOUS
  <2>3. added[p] = Added(files[p], zip[p], helper)
    BY <2>2
  <2> QED
    BY <2>1, <2>3, AddedFile DEF Follows
<1>5. NoFile \in Entries /\ NoFile.sum = Absent
  BY DEF NoFile, Entries, Sums
<1>6. /\ files' \in [Paths -> Entries]
      /\ \A p \in Paths : Follows(files[p], files'[p], zip[p])
  <2>1. ASSUME NEW p \in Paths
        PROVE  files'[p] \in Entries /\ Follows(files[p], files'[p], zip[p])
    <3>1. CASE p \in gone
      BY <1>3, <1>5, <3>1 DEF Follows
    <3>2. CASE p \notin gone /\ p \in In(zip)
      BY <1>3, <1>4, <3>2
    <3>3. CASE p \notin gone /\ p \notin In(zip)
      BY <1>2, <1>3, <3>3 DEF Follows, In
    <3> QED
      BY <3>1, <3>2, <3>3
  <2>2. files' = [p \in Paths |-> files'[p]]
    BY <1>3
  <2> QED
    BY <2>1, <2>2
<1>7. code \subseteq Paths
  BY DEF In
<1>8. InstallTypeOK'
  BY <1>1, <1>6, <1>7 DEF InstallInv, InstallTypeOK
<1>9. FilesSound'
  BY <1>1, <1>6, FilesFollow
<1>10. CallsSound'
  <2> SUFFICES ASSUME NEW p \in {endpoint, handler} \ {NoPath}
               PROVE  p \in scripts' /\ (p \notin emptied' \cup misfiled' => p \in Filed')
    BY <1>1 DEF CallsSound
  <2>1. p \in scripts /\ (p \notin emptied \cup misfiled => p \in Filed) /\ p \in Paths
    BY DEF InstallInv, CallsSound, InstallTypeOK
  <2>2. ASSUME p \notin emptied' \cup misfiled'
        PROVE  p \in Filed'
    <3>1. p \notin misfiled /\ zip[p] # Empty /\ (p \in emptied => p \in In(zip))
      BY <1>1, <2>1, <2>2 DEF Noted
    <3>2. files[p].helper # "yes"
      BY <2>1, <3>1 DEF InstallInv, ScriptsSound
    <3>3. CASE p \in In(zip)
      BY <1>3, <1>4, <2>1, <3>1, <3>3 DEF Filed
    <3>4. CASE p \notin In(zip)
      BY <1>3, <2>1, <3>1, <3>2, <3>4 DEF Filed
    <3> QED
      BY <3>3, <3>4
  <2> QED
    BY <1>1, <2>1, <2>2
<1>11. ScriptsSound' /\ TriggerSound'
  BY <1>1 DEF Noted, ScriptsSound, InstallInv, TriggerSound
<1> QED
  BY <1>8, <1>9, <1>10, <1>11 DEF InstallInv

\* For any paths, contents and order of installations: every script that is called has its row
\* and its file with what was installed last, and the trigger runs the script of the handler,
\* with the exceptions InstalledIsThere names (add_file, cleanup, update_trigger).
THEOREM InstalledIsThereHolds == InstallInit /\ [][InstallNext]_installVars => []InstalledIsThere
<1>1. InstallInit => InstallInv
  BY InstallStart
<1>2. ASSUME InstallInv, [InstallNext]_installVars
      PROVE  InstallInv'
  <2>1. CASE UNCHANGED installVars
    BY <1>2, <2>1 DEF installVars, InstallInv, InstallTypeOK, FilesSound, CallsSound, ScriptsSound, TriggerSound,
       Filed
  <2>2. CASE InstallNext
    BY <1>2, <2>2, FullStep, PartialStep DEF InstallNext
  <2> QED
    BY <1>2, <2>1, <2>2
<1>3. InstallInv => InstalledIsThere
  BY DEF InstallInv, FilesSound, CallsSound, TriggerSound, InstalledIsThere
<1> QED
  BY <1>1, <1>2, <1>3, PTL

-----------------------------------------------------------------------------
(* Hosting: what each writer has read or saved against what is committed,  *)
(* listed, checked and certified.                                          *)

AnyDomain == Domains \cup {NoDomain}
SslStates == {"off", "on", "checking", "invalid", "other"}
SiteRows == [state : {"none", "live", "deleted"}, domain : AnyDomain, default : {"yes", "no"}, ssl : SslStates]
WriteOps == {"none", "create", "update", "delete", "remove", "set_default", "enable_ssl"}
WriteRows == [at : {"idle", "read", "saved"}, op : WriteOps, site : SUBSET Sites, row : SiteRows]

HostingTypeOK ==
    /\ site \in [Sites -> SiteRows]
    /\ write \in [Writers -> WriteRows]
    /\ crossed \in {"yes", "no"}
    /\ \A w \in Writers : Busy(w) => write[w].op # "none" /\ \E h \in Sites : write[w].site = {h}

OneWriter == \A v, w \in Writers : Busy(v) /\ Busy(w) => v = w
OneDefault == \A g, h \in Defaults : g = h
DomainsApart == \A g, h \in Live : site[g].domain = site[h].domain => g = h \/ site[g].domain = NoDomain
ListedSites == \A d \in Domains \ orphaned : d \in listed <=> \E h \in Live : site[h].domain = d
NoneSaved == \A w \in Writers : write[w].at # "saved"

FreshSound(h) == site[h].state = "none" => site[h] = NoSite /\ \A d \in AnyDomain : <<h, d>> \notin checks

\* A check is about the domain the hosting still has, and SSL that is on is certified.
SslSound(h) ==
    h \in Live /\ h \notin upset =>
        /\ \A d \in AnyDomain : <<h, d>> \in checks => site[h].domain = d /\ site[h].ssl = "checking"
        /\ site[h].ssl = "on" => site[h].domain \in certs

\* What a writer has read is what is committed.
ReadSound(w, h) ==
    /\ write[w].row.state = site[h].state /\ write[w].row.domain = site[h].domain
    /\ write[w].row.default = site[h].default
    /\ IF write[w].op = "create" THEN site[h].state = "none" /\ write[w].row.ssl = "off"
       ELSE /\ h \in Live
            /\ write[w].op \notin {"delete", "remove"} /\ h \notin upset =>
                    write[w].row.ssl = site[h].ssl /\ site[h].ssl # "checking"

\* What it has saved fits what is committed, and the instance lists the domains as they will be.
SavedSound(w, h) ==
    /\ IF write[w].op = "create" THEN site[h].state = "none" ELSE h \in Live
    /\ write[w].row.state \in {"live", "deleted"}
    /\ write[w].row.state = "live" => DomainFree({h}, write[w].row.domain)
    /\ write[w].row.state = "live" /\ write[w].row.default = "yes" =>
            write[w].op = "set_default" \/ h \in Defaults \/ Live = {}
    /\ \A d \in Domains \ orphaned :
            \/ write[w].op = "remove" /\ d = write[w].row.domain
            \/ d \in listed <=> \/ write[w].row.state = "live" /\ d = write[w].row.domain
                                \/ \E g \in Live \ {h} : site[g].domain = d

SavedCertified(w, h) ==
    write[w].row.state = "live" /\ h \notin upset =>
        /\ \A d \in AnyDomain : <<h, d>> \notin checks
        /\ write[w].row.ssl = "on" => write[w].row.domain \in certs

WriterSound(w) ==
    \A h \in write[w].site :
        /\ write[w].at = "read" => ReadSound(w, h)
        /\ write[w].at = "saved" => SavedSound(w, h) /\ SavedCertified(w, h)

HostingSound ==
    /\ OneWriter /\ OneDefault /\ DomainsApart
    /\ NoneSaved => ListedSites
    /\ \A h \in Sites : FreshSound(h) /\ SslSound(h)
    /\ \A w \in Writers : WriterSound(w)

HostingInv == HostingTypeOK /\ (crossed = "no" => HostingSound)

\* A hosting that was never made.
LEMMA FreshSite == NoSite \in SiteRows /\ NoWrite \in WriteRows
BY DEF NoSite, NoWrite, SiteRows, WriteRows, AnyDomain, SslStates, WriteOps

\* There are no hostings in the initial state.
LEMMA HostingStart == HostingInit => HostingInv
<1> SUFFICES ASSUME HostingInit PROVE HostingInv
  OBVIOUS
<1>1. /\ site = [h \in Sites |-> NoSite] /\ write = [w \in Writers |-> NoWrite]
      /\ listed = {} /\ checks = {} /\ crossed = "no"
  BY DEF HostingInit
<1>2. Live = {} /\ \A w \in Writers : ~Busy(w) /\ write[w].at = "idle"
  BY <1>1 DEF Live, NoSite, Busy, NoWrite
<1>3. HostingTypeOK
  BY <1>1, <1>2, FreshSite DEF HostingTypeOK
<1>4. OneWriter /\ OneDefault /\ DomainsApart /\ ListedSites
  BY <1>1, <1>2 DEF OneWriter, OneDefault, DomainsApart, ListedSites, Defaults
<1>5. \A h \in Sites : FreshSound(h) /\ SslSound(h)
  BY <1>1, <1>2 DEF FreshSound, SslSound
<1>6. \A w \in Writers : WriterSound(w)
  BY <1>2 DEF WriterSound
<1> QED
  BY <1>3, <1>4, <1>5, <1>6 DEF HostingInv, HostingSound

\* A writer reads and validates a hosting.
LEMMA ReadSiteStep ==
  ASSUME HostingInv, NEW w \in Writers, NEW op \in WriteOps, op # "none", NEW h \in Sites, ReadSite(w, op, h)
  PROVE  HostingInv'
<1>1. /\ ~Busy(w)
      /\ write' = [write EXCEPT ![w] = [at |-> "read", op |-> op, site |-> {h}, row |-> site[h]]]
      /\ crossed' = IF \E v \in Writers \ {w} : Busy(v) THEN "yes" ELSE crossed
      /\ UNCHANGED <<site, listed, checks, certs, orphaned, upset>>
      /\ IF op = "create" THEN site[h].state = "none" ELSE h \in Live
      /\ op \in {"update", "set_default", "enable_ssl"} => site[h].ssl # "checking"
  BY DEF ReadSite
<1>2. site[h] \in SiteRows /\ write \in [Writers -> WriteRows]
  BY DEF HostingInv, HostingTypeOK
<1>3. /\ write'[w].at = "read" /\ write'[w].op = op /\ write'[w].site = {h} /\ write'[w].row = site[h]
      /\ \A v \in Writers : v # w => write'[v] = write[v]
      /\ write' \in [Writers -> WriteRows]
  BY <1>1, <1>2 DEF WriteRows
<1>4. HostingTypeOK'
  BY <1>1, <1>3 DEF HostingInv, HostingTypeOK, Busy
<1>5. ASSUME crossed' = "no"
      PROVE  HostingSound'
  <2>1. crossed = "no" /\ \A v \in Writers : ~Busy(v)
    BY <1>1, <1>5
  <2>2. HostingSound
    BY <2>1 DEF HostingInv
  <2>3. OneWriter'
    BY <1>3, <2>1 DEF OneWriter, Busy
  <2>4. OneDefault' /\ DomainsApart' /\ \A g \in Sites : FreshSound(g)' /\ SslSound(g)'
    BY <1>1, <2>2 DEF HostingSound, OneDefault, DomainsApart, Defaults, Live, FreshSound, SslSound
  <2>5. ListedSites'
    <3>1. NoneSaved
      BY <2>1 DEF NoneSaved, Busy
    <3> QED
      BY <1>1, <2>2, <3>1 DEF HostingSound, ListedSites, Live
  <2>6. WriterSound(w)'
    <3>1. op = "create" => site[h].ssl = "off"
      BY <1>1, <2>2 DEF HostingSound, FreshSound, NoSite
    <3>2. op \notin {"create", "delete", "remove"} => site[h].ssl # "checking"
      BY <1>1 DEF WriteOps
    <3> QED
      BY <1>1, <1>3, <3>1, <3>2 DEF WriterSound, ReadSound, Live
  <2>7. ASSUME NEW v \in Writers, v # w
        PROVE  WriterSound(v)'
    BY <1>3, <2>1, <2>7 DEF WriterSound, Busy
  <2> QED
    BY <2>3, <2>4, <2>5, <2>6, <2>7 DEF HostingSound
<1> QED
  BY <1>4, <1>5 DEF HostingInv

\* The hosting of a writer, which is alone unless writers have crossed.
LEMMA WriterAlone ==
  ASSUME HostingInv, NEW w \in Writers, Busy(w)
  PROVE  \E h \in Sites :
            /\ write[w].site = {h} /\ write[w].row \in SiteRows /\ site[h] \in SiteRows
            /\ write[w].op \in WriteOps \ {"none"}
            /\ crossed = "no" => /\ \A v \in Writers : v # w => write[v].at = "idle"
                                 /\ WriterSound(w) /\ FreshSound(h) /\ SslSound(h)
<1>1. PICK h \in Sites : write[w].site = {h}
  BY DEF HostingInv, HostingTypeOK
<1>2. write[w] \in WriteRows /\ site[h] \in SiteRows /\ write[w].op # "none"
  BY DEF HostingInv, HostingTypeOK
<1>3. ASSUME crossed = "no"
      PROVE  /\ \A v \in Writers : v # w => write[v].at = "idle"
             /\ WriterSound(w) /\ FreshSound(h) /\ SslSound(h)
  BY <1>3 DEF HostingInv, HostingSound, OneWriter, Busy
<1> QED
  BY <1>1, <1>2, <1>3 DEF WriteRows

\* The list after the domain of one hosting has changed.
LEMMA RelistedSites ==
  ASSUME ListedSites, DomainsApart, NEW old \in AnyDomain, NEW new \in AnyDomain, NEW h \in Sites,
         IF h \in Live THEN site[h].domain = old ELSE old = NoDomain
  PROVE  \A d \in Domains \ orphaned :
            d \in Relisted(old, new) <=> d = new \/ \E g \in Live \ {h} : site[g].domain = d
<1> SUFFICES ASSUME NEW d \in Domains \ orphaned
             PROVE  d \in Relisted(old, new) <=> d = new \/ \E g \in Live \ {h} : site[g].domain = d
  OBVIOUS
<1>1. d # NoDomain /\ (d \in listed <=> \E g \in Live : site[g].domain = d)
  BY HostingAssumption DEF ListedSites
<1>2. d = old => h \in Live /\ ~\E g \in Live \ {h} : site[g].domain = d
  BY <1>1 DEF DomainsApart
<1>3. d # old => ((\E g \in Live : site[g].domain = d) <=> \E g \in Live \ {h} : site[g].domain = d)
  OBVIOUS
<1>4. CASE old = new
  BY <1>1, <1>2, <1>3, <1>4 DEF Relisted
<1>5. CASE old # new
  BY <1>1, <1>2, <1>3, <1>5 DEF Relisted
<1> QED
  BY <1>4, <1>5

\* What a save makes of the row it read, by operation.
SavedRow(w, row, new, domains) ==
    \/ /\ write[w].op \in {"create", "update"}
       /\ new.state = "live" /\ DomainFree(write[w].site, new.domain)
       /\ domains = Relisted(row.domain, new.domain)
       /\ new.default = IF Live = {} THEN "yes" ELSE row.default
       /\ (new.ssl = row.ssl /\ new.domain = row.domain) \/ new.ssl \in {"off", "checking"}
    \/ /\ write[w].op = "set_default"
       /\ new.state = row.state /\ new.domain = row.domain /\ new.ssl = row.ssl /\ domains = listed
    \/ /\ write[w].op = "enable_ssl"
       /\ new.state = row.state /\ new.domain = row.domain /\ new.ssl = "checking" /\ new.default = row.default
       /\ domains = listed
    \/ /\ write[w].op = "delete"
       /\ new.state = "deleted" /\ domains = Relisted(row.domain, NoDomain)
    \/ /\ write[w].op = "remove"
       /\ new.state = "deleted" /\ new.domain = row.domain /\ domains = listed

\* A save is one of these.
LEMMA SaveMade ==
  ASSUME NEW w \in Writers, SaveSite(w), write[w].row \in SiteRows
  PROVE  \E new \in SiteRows :
            /\ write' = [write EXCEPT ![w].at = "saved", ![w].row = new]
            /\ SavedRow(w, write[w].row, new, listed')
<1> PICK row : row = write[w].row
  OBVIOUS
<1>1. CASE /\ write[w].op \in {"create", "update"}
           /\ \E d \in Domains \cup {NoDomain}, changed \in BOOLEAN :
                /\ DomainFree(write[w].site, d)
                /\ d # row.domain => changed
                /\ write' = [write EXCEPT ![w].at = "saved", ![w].row = Resaved(row, d, changed)]
                /\ listed' = Relisted(row.domain, d)
  <2>1. PICK d \in Domains \cup {NoDomain}, changed \in BOOLEAN :
                /\ DomainFree(write[w].site, d)
                /\ d # row.domain => changed
                /\ write' = [write EXCEPT ![w].at = "saved", ![w].row = Resaved(row, d, changed)]
                /\ listed' = Relisted(row.domain, d)
    BY <1>1
  <2>2. PICK new : new = Resaved(row, d, changed)
    OBVIOUS
  <2>3. PICK ssl \in SslStates :
            /\ new = [row EXCEPT !.state = "live", !.domain = d,
                                 !.default = IF Live = {} THEN "yes" ELSE row.default, !.ssl = ssl]
            /\ (ssl = row.ssl /\ d = row.domain) \/ ssl \in {"off", "checking"}
    <3>1. CASE changed
      <4>1. new = [row EXCEPT !.state = "live", !.domain = d, !.default = IF Live = {} THEN "yes" ELSE row.default,
                              !.ssl = IF d = NoDomain THEN "off" ELSE "checking"]
        BY <2>2, <3>1 DEF Resaved
      <4> QED
        BY <4>1 DEF SslStates
    <3>2. CASE ~changed
      <4>1. new = [row EXCEPT !.state = "live", !.domain = d, !.default = IF Live = {} THEN "yes" ELSE row.default,
                              !.ssl = row.ssl]
        BY <2>2, <3>2 DEF Resaved
      <4> QED
        BY <2>1, <3>2, <4>1 DEF SiteRows
    <3> QED
      BY <3>1, <3>2
  <2>4. /\ new \in SiteRows /\ new.state = "live" /\ new.domain = d /\ new.ssl = ssl
        /\ new.default = IF Live = {} THEN "yes" ELSE row.default
    BY <2>3 DEF SiteRows, AnyDomain
  <2> QED
    BY <1>1, <2>1, <2>2, <2>3, <2>4 DEF SavedRow
<1>2. CASE /\ write[w].op = "set_default"
           /\ write' = [write EXCEPT ![w].at = "saved", ![w].row = [row EXCEPT !.default = "yes"]]
           /\ listed' = listed
  <2>1. PICK new \in SiteRows : new = [row EXCEPT !.default = "yes"]
    BY DEF SiteRows
  <2> QED
    BY <1>2, <2>1 DEF SavedRow, SiteRows
<1>3. CASE /\ write[w].op = "enable_ssl"
           /\ write' = [write EXCEPT ![w].at = "saved", ![w].row = [row EXCEPT !.ssl = "checking"]]
           /\ listed' = listed
  <2>1. PICK new \in SiteRows : new = [row EXCEPT !.ssl = "checking"]
    BY DEF SiteRows, SslStates
  <2> QED
    BY <1>3, <2>1 DEF SavedRow, SiteRows
<1>4. CASE /\ write[w].op \in {"delete", "remove"}
           /\ write' = [write EXCEPT ![w].at = "saved", ![w].row = [row EXCEPT !.state = "deleted"]]
           /\ listed' = IF write[w].op = "delete" THEN Relisted(row.domain, NoDomain) ELSE listed
  <2>1. PICK new \in SiteRows : new = [row EXCEPT !.state = "deleted"]
    BY DEF SiteRows
  <2> QED
    BY <1>4, <2>1 DEF SavedRow, SiteRows
<1> QED
  BY <1>1, <1>2, <1>3, <1>4 DEF SaveSite

\* A writer saves the row, and the list of domains, which is committed at once.
LEMMA SaveSiteStep ==
  ASSUME HostingInv, NEW w \in Writers, SaveSite(w)
  PROVE  HostingInv'
<1>1. /\ write[w].at = "read" /\ Busy(w)
      /\ UNCHANGED <<site, checks, certs, crossed, orphaned, upset>>
  BY DEF SaveSite, Busy
<1>2. PICK h \in Sites :
        /\ write[w].site = {h} /\ write[w].row \in SiteRows /\ site[h] \in SiteRows
        /\ write[w].op \in WriteOps \ {"none"}
        /\ crossed = "no" => /\ \A v \in Writers : v # w => write[v].at = "idle"
                             /\ WriterSound(w) /\ FreshSound(h) /\ SslSound(h)
  BY <1>1, WriterAlone
<1>3. PICK new \in SiteRows :
        /\ write' = [write EXCEPT ![w].at = "saved", ![w].row = new]
        /\ SavedRow(w, write[w].row, new, listed')
  BY <1>2, SaveMade
<1>4. write \in [Writers -> WriteRows]
  BY DEF HostingInv, HostingTypeOK
<1>5. /\ write'[w].at = "saved" /\ write'[w].row = new /\ write'[w].op = write[w].op /\ write'[w].site = {h}
      /\ \A v \in Writers : v # w => write'[v] = write[v]
      /\ write' \in [Writers -> WriteRows]
  BY <1>2, <1>3, <1>4 DEF WriteRows
<1>6. HostingTypeOK'
  BY <1>1, <1>2, <1>5 DEF HostingInv, HostingTypeOK, Busy
<1>7. ASSUME crossed = "no"
      PROVE  HostingSound'
  <2>1. HostingSound /\ ReadSound(w, h)
    BY <1>1, <1>2, <1>7 DEF HostingInv, WriterSound
  <2>2. /\ OneDefault' /\ DomainsApart' /\ \A g \in Sites : FreshSound(g)' /\ SslSound(g)'
    BY <1>1, <2>1 DEF HostingSound, OneDefault, DomainsApart, Defaults, Live, FreshSound, SslSound
  <2>3. OneWriter'
    BY <1>2, <1>5, <1>7 DEF OneWriter, Busy
  <2>4. ~NoneSaved'
    BY <1>5 DEF NoneSaved
  <2>5. ASSUME NEW v \in Writers, v # w
        PROVE  WriterSound(v)'
    BY <1>2, <1>5, <1>7, <2>5 DEF WriterSound
  <2>6. ListedSites
    BY <1>1, <1>2, <1>7, <2>1 DEF HostingSound, NoneSaved
  <2>7. /\ IF h \in Live THEN site[h].domain = write[w].row.domain ELSE write[w].row.domain = NoDomain
        /\ write[w].row.domain \in AnyDomain /\ new.domain \in AnyDomain /\ NoDomain \in AnyDomain
    BY <1>2, <1>7, <2>1 DEF ReadSound, FreshSound, NoSite, Live, SiteRows, AnyDomain
  <2>8. \A d \in Domains \ orphaned :
            \/ write[w].op = "remove" /\ d = new.domain
            \/ d \in listed' <=> \/ new.state = "live" /\ d = new.domain
                                 \/ \E g \in Live \ {h} : site[g].domain = d
    <3>1. CASE write[w].op \in {"create", "update"}
      <4>1. listed' = Relisted(write[w].row.domain, new.domain) /\ new.state = "live"
        BY <1>3, <3>1 DEF SavedRow
      <4> QED
        BY <2>1, <2>6, <2>7, <4>1, RelistedSites DEF HostingSound
    <3>2. CASE write[w].op \in {"set_default", "enable_ssl"}
      <4>1. listed' = listed /\ new.domain = site[h].domain /\ new.state = "live" /\ h \in Live
        BY <1>3, <2>1, <3>2 DEF SavedRow, ReadSound, Live
      <4> QED
        BY <2>6, <4>1 DEF ListedSites
    <3>3. CASE write[w].op = "delete"
      <4>1. listed' = Relisted(write[w].row.domain, NoDomain) /\ new.state # "live"
        BY <1>3, <3>3 DEF SavedRow
      <4>2. \A d \in Domains \ orphaned :
                d \in Relisted(write[w].row.domain, NoDomain) <=> d = NoDomain \/ \E g \in Live \ {h} : site[g].domain = d
        BY <2>1, <2>6, <2>7, RelistedSites DEF HostingSound
      <4> QED
        BY <4>1, <4>2, HostingAssumption
    <3>4. CASE write[w].op = "remove"
      <4>1. listed' = listed /\ new.domain = site[h].domain /\ new.state # "live" /\ h \in Live
        BY <1>3, <2>1, <3>4 DEF SavedRow, ReadSound
      <4> QED
        BY <2>6, <3>4, <4>1 DEF ListedSites
    <3> QED
      BY <1>2, <3>1, <3>2, <3>3, <3>4 DEF WriteOps
  <2>9. new.state = "live" => DomainFree({h}, new.domain)
    <3>1. CASE write[w].op \in {"create", "update"}
      BY <1>2, <1>3, <3>1 DEF SavedRow
    <3>2. CASE write[w].op \in {"set_default", "enable_ssl"}
      <4>1. new.domain = site[h].domain /\ h \in Live
        BY <1>3, <2>1, <3>2 DEF SavedRow, ReadSound
      <4> QED
        BY <2>1, <4>1 DEF DomainFree, HostingSound, DomainsApart
    <3>3. CASE write[w].op \in {"delete", "remove"}
      BY <1>3, <3>3 DEF SavedRow
    <3> QED
      BY <1>2, <3>1, <3>2, <3>3 DEF WriteOps
  <2>10. new.state = "live" /\ new.default = "yes" => write[w].op = "set_default" \/ h \in Defaults \/ Live = {}
    BY <1>2, <1>3, <1>7, <2>1 DEF SavedRow, ReadSound, FreshSound, NoSite, Defaults
  <2>11. new.state \in {"live", "deleted"} /\ (IF write[w].op = "create" THEN site[h].state = "none" ELSE h \in Live)
    BY <1>3, <2>1 DEF SavedRow, ReadSound, Live
  <2>12. SavedSound(w, h)'
    BY <1>1, <1>5, <2>8, <2>9, <2>10, <2>11 DEF SavedSound, DomainFree, Live, Defaults
  <2>13. ASSUME new.state = "live", h \notin upset
         PROVE  (\A d \in AnyDomain : <<h, d>> \notin checks) /\ (new.ssl = "on" => new.domain \in certs)
    <3>1. CASE write[w].op = "create"
      BY <1>2, <1>3, <1>7, <2>1, <3>1 DEF SavedRow, ReadSound, FreshSound
    <3>2. CASE write[w].op # "create"
      <4>1. write[w].op \notin {"delete", "remove"}
        BY <1>3, <2>13 DEF SavedRow
      <4>2. h \in Live /\ write[w].row.ssl = site[h].ssl /\ site[h].ssl # "checking"
        BY <2>1, <2>13, <3>2, <4>1 DEF ReadSound
      <4>3. new.ssl = "on" => site[h].ssl = "on" /\ new.domain = site[h].domain
        BY <1>3, <2>1, <4>1, <4>2 DEF SavedRow, ReadSound
      <4> QED
        BY <1>2, <1>7, <2>13, <4>2, <4>3 DEF SslSound
    <3> QED
      BY <3>1, <3>2
  <2>14. WriterSound(w)'
    BY <1>1, <1>5, <2>12, <2>13 DEF WriterSound, SavedCertified
  <2> QED
    BY <2>2, <2>3, <2>4, <2>5, <2>14 DEF HostingSound
<1> QED
  BY <1>1, <1>6, <1>7 DEF HostingInv

\* The row is committed, and the default mark taken from the old default.
LEMMA CommitSiteStep ==
  ASSUME HostingInv, NEW w \in Writers, CommitSite(w)
  PROVE  HostingInv'
<1>1. write[w].at = "saved" /\ Busy(w)
  BY DEF CommitSite, Busy
<1>2. PICK h \in Sites :
        /\ write[w].site = {h} /\ write[w].row \in SiteRows /\ site[h] \in SiteRows
        /\ write[w].op \in WriteOps \ {"none"}
        /\ crossed = "no" => /\ \A v \in Writers : v # w => write[v].at = "idle"
                             /\ WriterSound(w) /\ FreshSound(h) /\ SslSound(h)
  BY <1>1, WriterAlone
<1>3. PICK row \in SiteRows : row = write[w].row
  BY <1>2
<1>4. /\ site' = [g \in Sites |-> IF g \in {h} THEN row ELSE Others(w)[g]]
      /\ checks' = IF row.ssl = "checking" /\ row.state = "live" THEN checks \cup ({h} \X {row.domain}) ELSE checks
      /\ orphaned' = IF write[w].op = "remove" THEN orphaned \cup {row.domain} ELSE orphaned
      /\ write' = [write EXCEPT ![w] = NoWrite]
      /\ UNCHANGED <<listed, certs, crossed, upset>>
  BY <1>2, <1>3 DEF CommitSite
<1>5. site \in [Sites -> SiteRows] /\ write \in [Writers -> WriteRows]
  BY DEF HostingInv, HostingTypeOK
<1>6. ASSUME NEW g \in Sites, g # h
      PROVE  /\ site'[g] \in SiteRows
             /\ site'[g].state = site[g].state /\ site'[g].domain = site[g].domain /\ site'[g].ssl = site[g].ssl
             /\ site'[g].default = IF write[w].op = "set_default" THEN "no" ELSE site[g].default
             /\ site[g] = NoSite => site'[g] = NoSite
  <2>1. site'[g] = IF write[w].op = "set_default" THEN [site[g] EXCEPT !.default = "no"] ELSE site[g]
    BY <1>4, <1>6 DEF Others
  <2>2. site[g] \in SiteRows
    BY <1>5
  <2> QED
    BY <2>1, <2>2 DEF SiteRows, NoSite
<1>7. site'[h] = row
  BY <1>4
<1>8. site' \in [Sites -> SiteRows]
  <2>1. \A g \in Sites : site'[g] \in SiteRows
    BY <1>6, <1>7
  <2>2. site' = [g \in Sites |-> site'[g]]
    BY <1>4
  <2> QED
    BY <2>1, <2>2
<1>9. /\ write'[w].at = "idle" /\ \A v \in Writers : v # w => write'[v] = write[v]
      /\ write' \in [Writers -> WriteRows]
  BY <1>4, <1>5, FreshSite DEF NoWrite
<1>10. HostingTypeOK'
  BY <1>4, <1>8, <1>9 DEF HostingInv, HostingTypeOK, Busy
<1>11. ASSUME crossed = "no"
       PROVE  HostingSound'
  <2>1. HostingSound /\ SavedSound(w, h) /\ SavedCertified(w, h)
    BY <1>1, <1>2, <1>11 DEF HostingInv, WriterSound
  <2>2. \A v \in Writers : write'[v].at = "idle"
    BY <1>2, <1>9, <1>11
  <2>3. OneWriter' /\ \A v \in Writers : WriterSound(v)'
    BY <2>2 DEF OneWriter, Busy, WriterSound
  <2>4. \A g \in Sites : g \in Live' <=> IF g = h THEN row.state = "live" ELSE g \in Live
    BY <1>6, <1>7 DEF Live
  <2>5. OneDefault'
    <3> SUFFICES ASSUME NEW f \in Defaults', NEW g \in Defaults', f # g PROVE FALSE
      BY DEF OneDefault
    <3>1. f \in Sites /\ g \in Sites
      BY DEF Defaults, Live
    <3>2. \A e \in Sites : e \in Defaults' /\ e # h => e \in Defaults /\ write[w].op # "set_default"
      BY <1>6, <2>4 DEF Defaults
    <3>3. h \in Defaults' => row.state = "live" /\ row.default = "yes"
      BY <1>7, <2>4 DEF Defaults
    <3>4. \A e \in Defaults : e \in Live
      BY DEF Defaults
    <3> QED
      BY <1>3, <2>1, <3>1, <3>2, <3>3, <3>4 DEF HostingSound, OneDefault, SavedSound
  <2>6. DomainsApart'
    <3> SUFFICES ASSUME NEW f \in Live', NEW g \in Live', f # g, site'[f].domain = site'[g].domain
                 PROVE  site'[f].domain = NoDomain
      BY DEF DomainsApart
    <3>1. f \in Sites /\ g \in Sites
      BY DEF Live
    <3>2. row.state = "live" => DomainFree({h}, row.domain)
      BY <1>3, <2>1 DEF SavedSound
    <3>3. CASE f = h
      BY <1>6, <1>7, <2>4, <3>1, <3>2, <3>3 DEF DomainFree
    <3>4. CASE g = h
      BY <1>6, <1>7, <2>4, <3>1, <3>2, <3>4 DEF DomainFree
    <3>5. CASE f # h /\ g # h
      BY <1>6, <2>1, <2>4, <3>1, <3>5 DEF HostingSound, DomainsApart
    <3> QED
      BY <3>3, <3>4, <3>5
  <2>7. ListedSites'
    <3> SUFFICES ASSUME NEW d \in Domains \ orphaned'
                 PROVE  d \in listed' <=> \E g \in Live' : site'[g].domain = d
      BY DEF ListedSites
    <3>1. d \notin orphaned /\ ~(write[w].op = "remove" /\ d = row.domain)
      BY <1>4
    <3>2. d \in listed <=> \/ row.state = "live" /\ d = row.domain
                           \/ \E g \in Live \ {h} : site[g].domain = d
      BY <1>3, <2>1, <3>1 DEF SavedSound
    <3>3. (\E g \in Live' : site'[g].domain = d) <=> \/ row.state = "live" /\ d = row.domain
                                                     \/ \E g \in Live \ {h} : site[g].domain = d
      <4>1. Live' \subseteq Sites /\ Live \subseteq Sites
        BY DEF Live
      <4> QED
        BY <1>6, <1>7, <2>4, <4>1
    <3> QED
      BY <1>4, <3>2, <3>3
  <2>8. ASSUME NEW g \in Sites
        PROVE  FreshSound(g)' /\ SslSound(g)'
    <3>1. CASE g = h
      <4>1. row.state \in {"live", "deleted"}
        BY <1>3, <2>1 DEF SavedSound
      <4>2. FreshSound(g)'
        BY <1>7, <3>1, <4>1 DEF FreshSound
      <4>3. SslSound(g)'
        <5> SUFFICES ASSUME row.state = "live", h \notin upset
                     PROVE  /\ \A d \in AnyDomain : <<h, d>> \in checks' => row.domain = d /\ row.ssl = "checking"
                            /\ row.ssl = "on" => row.domain \in certs'
          BY <1>4, <1>7, <2>4, <3>1 DEF SslSound
        <5> QED
          BY <1>3, <1>4, <2>1 DEF SavedCertified
      <4> QED
        BY <4>2, <4>3
    <3>2. CASE g # h
      <4>1. \A d \in AnyDomain : <<g, d>> \in checks' <=> <<g, d>> \in checks
        BY <1>4, <3>2
      <4>2. FreshSound(g) /\ SslSound(g)
        BY <2>1 DEF HostingSound
      <4>3. FreshSound(g)'
        BY <1>6, <3>2, <4>1, <4>2 DEF FreshSound
      <4>4. SslSound(g)'
        BY <1>4, <1>6, <2>4, <3>2, <4>1, <4>2 DEF SslSound
      <4> QED
        BY <4>3, <4>4
    <3> QED
      BY <3>1, <3>2
  <2> QED
    BY <2>3, <2>5, <2>6, <2>7, <2>8 DEF HostingSound
<1> QED
  BY <1>4, <1>10, <1>11 DEF HostingInv

\* A writer gives up: the domains it listed are left.
LEMMA RollbackSiteStep ==
  ASSUME HostingInv, NEW w \in Writers, RollbackSite(w)
  PROVE  HostingInv'
<1>1. /\ Busy(w)
      /\ \/ write[w].at = "read" /\ orphaned' = orphaned
         \/ /\ write[w].at = "saved"
            /\ orphaned' = orphaned \cup {write[w].row.domain} \cup {site[g].domain : g \in write[w].site}
      /\ write' = [write EXCEPT ![w] = NoWrite]
      /\ UNCHANGED <<site, listed, checks, certs, crossed, upset>>
  BY DEF RollbackSite
<1>2. PICK h \in Sites :
        /\ write[w].site = {h} /\ write[w].row \in SiteRows /\ site[h] \in SiteRows
        /\ write[w].op \in WriteOps \ {"none"}
        /\ crossed = "no" => /\ \A v \in Writers : v # w => write[v].at = "idle"
                             /\ WriterSound(w) /\ FreshSound(h) /\ SslSound(h)
  BY <1>1, WriterAlone
<1>3. write \in [Writers -> WriteRows]
  BY DEF HostingInv, HostingTypeOK
<1>4. /\ write'[w].at = "idle" /\ \A v \in Writers : v # w => write'[v] = write[v]
      /\ write' \in [Writers -> WriteRows]
  BY <1>1, <1>3, FreshSite DEF NoWrite
<1>5. HostingTypeOK'
  BY <1>1, <1>4 DEF HostingInv, HostingTypeOK, Busy
<1>6. ASSUME crossed = "no"
      PROVE  HostingSound'
  <2>1. HostingSound
    BY <1>6 DEF HostingInv
  <2>2. \A v \in Writers : write'[v].at = "idle"
    BY <1>2, <1>4, <1>6
  <2>3. OneWriter' /\ \A v \in Writers : WriterSound(v)'
    BY <2>2 DEF OneWriter, Busy, WriterSound
  <2>4. OneDefault' /\ DomainsApart' /\ \A g \in Sites : FreshSound(g)' /\ SslSound(g)'
    BY <1>1, <2>1 DEF HostingSound, OneDefault, DomainsApart, Defaults, Live, FreshSound, SslSound
  <2>5. ListedSites'
    <3>1. CASE write[w].at = "read"
      <4>1. NoneSaved
        BY <1>2, <1>6, <3>1 DEF NoneSaved
      <4> QED
        BY <1>1, <2>1, <3>1, <4>1 DEF HostingSound, ListedSites, Live
    <3>2. CASE write[w].at = "saved"
      <4>1. SavedSound(w, h)
        BY <1>2, <1>6, <3>2 DEF WriterSound
      <4>2. orphaned' = orphaned \cup {write[w].row.domain, site[h].domain}
        BY <1>1, <1>2, <3>2
      <4>3. ASSUME NEW d \in Domains \ orphaned'
            PROVE  d \in listed <=> \E g \in Live : site[g].domain = d
        <5>1. d \notin orphaned /\ d # write[w].row.domain /\ d # site[h].domain
          BY <4>2, <4>3
        <5>2. d \in listed <=> \E g \in Live \ {h} : site[g].domain = d
          BY <4>1, <5>1 DEF SavedSound
        <5> QED
          BY <5>1, <5>2
      <4> QED
        BY <1>1, <4>3 DEF ListedSites, Live
    <3> QED
      BY <1>1, <3>1, <3>2
  <2> QED
    BY <2>3, <2>4, <2>5 DEF HostingSound
<1> QED
  BY <1>1, <1>5, <1>6 DEF HostingInv

\* A task changes the status of SSL of live hostings and nothing else of them.
LEMMA TaskStep ==
  ASSUME HostingInv, site' \in [Sites -> SiteRows],
         \A g \in Sites : /\ site'[g].state = site[g].state /\ site'[g].domain = site[g].domain
                          /\ site'[g].default = site[g].default
                          /\ g \notin Live => site'[g] = site[g],
         UNCHANGED <<listed, write, crossed, orphaned>>,
         checks' \subseteq checks, upset \subseteq upset',
         crossed = "no" => /\ \A g \in Sites : SslSound(g)'
                           /\ \A w \in Writers : \A h \in write[w].site : h \notin upset' =>
                                /\ write[w].at = "read" /\ write[w].op \notin {"create", "delete", "remove"}
                                        => site'[h].ssl = site[h].ssl
                                /\ write[w].at = "saved" => SavedCertified(w, h)'
  PROVE  HostingInv'
<1>1. HostingTypeOK'
  BY DEF HostingInv, HostingTypeOK, Busy
<1>2. ASSUME crossed = "no"
      PROVE  HostingSound'
  <2>1. HostingSound
    BY <1>2 DEF HostingInv
  <2>2. Live' = Live /\ Defaults' = Defaults
    BY DEF Live, Defaults
  <2>3. OneWriter' /\ OneDefault'
    BY <2>1, <2>2 DEF HostingSound, OneWriter, Busy, OneDefault
  <2>4. \A g \in Live : g \in Sites
    BY DEF Live
  <2>5. DomainsApart'
    BY <2>1, <2>2, <2>4 DEF HostingSound, DomainsApart
  <2>6. NoneSaved' => ListedSites'
    BY <2>1, <2>2, <2>4 DEF HostingSound, NoneSaved, ListedSites
  <2>7. ASSUME NEW g \in Sites
        PROVE  FreshSound(g)'
    BY <2>1 DEF HostingSound, FreshSound, Live
  <2>8. ASSUME NEW w \in Writers, NEW h \in write[w].site
        PROVE  /\ write'[w].at = "read" => ReadSound(w, h)'
               /\ write'[w].at = "saved" => SavedSound(w, h)' /\ SavedCertified(w, h)'
    <3>1. h \in Sites /\ write' = write
      BY DEF HostingInv, HostingTypeOK, WriteRows
    <3>2. CASE write[w].at = "read"
      <4>1. ReadSound(w, h)
        BY <2>1, <3>2 DEF HostingSound, WriterSound
      <4> QED
        BY <1>2, <2>2, <3>1, <3>2, <4>1 DEF ReadSound
    <3>3. CASE write[w].at = "saved"
      <4>1. SavedSound(w, h)
        BY <2>1, <3>3 DEF HostingSound, WriterSound
      <4>2. SavedSound(w, h)'
        BY <2>2, <2>4, <3>1, <4>1 DEF SavedSound, DomainFree
      <4>3. SavedCertified(w, h)'
        BY <1>2, <3>3 DEF SavedCertified
      <4> QED
        BY <3>1, <3>3, <4>2, <4>3
    <3> QED
      BY <3>1, <3>2, <3>3
  <2>9. \A w \in Writers : WriterSound(w)'
    BY <2>8 DEF WriterSound
  <2> QED
    BY <1>2, <2>3, <2>5, <2>6, <2>7, <2>9 DEF HostingSound
<1> QED
  BY <1>1, <1>2 DEF HostingInv

\* The task certifies the domain of a hosting, or not.
LEMMA CheckDomainStep ==
  ASSUME HostingInv, NEW h \in Sites, NEW d \in Domains, CheckDomain(h, d)
  PROVE  HostingInv'
<1>1. PICK ssl \in {"on", "invalid", "other"} :
        /\ site' = Marked(h, ssl)
        /\ certs' = IF ssl = "on" THEN certs \cup {d} ELSE certs
  <2>1. CASE site' = Marked(h, "on") /\ certs' = certs \cup {d}
    BY <2>1
  <2>2. CASE \E ssl \in {"invalid", "other"} : site' = Marked(h, ssl) /\ certs' = certs
    BY <2>2
  <2> QED
    BY <2>1, <2>2 DEF CheckDomain
<1>2. /\ <<h, d>> \in checks /\ checks' = checks \ {<<h, d>>}
      /\ UNCHANGED <<listed, write, crossed, orphaned, upset>>
  BY DEF CheckDomain
<1>3. site \in [Sites -> SiteRows]
  BY DEF HostingInv, HostingTypeOK
<1>4. /\ site' \in [Sites -> SiteRows]
      /\ \A g \in Sites : g # h \/ g \notin Live => site'[g] = site[g]
      /\ h \in Live => site'[h] = [site[h] EXCEPT !.ssl = ssl]
  BY <1>1, <1>3 DEF Marked, SiteRows, SslStates
<1>5. \A g \in Sites : /\ site'[g].state = site[g].state /\ site'[g].domain = site[g].domain
                       /\ site'[g].default = site[g].default
  BY <1>3, <1>4 DEF SiteRows
<1>6. h \in Live => site'[h].ssl = ssl
  BY <1>3, <1>4 DEF SiteRows
<1>7. Live' = Live
  BY <1>5 DEF Live
<1>8. ASSUME crossed = "no", NEW g \in Sites
      PROVE  SslSound(g)'
  <2>1. SslSound(g)
    BY <1>8 DEF HostingInv, HostingSound
  <2>2. CASE g = h
    <3>1. h \in Live /\ h \notin upset => site[h].domain = d /\ \A e \in AnyDomain : <<h, e>> \notin checks'
      BY <1>2, <2>1, <2>2 DEF SslSound, AnyDomain
    <3> QED
      BY <1>1, <1>2, <1>5, <1>6, <1>7, <2>2, <3>1 DEF SslSound
  <2>3. CASE g # h
    <3>1. certs \subseteq certs'
      BY <1>1
    <3> QED
      BY <1>2, <1>4, <1>7, <2>1, <2>3, <3>1 DEF SslSound
  <2> QED
    BY <2>2, <2>3
<1>9. ASSUME crossed = "no", NEW w \in Writers, NEW g \in write[w].site, g \notin upset'
      PROVE  /\ write[w].at = "read" /\ write[w].op \notin {"create", "delete", "remove"}
                    => site'[g].ssl = site[g].ssl
             /\ write[w].at = "saved" => SavedCertified(w, g)'
  <2>1. WriterSound(w) /\ g \in Sites /\ SslSound(g) /\ g \notin upset
    BY <1>2, <1>9 DEF HostingInv, HostingSound, HostingTypeOK, WriteRows
  <2>2. ASSUME write[w].at = "read", write[w].op \notin {"create", "delete", "remove"}
        PROVE  site'[g].ssl = site[g].ssl
    <3>1. g \in Live /\ site[g].ssl # "checking"
      BY <2>1, <2>2 DEF WriterSound, ReadSound
    <3>2. g # h
      BY <1>2, <2>1, <3>1 DEF SslSound, AnyDomain
    <3> QED
      BY <1>4, <2>1, <3>2
  <2>3. ASSUME write[w].at = "saved"
        PROVE  SavedCertified(w, g)'
    <3>1. certs \subseteq certs'
      BY <1>1
    <3> QED
      BY <1>2, <2>1, <2>3, <3>1 DEF WriterSound, SavedCertified
  <2> QED
    BY <2>2, <2>3
<1> QED
  BY <1>2, <1>4, <1>5, <1>8, <1>9, TaskStep

\* The task is lost.
LEMMA LoseCheckStep ==
  ASSUME HostingInv, NEW h \in Sites, NEW d \in Domains, LoseCheck(h, d)
  PROVE  HostingInv'
<1>1. /\ checks' \subseteq checks
      /\ UNCHANGED <<site, listed, write, certs, crossed, orphaned, upset>>
  BY DEF LoseCheck
<1>2. site' \in [Sites -> SiteRows]
  BY <1>1 DEF HostingInv, HostingTypeOK
<1>3. crossed = "no" => \A g \in Sites : SslSound(g)'
  BY <1>1 DEF HostingInv, HostingSound, SslSound, Live
<1>4. crossed = "no" => \A w \in Writers : \A g \in write[w].site : write[w].at = "saved" => SavedCertified(w, g)'
  BY <1>1 DEF HostingInv, HostingSound, WriterSound, SavedCertified
<1> QED
  BY <1>1, <1>2, <1>3, <1>4, TaskStep

\* The daily refresh removes a certificate.
LEMMA RefreshCertsStep ==
  ASSUME HostingInv, NEW d \in Domains, RefreshCerts(d)
  PROVE  HostingInv'
<1>1. /\ certs' = certs \ {d} /\ site' = Struck(d)
      /\ upset' = upset \cup {h \in Sites :
                    \/ <<h, d>> \in checks
                    \/ h \in Live /\ site[h].domain = d /\ d \notin listed
                    \/ \E w \in Writers : h \in write[w].site /\ write[w].row.domain = d}
      /\ UNCHANGED <<listed, write, checks, crossed, orphaned>>
  BY DEF RefreshCerts
<1>2. site \in [Sites -> SiteRows]
  BY DEF HostingInv, HostingTypeOK
<1>3. /\ site' \in [Sites -> SiteRows]
      /\ \A g \in Sites : ~(g \in Live /\ site[g].domain = d /\ d \in listed) => site'[g] = site[g]
      /\ \A g \in Sites : g \in Live /\ site[g].domain = d /\ d \in listed => site'[g] = [site[g] EXCEPT !.ssl = "invalid"]
  BY <1>1, <1>2 DEF Struck, SiteRows, SslStates
<1>4. \A g \in Sites : /\ site'[g].state = site[g].state /\ site'[g].domain = site[g].domain
                       /\ site'[g].default = site[g].default
                       /\ g \in Live /\ site[g].domain = d /\ d \in listed => site'[g].ssl = "invalid"
  BY <1>2, <1>3 DEF SiteRows
<1>5. Live' = Live
  BY <1>4 DEF Live
<1>6. ASSUME crossed = "no", NEW g \in Sites
      PROVE  SslSound(g)'
  <2> SUFFICES ASSUME g \in Live, g \notin upset'
               PROVE  /\ \A e \in AnyDomain : <<g, e>> \in checks => site'[g].domain = e /\ site'[g].ssl = "checking"
                      /\ site'[g].ssl = "on" => site'[g].domain \in certs'
    BY <1>1, <1>5 DEF SslSound
  <2>1. SslSound(g) /\ g \notin upset /\ <<g, d>> \notin checks /\ (site[g].domain = d => d \in listed)
    BY <1>1, <1>6 DEF HostingInv, HostingSound
  <2>2. CASE site[g].domain = d
    <3>1. site'[g].ssl = "invalid"
      BY <1>4, <2>1, <2>2
    <3> QED
      BY <2>1, <2>2, <3>1 DEF SslSound
  <2>3. CASE site[g].domain # d
    BY <1>1, <1>3, <2>1, <2>3 DEF SslSound
  <2> QED
    BY <2>2, <2>3
<1>7. ASSUME crossed = "no", NEW w \in Writers, NEW g \in write[w].site, g \notin upset'
      PROVE  /\ write[w].at = "read" /\ write[w].op \notin {"create", "delete", "remove"}
                    => site'[g].ssl = site[g].ssl
             /\ write[w].at = "saved" => SavedCertified(w, g)'
  <2>1. WriterSound(w) /\ g \in Sites
    BY <1>7 DEF HostingInv, HostingSound, HostingTypeOK, WriteRows
  <2>2. g \notin upset /\ write[w].row.domain # d
    BY <1>1, <1>7, <2>1
  <2>3. ASSUME write[w].at = "read"
        PROVE  site'[g].ssl = site[g].ssl
    <3>1. site[g].domain # d
      BY <2>1, <2>2, <2>3 DEF WriterSound, ReadSound
    <3> QED
      BY <1>3, <2>1, <3>1
  <2>4. ASSUME write[w].at = "saved"
        PROVE  SavedCertified(w, g)'
    BY <1>1, <2>1, <2>2, <2>4 DEF WriterSound, SavedCertified
  <2> QED
    BY <2>3, <2>4
<1>8. upset \subseteq upset' /\ checks' \subseteq checks
  BY <1>1
<1> QED
  BY <1>1, <1>3, <1>4, <1>6, <1>7, <1>8, TaskStep

\* The invariant of hostings is inductive.
LEMMA HostingStep ==
  ASSUME HostingInv, [HostingNext]_hostingVars
  PROVE  HostingInv'
<1>1. CASE UNCHANGED hostingVars
  <2>1. /\ checks' \subseteq checks /\ upset \subseteq upset'
        /\ UNCHANGED <<site, listed, write, checks, certs, crossed, orphaned, upset>>
    BY <1>1 DEF hostingVars
  <2>2. site' \in [Sites -> SiteRows]
    BY <2>1 DEF HostingInv, HostingTypeOK
  <2>3. crossed = "no" => \A g \in Sites : SslSound(g)'
    BY <2>1 DEF HostingInv, HostingSound, SslSound, Live
  <2>4. crossed = "no" => \A w \in Writers : \A g \in write[w].site : write[w].at = "saved" => SavedCertified(w, g)'
    BY <2>1 DEF HostingInv, HostingSound, WriterSound, SavedCertified
  <2> QED
    BY <2>1, <2>2, <2>3, <2>4, TaskStep
<1>2. ASSUME NEW w \in Writers, NEW op \in SiteOps(w), NEW h \in Sites, ReadSite(w, op, h)
      PROVE  HostingInv'
  <2>1. op \in WriteOps /\ op # "none"
    BY DEF SiteOps, WriteOps
  <2> QED
    BY <1>2, <2>1, ReadSiteStep
<1> QED
  BY <1>1, <1>2, SaveSiteStep, CommitSiteStep, RollbackSiteStep, CheckDomainStep, LoseCheckStep, RefreshCertsStep
  DEF HostingNext

\* For any hostings, domains and tasks, as long as no installation overlaps another writer:
\* there is one default, no domain has two hostings, the instance lists the domains between
\* requests, and SSL is on only with a certificate (hosting handlers, SSL tasks).
THEOREM SitesAreSoundHolds == HostingInit /\ [][HostingNext]_hostingVars => []SitesAreSound
<1>1. HostingInit => HostingInv
  BY HostingStart
<1>2. HostingInv /\ [HostingNext]_hostingVars => HostingInv'
  BY HostingStep
<1>3. HostingInv => SitesAreSound
  <2> SUFFICES ASSUME HostingInv, crossed = "no"
               PROVE  SitesAreSound
    BY DEF SitesAreSound, OneSitePerDomain, CertifiedWhenOn
  <2>1. HostingSound
    BY DEF HostingInv
  <2>2. Cardinality(Defaults) <= 1
    <3>1. CASE Defaults = {}
      BY <3>1, FS_EmptySet
    <3>2. CASE Defaults # {}
      <4>1. PICK h \in Defaults : Defaults = {h}
        BY <2>1, <3>2 DEF HostingSound, OneDefault
      <4>2. Cardinality({h}) = 1
        BY FS_Singleton
      <4> QED
        BY <4>1, <4>2
    <3> QED
      BY <3>1, <3>2
  <2>3. (\A w \in Writers : ~Busy(w)) => NoneSaved
    BY DEF NoneSaved, Busy
  <2>4. OneSitePerDomain
    BY <2>1, <2>2, <2>3 DEF HostingSound, DomainsApart, ListedSites, OneSitePerDomain
  <2>5. CertifiedWhenOn
    BY <2>1 DEF HostingSound, SslSound, CertifiedWhenOn, Live
  <2> QED
    BY <2>4, <2>5 DEF SitesAreSound
<1> QED
  BY <1>1, <1>2, <1>3, PTL

-----------------------------------------------------------------------------
(* Files of hostings *)

FileRows == [name : ObjectNames, size : FileSizes]

FilesTypeOK ==
    /\ fileRow \in FileRows \cup {NoFileRow}
    /\ deadRows \subseteq FileRows /\ IsFiniteSet(deadRows)
    /\ named \subseteq ObjectNames
    /\ bytes \in Int
    /\ upload \in [op : {"none", "file", "edit", "delete"}, row : FileRows \cup {NoFileRow}]

\* The rows have objects of their own.
NamesSound ==
    /\ \A row \in deadRows \cup {fileRow} : row = NoFileRow \/ row.name \in named
    /\ \A row \in deadRows : row.name # fileRow.name

\* A request saves a file of its own, the row it read, or none.
UploadSound ==
    /\ upload.op = "file" =>
        /\ upload.row \in FileRows /\ upload.row.name \in named \cap bucket
        /\ \A row \in deadRows \cup {fileRow} : row.name # upload.row.name
    /\ upload.op = "edit" => upload.row = fileRow
    /\ upload.op = "delete" => upload.row = NoFileRow /\ fileRow # NoFileRow

\* The storage is that of the rows, with the one that is being saved.
BytesSound ==
    ~undone =>
        bytes = (IF upload.op = "file" THEN upload.row.size ELSE fileRow.size)
                    + SumFunctionOnSet(SizeOf, deadRows)

FilesInv ==
    /\ FilesTypeOK /\ NamesSound /\ UploadSound /\ BytesSound
    /\ fileRow.name \in edited \/ FileThere

\* The sizes of dead rows are integers and add up to one.
LEMMA SizesAdded ==
  ASSUME FilesTypeOK
  PROVE  /\ \A row \in FileRows : SizeOf[row] = row.size /\ row.size \in Int /\ row.name # NoObject
         /\ SumFunctionOnSet(SizeOf, deadRows) \in Int
         /\ NoFileRow.size = 0 /\ NoFileRow.name = NoObject /\ fileRow.size \in Int
<1>1. \A row \in FileRows : SizeOf[row] = row.size /\ row.size \in Int /\ row.name # NoObject
  <2> SUFFICES ASSUME NEW row \in FileRows
               PROVE  SizeOf[row] = row.size /\ row.size \in Int /\ row.name # NoObject
    OBVIOUS
  <2>1. row.size \in FileSizes /\ row.name \in ObjectNames
    BY DEF FileRows
  <2>2. row.size \in Int /\ row.name # NoObject
    <3>1. row.size \in Nat /\ row.name # NoObject
      BY <2>1, HostingFilesAssumption, Zenon
    <3> QED
      BY <3>1
  <2>3. SizeOf[row] = row.size
    BY DEF SizeOf, FileRows
  <2> QED
    BY <2>2, <2>3
<1>2. \A row \in deadRows : SizeOf[row] \in Int
  BY <1>1 DEF FilesTypeOK
<1>3. SumFunctionOnSet(SizeOf, deadRows) \in Int
  BY <1>2, SumRemove DEF FilesTypeOK
<1>4. NoFileRow.size = 0 /\ NoFileRow.name = NoObject
  BY DEF NoFileRow
<1> QED
  BY <1>1, <1>3, <1>4 DEF FilesTypeOK

\* UploadFile: the request's row has a new object and counts instead of the old one.
LEMMA UploadFileStep ==
  ASSUME FilesInv, NEW size \in FileSizes, UploadFile(size)
  PROVE  FilesInv'
<1>0. PICK name \in ObjectNames \ named :
        \E r : /\ r = [name |-> name, size |-> size]
              /\ OpenUpload("file", r)
              /\ named' = named \cup {name} /\ bucket' = bucket \cup {name}
              /\ bytes' = bytes + (r.size - fileRow.size)
  BY DEF UploadFile, Counted
<1>1. PICK row : /\ row = [name |-> name, size |-> size]
                 /\ OpenUpload("file", row)
                 /\ named' = named \cup {name} /\ bucket' = bucket \cup {name}
                 /\ bytes' = bytes + (row.size - fileRow.size)
  BY <1>0
<1>2. UNCHANGED <<fileRow, deadRows, undone, edited>>
  BY DEF UploadFile
<1>3. row \in FileRows /\ row.name = name /\ row.size \in Int
  BY <1>1, SizesAdded DEF FileRows, FilesInv
<1>4. upload.op = "none" /\ upload'.op = "file" /\ upload'.row = row
  BY <1>1 DEF OpenUpload
<1>5. FilesTypeOK'
  <2>1. bytes' \in Int
    BY <1>1, <1>3, SizesAdded DEF FilesInv, FilesTypeOK
  <2> QED
    BY <1>1, <1>2, <1>3, <2>1 DEF FilesInv, FilesTypeOK, OpenUpload
<1>6. NamesSound'
  BY <1>1, <1>2 DEF FilesInv, NamesSound
<1>7. UploadSound'
  <2>1. \A r \in deadRows \cup {fileRow} : r.name # name
    BY <1>1, SizesAdded, HostingFilesAssumption DEF FilesInv, NamesSound
  <2> QED
    BY <1>1, <1>2, <1>3, <1>4, <2>1 DEF UploadSound
<1>8. BytesSound'
  BY <1>1, <1>2, <1>3, <1>4, SizesAdded DEF FilesInv, FilesTypeOK, BytesSound
<1>9. (fileRow.name \in edited \/ FileThere)'
  BY <1>1, <1>2 DEF FilesInv, FileThere
<1> QED
  BY <1>5, <1>6, <1>7, <1>8, <1>9 DEF FilesInv

\* EditFile and SoftDeleteFile only open a request.
LEMMA OpenStep ==
  ASSUME FilesInv, EditFile \/ SoftDeleteFile
  PROVE  FilesInv'
<1>1. /\ fileRow # NoFileRow /\ upload.op = "none"
      /\ UNCHANGED <<fileRow, deadRows, named, bucket, bytes, undone, edited>>
      /\ \/ upload' = [op |-> "edit", row |-> fileRow]
         \/ upload' = [op |-> "delete", row |-> NoFileRow]
  BY DEF EditFile, SoftDeleteFile, OpenUpload
<1>2. FilesTypeOK'
  BY <1>1 DEF FilesInv, FilesTypeOK
<1>3. NamesSound' /\ UploadSound' /\ BytesSound'
  BY <1>1 DEF FilesInv, NamesSound, UploadSound, BytesSound
<1> QED
  BY <1>1, <1>2, <1>3 DEF FilesInv, FileThere

\* CommitUpload: the row of the request is the live one.
LEMMA CommitUploadStep ==
  ASSUME FilesInv, CommitUpload
  PROVE  FilesInv'
<1>1. /\ upload.op # "none" /\ fileRow' = upload.row /\ upload' = NoUpload
      /\ UNCHANGED <<named, bytes, undone>>
      /\ upload.op = "delete" => deadRows' = deadRows \cup {fileRow} /\ bucket' = bucket
      /\ upload.op # "delete" => deadRows' = deadRows /\ bucket' = bucket \ {fileRow.name}
      /\ edited' = IF upload.op = "edit" THEN edited \cup {fileRow.name} ELSE edited
  BY DEF CommitUpload
<1>2. upload.op \in {"file", "edit", "delete"} /\ upload.row \in FileRows \cup {NoFileRow}
  BY <1>1 DEF FilesInv, FilesTypeOK
<1>3. FilesTypeOK'
  <2>1. deadRows' \subseteq FileRows
    BY <1>1 DEF FilesInv, FilesTypeOK, UploadSound
  <2>2. IsFiniteSet(deadRows')
    <3>1. IsFiniteSet(deadRows \cup {fileRow})
      BY FS_AddElement DEF FilesInv, FilesTypeOK
    <3> QED
      BY <1>1, <3>1 DEF FilesInv, FilesTypeOK
  <2> QED
    BY <1>1, <1>2, <2>1, <2>2 DEF FilesInv, FilesTypeOK, NoUpload
<1>4. \A row \in deadRows \cup {fileRow} : row \in FileRows => row.name \in ObjectNames /\ row.name # NoObject
  BY HostingFilesAssumption DEF FileRows
<1>5. NoFileRow.name = NoObject /\ NoFileRow.size = 0 /\ NoUpload.op = "none"
  BY DEF NoFileRow, NoUpload
<1>6. NamesSound'
  <2>1. CASE upload.op = "file"
    BY <1>1, <2>1 DEF FilesInv, NamesSound, UploadSound
  <2>2. CASE upload.op = "edit"
    BY <1>1, <2>2 DEF FilesInv, NamesSound, UploadSound
  <2>3. CASE upload.op = "delete"
    <3>1. \A row \in deadRows \cup {fileRow} : row.name # NoObject
      BY <1>4, <2>3 DEF FilesInv, FilesTypeOK, UploadSound
    <3> QED
      BY <1>1, <1>5, <2>3, <3>1 DEF FilesInv, NamesSound, UploadSound
  <2> QED
    BY <1>2, <2>1, <2>2, <2>3
<1>7. UploadSound'
  BY <1>1, <1>5 DEF UploadSound
<1>8. BytesSound'
  <2>1. CASE upload.op = "file" \/ upload.op = "edit"
    BY <1>1, <1>5, <2>1 DEF FilesInv, BytesSound, UploadSound
  <2>2. CASE upload.op = "delete"
    <3>1. fileRow \in FileRows /\ fileRow \notin deadRows /\ IsFiniteSet(deadRows)
      BY <2>2 DEF FilesInv, FilesTypeOK, UploadSound, NamesSound
    <3>2. \A row \in deadRows : SizeOf[row] \in Int
      BY SizesAdded DEF FilesInv, FilesTypeOK
    <3>3. SizeOf[fileRow] = fileRow.size /\ fileRow.size \in Int
      BY <3>1, SizesAdded DEF FilesInv
    <3>4. SumFunctionOnSet(SizeOf, deadRows \cup {fileRow}) = SumFunctionOnSet(SizeOf, deadRows) + fileRow.size
      BY <3>1, <3>2, <3>3, SumInsert
    <3>5. fileRow'.size = 0 /\ deadRows' = deadRows \cup {fileRow}
      BY <1>1, <1>5, <2>2 DEF FilesInv, UploadSound
    <3>6. SumFunctionOnSet(SizeOf, deadRows) \in Int
      BY SizesAdded DEF FilesInv
    <3>7. ~undone => bytes = fileRow.size + SumFunctionOnSet(SizeOf, deadRows)
      BY <2>2 DEF FilesInv, BytesSound
    <3>8. PICK total, more : /\ total = SumFunctionOnSet(SizeOf, deadRows)
                             /\ more = SumFunctionOnSet(SizeOf, deadRows \cup {fileRow})
      OBVIOUS
    <3>9. ~undone => bytes = fileRow'.size + more
      BY <3>3, <3>4, <3>5, <3>6, <3>7, <3>8
    <3>10. UNCHANGED <<bytes, undone>> /\ upload'.op # "file"
      BY <1>1, <1>5
    <3> QED
      BY <3>5, <3>8, <3>9, <3>10 DEF BytesSound
  <2> QED
    BY <1>2, <2>1, <2>2
<1>9. (fileRow.name \in edited \/ FileThere)'
  <2>1. CASE upload.op = "file"
    BY <1>1, <2>1 DEF FilesInv, UploadSound, FileThere
  <2>2. CASE upload.op = "edit"
    BY <1>1, <2>2 DEF FilesInv, UploadSound
  <2>3. CASE upload.op = "delete"
    BY <1>1, <2>3 DEF FilesInv, UploadSound, FileThere
  <2> QED
    BY <1>2, <2>1, <2>2, <2>3
<1> QED
  BY <1>3, <1>6, <1>7, <1>8, <1>9 DEF FilesInv

\* UndoUpload: the object of the request goes, which is no other row's.
LEMMA UndoUploadStep ==
  ASSUME FilesInv, UndoUpload
  PROVE  FilesInv'
<1>1. /\ upload' = NoUpload /\ NoUpload.op = "none"
      /\ bucket' = IF upload.op = "file" THEN bucket \ {upload.row.name} ELSE bucket
      /\ undone' = (undone \/ upload.op = "file")
      /\ UNCHANGED <<fileRow, deadRows, named, bytes, edited>>
  BY DEF UndoUpload, NoUpload
<1>2. FilesTypeOK'
  BY <1>1 DEF FilesInv, FilesTypeOK, NoUpload
<1>3. NamesSound' /\ UploadSound'
  BY <1>1 DEF FilesInv, NamesSound, UploadSound
<1>4. BytesSound'
  BY <1>1 DEF FilesInv, BytesSound
<1>5. (fileRow.name \in edited \/ FileThere)'
  BY <1>1 DEF FilesInv, UploadSound, FileThere
<1> QED
  BY <1>2, <1>3, <1>4, <1>5 DEF FilesInv

\* PurgeFile: the object of a dead row is no other row's, and it counts no more.
LEMMA PurgeFileStep ==
  ASSUME FilesInv, NEW row \in deadRows, PurgeFile(row)
  PROVE  FilesInv'
<1>1. /\ deadRows' = deadRows \ {row} /\ bucket' = bucket \ {row.name} /\ bytes' = bytes - row.size
      /\ UNCHANGED <<fileRow, named, upload, undone, edited>>
  BY DEF PurgeFile
<1>2. row \in FileRows /\ row.size \in Int /\ SizeOf[row] = row.size
  BY SizesAdded DEF FilesInv, FilesTypeOK
<1>3. FilesTypeOK'
  <2>1. IsFiniteSet(deadRows')
    BY <1>1, FS_Subset DEF FilesInv, FilesTypeOK
  <2> QED
    BY <1>1, <1>2, <2>1 DEF FilesInv, FilesTypeOK
<1>4. NamesSound' /\ UploadSound'
  BY <1>1 DEF FilesInv, NamesSound, UploadSound
<1>5. BytesSound'
  <2>1. \A r \in deadRows : SizeOf[r] \in Int
    BY SizesAdded DEF FilesInv, FilesTypeOK
  <2>2. SumFunctionOnSet(SizeOf, deadRows) = SizeOf[row] + SumFunctionOnSet(SizeOf, deadRows \ {row})
    BY <2>1, SumRemove DEF FilesInv, FilesTypeOK
  <2>3. PICK all, rest, kept : /\ all = SumFunctionOnSet(SizeOf, deadRows)
                               /\ rest = SumFunctionOnSet(SizeOf, deadRows \ {row})
                               /\ kept = IF upload.op = "file" THEN upload.row.size ELSE fileRow.size
    OBVIOUS
  <2>4. all \in Int /\ rest \in Int /\ kept \in Int
    <3>1. all \in Int /\ fileRow.size \in Int
      BY <2>3, SizesAdded DEF FilesInv
    <3>2. rest \in Int
      BY <1>1, <1>3, <2>3, SizesAdded, SumRemove, <2>1, FS_Subset DEF FilesInv, FilesTypeOK
    <3>3. upload.op = "file" => upload.row.size \in Int
      BY SizesAdded DEF FilesInv, UploadSound
    <3> QED
      BY <2>3, <3>1, <3>2, <3>3
  <2>5. ~undone => bytes - row.size = kept + rest
    BY <1>2, <2>2, <2>3, <2>4 DEF FilesInv, BytesSound
  <2> QED
    BY <1>1, <2>3, <2>5 DEF BytesSound
<1>6. (fileRow.name \in edited \/ FileThere)'
  BY <1>1 DEF FilesInv, NamesSound, FileThere
<1> QED
  BY <1>3, <1>4, <1>5, <1>6 DEF FilesInv

\* The live row's file is in the bucket unless a request without a file changed it,
\* and the storage is what the files take unless a request was undone after its
\* save: for any files, sizes and order of requests and tasks.
THEOREM FilesCountedHolds == HostingFilesSpec => []FilesCounted
<1>1. HostingFilesInit => FilesInv
  <2> SUFFICES ASSUME HostingFilesInit PROVE FilesInv
    OBVIOUS
  <2>1. FilesTypeOK
    BY FS_EmptySet DEF HostingFilesInit, FilesTypeOK, NoUpload
  <2>2. SumFunctionOnSet(SizeOf, deadRows) = 0
    BY SumEmpty DEF HostingFilesInit
  <2>3. BytesSound
    BY <2>2 DEF HostingFilesInit, BytesSound, NoUpload, NoFileRow
  <2>4. NamesSound /\ UploadSound /\ FileThere
    BY DEF HostingFilesInit, NamesSound, UploadSound, FileThere, NoUpload
  <2> QED
    BY <2>1, <2>3, <2>4 DEF FilesInv
<1>2. FilesInv /\ [HostingFilesNext]_hostingFilesVars => FilesInv'
  <2> SUFFICES ASSUME FilesInv, [HostingFilesNext]_hostingFilesVars PROVE FilesInv'
    OBVIOUS
  <2>1. CASE UNCHANGED hostingFilesVars
    BY <2>1 DEF hostingFilesVars, FilesInv, FilesTypeOK, NamesSound, UploadSound, BytesSound, FileThere
  <2>2. CASE HostingFilesNext
    BY <2>2, UploadFileStep, OpenStep, CommitUploadStep, UndoUploadStep, PurgeFileStep DEF HostingFilesNext
  <2> QED
    BY <2>1, <2>2
<1>3. FilesInv => FilesCounted
  BY DEF FilesInv, BytesSound, FilesCounted
<1> QED
  BY <1>1, <1>2, <1>3, PTL DEF HostingFilesSpec

-----------------------------------------------------------------------------
(* Tasks of sockets *)

USE DEF rowVars, workerVars, boundVars, historyVars

-----------------------------------------------------------------------------
(* Counters *)

\* Adding to one counter of a family keeps all of them natural.
LEMMA Incremented ==
    ASSUME NEW f \in [Kinds -> Nat], NEW k \in Kinds
    PROVE  /\ [f EXCEPT ![k] = f[k] + 1] \in [Kinds -> Nat]
           /\ [f EXCEPT ![k] = f[k] + 1][k] > 0
           /\ \A x \in Kinds : f[x] > 0 => [f EXCEPT ![k] = f[k] + 1][x] > 0
  OBVIOUS

\* Taking from a counter that is positive keeps all of them natural.
LEMMA Decremented ==
    ASSUME NEW f \in [Kinds -> Nat], NEW k \in Kinds, f[k] > 0
    PROVE  /\ [f EXCEPT ![k] = f[k] - 1] \in [Kinds -> Nat]
           /\ \A x \in Kinds : x # k => [f EXCEPT ![k] = f[k] - 1][x] = f[x]
  OBVIOUS

LEMMA SenderKind == \A o \in Objects : Sender(o) \in Kinds /\ Sender(o)' \in Kinds
  BY DEF Sender, Kinds

-----------------------------------------------------------------------------
(* Type correctness, one part at a time *)

\* The steps of the API on one object.
ApiOn(o) ==
    \/ Create(o) \/ Destroy(o) \/ UpdateZip(o, {"content"}) \/ UpdateZip(o, Parts)
    \/ UpdateFromUrl(o) \/ UpdateConfig(o) \/ RefuseLocked(o)

LEMMA NextCases ==
    ASSUME Next
    PROVE  \/ \E o \in Objects : ApiOn(o)
           \/ \E k \in Kinds : SendTask(k) \/ CrashApi(k) \/ ExpireLock(k)
           \/ \E w \in Workers, k \in Kinds : TakeLock(w, k)
           \/ \E w \in Workers : \/ Find(w) \/ Succeed(w) \/ SendChecker(w)
                                 \/ Fail(w) \/ Retry(w) \/ ResetAttempts(w)
                                 \/ ReleaseLock(w) \/ AfterRelease(w)
                                 \/ CrashWorker(w) \/ Raise(w)
  BY DEF Next, ApiStep, WorkerStep, ApiOn, Objects

\* An accepted request keeps the types.
LEMMA AcceptType ==
    ASSUME TypeOK, NEW o \in Objects, NEW st \in {"processing", "checking"},
           NEW ps \in SUBSET Parts, NEW ord \in SUBSET (Objects \X Objects),
           Accept(o, st, ps, ord)
    PROVE  TypeOK'
<1>1. RowTypeOK'
  <2>1. status' \in [Objects -> Statuses]
    BY DEF TypeOK, RowTypeOK, Accept, Statuses
  <2>2. part' \in [Objects -> [Parts -> {"accepted", "processed", "refused",
                                        "overwritten"}]]
    BY DEF TypeOK, RowTypeOK, Accept
  <2>3. QED
    BY <2>1, <2>2 DEF RowTypeOK, Accept
<1>2. QueueTypeOK'
  <2>1. pending' \in [Kinds -> Nat]
    <3>1. pending \in [Kinds -> Nat]
      BY DEF TypeOK, QueueTypeOK
    <3>2. pending' = [pending EXCEPT ![Sender(o)'] = pending[Sender(o)'] + 1]
      BY DEF Accept
    <3>3. QED
      BY <3>1, <3>2, SenderKind, Incremented
  <2>2. QED
    BY <2>1 DEF TypeOK, QueueTypeOK, Accept
<1>3. WorkerTypeOK'
  BY DEF TypeOK, WorkerTypeOK, Accept
<1>4. HistoryTypeOK'
  BY DEF TypeOK, HistoryTypeOK, Accept, Request
<1>5. QED
  BY <1>1, <1>2, <1>3, <1>4 DEF TypeOK

\* Reordering by updated_at stays among the objects.
LEMMA OrderType ==
    ASSUME older \subseteq Objects \X Objects, NEW o \in Objects
    PROVE  /\ Stamped(o) \in SUBSET (Objects \X Objects)
           /\ Unstamped(o) \in SUBSET (Objects \X Objects)
  BY DEF Stamped, Unstamped

LEMMA ApiType ==
    ASSUME TypeOK, NEW o \in Objects, ApiOn(o)
    PROVE  TypeOK'
<1>1. older \in SUBSET (Objects \X Objects) /\ Stamped(o) \in SUBSET (Objects \X Objects)
      /\ Unstamped(o) \in SUBSET (Objects \X Objects)
  BY OrderType DEF TypeOK, RowTypeOK
<1>2. CASE Create(o) \/ UpdateZip(o, Parts)
  BY <1>1, <1>2, AcceptType DEF Create, UpdateZip
<1>3. CASE UpdateZip(o, {"content"}) \/ UpdateFromUrl(o) \/ UpdateConfig(o)
  <2>1. {"content"} \in SUBSET Parts /\ {"config"} \in SUBSET Parts
    BY DEF Parts
  <2>2. QED
    BY <1>1, <1>3, <2>1, AcceptType DEF UpdateZip, UpdateFromUrl, UpdateConfig
<1>4. CASE RefuseLocked(o)
  <2>1. tasks' \in [Kinds -> Nat]
    <3>1. tasks \in [Kinds -> Nat] /\ Sender(o) \in Kinds
      BY SenderKind DEF TypeOK, QueueTypeOK
    <3>2. tasks' = [tasks EXCEPT ![Sender(o)] = tasks[Sender(o)] + 1]
      BY <1>4 DEF RefuseLocked
    <3>3. QED
      BY <3>1, <3>2, Incremented
  <2>2. HistoryTypeOK'
    BY <1>4 DEF TypeOK, HistoryTypeOK, RefuseLocked, Request
  <2>3. QED
    BY <1>4, <2>1, <2>2 DEF TypeOK, RowTypeOK, QueueTypeOK, WorkerTypeOK, RefuseLocked
<1>5. CASE Destroy(o)
  <2>1. RowTypeOK'
    BY <1>1, <1>5 DEF TypeOK, RowTypeOK, Destroy, Statuses
  <2>2. HistoryTypeOK'
    BY <1>5 DEF TypeOK, HistoryTypeOK, Destroy, Request
  <2>3. QED
    BY <1>5, <2>1, <2>2 DEF TypeOK, QueueTypeOK, WorkerTypeOK, Destroy
<1>6. QED
  BY <1>2, <1>3, <1>4, <1>5 DEF ApiOn

LEMMA QueueType ==
    ASSUME TypeOK, NEW k \in Kinds, SendTask(k) \/ CrashApi(k) \/ ExpireLock(k)
    PROVE  TypeOK'
<1>1. pending \in [Kinds -> Nat] /\ tasks \in [Kinds -> Nat]
  BY DEF TypeOK, QueueTypeOK
<1>2. CASE SendTask(k)
  <2>1. pending' \in [Kinds -> Nat]
    BY <1>1, <1>2, Decremented DEF SendTask
  <2>2. tasks' \in [Kinds -> Nat]
    BY <1>1, <1>2, Incremented DEF SendTask
  <2>3. QED
    BY <1>2, <2>1, <2>2 DEF TypeOK, RowTypeOK, QueueTypeOK, WorkerTypeOK,
       HistoryTypeOK, SendTask
<1>3. CASE CrashApi(k)
  <2>1. pending' \in [Kinds -> Nat]
    BY <1>1, <1>3, Decremented DEF CrashApi
  <2>2. QED
    BY <1>3, <2>1 DEF TypeOK, RowTypeOK, QueueTypeOK, WorkerTypeOK,
       HistoryTypeOK, CrashApi
<1>4. CASE ExpireLock(k)
  <2>1. expiries' \in Nat
    BY <1>4 DEF TypeOK, HistoryTypeOK, ExpireLock
  <2>2. QED
    BY <1>4, <2>1 DEF TypeOK, RowTypeOK, QueueTypeOK, WorkerTypeOK,
       HistoryTypeOK, ExpireLock
<1>5. QED
  BY <1>2, <1>3, <1>4

LEMMA TakeType ==
    ASSUME TypeOK, NEW w \in Workers, NEW k \in Kinds, TakeLock(w, k)
    PROVE  TypeOK'
<1>1. tasks' \in [Kinds -> Nat]
  <2>1. tasks \in [Kinds -> Nat]
    BY DEF TypeOK, QueueTypeOK
  <2>2. QED
    BY <2>1, Decremented DEF TakeLock
<1>2. QueueTypeOK'
  BY <1>1 DEF TypeOK, QueueTypeOK, TakeLock
<1>3. WorkerTypeOK'
  BY DEF TypeOK, WorkerTypeOK, TakeLock, InLockPC
<1>4. QED
  BY <1>2, <1>3 DEF TypeOK, RowTypeOK, HistoryTypeOK, TakeLock

LEMMA WorkerType ==
    ASSUME TypeOK, NEW w \in Workers,
           \/ Find(w) \/ Succeed(w) \/ SendChecker(w) \/ Fail(w) \/ Retry(w)
           \/ ResetAttempts(w) \/ ReleaseLock(w) \/ AfterRelease(w) \/ CrashWorker(w)
           \/ Raise(w)
    PROVE  TypeOK'
<1> USE DEF WorkerAt, WorkerGoes, WorkerReturns
<1>0. wkind[w] \in Kinds /\ (wpc[w] = "process" => wobj[w] \in Objects)
  BY DEF TypeOK, WorkerTypeOK
<1>k. "processor" \in Kinds /\ "checker" \in Kinds
  BY DEF Kinds
<1>1. CASE Find(w)
  <2>1. CASE Matching(wkind[w]) = {} /\ WorkerGoes(w, "release") /\ UNCHANGED <<attempt, tries>>
    BY <1>1, <2>1 DEF TypeOK, RowTypeOK, QueueTypeOK, WorkerTypeOK, HistoryTypeOK,
       Find, InLockPC
  <2>2. CASE wpc' = [wpc EXCEPT ![w] = "process"]
    <3>1. PICK o \in Oldest(wkind[w]) :
            /\ wobj' = [wobj EXCEPT ![w] = o]
            /\ wcopy' = [wcopy EXCEPT ![w] = "current"]
            /\ tries' = [tries EXCEPT ![o] = IF @ < MaxAttempts THEN @ + 1 ELSE @]
      BY <1>1, <2>2 DEF Find, TypeOK, WorkerTypeOK
    <3>2. o \in Objects
      BY <3>1 DEF Oldest, Matching, Model, Objects
    <3>3. /\ attempt' = [attempt EXCEPT ![wkind[w]] = attempt[wkind[w]] + 1]
          /\ wtry' = [wtry EXCEPT ![w] = attempt[wkind[w]] + 1]
          /\ wkind' = wkind
      BY <1>1, <2>2 DEF Find, TypeOK, WorkerTypeOK
    <3>4. attempt \in [Kinds -> Nat]
      BY DEF TypeOK, QueueTypeOK
    <3>5. attempt' \in [Kinds -> Nat] /\ attempt[wkind[w]] + 1 \in Nat
      BY <1>0, <3>3, <3>4, Incremented
    <3>6. WorkerTypeOK'
      BY <2>2, <3>1, <3>2, <3>3, <3>5 DEF TypeOK, WorkerTypeOK, InLockPC
    <3>a. UNCHANGED <<requests, crashes, expiries, cause>>
      BY <1>1 DEF Find
    <3>b. tries' \in [Objects -> Nat]
      <4>1. tries \in [Objects -> Nat]
        BY DEF TypeOK, HistoryTypeOK
      <4>2. (IF tries[o] < MaxAttempts THEN tries[o] + 1 ELSE tries[o]) \in Nat
        BY <3>2, <4>1, LifecycleAssumption
      <4>3. QED
        BY <3>1, <4>1, <4>2
    <3>7. HistoryTypeOK'
      BY <3>a, <3>b DEF TypeOK, HistoryTypeOK
    <3>8. QED
      BY <1>1, <3>5, <3>6, <3>7 DEF TypeOK, RowTypeOK, QueueTypeOK, Find
  <2>3. QED
    BY <1>1, <2>1, <2>2 DEF Find
<1>2. CASE Succeed(w)
  <2>1. wobj[w] \in Objects
    BY <1>0, <1>2 DEF Succeed
  <2>2. status' \in [Objects -> Statuses]
    BY <1>2 DEF TypeOK, RowTypeOK, Succeed, SaveRow, Statuses, OkStatus
  <2>3. older' \subseteq Objects \X Objects
    BY <1>2, <2>1, OrderType DEF TypeOK, RowTypeOK, Succeed
  <2>4. part' \in [Objects -> [Parts -> {"accepted", "processed", "refused",
                                        "overwritten"}]]
    BY <1>2, <2>1 DEF TypeOK, RowTypeOK, Succeed
  <2>5. HistoryTypeOK'
    BY <1>2 DEF TypeOK, HistoryTypeOK, Succeed, SaveRow
  <2>6. WorkerTypeOK'
    BY <1>2 DEF TypeOK, WorkerTypeOK, Succeed, InLockPC
  <2>7. QED
    BY <1>2, <2>2, <2>3, <2>4, <2>5, <2>6 DEF TypeOK, RowTypeOK, QueueTypeOK, Succeed
<1>3. CASE SendChecker(w)
  <2>1. tasks' \in [Kinds -> Nat]
    <3>1. tasks \in [Kinds -> Nat]
      BY DEF TypeOK, QueueTypeOK
    <3>2. QED
      BY <1>3, <1>k, <3>1, Incremented DEF SendChecker
  <2>2. QED
    BY <1>3, <2>1 DEF TypeOK, RowTypeOK, QueueTypeOK, WorkerTypeOK, HistoryTypeOK,
       SendChecker, InLockPC
<1>4. CASE Fail(w)
  <2>1. status' \in [Objects -> Statuses]
    BY <1>4 DEF TypeOK, RowTypeOK, Fail, SaveRow, Statuses
  <2>2. part' \in [Objects -> [Parts -> {"accepted", "processed", "refused",
                                        "overwritten"}]]
    BY <1>0, <1>4 DEF TypeOK, RowTypeOK, Fail
  <2>3. HistoryTypeOK'
    BY <1>4 DEF TypeOK, HistoryTypeOK, Fail, SaveRow
  <2>4. WorkerTypeOK'
    BY <1>4 DEF TypeOK, WorkerTypeOK, Fail, InLockPC
  <2>5. QED
    BY <1>4, <2>1, <2>2, <2>3, <2>4 DEF TypeOK, RowTypeOK, QueueTypeOK, Fail
<1>5. CASE Retry(w)
  BY <1>5 DEF TypeOK, RowTypeOK, QueueTypeOK, WorkerTypeOK, HistoryTypeOK, Retry,
     InLockPC
<1>6. CASE ResetAttempts(w)
  <2>1. attempt' \in [Kinds -> Nat]
    BY <1>6 DEF TypeOK, QueueTypeOK, ResetAttempts
  <2>2. QED
    BY <1>6, <2>1 DEF TypeOK, RowTypeOK, QueueTypeOK, WorkerTypeOK, HistoryTypeOK,
       ResetAttempts, InLockPC
<1>7. CASE ReleaseLock(w)
  <2>1. QueueTypeOK'
    BY <1>7 DEF TypeOK, QueueTypeOK, ReleaseLock
  <2>2. WorkerTypeOK'
    BY <1>7, <1>k DEF TypeOK, WorkerTypeOK, ReleaseLock, InLockPC
  <2>3. QED
    BY <1>7, <2>1, <2>2 DEF TypeOK, RowTypeOK, HistoryTypeOK, ReleaseLock
<1>8. CASE AfterRelease(w)
  <2>1. tasks' \in [Kinds -> Nat]
    <3>1. tasks \in [Kinds -> Nat]
      BY DEF TypeOK, QueueTypeOK
    <3>2. QED
      BY <1>0, <1>8, <3>1, Incremented DEF AfterRelease
  <2>2. WorkerTypeOK'
    BY <1>8, <1>k DEF TypeOK, WorkerTypeOK, AfterRelease, InLockPC
  <2>3. QED
    BY <1>8, <2>1, <2>2 DEF TypeOK, RowTypeOK, QueueTypeOK, HistoryTypeOK, AfterRelease
<1>9. CASE CrashWorker(w)
  <2>1. WorkerTypeOK'
    BY <1>9, <1>k DEF TypeOK, WorkerTypeOK, CrashWorker, InLockPC
  <2>2. HistoryTypeOK'
    BY <1>9 DEF TypeOK, HistoryTypeOK, CrashWorker
  <2>3. QED
    BY <1>9, <2>1, <2>2 DEF TypeOK, RowTypeOK, QueueTypeOK, CrashWorker
<1>10. CASE Raise(w)
  <2>1. WorkerTypeOK'
    BY <1>10, <1>k DEF TypeOK, WorkerTypeOK, Raise, InLockPC
  <2>2. HistoryTypeOK'
    BY <1>10 DEF TypeOK, HistoryTypeOK, Raise
  <2>3. QueueTypeOK'
    BY <1>10 DEF TypeOK, QueueTypeOK, Raise
  <2>4. QED
    BY <1>10, <2>1, <2>2, <2>3 DEF TypeOK, RowTypeOK, Raise
<1>11. QED
  BY <1>1, <1>2, <1>3, <1>4, <1>5, <1>6, <1>7, <1>8, <1>9, <1>10

\* Every variable keeps its type: what a task processes is always an object.
THEOREM LifecycleTypeCorrect == Spec => []TypeOK
<1>1. Init => TypeOK
  BY LifecycleAssumption DEF Init, TypeOK, RowTypeOK, QueueTypeOK, WorkerTypeOK,
     HistoryTypeOK, Statuses, Kinds
<1>2. ASSUME TypeOK, [Next]_vars PROVE TypeOK'
  <2>1. CASE Next
    BY <1>2, <2>1, NextCases, ApiType, QueueType, TakeType, WorkerType
  <2>2. CASE UNCHANGED vars
    BY <1>2, <2>2 DEF vars, TypeOK, RowTypeOK, QueueTypeOK, WorkerTypeOK, HistoryTypeOK
  <2>3. QED
    BY <1>2, <2>1, <2>2
<1>3. QED
  BY <1>1, <1>2, PTL DEF Spec

-----------------------------------------------------------------------------
(* Locks: while nothing is killed and no lock expires under a live task, the *)
(* lock of a kind is held exactly by the task inside its with block.         *)

LockHeld ==
    \A k \in Kinds : lock[k] # None =>
        lock[k] \in Workers /\ wkind[lock[k]] = k /\ wpc[lock[k]] \in InLockPC
LockOwned ==
    \A w \in Workers : wpc[w] \in InLockPC => lock[wkind[w]] = w

\* An object that matches a task's query has a task on its way.
Served == \A k \in Kinds : Matching(k) # {} => TaskOnItsWay(k)

StuckInv == Undisturbed => LockHeld /\ LockOwned /\ Served

\* A step that moves no task into or out of its with block.
LEMMA LocksKept ==
    ASSUME TypeOK, LockHeld, LockOwned, lock' = lock,
           \A w \in Workers : /\ wpc[w] \in InLockPC <=> wpc'[w] \in InLockPC
                              /\ wpc[w] \in InLockPC => wkind'[w] = wkind[w]
    PROVE  LockHeld' /\ LockOwned'
  BY DEF LockHeld, LockOwned, TypeOK, QueueTypeOK

\* A step after which no more objects match, and which loses no message and no
\* task under way.
LEMMA WayKept ==
    ASSUME Served,
           \A k \in Kinds : Matching(k)' # {} => Matching(k) # {},
           \A k \in Kinds : pending[k] > 0 => pending'[k] > 0 \/ tasks'[k] > 0,
           \A k \in Kinds : tasks[k] > 0 => tasks'[k] > 0,
           \A w \in Workers : wpc[w] # "idle" =>
               wpc'[w] # "idle" /\ wkind'[w] = wkind[w],
           \A w \in Workers : wpc[w] = "send_checker" =>
               wpc'[w] = "send_checker" \/ tasks'["checker"] > 0
    PROVE  Served'
  BY DEF Served, TaskOnItsWay

\* Only rows that change status can begin to match.
LEMMA MatchingSame ==
    ASSUME UNCHANGED status
    PROVE  \A k \in Kinds : Matching(k)' = Matching(k)
  BY DEF Matching, Model, Expected

\* A request that o be processed or checked has registered the right task.
LEMMA AcceptServed ==
    ASSUME TypeOK, LockHeld, LockOwned, Served, NEW o \in Objects,
           NEW st \in {"processing", "checking"}, st = "checking" => o \in Sockets,
           NEW ps, NEW ord, Accept(o, st, ps, ord)
    PROVE  LockHeld' /\ LockOwned' /\ Served'
<1>1. LockHeld' /\ LockOwned'
  BY LocksKept DEF Accept
<1>2. pending' = [pending EXCEPT ![Sender(o)'] = pending[Sender(o)'] + 1]
      /\ pending \in [Kinds -> Nat] /\ Sender(o)' \in Kinds
  BY SenderKind DEF Accept, TypeOK, QueueTypeOK
<1>3. pending'[Sender(o)'] > 0 /\ \A k \in Kinds : pending[k] > 0 => pending'[k] > 0
  BY <1>2, Incremented
<1>4. status' = [status EXCEPT ![o] = st] /\ status'[o] = st
  BY DEF Accept, TypeOK, RowTypeOK
<1>5. ASSUME NEW k \in Kinds, Matching(k)' # {}
      PROVE  Matching(k) # {} \/ k = Sender(o)'
  <2>1. PICK x \in Model(k) : status'[x] = Expected(k)
    BY <1>5 DEF Matching, Model, Expected
  <2>2. CASE x = o
    BY <1>4, <1>5, <2>1, <2>2, LifecycleAssumption DEF Sender, Model, Expected, Kinds, Objects
  <2>3. CASE x # o
    BY <1>4, <2>1, <2>3 DEF Matching, TypeOK, RowTypeOK, Model, Objects
  <2>4. QED
    BY <2>2, <2>3
<1>6. UNCHANGED <<tasks, wpc, wkind>>
  BY DEF Accept
<1>7. Served'
  BY <1>3, <1>5, <1>6 DEF Served, TaskOnItsWay
<1>8. QED
  BY <1>1, <1>7

LEMMA ApiServed ==
    ASSUME TypeOK, LockHeld, LockOwned, Served, NEW o \in Objects, ApiOn(o)
    PROVE  LockHeld' /\ LockOwned' /\ Served'
<1>1. CASE \/ Create(o) \/ UpdateZip(o, {"content"}) \/ UpdateZip(o, Parts)
           \/ UpdateFromUrl(o)
  BY <1>1, AcceptServed DEF Create, UpdateZip, UpdateFromUrl
<1>2. CASE UpdateConfig(o)
  BY <1>2, AcceptServed DEF UpdateConfig
<1>3. CASE RefuseLocked(o)
  <2>1. UNCHANGED <<status, lock, wpc, wkind, pending>>
    BY <1>3 DEF RefuseLocked
  <2>2. tasks' = [tasks EXCEPT ![Sender(o)] = tasks[Sender(o)] + 1]
        /\ tasks \in [Kinds -> Nat] /\ Sender(o) \in Kinds
    BY <1>3, SenderKind DEF RefuseLocked, TypeOK, QueueTypeOK
  <2>3. \A k \in Kinds : tasks[k] > 0 => tasks'[k] > 0
    BY <2>2, Incremented
  <2>4. Served'
    BY <2>1, <2>3, MatchingSame, WayKept
  <2>5. QED
    BY <2>1, <2>4, LocksKept
<1>4. CASE Destroy(o)
  <2>1. UNCHANGED <<tasks, lock, wpc, wkind, pending>>
        /\ status' = [status EXCEPT ![o] = "gone"]
    BY <1>4 DEF Destroy
  <2>2. \A k \in Kinds : Matching(k)' \subseteq Matching(k)
    BY <2>1 DEF Matching, Model, Expected, TypeOK, RowTypeOK, Objects
  <2>3. Served'
    BY <2>1, <2>2, WayKept
  <2>4. QED
    BY <2>1, <2>3, LocksKept
<1>5. QED
  BY <1>1, <1>2, <1>3, <1>4 DEF ApiOn

LEMMA TakeServed ==
    ASSUME TypeOK, LockHeld, LockOwned, Served, NEW w \in Workers, NEW k \in Kinds,
           TakeLock(w, k)
    PROVE  LockHeld' /\ LockOwned' /\ Served'
<1>1. UNCHANGED <<status, pending>>
  BY DEF TakeLock
<1>2. \A x \in Kinds : x # k => tasks'[x] = tasks[x]
  <2>1. tasks \in [Kinds -> Nat]
    BY DEF TypeOK, QueueTypeOK
  <2>2. QED
    BY <2>1, Decremented DEF TakeLock
<1>3. CASE lock[k] = None
  <2>1. /\ lock' = [lock EXCEPT ![k] = w]
        /\ wpc' = [wpc EXCEPT ![w] = "find"] /\ wkind' = [wkind EXCEPT ![w] = k]
        /\ wpc[w] = "idle"
    BY <1>3 DEF TakeLock, WorkerAt
  <2>2. wpc'[w] = "find" /\ wkind'[w] = k
        /\ \A x \in Workers : x # w => wpc'[x] = wpc[x] /\ wkind'[x] = wkind[x]
    BY <2>1 DEF TypeOK, WorkerTypeOK
  <2>3. LockHeld'
    BY <2>1, <2>2 DEF LockHeld, InLockPC, TypeOK, QueueTypeOK
  <2>4. LockOwned'
    BY <1>3, <2>1, <2>2, LifecycleAssumption DEF LockOwned, TypeOK, QueueTypeOK, WorkerTypeOK
  <2>5. Served'
    <3>1. \A x \in Kinds : TaskOnItsWay(x) => TaskOnItsWay(x)'
      BY <1>1, <1>2, <2>1, <2>2 DEF TaskOnItsWay
    <3>2. QED
      BY <1>1, <3>1, MatchingSame DEF Served
  <2>6. QED
    BY <2>3, <2>4, <2>5
<1>4. CASE lock[k] # None
  <2>1. UNCHANGED <<lock, wpc, wkind>>
    BY <1>4 DEF TakeLock
  <2>2. TaskOnItsWay(k)'
    <3>1. lock[k] \in Workers /\ wkind[lock[k]] = k /\ wpc[lock[k]] # "idle"
      BY <1>4 DEF LockHeld, InLockPC
    <3>2. QED
      BY <2>1, <3>1 DEF TaskOnItsWay
  <2>3. \A x \in Kinds : TaskOnItsWay(x) => TaskOnItsWay(x)'
    BY <1>1, <1>2, <2>1, <2>2 DEF TaskOnItsWay
  <2>4. Served'
    BY <1>1, <2>3, MatchingSame DEF Served
  <2>5. QED
    BY <2>1, <2>4, LocksKept
<1>5. QED
  BY <1>3, <1>4

LEMMA WorkerServed ==
    ASSUME TypeOK, LockHeld, LockOwned, Served, NEW w \in Workers,
           \/ Find(w) \/ Succeed(w) \/ SendChecker(w) \/ Fail(w) \/ Retry(w)
           \/ ResetAttempts(w) \/ ReleaseLock(w) \/ AfterRelease(w)
    PROVE  LockHeld' /\ LockOwned' /\ Served'
<1> USE DEF WorkerAt, WorkerGoes, WorkerReturns
<1>1. CASE Find(w) \/ Retry(w) \/ ResetAttempts(w)
  <2>1. UNCHANGED <<status, lock, pending, tasks, wkind>>
    BY <1>1 DEF Find, Retry, ResetAttempts
  <2>2. PICK pc \in {"process", "release"} : wpc' = [wpc EXCEPT ![w] = pc]
    BY <1>1 DEF Find, Retry, ResetAttempts
  <2>3. wpc[w] \in {"find", "process", "reset"}
    BY <1>1 DEF Find, Retry, ResetAttempts
  <2>4. /\ \A x \in Workers : wpc[x] \in InLockPC <=> wpc'[x] \in InLockPC
        /\ \A x \in Workers : wpc[x] # "idle" => wpc'[x] # "idle"
        /\ \A x \in Workers : wpc[x] = "send_checker" => wpc'[x] = "send_checker"
    BY <2>2, <2>3 DEF TypeOK, WorkerTypeOK, InLockPC
  <2>5. Served'
    BY <2>1, <2>4, MatchingSame, WayKept
  <2>6. QED
    BY <2>1, <2>4, <2>5, LocksKept
<1>2. CASE Succeed(w)
  <2>1. UNCHANGED <<lock, pending, tasks, wkind>> /\ wpc[w] = "process"
    BY <1>2 DEF Succeed
  <2>2. wpc' = [wpc EXCEPT ![w] = IF wkind[w] = "processor" THEN "send_checker" ELSE "reset"]
    BY <1>2 DEF Succeed
  <2>3. /\ \A x \in Workers : wpc[x] \in InLockPC <=> wpc'[x] \in InLockPC
        /\ \A x \in Workers : wpc[x] # "idle" => wpc'[x] # "idle"
        /\ \A x \in Workers : wpc[x] = "send_checker" => wpc'[x] = "send_checker"
        /\ wkind[w] = "processor" => wpc'[w] = "send_checker"
    BY <2>1, <2>2 DEF TypeOK, WorkerTypeOK, InLockPC
  <2>4. status' = [status EXCEPT ![wobj[w]] =
                       IF @ = "gone" THEN @ ELSE OkStatus(wkind[w])]
    BY <1>2 DEF Succeed, SaveRow
  <2>5. \A k \in Kinds : Matching(k)' # {} =>
            Matching(k) # {} \/ (k = "checker" /\ wkind[w] = "processor")
    <3>1. SUFFICES ASSUME NEW k \in Kinds, NEW x \in Model(k),
                          status'[x] = Expected(k), status[x] # Expected(k)
                   PROVE  k = "checker" /\ wkind[w] = "processor"
      BY DEF Matching, Model, Expected
    <3>2. x = wobj[w] /\ status'[x] = OkStatus(wkind[w])
      BY <2>4, <3>1 DEF TypeOK, RowTypeOK, Model, Objects
    <3>3. QED
      BY <3>1, <3>2 DEF OkStatus, Expected
  <2>6. \A k \in Kinds : TaskOnItsWay(k) => TaskOnItsWay(k)'
    BY <2>1, <2>3 DEF TaskOnItsWay
  <2>7. wkind[w] = "processor" => TaskOnItsWay("checker")'
    BY <2>3 DEF TaskOnItsWay
  <2>8. Served'
    BY <2>5, <2>6, <2>7 DEF Served
  <2>9. QED
    BY <2>1, <2>3, <2>8, LocksKept
<1>3. CASE SendChecker(w)
  <2>1. UNCHANGED <<status, lock, pending, wkind>> /\ wpc[w] = "send_checker"
        /\ wpc' = [wpc EXCEPT ![w] = "reset"]
    BY <1>3 DEF SendChecker
  <2>2. /\ \A x \in Workers : wpc[x] \in InLockPC <=> wpc'[x] \in InLockPC
        /\ \A x \in Workers : wpc[x] # "idle" => wpc'[x] # "idle"
    BY <2>1 DEF TypeOK, WorkerTypeOK, InLockPC
  <2>3. tasks' = [tasks EXCEPT !["checker"] = tasks["checker"] + 1]
        /\ tasks \in [Kinds -> Nat] /\ "checker" \in Kinds
    BY <1>3 DEF SendChecker, TypeOK, QueueTypeOK, Kinds
  <2>4. tasks'["checker"] > 0 /\ \A k \in Kinds : tasks[k] > 0 => tasks'[k] > 0
    BY <2>3, Incremented
  <2>5. Served'
    BY <2>1, <2>2, <2>4, MatchingSame, WayKept
  <2>6. QED
    BY <2>1, <2>2, <2>5, LocksKept
<1>4. CASE Fail(w)
  <2>1. UNCHANGED <<lock, pending, tasks, wkind>> /\ wpc[w] = "process"
        /\ wpc' = [wpc EXCEPT ![w] = "reset"]
    BY <1>4 DEF Fail
  <2>2. /\ \A x \in Workers : wpc[x] \in InLockPC <=> wpc'[x] \in InLockPC
        /\ \A x \in Workers : wpc[x] # "idle" => wpc'[x] # "idle"
        /\ \A x \in Workers : wpc[x] = "send_checker" => wpc'[x] = "send_checker"
    BY <2>1 DEF TypeOK, WorkerTypeOK, InLockPC
  <2>3. PICK st \in {"error", "prompt"} :
            status' = [status EXCEPT ![wobj[w]] = IF @ = "gone" THEN @ ELSE st]
    BY <1>4 DEF Fail, SaveRow
  <2>4. \A k \in Kinds : Matching(k)' \subseteq Matching(k)
    BY <2>3 DEF Matching, Model, Expected, TypeOK, RowTypeOK, Objects
  <2>5. Served'
    BY <2>1, <2>2, <2>4, WayKept
  <2>6. QED
    BY <2>1, <2>2, <2>5, LocksKept
<1>5. CASE ReleaseLock(w)
  <2>0. lock[wkind[w]] = w /\ wkind[w] \in Kinds /\ wpc[w] = "release"
    BY <1>5 DEF ReleaseLock, LockOwned, InLockPC, TypeOK, WorkerTypeOK
  <2>1. /\ UNCHANGED <<status, pending, tasks, wkind>>
        /\ lock' = [lock EXCEPT ![wkind[w]] = None]
        /\ wpc' = [wpc EXCEPT ![w] = "after"]
    BY <1>5, <2>0 DEF ReleaseLock
  <2>2. wpc'[w] = "after" /\ \A x \in Workers : x # w => wpc'[x] = wpc[x]
    BY <2>1 DEF TypeOK, WorkerTypeOK
  <2>3. LockHeld'
    BY <2>0, <2>1, <2>2 DEF LockHeld, TypeOK, QueueTypeOK
  <2>4. LockOwned'
    <3>1. ASSUME NEW x \in Workers, wpc'[x] \in InLockPC
          PROVE  lock'[wkind'[x]] = x
      <4>1. x # w /\ wpc[x] \in InLockPC
        BY <2>2, <3>1 DEF InLockPC
      <4>2. lock[wkind[x]] = x /\ wkind[x] # wkind[w]
        BY <2>0, <4>1 DEF LockOwned
      <4>3. QED
        BY <2>1, <4>2 DEF TypeOK, QueueTypeOK, WorkerTypeOK
    <3>2. QED
      BY <3>1 DEF LockOwned
  <2>5. Served'
    BY <2>0, <2>1, <2>2, MatchingSame, WayKept
  <2>6. QED
    BY <2>3, <2>4, <2>5
<1>6. CASE AfterRelease(w)
  <2>1. /\ UNCHANGED <<status, pending, lock>> /\ wpc[w] = "after"
        /\ wpc' = [wpc EXCEPT ![w] = "idle"]
        /\ wkind' = [wkind EXCEPT ![w] = "processor"]
    BY <1>6 DEF AfterRelease
  <2>2. wpc'[w] = "idle" /\ \A x \in Workers : x # w => wpc'[x] = wpc[x] /\ wkind'[x] = wkind[x]
    BY <2>1 DEF TypeOK, WorkerTypeOK
  <2>3. LockHeld' /\ LockOwned'
    <3>1. \A x \in Workers : /\ wpc[x] \in InLockPC <=> wpc'[x] \in InLockPC
                             /\ wpc[x] \in InLockPC => wkind'[x] = wkind[x]
      BY <2>1, <2>2 DEF InLockPC
    <3>2. QED
      BY <2>1, <3>1, LocksKept
  <2>4. wkind[w] \in Kinds /\ tasks \in [Kinds -> Nat]
    BY DEF TypeOK, WorkerTypeOK, QueueTypeOK
  <2>5. CASE Matching(wkind[w]) # {}
    <3>1. tasks' = [tasks EXCEPT ![wkind[w]] = tasks[wkind[w]] + 1]
      BY <1>6, <2>5 DEF AfterRelease
    <3>2. tasks'[wkind[w]] > 0 /\ \A k \in Kinds : tasks[k] > 0 => tasks'[k] > 0
      BY <2>4, <3>1, Incremented
    <3>3. \A k \in Kinds : TaskOnItsWay(k) => TaskOnItsWay(k)'
      BY <2>1, <2>2, <3>2 DEF TaskOnItsWay
    <3>4. QED
      BY <2>1, <2>3, <3>3, MatchingSame DEF Served
  <2>6. CASE Matching(wkind[w]) = {}
    <3>1. tasks' = tasks
      BY <1>6, <2>6 DEF AfterRelease
    <3>2. \A k \in Kinds : k # wkind[w] /\ TaskOnItsWay(k) => TaskOnItsWay(k)'
      BY <2>1, <2>2, <3>1 DEF TaskOnItsWay
    <3>3. QED
      BY <2>1, <2>3, <2>6, <3>2, MatchingSame DEF Served
  <2>7. QED
    BY <2>5, <2>6
<1>7. QED
  BY <1>1, <1>2, <1>3, <1>4, <1>5, <1>6

\* As long as nothing is killed and no lock expires under a live task, every
\* object that waits for a task has one on its way, whatever the interleaving
\* of requests, commits, refused locks, retries and releases.
THEOREM NoObjectStuckHolds == Spec => []NoObjectStuck
<1>1. Init => StuckInv
  BY DEF Init, StuckInv, LockHeld, LockOwned, Served, Matching, Model, Expected,
     Kinds, Objects, InLockPC
<1>2. ASSUME TypeOK, StuckInv, [Next]_vars PROVE StuckInv'
  <2>1. SUFFICES ASSUME Undisturbed' PROVE LockHeld' /\ LockOwned' /\ Served'
    BY DEF StuckInv
  <2>2. Undisturbed /\ UNCHANGED <<crashes, expiries>>
    <3>1. CASE Next
      <4>0. crashes \in Nat /\ expiries \in Nat
        BY <1>2 DEF TypeOK, HistoryTypeOK
      <4>1. ASSUME NEW o \in Objects, ApiOn(o) PROVE UNCHANGED <<crashes, expiries>>
        BY <4>1 DEF ApiOn, Create, Destroy, UpdateZip, UpdateFromUrl, UpdateConfig,
           RefuseLocked, Accept
      <4>2. ASSUME NEW k \in Kinds, SendTask(k) \/ CrashApi(k) \/ ExpireLock(k)
            PROVE  UNCHANGED <<crashes, expiries>>
        BY <2>1, <4>0, <4>2 DEF SendTask, CrashApi, ExpireLock, Undisturbed
      <4>3. ASSUME NEW w \in Workers, NEW k \in Kinds, TakeLock(w, k)
            PROVE  UNCHANGED <<crashes, expiries>>
        BY <4>3 DEF TakeLock
      <4>4. ASSUME NEW w \in Workers,
                   \/ Find(w) \/ Succeed(w) \/ SendChecker(w) \/ Fail(w) \/ Retry(w)
                   \/ ResetAttempts(w) \/ ReleaseLock(w) \/ AfterRelease(w)
                   \/ CrashWorker(w) \/ Raise(w)
            PROVE  UNCHANGED <<crashes, expiries>>
        BY <2>1, <4>0, <4>4 DEF Find, Succeed, SendChecker, Fail, Retry, ResetAttempts,
           ReleaseLock, AfterRelease, CrashWorker, Raise, Undisturbed
      <4>5. UNCHANGED <<crashes, expiries>>
        BY <3>1, <4>1, <4>2, <4>3, <4>4, NextCases
      <4>6. QED
        BY <2>1, <4>5 DEF Undisturbed
    <3>2. CASE UNCHANGED vars
      BY <2>1, <3>2 DEF vars, Undisturbed
    <3>3. QED
      BY <1>2, <3>1, <3>2
  <2>3. LockHeld /\ LockOwned /\ Served
    BY <1>2, <2>2 DEF StuckInv
  <2>4. ASSUME NEW k \in Kinds, SendTask(k) \/ CrashApi(k) \/ ExpireLock(k)
        PROVE  LockHeld' /\ LockOwned' /\ Served'
    <3>1. CASE SendTask(k)
      <4>1. UNCHANGED <<status, lock, wpc, wkind>>
        BY <3>1 DEF SendTask
      <4>2. tasks \in [Kinds -> Nat] /\ pending \in [Kinds -> Nat]
        BY <1>2 DEF TypeOK, QueueTypeOK
      <4>3. tasks'[k] > 0 /\ \A x \in Kinds : tasks[x] > 0 => tasks'[x] > 0
        BY <3>1, <4>2, Incremented DEF SendTask
      <4>4. \A x \in Kinds : x # k => pending'[x] = pending[x]
        BY <3>1, <4>2, Decremented DEF SendTask
      <4>5. Served'
        BY <2>3, <4>1, <4>3, <4>4, MatchingSame, WayKept
      <4>6. QED
        BY <1>2, <2>3, <4>1, <4>5, LocksKept
    <3>2. CASE CrashApi(k)
      BY <1>2, <2>2, <3>2 DEF CrashApi, TypeOK, HistoryTypeOK
    <3>3. CASE ExpireLock(k)
      <4>1. lock[k] # None /\ (OwnerGone(k) \/ expiries' = expiries + 1)
        BY <3>3 DEF ExpireLock
      <4>2. ~OwnerGone(k)
        BY <2>3, <4>1 DEF OwnerGone, LockHeld, InLockPC
      <4>3. QED
        BY <1>2, <2>2, <4>1, <4>2 DEF TypeOK, HistoryTypeOK
    <3>4. QED
      BY <2>4, <3>1, <3>2, <3>3
  <2>5. ASSUME NEW w \in Workers, CrashWorker(w) \/ Raise(w) PROVE FALSE
    BY <1>2, <2>2, <2>5 DEF CrashWorker, Raise, TypeOK, HistoryTypeOK
  <2>6. CASE UNCHANGED vars
    <3>1. UNCHANGED <<status, lock, wpc, wkind, pending, tasks>>
      BY <2>6 DEF vars
    <3>2. Served'
      BY <2>3, <3>1, MatchingSame, WayKept
    <3>3. QED
      BY <1>2, <2>3, <3>1, <3>2, LocksKept
  <2>7. CASE Next
    BY <1>2, <2>3, <2>4, <2>5, <2>7, NextCases, ApiServed, TakeServed, WorkerServed
  <2>8. QED
    BY <1>2, <2>6, <2>7
<1>3. StuckInv => NoObjectStuck
  BY DEF StuckInv, NoObjectStuck, Served
<1>4. QED
  BY <1>1, <1>2, <1>3, LifecycleTypeCorrect, PTL DEF Spec

-----------------------------------------------------------------------------

(* Contents and configs: as long as no lock expires under a live task, what  *)
(* a task has in its hands is what was accepted last.                        *)

\* The object a task processes waits for it, unless it was deleted meanwhile,
\* and the task's copy of it is current.
CopySound ==
    \A w \in Workers : wpc[w] = "process" =>
        /\ wobj[w] \in Model(wkind[w])
        /\ status[wobj[w]] \in {Expected(wkind[w]), "gone"}
        /\ status[wobj[w]] # "gone" => wcopy[w] = "current"

\* Who is past its processing has its content installed or refused, and an OK
\* socket its config validated.
PartsSound ==
    \A o \in Objects :
        /\ status[o] \in {"checking", "ok", "error", "prompt"}
              => part[o]["content"] \in {"processed", "refused"}
        /\ o \in Sockets /\ status[o] = "ok" => part[o]["config"] = "processed"

FreshInv == expiries = 0 => LockOwned /\ CopySound /\ PartsSound

\* A step that touches neither locks nor rows and starts no processing.
LEMMA FreshQuiet ==
    ASSUME LockOwned, CopySound, PartsSound, UNCHANGED <<status, part, lock>>,
           \A w \in Workers : wpc'[w] \in InLockPC =>
               wpc[w] \in InLockPC /\ wkind'[w] = wkind[w],
           \A w \in Workers : wpc'[w] = "process" =>
               wpc[w] = "process" /\ wobj'[w] = wobj[w] /\ wcopy'[w] = wcopy[w]
    PROVE  LockOwned' /\ CopySound' /\ PartsSound'
<1>1. LockOwned'
  BY DEF LockOwned
<1>2. \A w \in Workers : wpc'[w] = "process" => wkind'[w] = wkind[w]
  BY DEF InLockPC
<1>3. CopySound'
  BY <1>2 DEF CopySound, Model, Expected
<1>4. PartsSound'
  BY DEF PartsSound
<1>5. QED
  BY <1>1, <1>3, <1>4

\* An accepted request is about an object that no task processes.
LEMMA AcceptFresh ==
    ASSUME TypeOK, LockOwned, CopySound, PartsSound, NEW o \in Objects,
           status[o] = "new" \/ (IsLive(o) /\ ~IsLocked(o)),
           NEW st, NEW ps, NEW ord, Accept(o, st, ps, ord),
           \/ st = "processing"
           \/ st = "checking" /\ ps = {"config"} /\ status[o] # "new"
    PROVE  LockOwned' /\ CopySound' /\ PartsSound'
<1>1. /\ status' = [status EXCEPT ![o] = st] /\ status \in [Objects -> Statuses]
      /\ part \in [Objects -> [Parts -> {"accepted", "processed", "refused", "overwritten"}]]
      /\ UNCHANGED <<lock, wpc, wkind, wobj>>
      /\ part' = [part EXCEPT ![o] = [p \in Parts |-> IF p \in ps THEN "accepted" ELSE part[o][p]]]
      /\ wcopy' = [w \in Workers |-> IF wobj[w] = o /\ Part(wkind[w]) \in ps
                                     THEN "stale" ELSE wcopy[w]]
  BY DEF Accept, TypeOK, RowTypeOK
<1>2. LockOwned'
  BY <1>1 DEF LockOwned
<1>3. \A w \in Workers : wpc[w] = "process" => wobj[w] # o /\ wobj[w] \in Objects
  BY DEF CopySound, IsLive, IsLocked, Expected, TypeOK, WorkerTypeOK
<1>4. CopySound'
  <2> SUFFICES ASSUME NEW w \in Workers, wpc'[w] = "process"
               PROVE  /\ wobj'[w] \in Model(wkind'[w])
                      /\ status'[wobj'[w]] \in {Expected(wkind'[w]), "gone"}
                      /\ status'[wobj'[w]] # "gone" => wcopy'[w] = "current"
    BY DEF CopySound, Model, Expected
  <2>1. wobj'[w] = wobj[w] /\ wobj[w] # o /\ wkind'[w] = wkind[w] /\ wcopy'[w] = wcopy[w]
        /\ status'[wobj[w]] = status[wobj[w]] /\ wpc[w] = "process"
    BY <1>1, <1>3
  <2>2. QED
    BY <2>1 DEF CopySound
<1>5. PartsSound'
  <2>1. \A x \in Objects : x # o => status'[x] = status[x] /\ part'[x] = part[x]
    BY <1>1
  <2>2. status'[o] = st
    BY <1>1
  <2>3. st = "checking" => part'[o]["content"] \in {"processed", "refused"}
    <3>1. st = "checking" => part'[o]["content"] = part[o]["content"]
      BY <1>1 DEF Parts
    <3>2. st = "checking" => status[o] \in {"ok", "error", "prompt"}
      BY <1>1 DEF Statuses, IsLive, IsLocked
    <3>3. QED
      BY <3>1, <3>2 DEF PartsSound
  <2>4. QED
    BY <2>1, <2>2, <2>3 DEF PartsSound
<1>6. QED
  BY <1>2, <1>4, <1>5

\* A request of the API, the task of a worker, and the start of a task keep it.
LEMMA ApiFresh ==
    ASSUME TypeOK, LockOwned, CopySound, PartsSound, NEW o \in Objects, ApiOn(o)
    PROVE  LockOwned' /\ CopySound' /\ PartsSound'
<1>1. CASE \/ Create(o) \/ UpdateZip(o, {"content"}) \/ UpdateZip(o, Parts)
           \/ UpdateFromUrl(o)
  BY <1>1, AcceptFresh DEF Create, UpdateZip, UpdateFromUrl
<1>2. CASE UpdateConfig(o)
  BY <1>2, AcceptFresh DEF UpdateConfig, IsLive
<1>3. CASE RefuseLocked(o)
  BY <1>3, FreshQuiet DEF RefuseLocked
<1>4. CASE Destroy(o)
  <2>1. /\ status' = [status EXCEPT ![o] = "gone"] /\ status \in [Objects -> Statuses]
        /\ UNCHANGED <<part, lock, wpc, wkind, wobj, wcopy>>
    BY <1>4 DEF Destroy, TypeOK, RowTypeOK
  <2>2. \A x \in Objects : status'[x] = status[x] \/ status'[x] = "gone"
    BY <2>1
  <2>3. LockOwned'
    BY <2>1 DEF LockOwned
  <2>4. CopySound'
    BY <2>1, <2>2 DEF CopySound, Model, Expected, TypeOK, WorkerTypeOK
  <2>5. PartsSound'
    BY <2>1, <2>2 DEF PartsSound
  <2>6. QED
    BY <2>3, <2>4, <2>5
<1>5. QED
  BY <1>1, <1>2, <1>3, <1>4 DEF ApiOn

\* A task that ends its processing of o, with status st: no other task has o in
\* its hands, because the tasks of one kind exclude each other and the tasks of
\* different kinds wait for different statuses.
LEMMA SaveFresh ==
    ASSUME TypeOK, LockOwned, CopySound, PartsSound, NEW w \in Workers, NEW pc, NEW st, NEW v, NEW why,
           wpc[w] = "process", SaveRow(w, st, why), WorkerGoes(w, pc),
           pc \in InLockPC \ {"process"}, lock' = lock,
           part' = [part EXCEPT ![wobj[w]][Part(wkind[w])] = v],
           wcopy[w] = "current" =>
              \/ /\ v = "processed" /\ st = OkStatus(wkind[w])
              \/ /\ v = "refused" /\ st = "error"
              \/ /\ v = "refused" /\ st = "prompt" /\ wkind[w] = "checker"
    PROVE  LockOwned' /\ CopySound' /\ PartsSound'
<1> DEFINE o == wobj[w]
           k == wkind[w]
<1>1. /\ o \in Objects /\ k \in Kinds /\ o \in Model(k)
      /\ status[o] \in {Expected(k), "gone"} /\ (status[o] # "gone" => wcopy[w] = "current")
      /\ status \in [Objects -> Statuses]
      /\ part \in [Objects -> [Parts -> {"accepted", "processed", "refused", "overwritten"}]]
      /\ wpc \in [Workers -> InLockPC \cup {"idle", "after"}]
  BY DEF CopySound, TypeOK, RowTypeOK, WorkerTypeOK
<1>2. /\ status' = [status EXCEPT ![o] = IF status[o] = "gone" THEN status[o] ELSE st]
      /\ wpc' = [wpc EXCEPT ![w] = pc] /\ UNCHANGED <<wkind, wobj, wcopy>>
  BY DEF SaveRow, WorkerGoes
<1>3. LockOwned'
  BY <1>1, <1>2 DEF LockOwned, InLockPC
<1>4. \A x \in Workers : wpc'[x] = "process" => x # w /\ wpc[x] = "process"
  BY <1>1, <1>2
<1>5. ASSUME NEW x \in Workers, x # w, wpc[x] = "process", status[o] # "gone"
      PROVE  wobj[x] # o
  <2>1. wkind[x] # k
    BY <1>5 DEF LockOwned, InLockPC
  <2>2. Expected(wkind[x]) # Expected(k) \/ Model(wkind[x]) \cap Model(k) = {}
    BY <1>1, <2>1, LifecycleAssumption DEF Expected, Model, Kinds, TypeOK, WorkerTypeOK
  <2>3. QED
    BY <1>1, <1>5, <2>2 DEF CopySound
<1>6. \A x \in Objects : x # o \/ status[o] = "gone" => status'[x] = status[x]
  BY <1>1, <1>2
<1>7. CopySound'
  <2> SUFFICES ASSUME NEW x \in Workers, wpc'[x] = "process"
               PROVE  /\ wobj'[x] \in Model(wkind'[x])
                      /\ status'[wobj'[x]] \in {Expected(wkind'[x]), "gone"}
                      /\ status'[wobj'[x]] # "gone" => wcopy'[x] = "current"
    BY DEF CopySound, Model, Expected
  <2>1. wpc[x] = "process" /\ x # w /\ wobj'[x] = wobj[x] /\ wkind'[x] = wkind[x]
        /\ wcopy'[x] = wcopy[x] /\ wobj[x] \in Objects
    BY <1>2, <1>4 DEF TypeOK, WorkerTypeOK
  <2>2. status'[wobj[x]] = status[wobj[x]]
    BY <1>5, <1>6, <2>1
  <2>3. QED
    BY <2>1, <2>2 DEF CopySound
<1>8. PartsSound'
  <2>1. \A x \in Objects : x # o => part'[x] = part[x]
    BY <1>1
  <2>2. CASE status[o] = "gone"
    <3>1. \A x \in Objects : status'[x] = status[x]
      BY <1>6, <2>2
    <3>2. QED
      BY <2>1, <2>2, <3>1 DEF PartsSound
  <2>3. CASE status[o] # "gone"
    <3>1. status'[o] = st /\ status[o] = Expected(k) /\ wcopy[w] = "current"
      BY <1>1, <1>2, <2>3
    <3>2. part'[o][Part(k)] = v
      BY <1>1 DEF Part, Parts
    <3>3. CASE k = "checker"
      <4>1. part'[o]["content"] = part[o]["content"] /\ part'[o]["config"] = v
        BY <1>1, <3>3 DEF Part, Parts
      <4>2. part[o]["content"] \in {"processed", "refused"}
        BY <1>1, <3>1, <3>3 DEF PartsSound, Expected
      <4>3. st = "ok" => v = "processed"
        BY <3>1, <3>3 DEF OkStatus
      <4>4. QED
        BY <1>6, <2>1, <3>1, <4>1, <4>2, <4>3 DEF PartsSound
    <3>4. CASE k = "processor"
      <4>1. part'[o]["content"] = v /\ v \in {"processed", "refused"} /\ st # "ok"
        BY <3>1, <3>2, <3>4 DEF Part, OkStatus
      <4>2. QED
        BY <1>6, <2>1, <3>1, <4>1 DEF PartsSound
    <3>5. CASE k = "environment"
      <4>1. part'[o]["content"] = v /\ v \in {"processed", "refused"} /\ o \notin Sockets
        BY <1>1, <3>1, <3>2, <3>5, LifecycleAssumption DEF Part, OkStatus, Model
      <4>2. QED
        BY <1>6, <2>1, <3>1, <4>1 DEF PartsSound
    <3>6. QED
      BY <1>1, <3>3, <3>4, <3>5 DEF Kinds
  <2>4. QED
    BY <2>2, <2>3
<1>9. QED
  BY <1>3, <1>7, <1>8

LEMMA WorkerFresh ==
    ASSUME TypeOK, LockOwned, CopySound, PartsSound, NEW w \in Workers,
           \/ Find(w) \/ Succeed(w) \/ SendChecker(w) \/ Fail(w) \/ Retry(w)
           \/ ResetAttempts(w) \/ ReleaseLock(w) \/ AfterRelease(w)
           \/ CrashWorker(w) \/ Raise(w)
    PROVE  LockOwned' /\ CopySound' /\ PartsSound'
<1>t. /\ wpc \in [Workers -> InLockPC \cup {"idle", "after"}] /\ wkind \in [Workers -> Kinds]
      /\ wobj \in [Workers -> Objects \cup {None}]
      /\ wcopy \in [Workers -> {"current", "stale"}]
      /\ lock \in [Kinds -> Workers \cup {None}]
  BY DEF TypeOK, WorkerTypeOK, QueueTypeOK
<1> USE DEF WorkerAt
<1>1. CASE Find(w)
  <2>1. CASE WorkerGoes(w, "release")
    <3>1. UNCHANGED <<status, part, lock, wkind, wobj, wcopy>> /\ wpc' = [wpc EXCEPT ![w] = "release"]
          /\ wpc[w] = "find"
      BY <1>1, <2>1 DEF Find, WorkerGoes
    <3>2. QED
      BY <1>t, <3>1, FreshQuiet DEF InLockPC
  <2>2. CASE ~WorkerGoes(w, "release")
    <3>1. PICK o \in Oldest(wkind[w]) : /\ wobj' = [wobj EXCEPT ![w] = o]
                                        /\ wcopy' = [wcopy EXCEPT ![w] = "current"]
      BY <1>1, <2>2 DEF Find
    <3>2. /\ UNCHANGED <<status, part, lock, wkind>> /\ wpc' = [wpc EXCEPT ![w] = "process"]
          /\ wpc[w] = "find"
      BY <1>1, <2>2 DEF Find
    <3>3. o \in Model(wkind[w]) /\ status[o] = Expected(wkind[w])
      BY <3>1 DEF Oldest, Matching
    <3>4. LockOwned'
      BY <1>t, <3>2 DEF LockOwned, InLockPC
    <3>5. CopySound'
      BY <1>t, <3>1, <3>2, <3>3 DEF CopySound, Model, Expected
    <3>6. PartsSound'
      BY <3>2 DEF PartsSound
    <3>7. QED
      BY <3>4, <3>5, <3>6
  <2>3. QED
    BY <2>1, <2>2
<1>2. CASE Succeed(w)
  <2>1. PICK v, pc :
          /\ SaveRow(w, OkStatus(wkind[w]), "none") /\ WorkerGoes(w, pc)
          /\ part' = [part EXCEPT ![wobj[w]][Part(wkind[w])] = v]
          /\ wcopy[w] = "current" => v = "processed"
          /\ pc \in {"send_checker", "reset"} /\ lock' = lock /\ wpc[w] = "process"
    BY <1>2 DEF Succeed
  <2>2. pc \in InLockPC \ {"process"}
    BY <2>1 DEF InLockPC
  <2>3. QED
    BY <2>1, <2>2, SaveFresh
<1>3. CASE Fail(w)
  <2>1. PICK v, st, why :
          /\ SaveRow(w, st, why) /\ WorkerGoes(w, "reset")
          /\ part' = [part EXCEPT ![wobj[w]][Part(wkind[w])] = v]
          /\ wcopy[w] = "current" => v = "refused"
          /\ st = "error" \/ (st = "prompt" /\ wkind[w] = "checker")
          /\ lock' = lock /\ wpc[w] = "process"
    BY <1>3 DEF Fail
  <2>2. "reset" \in InLockPC \ {"process"}
    BY DEF InLockPC
  <2>3. QED
    BY <2>1, <2>2, SaveFresh
<1>4. CASE SendChecker(w) \/ Retry(w) \/ ResetAttempts(w)
  <2>1. /\ UNCHANGED <<status, part, lock, wkind, wobj, wcopy>>
        /\ \E pc \in {"reset", "release"} : wpc' = [wpc EXCEPT ![w] = pc]
        /\ wpc[w] \in {"send_checker", "process", "reset"}
    BY <1>4 DEF SendChecker, Retry, ResetAttempts, WorkerGoes
  <2>2. QED
    BY <1>t, <2>1, FreshQuiet DEF InLockPC
<1>5. CASE AfterRelease(w) \/ CrashWorker(w)
  <2>1. /\ UNCHANGED <<status, part, lock>>
        /\ wpc' = [wpc EXCEPT ![w] = "idle"] /\ wkind' = [wkind EXCEPT ![w] = "processor"]
        /\ wobj' = [wobj EXCEPT ![w] = None] /\ wcopy' = [wcopy EXCEPT ![w] = "current"]
    BY <1>5 DEF AfterRelease, CrashWorker, WorkerReturns
  <2>2. QED
    BY <1>t, <2>1, FreshQuiet DEF InLockPC
<1>6. CASE ReleaseLock(w) \/ Raise(w)
  <2>1. /\ UNCHANGED <<status, part>> /\ lock[wkind[w]] = w
        /\ lock' = [x \in Kinds |-> IF x = wkind[w] THEN None ELSE lock[x]]
        /\ wpc[w] \in InLockPC /\ wpc'[w] \notin InLockPC
        /\ \A x \in Workers : x # w =>
              wpc'[x] = wpc[x] /\ wkind'[x] = wkind[x] /\ wobj'[x] = wobj[x] /\ wcopy'[x] = wcopy[x]
    <3>1. wpc[w] \in InLockPC /\ lock[wkind[w]] = w
      BY <1>6 DEF ReleaseLock, Raise, InLockPC, LockOwned
    <3>2. CASE ReleaseLock(w)
      BY <1>t, <3>1, <3>2 DEF ReleaseLock, WorkerGoes, InLockPC
    <3>3. CASE Raise(w)
      BY <1>t, <3>1, <3>3 DEF Raise, WorkerReturns, InLockPC
    <3>4. QED
      BY <1>6, <3>2, <3>3
  <2>2. LockOwned'
    BY <1>t, <2>1 DEF LockOwned
  <2>3. CopySound'
    BY <2>1 DEF CopySound, Model, Expected, InLockPC
  <2>4. PartsSound'
    BY <2>1 DEF PartsSound
  <2>5. QED
    BY <2>2, <2>3, <2>4
<1>7. QED
  BY <1>1, <1>2, <1>3, <1>4, <1>5, <1>6

LEMMA TakeFresh ==
    ASSUME TypeOK, LockOwned, CopySound, PartsSound, NEW w \in Workers, NEW k \in Kinds,
           TakeLock(w, k)
    PROVE  LockOwned' /\ CopySound' /\ PartsSound'
<1>1. CASE lock[k] = None
  <2>1. /\ UNCHANGED <<status, part, wobj, wcopy>> /\ lock' = [lock EXCEPT ![k] = w]
        /\ wpc' = [wpc EXCEPT ![w] = "find"] /\ wkind' = [wkind EXCEPT ![w] = k]
    BY <1>1 DEF TakeLock
  <2>2. /\ wpc \in [Workers -> InLockPC \cup {"idle", "after"}] /\ wkind \in [Workers -> Kinds]
        /\ lock \in [Kinds -> Workers \cup {None}] /\ None \notin Workers
    BY LifecycleAssumption DEF TypeOK, WorkerTypeOK, QueueTypeOK
  <2>3. LockOwned'
    BY <1>1, <2>1, <2>2 DEF LockOwned
  <2>4. CopySound'
    BY <2>1, <2>2 DEF CopySound, Model, Expected
  <2>5. PartsSound'
    BY <2>1 DEF PartsSound
  <2>6. QED
    BY <2>3, <2>4, <2>5
<1>2. CASE lock[k] # None
  BY <1>2, FreshQuiet DEF TakeLock
<1>3. QED
  BY <1>1, <1>2

\* While no lock expires under a live task, an OK object is up to date, whatever
\* processes are killed, however requests and tasks interleave.
THEOREM OkIsUpToDateHolds == Spec => []OkIsUpToDate
<1>1. Init => FreshInv
  BY DEF Init, FreshInv, LockOwned, CopySound, PartsSound, InLockPC
<1>2. ASSUME TypeOK, FreshInv, [Next]_vars PROVE FreshInv'
  <2>1. SUFFICES ASSUME expiries' = 0 PROVE LockOwned' /\ CopySound' /\ PartsSound'
    BY DEF FreshInv
  <2>2. expiries = 0 \/ \E k \in Kinds : ExpireLock(k)
    <3>1. ASSUME NEW o \in Objects, ApiOn(o) PROVE expiries' = expiries
      BY <3>1 DEF ApiOn, Create, Destroy, UpdateZip, UpdateFromUrl, UpdateConfig,
         RefuseLocked, Accept
    <3>2. ASSUME NEW k \in Kinds, SendTask(k) \/ CrashApi(k) PROVE expiries' = expiries
      BY <3>2 DEF SendTask, CrashApi
    <3>3. ASSUME NEW w \in Workers, NEW k \in Kinds, TakeLock(w, k) PROVE expiries' = expiries
      BY <3>3 DEF TakeLock
    <3>4. ASSUME NEW w \in Workers,
                 \/ Find(w) \/ Succeed(w) \/ SendChecker(w) \/ Fail(w) \/ Retry(w)
                 \/ ResetAttempts(w) \/ ReleaseLock(w) \/ AfterRelease(w)
                 \/ CrashWorker(w) \/ Raise(w)
          PROVE  expiries' = expiries
      BY <3>4 DEF Find, Succeed, SendChecker, Fail, Retry, ResetAttempts,
         ReleaseLock, AfterRelease, CrashWorker, Raise
    <3>5. UNCHANGED vars => expiries' = expiries
      BY DEF vars
    <3>6. QED
      BY <1>2, <2>1, <3>1, <3>2, <3>3, <3>4, <3>5, NextCases
  <2>3. ASSUME NEW k \in Kinds, ExpireLock(k)
        PROVE  LockOwned' /\ CopySound' /\ PartsSound'
    <3>1. OwnerGone(k) /\ expiries = 0 /\ lock' = [lock EXCEPT ![k] = None]
          /\ UNCHANGED <<status, part, wpc, wkind, wobj, wcopy>>
      BY <1>2, <2>1, <2>3 DEF ExpireLock, TypeOK, HistoryTypeOK
    <3>2. LockOwned /\ CopySound /\ PartsSound
      BY <1>2, <3>1 DEF FreshInv
    <3>3. LockOwned'
      BY <1>2, <3>1, <3>2 DEF LockOwned, OwnerGone, InLockPC, TypeOK, QueueTypeOK, WorkerTypeOK
    <3>4. CopySound' /\ PartsSound'
      BY <3>1, <3>2 DEF CopySound, PartsSound, Model, Expected
    <3>5. QED
      BY <3>3, <3>4
  <2>4. CASE expiries = 0
    <3>1. LockOwned /\ CopySound /\ PartsSound
      BY <1>2, <2>4 DEF FreshInv
    <3>2. ASSUME NEW k \in Kinds, SendTask(k) \/ CrashApi(k)
          PROVE  LockOwned' /\ CopySound' /\ PartsSound'
      BY <3>1, <3>2, FreshQuiet DEF SendTask, CrashApi
    <3>3. CASE UNCHANGED vars
      BY <3>1, <3>3, FreshQuiet DEF vars
    <3>4. QED
      BY <1>2, <2>3, <3>1, <3>2, <3>3, NextCases, ApiFresh, TakeFresh, WorkerFresh
  <2>5. QED
    BY <2>2, <2>3, <2>4
<1>3. FreshInv => OkIsUpToDate
  BY DEF FreshInv, PartsSound, OkIsUpToDate
<1>4. QED
  BY <1>1, <1>2, <1>3, LifecycleTypeCorrect, PTL DEF Spec
=============================================================================
