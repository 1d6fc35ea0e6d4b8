----------------------------- MODULE Containers -----------------------------
(***************************************************************************)
(* The containers of one script worker (apps/codeboxes/container_manager,  *)
(* runner): one is prepared for a runtime, cached, and cleaned between     *)
(* runs of scripts of different tenants.  CodeBoxQueue has the queue; here *)
(* a spec waits, and goes back to wait if the container lets it down.      *)
(***************************************************************************)
EXTENDS Integers

CONSTANTS
    Specs,          \* specs of scripts with the same runtime
    Boxes,          \* containers this process may get to create
    NoBox

ASSUME ContainersAssumption == NoBox \notin Boxes

VARIABLES
    waiting,      \* specs in the queue
    boxes,        \* by container: its state, its wrapper, the specs with files in it
    cached,       \* container_cache of the runtime
    job,          \* the run: step, spec, container
    sent,         \* history: results sent by spec, counted up to 2
    unlucky       \* history: specs with a result whose container could not be replaced

containersVars == <<waiting, boxes, cached, job, sent, unlucky>>

Unborn == [state |-> "none", wrapper |-> "none", traces |-> {}]
Fresh == [state |-> "up", wrapper |-> "ready", traces |-> {}]

ContainersInit ==
    /\ waiting = Specs
    /\ boxes = [b \in Boxes |-> Unborn]
    /\ cached = NoBox
    /\ job = [at |-> "idle", spec |-> "none", box |-> NoBox]
    /\ sent = [s \in Specs |-> 0]
    /\ unlucky = {}

To(step) == job' = [job EXCEPT !.at = step]
Idle == job' = [at |-> "idle", spec |-> "none", box |-> NoBox]

(* CodeBoxRunTask pushes the spec back on a ContainerException or IOError. *)
GiveBack == waiting' = waiting \cup {job.spec}

(* prepare_container: both directories, the container, its wrapper. *)
Prepared(b, before) == before[b].state = "none" /\ boxes' = [before EXCEPT ![b] = Fresh]

(* get_container.  If none can be created the spec just goes back. *)
GetContainer(s) ==
    /\ job.at = "idle" /\ s \in waiting
    /\ waiting' = waiting \ {s}
    /\ IF cached = NoBox
       THEN \E b \in Boxes : Prepared(b, boxes) /\ cached' = b
       ELSE UNCHANGED <<boxes, cached>>
    /\ job' = [at |-> "write", spec |-> s, box |-> cached']
    /\ UNCHANGED <<sent, unlucky>>

(* The source goes to a directory that a disposed container has no more. *)
WriteSource ==
    /\ job.at = "write"
    /\ IF boxes[job.box].state = "up"
       THEN /\ boxes' = [boxes EXCEPT ![job.box].traces = @ \cup {job.spec}]
            /\ To("execute")
       ELSE UNCHANGED boxes /\ To("failed")
    /\ UNCHANGED <<waiting, cached, sent, unlucky>>

(* execute_wrapper: its socket is read once and closed.  A timeout is a     *)
(* result like any other.                                                   *)
RunScript ==
    /\ job.at = "execute"
    /\ boxes[job.box].wrapper = "ready"
    /\ boxes' = [boxes EXCEPT ![job.box].wrapper = "closed"]
    /\ To("result")
    /\ UNCHANGED <<waiting, cached, sent, unlucky>>

(* A ScriptWrapperError, as the socket is broken. *)
BreakWrapper ==
    /\ job.at = "execute"
    /\ To("broken")
    /\ UNCHANGED <<waiting, boxes, cached, sent, unlucky>>

(* process_result and the tasks and messages with the result, or an         *)
(* IOError on the output.                                                   *)
SendResult ==
    /\ job.at = "result"
    /\ \/ sent' = [sent EXCEPT ![job.spec] = IF @ = 2 THEN 2 ELSE @ + 1] /\ To("sent")
       \/ UNCHANGED sent /\ To("failed")
    /\ UNCHANGED <<waiting, boxes, cached, unlucky>>

FaultCleaned == [boxes EXCEPT ![job.box].wrapper = "ready"]

Cleaned == [boxes EXCEPT ![job.box] = Fresh]

(* cleanup_container, in the finally clause. *)
CleanupContainer ==
    /\ job.at \in {"sent", "failed"}
    /\ boxes[job.box].state = "up"
    /\ boxes' = Cleaned
    /\ IF job.at = "failed" THEN GiveBack ELSE UNCHANGED waiting
    /\ Idle
    /\ UNCHANGED <<cached, sent, unlucky>>

(* dispose_container, after a broken wrapper or a cleanup that failed.  The *)
(* container prepared instead is not cached, and if that fails its error    *)
(* takes the place of the run's outcome.                                    *)
ReplaceContainer ==
    /\ job.at \in {"sent", "failed", "broken"}
    /\ LET gone == [boxes EXCEPT ![job.box] = [state |-> "removed", wrapper |-> "closed", traces |-> {}]]
       IN  \/ /\ \E b \in Boxes : Prepared(b, gone)
              /\ IF job.at # "sent" THEN GiveBack ELSE UNCHANGED waiting
              /\ UNCHANGED unlucky
           \/ /\ boxes' = gone
              /\ GiveBack
              /\ unlucky' = IF job.at = "sent" THEN unlucky \cup {job.spec} ELSE unlucky
    /\ Idle
    /\ UNCHANGED <<cached, sent>>

(* The process ends (dispose_all_containers), or dies and leaves its        *)
(* containers behind; another one takes its place.                          *)
RestartWorker ==
    /\ job.at = "idle"
    /\ boxes' = [b \in Boxes |-> Unborn]
    /\ cached' = NoBox
    /\ UNCHANGED <<waiting, job, sent, unlucky>>

ContainersNext ==
    \/ \E s \in Specs : GetContainer(s)
    \/ WriteSource \/ RunScript \/ BreakWrapper \/ SendResult
    \/ CleanupContainer \/ ReplaceContainer \/ RestartWorker

ContainersSpec == ContainersInit /\ [][ContainersNext]_containersVars

-----------------------------------------------------------------------------
(* A script runs among no files but its own, after whatever failed before   *)
(* it, and a spec has one result - unless no container could be had after   *)
(* its run, which makes the worker run it again.                            *)
OwnRunOnly ==
    /\ job.at = "execute" => boxes[job.box].traces = {job.spec}
    /\ \A s \in Specs : s \notin unlucky => sent[s] <= 1 /\ (s \in waiting => sent[s] = 0)

(* "Cleanup wasn't fully successful, deleting container and recreating it." *)
(* (runner.py:152): the container the next run gets is there.               *)
ContainerRecreated == job.at = "idle" /\ cached # NoBox => boxes[cached].state = "up"
=============================================================================
