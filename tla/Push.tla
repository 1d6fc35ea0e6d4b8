-------------------------------- MODULE Push --------------------------------
(***************************************************************************)
(* Push notifications (apps/push_notifications): devices of Apple and of   *)
(* Google, the count of Apple devices that decides whether an instance's   *)
(* feedback is fetched, and messages sent to a gateway by a task.          *)
(* Requests are not atomic and lock no rows.  Apple and Google share no    *)
(* state, each has a next-state relation of its own.                       *)
(***************************************************************************)
EXTENDS Integers, FiniteSets

CONSTANTS
    Devices,        \* APNS devices
    Editors,        \* requests about them
    Tokens,         \* registration ids of GCM devices
    MaxEdits,       \* requests about APNS devices in a behaviour
    MaxMisses       \* lost tasks in a behaviour

ASSUME PushAssumption ==
    /\ IsFiniteSet(Devices) /\ IsFiniteSet(Tokens)
    /\ MaxEdits \in Nat /\ MaxMisses \in Nat

VARIABLES
    apns,         \* by device: "none", "active" or "inactive"
    apnsCount,    \* InstanceIndicator of the APNS devices
    edit,         \* by request: the device, what it read and what it wants
    edits,
    told,         \* feedback of Apple: devices that are gone
    polled,       \* the feedback task is under way
    gcm,          \* by registration id: the GCM device
    message,      \* a GCM message: status, targets, those accepted by the gateway
    misses,
    ghosts,       \* history: devices counted that are not active
    overlapped    \* history: two requests about one device at a time

pushVars == <<apns, apnsCount, edit, edits, told, polled, gcm, message, misses, ghosts, overlapped>>

DeviceStates == {"none", "active", "inactive"}
NoEdit == [device |-> {}, seen |-> "none", wanted |-> "none"]
NoMessage == [status |-> "none", targets |-> {}, accepted |-> {}, foreign |-> {}, clash |-> "no"]

PushInit ==
    /\ apns = [d \in Devices |-> "none"]
    /\ apnsCount = 0
    /\ edit = [e \in Editors |-> NoEdit] /\ edits = 0
    /\ told = {} /\ polled = "no"
    /\ gcm = [t \in Tokens |-> "none"]
    /\ message = NoMessage
    /\ misses = 0
    /\ ghosts = 0 /\ overlapped = "no"

Active == {d \in Devices : apns[d] = "active"}
One(condition) == IF condition THEN 1 ELSE 0

-----------------------------------------------------------------------------
(* Apple *)

(* The view reads the device; `wanted' is the is_active of a POST, a PUT or *)
(* a PATCH, or a deletion.                                                  *)
ReadDevice(e, d, wanted) ==
    /\ edit[e] = NoEdit /\ edits < MaxEdits
    /\ ~(apns[d] = "none" /\ wanted = "none")
    /\ edit' = [edit EXCEPT ![e] = [device |-> {d}, seen |-> apns[d], wanted |-> wanted]]
    /\ edits' = edits + 1
    /\ overlapped' = IF \E f \in Editors : edit[f].device = {d} THEN "yes" ELSE overlapped
    /\ UNCHANGED <<apns, apnsCount, told, polled, gcm, message, misses, ghosts>>

FaultDeviceChange(seen, wanted) ==
    IF seen = "none" THEN 1 ELSE One(wanted = "active") - One(seen = "active" \/ wanted = "none")

(* apns_devices_post_save, apns_devices_post_delete_handler: a new device   *)
(* counts, active or not.                                                   *)
DeviceChange(seen, wanted) ==
    IF seen = "none" THEN 1 ELSE One(wanted = "active") - One(seen = "active")

(* A registration id is unique: a second POST fails. *)
SaveDevice(e) ==
    /\ edit[e] # NoEdit
    /\ \E d \in edit[e].device :
        /\ IF edit[e].seen = "none" /\ apns[d] # "none"
           THEN UNCHANGED <<apns, apnsCount, ghosts>>
           ELSE /\ apns' = [apns EXCEPT ![d] = edit[e].wanted]
                /\ apnsCount' = apnsCount + DeviceChange(edit[e].seen, edit[e].wanted)
                /\ ghosts' = ghosts + One(edit[e].seen = "none" /\ edit[e].wanted = "inactive")
                                    - One(edit[e].seen = "active" /\ apns[d] # "active")
    /\ edit' = [edit EXCEPT ![e] = NoEdit]
    /\ UNCHANGED <<edits, told, polled, gcm, message, misses, overlapped>>

(* Apple notes a device that is gone. *)
Uninstall(d) ==
    /\ d \notin told /\ apns[d] # "none"
    /\ told' = told \cup {d}
    /\ UNCHANGED <<apns, apnsCount, edit, edits, polled, gcm, message, misses, ghosts, overlapped>>

(* APNSFeedbackDispatcher: instances with a count. *)
DispatchFeedback ==
    /\ polled = "no" /\ apnsCount > 0
    /\ polled' = "yes"
    /\ UNCHANGED <<apns, apnsCount, edit, edits, told, gcm, message, misses, ghosts, overlapped>>

(* GetAPNSFeedback: an update() of the devices, without their handlers.     *)
(* Apple forgets what it has told.                                          *)
GetFeedback ==
    /\ polled = "yes"
    /\ polled' = "no"
    /\ \/ /\ apns' = [d \in Devices |-> IF d \in told /\ apns[d] = "active" THEN "inactive" ELSE apns[d]]
          /\ ghosts' = ghosts + Cardinality(told \cap Active)
          /\ told' = {}
       \* No certificate, or an error of the connection.
       \/ UNCHANGED <<apns, ghosts, told>>
    /\ UNCHANGED <<apnsCount, edit, edits, gcm, message, misses, overlapped>>

-----------------------------------------------------------------------------
(* Google *)

(* A device is posted, put or deleted. *)
SaveGCMDevice(t, state) ==
    /\ gcm[t] # state
    /\ gcm' = [gcm EXCEPT ![t] = state]
    /\ UNCHANGED <<apns, apnsCount, edit, edits, told, polled, message, misses, ghosts, overlapped>>

(* A message is created with its task, for any registration ids. *)
CreateMessage(targets) ==
    /\ message.status = "none"
    /\ message' = [NoMessage EXCEPT !.status = "scheduled", !.targets = targets]
    /\ UNCHANGED <<apns, apnsCount, edit, edits, told, polled, gcm, misses, ghosts, overlapped>>

LoseMessage ==
    /\ message.status = "scheduled" /\ misses < MaxMisses
    /\ message' = [message EXCEPT !.status = "lost"]
    /\ misses' = misses + 1
    /\ UNCHANGED <<apns, apnsCount, edit, edits, told, polled, gcm, ghosts, overlapped>>

Known(tokens) == {t \in tokens : gcm[t] # "none"}

(* make_request: only ids of devices count as invalid. *)
SentStatus(targets, rejected) ==
    CASE Cardinality(Known(rejected)) = Cardinality(targets) -> "error"
      [] Known(rejected) = {} -> "delivered"
      [] OTHER -> "partially_delivered"

(* SendGCMMessage.  Google rejects ids, deactivating their devices, and may *)
(* name a canonical id in place of one - which a device has already, or not.*)
SendMessage(rejected, old, new) ==
    /\ message.status = "scheduled"
    /\ rejected \subseteq message.targets /\ old \in message.targets \ rejected
    /\ LET marked == [t \in Tokens |-> IF t \in Known(rejected) THEN "inactive" ELSE gcm[t]]
           clash == old # new /\ gcm[old] # "none" /\ gcm[new] # "none"
       IN  /\ gcm' = IF clash \/ gcm[old] = "none" THEN marked
                     ELSE [t \in Tokens |-> IF t = new THEN marked[old] ELSE IF t = old THEN "none" ELSE marked[t]]
           /\ message' = [message EXCEPT
                !.status = IF clash THEN "error" ELSE SentStatus(message.targets, rejected),
                !.accepted = message.targets \ rejected,
                !.foreign = rejected \ Known(rejected),
                !.clash = IF clash THEN "yes" ELSE "no"]
    /\ UNCHANGED <<apns, apnsCount, edit, edits, told, polled, misses, ghosts, overlapped>>

(* All are rejected, or there is no key, or no answer. *)
FailMessage ==
    /\ message.status = "scheduled"
    /\ \/ /\ gcm' = [t \in Tokens |-> IF t \in Known(message.targets) THEN "inactive" ELSE gcm[t]]
          /\ message' = [message EXCEPT !.status = SentStatus(message.targets, message.targets),
                                        !.foreign = message.targets \ Known(message.targets)]
       \/ /\ UNCHANGED gcm
          /\ message' = [message EXCEPT !.status = "error"]
    /\ UNCHANGED <<apns, apnsCount, edit, edits, told, polled, misses, ghosts, overlapped>>

AppleNext ==
    \/ \E e \in Editors :
        \/ \E d \in Devices, wanted \in DeviceStates : ReadDevice(e, d, wanted)
        \/ SaveDevice(e)
    \/ \E d \in Devices : Uninstall(d)
    \/ DispatchFeedback \/ GetFeedback

GoogleNext ==
    \/ \E t \in Tokens, state \in DeviceStates : SaveGCMDevice(t, state)
    \/ \E targets \in SUBSET Tokens \ {{}} : CreateMessage(targets)
    \/ \E rejected \in SUBSET Tokens, old, new \in Tokens : SendMessage(rejected, old, new)
    \/ LoseMessage \/ FailMessage

PushNext == AppleNext \/ GoogleNext

PushSpec == PushInit /\ [][PushNext]_pushVars

-----------------------------------------------------------------------------
(* An instance with an active device is polled for feedback: its count is   *)
(* its active devices and those that were counted and are not, so it never  *)
(* is too low - unless two requests about a device overlapped, when both    *)
(* may take it off.                                                         *)
PolledWhileActive ==
    overlapped = "no" => apnsCount = Cardinality(Active) + ghosts /\ ghosts >= 0

(* What a message reports is what Google did with it, but for ids that no   *)
(* device of the instance has and for a canonical id that another one has.  *)
ReportIsTrue ==
    /\ message.status = "delivered" => message.accepted = message.targets \ message.foreign
    /\ message.status = "error" /\ message.clash = "no" => message.accepted = {}

(* Devices that services reject are noticed, and a message reports what     *)
(* became of it.                                                            *)
PushIsSound == PolledWhileActive /\ ReportIsTrue
=============================================================================
