------------------------------ MODULE Triggers ------------------------------
(***************************************************************************)
(* A trigger on changes of data (apps/triggers): a request that changes an *)
(* object or a user looks for triggers of its events before it commits, a  *)
(* task sent after the commit looks again and sends one task for each      *)
(* trigger.  Both read a cached match, which a change of the trigger       *)
(* invalidates: at once, as the cache waits for the commit of the default  *)
(* database and triggers are in another.                                   *)
(***************************************************************************)
EXTENDS Integers, FiniteSets

CONSTANTS
    Changes,        \* requests that change data
    NoEvent         \* the trigger is not there

VARIABLES
    on,           \* the event of the trigger in the database, NoEvent without it
    match,        \* by event: cached "hit", cached "miss", "-" if not cached
    saved,        \* the event a request has saved for the trigger, not committed
    progress,     \* by change and event: "none", "registered", "sent", "handled"
    request,      \* by change: "new", "open", "over", and what it changes
    due,          \* history: the events of a change the trigger had when it was made
    calm,         \* history: changes in whose time nothing happened to the trigger, and
                  \* whose events are not early
    early,        \* history: events looked up between a save of the trigger and its
                  \* commit, after the invalidation
    fired         \* trigger tasks: pairs of change and event, how many

triggersVars == <<on, match, saved, progress, request, due, calm, early, fired>>

(* Events: objects of a class, users, and objects of the profile class.     *)
TriggerEvents == {"class", "user", "profile"}

(* A user is also the object with its profile. *)
EventsOf(kind) == IF kind = "user" THEN {"user", "profile"} ELSE {"class"}

NotSaved == "not saved"

ASSUME TriggersAssumption == NoEvent \notin TriggerEvents \cup {NotSaved}

TriggersInit ==
    /\ on = NoEvent
    /\ match = [e \in TriggerEvents |-> "-"]
    /\ saved = NotSaved
    /\ progress = [c \in Changes |-> [e \in TriggerEvents |-> "none"]]
    /\ request = [c \in Changes |-> [at |-> "new", kind |-> "object"]]
    /\ due = [c \in Changes |-> {}]
    /\ calm = {} /\ early = {}
    /\ fired = [c \in Changes |-> [e \in TriggerEvents |-> 0]]

(* match_cached *)
Match(e) == IF match[e] # "-" THEN match[e] ELSE IF on = e THEN "hit" ELSE "miss"
Fills(events) ==
    /\ match' = [e \in TriggerEvents |-> IF e \in events THEN Match(e) ELSE match[e]]
    /\ early' = IF saved # NotSaved THEN early \cup {e \in events : match[e] = "-"} ELSE early

(* launch_trigger, for each event: the task waits for the commit. *)
ChangeData(c, kind) ==
    /\ request[c].at = "new"
    /\ request' = [request EXCEPT ![c] = [at |-> "open", kind |-> kind]]
    /\ Fills(EventsOf(kind))
    /\ progress' = [progress EXCEPT ![c] = [e \in TriggerEvents |->
                        IF e \in EventsOf(kind) /\ Match(e) = "hit" THEN "registered" ELSE "none"]]
    /\ due' = [due EXCEPT ![c] = EventsOf(kind) \cap {on}]
    /\ calm' = IF saved = NotSaved /\ early \cap EventsOf(kind) = {} THEN calm \cup {c} ELSE calm
    /\ UNCHANGED <<on, saved, fired>>

CommitData(c) ==
    /\ request[c].at = "open"
    /\ request' = [request EXCEPT ![c].at = "over"]
    /\ progress' = [progress EXCEPT ![c] = [e \in TriggerEvents |-> IF @[e] = "registered" THEN "sent" ELSE @[e]]]
    /\ UNCHANGED <<on, match, saved, due, calm, early, fired>>

(* A change that is undone is due to nobody. *)
RollbackData(c) ==
    /\ request[c].at = "open"
    /\ request' = [request EXCEPT ![c].at = "over"]
    /\ progress' = [progress EXCEPT ![c] = [e \in TriggerEvents |-> "none"]]
    /\ due' = [due EXCEPT ![c] = {}]
    /\ UNCHANGED <<on, match, saved, calm, early, fired>>

(* HandleTriggerEventTask *)
HandleEvent(c, e) ==
    /\ progress[c][e] = "sent"
    /\ progress' = [progress EXCEPT ![c][e] = "handled"]
    /\ Fills({e})
    /\ fired' = [fired EXCEPT ![c][e] = IF Match(e) = "hit" THEN @ + 1 ELSE @]
    /\ UNCHANGED <<on, saved, request, due, calm>>

-----------------------------------------------------------------------------
(* The trigger *)

FaultStale(new) == {new} \ {NoEvent}

(* trigger_post_save_handler, trigger_post_delete_handler: what a change of *)
(* the trigger's event makes stale.                                         *)
Stale(new) == {on, new} \ {NoEvent}

(* Created, updated or deleted, by its view or with its script: what is     *)
(* stale is invalidated while the change is not yet to be seen.             *)
SaveTrigger(new) ==
    /\ saved = NotSaved /\ new # on
    /\ saved' = new
    /\ match' = [e \in TriggerEvents |-> IF e \in Stale(new) THEN "-" ELSE match[e]]
    /\ early' = early \ Stale(new)
    /\ calm' = {}
    /\ UNCHANGED <<on, progress, request, due, fired>>

EndTrigger(event) ==
    /\ saved # NotSaved
    /\ on' = event
    /\ saved' = NotSaved
    /\ UNCHANGED <<match, progress, request, due, calm, early, fired>>
CommitTrigger == EndTrigger(saved)
UndoTrigger == EndTrigger(on)

(* The cache drops what it likes. *)
EvictMatch(e) ==
    /\ match[e] # "-"
    /\ match' = [match EXCEPT ![e] = "-"]
    /\ early' = early \ {e}
    /\ UNCHANGED <<on, saved, progress, request, due, calm, fired>>

TriggersNext ==
    \/ \E c \in Changes :
        \/ \E kind \in {"object", "user"} : ChangeData(c, kind)
        \/ CommitData(c) \/ RollbackData(c)
        \/ \E e \in TriggerEvents : HandleEvent(c, e)
    \/ \E e \in TriggerEvents \cup {NoEvent} : SaveTrigger(e)
    \/ CommitTrigger \/ UndoTrigger
    \/ \E e \in TriggerEvents : EvictMatch(e)

TriggersSpec == TriggersInit /\ [][TriggersNext]_triggersVars

-----------------------------------------------------------------------------
(* A change runs the trigger once if the trigger has its event, and not at  *)
(* all if it has not or the change was rolled back - unless the trigger     *)
(* itself changed in the meantime, or somebody looked the event up while a  *)
(* change of the trigger was being committed.  It never runs twice.         *)
FiresOnce ==
    \A c \in Changes : \A e \in TriggerEvents :
        /\ fired[c][e] <= 1
        /\ request[c].at = "over" /\ c \in calm /\ progress[c][e] # "sent"
            => fired[c][e] = Cardinality({e} \cap due[c])
=============================================================================
