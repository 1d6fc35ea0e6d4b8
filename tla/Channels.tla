------------------------------ MODULE Channels ------------------------------
(***************************************************************************)
(* One room of a channel: publishers, its list of changes in redis, one    *)
(* process of the async handlers with its subscription connection, and     *)
(* clients that poll or hold a websocket and come back with the id of the  *)
(* last change they received (apps/channels/models.py,                     *)
(* apps/channels/handlers.py, apps/async_tasks/handlers.py).               *)
(*                                                                         *)
(* A change is saved and published under the lock of the room.  A client   *)
(* subscribes first, reads the list second, and then takes the changes     *)
(* that the listener puts into its bounded queue.                          *)
(***************************************************************************)
EXTENDS Integers, SequencesExt

CONSTANTS
    Pollers,        \* clients of ChannelPollHandler
    Sockets,        \* clients of ChannelWSHandler
    Newcomers,      \* clients that first come without a last id
    MaxCalls,       \* bound: calls of create_change, numbered as they start
    MaxFaults,      \* bound: kills, expiries, slow answers, lost connections
    MaxTries,       \* SUBSCRIBE_MAX_TRIES
    SocketQueue,    \* ChannelWSHandler.max_queue_size
    ListMax         \* Change.list_max_size

Clients == Pollers \cup Sockets

ASSUME ChannelsAssumption ==
    /\ IsFiniteSet(Clients) /\ Pollers \cap Sockets = {} /\ Newcomers \subseteq Clients
    /\ MaxCalls \in Nat /\ MaxFaults \in Nat /\ MaxTries \in Nat
    /\ SocketQueue \in Nat \ {0} /\ ListMax \in Nat \ {0}

Publications == 1..MaxCalls
Ids == 1..MaxCalls
Confirmation == 0       \* in the wire, next to the ids of changes

VARIABLES
    call,       \* each call of create_change: next step and id
    lock,       \* the call that holds the room's lock, at most one
    seq,        \* the sequence of change ids
    listed,     \* ids in the room's list
    conn,       \* the pubsub object: "none", "opening" or "open"
    cmds,       \* commands on their way to redis
    streaming, \* whether redis sends this connection the room's messages
    stream,       \* messages on their way to the listener
    event,      \* channel_data: "absent", "unset" or "set"
    registered, \* client_data: clients whose queue gets messages
    queue,      \* each client's queue
    visit,    \* each client: step, last_id, data_counter, try_
    cursor,     \* the last id a client received or started with, at most one
    got,        \* history: the ids each client received, in order
    start,      \* history: the last id of its first session with one, at most one
    saved,      \* history: ids saved
    sent,  \* history: ids published
    late,       \* history: ids saved or published after a greater one
    trimmed,    \* history: ids trimmed from the list
    faults,     \* bounded events so far
    stale       \* history: whether messages were lost with a connection or an
                \* event was set by an older confirmation

publishVars == <<call, lock, seq, listed, saved, sent, late, trimmed>>
connVars == <<conn, cmds, streaming, stream>>
listenerVars == <<event, registered, queue>>
clientVars == <<visit, cursor, got, start>>
faultVars == <<faults, stale>>
vars == <<publishVars, connVars, listenerVars, clientVars, faultVars>>

Away == [pc |-> "away", last |-> {}, left |-> 0, try |-> 1]

\* maxsize of a client's queue, and the changes it may get in one session
MaxSize(c) == IF c \in Pollers THEN 1 ELSE SocketQueue

Init ==
    /\ call = [k \in Publications |-> [pc |-> "new", id |-> 0]]
    /\ lock = {} /\ seq = 0 /\ listed = {}
    /\ conn = "none" /\ cmds = <<>> /\ streaming = "no" /\ stream = <<>>
    /\ event = "absent" /\ registered = {} /\ queue = [c \in Clients |-> <<>>]
    /\ visit = [c \in Clients |-> Away]
    /\ cursor = [c \in Clients |-> IF c \in Newcomers THEN {} ELSE {0}]
    /\ got = [c \in Clients |-> <<>>] /\ start = cursor
    /\ saved = {} /\ sent = {} /\ late = {} /\ trimmed = {}
    /\ faults = 0 /\ stale = "no"

Fault == faults < MaxFaults /\ faults' = faults + 1

-----------------------------------------------------------------------------
(* Channel.create_change *)

\* redis.lock, and AutoField.get_next_value: INCR.  Only the order of the INCRs
\* matters to what follows, so the two are one step.
TakeNumber(k) ==
    /\ call[k].pc = "new" /\ lock = {}
    /\ k > 1 => call[k - 1].pc # "new"
    /\ lock' = {k}
    /\ seq' = seq + 1
    /\ call' = [call EXCEPT ![k] = [pc |-> "save", id |-> seq + 1]]
    /\ UNCHANGED <<listed, saved, sent, late, trimmed, connVars, listenerVars,
                   clientVars, faultVars>>

Overtaken(i, ids) == IF \E j \in ids : j > i THEN {i} ELSE {}

\* zadd and zremrangebyrank in one MULTI
SaveChange(k) ==
    LET i == call[k].id
        all == listed \cup {i}
        cut == IF i > ListMax
               THEN {j \in all : Cardinality({l \in all : l > j}) >= ListMax}
               ELSE {}
    IN  /\ call[k].pc = "save"
        /\ listed' = all \ cut
        /\ saved' = saved \cup {i}
        /\ late' = late \cup Overtaken(i, saved)
        /\ trimmed' = trimmed \cup cut
        /\ call' = [call EXCEPT ![k].pc = "publish"]
        /\ UNCHANGED <<lock, seq, sent, connVars, listenerVars, clientVars,
                       faultVars>>

\* redis.publish to the room's stream; then the lock is released, if it is still
\* this call's.
PublishChange(k) ==
    LET i == call[k].id
    IN  /\ call[k].pc = "publish"
        /\ stream' = IF streaming = "yes" THEN Append(stream, i) ELSE stream
        /\ sent' = sent \cup {i}
        /\ late' = late \cup Overtaken(i, sent)
        /\ lock' = lock \ {k}
        /\ call' = [call EXCEPT ![k].pc = "done"]
        /\ UNCHANGED <<seq, listed, saved, trimmed, conn, cmds, streaming,
                       listenerVars, clientVars, faultVars>>

\* LOCK_TIMEOUT is over; the call may still be at work.
ExpireLock(k) ==
    /\ k \in lock
    /\ \/ call[k].pc = "killed" /\ UNCHANGED faults
       \/ call[k].pc # "killed" /\ Fault
    /\ lock' = {}
    /\ UNCHANGED <<call, seq, listed, saved, sent, late, trimmed, connVars,
                   listenerVars, clientVars, stale>>

KillPublisher(k) ==
    /\ call[k].pc \notin {"new", "done", "killed"}
    /\ Fault
    /\ call' = [call EXCEPT ![k].pc = "killed"]
    /\ UNCHANGED <<lock, seq, listed, saved, sent, late, trimmed, connVars,
                   listenerVars, clientVars, stale>>

-----------------------------------------------------------------------------
(* The connection, as redis and redis-py treat it *)

RunCommand ==
    /\ cmds # <<>>
    /\ conn' = "open"
    /\ cmds' = Tail(cmds)
    /\ \/ /\ Head(cmds) = "subscribe"
          /\ streaming' = "yes"
          /\ stream' = Append(stream, Confirmation)
       \/ /\ Head(cmds) = "unsubscribe"
          /\ streaming' = "no"
          /\ UNCHANGED stream
    /\ UNCHANGED <<publishVars, listenerVars, clientVars, faultVars>>

\* While the first subscribe connects, the pubsub property gives a client of
\* another room a new object; nobody listens to the first one.
ReplacePubsub ==
    /\ conn = "opening"
    /\ Fault
    /\ conn' = "open"
    /\ cmds' = <<>>
    /\ UNCHANGED <<publishVars, streaming, stream, listenerVars, clientVars,
                   stale>>

\* The connection breaks; redis-py connects and subscribes again.
Reconnect ==
    /\ streaming = "yes" /\ cmds = <<>>
    /\ Fault
    /\ stream' = <<Confirmation>>
    /\ stale' = "yes"
    /\ UNCHANGED <<publishVars, conn, cmds, streaming, listenerVars, clientVars>>

-----------------------------------------------------------------------------
(* RedisPubSubHandler *)

\* What reset() leaves: a new pubsub, no channels, no clients; whoever waits
\* holds an event that nobody will set.
Cleared ==
    /\ conn' = "none" /\ cmds' = <<>> /\ streaming' = "no" /\ stream' = <<>>
    /\ event' = "absent" /\ registered' = {}

Orphaned(visits) ==
    [c \in Clients |->
        IF visits[c].pc = "wait" THEN [visits[c] EXCEPT !.pc = "orphaned"]
        ELSE visits[c]]

\* subscribe(): a new queue, the event of the channel, and the wait for it
SubscribeClient(c) ==
    /\ visit[c].pc = "subscribe"
    /\ queue' = [queue EXCEPT ![c] = <<>>]
    /\ registered' = registered \cup {c}
    /\ \/ event = "absent" /\ event' = "unset" /\ cmds' = Append(cmds, "subscribe")
       \/ event # "absent" /\ UNCHANGED <<event, cmds>>
    /\ conn' = IF event = "absent" /\ conn = "none" THEN "opening" ELSE conn
    /\ visit' = [visit EXCEPT ![c].pc = IF event = "set" THEN "read" ELSE "wait"]
    /\ UNCHANGED <<publishVars, streaming, stream, cursor, got, start,
                   faultVars>>

\* A confirmation is on its way to a client that waits for it.
Confirming == (\E d \in Clients : visit[d].pc = "wait") /\ (cmds # <<>> \/ stream # <<>>)

\* The event was not set in time: reset(), and the next try or, after the last,
\* uwsgi.stop(), which takes every client of the process with it.  Three seconds
\* are enough for a confirmation, unless redis is slow.
TimeOut(c) ==
    /\ visit[c].pc \in {"wait", "orphaned"}
    /\ \/ Confirming /\ Fault
       \/ ~Confirming /\ UNCHANGED faults
    /\ Cleared
    /\ \/ /\ visit[c].try <= MaxTries
          /\ visit' = [Orphaned(visit) EXCEPT ![c] =
                [visit[c] EXCEPT !.pc = "subscribe", !.try = @ + 1]]
       \/ /\ visit[c].try > MaxTries
          /\ visit' = [d \in Clients |-> Away]
    /\ UNCHANGED <<publishVars, queue, cursor, got, start, stale>>

\* A client of another room times out and resets the connection of all.
ResetByOther ==
    /\ conn # "none"
    /\ Fault
    /\ Cleared
    /\ visit' = Orphaned(visit)
    /\ UNCHANGED <<publishVars, queue, cursor, got, start, stale>>

\* unsubscribe() of these clients, one after the other: with the last of them
\* the channel goes, and the event that an unregistered client may wait for.
UnsubscribeClients(gone, visits) ==
    LET drop == event # "absent" /\ gone # {} /\ registered \ gone = {}
    IN  /\ registered' = registered \ gone
        /\ event' = IF drop THEN "absent" ELSE event
        /\ cmds' = IF drop THEN Append(cmds, "unsubscribe") ELSE cmds
        /\ visit' = IF drop THEN Orphaned(visits) ELSE visits

\* listen(): a confirmation sets the event of the channel.
ListenConfirmation ==
    /\ stream # <<>> /\ Head(stream) = Confirmation
    /\ stream' = Tail(stream)
    /\ \/ event = "absent" /\ UNCHANGED <<event, visit, stale>>
       \/ /\ event # "absent"
          /\ event' = "set"
          /\ stale' = IF cmds # <<>> \/ Confirmation \in Range(Tail(stream))
                      THEN "yes" ELSE stale
          /\ visit' = [c \in Clients |->
                IF visit[c].pc = "wait" THEN [visit[c] EXCEPT !.pc = "read"]
                ELSE visit[c]]
    /\ UNCHANGED <<publishVars, conn, cmds, streaming, registered, queue, cursor,
                   got, start, faults>>

IsFull(c) == Len(queue[c]) >= MaxSize(c)

\* listen(): a change goes to every queue; who has no room is unsubscribed.
ListenChange ==
    /\ stream # <<>> /\ Head(stream) # Confirmation
    /\ stream' = Tail(stream)
    /\ queue' = [c \in Clients |->
            IF c \in registered /\ ~IsFull(c) THEN Append(queue[c], Head(stream))
            ELSE queue[c]]
    /\ UnsubscribeClients({c \in registered : IsFull(c)}, visit)
    /\ UNCHANGED <<publishVars, conn, streaming, cursor, got, start,
                   faultVars>>

-----------------------------------------------------------------------------
(* ChannelViewSet.poll and ChannelHandler *)

\* Fault: the range of the list includes the last id.
FaultNewerInclusive(last, n) ==
    LET after == {i \in listed : \A l \in last : i >= l}
    IN  {i \in after : Cardinality({j \in after : j < i}) < n}

\* Ids in the list after those in last, at most n of them, smallest first
Newer(last, n) ==
    LET after == {i \in listed : \A l \in last : i > l}
    IN  {i \in after : Cardinality({j \in after : j < i}) < n}

\* These ids as a sequence, smallest first: the n-th has n - 1 smaller ones.
InIdOrder(ids) ==
    [n \in 1..Cardinality(ids) |->
        CHOOSE i \in ids : Cardinality({j \in ids : j < i}) = n - 1]

\* The client receives these changes, in order.
Deliver(c, ids) ==
    /\ got' = [got EXCEPT ![c] = @ \o InIdOrder(ids)]
    /\ cursor' = [cursor EXCEPT ![c] =
                     IF @ \cup ids = {} THEN {} ELSE {Max(@ \cup ids)}]

\* process_poll: a change in the list is the answer, or the request is handed on
\* to the async handler, as every websocket is.
Request(c) ==
    /\ visit[c].pc = "away"
    /\ LET found == IF c \in Pollers /\ cursor[c] # {} THEN Newer(cursor[c], 1) ELSE {}
       IN  /\ Deliver(c, found)
           /\ visit' = IF found # {} THEN visit
                         ELSE [visit EXCEPT ![c] =
                            [Away EXCEPT !.pc = "subscribe", !.last = cursor[c]]]
    /\ start' = IF start[c] = {} THEN [start EXCEPT ![c] = cursor[c]] ELSE start
    /\ UNCHANGED <<publishVars, connVars, listenerVars, faultVars>>

\* Fault: the list is not read.
FaultSkipDatabase(c) ==
    /\ visit[c].pc = "read"
    /\ visit' = [visit EXCEPT ![c].pc = "take", ![c].left = MaxSize(c)]
    /\ UNCHANGED <<publishVars, connVars, listenerVars, cursor, got, start,
                   faultVars>>

\* get_change_from_database, unless the client has no last id
ReadDatabase(c) ==
    LET last == visit[c].last
        found == IF last = {} THEN {} ELSE Newer(last, MaxSize(c))
    IN  /\ visit[c].pc = "read"
        /\ Deliver(c, found)
        /\ visit' = [visit EXCEPT ![c].pc = "take",
                          ![c].last = IF found = {} THEN last ELSE {Max(found)},
                          ![c].left = MaxSize(c) - Cardinality(found)]
        /\ UNCHANGED <<publishVars, connVars, listenerVars, start, faultVars>>

\* process_queue: pass on what is newer than the last id of the list
TakeFromQueue(c) ==
    /\ visit[c].pc = "take" /\ visit[c].left > 0 /\ queue[c] # <<>>
    /\ queue' = [queue EXCEPT ![c] = Tail(@)]
    /\ LET new == {i \in {Head(queue[c])} : \A l \in visit[c].last : i > l}
       IN  /\ Deliver(c, new)
           /\ visit' = [visit EXCEPT ![c].left = @ - Cardinality(new)]
    /\ UNCHANGED <<publishVars, connVars, event, registered, start, faultVars>>

\* CHANNEL_POLL_TIMEOUT is over or data_counter used up; unsubscribe.
EndSession(c) ==
    /\ visit[c].pc = "take"
    /\ queue' = [queue EXCEPT ![c] = <<>>]
    /\ UnsubscribeClients({c}, [visit EXCEPT ![c] = Away])
    /\ UNCHANGED <<publishVars, conn, streaming, stream, cursor, got, start,
                   faultVars>>

-----------------------------------------------------------------------------
ClientStep(c) ==
    \/ Request(c) \/ SubscribeClient(c) \/ TimeOut(c)
    \/ ReadDatabase(c) \/ TakeFromQueue(c)

Listen == ListenConfirmation \/ ListenChange

Next ==
    \/ \E k \in Publications : \/ TakeNumber(k) \/ SaveChange(k) \/ PublishChange(k)
                        \/ ExpireLock(k) \/ KillPublisher(k)
    \/ RunCommand \/ ReplacePubsub \/ Reconnect
    \/ Listen \/ ResetByOther
    \/ \E c \in Clients : ClientStep(c) \/ EndSession(c)

\* Redis answers, the greenlets run and end at their timeouts, clients come back,
\* and the wait for an event that nobody will set ends whatever others do.
Fairness ==
    /\ WF_vars(RunCommand) /\ WF_vars(Listen)
    /\ \A c \in Clients : WF_vars(ClientStep(c) \/ EndSession(c)) /\ SF_vars(TimeOut(c))

Spec == Init /\ [][Next]_vars
FairSpec == Spec /\ Fairness

-----------------------------------------------------------------------------
(* Properties *)

\* Every variable has its type; no queue outgrows its bound; at most one holder
\* of the lock.
TypeOK ==
    /\ \A k \in Publications : call[k].id \in 0..seq
    /\ lock \subseteq Publications /\ Cardinality(lock) <= 1
    /\ seq \in 0..MaxCalls /\ sent \subseteq saved /\ saved \subseteq 1..seq
    /\ listed = saved \ trimmed
    /\ conn \in {"none", "opening", "open"} /\ streaming \in {"yes", "no"}
    /\ cmds \in Seq({"subscribe", "unsubscribe"}) /\ stream \in Seq(0..seq)
    /\ event \in {"absent", "unset", "set"} /\ registered \subseteq Clients
    /\ \A c \in Clients :
        /\ queue[c] \in Seq(saved) /\ Len(queue[c]) <= MaxSize(c)
        /\ visit[c].pc \in {"away", "subscribe", "wait", "orphaned", "read", "take"}
        /\ visit[c].left \in 0..MaxSize(c) /\ visit[c].try \in 1..MaxTries + 1
        /\ got[c] \in Seq(saved) /\ Cardinality(cursor[c]) <= 1

\* No change is passed over: what a client has received since it first came with a
\* last id is everything saved after that id, up to the last, but for changes whose
\* publisher lost the lock or was killed, changes trimmed from the list, and a lost
\* connection or an event set by an older confirmation.
NoGap ==
    stale = "no" =>
        \A c \in Clients : got[c] # <<>> =>
            \A i \in saved, s \in start[c] : s < i /\ i < Max(Range(got[c]))
                => i \in Range(got[c]) \cup late \cup trimmed \cup (saved \ sent)

\* No change is delivered twice or after a newer one, but for those overtaken by
\* another publisher when the lock expired.
InOrder ==
    \A c \in Clients : \A m, n \in DOMAIN got[c] : m < n =>
        got[c][m] < got[c][n] \/ (got[c][n] \in late /\ got[c][m] # got[c][n])

\* A client that follows the room by its last id gets every change, once and in
\* order.
FollowsRoom == NoGap /\ InOrder

\* Once publishers are quiet every client that has a last id has caught up with the
\* list, from its queue or, after full queues, resets and timeouts, from the list.
CatchesUp ==
    <>[](\A c \in Clients : cursor[c] # {} => Newer(cursor[c], 1) = {})
=============================================================================
