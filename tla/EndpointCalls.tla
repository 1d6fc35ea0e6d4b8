--------------------------- MODULE EndpointCalls ---------------------------
(***************************************************************************)
(* A call of a script or socket endpoint and the way its result comes back *)
(* (apps/webhooks, apps/sockets/v2/views.py, apps/async_tasks/handlers.py).*)
(*                                                                         *)
(* The view checks the call, puts its payload in Redis and hands the       *)
(* request over to a handler process.  There a greenlet subscribes to a    *)
(* Redis channel of its own, waits for the confirmation, queues the task   *)
(* and waits for one message.  All greenlets of the process share one      *)
(* connection, one listener and two tables, channel_data and client_data,  *)
(* and a greenlet whose confirmation is late resets them for everybody.    *)
(***************************************************************************)
EXTENDS Naturals, Sequences, FiniteSets

CONSTANTS
    Calls,               \* calls of endpoints
    SubscribeMaxTries    \* SUBSCRIBE_MAX_TRIES

ASSUME CallsAssumption == SubscribeMaxTries \in Nat \ {0}

VARIABLES
    stage,        \* where the greenlet of each call is
    answer,       \* what its client got
    tries,        \* try_ of its subscribe()
    channelData,  \* channels with an event in channel_data
    clientData,   \* channels with a queue in client_data
    confirmed,    \* calls whose own event is set
    pending,        \* channels whose SUBSCRIBE is on its way to Redis
    subscribed,   \* channels Redis sends to the connection
    wire,         \* messages on their way from Redis to the listener
    results,      \* calls with a result in their queue
    payloads,     \* payloads in Redis
    tasks,        \* script tasks that wait for a worker
    scripts,      \* scripts that run
    published,    \* history: calls whose result was published
    dropped       \* history: calls whose channel a reset has taken away

handlerVars == <<channelData, clientData, confirmed, pending, subscribed, wire, results, dropped>>
workerVars == <<payloads, tasks, scripts, published>>
callsVars == <<stage, answer, tries, handlerVars, workerVars>>

CallsInit ==
    /\ stage = [c \in Calls |-> "new"]
    /\ answer = [c \in Calls |-> "none"]
    /\ tries = [c \in Calls |-> 0]
    /\ channelData = {} /\ clientData = {} /\ confirmed = {}
    /\ pending = {} /\ subscribed = {} /\ wire = <<>> /\ results = {}
    /\ payloads = {} /\ tasks = {} /\ scripts = {}
    /\ published = {} /\ dropped = {}

Greenlets == {"subscribing", "retrying", "waiting"}

-----------------------------------------------------------------------------
(* The view *)

(* What a request to a socket endpoint asks for and what the view finds: an *)
(* "old" socket has its scripts in CodeBox rows, a "new" one in files that  *)
(* may need an environment.                                                 *)
Requested ==
    [method : {"allowed", "other"}, view : {"run", "history"}, type : {"script", "channel"},
     private : {"yes", "no"}, key : {"yes", "no"}, socket : {"old", "new"}, path : {"known", "unknown"},
     environment : {"none", "ready", "processing", "failed"}, room : {"fits", "lacks a value", "too long"},
     size : {"fits", "too big"}, batched : {"yes", "no"}]

ChannelView(r) ==
    CASE r.room = "lacks a value" -> "denied"
      [] r.room = "too long" -> "refused"
      [] OTHER -> r.view

(* A path that is not in the files of a new socket falls through: the view  *)
(* returns None.                                                            *)
ScriptView(r) ==
    CASE r.socket = "old" /\ r.size = "too big" -> "refused"
      [] r.socket = "old" /\ r.path = "unknown" -> "not found"
      [] r.socket = "new" /\ r.path = "unknown" -> "error"
      [] r.socket = "new" /\ r.environment \in {"processing", "failed"} -> "refused"
      [] r.batched = "yes" -> "refused"
      [] OTHER -> IF r.socket = "old" THEN "offload" ELSE "broker"

ProcessEndpoint(r) ==
    CASE r.method = "other" -> "not allowed"
      [] r.view = "history" /\ r.type # "channel" -> "denied"
      [] r.private = "yes" /\ r.key = "no" -> "denied"
      [] r.type = "channel" -> ChannelView(r)
      [] OTHER -> ScriptView(r)

Outcomes == {ProcessEndpoint(r) : r \in Requested}

(* Refused, or taken over: a channel's call by the channel views, a new     *)
(* socket's by the script broker.                                           *)
PassOn(c) ==
    /\ stage[c] = "new"
    /\ \E outcome \in Outcomes \ {"offload"} : answer' = [answer EXCEPT ![c] = outcome]
    /\ stage' = [stage EXCEPT ![c] = "done"]
    /\ UNCHANGED <<tries, handlerVars, workerVars>>

(* run_view(): a trace, the payload and the metadata, then uwsgi hands the  *)
(* request over.                                                            *)
RunView(c) ==
    /\ stage[c] = "new" /\ "offload" \in Outcomes
    /\ payloads' = payloads \union {c}
    /\ stage' = [stage EXCEPT ![c] = "offloaded"]
    /\ UNCHANGED <<answer, tries, handlerVars, tasks, scripts, published>>

ExpirePayload(c) ==
    /\ c \in payloads
    /\ payloads' = payloads \ {c}
    /\ UNCHANGED <<stage, answer, tries, handlerVars, tasks, scripts, published>>

-----------------------------------------------------------------------------
(* RedisPubSubHandler *)

Subscribe(c) ==
    /\ stage[c] \in {"offloaded", "retrying"}
    /\ tries' = [tries EXCEPT ![c] = @ + 1]
    /\ clientData' = clientData \union {c}
    /\ channelData' = channelData \union {c}
    /\ pending' = IF c \in channelData THEN pending ELSE pending \union {c}
    /\ stage' = [stage EXCEPT ![c] = "subscribing"]
    /\ UNCHANGED <<answer, confirmed, subscribed, wire, results, dropped, workerVars>>

AcceptSubscribe(c) ==
    /\ c \in pending
    /\ pending' = pending \ {c}
    /\ subscribed' = subscribed \union {c}
    /\ wire' = Append(wire, [type |-> "subscribe", channel |-> c])
    /\ UNCHANGED <<stage, answer, tries, channelData, clientData, confirmed, results, dropped, workerVars>>

(* reset() forgets everybody's channels and opens a new connection. *)
Reset ==
    /\ channelData' = {} /\ clientData' = {}
    /\ pending' = {} /\ subscribed' = {} /\ wire' = <<>>
    /\ dropped' = dropped \union {c \in Calls : stage[c] \in Greenlets}
    /\ UNCHANGED <<confirmed, results>>

(* The confirmation is late.  At the last try the whole server is stopped.  *)
SubscribeTimeout(c) ==
    /\ stage[c] = "subscribing" /\ c \notin confirmed
    /\ Reset
    /\ IF tries[c] > SubscribeMaxTries
       THEN /\ stage' = [d \in Calls |-> IF stage[d] \in Greenlets THEN "done" ELSE stage[d]]
            /\ answer' = [d \in Calls |-> IF stage[d] \in Greenlets THEN "error" ELSE answer[d]]
       ELSE stage' = [stage EXCEPT ![c] = "retrying"] /\ UNCHANGED answer
    /\ UNCHANGED <<tries, workerVars>>

(* listen(): a confirmation sets the event the channel has now; a message   *)
(* goes to the queue the channel has now.                                   *)
HandleMessage ==
    /\ wire # <<>>
    /\ LET message == Head(wire) IN
        IF message.type = "subscribe"
        THEN /\ confirmed' = confirmed \union ({message.channel} \intersect channelData)
             /\ UNCHANGED results
        ELSE /\ results' = results \union ({message.channel} \intersect clientData)
             /\ UNCHANGED confirmed
    /\ wire' = Tail(wire)
    /\ UNCHANGED <<stage, answer, tries, channelData, clientData, pending, subscribed, dropped, workerVars>>

(* unsubscribe() of the call's only client *)
Unsubscribe(c) ==
    /\ channelData' = channelData \ {c}
    /\ clientData' = IF c \in channelData THEN clientData \ {c} ELSE clientData
    /\ subscribed' = IF c \in channelData THEN subscribed \ {c} ELSE subscribed
    /\ UNCHANGED <<confirmed, pending, wire, results, dropped>>

-----------------------------------------------------------------------------
(* WebhookHandler.process_task() *)

FaultConfirmed(c) == stage[c] = "subscribing"

Confirmed(c) == c \in confirmed

QueueTask(c) ==
    /\ stage[c] = "subscribing" /\ Confirmed(c)
    /\ tasks' = tasks \union {c}
    /\ stage' = [stage EXCEPT ![c] = "waiting"]
    /\ UNCHANGED <<answer, tries, handlerVars, payloads, scripts, published>>

Answered(c, with) ==
    /\ stage' = [stage EXCEPT ![c] = "done"]
    /\ answer' = [answer EXCEPT ![c] = with]
    /\ UNCHANGED <<tries, workerVars>>

FailToQueue(c) ==
    /\ stage[c] = "subscribing" /\ Confirmed(c)
    /\ Unsubscribe(c)
    /\ Answered(c, "error")

GetResult(c) ==
    /\ stage[c] = "waiting" /\ c \in results
    /\ Unsubscribe(c)
    /\ Answered(c, "result")

WaitTimeout(c) ==
    /\ stage[c] = "waiting" /\ c \notin results
    /\ Unsubscribe(c)
    /\ Answered(c, "timeout")

-----------------------------------------------------------------------------
(* The workers *)

(* ScriptBaseTask.run(): a blocked run, a full queue, a missing row end     *)
(* without a result, and the client waits until its timeout.                *)
RunTask(c) ==
    /\ c \in tasks
    /\ tasks' = tasks \ {c}
    /\ payloads' = payloads \ {c}
    /\ scripts' \in {scripts, scripts \union {c}}
    /\ UNCHANGED <<stage, answer, tries, handlerVars, published>>

PublishResult(c) ==
    /\ c \in scripts
    /\ scripts' = scripts \ {c}
    /\ published' = published \union {c}
    /\ wire' = IF c \in subscribed THEN Append(wire, [type |-> "message", channel |-> c]) ELSE wire
    /\ UNCHANGED <<stage, answer, tries, channelData, clientData, confirmed, pending, subscribed, results, dropped,
                   payloads, tasks>>

CallsNext ==
    \/ HandleMessage
    \/ \E c \in Calls :
        \/ PassOn(c) \/ RunView(c) \/ ExpirePayload(c)
        \/ Subscribe(c) \/ AcceptSubscribe(c) \/ SubscribeTimeout(c)
        \/ QueueTask(c) \/ FailToQueue(c) \/ GetResult(c) \/ WaitTimeout(c)
        \/ RunTask(c) \/ PublishResult(c)

CallsSpec == CallsInit /\ [][CallsNext]_callsVars

-----------------------------------------------------------------------------
(* A result published while its call waits is on its way to it or in its    *)
(* queue, unless a reset by another call has taken the channel away; and    *)
(* the tables and the connection hold no channel of a call that has ended.  *)
ResultNotMissed ==
    \A c \in Calls :
        /\ stage[c] = "waiting" /\ c \in published \ dropped =>
              c \in results \/ \E i \in DOMAIN wire : wire[i] = [type |-> "message", channel |-> c]
        /\ stage[c] = "done" => c \notin channelData \union clientData \union pending \union subscribed
=============================================================================
