-------------------------------- MODULE RedisBus --------------------------------
(***************************************************************************)
(* publish_redis, dispatch_redis and subscribe_topic_redis of              *)
(* src/src/core/traits.rs between several processes that share a Redis     *)
(* server and run the same handler, with the select! in which the          *)
(* supervisor of src/src/manager.rs waits for the bus and for Redis.       *)
(*                                                                         *)
(* The server is external.  PUBLISH appends the message to the connections *)
(* that are subscribed at that moment and keeps nothing for others; a      *)
(* connection that is dropped takes along what was not read from it.       *)
(* The bus is MultiBus's; here its requests for a handler wait in pending. *)
(***************************************************************************)
EXTENDS Integers, Sequences, FiniteSets, Functions

CONSTANTS
    Caller,        \* handlers that call publish_redis or dispatch_redis once
    BusRequest,    \* requests that reach the handlers over their bus
    Service,       \* the supervisors of the handler, one per process
    NrReplicas,
    RedisMayFail   \* whether the server may fail

ASSUME RedisAssumption ==
    /\ NrReplicas \in Nat
    /\ RedisMayFail \in BOOLEAN

RequestOf(c) == <<"request", c>>
EventOf(c)   == <<"event", c>>
BusOf(b)     == <<"bus", b>>
TopicMessage == {"request", "event"} \X Caller
Job          == TopicMessage \cup ({"bus"} \X BusRequest)
Reply        == Caller \X Service     \* the reply to a call by a service

VARIABLES
    configured,  \* services whose shared state has a redis_url
    caller,      \* where each call is
    response,    \* the reply that publish_redis has returned, if any
    replies,     \* replies in its connection, in order
    service,     \* where each supervisor is in its loop
    inbox,       \* messages in the connection of its subscription
    held,        \* the request it has taken, {} or one job
    running,     \* requests its replicas are running
    pending,     \* requests that wait on its bus
    log,         \* history: messages published to the topic
    taken,       \* history: those each supervisor took, in order
    answered     \* history: replies published to calls that have not ended

vars == <<configured, caller, response, replies, service, inbox, held,
          running, pending, log, taken, answered>>
callerVars  == <<caller, response, replies>>
serviceVars == <<configured, service, held, running, pending, taken>>

CallStages    == {"start", "subscribed", "asked", "waiting", "ended"}
ServiceStages == {"loop", "bus_only", "connecting", "subscribed", "reserve", "dead"}

RedisTypeOK ==
    /\ configured \subseteq Service
    /\ caller \in [Caller -> CallStages]
    /\ response \in [Caller -> SUBSET Reply]
    /\ \A c \in Caller : Cardinality(response[c]) <= 1
    /\ replies \in [Caller -> Seq(Reply)]
    /\ service \in [Service -> ServiceStages]
    /\ inbox \in [Service -> Seq(TopicMessage)]
    /\ held \in [Service -> SUBSET Job] /\ running \in [Service -> SUBSET Job]
    /\ \A s \in Service : /\ Cardinality(held[s]) <= 1
                          /\ Cardinality(running[s]) <= NrReplicas
    /\ pending \in [Service -> SUBSET BusRequest]
    /\ log \in Seq(TopicMessage)
    /\ taken \in [Service -> Seq(TopicMessage)]
    /\ answered \subseteq Reply

Init ==
    /\ configured = {}
    /\ caller = [c \in Caller |-> "start"]
    /\ response = [c \in Caller |-> {}]
    /\ replies = [c \in Caller |-> <<>>]
    /\ service = [s \in Service |-> "loop"]
    /\ inbox = [s \in Service |-> <<>>]
    /\ held = [s \in Service |-> {}]
    /\ running = [s \in Service |-> {}]
    /\ pending = [s \in Service |-> {}]
    /\ log = <<>>
    /\ taken = [s \in Service |-> <<>>]
    /\ answered = {}

(* redis_url is an entry of the shared state: add_global_state, handlers,  *)
(* and start after it has spawned the supervisors, write a url or an empty *)
(* string.                                                                 *)
WriteRedisUrl(s) ==
    /\ configured' \in {configured \cup {s}, configured \ {s}}
    /\ UNCHANGED <<callerVars, service, inbox, held, running, pending,
                   log, taken, answered>>

(* A handler in the process of s sends over the bus.                       *)
ArriveOnBus(s, b) ==
    /\ \A t \in Service : b \notin pending[t] /\ BusOf(b) \notin held[t] \cup running[t]
    /\ pending' = [pending EXCEPT ![s] = @ \cup {b}]
    /\ UNCHANGED <<configured, callerVars, service, inbox, held, running,
                   log, taken, answered>>

(* PUBLISH of m to the topic *)
PublishToTopic(m) ==
    /\ log' = Append(log, m)
    /\ inbox' = [s \in Service |->
                    IF service[s] = "subscribed" THEN Append(inbox[s], m) ELSE inbox[s]]

-----------------------------------------------------------------------------
(* publish_redis                                                           *)

(* Mutant: the reply channel is subscribed to after the request was sent.  *)
ListeningOnceAsked(c) == caller[c] = "waiting"

(* From SUBSCRIBE to the end of the call, which drops the connection.      *)
Listening(c) == caller[c] \in {"subscribed", "asked", "waiting"}

(* Mutant: the reply channel is named for the handler.                     *)
ReplyChannelByName(c) == "handler"

(* get_name and a fresh uuid *)
ReplyChannel(c) == c

(* The end of a call, with a reply, a text about what went wrong or a      *)
(* panic, drops its connection.                                            *)
End(c) ==
    /\ caller' = [caller EXCEPT ![c] = "ended"]
    /\ replies' = [replies EXCEPT ![c] = <<>>]
    /\ answered' = answered \ ({c} \X Service)

ReturnUnconfigured(c) ==
    /\ caller[c] = "start"
    /\ End(c)
    /\ UNCHANGED <<serviceVars, response, inbox, log>>

SubscribeReply(c) ==
    /\ caller[c] = "start"
    /\ caller' = [caller EXCEPT ![c] = "subscribed"]
    /\ UNCHANGED <<serviceVars, response, replies, inbox, log, answered>>

PublishRequest(c) ==
    /\ caller[c] = "subscribed"
    /\ PublishToTopic(RequestOf(c))
    /\ caller' = [caller EXCEPT ![c] = "asked"]
    /\ UNCHANGED <<serviceVars, response, replies, answered>>

(* The server has acknowledged the PUBLISH; the timeout begins.            *)
AwaitReply(c) ==
    /\ caller[c] = "asked"
    /\ caller' = [caller EXCEPT ![c] = "waiting"]
    /\ UNCHANGED <<serviceVars, response, replies, inbox, log, answered>>

ReceiveReply(c) ==
    /\ caller[c] = "waiting"
    /\ replies[c] # <<>>
    /\ End(c)
    /\ response' = [response EXCEPT ![c] = {Head(replies[c])}]
    /\ UNCHANGED <<serviceVars, inbox, log>>

(* A reply may already be under way.                                       *)
Timeout(c) ==
    /\ caller[c] = "waiting"
    /\ End(c)
    /\ UNCHANGED <<serviceVars, response, inbox, log>>

(* unwrap of a failed connection, command or stream *)
CallPanics(c) ==
    /\ RedisMayFail
    /\ caller[c] # "ended"
    /\ End(c)
    /\ UNCHANGED <<serviceVars, response, inbox, log>>

(* dispatch_redis; the message has no reply channel.                       *)
DispatchEvent(c) ==
    /\ caller[c] = "start"
    /\ End(c)
    /\ PublishToTopic(EventOf(c))
    /\ UNCHANGED <<serviceVars, response>>

-----------------------------------------------------------------------------
(* The supervisor                                                          *)

BeginLoop(s) ==
    /\ service[s] = "loop"
    /\ service' = [service EXCEPT ![s] =
                      IF s \in configured THEN "connecting" ELSE "bus_only"]
    /\ UNCHANGED <<configured, callerVars, inbox, held, running, pending,
                   log, taken, answered>>

(* subscribe_topic_redis reads redis_url again.                            *)
Subscribe(s) ==
    /\ service[s] = "connecting"
    /\ s \in configured
    /\ service' = [service EXCEPT ![s] = "subscribed"]
    /\ UNCHANGED <<configured, callerVars, inbox, held, running, pending,
                   log, taken, answered>>

(* Mutant: the message stays in the connection, which the next             *)
(* subscription reuses.                                                    *)
TakeFromRedisKeeping(s) ==
    /\ service[s] = "subscribed"
    /\ inbox[s] # <<>>
    /\ held' = [held EXCEPT ![s] = {Head(inbox[s])}]
    /\ taken' = [taken EXCEPT ![s] = Append(@, Head(inbox[s]))]
    /\ service' = [service EXCEPT ![s] = "reserve"]
    /\ UNCHANGED <<configured, callerVars, inbox, running, pending, log, answered>>

(* A request_data that is dropped may have popped a request already, which *)
(* is then lost.                                                           *)
DropRequestData(s) ==
    \/ UNCHANGED pending
    \/ \E b \in pending[s] : pending' = [pending EXCEPT ![s] = @ \ {b}]

(* subscribe_topic_redis returns the first message and drops its           *)
(* connection.                                                             *)
TakeFromRedis(s) ==
    /\ service[s] = "subscribed"
    /\ inbox[s] # <<>>
    /\ held' = [held EXCEPT ![s] = {Head(inbox[s])}]
    /\ taken' = [taken EXCEPT ![s] = Append(@, Head(inbox[s]))]
    /\ inbox' = [inbox EXCEPT ![s] = <<>>]
    /\ DropRequestData(s)
    /\ service' = [service EXCEPT ![s] = "reserve"]
    /\ UNCHANGED <<configured, callerVars, running, log, answered>>

(* The bus wins; the future of Redis is dropped with its connection.       *)
TakeFromBus(s) ==
    /\ service[s] \in {"bus_only", "connecting", "subscribed"}
    /\ \E b \in pending[s] :
          /\ held' = [held EXCEPT ![s] = {BusOf(b)}]
          /\ pending' = [pending EXCEPT ![s] = @ \ {b}]
    /\ inbox' = [inbox EXCEPT ![s] = <<>>]
    /\ service' = [service EXCEPT ![s] = "reserve"]
    /\ UNCHANGED <<configured, callerVars, running, log, taken, answered>>

(* data.unwrap() of an error: a payload that is no request, the end of the *)
(* stream, no connection, or no redis_url any more.                        *)
SupervisorPanics(s) ==
    /\ \/ RedisMayFail /\ service[s] \in {"connecting", "subscribed"}
       \/ service[s] = "connecting" /\ s \notin configured
    /\ service' = [service EXCEPT ![s] = "dead"]
    /\ inbox' = [inbox EXCEPT ![s] = <<>>]
    /\ DropRequestData(s)
    /\ UNCHANGED <<configured, callerVars, held, running, log, taken, answered>>

(* Mutant: one run too many.                                               *)
HandOverBeyondReplicas(s) ==
    /\ service[s] = "reserve"
    /\ Cardinality(running[s]) <= NrReplicas
    /\ running' = [running EXCEPT ![s] = @ \cup held[s]]
    /\ held' = [held EXCEPT ![s] = {}]
    /\ service' = [service EXCEPT ![s] = "loop"]
    /\ UNCHANGED <<configured, callerVars, inbox, pending, log, taken, answered>>

(* The inner loop that reserves an id, and the spawn of the call           *)
HandOver(s) ==
    /\ service[s] = "reserve"
    /\ Cardinality(running[s]) < NrReplicas
    /\ running' = [running EXCEPT ![s] = @ \cup held[s]]
    /\ held' = [held EXCEPT ![s] = {}]
    /\ service' = [service EXCEPT ![s] = "loop"]
    /\ UNCHANGED <<configured, callerVars, inbox, pending, log, taken, answered>>

EndRun(s, m) ==
    /\ m \in running[s]
    /\ running' = [running EXCEPT ![s] = @ \ {m}]
    /\ UNCHANGED <<configured, service, inbox, held, pending, log, taken>>

(* dispatch_redis of the result to the reply channel of the request        *)
FinishWithReply(s, c) ==
    /\ s \in configured
    /\ EndRun(s, RequestOf(c))
    /\ replies' = [d \in Caller |->
                      IF Listening(d) /\ ReplyChannel(d) = ReplyChannel(c)
                      THEN Append(replies[d], <<c, s>>) ELSE replies[d]]
    /\ answered' = IF caller[c] = "ended" THEN answered ELSE answered \cup {<<c, s>>}
    /\ UNCHANGED <<caller, response>>

(* An event, a request of the bus, an error of run, or in dispatch_redis   *)
(* no redis_url or an unwrap.                                              *)
FinishWithoutReply(s, m) ==
    /\ EndRun(s, m)
    /\ UNCHANGED <<callerVars, answered>>

-----------------------------------------------------------------------------
CallStep(c) ==
    \/ PublishRequest(c)
    \/ AwaitReply(c)
    \/ ReceiveReply(c)
    \/ Timeout(c)

Next ==
    \/ \E c \in Caller :
          \/ SubscribeReply(c)
          \/ ReturnUnconfigured(c)
          \/ CallStep(c)
          \/ CallPanics(c)
          \/ DispatchEvent(c)
    \/ \E s \in Service :
          \/ WriteRedisUrl(s)
          \/ \E b \in BusRequest : ArriveOnBus(s, b)
          \/ BeginLoop(s)
          \/ Subscribe(s)
          \/ TakeFromRedis(s)
          \/ TakeFromBus(s)
          \/ SupervisorPanics(s)
          \/ HandOver(s)
          \/ \E c \in Caller : FinishWithReply(s, c)
          \/ \E m \in Job : FinishWithoutReply(s, m)

Spec == Init /\ [][Next]_vars

-----------------------------------------------------------------------------
(* A reply that publish_redis returns is one to its own request, from a    *)
(* service that has taken it, whoever else waits and however many services *)
(* answer (traits.rs:123-138).                                             *)
OwnRedisReply ==
    \A c \in Caller :
        \A r \in response[c] : r[1] = c /\ RequestOf(c) \in Range(taken[r[2]])

(* A reply that is published before its call has given up is there when    *)
(* the call looks for it, also when the service was faster than the        *)
(* acknowledgement of the request (traits.rs:126-133).                     *)
ReplyReachesCaller ==
    \A a \in answered :
        caller[a[1]] \in {"asked", "waiting"} => replies[a[1]] # <<>>

(* A service takes messages in the order in which they were published and  *)
(* none of them twice, though it subscribes anew for each and may lose     *)
(* some in between (traits.rs:189-199, manager.rs:429-439).                *)
TakenInOrder ==
    \A s \in Service :
        \E f \in [DOMAIN taken[s] -> DOMAIN log] :
            /\ \A i \in DOMAIN taken[s] : log[f[i]] = taken[s][i]
            /\ \A i, j \in DOMAIN taken[s] : i < j => f[i] < f[j]

=============================================================================
