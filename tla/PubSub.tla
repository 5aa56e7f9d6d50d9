-------------------------------- MODULE PubSub --------------------------------
(***************************************************************************)
(* publish and dispatch of src/src/core/communication/pub_sub.rs over the  *)
(* message bus, together with the two parties that answer them in          *)
(* src/src/manager.rs: the supervisor of one handler, which requests       *)
(* messages of the topic and hands each to a replica, and the replicas,    *)
(* which run the handler and send the reply (run_and_dispatch).            *)
(*                                                                         *)
(* The pool of replica ids is HandlerPool's; here a replica is free or     *)
(* not.  Redis is not configured, so the supervisor waits for the bus only *)
(* and its request_data is never dropped.                                  *)
(***************************************************************************)
EXTENDS MultiBus

CONSTANTS
    Publisher,     \* calls of publish, each by a task of its own
    Dispatcher,    \* calls of dispatch
    Replica,       \* what standby_handlers allows to run at a time
    Supervisor,
    Topic,
    SourceOf,      \* the src argument of every call of publish
    MOD,           \* 3571823 in the code
    RunMayFail     \* whether Base::run may return an error

(* src + "_pub" + id for all sources and ids *)
ReplyAddresses == Range(SourceOf) \X (0..MOD - 1)

RequestOf(p) == <<"request", p>>
ReplyTo(p)   == <<"reply", p>>
EventOf(d)   == <<"dispatch", d>>

(* The tasks, addresses and messages of the bus are those of this system,  *)
(* no topic has the form of a reply address, and MaxNotifiers stops        *)
(* nobody: the supervisor and each call of publish initialize once.        *)
ASSUME PubSubAssumption ==
    /\ Task = Publisher \cup Dispatcher \cup Replica \cup {Supervisor}
    /\ Supervisor \notin Publisher \cup Dispatcher \cup Replica
    /\ Publisher \cap Dispatcher = {}
    /\ Replica \cap (Publisher \cup Dispatcher) = {}
    /\ Cancellable = {}
    /\ Address = {Topic} \cup ReplyAddresses
    /\ Topic \notin ReplyAddresses
    /\ Message = ({"request", "reply"} \X Publisher) \cup ({"dispatch"} \X Dispatcher)
    /\ MaxNotifiers > Cardinality(Publisher)
    /\ DOMAIN SourceOf = Publisher
    /\ MOD \in Nat \ {0}
    /\ RunMayFail \in BOOLEAN

VARIABLES
    id_pub_channel,
    stage,       \* where each task is in the code around its bus calls
    my_id,       \* current_id_i32 of each publisher
    job,         \* the message a replica runs with, NoMessage for Http(None)
    response     \* what publish has received

vars == <<busVars, id_pub_channel, stage, my_id, job, response>>

PublishStages == {"load", "store", "named", "initialize", "send", "request",
                  "remove", "returned"}
SupervisorStages == {"setup", "initialize", "ask", "request", "reserve"}
ReplicaStages == {"free", "run", "reply"}

PubSubTypeOK ==
    /\ TypeOK
    /\ id_pub_channel \in 0..MOD - 1
    /\ stage \in [Task -> PublishStages \cup {"dispatch"} \cup ReplicaStages
                             \cup SupervisorStages]
    /\ \A p \in Publisher : stage[p] \in PublishStages
    /\ \A d \in Dispatcher : stage[d] \in {"dispatch", "send"}
    /\ \A r \in Replica : stage[r] \in ReplicaStages
    /\ stage[Supervisor] \in SupervisorStages
    /\ my_id \in [Publisher -> 0..MOD - 1]
    /\ job \in [Replica -> Message \cup {NoMessage}]
    /\ response \in [Publisher -> Message \cup {NoMessage}]

Init ==
    /\ BusInit
    /\ id_pub_channel = 0
    /\ stage = [t \in Task |-> CASE t \in Publisher  -> "load"
                                 [] t \in Dispatcher -> "dispatch"
                                 [] t \in Replica    -> "free"
                                 [] OTHER            -> "setup"]
    /\ my_id = [p \in Publisher |-> 0]
    /\ job = [r \in Replica |-> NoMessage]
    /\ response = [p \in Publisher |-> NoMessage]

(* Clients exist once setup_publishing has returned.                       *)
Started == stage[Supervisor] \notin {"setup", "initialize"}

(* A task is between two bus calls when the last one has returned.         *)
At(t, s) == stage[t] = s /\ pc[t] = "idle"

MoveTo(t, s) == stage' = [stage EXCEPT ![t] = s]

-----------------------------------------------------------------------------
(* publish                                                                 *)

(* Mutant: the name of the reply address leaves out the source.            *)
ReplyAddressById(p) == <<SourceOf[CHOOSE q \in Publisher : TRUE], my_id[p]>>

(* src + "_pub" + id *)
ReplyAddress(p) == <<SourceOf[p], my_id[p]>>

LoadId(p) ==
    /\ Started
    /\ At(p, "load")
    /\ my_id' = [my_id EXCEPT ![p] = id_pub_channel]
    /\ MoveTo(p, "store")
    /\ UNCHANGED <<busVars, id_pub_channel, job, response>>

(* Mutant: the id is not wrapped.                                          *)
StoreIdUnwrapped(p) ==
    /\ At(p, "store")
    /\ id_pub_channel' = my_id[p] + 1
    /\ MoveTo(p, "named")
    /\ UNCHANGED <<busVars, my_id, job, response>>

StoreId(p) ==
    /\ At(p, "store")
    /\ id_pub_channel' = (my_id[p] + 1) % MOD
    /\ MoveTo(p, "named")
    /\ UNCHANGED <<busVars, my_id, job, response>>

InitializeReply(p) ==
    /\ At(p, "named")
    /\ CallInitialize(p, ReplyAddress(p))
    /\ MoveTo(p, "initialize")
    /\ UNCHANGED <<id_pub_channel, my_id, job, response>>

SendRequest(p) ==
    /\ At(p, "initialize")
    /\ CallSendData(p, Topic, RequestOf(p))
    /\ MoveTo(p, "send")
    /\ UNCHANGED <<id_pub_channel, my_id, job, response>>

AwaitReply(p) ==
    /\ At(p, "send")
    /\ CallRequestData(p, ReplyAddress(p))
    /\ MoveTo(p, "request")
    /\ UNCHANGED <<id_pub_channel, my_id, job, response>>

(* Both ways out of publish remove the reply address; without a message    *)
(* the response is the error text, here NoMessage.                         *)
RemoveReply(p) ==
    /\ At(p, "request")
    /\ response' = [response EXCEPT ![p] = got[p]]
    /\ CallRemove(p, ReplyAddress(p))
    /\ MoveTo(p, "remove")
    /\ UNCHANGED <<id_pub_channel, my_id, job>>

Return(p) ==
    /\ At(p, "remove")
    /\ MoveTo(p, "returned")
    /\ UNCHANGED <<busVars, id_pub_channel, my_id, job, response>>

PublishStep(p) ==
    \/ LoadId(p)
    \/ StoreId(p)
    \/ InitializeReply(p)
    \/ SendRequest(p)
    \/ AwaitReply(p)
    \/ RemoveReply(p)
    \/ Return(p)

(* dispatch *)
Dispatch(d) ==
    /\ Started
    /\ At(d, "dispatch")
    /\ CallSendData(d, Topic, EventOf(d))
    /\ MoveTo(d, "send")
    /\ UNCHANGED <<id_pub_channel, my_id, job, response>>

-----------------------------------------------------------------------------
(* The supervisor of initialize_handlers                                   *)

SetupPublishing ==
    /\ At(Supervisor, "setup")
    /\ CallInitialize(Supervisor, Topic)
    /\ MoveTo(Supervisor, "initialize")
    /\ UNCHANGED <<id_pub_channel, my_id, job, response>>

BeginLoop ==
    /\ At(Supervisor, "initialize")
    /\ MoveTo(Supervisor, "ask")
    /\ UNCHANGED <<busVars, id_pub_channel, my_id, job, response>>

AskForData ==
    /\ At(Supervisor, "ask")
    /\ CallRequestData(Supervisor, Topic)
    /\ MoveTo(Supervisor, "request")
    /\ UNCHANGED <<id_pub_channel, my_id, job, response>>

(* The request is taken off the bus before a replica is reserved for it.   *)
TakeData ==
    /\ At(Supervisor, "request")
    /\ MoveTo(Supervisor, "reserve")
    /\ UNCHANGED <<busVars, id_pub_channel, my_id, job, response>>

HandOver(r) ==
    /\ At(Supervisor, "reserve")
    /\ At(r, "free")
    /\ job' = [job EXCEPT ![r] = got[Supervisor]]
    /\ stage' = [stage EXCEPT ![r] = "run", ![Supervisor] = "ask"]
    /\ UNCHANGED <<busVars, id_pub_channel, my_id, response>>

SupervisorStep ==
    \/ SetupPublishing
    \/ BeginLoop
    \/ AskForData
    \/ TakeData
    \/ \E r \in Replica : HandOver(r)

-----------------------------------------------------------------------------
(* run_and_dispatch in a replica                                           *)

Free(r) ==
    /\ MoveTo(r, "free")
    /\ job' = [job EXCEPT ![r] = NoMessage]

(* Nothing is sent for Http(None), for a message of type "dispatch" and    *)
(* after an error of run.                                                  *)
RunWithoutReply(r) ==
    /\ At(r, "run")
    /\ \/ job[r] = NoMessage
       \/ \E d \in Dispatcher : job[r] = EventOf(d)
       \/ RunMayFail
    /\ Free(r)
    /\ UNCHANGED <<busVars, id_pub_channel, my_id, response>>

RunWithReply(r) ==
    /\ At(r, "run")
    /\ \E p \in Publisher :
          /\ job[r] = RequestOf(p)
          /\ CallSendData(r, ReplyAddress(p), ReplyTo(p))
    /\ MoveTo(r, "reply")
    /\ UNCHANGED <<id_pub_channel, my_id, job, response>>

FinishReply(r) ==
    /\ At(r, "reply")
    /\ Free(r)
    /\ UNCHANGED <<busVars, id_pub_channel, my_id, response>>

ReplicaStep(r) ==
    \/ RunWithoutReply(r)
    \/ RunWithReply(r)
    \/ FinishReply(r)

-----------------------------------------------------------------------------
InsideBus(t) ==
    /\ BusStep(t)
    /\ UNCHANGED <<id_pub_channel, stage, my_id, job, response>>

Next ==
    \/ \E p \in Publisher : PublishStep(p)
    \/ \E d \in Dispatcher : Dispatch(d)
    \/ SupervisorStep
    \/ \E r \in Replica : ReplicaStep(r)
    \/ \E t \in Task : InsideBus(t)

Spec == Init /\ [][Next]_vars

(* Every task is scheduled; in the bus, a lock is granted in the order of  *)
(* its waiters, and the worker count is polled.  Whether run succeeds is   *)
(* not a matter of fairness: a run ends one way or the other.              *)
FairSpec ==
    /\ Spec
    /\ \A p \in Publisher : WF_vars(PublishStep(p))
    /\ \A d \in Dispatcher : WF_vars(Dispatch(d))
    /\ WF_vars(SupervisorStep)
    /\ \A r \in Replica : WF_vars(ReplicaStep(r))
    /\ \A t \in Task : /\ WF_vars(InsideBus(t) /\ pc[t] = "check")
                       /\ SF_vars(InsideBus(t) /\ pc[t] # "check")

-----------------------------------------------------------------------------
(* publish returns the response to the message it has published, and never *)
(* the response to another one or the error text (pub_sub.rs:41-55).       *)
OwnReply ==
    \A p \in Publisher :
        stage[p] \in {"remove", "returned"} => response[p] = ReplyTo(p)

(* No task runs into one of the unwraps on the address tables: a reply     *)
(* address is there before its request can be seen, and stays until the    *)
(* replica has notified the publisher that it replied                      *)
(* (multibus.rs:85, 100, 110).                                             *)
NoPanic == \A t \in Task : pc[t] # "panicked"

(* A worker is missing from the pool only while a message is under way:    *)
(* nothing is dropped with its worker and no pop of an empty queue adds    *)
(* one (multibus.rs:75-76, 125-132).                                       *)
NoWorkerLeak ==
    workers = NWorkers
        - Cardinality({m \in Message : fate[m] \in {"claimed", "queued", "popped"}})

(* A call of publish is under way; two that are have differed in source or *)
(* id, which pub_sub.rs:45-46 leaves to chance.                            *)
Active(p) == stage[p] \notin {"load", "returned"}

NamesDiffer ==
    \A p, q \in Publisher :
        Active(p) /\ Active(q) /\ SourceOf[p] = SourceOf[q] /\ my_id[p] = my_id[q]
            => p = q

(* A reply address is in one of the tables only while a call of publish    *)
(* that uses it is under way: no late push or pop brings it back after     *)
(* that has returned, whether or not a later call takes the same name      *)
(* (pub_sub.rs:54-57, multibus.rs:80, 126).                                *)
ReplyAddressesReclaimed ==
    \A a \in ReplyAddresses :
        a \in present \/ notifiers[a] # 0
            => \E p \in Publisher :
                  /\ ReplyAddress(p) = a
                  /\ stage[p] \in {"initialize", "send", "request", "remove"}

(* The reply is in the queue, and all who would notify of it are done.     *)
MissedReply(p) ==
    /\ pc[p] = "waiting"
    /\ fate[ReplyTo(p)] = "queued"
    /\ \A r \in Replica :
          ~(pc[r] \in {"lookup", "notify"} /\ addr[r] = ReplyAddress(p))

(* A publisher misses its reply only by being late with its notified():    *)
(* no step of anybody else, once it waits, leaves it waiting for good with *)
(* its reply in the queue (multibus.rs:87, 112).                           *)
OnlyUnarmedMissReply ==
    [][\A p \in Publisher : MissedReply(p)' /\ ~MissedReply(p) => pc[p] = "arm"]_vars

(* Every publish returns, at the latest with the error text                *)
(* (pub_sub.rs:41-43).                                                     *)
PublishReturns == \A p \in Publisher : stage[p] = "send" ~> stage[p] = "returned"

(* A reply that has to wait for a worker gets one, also when the           *)
(* supervisor is itself waiting for a replica (multibus.rs:62-65).         *)
ReplyGetsWorker ==
    \A r \in Replica :
        (pc[r] = "check" /\ stage[Supervisor] = "reserve") ~> pc[r] # "check"

=============================================================================
