------------------------------- MODULE Lifecycle -------------------------------
(***************************************************************************)
(* A Manager from start to force_finish_all (src/src/manager.rs): the      *)
(* order in which start makes topics, supervisors, the server and          *)
(* redis_url, and the calls that run meanwhile, which may publish to       *)
(* further handlers.  start may be called again: it replaces the queues of *)
(* the bus and adds supervisors while the old ones and their calls go on.  *)
(*                                                                         *)
(* A call is followed from its arrival to the end of its run.  A message   *)
(* is queued or taken in one step (MultiBus and PubSub have them all), but *)
(* whoever finds nothing is for a while on its way to notified(), where    *)
(* notify_waiters does not reach it yet.  Send does not wait for a worker: *)
(* any number of senders may have seen one (MultiBus).  Redis does not     *)
(* fail (RedisBus); a message that it delivers to two supervisors is two   *)
(* calls.  Of the permits of the routes those of the handler count.        *)
(***************************************************************************)
EXTENDS Naturals, FiniteSets

CONSTANTS
    Handler,         \* names for add_handler
    Call,
    NrReplicas,      \* nr_replicas of each handler
    NWorkers,        \* 10 in create_bus
    MaxStarts,       \* bound: how often start is called
    MaxSupervisors,  \* bound: how many supervisors it spawns in all
    Budget,          \* bound: how many starts, calls and meddlings in all
    None

ASSUME LifecycleAssumption ==
    /\ IsFiniteSet(Handler)
    /\ IsFiniteSet(Call)
    /\ NrReplicas \in Nat \ {0}
    /\ NWorkers \in Nat
    /\ MaxStarts \in Nat /\ MaxSupervisors \in Nat /\ Budget \in Nat

(* The supervisor that the i-th start spawns for a handler                 *)
Supervisor == Handler \X (1..MaxStarts)

(* The none of by is not one of them.                                      *)
ASSUME NoneAssumption == None \notin Supervisor

VARIABLES
    main,        \* where the owner of the manager is
    registered,  \* handlers the manager has
    starts,      \* how often start was called
    todo,        \* handlers that initialize_handlers has still to reach
    installed,   \* whether a default crypto provider is installed
    given,       \* whether the manager has a redis_url that is not empty
    url,         \* the entry redis_url of the shared state
    meddled,     \* history: whether others than start wrote that entry, or
                 \* the manager was given an empty url in place of its own
    sup,         \* where each supervisor is in its loop
    wait,        \* how far it is with waiting for a message or an id
    deaf,        \* those that wait on a Notify that was replaced
    call,        \* what has become of each call
    reply_wait   \* how far its run is with waiting for a reply

mainVars == <<main, registered, starts, todo, installed>>
urlVars  == <<given, url, meddled>>
supVars  == <<sup, wait, deaf>>
callVars == <<call, reply_wait>>
vars     == <<mainVars, urlVars, supVars, callVars>>

(* In the select! on the bus and, after the first, on Redis                *)
Asking == {"bus_only", "connecting", "subscribed"}
Gone   == {"panicked", "cancelled"}

(* Who looks and finds nothing is unarmed until its notified() is polled,  *)
(* and then armed; a supervisor that was woken there pops what it finds.   *)
Waits == {"looks", "unarmed", "armed"}

(* A call that is unsent was for a topic that did not exist; one that is   *)
(* lost was dropped before its run; the reply of one that is replied is in *)
(* the queue of its publisher.                                             *)
CallStages == {"new", "queued", "held", "running", "replied", "ended",
               "failed", "panicked", "unsent", "lost"}

(* No entry, an empty one and one that is not a String count the same.     *)
Urls == {"none", "set"}

CallRecord == [at : CallStages, to : Handler \cup {None},
               from : Call \cup {None}, by : Supervisor \cup {None},
               published : BOOLEAN]

LifecycleTypeOK ==
    /\ main \in {"idle", "handlers", "bound", "serving", "panicked"}
    /\ registered \subseteq Handler
    /\ starts \in 0..MaxStarts
    /\ todo \subseteq registered
    /\ installed \in BOOLEAN /\ given \in BOOLEAN /\ meddled \in BOOLEAN
    /\ url \in Urls
    /\ sup \in [Supervisor -> Asking \cup Gone
                                 \cup {"absent", "loop", "reserve"}]
    /\ wait \in [Supervisor -> Waits \cup {"woken"}]
    /\ \A s \in Supervisor :
          /\ wait[s] # "looks" => sup[s] \in Asking \cup {"reserve"}
          /\ wait[s] = "woken" => sup[s] \in Asking
          /\ s \in deaf => sup[s] \in Asking /\ wait[s] \in {"unarmed", "armed"}
    /\ deaf \subseteq Supervisor
    /\ call \in [Call -> CallRecord]
    /\ reply_wait \in [Call -> Waits]

Init ==
    /\ main = "idle"
    /\ registered = {}
    /\ starts = 0
    /\ todo = {}
    /\ installed = FALSE
    /\ given = FALSE
    /\ url = "none"
    /\ meddled = FALSE
    /\ sup = [s \in Supervisor |-> "absent"]
    /\ wait = [s \in Supervisor |-> "looks"]
    /\ deaf = {}
    /\ call = [c \in Call |-> [at |-> "new", to |-> None, from |-> None,
                               by |-> None, published |-> FALSE]]
    /\ reply_wait = [c \in Call |-> "looks"]

(* A topic is on the bus from its first setup_publishing on.               *)
Topics == {s[1] : s \in {t \in Supervisor : sup[t] # "absent"}}

AskingFor(h) == {s \in Supervisor : s[1] = h /\ sup[s] \in Asking}
Looking(s)   == sup[s] \in Asking /\ wait[s] \in {"looks", "woken"}
Waiters      == {s \in Supervisor : wait[s] \in {"unarmed", "armed"}}
Queued(h)    == {c \in Call : call[c].at = "queued" /\ call[c].to = h}
Held(s)      == {c \in Call : call[c].at = "held" /\ call[c].by = s}

(* Mutant: an id is not put back at the end of a run.                      *)
BusyForGood(s) == Cardinality({c \in Call :
                      call[c].by = s /\ call[c].at \notin {"held", "lost"}})

(* The ids of its pool that are not in standby; a panic keeps one.         *)
Busy(s) == Cardinality({c \in Call : call[c].by = s
                                     /\ call[c].at \in {"running", "panicked"}})

(* The permits of request_max_per_handler in use                           *)
HttpRuns(h) == Cardinality({c \in Call : call[c].at = "running"
                                         /\ call[c].to = h /\ call[c].by = None})

(* publish waits for the reply; after an error of run there is none.       *)
Awaited(d) == call[d].published /\ call[d].at # "ended"
Waiting(c) == \E d \in Call : call[d].from = c /\ Awaited(d)

(* A run that can go on; a supervisor that finds an id for its call        *)
Free(c)    == call[c].at = "running" /\ ~Waiting(c)
Granted(s) == sup[s] = "reserve" /\ wait[s] = "looks" /\ Busy(s) < NrReplicas

(* notify_waiters of a topic and of the ids of a supervisor                *)
WakeTopic(h) == [s \in Supervisor |->
    IF s \in AskingFor(h) \ deaf /\ wait[s] = "armed" THEN "woken" ELSE wait[s]]
WakeForId(t) == [s \in Supervisor |->
    IF s = t /\ sup[s] = "reserve" /\ wait[s] = "armed" THEN "looks" ELSE wait[s]]
WakePublisher(p) == [c \in Call |->
    IF c = p /\ reply_wait[c] = "armed" THEN "looks" ELSE reply_wait[c]]

WithinBudget ==
    starts + Cardinality({c \in Call : call[c].at # "new"})
        + (IF meddled THEN 1 ELSE 0) < Budget

(* The bound counts it once, however often redis_url is written.           *)
Meddle ==
    /\ meddled \/ WithinBudget
    /\ meddled' = TRUE

Lose(C) == call' = [c \in Call |->
                       IF c \in C THEN [call[c] EXCEPT !.at = "lost"] ELSE call[c]]

-----------------------------------------------------------------------------
(* The owner of the manager                                                *)

(* SharedState::insert under the key redis_url                             *)
Insert(value) == url' = value

(* A name that is there already panics.                                    *)
AddHandler(h) ==
    /\ main = "idle"
    /\ h \notin registered
    /\ registered' = registered \cup {h}
    /\ UNCHANGED <<main, starts, todo, installed, urlVars, supVars, callVars>>

(* Of any StateType, before the first start or between two.                *)
AddGlobalState ==
    /\ main = "idle"
    /\ \E value \in Urls : Insert(value)
    /\ Meddle
    /\ UNCHANGED <<mainVars, given, supVars, callVars>>

(* Also with an empty string.  Only a later start reads it.                *)
WithRedisUrl ==
    /\ main = "idle"
    /\ WithinBudget
    /\ given' \in BOOLEAN
    /\ IF given /\ ~given' THEN Meddle ELSE UNCHANGED meddled
    /\ UNCHANGED <<mainVars, url, supVars, callVars>>

(* Mutants: redis_url is written, or cleared, before there are topics.     *)
StartWritingUrl ==
    /\ main = "idle"
    /\ starts < MaxStarts
    /\ WithinBudget
    /\ main' = "handlers"
    /\ starts' = starts + 1
    /\ todo' = registered
    /\ Insert(IF given THEN "set" ELSE "none")
    /\ UNCHANGED <<registered, installed, given, meddled, supVars, callVars>>

StartClearingUrl ==
    /\ main = "idle"
    /\ starts < MaxStarts
    /\ WithinBudget
    /\ main' = "handlers"
    /\ starts' = starts + 1
    /\ todo' = registered
    /\ Insert("none")
    /\ UNCHANGED <<registered, installed, given, meddled, supVars, callVars>>

Start ==
    /\ main = "idle"
    /\ starts < MaxStarts
    /\ WithinBudget
    /\ Cardinality({s \in Supervisor : sup[s] # "absent"})
          + Cardinality(registered) <= MaxSupervisors
    /\ main' = "handlers"
    /\ starts' = starts + 1
    /\ todo' = registered
    /\ UNCHANGED <<registered, installed, urlVars, supVars, callVars>>

(* Mutant: the supervisor starts before its topic is made, and waits for   *)
(* the Notify that is replaced.                                            *)
InitializeHandlerLate(h) ==
    /\ main = "handlers"
    /\ h \in todo
    /\ todo' = todo \ {h}
    /\ Lose(Queued(h))
    /\ deaf' = deaf \cup (AskingFor(h) \cap Waiters) \cup {<<h, starts>>}
    /\ sup' = [sup EXCEPT ![<<h, starts>>] = "bus_only"]
    /\ wait' = [wait EXCEPT ![<<h, starts>>] = "armed"]
    /\ UNCHANGED <<main, registered, starts, installed, urlVars, reply_wait>>

(* One iteration: initialize empties the queue of the topic, and those who *)
(* have fetched its old Notify stay with it; then the supervisor starts.   *)
InitializeHandler(h) ==
    /\ main = "handlers"
    /\ h \in todo
    /\ todo' = todo \ {h}
    /\ Lose(Queued(h))
    /\ \E D \in SUBSET (AskingFor(h) \cap Waiters) :
          /\ \A s \in AskingFor(h) : wait[s] = "armed" => s \in D
          /\ deaf' = deaf \cup D
    /\ sup' = [sup EXCEPT ![<<h, starts>>] = "loop"]
    /\ UNCHANGED <<main, registered, starts, installed, urlVars, wait,
                   reply_wait>>

(* Without a server start returns.  A second install_default fails, and    *)
(* files or the port may at any time.                                      *)
LaunchServer ==
    /\ main = "handlers"
    /\ todo = {}
    /\ \/ main' = "idle" /\ UNCHANGED installed
       \/ main' = "bound" /\ ~installed /\ installed' = TRUE
       \/ main' = "panicked" /\ UNCHANGED installed
    /\ UNCHANGED <<registered, starts, todo, urlVars, supVars, callVars>>

(* The server is polled only after redis_url has been written.             *)
WriteUrl ==
    /\ main = "bound"
    /\ main' = "serving"
    /\ Insert(IF given THEN "set" ELSE "none")
    /\ UNCHANGED <<registered, starts, todo, installed, given, meddled,
                   supVars, callVars>>

(* A request or a signal ends the server; System::current() panics in a    *)
(* runtime that is not actix's.                                            *)
Shutdown ==
    /\ main = "serving"
    /\ main' \in {"idle", "panicked"}
    /\ UNCHANGED <<registered, starts, todo, installed, urlVars, supVars,
                   callVars>>

(* The supervisors in listeners are those that still run.  Each stops at   *)
(* an await: with the call it has taken, or with one that its request_data *)
(* has popped.  The runs they have spawned go on.                          *)
ForceFinishAll ==
    /\ main = "idle"
    /\ \E L \in SUBSET {c \in Call : call[c].at = "queued"} :
          /\ \A h \in Handler : Cardinality(L \cap Queued(h))
                                  <= Cardinality({s \in AskingFor(h) : Looking(s)})
          /\ Lose(L \cup UNION {Held(s) : s \in Supervisor})
    /\ sup' = [s \in Supervisor |->
                  IF sup[s] \in Gone \cup {"absent"} THEN sup[s] ELSE "cancelled"]
    /\ wait' = [s \in Supervisor |-> "looks"]
    /\ deaf' = {}
    /\ UNCHANGED <<mainVars, urlVars, reply_wait>>

-----------------------------------------------------------------------------
(* The supervisors                                                         *)

MoveSupervisor(s, where) ==
    /\ sup' = [sup EXCEPT ![s] = where]
    /\ wait' = [wait EXCEPT ![s] = "looks"]
    /\ deaf' = deaf \ {s}

(* Mutant: it always subscribes.                                           *)
BeginLoopUnchecked(s) ==
    /\ sup[s] = "loop"
    /\ sup' = [sup EXCEPT ![s] = "connecting"]
    /\ UNCHANGED <<mainVars, urlVars, wait, deaf, callVars>>

BeginLoop(s) ==
    /\ sup[s] = "loop"
    /\ sup' = [sup EXCEPT ![s] = IF url = "set" THEN "connecting" ELSE "bus_only"]
    /\ UNCHANGED <<mainVars, urlVars, wait, deaf, callVars>>

Subscribe(s) ==
    /\ sup[s] = "connecting"
    /\ url = "set"
    /\ sup' = [sup EXCEPT ![s] = "subscribed"]
    /\ UNCHANGED <<mainVars, urlVars, wait, deaf, callVars>>

(* A request_data that is dropped may have popped a message.               *)
Popped(s) == {{}} \cup {{d} : d \in IF Looking(s) THEN Queued(s[1]) ELSE {}}

(* subscribe_topic_redis reads redis_url again; its error is unwrapped.    *)
SubscribePanics(s) ==
    /\ sup[s] = "connecting"
    /\ url # "set"
    /\ MoveSupervisor(s, "panicked")
    /\ \E L \in Popped(s) : Lose(L)
    /\ UNCHANGED <<mainVars, urlVars, reply_wait>>

(* No message; and a supervisor that was woken finds that another has      *)
(* taken it, and reserves an id for nothing.                               *)
FindNoMessage(s) ==
    /\ Looking(s)
    /\ Queued(s[1]) = {}
    /\ IF wait[s] = "woken"
          THEN MoveSupervisor(s, "reserve")
          ELSE wait' = [wait EXCEPT ![s] = "unarmed"] /\ UNCHANGED <<sup, deaf>>
    /\ UNCHANGED <<mainVars, urlVars, callVars>>

FindNoId(s) ==
    /\ sup[s] = "reserve" /\ wait[s] = "looks"
    /\ Busy(s) >= NrReplicas
    /\ wait' = [wait EXCEPT ![s] = "unarmed"]
    /\ UNCHANGED <<mainVars, urlVars, sup, deaf, callVars>>

(* notified() is polled for the first time.                                *)
ArmSupervisor(s) ==
    /\ wait[s] = "unarmed"
    /\ wait' = [wait EXCEPT ![s] = "armed"]
    /\ UNCHANGED <<mainVars, urlVars, sup, deaf, callVars>>

TakeFromBus(s, c) ==
    /\ Looking(s)
    /\ c \in Queued(s[1])
    /\ MoveSupervisor(s, "reserve")
    /\ call' = [call EXCEPT ![c].at = "held", ![c].by = s]
    /\ UNCHANGED <<mainVars, urlVars, reply_wait>>

(* Mutant: the request_data goes on in the next iteration.                 *)
TakeFromRedisKeepingWait(s, c) ==
    /\ sup[s] = "subscribed"
    /\ call[c].at = "new" /\ WithinBudget
    /\ sup' = [sup EXCEPT ![s] = "reserve"]
    /\ call' = [call EXCEPT ![c].at = "held", ![c].to = s[1], ![c].by = s]
    /\ UNCHANGED <<mainVars, urlVars, wait, deaf, reply_wait>>

(* The request_data that is dropped takes a replaced Notify along.         *)
TakeFromRedis(s, c) ==
    /\ sup[s] = "subscribed"
    /\ call[c].at = "new" /\ WithinBudget
    /\ MoveSupervisor(s, "reserve")
    /\ \E L \in Popped(s) :
          call' = [d \in Call |->
              IF d = c THEN [call[c] EXCEPT !.at = "held", !.to = s[1], !.by = s]
              ELSE IF d \in L THEN [call[d] EXCEPT !.at = "lost"] ELSE call[d]]
    /\ UNCHANGED <<mainVars, urlVars, reply_wait>>

(* HandlerPool has the ids.                                                *)
HandOver(s) ==
    /\ Granted(s)
    /\ MoveSupervisor(s, "loop")
    /\ call' = [c \in Call |->
          IF c \in Held(s) THEN [call[c] EXCEPT !.at = "running"] ELSE call[c]]
    /\ UNCHANGED <<mainVars, urlVars, reply_wait>>

-----------------------------------------------------------------------------
(* The calls                                                               *)

ArriveOverHttp(c, h) ==
    /\ main = "serving"
    /\ h \in registered
    /\ call[c].at = "new" /\ WithinBudget
    /\ HttpRuns(h) < NrReplicas
    /\ call' = [call EXCEPT ![c].at = "running", ![c].to = h]
    /\ UNCHANGED <<mainVars, urlVars, supVars, reply_wait>>

(* A run may write any entry of the shared state, or delete it.            *)
StoreUrl(c) ==
    /\ Free(c)
    /\ \E value \in Urls : Insert(value)
    /\ Meddle
    /\ UNCHANGED <<mainVars, given, supVars, callVars>>

(* run publishes d to h and waits for the reply, or dispatches it.         *)
Send(c, d, h) ==
    /\ Free(c)
    /\ call[d].at = "new" /\ WithinBudget
    /\ h \in Topics
    /\ \E p \in BOOLEAN :
          call' = [call EXCEPT ![d] = [at |-> "queued", to |-> h, from |-> c,
                                       by |-> None, published |-> p]]
    /\ wait' = WakeTopic(h)
    /\ UNCHANGED <<mainVars, urlVars, sup, deaf, reply_wait>>

(* send_data has pushed the message before it looks for the notifier, and  *)
(* the unwrap ends the run; a later initialize empties the queue.          *)
SendPanics(c, d, h) ==
    /\ Free(c)
    /\ call[d].at = "new" /\ WithinBudget
    /\ h \notin Topics
    /\ call' = [call EXCEPT ![c].at = "panicked",
                            ![d].at = "unsent", ![d].to = h, ![d].from = c]
    /\ UNCHANGED <<mainVars, urlVars, supVars, reply_wait>>

FindNoReply(c) ==
    /\ \E d \in Call : call[d].from = c /\ Awaited(d) /\ call[d].at # "replied"
    /\ reply_wait[c] = "looks"
    /\ reply_wait' = [reply_wait EXCEPT ![c] = "unarmed"]
    /\ UNCHANGED <<mainVars, urlVars, supVars, call>>

ArmPublisher(c) ==
    /\ reply_wait[c] = "unarmed"
    /\ reply_wait' = [reply_wait EXCEPT ![c] = "armed"]
    /\ UNCHANGED <<mainVars, urlVars, supVars, call>>

TakeReply(c, d) ==
    /\ call[d].at = "replied" /\ call[d].from = c
    /\ reply_wait[c] = "looks"
    /\ call' = [call EXCEPT ![d].at = "ended"]
    /\ UNCHANGED <<mainVars, urlVars, supVars, reply_wait>>

(* process_handler_call: run_and_dispatch sends the reply of a call that   *)
(* was published, unless run has failed, and the id goes back.             *)
EndRun(c) ==
    /\ Free(c)
    /\ \/ /\ call' = [call EXCEPT ![c].at = IF call[c].published THEN "replied"
                                                                ELSE "ended"]
          /\ reply_wait' = IF call[c].published THEN WakePublisher(call[c].from)
                                                ELSE reply_wait
       \/ /\ call[c].published
          /\ call' = [call EXCEPT ![c].at = "failed"]
          /\ UNCHANGED reply_wait
    /\ wait' = WakeForId(call[c].by)
    /\ UNCHANGED <<mainVars, urlVars, sup, deaf>>

(* An id is lost, but the permits of a run that HTTP started are not.      *)
RunPanics(c) ==
    /\ Free(c)
    /\ call' = [call EXCEPT ![c].at = IF call[c].by = None THEN "ended"
                                      ELSE "panicked"]
    /\ UNCHANGED <<mainVars, urlVars, supVars, reply_wait>>

-----------------------------------------------------------------------------
OwnerStep ==
    \/ AddGlobalState
    \/ WithRedisUrl
    \/ Start
    \/ \E h \in Handler : AddHandler(h) \/ InitializeHandler(h)
    \/ LaunchServer
    \/ WriteUrl
    \/ Shutdown
    \/ ForceFinishAll

SupervisorStep(s) ==
    \/ BeginLoop(s)
    \/ Subscribe(s)
    \/ SubscribePanics(s)
    \/ FindNoMessage(s)
    \/ FindNoId(s)
    \/ ArmSupervisor(s)
    \/ HandOver(s)
    \/ \E c \in Call : TakeFromBus(s, c) \/ TakeFromRedis(s, c)

CallStep(c) ==
    \/ \E h \in Handler : ArriveOverHttp(c, h)
    \/ StoreUrl(c)
    \/ \E d \in Call, h \in Handler : Send(c, d, h) \/ SendPanics(c, d, h)
    \/ FindNoReply(c)
    \/ ArmPublisher(c)
    \/ \E d \in Call : TakeReply(c, d)
    \/ EndRun(c)
    \/ RunPanics(c)

Next ==
    \/ OwnerStep
    \/ \E s \in Supervisor : SupervisorStep(s)
    \/ \E c \in Call : CallStep(c)

Spec == Init /\ [][Next]_vars

-----------------------------------------------------------------------------
(* A supervisor waits on a Notify that nobody uses any more only after a   *)
(* later start gave its handler another one.  So the newest supervisor of  *)
(* a topic is never deaf to what is sent to it (manager.rs:420-426, 470,   *)
(* multibus.rs:29-30).                                                     *)
EveryTopicServed ==
    \A s \in deaf : \E t \in Supervisor : /\ t[1] = s[1] /\ t[2] > s[2]
                                          /\ sup[t] # "absent"

(* Somebody has something to take, and waits: it was unarmed when it came. *)
Overslept ==
    \/ \E s \in Waiters \ deaf :
          \/ sup[s] \in Asking /\ Queued(s[1]) # {}
          \/ sup[s] = "reserve" /\ Busy(s) < NrReplicas
    \/ \E d \in Call : call[d].at = "replied" /\ reply_wait[call[d].from] # "looks"

(* Each message that is not taken occupies a worker.                       *)
UnderWay   == {c \in Call : call[c].at \in {"queued", "replied"}}
WorkerLeft == Cardinality(UnderWay) < NWorkers

(* What leaves a publish waiting, apart from a circle: a run that owes a   *)
(* reply and failed, one that took an id along in a panic, a message that  *)
(* was dropped, a supervisor that has ended, a wake-up that was missed,    *)
(* and senders that find no worker.                                        *)
Undisturbed ==
    /\ \A c \in Call : call[c].at \notin {"failed", "panicked", "lost"}
    /\ \A s \in Supervisor : sup[s] \notin Gone
    /\ ~Overslept
    /\ WorkerLeft

WaitingHandlers == {<<call[call[d].from].to, call[d].to>> :
                       d \in {e \in Call : /\ Awaited(e)
                                           /\ call[call[e].from].by # None}}

Ranks == {rank \in [Handler -> 1..Cardinality(Handler)] :
             \A e \in WaitingHandlers : rank[e[1]] > rank[e[2]]}

(* A run may need a worker for what it does next.                          *)
CanMove(h) ==
    \/ \E s \in Supervisor : /\ s[1] = h
                             /\ \/ sup[s] = "loop"
                                \/ Looking(s) /\ Queued(h) # {}
                                \/ Granted(s)
    \/ \E c \in Call : /\ call[c].to = h
                       /\ \/ Free(c) /\ WorkerLeft
                          \/ /\ call[c].at = "replied"
                             /\ reply_wait[call[c].from] = "looks"

(* These are all the causes of a publish to a handler that does not        *)
(* return, not even in part: give each handler a rank such that its        *)
(* replicas only ever wait for replies from lower ranks, which is          *)
(* impossible when handlers wait for each other in a circle; then, unless  *)
(* one of the above has happened, something can move at the handler a      *)
(* reply is awaited from or at one below it, whatever the others do.  Runs *)
(* that HTTP started hold no replica and cannot close a circle             *)
(* (traits.rs:86, manager.rs:378, 443, 449, multibus.rs:63, 112).          *)
PublishesReturn ==
    Undisturbed => \A rank \in Ranks, d \in Call :
        Awaited(d) => \E h \in Handler : /\ rank[h] <= rank[call[d].to]
                                        /\ CanMove(h)

(* "The number of replicas a handler can have at any time"                 *)
(* (manager.rs:309), however its calls come.                               *)
ReplicasBounded ==
    \A h \in Handler :
        Cardinality({c \in Call : call[c].at = "running" /\ call[c].to = h})
            <= NrReplicas

(* While the first start makes the topics nothing reaches a handler that   *)
(* could send to one that is still to come, because redis_url is written   *)
(* and the server polled after the last; a url from elsewhere opens Redis  *)
(* before (manager.rs:418-426, 539, 614-620).                              *)
TopicsBeforeCalls ==
    starts = 1 /\ main = "handlers" /\ ~meddled
        => \A c \in Call : call[c].at = "new"

(* start itself, however often it is called, never takes the redis_url     *)
(* away from a supervisor between its look at it and its subscription,     *)
(* which panics without: others did, or with_redis_url emptied the one of  *)
(* the manager (manager.rs:289, 430-438, 614-617).                         *)
UrlKeptWhileConnecting ==
    (\E s \in Supervisor : sup[s] = "panicked") => meddled

(* With one start, no forced finish and no Redis no message that was put   *)
(* into the queue of a topic is dropped before its run; it may wait there  *)
(* for ever (manager.rs:426, 436-439).                                     *)
NothingLostOnTheBus ==
    starts = 1 /\ ~given /\ ~meddled /\ (\A s \in Supervisor : sup[s] # "cancelled")
        => \A c \in Call : call[c].at # "lost"

=============================================================================
