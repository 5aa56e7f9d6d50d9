------------------------------- MODULE MultiBus -------------------------------
(***************************************************************************)
(* The in-process message bus of src/src/core/communication/multibus.rs.   *)
(*                                                                         *)
(* A step of the model is what one future does between two points where    *)
(* it can be suspended or where another thread can get in between: one     *)
(* lock acquisition with what is done under it, or one Notify operation.   *)
(* The three tokio locks (number_of_workers, memory, notifiers) are not    *)
(* variables: who holds them follows from the control point of each task   *)
(* (HoldsWorkers, HoldsMemory, HoldsNotifiers), because every guard is     *)
(* scoped to a part of the function that took it.  A guard that is taken   *)
(* and dropped without an await in between is one step that needs the      *)
(* lock free.                                                              *)
(*                                                                         *)
(* The specification is the most general client of the bus: any task may   *)
(* call any operation on any address.  Modules that use the bus restrict   *)
(* who calls what; what is proved here holds for all of them.              *)
(***************************************************************************)
EXTENDS Integers, Sequences, FiniteSets, Functions

CONSTANTS
    Task,          \* the async tasks that use the bus
    Cancellable,   \* those whose request_data is one branch of a select!
    Address,       \* keys of the two maps: topics and reply addresses
    Message,       \* every message is sent at most once, so it has an identity
    NoAddress,
    NoMessage,     \* the None of Option<String>
    NWorkers,      \* initial number_of_workers, 10 in create_bus
    MaxNotifiers   \* bound: how many Notify objects initialize may create

ASSUME BusAssumption ==
    /\ Cancellable \subseteq Task
    /\ NoAddress \notin Address
    /\ NoMessage \notin Message
    /\ IsFiniteSet(Message)
    /\ NWorkers \in Nat
    /\ MaxNotifiers \in Nat

VARIABLES
    workers,     \* number_of_workers
    memory,      \* memory: the queue of each address, oldest message first
    present,     \* the keys of memory; a queue outside of it is empty
    notifiers,   \* notifiers: which Notify an address has, 0 for no entry
    created,     \* how many Notify objects exist; they are named 1..created
    pc,          \* where each task is in the bus
    addr,        \* its address argument
    msg,         \* the message it is sending
    ref,         \* the Arc<Notify> it has cloned, 0 for none
    got,         \* what its last get_one_request popped
    fate,        \* history: how far each message has come
    spurious     \* history: pops of an empty queue, each of them credited

busVars == <<workers, memory, present, notifiers, created,
             pc, addr, msg, ref, got, fate, spurious>>

SendPoints    == {"check", "claim", "push", "lookup", "notify"}
RequestPoints == {"measure", "fetch", "arm", "waiting", "pop", "credit"}
AdminPoints   == {"init_memory", "init_notifiers", "init_tick",
                  "remove_memory", "remove_notifiers"}
ControlPoint  == {"idle", "panicked"}
                   \cup SendPoints \cup RequestPoints \cup AdminPoints

(* "dropped": discarded with its queue; "cancelled": popped by a request   *)
(* that was dropped before it returned.                                    *)
Fate == {"unsent", "sending", "claimed", "queued", "popped",
         "delivered", "dropped", "cancelled"}

TypeOK ==
    /\ workers \in Int
    /\ memory \in [Address -> Seq(Message)]
    /\ present \subseteq Address
    /\ notifiers \in [Address -> Nat]
    /\ created \in Nat
    /\ pc \in [Task -> ControlPoint]
    /\ addr \in [Task -> Address \cup {NoAddress}]
    /\ msg \in [Task -> Message \cup {NoMessage}]
    /\ ref \in [Task -> Nat]
    /\ got \in [Task -> Message \cup {NoMessage}]
    /\ fate \in [Message -> Fate]
    /\ spurious \in Nat

(* Mutants: the worker count is unlocked after the push, or before the     *)
(* notification.                                                           *)
HoldsWorkersForPush(t)   == pc[t] = "push"
HoldsWorkersForLookup(t) == pc[t] \in {"push", "lookup"}

(* The guard inf_nr of send_data lives until the end of the function.      *)
HoldsWorkers(t) == pc[t] \in {"push", "lookup", "notify"}

(* Mutant: get_one_request keeps the queues locked until it has credited   *)
(* the worker.                                                             *)
HoldsMemoryThroughCredit(t) ==
    pc[t] \in {"init_notifiers", "remove_notifiers", "credit"}

(* initialize and remove take memory first and keep it while they wait     *)
(* for notifiers.                                                          *)
HoldsMemory(t) == pc[t] \in {"init_notifiers", "remove_notifiers"}

(* initialize drops memory but keeps notifiers over its tick.              *)
HoldsNotifiers(t) == pc[t] = "init_tick"

WorkersFree   == \A t \in Task : ~HoldsWorkers(t)
MemoryFree    == \A t \in Task : ~HoldsMemory(t)
NotifiersFree == \A t \in Task : ~HoldsNotifiers(t)

(* create_bus *)
BusInit ==
    /\ workers = NWorkers
    /\ memory = [a \in Address |-> <<>>]
    /\ present = {}
    /\ notifiers = [a \in Address |-> 0]
    /\ created = 0
    /\ pc = [t \in Task |-> "idle"]
    /\ addr = [t \in Task |-> NoAddress]
    /\ msg = [t \in Task |-> NoMessage]
    /\ ref = [t \in Task |-> 0]
    /\ got = [t \in Task |-> NoMessage]
    /\ fate = [m \in Message |-> "unsent"]
    /\ spurious = 0

Goto(t, point) == pc' = [pc EXCEPT ![t] = point]

(* Leaving an operation drops its locals; the result stays in got.         *)
Leave(t, point) ==
    /\ Goto(t, point)
    /\ addr' = [addr EXCEPT ![t] = NoAddress]
    /\ ref' = [ref EXCEPT ![t] = 0]

-----------------------------------------------------------------------------
(* send_data                                                               *)

CallSendData(t, a, m) ==
    /\ pc[t] = "idle"
    /\ fate[m] = "unsent"
    /\ Goto(t, "check")
    /\ addr' = [addr EXCEPT ![t] = a]
    /\ msg' = [msg EXCEPT ![t] = m]
    /\ got' = [got EXCEPT ![t] = NoMessage]
    /\ fate' = [fate EXCEPT ![m] = "sending"]
    /\ UNCHANGED <<workers, memory, present, notifiers, created, ref, spurious>>

(* The guard of the while condition is dropped before the loop is left,    *)
(* so the count may change before ClaimWorker.  A check that finds 0       *)
(* waits for the next tick and changes nothing.                            *)
CheckWorkers(t) ==
    /\ pc[t] = "check"
    /\ WorkersFree
    /\ workers # 0
    /\ Goto(t, "claim")
    /\ UNCHANGED <<workers, memory, present, notifiers, created,
                   addr, msg, ref, got, fate, spurious>>

(* Mutant: the count saturates at 0.                                       *)
ClaimWorkerSaturating(t) ==
    /\ pc[t] = "claim"
    /\ WorkersFree
    /\ workers' = IF workers > 0 THEN workers - 1 ELSE 0
    /\ Goto(t, "push")
    /\ fate' = [fate EXCEPT ![msg[t]] = "claimed"]
    /\ UNCHANGED <<memory, present, notifiers, created,
                   addr, msg, ref, got, spurious>>

(* Mutant: the message is moved out of the task before it is pushed.       *)
ClaimWorkerMovingMessage(t) ==
    /\ pc[t] = "claim"
    /\ WorkersFree
    /\ workers' = workers - 1
    /\ Goto(t, "push")
    /\ msg' = [msg EXCEPT ![t] = NoMessage]
    /\ fate' = [fate EXCEPT ![msg[t]] = "claimed"]
    /\ UNCHANGED <<memory, present, notifiers, created,
                   addr, ref, got, spurious>>

ClaimWorker(t) ==
    /\ pc[t] = "claim"
    /\ WorkersFree
    /\ workers' = workers - 1
    /\ Goto(t, "push")
    /\ fate' = [fate EXCEPT ![msg[t]] = "claimed"]
    /\ UNCHANGED <<memory, present, notifiers, created,
                   addr, msg, ref, got, spurious>>

(* entry(address).or_default() makes a queue for an unknown address.       *)
PushMessage(t) ==
    /\ pc[t] = "push"
    /\ MemoryFree
    /\ memory' = [memory EXCEPT ![addr[t]] = Append(@, msg[t])]
    /\ present' = present \cup {addr[t]}
    /\ Goto(t, "lookup")
    /\ msg' = [msg EXCEPT ![t] = NoMessage]
    /\ fate' = [fate EXCEPT ![msg[t]] = "queued"]
    /\ UNCHANGED <<workers, notifiers, created, addr, ref, got, spurious>>

LookupNotifier(t) ==
    /\ pc[t] = "lookup"
    /\ NotifiersFree
    /\ notifiers[addr[t]] # 0
    /\ ref' = [ref EXCEPT ![t] = notifiers[addr[t]]]
    /\ Goto(t, "notify")
    /\ UNCHANGED <<workers, memory, present, notifiers, created,
                   addr, msg, got, fate, spurious>>

(* notifiers.get(&address).unwrap() on an address that was never           *)
(* initialized or is already removed: the message stays in its queue and   *)
(* the worker that was taken for it stays taken.                           *)
LookupPanics(t) ==
    /\ pc[t] = "lookup"
    /\ NotifiersFree
    /\ notifiers[addr[t]] = 0
    /\ Leave(t, "panicked")
    /\ UNCHANGED <<workers, memory, present, notifiers, created,
                   msg, got, fate, spurious>>

(* Mutant: a sender returns without notifying.                             *)
NotifyNobody(t) ==
    /\ pc[t] = "notify"
    /\ Leave(t, "idle")
    /\ UNCHANGED <<workers, memory, present, notifiers, created,
                   msg, got, fate, spurious>>

(* notify_waiters wakes the futures that exist now and stores no permit.   *)
NotifyWaiters(t) ==
    /\ pc[t] = "notify"
    /\ pc' = [u \in Task |->
                 IF u = t THEN "idle"
                 ELSE IF pc[u] = "waiting" /\ ref[u] = ref[t] THEN "pop"
                 ELSE pc[u]]
    /\ addr' = [addr EXCEPT ![t] = NoAddress]
    /\ ref' = [ref EXCEPT ![t] = 0]
    /\ UNCHANGED <<workers, memory, present, notifiers, created,
                   msg, got, fate, spurious>>

-----------------------------------------------------------------------------
(* request_data and get_one_request                                        *)

CallRequestData(t, a) ==
    /\ pc[t] = "idle"
    /\ Goto(t, "measure")
    /\ addr' = [addr EXCEPT ![t] = a]
    /\ got' = [got EXCEPT ![t] = NoMessage]
    /\ UNCHANGED <<workers, memory, present, notifiers, created,
                   msg, ref, fate, spurious>>

ReadLength(t) ==
    /\ pc[t] = "measure"
    /\ MemoryFree
    /\ addr[t] \in present
    /\ Goto(t, IF memory[addr[t]] # <<>> THEN "pop" ELSE "fetch")
    /\ UNCHANGED <<workers, memory, present, notifiers, created,
                   addr, msg, ref, got, fate, spurious>>

(* memory_data.get(&address).unwrap() *)
ReadLengthPanics(t) ==
    /\ pc[t] = "measure"
    /\ MemoryFree
    /\ addr[t] \notin present
    /\ Leave(t, "panicked")
    /\ UNCHANGED <<workers, memory, present, notifiers, created,
                   msg, got, fate, spurious>>

FetchNotifier(t) ==
    /\ pc[t] = "fetch"
    /\ NotifiersFree
    /\ notifiers[addr[t]] # 0
    /\ ref' = [ref EXCEPT ![t] = notifiers[addr[t]]]
    /\ Goto(t, "arm")
    /\ UNCHANGED <<workers, memory, present, notifiers, created,
                   addr, msg, got, fate, spurious>>

(* notifiers.get(&address).unwrap() *)
FetchNotifierPanics(t) ==
    /\ pc[t] = "fetch"
    /\ NotifiersFree
    /\ notifiers[addr[t]] = 0
    /\ Leave(t, "panicked")
    /\ UNCHANGED <<workers, memory, present, notifiers, created,
                   msg, got, fate, spurious>>

(* notified() receives the calls of notify_waiters from here on.           *)
ArmNotified(t) ==
    /\ pc[t] = "arm"
    /\ Goto(t, "waiting")
    /\ UNCHANGED <<workers, memory, present, notifiers, created,
                   addr, msg, ref, got, fate, spurious>>

(* Mutant: the newest message is popped.                                   *)
PopNewest(t) ==
    /\ pc[t] = "pop"
    /\ MemoryFree
    /\ present' = present \cup {addr[t]}
    /\ LET q == memory[addr[t]] IN
       \/ /\ q # <<>>
          /\ got' = [got EXCEPT ![t] = q[Len(q)]]
          /\ fate' = [fate EXCEPT ![q[Len(q)]] = "popped"]
          /\ memory' = [memory EXCEPT ![addr[t]] = SubSeq(q, 1, Len(q) - 1)]
       \/ /\ q = <<>>
          /\ UNCHANGED <<got, fate, memory>>
    /\ Goto(t, "credit")
    /\ UNCHANGED <<workers, notifiers, created, addr, msg, ref, spurious>>

PopOne(t) ==
    /\ pc[t] = "pop"
    /\ MemoryFree
    /\ present' = present \cup {addr[t]}
    /\ \/ /\ memory[addr[t]] # <<>>
          /\ got' = [got EXCEPT ![t] = Head(memory[addr[t]])]
          /\ fate' = [fate EXCEPT ![Head(memory[addr[t]])] = "popped"]
          /\ memory' = [memory EXCEPT ![addr[t]] = Tail(@)]
       \/ /\ memory[addr[t]] = <<>>
          /\ UNCHANGED <<got, fate, memory>>
    /\ Goto(t, "credit")
    /\ UNCHANGED <<workers, notifiers, created, addr, msg, ref, spurious>>

(* The count goes up whether or not the pop found a message.               *)
CreditWorker(t) ==
    /\ pc[t] = "credit"
    /\ WorkersFree
    /\ workers' = workers + 1
    /\ \/ /\ got[t] # NoMessage
          /\ fate' = [fate EXCEPT ![got[t]] = "delivered"]
          /\ UNCHANGED spurious
       \/ /\ got[t] = NoMessage
          /\ spurious' = spurious + 1
          /\ UNCHANGED fate
    /\ Leave(t, "idle")
    /\ UNCHANGED <<memory, present, notifiers, created, msg, got>>

(* The other branch of the select! in initialize_handlers wins and the     *)
(* request_data future is dropped at one of its await points.              *)
CancelRequest(t) ==
    /\ t \in Cancellable
    /\ pc[t] \in RequestPoints \ {"arm"}
    /\ \/ /\ pc[t] = "credit" /\ got[t] # NoMessage
          /\ fate' = [fate EXCEPT ![got[t]] = "cancelled"]
       \/ /\ ~(pc[t] = "credit" /\ got[t] # NoMessage)
          /\ UNCHANGED fate
    /\ Leave(t, "idle")
    /\ got' = [got EXCEPT ![t] = NoMessage]
    /\ UNCHANGED <<workers, memory, present, notifiers, created, msg, spurious>>

-----------------------------------------------------------------------------
(* initialize and remove                                                   *)

CallInitialize(t, a) ==
    /\ pc[t] = "idle"
    /\ created < MaxNotifiers
    /\ Goto(t, "init_memory")
    /\ addr' = [addr EXCEPT ![t] = a]
    /\ got' = [got EXCEPT ![t] = NoMessage]
    /\ UNCHANGED <<workers, memory, present, notifiers, created,
                   msg, ref, fate, spurious>>

CallRemove(t, a) ==
    /\ pc[t] = "idle"
    /\ Goto(t, "remove_memory")
    /\ addr' = [addr EXCEPT ![t] = a]
    /\ UNCHANGED <<workers, memory, present, notifiers, created,
                   msg, ref, got, fate, spurious>>

LockMemory(t) ==
    /\ pc[t] \in {"init_memory", "remove_memory"}
    /\ MemoryFree
    /\ Goto(t, IF pc[t] = "init_memory" THEN "init_notifiers" ELSE "remove_notifiers")
    /\ UNCHANGED <<workers, memory, present, notifiers, created,
                   addr, msg, ref, got, fate, spurious>>

(* Mutant: remove leaves the queue behind.                                 *)
RemoveNotifierOnly(t) ==
    /\ pc[t] = "remove_notifiers"
    /\ NotifiersFree
    /\ notifiers' = [notifiers EXCEPT ![addr[t]] = 0]
    /\ Leave(t, "idle")
    /\ UNCHANGED <<workers, memory, present, created, msg, got, fate, spurious>>

(* What becomes of the messages of a queue that is replaced or removed.    *)
DropQueue(a) ==
    fate' = [m \in Message |-> IF m \in Range(memory[a]) THEN "dropped" ELSE fate[m]]

(* Both maps get a fresh value even if the address was already known.      *)
InsertAddress(t) ==
    /\ pc[t] = "init_notifiers"
    /\ NotifiersFree
    /\ created' = created + 1
    /\ notifiers' = [notifiers EXCEPT ![addr[t]] = created + 1]
    /\ memory' = [memory EXCEPT ![addr[t]] = <<>>]
    /\ present' = present \cup {addr[t]}
    /\ DropQueue(addr[t])
    /\ Goto(t, "init_tick")
    /\ UNCHANGED <<workers, addr, msg, ref, got, spurious>>

FirstTick(t) ==
    /\ pc[t] = "init_tick"
    /\ Leave(t, "idle")
    /\ UNCHANGED <<workers, memory, present, notifiers, created,
                   msg, got, fate, spurious>>

RemoveAddress(t) ==
    /\ pc[t] = "remove_notifiers"
    /\ NotifiersFree
    /\ notifiers' = [notifiers EXCEPT ![addr[t]] = 0]
    /\ memory' = [memory EXCEPT ![addr[t]] = <<>>]
    /\ present' = present \ {addr[t]}
    /\ DropQueue(addr[t])
    /\ Leave(t, "idle")
    /\ UNCHANGED <<workers, created, msg, got, spurious>>

-----------------------------------------------------------------------------
SendStep(t) ==
    \/ CheckWorkers(t)
    \/ ClaimWorker(t)
    \/ PushMessage(t)
    \/ LookupNotifier(t)
    \/ LookupPanics(t)
    \/ NotifyWaiters(t)

RequestStep(t) ==
    \/ ReadLength(t)
    \/ ReadLengthPanics(t)
    \/ FetchNotifier(t)
    \/ FetchNotifierPanics(t)
    \/ ArmNotified(t)
    \/ PopOne(t)
    \/ CreditWorker(t)

AdminStep(t) ==
    \/ LockMemory(t)
    \/ InsertAddress(t)
    \/ FirstTick(t)
    \/ RemoveAddress(t)

BusStep(t) == SendStep(t) \/ RequestStep(t) \/ AdminStep(t)

Call(t) ==
    \E a \in Address :
        \/ \E m \in Message : CallSendData(t, a, m)
        \/ CallRequestData(t, a)
        \/ CallInitialize(t, a)
        \/ CallRemove(t, a)

BusNext == \E t \in Task : Call(t) \/ BusStep(t) \/ CancelRequest(t)

BusSpec == BusInit /\ [][BusNext]_busVars

(* tokio's Mutex and RwLock queue their waiters in order, so a task that   *)
(* waits for a lock gets it: strong fairness.  A sender that waits for a   *)
(* worker only looks every 90 ms and may miss every moment in which the    *)
(* count is not 0: weak fairness.                                          *)
LockFairness ==
    \A t \in Task : /\ WF_busVars(CheckWorkers(t))
                    /\ SF_busVars(BusStep(t) /\ pc[t] # "check")

FairBusSpec == BusSpec /\ LockFairness

-----------------------------------------------------------------------------
(* Messages that a worker was taken for and not yet given back: still      *)
(* held by their sender, queued, popped but not yet credited, or gone      *)
(* without a credit.                                                       *)
Outstanding ==
    {m \in Message :
        \/ \E t \in Task : pc[t] = "push" /\ msg[t] = m
        \/ \E a \in Address : m \in Range(memory[a])
        \/ \E t \in Task : pc[t] = "credit" /\ got[t] = m
        \/ fate[m] \in {"dropped", "cancelled"}}

(* number_of_workers is the size of the pool less the outstanding          *)
(* messages, plus one for every pop that found nothing: no interleaving    *)
(* of the operations loses or doubles a count in any other way             *)
(* (multibus.rs:74-76, 125-132).                                           *)
WorkerAccounting == workers = NWorkers + spurious - Cardinality(Outstanding)

(* Which lock the next step of a task waits for                            *)
Blocked(t) ==
    \/ pc[t] \in {"check", "claim", "credit"} /\ ~WorkersFree
    \/ /\ pc[t] \in {"push", "measure", "pop", "init_memory", "remove_memory"}
       /\ ~MemoryFree
    \/ /\ pc[t] \in {"lookup", "fetch", "init_notifiers", "remove_notifiers"}
       /\ ~NotifiersFree

(* The functions take the three locks in different orders and keep one     *)
(* while they wait for another, but never in a circle: whenever a task     *)
(* waits for a lock, one of those that hold a lock can go on               *)
(* (multibus.rs:24-47, 75-87, 95-132).                                     *)
LockHoldersMove ==
    \A t \in Task : Blocked(t) =>
        \E u \in Task : /\ HoldsWorkers(u) \/ HoldsMemory(u) \/ HoldsNotifiers(u)
                       /\ ~Blocked(u)

(* A task past the worker check always gets its locks: it returns, panics  *)
(* or comes to wait for a notification (multibus.rs:24-135).               *)
OperationsFinish ==
    \A t \in Task :
        pc[t] \in ControlPoint \ {"idle", "panicked", "check", "waiting"}
            ~> pc[t] \in {"idle", "panicked", "waiting"}

(* Messages in the queues never exceed the pool of workers                 *)
(* (multibus.rs:50-52).                                                    *)
QueuesBounded ==
    Cardinality({m \in Message : \E a \in Address : m \in Range(memory[a])})
        <= NWorkers

(* The bus implements one FIFO queue per address: every message is in at   *)
(* most one queue, leaves it at the front and once, and is never put back, *)
(* whatever the senders, the requesters and the changes of the address     *)
(* table do to each other (multibus.rs:80, 126, 30, 45).                   *)
Fifo == INSTANCE FifoBus WITH
            queue <- memory,
            taken <- {m \in Message : fate[m] \in {"popped", "delivered", "cancelled"}},
            dropped <- {m \in Message : fate[m] = "dropped"}

ImplementsFifo == Fifo!FifoSpec

=============================================================================
