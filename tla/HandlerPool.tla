------------------------------ MODULE HandlerPool ------------------------------
(***************************************************************************)
(* The replicas of one handler as its supervisor in src/src/manager.rs     *)
(* sees them: initialize_handlers keeps the ids that are free in           *)
(* standby_handlers, reserves one for each request and spawns              *)
(* process_handler_call with it, which puts the id back when the run is    *)
(* over and notifies.  Everything between two points where another thread  *)
(* can get in between is one step: what is done under the lock of          *)
(* standby_handlers, the creation of a notified() future, notify_waiters.  *)
(*                                                                         *)
(* Where requests come from is left open (the bus or Redis): they arrive   *)
(* in backlog.                                                             *)
(***************************************************************************)
EXTENDS Integers, Sequences, FiniteSets, Functions

CONSTANTS
    NrReplicas,    \* nr_replicas of add_handler, an i32
    MaxRequests,   \* bound: how many requests arrive
    RunMayPanic    \* whether Base::run may panic

ASSUME PoolAssumption ==
    /\ NrReplicas \in Int
    /\ MaxRequests \in Nat
    /\ RunMayPanic \in BOOLEAN

(* (0..nr_times), empty for a number that is not positive *)
Id == 0..NrReplicas - 1

VARIABLES
    arrived,      \* requests that have arrived so far
    backlog,      \* requests the supervisor has not taken yet
    supervisor,   \* where the supervisor is in its loop
    standby,      \* standby_handlers_task
    running,      \* ids of the calls that have not put them back yet
    lost,         \* ids of calls that panicked
    notifying     \* calls between their push and their notify_waiters

vars == <<arrived, backlog, supervisor, standby, running, lost, notifying>>

PoolTypeOK ==
    /\ arrived \in 0..MaxRequests
    /\ backlog \in 0..arrived
    /\ supervisor \in {"request", "reserve", "arm", "waiting"}
    /\ standby \in Seq(Id)
    /\ running \subseteq Id
    /\ lost \subseteq Id
    /\ notifying \in Nat

Init ==
    /\ arrived = 0
    /\ backlog = 0
    /\ supervisor = "request"
    /\ standby = [i \in 1..Cardinality(Id) |-> i - 1]
    /\ running = {}
    /\ lost = {}
    /\ notifying = 0

Arrive ==
    /\ arrived < MaxRequests
    /\ arrived' = arrived + 1
    /\ backlog' = backlog + 1
    /\ UNCHANGED <<supervisor, standby, running, lost, notifying>>

-----------------------------------------------------------------------------
(* The loop of the supervisor                                              *)

(* The request is taken before it is known whether a replica is free.      *)
TakeRequest ==
    /\ supervisor = "request"
    /\ backlog > 0
    /\ backlog' = backlog - 1
    /\ supervisor' = "reserve"
    /\ UNCHANGED <<arrived, standby, running, lost, notifying>>

(* Mutant: the id is read but stays in the pool.                           *)
ReserveIdWithoutPop ==
    /\ supervisor = "reserve"
    /\ standby # <<>>
    /\ running' = running \cup {standby[Len(standby)]}
    /\ supervisor' = "request"
    /\ UNCHANGED <<arrived, backlog, standby, lost, notifying>>

(* standby_handlers_lock.pop(), and the call is spawned with the id.       *)
ReserveId ==
    /\ supervisor = "reserve"
    /\ standby # <<>>
    /\ running' = running \cup {standby[Len(standby)]}
    /\ standby' = SubSeq(standby, 1, Len(standby) - 1)
    /\ supervisor' = "request"
    /\ UNCHANGED <<arrived, backlog, lost, notifying>>

FindNoId ==
    /\ supervisor = "reserve"
    /\ standby = <<>>
    /\ supervisor' = "arm"
    /\ UNCHANGED <<arrived, backlog, standby, running, lost, notifying>>

(* notified() is created after the lock has been dropped, and receives the *)
(* calls of notify_waiters from then on.                                   *)
ArmNotification ==
    /\ supervisor = "arm"
    /\ supervisor' = "waiting"
    /\ UNCHANGED <<arrived, backlog, standby, running, lost, notifying>>

-----------------------------------------------------------------------------
(* process_handler_call                                                    *)

(* Mutant: the waiters are notified before the id is put back, and a       *)
(* waiting supervisor has looked for an id in between.                     *)
PutBackIdAfterNotify(id) ==
    /\ id \in running
    /\ running' = running \ {id}
    /\ standby' = Append(standby, id)
    /\ supervisor' = IF supervisor = "waiting" THEN "arm" ELSE supervisor
    /\ UNCHANGED <<arrived, backlog, lost, notifying>>

(* Mutant: one more replica than the supervisor was given.                 *)
PutBackNextId(id) ==
    /\ id \in running
    /\ running' = running \ {id}
    /\ standby' = Append(standby, id + 1)
    /\ notifying' = notifying + 1
    /\ UNCHANGED <<arrived, backlog, supervisor, lost>>

(* run_and_dispatch is over, with an error or without.                     *)
PutBackId(id) ==
    /\ id \in running
    /\ running' = running \ {id}
    /\ standby' = Append(standby, id)
    /\ notifying' = notifying + 1
    /\ UNCHANGED <<arrived, backlog, supervisor, lost>>

(* A panic in run ends the spawned task before the id is put back.         *)
RunPanics(id) ==
    /\ RunMayPanic
    /\ id \in running
    /\ running' = running \ {id}
    /\ lost' = lost \cup {id}
    /\ UNCHANGED <<arrived, backlog, supervisor, standby, notifying>>

(* The id may be running again by now.                                     *)
NotifySupervisor ==
    /\ notifying > 0
    /\ notifying' = notifying - 1
    /\ supervisor' = IF supervisor = "waiting" THEN "reserve" ELSE supervisor
    /\ UNCHANGED <<arrived, backlog, standby, running, lost>>

-----------------------------------------------------------------------------
SupervisorStep == TakeRequest \/ ReserveId \/ FindNoId \/ ArmNotification

Next ==
    \/ Arrive
    \/ SupervisorStep
    \/ \E id \in Id : PutBackId(id) \/ RunPanics(id)
    \/ NotifySupervisor

Spec == Init /\ [][Next]_vars

(* Tasks are scheduled, and runs end: with an id put back unless they      *)
(* panic.                                                                  *)
FairSpec ==
    /\ Spec
    /\ WF_vars(SupervisorStep)
    /\ WF_vars(NotifySupervisor)
    /\ \A id \in Id : WF_vars(PutBackId(id) \/ RunPanics(id))

-----------------------------------------------------------------------------
(* Every id is free, running or lost to a panic, and only one of these;    *)
(* none is in the pool twice.  So no id is handed to two calls at a time,  *)
(* however late an earlier call with it notifies (manager.rs:443-450,      *)
(* 407-410).                                                               *)
IdsPartitioned ==
    /\ IsInjective(standby)
    /\ Range(standby) \cap running = {}
    /\ Range(standby) \cap lost = {}
    /\ running \cap lost = {}
    /\ Range(standby) \cup running \cup lost = Id

(* A supervisor that is already waiting while a call is running gets a     *)
(* replica for its request, or a call panics, unless a call whose id it    *)
(* has already reused is still about to notify: that wakes it too early,   *)
(* and in front of notified() it may then miss all others                  *)
(* (manager.rs:443-450, 409-410).                                          *)
WaitingSupervisorServed ==
    \A L \in SUBSET Id :
        (supervisor = "waiting" /\ running # {} /\ notifying = 0 /\ lost = L)
            ~> (supervisor = "request" \/ lost # L)

(* Completed handlers re-queue their id and wake waiters, so a request     *)
(* that the supervisor has taken is run (manager.rs:390-391, 416).         *)
TakenRequestRuns == supervisor = "reserve" ~> supervisor = "request"

=============================================================================
