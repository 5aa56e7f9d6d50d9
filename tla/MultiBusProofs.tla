---------------------------- MODULE MultiBusProofs ----------------------------
(***************************************************************************)
(* Proofs about the message bus, for any number of tasks, addresses,       *)
(* messages and workers.                                                   *)
(***************************************************************************)
EXTENDS MultiBus, SequenceLemmas, FiniteSetTheorems, TLAPS

Sending == {"check", "claim", "push"}

(* The locals of an operation are set while it needs them.                 *)
LocalsSet ==
    \A t \in Task :
        /\ pc[t] \notin {"idle", "panicked"} => addr[t] \in Address
        /\ pc[t] \in Sending => msg[t] \in Message
        /\ pc[t] \in {"measure", "fetch", "arm", "waiting", "pop"} => got[t] = NoMessage

(* The fate of a message says who has it.                                  *)
FateKnown ==
    /\ \A t \in Task :
          /\ pc[t] \in {"check", "claim"} => fate[msg[t]] = "sending"
          /\ pc[t] = "push" => fate[msg[t]] = "claimed"
          /\ pc[t] = "credit" /\ got[t] # NoMessage => fate[got[t]] = "popped"
    /\ \A a \in Address : \A m \in Range(memory[a]) : fate[m] = "queued"

(* No two tasks have the same message.                                     *)
HoldersDiffer ==
    \A t, u \in Task : t # u =>
        /\ pc[t] \in Sending /\ pc[u] \in Sending => msg[t] # msg[u]
        /\ pc[t] = "credit" /\ pc[u] = "credit" /\ got[t] # NoMessage
              => got[t] # got[u]

(* No message is queued twice.                                             *)
QueuedOnce ==
    /\ \A a \in Address : IsInjective(memory[a])
    /\ \A a, b \in Address : a # b => Range(memory[a]) \cap Range(memory[b]) = {}

BusInv == TypeOK /\ LocalsSet /\ FateKnown /\ HoldersDiffer /\ QueuedOnce

-----------------------------------------------------------------------------
(* A task that begins to send holds a message nobody else has.             *)
LEMMA InvCallSendData ==
    ASSUME BusInv, NEW t \in Task, NEW a \in Address, NEW m \in Message, CallSendData(t, a, m)
    PROVE  BusInv'
<1> USE DEF BusInv, CallSendData, Goto, Leave, ControlPoint, SendPoints, RequestPoints, AdminPoints
<1>1. TypeOK'
  BY DEF TypeOK, Fate
<1>2. LocalsSet'
  BY DEF TypeOK, LocalsSet, Sending
<1>3. FateKnown'
  BY BusAssumption DEF TypeOK, LocalsSet, FateKnown, HoldersDiffer, Sending
<1>4. HoldersDiffer'
  BY DEF TypeOK, LocalsSet, FateKnown, HoldersDiffer, Sending
<1>5. QueuedOnce'
  BY DEF QueuedOnce
<1> QED
  BY <1>1, <1>2, <1>3, <1>4, <1>5

(* Leaving the polling loop of send_data changes the control point only.   *)
LEMMA InvCheckWorkers ==
    ASSUME BusInv, NEW t \in Task, CheckWorkers(t)
    PROVE  BusInv'
<1> USE DEF BusInv, CheckWorkers, Goto, Leave, ControlPoint, SendPoints, RequestPoints, AdminPoints
<1>1. TypeOK'
  BY DEF TypeOK, Fate
<1>2. LocalsSet'
  BY DEF TypeOK, LocalsSet, Sending
<1>3. FateKnown'
  BY BusAssumption DEF TypeOK, LocalsSet, FateKnown, HoldersDiffer, Sending
<1>4. HoldersDiffer'
  BY DEF TypeOK, LocalsSet, FateKnown, HoldersDiffer, Sending
<1>5. QueuedOnce'
  BY DEF QueuedOnce
<1> QED
  BY <1>1, <1>2, <1>3, <1>4, <1>5

(* The count goes down in the step that marks the message as claimed.      *)
LEMMA InvClaimWorker ==
    ASSUME BusInv, NEW t \in Task, ClaimWorker(t)
    PROVE  BusInv'
<1> USE DEF BusInv, ClaimWorker, Goto, Leave, ControlPoint, SendPoints, RequestPoints, AdminPoints
<1>1. TypeOK'
  <2>1. fate' \in [Message -> Fate]
    BY DEF TypeOK, Fate
  <2>2. workers' \in Int /\ pc' \in [Task -> ControlPoint]
    BY DEF TypeOK
  <2> QED
    BY <2>1, <2>2 DEF TypeOK
<1>2. LocalsSet'
  BY DEF TypeOK, LocalsSet, Sending
<1>3. FateKnown'
  BY BusAssumption DEF TypeOK, LocalsSet, FateKnown, HoldersDiffer, Sending
<1>4. HoldersDiffer'
  BY DEF TypeOK, LocalsSet, FateKnown, HoldersDiffer, Sending
<1>5. QueuedOnce'
  BY DEF QueuedOnce
<1> QED
  BY <1>1, <1>2, <1>3, <1>4, <1>5

(* Cloning the Notify of an address touches no message.                    *)
LEMMA InvLookupNotifier ==
    ASSUME BusInv, NEW t \in Task, LookupNotifier(t)
    PROVE  BusInv'
<1> USE DEF BusInv, LookupNotifier, Goto, Leave, ControlPoint, SendPoints, RequestPoints, AdminPoints
<1>1. TypeOK'
  BY DEF TypeOK, Fate, LocalsSet
<1>2. LocalsSet'
  BY DEF TypeOK, LocalsSet, Sending
<1>3. FateKnown'
  BY BusAssumption DEF TypeOK, LocalsSet, FateKnown, HoldersDiffer, Sending
<1>4. HoldersDiffer'
  BY DEF TypeOK, LocalsSet, FateKnown, HoldersDiffer, Sending
<1>5. QueuedOnce'
  BY DEF QueuedOnce
<1> QED
  BY <1>1, <1>2, <1>3, <1>4, <1>5

(* A sender that panics after its push has no message any more.            *)
LEMMA InvLookupPanics ==
    ASSUME BusInv, NEW t \in Task, LookupPanics(t)
    PROVE  BusInv'
<1> USE DEF BusInv, LookupPanics, Goto, Leave, ControlPoint, SendPoints, RequestPoints, AdminPoints
<1>1. TypeOK'
  BY DEF TypeOK, Fate
<1>2. LocalsSet'
  BY DEF TypeOK, LocalsSet, Sending
<1>3. FateKnown'
  BY BusAssumption DEF TypeOK, LocalsSet, FateKnown, HoldersDiffer, Sending
<1>4. HoldersDiffer'
  BY DEF TypeOK, LocalsSet, FateKnown, HoldersDiffer, Sending
<1>5. QueuedOnce'
  BY DEF QueuedOnce
<1> QED
  BY <1>1, <1>2, <1>3, <1>4, <1>5

(* Waking the waiters moves them to their pop and touches no message.      *)
LEMMA InvNotifyWaiters ==
    ASSUME BusInv, NEW t \in Task, NotifyWaiters(t)
    PROVE  BusInv'
<1> USE DEF BusInv, NotifyWaiters, Goto, Leave, ControlPoint, SendPoints, RequestPoints, AdminPoints
<1>1. TypeOK'
  BY DEF TypeOK, Fate
<1>2. LocalsSet'
  BY DEF TypeOK, LocalsSet, Sending
<1>3. FateKnown'
  BY BusAssumption DEF TypeOK, LocalsSet, FateKnown, HoldersDiffer, Sending
<1>4. HoldersDiffer'
  BY DEF TypeOK, LocalsSet, FateKnown, HoldersDiffer, Sending
<1>5. QueuedOnce'
  BY DEF QueuedOnce
<1> QED
  BY <1>1, <1>2, <1>3, <1>4, <1>5

(* A task that begins to request forgets what it had got.                  *)
LEMMA InvCallRequestData ==
    ASSUME BusInv, NEW t \in Task, NEW a \in Address, CallRequestData(t, a)
    PROVE  BusInv'
<1> USE DEF BusInv, CallRequestData, Goto, Leave, ControlPoint, SendPoints, RequestPoints, AdminPoints
<1>1. TypeOK'
  BY DEF TypeOK, Fate
<1>2. LocalsSet'
  BY DEF TypeOK, LocalsSet, Sending
<1>3. FateKnown'
  BY BusAssumption DEF TypeOK, LocalsSet, FateKnown, HoldersDiffer, Sending
<1>4. HoldersDiffer'
  BY DEF TypeOK, LocalsSet, FateKnown, HoldersDiffer, Sending
<1>5. QueuedOnce'
  BY DEF QueuedOnce
<1> QED
  BY <1>1, <1>2, <1>3, <1>4, <1>5

(* Reading the length of the queue changes the control point only.         *)
LEMMA InvReadLength ==
    ASSUME BusInv, NEW t \in Task, ReadLength(t)
    PROVE  BusInv'
<1> USE DEF BusInv, ReadLength, Goto, Leave, ControlPoint, SendPoints, RequestPoints, AdminPoints
<1>1. TypeOK'
  BY DEF TypeOK, Fate
<1>2. LocalsSet'
  BY DEF TypeOK, LocalsSet, Sending
<1>3. FateKnown'
  BY BusAssumption DEF TypeOK, LocalsSet, FateKnown, HoldersDiffer, Sending
<1>4. HoldersDiffer'
  BY DEF TypeOK, LocalsSet, FateKnown, HoldersDiffer, Sending
<1>5. QueuedOnce'
  BY DEF QueuedOnce
<1> QED
  BY <1>1, <1>2, <1>3, <1>4, <1>5

(* A request for an unknown address panics without a message.              *)
LEMMA InvReadLengthPanics ==
    ASSUME BusInv, NEW t \in Task, ReadLengthPanics(t)
    PROVE  BusInv'
<1> USE DEF BusInv, ReadLengthPanics, Goto, Leave, ControlPoint, SendPoints, RequestPoints, AdminPoints
<1>1. TypeOK'
  BY DEF TypeOK, Fate
<1>2. LocalsSet'
  BY DEF TypeOK, LocalsSet, Sending
<1>3. FateKnown'
  BY BusAssumption DEF TypeOK, LocalsSet, FateKnown, HoldersDiffer, Sending
<1>4. HoldersDiffer'
  BY DEF TypeOK, LocalsSet, FateKnown, HoldersDiffer, Sending
<1>5. QueuedOnce'
  BY DEF QueuedOnce
<1> QED
  BY <1>1, <1>2, <1>3, <1>4, <1>5

(* Cloning the Notify of a request touches no message.                     *)
LEMMA InvFetchNotifier ==
    ASSUME BusInv, NEW t \in Task, FetchNotifier(t)
    PROVE  BusInv'
<1> USE DEF BusInv, FetchNotifier, Goto, Leave, ControlPoint, SendPoints, RequestPoints, AdminPoints
<1>1. TypeOK'
  BY DEF TypeOK, Fate, LocalsSet
<1>2. LocalsSet'
  BY DEF TypeOK, LocalsSet, Sending
<1>3. FateKnown'
  BY BusAssumption DEF TypeOK, LocalsSet, FateKnown, HoldersDiffer, Sending
<1>4. HoldersDiffer'
  BY DEF TypeOK, LocalsSet, FateKnown, HoldersDiffer, Sending
<1>5. QueuedOnce'
  BY DEF QueuedOnce
<1> QED
  BY <1>1, <1>2, <1>3, <1>4, <1>5

(* A request whose address is gone panics without a message.               *)
LEMMA InvFetchNotifierPanics ==
    ASSUME BusInv, NEW t \in Task, FetchNotifierPanics(t)
    PROVE  BusInv'
<1> USE DEF BusInv, FetchNotifierPanics, Goto, Leave, ControlPoint, SendPoints, RequestPoints, AdminPoints
<1>1. TypeOK'
  BY DEF TypeOK, Fate
<1>2. LocalsSet'
  BY DEF TypeOK, LocalsSet, Sending
<1>3. FateKnown'
  BY BusAssumption DEF TypeOK, LocalsSet, FateKnown, HoldersDiffer, Sending
<1>4. HoldersDiffer'
  BY DEF TypeOK, LocalsSet, FateKnown, HoldersDiffer, Sending
<1>5. QueuedOnce'
  BY DEF QueuedOnce
<1> QED
  BY <1>1, <1>2, <1>3, <1>4, <1>5

(* Creating notified() changes the control point only.                     *)
LEMMA InvArmNotified ==
    ASSUME BusInv, NEW t \in Task, ArmNotified(t)
    PROVE  BusInv'
<1> USE DEF BusInv, ArmNotified, Goto, Leave, ControlPoint, SendPoints, RequestPoints, AdminPoints
<1>1. TypeOK'
  BY DEF TypeOK, Fate
<1>2. LocalsSet'
  BY DEF TypeOK, LocalsSet, Sending
<1>3. FateKnown'
  BY BusAssumption DEF TypeOK, LocalsSet, FateKnown, HoldersDiffer, Sending
<1>4. HoldersDiffer'
  BY DEF TypeOK, LocalsSet, FateKnown, HoldersDiffer, Sending
<1>5. QueuedOnce'
  BY DEF QueuedOnce
<1> QED
  BY <1>1, <1>2, <1>3, <1>4, <1>5

(* The credit turns the popped message into a delivered one.               *)
LEMMA InvCreditWorker ==
    ASSUME BusInv, NEW t \in Task, CreditWorker(t)
    PROVE  BusInv'
<1> USE DEF BusInv, CreditWorker, Goto, Leave, ControlPoint, SendPoints, RequestPoints, AdminPoints
<1>1. TypeOK'
  <2>1. fate' \in [Message -> Fate] /\ spurious' \in Nat
    <3>1. CASE got[t] = NoMessage
      BY <3>1 DEF TypeOK
    <3>2. CASE got[t] # NoMessage
      <4>1. fate' = [fate EXCEPT ![got[t]] = "delivered"] /\ UNCHANGED spurious
        BY <3>2
      <4>2. fate \in [Message -> Fate] /\ spurious \in Nat
        BY DEF TypeOK
      <4> QED
        BY <4>1, <4>2 DEF Fate
    <3> QED
      BY <3>1, <3>2
  <2>2. /\ pc' \in [Task -> ControlPoint]
        /\ addr' \in [Task -> Address \cup {NoAddress}]
        /\ ref' \in [Task -> Nat]
        /\ workers' \in Int
    BY DEF TypeOK
  <2>3. UNCHANGED <<memory, present, notifiers, created, msg, got>>
    OBVIOUS
  <2> HIDE DEF CreditWorker, ControlPoint
  <2> QED
    BY <2>1, <2>2, <2>3 DEF TypeOK
<1>2. LocalsSet'
  BY DEF TypeOK, LocalsSet, Sending
<1>3. FateKnown'
  <2>1. CASE got[t] = NoMessage
    BY <2>1 DEF TypeOK, FateKnown
  <2>2. CASE got[t] # NoMessage
    <3>1. got[t] \in Message /\ fate[got[t]] = "popped"
      BY <2>2 DEF TypeOK, FateKnown
    <3>2. \A m \in Message : m # got[t] => fate'[m] = fate[m]
      BY <2>2 DEF TypeOK
    <3>3. \A u \in Task : u # t => pc'[u] = pc[u]
      BY DEF TypeOK
    <3>4. pc[t] = "credit" /\ pc'[t] = "idle" /\ UNCHANGED <<memory, msg, got>>
      BY DEF TypeOK
    <3>5. \A a \in Address : \A m \in Range(memory[a]) : m \in Message
      BY DEF TypeOK, Range
    <3> HIDE DEF CreditWorker
    <3>6. \A u \in Task :
             /\ pc'[u] \in {"check", "claim"} => fate'[msg'[u]] = "sending"
             /\ pc'[u] = "push" => fate'[msg'[u]] = "claimed"
      BY <3>1, <3>2, <3>3, <3>4 DEF LocalsSet, FateKnown, Sending
    <3>7. \A u \in Task :
             pc'[u] = "credit" /\ got'[u] # NoMessage => fate'[got'[u]] = "popped"
      <4> TAKE u \in Task
      <4> HAVE pc'[u] = "credit" /\ got'[u] # NoMessage
      <4>1. u # t /\ pc[u] = "credit" /\ got'[u] = got[u]
        BY <3>3, <3>4
      <4>2. got[u] \in Message /\ got[u] # got[t] /\ fate[got[u]] = "popped"
        BY <2>2, <3>4, <4>1 DEF TypeOK, FateKnown, HoldersDiffer
      <4> QED
        BY <3>2, <4>1, <4>2
    <3>8. \A a \in Address : \A m \in Range(memory'[a]) : fate'[m] = "queued"
      BY <3>1, <3>2, <3>4, <3>5 DEF FateKnown
    <3> QED
      BY <3>6, <3>7, <3>8 DEF FateKnown
  <2> QED
    BY <2>1, <2>2
<1>4. HoldersDiffer'
  BY DEF TypeOK, LocalsSet, FateKnown, HoldersDiffer, Sending
<1>5. QueuedOnce'
  BY DEF QueuedOnce
<1> QED
  BY <1>1, <1>2, <1>3, <1>4, <1>5

(* A request that is dropped with a message in hand marks it as cancelled. *)
LEMMA InvCancelRequest ==
    ASSUME BusInv, NEW t \in Task, CancelRequest(t)
    PROVE  BusInv'
<1> USE DEF BusInv, CancelRequest, Goto, Leave, ControlPoint, SendPoints, RequestPoints, AdminPoints
<1>1. TypeOK'
  BY DEF TypeOK, Fate
<1>2. LocalsSet'
  BY DEF TypeOK, LocalsSet, Sending
<1>3. FateKnown'
  <2>1. CASE ~(pc[t] = "credit" /\ got[t] # NoMessage)
    BY <2>1 DEF TypeOK, FateKnown
  <2>2. CASE pc[t] = "credit" /\ got[t] # NoMessage
    <3>1. got[t] \in Message /\ fate[got[t]] = "popped"
      BY <2>2 DEF TypeOK, FateKnown
    <3>2. \A m \in Message : m # got[t] => fate'[m] = fate[m]
      BY <2>2 DEF TypeOK
    <3>3. \A u \in Task : u # t => pc'[u] = pc[u] /\ got'[u] = got[u]
      BY DEF TypeOK
    <3>4. pc'[t] = "idle" /\ UNCHANGED <<memory, msg>>
      BY DEF TypeOK
    <3>5. \A a \in Address : \A m \in Range(memory[a]) : m \in Message
      BY DEF TypeOK, Range
    <3> HIDE DEF CancelRequest
    <3>6. \A u \in Task :
             /\ pc'[u] \in {"check", "claim"} => fate'[msg'[u]] = "sending"
             /\ pc'[u] = "push" => fate'[msg'[u]] = "claimed"
      BY <3>1, <3>2, <3>3, <3>4 DEF LocalsSet, FateKnown, Sending
    <3>7. \A u \in Task :
             pc'[u] = "credit" /\ got'[u] # NoMessage => fate'[got'[u]] = "popped"
      <4> TAKE u \in Task
      <4> HAVE pc'[u] = "credit" /\ got'[u] # NoMessage
      <4>1. u # t /\ pc[u] = "credit" /\ got'[u] = got[u]
        BY <3>3, <3>4
      <4>2. got[u] \in Message /\ got[u] # got[t] /\ fate[got[u]] = "popped"
        BY <2>2, <3>4, <4>1 DEF TypeOK, FateKnown, HoldersDiffer
      <4> QED
        BY <3>2, <4>1, <4>2
    <3>8. \A a \in Address : \A m \in Range(memory'[a]) : fate'[m] = "queued"
      BY <3>1, <3>2, <3>4, <3>5 DEF FateKnown
    <3> QED
      BY <3>6, <3>7, <3>8 DEF FateKnown
  <2> QED
    BY <2>1, <2>2
<1>4. HoldersDiffer'
  BY DEF TypeOK, LocalsSet, FateKnown, HoldersDiffer, Sending
<1>5. QueuedOnce'
  BY DEF QueuedOnce
<1> QED
  BY <1>1, <1>2, <1>3, <1>4, <1>5

(* Beginning to initialize an address touches no message.                  *)
LEMMA InvCallInitialize ==
    ASSUME BusInv, NEW t \in Task, NEW a \in Address, CallInitialize(t, a)
    PROVE  BusInv'
<1> USE DEF BusInv, CallInitialize, Goto, Leave, ControlPoint, SendPoints, RequestPoints, AdminPoints
<1>1. TypeOK'
  BY DEF TypeOK, Fate
<1>2. LocalsSet'
  BY DEF TypeOK, LocalsSet, Sending
<1>3. FateKnown'
  BY BusAssumption DEF TypeOK, LocalsSet, FateKnown, HoldersDiffer, Sending
<1>4. HoldersDiffer'
  BY DEF TypeOK, LocalsSet, FateKnown, HoldersDiffer, Sending
<1>5. QueuedOnce'
  BY DEF QueuedOnce
<1> QED
  BY <1>1, <1>2, <1>3, <1>4, <1>5

(* Beginning to remove an address touches no message.                      *)
LEMMA InvCallRemove ==
    ASSUME BusInv, NEW t \in Task, NEW a \in Address, CallRemove(t, a)
    PROVE  BusInv'
<1> USE DEF BusInv, CallRemove, Goto, Leave, ControlPoint, SendPoints, RequestPoints, AdminPoints
<1>1. TypeOK'
  BY DEF TypeOK, Fate
<1>2. LocalsSet'
  BY DEF TypeOK, LocalsSet, Sending
<1>3. FateKnown'
  BY BusAssumption DEF TypeOK, LocalsSet, FateKnown, HoldersDiffer, Sending
<1>4. HoldersDiffer'
  BY DEF TypeOK, LocalsSet, FateKnown, HoldersDiffer, Sending
<1>5. QueuedOnce'
  BY DEF QueuedOnce
<1> QED
  BY <1>1, <1>2, <1>3, <1>4, <1>5

(* Taking the lock of the queues changes the control point only.           *)
LEMMA InvLockMemory ==
    ASSUME BusInv, NEW t \in Task, LockMemory(t)
    PROVE  BusInv'
<1> USE DEF BusInv, LockMemory, Goto, Leave, ControlPoint, SendPoints, RequestPoints, AdminPoints
<1>1. TypeOK'
  BY DEF TypeOK, Fate
<1>2. LocalsSet'
  BY DEF TypeOK, LocalsSet, Sending
<1>3. FateKnown'
  BY BusAssumption DEF TypeOK, LocalsSet, FateKnown, HoldersDiffer, Sending
<1>4. HoldersDiffer'
  BY DEF TypeOK, LocalsSet, FateKnown, HoldersDiffer, Sending
<1>5. QueuedOnce'
  BY DEF QueuedOnce
<1> QED
  BY <1>1, <1>2, <1>3, <1>4, <1>5

(* The first tick of the interval ends initialize.                         *)
LEMMA InvFirstTick ==
    ASSUME BusInv, NEW t \in Task, FirstTick(t)
    PROVE  BusInv'
<1> USE DEF BusInv, FirstTick, Goto, Leave, ControlPoint, SendPoints, RequestPoints, AdminPoints
<1>1. TypeOK'
  BY DEF TypeOK, Fate
<1>2. LocalsSet'
  BY DEF TypeOK, LocalsSet, Sending
<1>3. FateKnown'
  BY BusAssumption DEF TypeOK, LocalsSet, FateKnown, HoldersDiffer, Sending
<1>4. HoldersDiffer'
  BY DEF TypeOK, LocalsSet, FateKnown, HoldersDiffer, Sending
<1>5. QueuedOnce'
  BY DEF QueuedOnce
<1> QED
  BY <1>1, <1>2, <1>3, <1>4, <1>5

(* A push appends the message of the sender, which is in no queue.         *)
LEMMA InvPushMessage ==
    ASSUME BusInv, NEW t \in Task, PushMessage(t)
    PROVE  BusInv'
<1> DEFINE b == addr[t]
           m == msg[t]
<1> USE DEF BusInv
<1>1. b \in Address /\ m \in Message /\ fate[m] = "claimed"
  BY DEF PushMessage, LocalsSet, FateKnown, Sending
<1>2. \A a \in Address : m \notin Range(memory[a])
  BY <1>1 DEF FateKnown
<1>3. /\ memory'[b] \in Seq(Message)
      /\ IsInjective(memory'[b])
      /\ Range(memory'[b]) = Range(memory[b]) \cup {m}
  <2>1. memory[b] \in Seq(Message) /\ memory'[b] = Append(memory[b], m)
    BY <1>1 DEF PushMessage, TypeOK
  <2>2. IsInjective(memory[b]) /\ m \notin Range(memory[b])
    BY <1>1, <1>2 DEF QueuedOnce
  <2> QED
    BY <1>1, <2>1, <2>2, PushNew
<1>4. \A a \in Address : a # b => memory'[a] = memory[a]
  BY DEF PushMessage, TypeOK
<1>5. /\ fate' \in [Message -> Fate]
      /\ fate'[m] = "queued"
      /\ \A n \in Message : n # m => fate'[n] = fate[n]
  BY <1>1 DEF PushMessage, TypeOK, Fate
<1>6. /\ pc' = [pc EXCEPT ![t] = "lookup"] /\ pc[t] = "push"
      /\ msg' = [msg EXCEPT ![t] = NoMessage]
      /\ present' = present \cup {b}
      /\ UNCHANGED <<workers, notifiers, created, addr, ref, got, spurious>>
  BY DEF PushMessage, Goto
<1>7. memory' \in [Address -> Seq(Message)]
  <2>1. memory' = [a \in Address |-> memory'[a]]
    BY DEF PushMessage, TypeOK
  <2>2. \A a \in Address : memory'[a] \in Seq(Message)
    BY <1>3, <1>4 DEF TypeOK
  <2> QED
    BY <2>1, <2>2
<1> HIDE DEF b, m
<1>8. TypeOK'
  BY <1>1, <1>5, <1>6, <1>7 DEF TypeOK, ControlPoint, SendPoints
<1>9. LocalsSet'
  BY <1>1, <1>6 DEF TypeOK, LocalsSet, Sending
<1>10. FateKnown'
  <2>1. \A u \in Task :
           /\ pc'[u] \in {"check", "claim"} => fate'[msg'[u]] = "sending"
           /\ pc'[u] = "push" => fate'[msg'[u]] = "claimed"
    BY <1>5, <1>6 DEF m, TypeOK, LocalsSet, FateKnown, HoldersDiffer, Sending
  <2>2. \A u \in Task :
           pc'[u] = "credit" /\ got'[u] # NoMessage => fate'[got'[u]] = "popped"
    BY <1>1, <1>5, <1>6 DEF TypeOK, FateKnown
  <2>3. \A a \in Address : \A n \in Range(memory'[a]) : fate'[n] = "queued"
    <3>1. \A a \in Address : \A n \in Range(memory[a]) : n \in Message
      BY DEF TypeOK, Range
    <3> QED
      BY <1>2, <1>3, <1>4, <1>5, <3>1 DEF FateKnown
  <2> QED
    BY <2>1, <2>2, <2>3 DEF FateKnown
<1>11. HoldersDiffer'
  BY <1>6 DEF TypeOK, HoldersDiffer, Sending
<1>12. QueuedOnce'
  <2>1. \A a \in Address : IsInjective(memory'[a])
    BY <1>3, <1>4 DEF QueuedOnce
  <2>2. \A a, c \in Address : a # c => Range(memory'[a]) \cap Range(memory'[c]) = {}
    BY <1>2, <1>3, <1>4 DEF QueuedOnce
  <2> QED
    BY <2>1, <2>2 DEF QueuedOnce
<1> QED
  BY <1>8, <1>9, <1>10, <1>11, <1>12

(* A pop moves the head of the queue to the task, or finds nothing.        *)
LEMMA InvPopOne ==
    ASSUME BusInv, NEW t \in Task, PopOne(t)
    PROVE  BusInv'
<1> DEFINE b == addr[t]
           m == Head(memory[b])
<1> USE DEF BusInv
<1>1. b \in Address /\ got[t] = NoMessage
  BY DEF PopOne, LocalsSet
<1>2. /\ pc' = [pc EXCEPT ![t] = "credit"] /\ pc[t] = "pop"
      /\ present' = present \cup {b}
      /\ UNCHANGED <<workers, notifiers, created, addr, msg, ref, spurious>>
  BY DEF PopOne, Goto
<1>3. CASE memory[b] = <<>>
  <2>1. UNCHANGED <<got, fate, memory>>
    BY <1>3 DEF PopOne
  <2>2. TypeOK'
    BY <1>1, <1>2, <2>1 DEF TypeOK, ControlPoint, RequestPoints
  <2>3. LocalsSet'
    BY <1>1, <1>2, <2>1 DEF TypeOK, LocalsSet, Sending
  <2>4. FateKnown'
    BY <1>1, <1>2, <2>1 DEF TypeOK, FateKnown
  <2>5. HoldersDiffer'
    BY <1>1, <1>2, <2>1 DEF TypeOK, HoldersDiffer, Sending
  <2>6. QueuedOnce'
    BY <2>1 DEF QueuedOnce
  <2> QED
    BY <2>2, <2>3, <2>4, <2>5, <2>6
<1>4. CASE memory[b] # <<>>
  <2>1. /\ memory' = [memory EXCEPT ![b] = Tail(@)]
        /\ got' = [got EXCEPT ![t] = m]
        /\ fate' = [fate EXCEPT ![m] = "popped"]
    BY <1>4 DEF PopOne
  <2>2. /\ memory'[b] \in Seq(Message)
        /\ IsInjective(memory'[b])
        /\ m \in Message /\ m \in Range(memory[b])
        /\ Range(memory'[b]) = Range(memory[b]) \ {m}
    <3>1. memory[b] \in Seq(Message) /\ memory'[b] = Tail(memory[b])
      BY <1>1, <2>1 DEF TypeOK
    <3>2. IsInjective(memory[b])
      BY <1>1 DEF QueuedOnce
    <3> QED
      BY <1>4, <3>1, <3>2, PopFirst
  <2>3. \A a \in Address : a # b => memory'[a] = memory[a]
    BY <2>1 DEF TypeOK
  <2>4. memory' \in [Address -> Seq(Message)]
    <3>1. memory' = [a \in Address |-> memory'[a]]
      BY <2>1 DEF TypeOK
    <3>2. \A a \in Address : memory'[a] \in Seq(Message)
      BY <2>2, <2>3 DEF TypeOK
    <3> QED
      BY <3>1, <3>2
  <2>5. fate[m] = "queued" /\ \A a \in Address : a # b => m \notin Range(memory[a])
    BY <1>1, <2>2 DEF FateKnown, QueuedOnce
  <2> HIDE DEF b, m
  <2>6. /\ fate' \in [Message -> Fate]
        /\ fate'[m] = "popped"
        /\ \A n \in Message : n # m => fate'[n] = fate[n]
    BY <2>1, <2>2 DEF TypeOK, Fate
  <2>7. TypeOK'
    BY <1>1, <1>2, <2>1, <2>2, <2>4, <2>6
       DEF TypeOK, ControlPoint, RequestPoints
  <2>8. LocalsSet'
    BY <1>1, <1>2, <2>1 DEF b, TypeOK, LocalsSet, Sending
  <2>9. FateKnown'
    <3>1. \A u \in Task :
             /\ pc'[u] \in {"check", "claim"} => fate'[msg'[u]] = "sending"
             /\ pc'[u] = "push" => fate'[msg'[u]] = "claimed"
      BY <1>2, <2>2, <2>5, <2>6 DEF TypeOK, LocalsSet, FateKnown, Sending
    <3>2. \A u \in Task :
             pc'[u] = "credit" /\ got'[u] # NoMessage => fate'[got'[u]] = "popped"
      BY <1>2, <2>1, <2>2, <2>5, <2>6 DEF TypeOK, FateKnown
    <3>3. \A a \in Address : \A n \in Range(memory'[a]) : fate'[n] = "queued"
      <4>1. \A a \in Address : \A n \in Range(memory[a]) : n \in Message
        BY DEF TypeOK, Range
      <4> QED
        BY <1>1, <2>2, <2>3, <2>5, <2>6, <4>1 DEF FateKnown
    <3> QED
      BY <3>1, <3>2, <3>3 DEF FateKnown
  <2>10. HoldersDiffer'
    BY <1>2, <2>1, <2>2, <2>5 DEF TypeOK, FateKnown, HoldersDiffer, Sending
  <2>11. QueuedOnce'
    <3>1. \A a \in Address : IsInjective(memory'[a])
      BY <2>2, <2>3 DEF QueuedOnce
    <3>2. \A a, c \in Address : a # c => Range(memory'[a]) \cap Range(memory'[c]) = {}
      BY <2>2, <2>3 DEF QueuedOnce
    <3> QED
      BY <3>1, <3>2 DEF QueuedOnce
  <2> QED
    BY <2>7, <2>8, <2>9, <2>10, <2>11
<1> QED
  BY <1>3, <1>4

(* Emptying a queue, as initialize and remove do, keeps what is known of   *)
(* the other messages.                                                     *)
LEMMA InvEmptyQueue ==
    ASSUME BusInv, NEW b \in Address,
           memory' = [memory EXCEPT ![b] = <<>>], DropQueue(b),
           UNCHANGED <<msg, got>>,
           \A u \in Task : pc'[u] = pc[u] \/ pc'[u] \in {"init_tick", "idle"}
    PROVE  /\ memory' \in [Address -> Seq(Message)]
           /\ fate' \in [Message -> Fate]
           /\ FateKnown' /\ HoldersDiffer' /\ QueuedOnce'
<1> USE DEF BusInv
<1>1. memory' \in [Address -> Seq(Message)]
  BY DEF TypeOK
<1>2. \A a \in Address : \A n \in Range(memory[a]) : n \in Message
  BY DEF TypeOK, Range
<1>3. memory'[b] = <<>> /\ \A a \in Address : a # b => memory'[a] = memory[a]
  BY DEF TypeOK
<1>4. Range(<<>>) = {} /\ IsInjective(<<>>)
  BY DEF Range, IsInjective
<1>5. /\ fate' \in [Message -> Fate]
      /\ \A n \in Message : n \notin Range(memory[b]) => fate'[n] = fate[n]
  BY DEF DropQueue, TypeOK, Fate
<1>6. FateKnown'
  <2>1. \A u \in Task :
           /\ pc'[u] \in {"check", "claim"} => fate'[msg'[u]] = "sending"
           /\ pc'[u] = "push" => fate'[msg'[u]] = "claimed"
    BY <1>5 DEF LocalsSet, FateKnown, Sending
  <2>2. \A u \in Task :
           pc'[u] = "credit" /\ got'[u] # NoMessage => fate'[got'[u]] = "popped"
    <3> TAKE u \in Task
    <3> HAVE pc'[u] = "credit" /\ got'[u] # NoMessage
    <3>1. pc[u] = "credit" /\ got[u] \in Message /\ fate[got[u]] = "popped"
      BY DEF TypeOK, FateKnown
    <3>2. got[u] \notin Range(memory[b])
      BY <3>1 DEF FateKnown
    <3> QED
      BY <1>5, <3>1, <3>2
  <2>3. \A a \in Address : \A n \in Range(memory'[a]) : fate'[n] = "queued"
    BY <1>2, <1>3, <1>4, <1>5 DEF FateKnown, QueuedOnce
  <2> QED
    BY <2>1, <2>2, <2>3 DEF FateKnown
<1>7. HoldersDiffer'
  BY DEF HoldersDiffer, Sending
<1>8. QueuedOnce'
  BY <1>3, <1>4 DEF QueuedOnce
<1> QED
  BY <1>1, <1>5, <1>6, <1>7, <1>8

(* initialize replaces a queue by an empty one and drops its messages.     *)
LEMMA InvInsertAddress ==
    ASSUME BusInv, NEW t \in Task, InsertAddress(t)
    PROVE  BusInv'
<1> USE DEF BusInv
<1>1. addr[t] \in Address
  BY DEF InsertAddress, LocalsSet
<1>2. /\ memory' \in [Address -> Seq(Message)]
      /\ fate' \in [Message -> Fate]
      /\ FateKnown' /\ HoldersDiffer' /\ QueuedOnce'
  BY <1>1, InvEmptyQueue DEF InsertAddress, Goto, TypeOK
<1>3. TypeOK'
  BY <1>1, <1>2 DEF InsertAddress, Goto, TypeOK, ControlPoint, AdminPoints
<1>4. LocalsSet'
  BY DEF InsertAddress, Goto, TypeOK, LocalsSet, Sending
<1> QED
  BY <1>2, <1>3, <1>4

(* remove empties a queue and drops its messages.                          *)
LEMMA InvRemoveAddress ==
    ASSUME BusInv, NEW t \in Task, RemoveAddress(t)
    PROVE  BusInv'
<1> USE DEF BusInv
<1>1. addr[t] \in Address
  BY DEF RemoveAddress, LocalsSet
<1>2. /\ memory' \in [Address -> Seq(Message)]
      /\ fate' \in [Message -> Fate]
      /\ FateKnown' /\ HoldersDiffer' /\ QueuedOnce'
  BY <1>1, InvEmptyQueue DEF RemoveAddress, Goto, Leave, TypeOK
<1>3. TypeOK'
  BY <1>1, <1>2 DEF RemoveAddress, Goto, Leave, TypeOK, ControlPoint, AdminPoints
<1>4. LocalsSet'
  BY DEF RemoveAddress, Goto, Leave, TypeOK, LocalsSet, Sending
<1> QED
  BY <1>2, <1>3, <1>4

-----------------------------------------------------------------------------
(* The inductive invariant holds after create_bus.                         *)
LEMMA BusInvInit == BusInit => BusInv
<1> SUFFICES ASSUME BusInit PROVE BusInv
  OBVIOUS
<1> USE DEF BusInit
<1>1. TypeOK
  BY BusAssumption DEF TypeOK, ControlPoint, Fate
<1>2. LocalsSet /\ HoldersDiffer
  BY DEF LocalsSet, HoldersDiffer, Sending
<1>3. Range(<<>>) = {} /\ IsInjective(<<>>)
  BY DEF Range, IsInjective
<1>4. FateKnown /\ QueuedOnce
  BY <1>3 DEF FateKnown, QueuedOnce
<1> QED
  BY <1>1, <1>2, <1>4 DEF BusInv

(* Every step of every task keeps the inductive invariant.                 *)
LEMMA BusInvStep == BusInv /\ [BusNext]_busVars => BusInv'
<1> SUFFICES ASSUME BusInv, [BusNext]_busVars PROVE BusInv'
  OBVIOUS
<1>1. CASE UNCHANGED busVars
  BY <1>1 DEF busVars, BusInv, TypeOK, LocalsSet, FateKnown, HoldersDiffer, QueuedOnce
<1>2. ASSUME NEW t \in Task, Call(t) PROVE BusInv'
  BY <1>2, InvCallSendData, InvCallRequestData, InvCallInitialize, InvCallRemove
     DEF Call
<1>3. ASSUME NEW t \in Task, SendStep(t) PROVE BusInv'
  BY <1>3, InvCheckWorkers, InvClaimWorker, InvPushMessage, InvLookupNotifier,
     InvLookupPanics, InvNotifyWaiters DEF SendStep
<1>4. ASSUME NEW t \in Task, RequestStep(t) PROVE BusInv'
  BY <1>4, InvReadLength, InvReadLengthPanics, InvFetchNotifier,
     InvFetchNotifierPanics, InvArmNotified, InvPopOne, InvCreditWorker
     DEF RequestStep
<1>5. ASSUME NEW t \in Task, AdminStep(t) PROVE BusInv'
  BY <1>5, InvLockMemory, InvInsertAddress, InvFirstTick, InvRemoveAddress
     DEF AdminStep
<1>6. ASSUME NEW t \in Task, CancelRequest(t) PROVE BusInv'
  BY <1>6, InvCancelRequest
<1> QED
  BY <1>1, <1>2, <1>3, <1>4, <1>5, <1>6 DEF BusNext, BusStep

(* The type invariant of the bus.                                          *)
THEOREM BusTypeCorrect == BusSpec => []TypeOK
<1>1. BusInv => TypeOK
  BY DEF BusInv
<1> QED
  BY <1>1, BusInvInit, BusInvStep, PTL DEF BusSpec
-----------------------------------------------------------------------------
(* Which messages are outstanding changes when a worker is claimed for one *)
(* and when one is credited, and in no other step.                         *)

(* There are finitely many messages, so the outstanding ones can be        *)
(* counted.                                                                *)
LEMMA OutstandingFinite == IsFiniteSet(Outstanding)
<1>1. Outstanding \subseteq Message
  BY DEF Outstanding
<1> QED
  BY <1>1, FS_Subset, BusAssumption

(* A step that moves no message between its holders.                       *)
LEMMA OutstandingSame ==
    ASSUME UNCHANGED memory,
           \A u \in Task :
               /\ pc'[u] = "push" <=> pc[u] = "push"
               /\ pc[u] = "push" => msg'[u] = msg[u]
               /\ pc'[u] = "credit" <=> pc[u] = "credit"
               /\ pc[u] = "credit" => got'[u] = got[u],
           \A m \in Message :
               fate'[m] \in {"dropped", "cancelled"} <=> fate[m] \in {"dropped", "cancelled"}
    PROVE  Outstanding' = Outstanding
  BY DEF Outstanding

(* A step that changes neither the count nor the outstanding messages      *)
(* keeps the accounting.                                                   *)
LEMMA AccountingQuiet ==
    ASSUME BusInv, WorkerAccounting, NEW t \in Task,
           \/ \E a \in Address :
                 \/ \E m \in Message : CallSendData(t, a, m)
                 \/ CallRequestData(t, a)
                 \/ CallInitialize(t, a)
                 \/ CallRemove(t, a)
           \/ CheckWorkers(t)
           \/ LookupNotifier(t) \/ LookupPanics(t) \/ NotifyWaiters(t)
           \/ ReadLength(t) \/ ReadLengthPanics(t)
           \/ FetchNotifier(t) \/ FetchNotifierPanics(t) \/ ArmNotified(t)
           \/ LockMemory(t) \/ FirstTick(t)
    PROVE  WorkerAccounting'
<1> USE DEF Goto, Leave
<1>1. UNCHANGED <<memory, workers, spurious>>
  BY DEF CallSendData, CallRequestData, CallInitialize, CallRemove, CheckWorkers,
         LookupNotifier, LookupPanics, NotifyWaiters, ReadLength, ReadLengthPanics,
         FetchNotifier, FetchNotifierPanics, ArmNotified, LockMemory, FirstTick
<1>2. \A u \in Task :
         /\ pc'[u] = "push" <=> pc[u] = "push"
         /\ pc[u] = "push" => msg'[u] = msg[u]
         /\ pc'[u] = "credit" <=> pc[u] = "credit"
         /\ pc[u] = "credit" => got'[u] = got[u]
  BY DEF BusInv, TypeOK,
         CallSendData, CallRequestData, CallInitialize, CallRemove, CheckWorkers,
         LookupNotifier, LookupPanics, NotifyWaiters, ReadLength, ReadLengthPanics,
         FetchNotifier, FetchNotifierPanics, ArmNotified, LockMemory, FirstTick
<1>3. \A m \in Message :
         fate'[m] \in {"dropped", "cancelled"} <=> fate[m] \in {"dropped", "cancelled"}
  <2>1. CASE \E a \in Address, m \in Message : CallSendData(t, a, m)
    <3>1. PICK m \in Message : fate[m] = "unsent" /\ fate' = [fate EXCEPT ![m] = "sending"]
      BY <2>1 DEF CallSendData
    <3>2. fate \in [Message -> Fate]
      BY DEF BusInv, TypeOK
    <3> QED
      BY <3>1, <3>2
  <2>2. CASE ~ \E a \in Address, m \in Message : CallSendData(t, a, m)
    <3>1. UNCHANGED fate
      BY <2>2 DEF CallRequestData, CallInitialize, CallRemove, CheckWorkers,
         LookupNotifier, LookupPanics, NotifyWaiters, ReadLength, ReadLengthPanics,
         FetchNotifier, FetchNotifierPanics, ArmNotified, LockMemory, FirstTick
    <3> QED
      BY <3>1
  <2> QED
    BY <2>1, <2>2
<1>4. Outstanding' = Outstanding
  BY <1>1, <1>2, <1>3, OutstandingSame
<1> QED
  BY <1>1, <1>4 DEF WorkerAccounting

(* A claim makes one message outstanding that was not.                     *)
LEMMA AccountingClaim ==
    ASSUME BusInv, WorkerAccounting, NEW t \in Task, ClaimWorker(t)
    PROVE  WorkerAccounting'
<1> DEFINE m == msg[t]
<1>1. m \in Message /\ fate[m] = "sending"
  BY DEF BusInv, ClaimWorker, LocalsSet, FateKnown, Sending
<1>2. m \notin Outstanding
  BY <1>1, BusAssumption DEF BusInv, FateKnown, Outstanding
<1>3. Outstanding' = Outstanding \cup {m}
  <2>1. /\ pc' = [pc EXCEPT ![t] = "push"] /\ pc[t] = "claim"
        /\ fate' = [fate EXCEPT ![m] = "claimed"]
        /\ UNCHANGED <<memory, msg, got>>
    BY DEF ClaimWorker, Goto
  <2>2. \A n \in Message : fate'[n] \in {"dropped", "cancelled"}
                              <=> fate[n] \in {"dropped", "cancelled"}
    BY <1>1, <2>1 DEF BusInv, TypeOK
  <2>3. \A u \in Task : /\ pc'[u] = "push" <=> u = t \/ pc[u] = "push"
                        /\ pc'[u] = "credit" <=> pc[u] = "credit"
    BY <2>1 DEF BusInv, TypeOK
  <2> HIDE DEF m
  <2>4. msg[t] = m
    BY DEF m
  <2> QED
    BY <1>1, <2>1, <2>2, <2>3, <2>4 DEF Outstanding
<1>4. Cardinality(Outstanding') = Cardinality(Outstanding) + 1
  BY <1>2, <1>3, OutstandingFinite, FS_AddElement
<1>5. workers' = workers - 1 /\ spurious' = spurious
  BY DEF ClaimWorker
<1> QED
  BY <1>4, <1>5, OutstandingFinite, FS_CardinalityType, BusAssumption
     DEF WorkerAccounting, BusInv, TypeOK

(* A pushed message was outstanding in the hands of its sender.            *)
LEMMA AccountingPush ==
    ASSUME BusInv, WorkerAccounting, NEW t \in Task, PushMessage(t)
    PROVE  WorkerAccounting'
<1> DEFINE m == msg[t]
           b == addr[t]
<1>1. m \in Message /\ b \in Address /\ fate[m] = "claimed"
  BY DEF BusInv, PushMessage, LocalsSet, FateKnown, Sending
<1>2. /\ pc' = [pc EXCEPT ![t] = "lookup"] /\ pc[t] = "push"
      /\ memory' = [memory EXCEPT ![b] = Append(@, m)]
      /\ fate' = [fate EXCEPT ![m] = "queued"]
      /\ msg' = [msg EXCEPT ![t] = NoMessage]
      /\ UNCHANGED <<workers, got, spurious>>
  BY DEF PushMessage, Goto
<1>3. Range(memory'[b]) = Range(memory[b]) \cup {m}
  <2>1. memory[b] \in Seq(Message) /\ IsInjective(memory[b]) /\ m \notin Range(memory[b])
    BY <1>1 DEF BusInv, TypeOK, FateKnown, QueuedOnce
  <2>2. memory'[b] = Append(memory[b], m)
    BY <1>1, <1>2 DEF BusInv, TypeOK
  <2> QED
    BY <1>1, <2>1, <2>2, PushNew
<1>4. \A a \in Address : a # b => memory'[a] = memory[a]
  BY <1>2 DEF BusInv, TypeOK
<1>5. \A n \in Message : fate'[n] \in {"dropped", "cancelled"}
                            <=> fate[n] \in {"dropped", "cancelled"}
  BY <1>1, <1>2 DEF BusInv, TypeOK
<1>6. \A u \in Task : /\ pc'[u] = "push" <=> u # t /\ pc[u] = "push"
                      /\ u # t => msg'[u] = msg[u]
                      /\ pc'[u] = "credit" <=> pc[u] = "credit"
  BY <1>2 DEF BusInv, TypeOK
<1>7. Outstanding' = Outstanding
  <2>1. ASSUME NEW n \in Message, n # m PROVE n \in Outstanding' <=> n \in Outstanding
    BY <1>2, <1>3, <1>4, <1>5, <1>6, <2>1 DEF Outstanding
  <2>2. m \in Outstanding /\ m \in Outstanding'
    BY <1>1, <1>2, <1>3 DEF Outstanding
  <2> QED
    BY <2>1, <2>2 DEF Outstanding
<1> QED
  BY <1>2, <1>7 DEF WorkerAccounting

(* A popped message stays outstanding in the hands of its requester.       *)
LEMMA AccountingPop ==
    ASSUME BusInv, WorkerAccounting, NEW t \in Task, PopOne(t)
    PROVE  WorkerAccounting'
<1> DEFINE b == addr[t]
           m == Head(memory[b])
<1>1. b \in Address /\ got[t] = NoMessage
  BY DEF BusInv, PopOne, LocalsSet
<1>2. /\ pc' = [pc EXCEPT ![t] = "credit"] /\ pc[t] = "pop"
      /\ UNCHANGED <<workers, msg, spurious>>
  BY DEF PopOne, Goto
<1>3. \A u \in Task : /\ pc'[u] = "push" <=> pc[u] = "push"
                      /\ pc'[u] = "credit" <=> u = t \/ pc[u] = "credit"
  BY <1>2 DEF BusInv, TypeOK
<1>4. CASE memory[b] = <<>>
  <2>1. UNCHANGED <<got, fate, memory>>
    BY <1>4 DEF PopOne
  <2>2. Outstanding' = Outstanding
    BY <1>1, <1>2, <1>3, <2>1, BusAssumption DEF Outstanding
  <2> QED
    BY <1>2, <2>2 DEF WorkerAccounting
<1>5. CASE memory[b] # <<>>
  <2>1. /\ memory' = [memory EXCEPT ![b] = Tail(@)]
        /\ got' = [got EXCEPT ![t] = m]
        /\ fate' = [fate EXCEPT ![m] = "popped"]
    BY <1>5 DEF PopOne
  <2>2. /\ m \in Message /\ m \in Range(memory[b])
        /\ Range(memory'[b]) = Range(memory[b]) \ {m}
    <3>1. memory[b] \in Seq(Message) /\ memory'[b] = Tail(memory[b])
      BY <1>1, <2>1 DEF BusInv, TypeOK
    <3>2. IsInjective(memory[b])
      BY <1>1 DEF BusInv, QueuedOnce
    <3> QED
      BY <1>5, <3>1, <3>2, PopFirst
  <2>3. \A a \in Address : a # b => memory'[a] = memory[a]
    BY <2>1 DEF BusInv, TypeOK
  <2>4. \A n \in Message :
           n # m => (fate'[n] \in {"dropped", "cancelled"}
                        <=> fate[n] \in {"dropped", "cancelled"})
    BY <2>1, <2>2 DEF BusInv, TypeOK
  <2>5. got'[t] = m /\ \A u \in Task : u # t => got'[u] = got[u]
    BY <2>1 DEF BusInv, TypeOK
  <2> HIDE DEF b, m
  <2>6. ASSUME NEW n \in Message, n # m PROVE n \in Outstanding' <=> n \in Outstanding
    BY <1>1, <1>2, <1>3, <2>2, <2>3, <2>4, <2>5, <2>6 DEF Outstanding
  <2>7. m \in Outstanding /\ m \in Outstanding'
    BY <1>1, <1>3, <2>2, <2>5 DEF Outstanding
  <2>8. Outstanding' = Outstanding
    BY <2>6, <2>7 DEF Outstanding
  <2> QED
    BY <1>2, <2>8 DEF WorkerAccounting
<1> QED
  BY <1>4, <1>5

(* A credit gives back the worker of one outstanding message, or counts as *)
(* spurious.                                                               *)
LEMMA AccountingCredit ==
    ASSUME BusInv, WorkerAccounting, NEW t \in Task, CreditWorker(t)
    PROVE  WorkerAccounting'
<1> DEFINE m == got[t]
<1>1. /\ pc' = [pc EXCEPT ![t] = "idle"] /\ pc[t] = "credit"
      /\ workers' = workers + 1
      /\ UNCHANGED <<memory, msg, got>>
  BY DEF CreditWorker, Goto, Leave
<1>2. \A u \in Task : /\ pc'[u] = "push" <=> pc[u] = "push"
                      /\ pc'[u] = "credit" <=> u # t /\ pc[u] = "credit"
  BY <1>1 DEF BusInv, TypeOK
<1>3. CASE m = NoMessage
  <2>1. spurious' = spurious + 1 /\ fate' = fate
    BY <1>3 DEF CreditWorker
  <2>2. Outstanding' = Outstanding
    BY <1>1, <1>2, <1>3, <2>1, BusAssumption DEF Outstanding
  <2> QED
    BY <1>1, <2>1, <2>2, OutstandingFinite, FS_CardinalityType, BusAssumption
       DEF WorkerAccounting, BusInv, TypeOK
<1>4. CASE m # NoMessage
  <2>1. spurious' = spurious /\ fate' = [fate EXCEPT ![m] = "delivered"]
    BY <1>4 DEF CreditWorker
  <2>2. m \in Message /\ fate[m] = "popped"
    BY <1>1, <1>4 DEF BusInv, TypeOK, FateKnown
  <2>3. /\ fate'[m] = "delivered"
        /\ \A n \in Message : n # m => fate'[n] = fate[n]
    BY <2>1, <2>2 DEF BusInv, TypeOK
  <2>4. \A u \in Task : u # t /\ pc[u] = "credit" => got[u] # m
    BY <1>1, <1>4 DEF BusInv, HoldersDiffer
  <2>5. /\ \A u \in Task : pc[u] = "push" => msg[u] # m
        /\ \A a \in Address : m \notin Range(memory[a])
    BY <2>2 DEF BusInv, FateKnown
  <2>6. m \in Outstanding
    BY <1>1, <2>2 DEF Outstanding
  <2>7. Outstanding' = Outstanding \ {m}
    <3>1. m \notin Outstanding'
      BY <1>1, <1>2, <2>3, <2>4, <2>5 DEF Outstanding
    <3>2. ASSUME NEW n \in Message, n # m PROVE n \in Outstanding' <=> n \in Outstanding
      BY <1>1, <1>2, <2>3, <3>2 DEF Outstanding
    <3> QED
      BY <3>1, <3>2 DEF Outstanding
  <2>8. Cardinality(Outstanding') = Cardinality(Outstanding) - 1
    BY <2>6, <2>7, OutstandingFinite, FS_RemoveElement
  <2> QED
    BY <1>1, <2>1, <2>8, OutstandingFinite, FS_CardinalityType, BusAssumption
       DEF WorkerAccounting, BusInv, TypeOK
<1> QED
  BY <1>3, <1>4

(* A cancelled message stays outstanding for ever.                         *)
LEMMA AccountingCancel ==
    ASSUME BusInv, WorkerAccounting, NEW t \in Task, CancelRequest(t)
    PROVE  WorkerAccounting'
<1> DEFINE m == got[t]
<1>1. /\ pc' = [pc EXCEPT ![t] = "idle"] /\ pc[t] \in RequestPoints
      /\ got' = [got EXCEPT ![t] = NoMessage]
      /\ UNCHANGED <<workers, memory, msg, spurious>>
  BY DEF CancelRequest, Goto, Leave
<1>2. \A u \in Task : /\ pc'[u] = "push" <=> pc[u] = "push"
                      /\ pc'[u] = "credit" <=> u # t /\ pc[u] = "credit"
                      /\ u # t => got'[u] = got[u]
  BY <1>1 DEF BusInv, TypeOK, RequestPoints
<1>3. CASE pc[t] = "credit" /\ m # NoMessage
  <2>1. fate' = [fate EXCEPT ![m] = "cancelled"]
    BY <1>3 DEF CancelRequest
  <2>2. m \in Message /\ m \in Outstanding
    BY <1>3 DEF BusInv, TypeOK, Outstanding
  <2>3. /\ fate'[m] = "cancelled"
        /\ \A n \in Message : n # m => fate'[n] = fate[n]
    BY <2>1, <2>2 DEF BusInv, TypeOK
  <2>4. m \in Outstanding'
    BY <2>2, <2>3 DEF Outstanding
  <2>5. ASSUME NEW n \in Message, n # m PROVE n \in Outstanding' <=> n \in Outstanding
    BY <1>1, <1>2, <2>3, <2>5 DEF Outstanding
  <2>6. Outstanding' = Outstanding
    BY <2>2, <2>4, <2>5 DEF Outstanding
  <2> QED
    BY <1>1, <2>6 DEF WorkerAccounting
<1>4. CASE ~(pc[t] = "credit" /\ m # NoMessage)
  <2>1. fate' = fate
    BY <1>4 DEF CancelRequest
  <2>2. Outstanding' = Outstanding
    BY <1>1, <1>2, <1>4, <2>1, BusAssumption DEF Outstanding
  <2> QED
    BY <1>1, <2>2 DEF WorkerAccounting
<1> QED
  BY <1>3, <1>4

(* The messages of a queue that is emptied are lost with their workers.    *)
LEMMA AccountingEmptyQueue ==
    ASSUME BusInv, WorkerAccounting, NEW b \in Address,
           memory' = [memory EXCEPT ![b] = <<>>], DropQueue(b),
           UNCHANGED <<workers, msg, got, spurious>>,
           \A u \in Task : /\ pc'[u] = "push" <=> pc[u] = "push"
                           /\ pc'[u] = "credit" <=> pc[u] = "credit"
    PROVE  WorkerAccounting'
<1>1. Range(memory'[b]) = {} /\ \A a \in Address : a # b => memory'[a] = memory[a]
  <2>1. Range(<<>>) = {}
    BY DEF Range
  <2> QED
    BY <2>1 DEF BusInv, TypeOK
<1>2. \A m \in Message :
         fate'[m] = IF m \in Range(memory[b]) THEN "dropped" ELSE fate[m]
  BY DEF DropQueue
<1>3. ASSUME NEW m \in Message PROVE m \in Outstanding' <=> m \in Outstanding
  <2>1. CASE m \in Range(memory[b])
    BY <1>2, <2>1 DEF Outstanding
  <2>2. CASE m \notin Range(memory[b])
    BY <1>1, <1>2, <2>2 DEF Outstanding
  <2> QED
    BY <2>1, <2>2
<1>4. Outstanding' = Outstanding
  BY <1>3 DEF Outstanding
<1> QED
  BY <1>4 DEF WorkerAccounting

(* The messages of a replaced queue stay outstanding for ever.             *)
LEMMA AccountingInsert ==
    ASSUME BusInv, WorkerAccounting, NEW t \in Task, InsertAddress(t)
    PROVE  WorkerAccounting'
<1>1. addr[t] \in Address
  BY DEF InsertAddress, BusInv, LocalsSet
<1>2. \A u \in Task : /\ pc'[u] = "push" <=> pc[u] = "push"
                      /\ pc'[u] = "credit" <=> pc[u] = "credit"
  BY DEF InsertAddress, Goto, BusInv, TypeOK
<1> QED
  BY <1>1, <1>2, AccountingEmptyQueue DEF InsertAddress

(* The messages of a removed queue stay outstanding for ever.              *)
LEMMA AccountingRemove ==
    ASSUME BusInv, WorkerAccounting, NEW t \in Task, RemoveAddress(t)
    PROVE  WorkerAccounting'
<1>1. addr[t] \in Address
  BY DEF RemoveAddress, BusInv, LocalsSet
<1>2. \A u \in Task : /\ pc'[u] = "push" <=> pc[u] = "push"
                      /\ pc'[u] = "credit" <=> pc[u] = "credit"
  BY DEF RemoveAddress, Goto, Leave, BusInv, TypeOK
<1> QED
  BY <1>1, <1>2, AccountingEmptyQueue DEF RemoveAddress

(* After create_bus nothing is outstanding.                                *)
LEMMA AccountingInit == BusInit => WorkerAccounting
<1> SUFFICES ASSUME BusInit PROVE WorkerAccounting
  OBVIOUS
<1>1. Range(<<>>) = {}
  BY DEF Range
<1>2. Outstanding = {}
  BY <1>1 DEF BusInit, Outstanding
<1> QED
  BY <1>2, FS_EmptySet, BusAssumption DEF BusInit, WorkerAccounting

(* Every step keeps the accounting.                                        *)
LEMMA AccountingStep ==
    BusInv /\ WorkerAccounting /\ [BusNext]_busVars => WorkerAccounting'
<1> SUFFICES ASSUME BusInv, WorkerAccounting, [BusNext]_busVars PROVE WorkerAccounting'
  OBVIOUS
<1>1. CASE UNCHANGED busVars
  BY <1>1 DEF busVars, WorkerAccounting, Outstanding
<1>2. ASSUME NEW t \in Task, Call(t) PROVE WorkerAccounting'
  BY <1>2, AccountingQuiet DEF Call
<1>3. ASSUME NEW t \in Task, SendStep(t) PROVE WorkerAccounting'
  BY <1>3, AccountingQuiet, AccountingClaim, AccountingPush DEF SendStep
<1>4. ASSUME NEW t \in Task, RequestStep(t) PROVE WorkerAccounting'
  BY <1>4, AccountingQuiet, AccountingPop, AccountingCredit DEF RequestStep
<1>5. ASSUME NEW t \in Task, AdminStep(t) PROVE WorkerAccounting'
  BY <1>5, AccountingQuiet, AccountingInsert, AccountingRemove DEF AdminStep
<1>6. ASSUME NEW t \in Task, CancelRequest(t) PROVE WorkerAccounting'
  BY <1>6, AccountingCancel
<1> QED
  BY <1>1, <1>2, <1>3, <1>4, <1>5, <1>6 DEF BusNext, BusStep

(* The worker count is the size of the pool, less the outstanding          *)
(* messages, plus the pops that found nothing (multibus.rs:74-76,          *)
(* 125-132).                                                               *)
THEOREM WorkersAccounted == BusSpec => []WorkerAccounting
<1>1. BusInit => BusInv /\ WorkerAccounting
  BY BusInvInit, AccountingInit
<1>2. BusInv /\ WorkerAccounting /\ [BusNext]_busVars => (BusInv /\ WorkerAccounting)'
  BY BusInvStep, AccountingStep
<1> QED
  BY <1>1, <1>2, PTL DEF BusSpec

-----------------------------------------------------------------------------
(* Who holds the notifiers waits for no lock.                              *)
LEMMA NotifiersHolderMoves ==
    ASSUME NEW u \in Task, HoldsNotifiers(u)
    PROVE  ~Blocked(u)
  BY DEF HoldsNotifiers, Blocked

(* Who holds memory waits for the notifiers alone.                         *)
LEMMA MemoryHolderMoves ==
    ASSUME NEW u \in Task, HoldsMemory(u)
    PROVE  \E v \in Task : (HoldsMemory(v) \/ HoldsNotifiers(v)) /\ ~Blocked(v)
<1>1. CASE NotifiersFree
  <2>1. ~Blocked(u)
    BY <1>1 DEF HoldsMemory, Blocked
  <2> QED
    BY <2>1
<1>2. CASE ~NotifiersFree
  BY <1>2, NotifiersHolderMoves DEF NotifiersFree
<1> QED
  BY <1>1, <1>2

(* Who holds the worker count waits for memory or for the notifiers.       *)
LEMMA WorkersHolderMoves ==
    ASSUME NEW u \in Task, HoldsWorkers(u)
    PROVE  \E v \in Task : /\ HoldsWorkers(v) \/ HoldsMemory(v) \/ HoldsNotifiers(v)
                          /\ ~Blocked(v)
<1>1. CASE MemoryFree /\ NotifiersFree
  <2>1. ~Blocked(u)
    BY <1>1 DEF HoldsWorkers, Blocked
  <2> QED
    BY <2>1
<1>2. CASE ~MemoryFree
  BY <1>2, MemoryHolderMoves DEF MemoryFree
<1>3. CASE ~NotifiersFree
  BY <1>3, NotifiersHolderMoves DEF NotifiersFree
<1> QED
  BY <1>1, <1>2, <1>3

(* The locks are taken in the order worker count, memory, notifiers, so    *)
(* that no number of tasks deadlocks on them (multibus.rs:24-135).         *)
THEOREM LocksDoNotDeadlock == BusSpec => []LockHoldersMove
<1>1. ASSUME NEW t \in Task, Blocked(t)
      PROVE  \E u \in Task : /\ HoldsWorkers(u) \/ HoldsMemory(u) \/ HoldsNotifiers(u)
                            /\ ~Blocked(u)
  <2>1. ~WorkersFree \/ ~MemoryFree \/ ~NotifiersFree
    BY <1>1 DEF Blocked
  <2>2. CASE ~WorkersFree
    BY <2>2, WorkersHolderMoves DEF WorkersFree
  <2>3. CASE ~MemoryFree
    BY <2>3, MemoryHolderMoves DEF MemoryFree
  <2>4. CASE ~NotifiersFree
    BY <2>4, NotifiersHolderMoves DEF NotifiersFree
  <2> QED
    BY <2>1, <2>2, <2>3, <2>4
<1>2. LockHoldersMove
  BY <1>1 DEF LockHoldersMove
<1> QED
  BY <1>2, PTL DEF BusSpec

=============================================================================
