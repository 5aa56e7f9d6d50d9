-------------------------- MODULE MultiBusFifoProofs --------------------------
(***************************************************************************)
(* The message bus implements one FIFO queue per address: every step of    *)
(* MultiBus is a step of FifoBus or changes nothing that FifoBus can see.  *)
(***************************************************************************)
EXTENDS MultiBusProofs

Taken   == {m \in Message : fate[m] \in {"popped", "delivered", "cancelled"}}
Dropped == {m \in Message : fate[m] = "dropped"}

(* The steps that leave the queues alone do not take or drop a message.    *)
LEMMA FifoStutter ==
    ASSUME BusInv, NEW t \in Task,
           \/ Call(t)
           \/ CheckWorkers(t) \/ ClaimWorker(t)
           \/ LookupNotifier(t) \/ LookupPanics(t) \/ NotifyWaiters(t)
           \/ ReadLength(t) \/ ReadLengthPanics(t)
           \/ FetchNotifier(t) \/ FetchNotifierPanics(t) \/ ArmNotified(t)
           \/ CreditWorker(t) \/ CancelRequest(t)
           \/ LockMemory(t) \/ FirstTick(t)
    PROVE  UNCHANGED Fifo!fifoVars
<1>1. UNCHANGED memory
  BY DEF Call, CallSendData, CallRequestData, CallInitialize, CallRemove, CheckWorkers,
         ClaimWorker, LookupNotifier, LookupPanics, NotifyWaiters, ReadLength,
         ReadLengthPanics, FetchNotifier, FetchNotifierPanics, ArmNotified,
         CreditWorker, CancelRequest, LockMemory, FirstTick
<1>2. \/ UNCHANGED fate
      \/ \E m \in Message : fate[m] = "unsent" /\ fate' = [fate EXCEPT ![m] = "sending"]
      \/ \E m \in Message : fate[m] = "sending" /\ fate' = [fate EXCEPT ![m] = "claimed"]
      \/ \E m \in Message : fate[m] = "popped" /\ fate' = [fate EXCEPT ![m] = "delivered"]
      \/ \E m \in Message : fate[m] = "popped" /\ fate' = [fate EXCEPT ![m] = "cancelled"]
  <2>1. CASE ClaimWorker(t)
    BY <2>1 DEF ClaimWorker, BusInv, LocalsSet, FateKnown, Sending
  <2>2. CASE CreditWorker(t)
    BY <2>2 DEF CreditWorker, BusInv, TypeOK, FateKnown
  <2>3. CASE CancelRequest(t)
    BY <2>3 DEF CancelRequest, BusInv, TypeOK, FateKnown
  <2>4. CASE Call(t)
    BY <2>4 DEF Call, CallSendData, CallRequestData, CallInitialize, CallRemove
  <2>5. CASE ~(ClaimWorker(t) \/ CreditWorker(t) \/ CancelRequest(t) \/ Call(t))
    BY <2>5 DEF CheckWorkers, LookupNotifier, LookupPanics, NotifyWaiters, ReadLength,
         ReadLengthPanics, FetchNotifier, FetchNotifierPanics, ArmNotified,
         LockMemory, FirstTick
  <2> QED
    BY <2>1, <2>2, <2>3, <2>4, <2>5
<1>3. Taken' = Taken /\ Dropped' = Dropped
  BY <1>2 DEF BusInv, TypeOK, Taken, Dropped
<1> QED
  BY <1>1, <1>3 DEF Fifo!fifoVars, Taken, Dropped

(* A push is a Put: the message was neither queued nor taken nor dropped.  *)
LEMMA PushImplementsPut ==
    ASSUME BusInv, NEW t \in Task, PushMessage(t)
    PROVE  \E a \in Address, m \in Message : Fifo!Put(a, m)
<1> DEFINE m == msg[t]
<1>1. addr[t] \in Address /\ m \in Message /\ fate[m] = "claimed"
  BY DEF BusInv, PushMessage, LocalsSet, FateKnown, Sending
<1>2. m \notin Fifo!Queued
  <2>1. \A a \in Address : m \notin Range(memory[a])
    BY <1>1 DEF BusInv, FateKnown
  <2>2. \A a \in Address : Fifo!Range(memory[a]) = Range(memory[a])
    BY DEF Fifo!Range, Range
  <2> QED
    BY <2>1, <2>2 DEF Fifo!Queued
<1>3. memory' = [memory EXCEPT ![addr[t]] = Append(@, m)]
  BY DEF PushMessage
<1>4. Taken' = Taken /\ Dropped' = Dropped
  BY <1>1 DEF PushMessage, BusInv, TypeOK, Taken, Dropped
<1> QED
  BY <1>1, <1>2, <1>3, <1>4 DEF Fifo!Put, Taken, Dropped

(* A pop that finds a message is a Take, one that does not is none.        *)
LEMMA PopImplementsTake ==
    ASSUME BusInv, NEW t \in Task, PopOne(t)
    PROVE  (\E a \in Address : Fifo!Take(a)) \/ UNCHANGED Fifo!fifoVars
<1> DEFINE b == addr[t]
           m == Head(memory[b])
<1>1. b \in Address
  BY DEF BusInv, PopOne, LocalsSet
<1>2. CASE memory[b] = <<>>
  BY <1>2 DEF PopOne, Fifo!fifoVars
<1>3. CASE memory[b] # <<>>
  <2>1. /\ memory' = [memory EXCEPT ![b] = Tail(@)]
        /\ fate' = [fate EXCEPT ![m] = "popped"]
    BY <1>3 DEF PopOne
  <2>2. m \in Message /\ m \in Range(memory[b])
    BY <1>1, <1>3, PopFirst DEF BusInv, TypeOK, QueuedOnce
  <2>3. fate[m] = "queued"
    BY <1>1, <2>2 DEF BusInv, FateKnown
  <2> HIDE DEF m
  <2>4. Taken' = Taken \cup {m} /\ Dropped' = Dropped
    BY <2>1, <2>2, <2>3 DEF BusInv, TypeOK, Taken, Dropped
  <2> QED
    BY <1>1, <1>3, <2>1, <2>4 DEF m, Fifo!Take, Taken, Dropped
<1> QED
  BY <1>2, <1>3

(* Replacing or removing a queue is a Discard unless the queue is empty.   *)
LEMMA DropImplementsDiscard ==
    ASSUME BusInv, NEW b \in Address,
           memory' = [memory EXCEPT ![b] = <<>>], DropQueue(b)
    PROVE  Fifo!Discard(b) \/ UNCHANGED Fifo!fifoVars
<1>1. \A m \in Range(memory[b]) : m \in Message /\ fate[m] = "queued"
  <2>1. \A m \in Range(memory[b]) : m \in Message
    BY DEF BusInv, TypeOK, Range
  <2> QED
    BY <2>1 DEF BusInv, FateKnown
<1>2. \A m \in Message :
         fate'[m] = IF m \in Range(memory[b]) THEN "dropped" ELSE fate[m]
  BY DEF DropQueue
<1>3. Taken' = Taken /\ Dropped' = Dropped \cup Range(memory[b])
  BY <1>1, <1>2 DEF Taken, Dropped
<1>4. CASE memory[b] # <<>>
  <2>1. Fifo!Range(memory[b]) = Range(memory[b])
    BY DEF Fifo!Range, Range
  <2> QED
    BY <1>3, <1>4, <2>1 DEF Fifo!Discard, Taken, Dropped
<1>5. CASE memory[b] = <<>>
  <2>1. Range(memory[b]) = {}
    BY <1>5 DEF Range
  <2>2. memory' = memory
    BY <1>5 DEF BusInv, TypeOK
  <2> QED
    BY <1>3, <2>1, <2>2 DEF Fifo!fifoVars, Taken, Dropped
<1> QED
  BY <1>4, <1>5

-----------------------------------------------------------------------------
(* create_bus makes the empty abstract bus.                                *)
LEMMA FifoInitial == BusInit => Fifo!FifoInit
  BY DEF BusInit, Fifo!FifoInit

(* Every step of the bus is a step of the abstract bus or a stutter.       *)
LEMMA FifoStep ==
    BusInv /\ [BusNext]_busVars => [Fifo!FifoNext]_(Fifo!fifoVars)
<1> SUFFICES ASSUME BusInv, [BusNext]_busVars
             PROVE  [Fifo!FifoNext]_(Fifo!fifoVars)
  OBVIOUS
<1>1. CASE UNCHANGED busVars
  BY <1>1 DEF busVars, Fifo!fifoVars
<1>2. ASSUME NEW t \in Task, Call(t) \/ CancelRequest(t)
      PROVE  UNCHANGED Fifo!fifoVars
  BY <1>2, FifoStutter
<1>3. ASSUME NEW t \in Task, SendStep(t)
      PROVE  Fifo!FifoNext \/ UNCHANGED Fifo!fifoVars
  <2>1. CASE PushMessage(t)
    BY <2>1, PushImplementsPut DEF Fifo!FifoNext
  <2>2. CASE ~PushMessage(t)
    BY <1>3, <2>2, FifoStutter DEF SendStep
  <2> QED
    BY <2>1, <2>2
<1>4. ASSUME NEW t \in Task, RequestStep(t)
      PROVE  Fifo!FifoNext \/ UNCHANGED Fifo!fifoVars
  <2>1. CASE PopOne(t)
    BY <2>1, PopImplementsTake DEF Fifo!FifoNext
  <2>2. CASE ~PopOne(t)
    BY <1>4, <2>2, FifoStutter DEF RequestStep
  <2> QED
    BY <2>1, <2>2
<1>5. ASSUME NEW t \in Task, AdminStep(t)
      PROVE  Fifo!FifoNext \/ UNCHANGED Fifo!fifoVars
  <2>1. CASE InsertAddress(t) \/ RemoveAddress(t)
    <3>1. addr[t] \in Address
      BY <2>1 DEF InsertAddress, RemoveAddress, BusInv, LocalsSet
    <3>2. memory' = [memory EXCEPT ![addr[t]] = <<>>] /\ DropQueue(addr[t])
      BY <2>1 DEF InsertAddress, RemoveAddress
    <3> QED
      BY <3>1, <3>2, DropImplementsDiscard DEF Fifo!FifoNext
  <2>2. CASE LockMemory(t) \/ FirstTick(t)
    BY <2>2, FifoStutter
  <2> QED
    BY <1>5, <2>1, <2>2 DEF AdminStep
<1> QED
  BY <1>1, <1>2, <1>3, <1>4, <1>5 DEF BusNext, BusStep

(* Every behaviour of the bus is one of a FIFO queue per address: a        *)
(* message is put at most once, leaves its queue at the front, at most     *)
(* once, and never comes back (multibus.rs:80, 126, 30, 45).               *)
THEOREM BusImplementsFifo == BusSpec => ImplementsFifo
<1>1. BusInv /\ [BusNext]_busVars => [Fifo!FifoNext]_(Fifo!fifoVars)
  BY FifoStep
<1> QED
  BY <1>1, FifoInitial, BusInvInit, BusInvStep, PTL
     DEF BusSpec, ImplementsFifo, Fifo!FifoSpec

=============================================================================
