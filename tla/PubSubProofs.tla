------------------------------ MODULE PubSubProofs ------------------------------
(***************************************************************************)
(* Proofs about publish and dispatch over the bus, for any publishers,     *)
(* dispatchers, replicas and workers.  What the bus guarantees to all its  *)
(* clients is taken from MultiBusProofs; the rest holds while no two calls *)
(* of publish that are under way have the same reply address.              *)
(***************************************************************************)
EXTENDS PubSub, MultiBusProofs

InitPoints   == {"init_memory", "init_notifiers", "init_tick"}
RemovePoints == {"remove_memory", "remove_notifiers"}

(* A task is in that bus operation that its stage is named for, or between *)
(* two of them; nobody has panicked.                                       *)
StagesInBus ==
    /\ \A p \in Publisher :
          /\ stage[p] \in {"load", "store", "named", "returned"} => pc[p] = "idle"
          /\ stage[p] = "initialize" => pc[p] \in InitPoints \cup {"idle"}
          /\ stage[p] = "send" => pc[p] \in SendPoints \cup {"idle"}
          /\ stage[p] = "request" => pc[p] \in RequestPoints \cup {"idle"}
          /\ stage[p] = "remove" => pc[p] \in RemovePoints \cup {"idle"}
    /\ \A d \in Dispatcher :
          /\ stage[d] = "dispatch" => pc[d] = "idle"
          /\ stage[d] = "send" => pc[d] \in SendPoints \cup {"idle"}
    /\ \A r \in Replica :
          /\ stage[r] \in {"free", "run"} => pc[r] = "idle"
          /\ stage[r] = "reply" => pc[r] \in SendPoints \cup {"idle"}
    /\ stage[Supervisor] \in {"setup", "ask", "reserve"} => pc[Supervisor] = "idle"
    /\ stage[Supervisor] = "initialize" => pc[Supervisor] \in InitPoints \cup {"idle"}
    /\ stage[Supervisor] = "request" => pc[Supervisor] \in RequestPoints \cup {"idle"}

(* r replies to p. *)
Replies(r, p) == pc[r] # "idle" /\ job[r] = RequestOf(p)

(* Which address and which message an operation is for                     *)
Arguments ==
    /\ \A p \in Publisher :
          /\ pc[p] # "idle" =>
                addr[p] = IF stage[p] = "send" THEN Topic ELSE ReplyAddress(p)
          /\ pc[p] \in Sending => msg[p] = RequestOf(p)
    /\ \A d \in Dispatcher :
          /\ pc[d] # "idle" => addr[d] = Topic
          /\ pc[d] \in Sending => msg[d] = EventOf(d)
    /\ \A r \in Replica :
          pc[r] # "idle" =>
             \E p \in Publisher : /\ job[r] = RequestOf(p)
                                  /\ addr[r] = ReplyAddress(p)
                                  /\ pc[r] \in Sending => msg[r] = ReplyTo(p)
    /\ pc[Supervisor] # "idle" => addr[Supervisor] = Topic

(* Nobody uses the topic before it is there.                               *)
StartedFirst ==
    ~Started => /\ \A p \in Publisher : stage[p] = "load"
                /\ \A d \in Dispatcher : stage[d] = "dispatch"

(* A call has its reply from the moment it is popped.                      *)
Answered(p) ==
    \/ stage[p] \in {"remove", "returned"}
    \/ stage[p] = "request" /\ pc[p] = "idle"

OwnFates ==
    /\ \A p \in Publisher :
          /\ stage[p] \in {"load", "store", "named", "initialize"}
                => fate[RequestOf(p)] = "unsent"
          /\ pc[p] = "credit" \/ (stage[p] = "request" /\ pc[p] = "idle")
                => got[p] = ReplyTo(p)
          /\ stage[p] \in {"remove", "returned"} => response[p] = ReplyTo(p)
          /\ Answered(p) => fate[ReplyTo(p)] = "delivered"
    /\ \A r \in Replica : job[r] # NoMessage => fate[job[r]] = "delivered"
    /\ pc[Supervisor] = "credit" => got[Supervisor] # NoMessage
    /\ pc[Supervisor] # "credit" /\ got[Supervisor] # NoMessage
          => fate[got[Supervisor]] = "delivered"

(* Who is replied to listens, or is about to.                              *)
Listening(p) ==
    \/ stage[p] = "send"
    \/ stage[p] = "request" /\ pc[p] # "idle"

RepliesListened ==
    \A r \in Replica, p \in Publisher : Replies(r, p) => Listening(p)

(* Only the own reply is queued at a reply address.                        *)
OwnQueue ==
    \A p \in Publisher :
        Active(p) => \A m \in Range(memory[ReplyAddress(p)]) : m = ReplyTo(p)

(* When initialize has inserted an address and remove has not removed it   *)
IsOpen(a) ==
    \/ /\ a = Topic
       /\ \/ Started
          \/ stage[Supervisor] = "initialize" /\ pc[Supervisor] \in {"init_tick", "idle"}
    \/ \E p \in Publisher :
          /\ a = ReplyAddress(p)
          /\ \/ stage[p] \in {"send", "request"}
             \/ stage[p] = "initialize" /\ pc[p] \in {"init_tick", "idle"}
             \/ stage[p] = "remove" /\ pc[p] # "idle"

AddressTables ==
    \A a \in Address :
        /\ a \in present <=> IsOpen(a)
        /\ notifiers[a] # 0 <=> IsOpen(a)
        /\ a \notin present => memory[a] = <<>>

(* Each address that is there has a Notify of its own, and those who use   *)
(* an address have the right one.                                          *)
OwnNotify ==
    /\ \A a \in Address : notifiers[a] <= created
    /\ \A a, b \in Address : notifiers[a] = notifiers[b] => a = b \/ notifiers[a] = 0
    /\ \A t \in Task :
          pc[t] \in {"notify", "arm", "waiting"} => ref[t] = notifiers[addr[t]]

(* A sender notifies of what is still there, or held by a task that cannot *)
(* go on before the sender has notified; so a pop finds something.         *)
NoticesTrue ==
    /\ \A t \in Task :
          pc[t] \in {"lookup", "notify"} =>
             \/ memory[addr[t]] # <<>>
             \/ \E u \in Task : pc[u] = "credit" /\ addr[u] = addr[t]
    /\ \A t \in Task : pc[t] = "pop" => memory[addr[t]] # <<>>

PublishInv ==
    /\ PubSubTypeOK
    /\ BusInv
    /\ StagesInBus
    /\ Arguments
    /\ StartedFirst
    /\ OwnFates
    /\ RepliesListened
    /\ OwnQueue
    /\ AddressTables
    /\ OwnNotify
    /\ NoticesTrue

-----------------------------------------------------------------------------
(* Who and what there is                                                   *)
LEMMA Kinds ==
    /\ Publisher \subseteq Task /\ Dispatcher \subseteq Task /\ Replica \subseteq Task
    /\ Supervisor \in Task
    /\ \A t \in Task : t \in Publisher \/ t \in Dispatcher \/ t \in Replica \/ t = Supervisor
    /\ \A p \in Publisher : p \notin Dispatcher /\ p \notin Replica /\ p # Supervisor
    /\ \A d \in Dispatcher : d \notin Replica /\ d # Supervisor
    /\ Supervisor \notin Replica
  BY PubSubAssumption

(* Messages are told apart by their kind and their sender.                 *)
LEMMA Messages ==
    /\ \A p \in Publisher : RequestOf(p) \in Message /\ ReplyTo(p) \in Message
    /\ \A d \in Dispatcher : EventOf(d) \in Message
    /\ \A p, q \in Publisher :
          /\ RequestOf(p) # ReplyTo(q)
          /\ RequestOf(p) = RequestOf(q) => p = q
          /\ ReplyTo(p) = ReplyTo(q) => p = q
    /\ \A p \in Publisher, d \in Dispatcher :
          RequestOf(p) # EventOf(d) /\ ReplyTo(p) # EventOf(d)
    /\ NoMessage \notin Message
<1>1. \A p, q \in Publisher :
         /\ RequestOf(p) # ReplyTo(q)
         /\ RequestOf(p) = RequestOf(q) => p = q
         /\ ReplyTo(p) = ReplyTo(q) => p = q
  BY DEF RequestOf, ReplyTo
<1>2. \A p \in Publisher, d \in Dispatcher :
         RequestOf(p) # EventOf(d) /\ ReplyTo(p) # EventOf(d)
  BY DEF RequestOf, ReplyTo, EventOf
<1>3. \A p \in Publisher : RequestOf(p) \in Message /\ ReplyTo(p) \in Message
  BY PubSubAssumption DEF RequestOf, ReplyTo
<1>4. \A d \in Dispatcher : EventOf(d) \in Message
  BY PubSubAssumption DEF EventOf
<1> QED
  BY <1>1, <1>2, <1>3, <1>4, BusAssumption

(* The name of a reply address depends on its source and its id alone.     *)
LEMMA Addresses ==
    /\ Topic \in Address
    /\ \A p \in Publisher : \A i \in 0..MOD - 1 :
          <<SourceOf[p], i>> \in Address /\ <<SourceOf[p], i>> # Topic
    /\ \A a \in Address :
          a = Topic \/ \E p \in Publisher : \E i \in 0..MOD - 1 : a = <<SourceOf[p], i>>
<1>1. \A p \in Publisher : SourceOf[p] \in Range(SourceOf)
  BY PubSubAssumption DEF Range
<1>2. \A x \in Range(SourceOf) : \E p \in Publisher : x = SourceOf[p]
  BY PubSubAssumption DEF Range
<1> QED
  BY <1>1, <1>2, PubSubAssumption DEF ReplyAddresses

(* Ids stay below MOD.                                                     *)
LEMMA NextId == \A i \in 0..MOD - 1 : (i + 1) % MOD \in 0..MOD - 1
<1>1. MOD \in Nat /\ MOD > 0
  BY PubSubAssumption
<1> QED
  BY <1>1

(* Whoever publishes, dispatches, supervises or replies uses the bus as    *)
(* any client may.                                                         *)
LEMMA BusClient == PubSubTypeOK /\ [Next]_vars => [BusNext]_busVars
<1> SUFFICES ASSUME PubSubTypeOK, [Next]_vars PROVE [BusNext]_busVars
  OBVIOUS
<1>1. \A p \in Publisher : ReplyAddress(p) \in Address
  BY Addresses DEF PubSubTypeOK, ReplyAddress
<1>2. ASSUME NEW p \in Publisher, PublishStep(p) PROVE [BusNext]_busVars
  <2>1. p \in Task /\ RequestOf(p) \in Message /\ Topic \in Address
    BY Kinds, Messages, Addresses
  <2>2. CASE InitializeReply(p)
    BY <1>1, <2>1, <2>2 DEF InitializeReply, BusNext, Call
  <2>3. CASE SendRequest(p)
    BY <2>1, <2>3 DEF SendRequest, BusNext, Call
  <2>4. CASE AwaitReply(p)
    BY <1>1, <2>1, <2>4 DEF AwaitReply, BusNext, Call
  <2>5. CASE RemoveReply(p)
    BY <1>1, <2>1, <2>5 DEF RemoveReply, BusNext, Call
  <2>6. CASE LoadId(p) \/ StoreId(p) \/ Return(p)
    BY <2>6 DEF LoadId, StoreId, Return
  <2> QED
    BY <1>2, <2>2, <2>3, <2>4, <2>5, <2>6 DEF PublishStep
<1>3. ASSUME NEW d \in Dispatcher, Dispatch(d) PROVE [BusNext]_busVars
  <2>1. d \in Task /\ EventOf(d) \in Message /\ Topic \in Address
    BY Kinds, Messages, Addresses
  <2> QED
    BY <1>3, <2>1 DEF Dispatch, BusNext, Call
<1>4. ASSUME SupervisorStep PROVE [BusNext]_busVars
  <2>1. Supervisor \in Task /\ Topic \in Address
    BY Kinds, Addresses
  <2>2. CASE SetupPublishing
    BY <2>1, <2>2 DEF SetupPublishing, BusNext, Call
  <2>3. CASE AskForData
    BY <2>1, <2>3 DEF AskForData, BusNext, Call
  <2>4. CASE BeginLoop \/ TakeData \/ \E r \in Replica : HandOver(r)
    BY <2>4 DEF BeginLoop, TakeData, HandOver
  <2> QED
    BY <1>4, <2>2, <2>3, <2>4 DEF SupervisorStep
<1>5. ASSUME NEW r \in Replica, ReplicaStep(r) PROVE [BusNext]_busVars
  <2>1. CASE RunWithReply(r)
    <3>1. PICK p \in Publisher : CallSendData(r, ReplyAddress(p), ReplyTo(p))
      BY <2>1 DEF RunWithReply
    <3>2. r \in Task /\ ReplyTo(p) \in Message
      BY Kinds, Messages
    <3> QED
      BY <1>1, <3>1, <3>2 DEF BusNext, Call
  <2>2. CASE RunWithoutReply(r) \/ FinishReply(r)
    BY <2>2 DEF RunWithoutReply, FinishReply
  <2> QED
    BY <1>5, <2>1, <2>2 DEF ReplicaStep
<1>6. ASSUME NEW t \in Task, InsideBus(t) PROVE [BusNext]_busVars
  BY <1>6 DEF InsideBus, BusNext
<1>7. ASSUME UNCHANGED vars PROVE [BusNext]_busVars
  BY <1>7 DEF vars
<1> QED
  BY <1>2, <1>3, <1>4, <1>5, <1>6, <1>7 DEF Next

-----------------------------------------------------------------------------
(* The stages of a publisher are changed by itself, and so on: whoever is  *)
(* moved to one of his stages leaves all types intact.                     *)
LEMMA MoveToTyped ==
    ASSUME PubSubTypeOK, NEW t \in Task, NEW s, MoveTo(t, s),
           \/ t \in Publisher /\ s \in PublishStages
           \/ t \in Dispatcher /\ s \in {"dispatch", "send"}
           \/ t \in Replica /\ s \in ReplicaStages
           \/ t = Supervisor /\ s \in SupervisorStages
    PROVE  /\ stage' \in [Task -> PublishStages \cup {"dispatch"} \cup ReplicaStages
                                     \cup SupervisorStages]
           /\ \A p \in Publisher : stage'[p] \in PublishStages
           /\ \A d \in Dispatcher : stage'[d] \in {"dispatch", "send"}
           /\ \A r \in Replica : stage'[r] \in ReplicaStages
           /\ stage'[Supervisor] \in SupervisorStages
<1>1. s \in PublishStages \cup {"dispatch"} \cup ReplicaStages \cup SupervisorStages
  BY DEF PublishStages
<1>2. /\ stage'[t] = s
      /\ \A u \in Task : u # t => stage'[u] = stage[u]
  BY DEF MoveTo, PubSubTypeOK
<1>3. stage' \in [Task -> PublishStages \cup {"dispatch"} \cup ReplicaStages
                             \cup SupervisorStages]
  BY <1>1 DEF MoveTo, PubSubTypeOK
<1> QED
  BY <1>2, <1>3, Kinds DEF PubSubTypeOK

(* Types are kept by the bus and by all around it, whoever has the same    *)
(* source as another.                                                      *)
LEMMA PubSubTypeOKStep == PubSubTypeOK /\ TypeOK' /\ [Next]_vars => PubSubTypeOK'
<1> SUFFICES ASSUME PubSubTypeOK, TypeOK', [Next]_vars PROVE PubSubTypeOK'
  OBVIOUS
<1>1. ASSUME NEW p \in Publisher, PublishStep(p) PROVE PubSubTypeOK'
  <2>1. p \in Task
    BY Kinds
  <2>2. /\ "store" \in PublishStages /\ "named" \in PublishStages
        /\ "initialize" \in PublishStages /\ "send" \in PublishStages
        /\ "request" \in PublishStages /\ "remove" \in PublishStages
        /\ "returned" \in PublishStages
    BY DEF PublishStages
  <2>3. PICK s \in PublishStages : MoveTo(p, s)
    BY <1>1, <2>2 DEF PublishStep, LoadId, StoreId, InitializeReply, SendRequest,
                      AwaitReply, RemoveReply, Return
  <2>4. id_pub_channel' \in 0..MOD - 1 /\ my_id' \in [Publisher -> 0..MOD - 1]
    <3>1. CASE LoadId(p)
      BY <3>1 DEF LoadId, PubSubTypeOK
    <3>2. CASE StoreId(p)
      BY <3>2, NextId DEF StoreId, PubSubTypeOK
    <3>3. CASE ~LoadId(p) /\ ~StoreId(p)
      BY <1>1, <3>3 DEF PublishStep, InitializeReply, SendRequest, AwaitReply,
                        RemoveReply, Return, PubSubTypeOK
    <3> QED
      BY <3>1, <3>2, <3>3
  <2>5. /\ job' \in [Replica -> Message \cup {NoMessage}]
        /\ response' \in [Publisher -> Message \cup {NoMessage}]
    <3>1. got[p] \in Message \cup {NoMessage}
      BY <2>1 DEF PubSubTypeOK, TypeOK
    <3> QED
      BY <1>1, <3>1 DEF PublishStep, LoadId, StoreId, InitializeReply, SendRequest,
                        AwaitReply, RemoveReply, Return, PubSubTypeOK
  <2> QED
    BY <2>1, <2>3, <2>4, <2>5, MoveToTyped DEF PubSubTypeOK
<1>2. ASSUME NEW d \in Dispatcher, Dispatch(d) PROVE PubSubTypeOK'
  BY <1>2, Kinds, MoveToTyped DEF Dispatch, PubSubTypeOK
<1>3. ASSUME SupervisorStep PROVE PubSubTypeOK'
  <2>1. CASE \E r \in Replica : HandOver(r)
    <3>1. PICK r \in Replica : HandOver(r)
      BY <2>1
    <3>2. r \in Task /\ Supervisor \in Task /\ r # Supervisor
      BY Kinds
    <3>3. "run" \in ReplicaStages /\ "ask" \in SupervisorStages
      BY DEF ReplicaStages, SupervisorStages
    <3>4. /\ stage' \in [Task -> PublishStages \cup {"dispatch"} \cup ReplicaStages
                                    \cup SupervisorStages]
          /\ stage'[r] = "run" /\ stage'[Supervisor] = "ask"
          /\ \A t \in Task : t # r /\ t # Supervisor => stage'[t] = stage[t]
      BY <3>1, <3>2, <3>3 DEF HandOver, PubSubTypeOK
    <3>5. job' \in [Replica -> Message \cup {NoMessage}]
      BY <3>1, <3>2 DEF HandOver, PubSubTypeOK, TypeOK
    <3>6. UNCHANGED <<id_pub_channel, my_id, response>>
      BY <3>1 DEF HandOver
    <3> QED
      BY <3>3, <3>4, <3>5, <3>6, Kinds DEF PubSubTypeOK
  <2>2. CASE SetupPublishing \/ BeginLoop \/ AskForData \/ TakeData
    <3>1. /\ "initialize" \in SupervisorStages /\ "ask" \in SupervisorStages
          /\ "request" \in SupervisorStages /\ "reserve" \in SupervisorStages
      BY DEF SupervisorStages
    <3>2. PICK s \in SupervisorStages : MoveTo(Supervisor, s)
      BY <2>2, <3>1 DEF SetupPublishing, BeginLoop, AskForData, TakeData
    <3>3. UNCHANGED <<id_pub_channel, my_id, job, response>>
      BY <2>2 DEF SetupPublishing, BeginLoop, AskForData, TakeData
    <3> QED
      BY <3>2, <3>3, Kinds, MoveToTyped DEF PubSubTypeOK
  <2> QED
    BY <1>3, <2>1, <2>2 DEF SupervisorStep
<1>4. ASSUME NEW r \in Replica, ReplicaStep(r) PROVE PubSubTypeOK'
  <2>1. r \in Task /\ "free" \in ReplicaStages /\ "reply" \in ReplicaStages
    BY Kinds DEF ReplicaStages
  <2>2. PICK s \in ReplicaStages : MoveTo(r, s)
    BY <1>4, <2>1 DEF ReplicaStep, RunWithoutReply, RunWithReply, FinishReply, Free
  <2>3. job' \in [Replica -> Message \cup {NoMessage}]
    BY <1>4
       DEF ReplicaStep, RunWithoutReply, RunWithReply, FinishReply, Free,
           PubSubTypeOK
  <2>4. UNCHANGED <<id_pub_channel, my_id, response>>
    BY <1>4 DEF ReplicaStep, RunWithoutReply, RunWithReply, FinishReply
  <2> QED
    BY <2>1, <2>2, <2>3, <2>4, MoveToTyped DEF PubSubTypeOK
<1>5. ASSUME NEW t \in Task, InsideBus(t) PROVE PubSubTypeOK'
  BY <1>5 DEF InsideBus, PubSubTypeOK
<1>6. ASSUME UNCHANGED vars PROVE PubSubTypeOK'
  BY <1>6 DEF vars, PubSubTypeOK
<1> QED
  BY <1>1, <1>2, <1>3, <1>4, <1>5, <1>6 DEF Next

(* At first all are at their first stage.                                  *)
LEMMA PubSubTypeOKInit == Init => PubSubTypeOK /\ BusInv
<1> SUFFICES ASSUME Init PROVE PubSubTypeOK /\ BusInv
  OBVIOUS
<1>1. BusInv
  BY BusInvInit DEF Init
<1>2. TypeOK
  BY <1>1 DEF BusInv
<1>3. \A t \in Task :
         /\ t \in Publisher => stage[t] = "load"
         /\ t \in Dispatcher => stage[t] = "dispatch"
         /\ t \in Replica => stage[t] = "free"
         /\ t = Supervisor => stage[t] = "setup"
  BY Kinds DEF Init
<1>4. /\ "load" \in PublishStages /\ "free" \in ReplicaStages
      /\ "setup" \in SupervisorStages
  BY DEF PublishStages, ReplicaStages, SupervisorStages
<1>5. stage \in [Task -> PublishStages \cup {"dispatch"} \cup ReplicaStages
                           \cup SupervisorStages]
  BY <1>4, Kinds DEF Init
<1>6. 0 \in 0..MOD - 1
  BY PubSubAssumption
<1>7. /\ id_pub_channel \in 0..MOD - 1
      /\ my_id \in [Publisher -> 0..MOD - 1]
      /\ job \in [Replica -> Message \cup {NoMessage}]
      /\ response \in [Publisher -> Message \cup {NoMessage}]
  BY <1>6 DEF Init
<1> QED
  BY <1>1, <1>2, <1>3, <1>4, <1>5, <1>7, Kinds DEF PubSubTypeOK

(* What is known of every client of the bus holds for this one.            *)
LEMMA BusInvStays == Spec => [](PubSubTypeOK /\ BusInv)
<1>1. PubSubTypeOK /\ BusInv /\ [Next]_vars => (PubSubTypeOK /\ BusInv)'
  <2> SUFFICES ASSUME PubSubTypeOK, BusInv, [Next]_vars
               PROVE  PubSubTypeOK' /\ BusInv'
    OBVIOUS
  <2>1. BusInv'
    BY BusClient, BusInvStep
  <2>2. TypeOK'
    BY <2>1 DEF BusInv
  <2> QED
    BY <2>1, <2>2, PubSubTypeOKStep
<1> QED
  BY <1>1, PubSubTypeOKInit, PTL DEF Spec

(* The tasks around the bus stay in their stages and the ids below MOD,    *)
(* also when publishers share a source (pub_sub.rs:44-59,                  *)
(* manager.rs:356-471).                                                    *)
THEOREM PubSubTypeCorrect == Spec => []PubSubTypeOK
  BY BusInvStays, PTL

-----------------------------------------------------------------------------
(* Reply addresses of different calls that are under way differ.           *)
LEMMA OwnAddresses ==
    ASSUME NamesDiffer, PubSubTypeOK
    PROVE  /\ \A p \in Publisher : ReplyAddress(p) \in Address /\ ReplyAddress(p) # Topic
           /\ \A p, q \in Publisher :
                 Active(p) /\ Active(q) /\ ReplyAddress(p) = ReplyAddress(q) => p = q
<1>1. \A p \in Publisher : my_id[p] \in 0..MOD - 1
  BY DEF PubSubTypeOK
<1> QED
  BY <1>1, Addresses DEF ReplyAddress, NamesDiffer

(* Whoever sends or requests, the address is there.                        *)
LEMMA UsedIsOpen ==
    ASSUME PublishInv, NEW t \in Task, pc[t] \in SendPoints \cup RequestPoints
    PROVE  IsOpen(addr[t]) /\ addr[t] \in Address
<1>1. pc[t] \notin {"idle", "panicked"} \cup InitPoints \cup RemovePoints
  BY DEF SendPoints, RequestPoints, InitPoints, RemovePoints
<1>2. addr[t] \in Address
  BY <1>1 DEF PublishInv, BusInv, LocalsSet
<1> SUFFICES IsOpen(addr[t])
  BY <1>2
<1>3. CASE t \in Publisher
  <2>1. stage[t] \in PublishStages
    BY <1>3 DEF PublishInv, PubSubTypeOK
  <2>2. stage[t] \in {"send", "request"}
    BY <1>1, <1>3, <2>1 DEF PublishInv, StagesInBus, PublishStages
  <2>3. CASE stage[t] = "send"
    <3>1. Started /\ addr[t] = Topic
      BY <1>1, <1>3, <2>3 DEF PublishInv, StartedFirst, Arguments
    <3> QED
      BY <3>1 DEF IsOpen
  <2>4. CASE stage[t] = "request"
    <3>1. addr[t] = ReplyAddress(t)
      BY <1>1, <1>3, <2>4 DEF PublishInv, Arguments
    <3> QED
      BY <1>3, <2>4, <3>1 DEF IsOpen
  <2> QED
    BY <2>2, <2>3, <2>4
<1>4. CASE t \in Dispatcher
  <2>1. stage[t] # "dispatch" /\ addr[t] = Topic
    BY <1>1, <1>4 DEF PublishInv, StagesInBus, Arguments
  <2>2. Started
    BY <1>4, <2>1 DEF PublishInv, StartedFirst
  <2> QED
    BY <2>1, <2>2 DEF IsOpen
<1>5. CASE t \in Replica
  <2>1. PICK p \in Publisher : job[t] = RequestOf(p) /\ addr[t] = ReplyAddress(p)
    BY <1>1, <1>5 DEF PublishInv, Arguments
  <2>2. Listening(p)
    BY <1>1, <1>5, <2>1 DEF PublishInv, RepliesListened, Replies
  <2> QED
    BY <2>1, <2>2 DEF Listening, IsOpen
<1>6. CASE t = Supervisor
  <2>1. stage[t] \in SupervisorStages
    BY <1>6 DEF PublishInv, PubSubTypeOK
  <2>2. stage[t] = "request" /\ addr[t] = Topic
    BY <1>1, <1>6, <2>1 DEF PublishInv, StagesInBus, Arguments, SupervisorStages
  <2>3. Started
    BY <1>6, <2>2 DEF Started
  <2> QED
    BY <2>2, <2>3 DEF IsOpen
<1> QED
  BY <1>2, <1>3, <1>4, <1>5, <1>6, Kinds

(* An address has one task that requests from it.                          *)
LEMMA Requester ==
    ASSUME PublishInv, NEW t \in Task, pc[t] \in RequestPoints
    PROVE  \/ t = Supervisor /\ addr[t] = Topic /\ stage[t] = "request"
           \/ t \in Publisher /\ addr[t] = ReplyAddress(t) /\ stage[t] = "request"
<1>1. pc[t] \notin {"idle", "panicked"} \cup InitPoints \cup RemovePoints \cup SendPoints
  BY DEF SendPoints, RequestPoints, InitPoints, RemovePoints
<1>2. CASE t \in Publisher
  <2>1. stage[t] \in PublishStages
    BY <1>2 DEF PublishInv, PubSubTypeOK
  <2>2. stage[t] = "request"
    BY <1>1, <1>2, <2>1 DEF PublishInv, StagesInBus, PublishStages
  <2> QED
    BY <1>1, <1>2, <2>2 DEF PublishInv, Arguments
<1>3. CASE t = Supervisor
  <2>1. stage[t] \in SupervisorStages
    BY <1>3 DEF PublishInv, PubSubTypeOK
  <2> QED
    BY <1>1, <1>3, <2>1 DEF PublishInv, StagesInBus, Arguments, SupervisorStages
<1>4. t \notin Dispatcher
  BY <1>1 DEF PublishInv, PubSubTypeOK, StagesInBus
<1>5. t \notin Replica
  BY <1>1 DEF PublishInv, PubSubTypeOK, StagesInBus, ReplicaStages
<1> QED
  BY <1>2, <1>3, <1>4, <1>5, Kinds

(* So two requesters of one address are the same task.                     *)
LEMMA OneRequester ==
    ASSUME NamesDiffer, PublishInv, NEW t \in Task, NEW u \in Task,
           pc[t] \in RequestPoints, pc[u] \in RequestPoints, addr[t] = addr[u]
    PROVE  t = u
  BY Requester, OwnAddresses DEF PublishInv, Active

(* Where a sender is                                                       *)
LEMMA Sender ==
    ASSUME PublishInv, NEW t \in Task, pc[t] \in SendPoints
    PROVE  \/ t \in Publisher /\ addr[t] = Topic /\ stage[t] = "send"
           \/ t \in Dispatcher /\ addr[t] = Topic
           \/ /\ t \in Replica /\ stage[t] = "reply"
              /\ \E p \in Publisher : /\ Replies(t, p) /\ Listening(p)
                                      /\ addr[t] = ReplyAddress(p)
                                      /\ pc[t] \in Sending => msg[t] = ReplyTo(p)
<1>1. pc[t] \notin {"idle", "panicked"} \cup InitPoints \cup RemovePoints \cup RequestPoints
  BY DEF SendPoints, RequestPoints, InitPoints, RemovePoints
<1>2. CASE t \in Publisher
  <2>1. stage[t] \in PublishStages
    BY <1>2 DEF PublishInv, PubSubTypeOK
  <2>2. stage[t] = "send"
    BY <1>1, <1>2, <2>1 DEF PublishInv, StagesInBus, PublishStages
  <2> QED
    BY <1>1, <1>2, <2>2 DEF PublishInv, Arguments
<1>3. t # Supervisor
  <2>1. stage[Supervisor] \in SupervisorStages
    BY DEF PublishInv, PubSubTypeOK
  <2> QED
    BY <1>1, <2>1 DEF PublishInv, StagesInBus, SupervisorStages
<1>4. CASE t \in Dispatcher
  BY <1>1, <1>4 DEF PublishInv, Arguments
<1>5. CASE t \in Replica
  <2>1. stage[t] = "reply"
    BY <1>1, <1>5 DEF PublishInv, PubSubTypeOK, StagesInBus, ReplicaStages
  <2>2. PICK p \in Publisher : /\ job[t] = RequestOf(p) /\ addr[t] = ReplyAddress(p)
                               /\ pc[t] \in Sending => msg[t] = ReplyTo(p)
    BY <1>1, <1>5 DEF PublishInv, Arguments
  <2>3. Replies(t, p) /\ Listening(p)
    BY <1>1, <1>5, <2>2 DEF PublishInv, RepliesListened, Replies
  <2> QED
    BY <1>5, <2>1, <2>2, <2>3
<1> QED
  BY <1>2, <1>3, <1>4, <1>5, Kinds

(* Addresses are initialized by one who has not yet been there, and        *)
(* removed by the publisher whose reply address it is.                     *)
LEMMA Admin ==
    ASSUME PublishInv, NEW t \in Task, pc[t] \in InitPoints \cup RemovePoints
    PROVE  \/ t = Supervisor /\ addr[t] = Topic /\ stage[t] = "initialize"
              /\ pc[t] \in InitPoints
           \/ t \in Publisher /\ addr[t] = ReplyAddress(t) /\ stage[t] = "initialize"
              /\ pc[t] \in InitPoints
           \/ t \in Publisher /\ addr[t] = ReplyAddress(t) /\ stage[t] = "remove"
              /\ pc[t] \in RemovePoints
<1>1. pc[t] \notin {"idle", "panicked"} \cup SendPoints \cup RequestPoints
  BY DEF SendPoints, RequestPoints, InitPoints, RemovePoints
<1>2. CASE t \in Publisher
  <2>1. stage[t] \in PublishStages
    BY <1>2 DEF PublishInv, PubSubTypeOK
  <2>2. \/ stage[t] = "initialize" /\ pc[t] \in InitPoints
        \/ stage[t] = "remove" /\ pc[t] \in RemovePoints
    BY <1>1, <1>2, <2>1 DEF PublishInv, StagesInBus, PublishStages
  <2> QED
    BY <1>1, <1>2, <2>2 DEF PublishInv, Arguments
<1>3. CASE t = Supervisor
  <2>1. stage[t] \in SupervisorStages
    BY <1>3 DEF PublishInv, PubSubTypeOK
  <2>2. stage[t] = "initialize" /\ pc[t] \in InitPoints
    BY <1>1, <1>3, <2>1 DEF PublishInv, StagesInBus, SupervisorStages
  <2> QED
    BY <1>1, <1>3, <2>2 DEF PublishInv, Arguments
<1>4. t \notin Dispatcher /\ t \notin Replica
  BY <1>1 DEF PublishInv, PubSubTypeOK, StagesInBus, ReplicaStages
<1> QED
  BY <1>2, <1>3, <1>4, Kinds

(* Nobody uses an address that is about to be inserted or removed.         *)
LEMMA NotInUse ==
    ASSUME NamesDiffer, PublishInv, NEW t \in Task, NEW u \in Task,
           pc[t] \in {"init_memory", "init_notifiers", "remove_memory", "remove_notifiers"},
           pc[u] \in SendPoints \cup RequestPoints
    PROVE  addr[t] # addr[u]
<1> DEFINE a == addr[t]
<1>1. pc[t] \in InitPoints \cup RemovePoints
  BY DEF InitPoints, RemovePoints
<1>2. CASE t = Supervisor /\ a = Topic /\ stage[t] = "initialize"
  <2>1. ~IsOpen(Topic)
    BY <1>2, OwnAddresses, Kinds
       DEF PublishInv, IsOpen, StagesInBus, InitPoints, Started
  <2> QED
    BY <1>2, <2>1, UsedIsOpen
<1>3. CASE t \in Publisher /\ a = ReplyAddress(t) /\ stage[t] = "initialize"
  <2>1. pc[t] \notin {"init_tick", "idle"}
    BY <1>3 DEF PublishInv, StagesInBus, InitPoints
  <2>2. ~IsOpen(a)
    BY <1>3, <2>1, OwnAddresses DEF PublishInv, IsOpen, Active
  <2> QED
    BY <2>2, UsedIsOpen
<1>4. CASE t \in Publisher /\ a = ReplyAddress(t) /\ stage[t] = "remove"
  <2>1. ~Listening(t) /\ a # Topic
    BY <1>4, OwnAddresses DEF Listening, PublishInv, Active
  <2>2. CASE pc[u] \in SendPoints
    <3>1. \A q \in Publisher : Listening(q) => Active(q) /\ q # t
      BY <2>1 DEF Listening, Active
    <3>2. Active(t)
      BY <1>4 DEF Active
    <3> QED
      BY <1>4, <2>1, <2>2, <3>1, <3>2, Sender, OwnAddresses DEF PublishInv
  <2>3. CASE pc[u] \in RequestPoints
    BY <1>4, <2>1, <2>3, Requester, OwnAddresses DEF PublishInv, Active
  <2> QED
    BY <2>2, <2>3
<1> QED
  BY <1>1, <1>2, <1>3, <1>4, Admin

(* Every unwrap finds its address.                                         *)
LEMMA NobodyPanics ==
    ASSUME PublishInv, NEW t \in Task
    PROVE  ~LookupPanics(t) /\ ~ReadLengthPanics(t) /\ ~FetchNotifierPanics(t)
<1>1. ASSUME LookupPanics(t) \/ ReadLengthPanics(t) \/ FetchNotifierPanics(t) PROVE FALSE
  <2>1. pc[t] \in SendPoints \cup RequestPoints
    BY <1>1
       DEF LookupPanics, ReadLengthPanics, FetchNotifierPanics, SendPoints,
           RequestPoints
  <2>2. addr[t] \in present /\ notifiers[addr[t]] # 0
    BY <2>1, UsedIsOpen DEF PublishInv, AddressTables
  <2> QED
    BY <1>1, <2>2 DEF LookupPanics, ReadLengthPanics, FetchNotifierPanics
<1> QED
  BY <1>1

-----------------------------------------------------------------------------
(* What surrounds the bus                                                  *)
callVars == <<id_pub_channel, stage, my_id, job, response>>

(* Inside of the bus no reply address changes its name.                    *)
LEMMA SameNames ==
    ASSUME UNCHANGED callVars
    PROVE  /\ \A p \in Publisher : ReplyAddress(p)' = ReplyAddress(p)
           /\ Started' = Started
  BY DEF callVars, ReplyAddress, Started

(* Only the end of an insertion and a removal open and close an address.   *)
LEMMA SameOpen ==
    ASSUME UNCHANGED callVars,
           \A u \in Publisher \cup {Supervisor} :
              stage[u] = "initialize"
                 => (pc'[u] \in {"init_tick", "idle"} <=> pc[u] \in {"init_tick", "idle"}),
           \A p \in Publisher : stage[p] = "remove" => (pc'[p] = "idle" <=> pc[p] = "idle")
    PROVE  \A a : IsOpen(a)' <=> IsOpen(a)
<1>1. stage' = stage /\ Started' = Started
  BY SameNames DEF callVars
<1>2. ASSUME NEW p \in Publisher
      PROVE  /\ ReplyAddress(p)' = ReplyAddress(p)
             /\ (\/ stage'[p] \in {"send", "request"}
                 \/ stage'[p] = "initialize" /\ pc'[p] \in {"init_tick", "idle"}
                 \/ stage'[p] = "remove" /\ pc'[p] # "idle")
                <=>
                (\/ stage[p] \in {"send", "request"}
                 \/ stage[p] = "initialize" /\ pc[p] \in {"init_tick", "idle"}
                 \/ stage[p] = "remove" /\ pc[p] # "idle")
  BY <1>1, SameNames, Kinds
<1>3. (\/ Started'
       \/ stage'[Supervisor] = "initialize" /\ pc'[Supervisor] \in {"init_tick", "idle"})
      <=>
      (\/ Started
       \/ stage[Supervisor] = "initialize" /\ pc[Supervisor] \in {"init_tick", "idle"})
  BY <1>1, Kinds
<1> QED
  BY <1>2, <1>3 DEF IsOpen

(* Whoever may go on to claim a worker has not yet done anything.          *)
LEMMA PubCheckWorkers ==
    ASSUME NamesDiffer, PublishInv, PubSubTypeOK', BusInv', NEW t \in Task,
           CheckWorkers(t), UNCHANGED callVars
    PROVE  PublishInv'
<1>1. /\ pc[t] = "check" /\ pc'[t] = "claim"
      /\ \A u \in Task : u # t => pc'[u] = pc[u]
      /\ UNCHANGED <<workers, memory, present, notifiers, created, addr, msg,
                     ref, got, fate>>
      /\ UNCHANGED <<stage, my_id, job, response>>
  BY DEF CheckWorkers, Goto, Leave, callVars, PublishInv, PubSubTypeOK, TypeOK
<1>2. \A p \in Publisher : ReplyAddress(p)' = ReplyAddress(p)
  BY SameNames
<1>3. Started' = Started
  BY SameNames
<1>4. \A a : IsOpen(a)' <=> IsOpen(a)
  BY <1>1, SameOpen, Kinds
     DEF PublishInv, StagesInBus, SendPoints, RequestPoints, InitPoints, RemovePoints
<1>5. StagesInBus'
  BY <1>1, <1>2, <1>3, <1>4, Kinds
     DEF PublishInv, StagesInBus, PubSubTypeOK, SendPoints, RequestPoints,
         InitPoints, RemovePoints
<1>6. Arguments'
  BY <1>1, <1>2, <1>3, <1>4, Kinds DEF PublishInv, Arguments, Sending
<1>7. StartedFirst'
  BY <1>1, <1>2, <1>3, <1>4, Kinds DEF PublishInv, StartedFirst
<1>8. OwnFates'
  BY <1>1, <1>2, <1>3, <1>4, Kinds, Messages
     DEF PublishInv, OwnFates, Answered, PubSubTypeOK, TypeOK
<1>9. RepliesListened'
  BY <1>1, <1>2, <1>3, <1>4, Kinds
     DEF PublishInv, RepliesListened, Replies, Listening
<1>10. OwnQueue'
  BY <1>1, <1>2, <1>3, <1>4, Kinds DEF PublishInv, OwnQueue, Active
<1>11. AddressTables'
  BY <1>1, <1>2, <1>3, <1>4, Kinds DEF PublishInv, AddressTables
<1>12. OwnNotify'
  BY <1>1, <1>2, <1>3, <1>4, Kinds DEF PublishInv, OwnNotify, BusInv, LocalsSet
<1>13. NoticesTrue'
  BY <1>1, <1>2, <1>3, <1>4, Kinds DEF PublishInv, NoticesTrue
<1> QED
  BY <1>5, <1>6, <1>7, <1>8, <1>9, <1>10, <1>11, <1>12, <1>13 DEF PublishInv

(* A requester begins to wait on the Notify it has.                        *)
LEMMA PubArmNotified ==
    ASSUME NamesDiffer, PublishInv, PubSubTypeOK', BusInv', NEW t \in Task,
           ArmNotified(t), UNCHANGED callVars
    PROVE  PublishInv'
<1>1. /\ pc[t] = "arm" /\ pc'[t] = "waiting"
      /\ \A u \in Task : u # t => pc'[u] = pc[u]
      /\ UNCHANGED <<workers, memory, present, notifiers, created, addr, msg,
                     ref, got, fate>>
      /\ UNCHANGED <<stage, my_id, job, response>>
  BY DEF ArmNotified, Goto, Leave, callVars, PublishInv, PubSubTypeOK, TypeOK
<1>2. \A p \in Publisher : ReplyAddress(p)' = ReplyAddress(p)
  BY SameNames
<1>3. Started' = Started
  BY SameNames
<1>4. \A a : IsOpen(a)' <=> IsOpen(a)
  BY <1>1, SameOpen, Kinds
     DEF PublishInv, StagesInBus, SendPoints, RequestPoints, InitPoints, RemovePoints
<1>5. StagesInBus'
  BY <1>1, <1>2, <1>3, <1>4, Kinds
     DEF PublishInv, StagesInBus, PubSubTypeOK, SendPoints, RequestPoints,
         InitPoints, RemovePoints
<1>6. Arguments'
  BY <1>1, <1>2, <1>3, <1>4, Kinds DEF PublishInv, Arguments, Sending
<1>7. StartedFirst'
  BY <1>1, <1>2, <1>3, <1>4, Kinds DEF PublishInv, StartedFirst
<1>8. OwnFates'
  BY <1>1, <1>2, <1>3, <1>4, Kinds, Messages
     DEF PublishInv, OwnFates, Answered, PubSubTypeOK, TypeOK
<1>9. RepliesListened'
  BY <1>1, <1>2, <1>3, <1>4, Kinds
     DEF PublishInv, RepliesListened, Replies, Listening
<1>10. OwnQueue'
  BY <1>1, <1>2, <1>3, <1>4, Kinds DEF PublishInv, OwnQueue, Active
<1>11. AddressTables'
  BY <1>1, <1>2, <1>3, <1>4, Kinds DEF PublishInv, AddressTables
<1>12. OwnNotify'
  BY <1>1, <1>2, <1>3, <1>4, Kinds DEF PublishInv, OwnNotify, BusInv, LocalsSet
<1>13. NoticesTrue'
  BY <1>1, <1>2, <1>3, <1>4, Kinds DEF PublishInv, NoticesTrue
<1> QED
  BY <1>5, <1>6, <1>7, <1>8, <1>9, <1>10, <1>11, <1>12, <1>13 DEF PublishInv

(* Whoever locks the queues has not yet changed them.                      *)
LEMMA PubLockMemory ==
    ASSUME NamesDiffer, PublishInv, PubSubTypeOK', BusInv', NEW t \in Task,
           LockMemory(t), UNCHANGED callVars
    PROVE  PublishInv'
<1>1. /\ \/ pc[t] = "init_memory" /\ pc'[t] = "init_notifiers"
         \/ pc[t] = "remove_memory" /\ pc'[t] = "remove_notifiers"
      /\ \A u \in Task : u # t => pc'[u] = pc[u]
      /\ UNCHANGED <<workers, memory, present, notifiers, created, addr, msg,
                     ref, got, fate>>
      /\ UNCHANGED <<stage, my_id, job, response>>
  BY DEF LockMemory, Goto, Leave, callVars, PublishInv, PubSubTypeOK, TypeOK
<1>2. \A p \in Publisher : ReplyAddress(p)' = ReplyAddress(p)
  BY SameNames
<1>3. Started' = Started
  BY SameNames
<1>4. \A a : IsOpen(a)' <=> IsOpen(a)
  BY <1>1, SameOpen, Kinds
     DEF PublishInv, StagesInBus, SendPoints, RequestPoints, InitPoints, RemovePoints
<1>5. StagesInBus'
  BY <1>1, <1>2, <1>3, <1>4, Kinds
     DEF PublishInv, StagesInBus, PubSubTypeOK, SendPoints, RequestPoints,
         InitPoints, RemovePoints
<1>6. Arguments'
  BY <1>1, <1>2, <1>3, <1>4, Kinds DEF PublishInv, Arguments, Sending
<1>7. StartedFirst'
  BY <1>1, <1>2, <1>3, <1>4, Kinds DEF PublishInv, StartedFirst
<1>8. OwnFates'
  BY <1>1, <1>2, <1>3, <1>4, Kinds, Messages
     DEF PublishInv, OwnFates, Answered, PubSubTypeOK, TypeOK
<1>9. RepliesListened'
  BY <1>1, <1>2, <1>3, <1>4, Kinds
     DEF PublishInv, RepliesListened, Replies, Listening
<1>10. OwnQueue'
  BY <1>1, <1>2, <1>3, <1>4, Kinds DEF PublishInv, OwnQueue, Active
<1>11. AddressTables'
  BY <1>1, <1>2, <1>3, <1>4, Kinds DEF PublishInv, AddressTables
<1>12. OwnNotify'
  BY <1>1, <1>2, <1>3, <1>4, Kinds DEF PublishInv, OwnNotify, BusInv, LocalsSet
<1>13. NoticesTrue'
  BY <1>1, <1>2, <1>3, <1>4, Kinds DEF PublishInv, NoticesTrue
<1> QED
  BY <1>5, <1>6, <1>7, <1>8, <1>9, <1>10, <1>11, <1>12, <1>13 DEF PublishInv

(* The message of a sender is claimed, and has not been seen by others.    *)
LEMMA PubClaimWorker ==
    ASSUME NamesDiffer, PublishInv, PubSubTypeOK', BusInv', NEW t \in Task,
           ClaimWorker(t), UNCHANGED callVars
    PROVE  PublishInv'
<1>1. /\ pc[t] = "claim" /\ pc'[t] = "push"
      /\ \A u \in Task : u # t => pc'[u] = pc[u]
      /\ UNCHANGED <<memory, present, notifiers, created, addr, msg, ref, got>>
      /\ UNCHANGED <<stage, my_id, job, response>>
      /\ fate'[msg[t]] = "claimed" /\ \A m \in Message : m # msg[t] => fate'[m] = fate[m]
      /\ msg[t] \in Message /\ fate[msg[t]] = "sending"
  BY
     DEF ClaimWorker, Goto, Leave, callVars, PublishInv, PubSubTypeOK, TypeOK,
         BusInv, LocalsSet, FateKnown, Sending
<1>2. \A p \in Publisher : ReplyAddress(p)' = ReplyAddress(p)
  BY SameNames
<1>3. Started' = Started
  BY SameNames
<1>4. \A a : IsOpen(a)' <=> IsOpen(a)
  BY <1>1, SameOpen, Kinds
     DEF PublishInv, StagesInBus, SendPoints, RequestPoints, InitPoints, RemovePoints
<1>5. StagesInBus'
  BY <1>1, <1>2, <1>3, <1>4, Kinds
     DEF PublishInv, StagesInBus, PubSubTypeOK, SendPoints, RequestPoints,
         InitPoints, RemovePoints
<1>6. Arguments'
  BY <1>1, <1>2, <1>3, <1>4, Kinds DEF PublishInv, Arguments, Sending
<1>7. StartedFirst'
  BY <1>1, <1>2, <1>3, <1>4, Kinds DEF PublishInv, StartedFirst
<1>8. OwnFates'
  BY <1>1, <1>2, <1>3, <1>4, Kinds, Messages
     DEF PublishInv, OwnFates, Answered, PubSubTypeOK, TypeOK
<1>9. RepliesListened'
  BY <1>1, <1>2, <1>3, <1>4, Kinds
     DEF PublishInv, RepliesListened, Replies, Listening
<1>10. OwnQueue'
  BY <1>1, <1>2, <1>3, <1>4, Kinds DEF PublishInv, OwnQueue, Active
<1>11. AddressTables'
  BY <1>1, <1>2, <1>3, <1>4, Kinds DEF PublishInv, AddressTables
<1>12. OwnNotify'
  BY <1>1, <1>2, <1>3, <1>4, Kinds DEF PublishInv, OwnNotify, BusInv, LocalsSet
<1>13. NoticesTrue'
  BY <1>1, <1>2, <1>3, <1>4, Kinds DEF PublishInv, NoticesTrue
<1> QED
  BY <1>5, <1>6, <1>7, <1>8, <1>9, <1>10, <1>11, <1>12, <1>13 DEF PublishInv

(* A sender clones the Notify of its address.                              *)
LEMMA PubLookupNotifier ==
    ASSUME NamesDiffer, PublishInv, PubSubTypeOK', BusInv', NEW t \in Task,
           LookupNotifier(t), UNCHANGED callVars
    PROVE  PublishInv'
<1>1. /\ pc[t] = "lookup" /\ pc'[t] = "notify"
      /\ \A u \in Task : u # t => pc'[u] = pc[u]
      /\ UNCHANGED <<workers, memory, present, notifiers, created, addr, msg,
                     got, fate>>
      /\ UNCHANGED <<stage, my_id, job, response>>
      /\ ref'[t] = notifiers[addr[t]] /\ \A u \in Task : u # t => ref'[u] = ref[u]
  BY DEF LookupNotifier, Goto, Leave, callVars, PublishInv, PubSubTypeOK, TypeOK
<1>2. \A p \in Publisher : ReplyAddress(p)' = ReplyAddress(p)
  BY SameNames
<1>3. Started' = Started
  BY SameNames
<1>4. \A a : IsOpen(a)' <=> IsOpen(a)
  BY <1>1, SameOpen, Kinds
     DEF PublishInv, StagesInBus, SendPoints, RequestPoints, InitPoints, RemovePoints
<1>5. StagesInBus'
  BY <1>1, <1>2, <1>3, <1>4, Kinds
     DEF PublishInv, StagesInBus, PubSubTypeOK, SendPoints, RequestPoints,
         InitPoints, RemovePoints
<1>6. Arguments'
  BY <1>1, <1>2, <1>3, <1>4, Kinds DEF PublishInv, Arguments, Sending
<1>7. StartedFirst'
  BY <1>1, <1>2, <1>3, <1>4, Kinds DEF PublishInv, StartedFirst
<1>8. OwnFates'
  BY <1>1, <1>2, <1>3, <1>4, Kinds, Messages
     DEF PublishInv, OwnFates, Answered, PubSubTypeOK, TypeOK
<1>9. RepliesListened'
  BY <1>1, <1>2, <1>3, <1>4, Kinds
     DEF PublishInv, RepliesListened, Replies, Listening
<1>10. OwnQueue'
  BY <1>1, <1>2, <1>3, <1>4, Kinds DEF PublishInv, OwnQueue, Active
<1>11. AddressTables'
  BY <1>1, <1>2, <1>3, <1>4, Kinds DEF PublishInv, AddressTables
<1>12. OwnNotify'
  BY <1>1, <1>2, <1>3, <1>4, Kinds DEF PublishInv, OwnNotify, BusInv, LocalsSet
<1>13. NoticesTrue'
  BY <1>1, <1>2, <1>3, <1>4, Kinds DEF PublishInv, NoticesTrue
<1> QED
  BY <1>5, <1>6, <1>7, <1>8, <1>9, <1>10, <1>11, <1>12, <1>13 DEF PublishInv

(* A requester clones the Notify of its address.                           *)
LEMMA PubFetchNotifier ==
    ASSUME NamesDiffer, PublishInv, PubSubTypeOK', BusInv', NEW t \in Task,
           FetchNotifier(t), UNCHANGED callVars
    PROVE  PublishInv'
<1>1. /\ pc[t] = "fetch" /\ pc'[t] = "arm"
      /\ \A u \in Task : u # t => pc'[u] = pc[u]
      /\ UNCHANGED <<workers, memory, present, notifiers, created, addr, msg,
                     got, fate>>
      /\ UNCHANGED <<stage, my_id, job, response>>
      /\ ref'[t] = notifiers[addr[t]] /\ \A u \in Task : u # t => ref'[u] = ref[u]
  BY DEF FetchNotifier, Goto, Leave, callVars, PublishInv, PubSubTypeOK, TypeOK
<1>2. \A p \in Publisher : ReplyAddress(p)' = ReplyAddress(p)
  BY SameNames
<1>3. Started' = Started
  BY SameNames
<1>4. \A a : IsOpen(a)' <=> IsOpen(a)
  BY <1>1, SameOpen, Kinds
     DEF PublishInv, StagesInBus, SendPoints, RequestPoints, InitPoints, RemovePoints
<1>5. StagesInBus'
  BY <1>1, <1>2, <1>3, <1>4, Kinds
     DEF PublishInv, StagesInBus, PubSubTypeOK, SendPoints, RequestPoints,
         InitPoints, RemovePoints
<1>6. Arguments'
  BY <1>1, <1>2, <1>3, <1>4, Kinds DEF PublishInv, Arguments, Sending
<1>7. StartedFirst'
  BY <1>1, <1>2, <1>3, <1>4, Kinds DEF PublishInv, StartedFirst
<1>8. OwnFates'
  BY <1>1, <1>2, <1>3, <1>4, Kinds, Messages
     DEF PublishInv, OwnFates, Answered, PubSubTypeOK, TypeOK
<1>9. RepliesListened'
  BY <1>1, <1>2, <1>3, <1>4, Kinds
     DEF PublishInv, RepliesListened, Replies, Listening
<1>10. OwnQueue'
  BY <1>1, <1>2, <1>3, <1>4, Kinds DEF PublishInv, OwnQueue, Active
<1>11. AddressTables'
  BY <1>1, <1>2, <1>3, <1>4, Kinds DEF PublishInv, AddressTables
<1>12. OwnNotify'
  BY <1>1, <1>2, <1>3, <1>4, Kinds DEF PublishInv, OwnNotify, BusInv, LocalsSet
<1>13. NoticesTrue'
  BY <1>1, <1>2, <1>3, <1>4, Kinds DEF PublishInv, NoticesTrue
<1> QED
  BY <1>5, <1>6, <1>7, <1>8, <1>9, <1>10, <1>11, <1>12, <1>13 DEF PublishInv

(* A requester that finds messages goes on to pop one.                     *)
LEMMA PubReadLength ==
    ASSUME NamesDiffer, PublishInv, PubSubTypeOK', BusInv', NEW t \in Task,
           ReadLength(t), UNCHANGED callVars
    PROVE  PublishInv'
<1>1. /\ pc[t] = "measure" /\ pc'[t] = (IF memory[addr[t]] # <<>> THEN "pop" ELSE "fetch")
      /\ \A u \in Task : u # t => pc'[u] = pc[u]
      /\ UNCHANGED <<workers, memory, present, notifiers, created, addr, msg,
                     ref, got, fate>>
      /\ UNCHANGED <<stage, my_id, job, response>>
  BY DEF ReadLength, Goto, Leave, callVars, PublishInv, PubSubTypeOK, TypeOK
<1>2. \A p \in Publisher : ReplyAddress(p)' = ReplyAddress(p)
  BY SameNames
<1>3. Started' = Started
  BY SameNames
<1>4. \A a : IsOpen(a)' <=> IsOpen(a)
  BY <1>1, SameOpen, Kinds
     DEF PublishInv, StagesInBus, SendPoints, RequestPoints, InitPoints, RemovePoints
<1>5. StagesInBus'
  BY <1>1, <1>2, <1>3, <1>4, Kinds
     DEF PublishInv, StagesInBus, PubSubTypeOK, SendPoints, RequestPoints,
         InitPoints, RemovePoints
<1>6. Arguments'
  BY <1>1, <1>2, <1>3, <1>4, Kinds DEF PublishInv, Arguments, Sending
<1>7. StartedFirst'
  BY <1>1, <1>2, <1>3, <1>4, Kinds DEF PublishInv, StartedFirst
<1>8. OwnFates'
  BY <1>1, <1>2, <1>3, <1>4, Kinds, Messages
     DEF PublishInv, OwnFates, Answered, PubSubTypeOK, TypeOK
<1>9. RepliesListened'
  BY <1>1, <1>2, <1>3, <1>4, Kinds
     DEF PublishInv, RepliesListened, Replies, Listening
<1>10. OwnQueue'
  BY <1>1, <1>2, <1>3, <1>4, Kinds DEF PublishInv, OwnQueue, Active
<1>11. AddressTables'
  BY <1>1, <1>2, <1>3, <1>4, Kinds DEF PublishInv, AddressTables
<1>12. OwnNotify'
  BY <1>1, <1>2, <1>3, <1>4, Kinds DEF PublishInv, OwnNotify, BusInv, LocalsSet
<1>13. NoticesTrue'
  BY <1>1, <1>2, <1>3, <1>4, Kinds DEF PublishInv, NoticesTrue
<1> QED
  BY <1>5, <1>6, <1>7, <1>8, <1>9, <1>10, <1>11, <1>12, <1>13 DEF PublishInv

(* initialize returns.                                                     *)
LEMMA PubFirstTick ==
    ASSUME NamesDiffer, PublishInv, PubSubTypeOK', BusInv', NEW t \in Task,
           FirstTick(t), UNCHANGED callVars
    PROVE  PublishInv'
<1>1. /\ pc[t] = "init_tick" /\ pc'[t] = "idle"
      /\ \A u \in Task : u # t => pc'[u] = pc[u]
      /\ UNCHANGED <<workers, memory, present, notifiers, created, msg, got, fate>>
      /\ UNCHANGED <<stage, my_id, job, response>>
      /\ \A u \in Task : u # t => addr'[u] = addr[u] /\ ref'[u] = ref[u]
  BY DEF FirstTick, Goto, Leave, callVars, PublishInv, PubSubTypeOK, TypeOK
<1>2. \A p \in Publisher : ReplyAddress(p)' = ReplyAddress(p)
  BY SameNames
<1>3. Started' = Started
  BY SameNames
<1>4. \A a : IsOpen(a)' <=> IsOpen(a)
  BY <1>1, SameOpen, Kinds
     DEF PublishInv, StagesInBus, SendPoints, RequestPoints, InitPoints, RemovePoints
<1>5. StagesInBus'
  BY <1>1, <1>2, <1>3, <1>4, Kinds
     DEF PublishInv, StagesInBus, PubSubTypeOK, SendPoints, RequestPoints,
         InitPoints, RemovePoints
<1>6. Arguments'
  BY <1>1, <1>2, <1>3, <1>4, Kinds DEF PublishInv, Arguments, Sending
<1>7. StartedFirst'
  BY <1>1, <1>2, <1>3, <1>4, Kinds DEF PublishInv, StartedFirst
<1>8. OwnFates'
  <2>1. \A p \in Publisher :
           /\ pc'[p] = "credit" <=> pc[p] = "credit"
           /\ stage[p] = "request" => (pc'[p] = "idle" <=> pc[p] = "idle")
    BY <1>1, Kinds, Admin DEF PublishInv, InitPoints
  <2>2. pc'[Supervisor] = "credit" <=> pc[Supervisor] = "credit"
    BY <1>1, Kinds
  <2> QED
    BY <1>1, <2>1, <2>2 DEF PublishInv, OwnFates, Answered
<1>9. RepliesListened'
  BY <1>1, <1>2, <1>3, <1>4, Kinds
     DEF PublishInv, RepliesListened, Replies, Listening, StagesInBus,
         SendPoints, RequestPoints, InitPoints, RemovePoints
<1>10. OwnQueue'
  BY <1>1, <1>2, <1>3, <1>4, Kinds DEF PublishInv, OwnQueue, Active
<1>11. AddressTables'
  BY <1>1, <1>2, <1>3, <1>4, Kinds DEF PublishInv, AddressTables
<1>12. OwnNotify'
  BY <1>1, <1>2, <1>3, <1>4, Kinds DEF PublishInv, OwnNotify, BusInv, LocalsSet
<1>13. NoticesTrue'
  BY <1>1, <1>2, <1>3, <1>4, Kinds DEF PublishInv, NoticesTrue
<1> QED
  BY <1>5, <1>6, <1>7, <1>8, <1>9, <1>10, <1>11, <1>12, <1>13 DEF PublishInv

(* A reply is pushed only to the address of its publisher.                 *)
LEMMA PubPushMessage ==
    ASSUME NamesDiffer, PublishInv, PubSubTypeOK', BusInv', NEW t \in Task,
           PushMessage(t), UNCHANGED callVars
    PROVE  PublishInv'
<1>1. /\ pc[t] = "push" /\ pc'[t] = "lookup"
      /\ \A u \in Task : u # t => pc'[u] = pc[u]
      /\ UNCHANGED <<workers, notifiers, created, addr, ref, got>>
      /\ UNCHANGED <<stage, my_id, job, response>>
      /\ memory' = [memory EXCEPT ![addr[t]] = Append(@, msg[t])]
      /\ present' = present \cup {addr[t]}
      /\ fate'[msg[t]] = "queued" /\ \A m \in Message : m # msg[t] => fate'[m] = fate[m]
      /\ msg[t] \in Message /\ fate[msg[t]] = "claimed"
      /\ \A u \in Task : u # t => msg'[u] = msg[u]
  BY
     DEF PushMessage, Goto, Leave, callVars, PublishInv, PubSubTypeOK, TypeOK,
         BusInv, LocalsSet, FateKnown, Sending
<1>2. \A p \in Publisher : ReplyAddress(p)' = ReplyAddress(p)
  BY SameNames
<1>3. Started' = Started
  BY SameNames
<1>4. \A a : IsOpen(a)' <=> IsOpen(a)
  BY <1>1, SameOpen, Kinds
     DEF PublishInv, StagesInBus, SendPoints, RequestPoints, InitPoints, RemovePoints
<1> DEFINE a == addr[t]
<1>5. a \in Address /\ a \in present
  BY <1>1, UsedIsOpen DEF SendPoints, PublishInv, AddressTables
<1>6. present' = present
  BY <1>1, <1>5
<1>7. /\ \A b \in Address : b # a => memory'[b] = memory[b]
      /\ memory'[a] # <<>>
      /\ Range(memory'[a]) = Range(memory[a]) \cup {msg[t]}
  <2>1. memory[a] \in Seq(Message) /\ memory'[a] = Append(memory[a], msg[t])
    BY <1>1, <1>5 DEF PublishInv, PubSubTypeOK, TypeOK
  <2>2. \A b \in Address : b # a => memory'[b] = memory[b]
    BY <1>1 DEF PublishInv, PubSubTypeOK, TypeOK
  <2>3. memory'[a] # <<>>
    BY <1>1, <2>1
  <2> QED
    BY <1>1, <2>1, <2>2, <2>3, AppendRange
<1>8. StagesInBus'
  BY <1>1, <1>2, <1>3, <1>4, Kinds
     DEF PublishInv, StagesInBus, PubSubTypeOK, SendPoints, RequestPoints,
         InitPoints, RemovePoints
<1>9. Arguments'
  BY <1>1, <1>2, <1>3, <1>4, Kinds DEF PublishInv, Arguments, Sending
<1>10. StartedFirst'
  BY <1>1, <1>2, <1>3, <1>4, Kinds DEF PublishInv, StartedFirst
<1>11. OwnFates'
  BY <1>1, <1>2, <1>3, <1>4, Kinds, Messages
     DEF PublishInv, OwnFates, Answered, PubSubTypeOK, TypeOK
<1>12. RepliesListened'
  BY <1>1, <1>2, <1>3, <1>4, Kinds
     DEF PublishInv, RepliesListened, Replies, Listening
<1>13. OwnQueue'
  <2> SUFFICES ASSUME NEW p \in Publisher, Active(p),
                      NEW m \in Range(memory'[ReplyAddress(p)])
               PROVE  m = ReplyTo(p)
    BY <1>1, <1>2 DEF OwnQueue, Active
  <2>1. CASE ReplyAddress(p) # a
    BY <1>7, <2>1, OwnAddresses DEF PublishInv, OwnQueue, Active
  <2>2. CASE ReplyAddress(p) = a
    <3>1. msg[t] = ReplyTo(p)
      <4>1. PICK q \in Publisher : /\ Listening(q) /\ a = ReplyAddress(q)
                                   /\ msg[t] = ReplyTo(q)
        BY <1>1, <2>2, Sender, OwnAddresses DEF PublishInv, SendPoints, Sending
      <4>2. Active(q)
        BY <4>1 DEF Listening, Active
      <4> QED
        BY <2>2, <4>1, <4>2, OwnAddresses DEF PublishInv
    <3> QED
      BY <1>7, <2>2, <3>1 DEF PublishInv, OwnQueue, Active
  <2> QED
    BY <2>1, <2>2
<1>14. AddressTables'
  BY <1>1, <1>4, <1>5, <1>6, <1>7 DEF PublishInv, AddressTables
<1>15. OwnNotify'
  BY <1>1, <1>2, <1>3, <1>4, Kinds DEF PublishInv, OwnNotify, BusInv, LocalsSet
<1>16. NoticesTrue'
  <2>1. \A b \in Address : memory[b] # <<>> => memory'[b] # <<>>
    BY <1>7
  <2>2. ASSUME NEW u \in Task, pc'[u] \in {"lookup", "notify"}, u # t
        PROVE  \/ memory'[addr[u]] # <<>>
               \/ \E v \in Task : pc'[v] = "credit" /\ addr[v] = addr[u]
    <3>1. pc[u] \in {"lookup", "notify"} /\ addr[u] \in Address
      BY <1>1, <2>2, UsedIsOpen DEF SendPoints
    <3> QED
      BY <1>1, <2>1, <3>1 DEF PublishInv, NoticesTrue
  <2>3. ASSUME NEW u \in Task, pc'[u] = "pop" PROVE memory'[addr[u]] # <<>>
    <3>1. pc[u] = "pop" /\ addr[u] \in Address
      BY <1>1, <2>3, UsedIsOpen DEF RequestPoints
    <3> QED
      BY <2>1, <3>1 DEF PublishInv, NoticesTrue
  <2> QED
    BY <1>1, <1>7, <2>2, <2>3 DEF NoticesTrue
<1> QED
  BY <1>8, <1>9, <1>10, <1>11, <1>12, <1>13, <1>14, <1>15, <1>16 DEF PublishInv

(* The requester of an address that is waited for has not yet popped, so   *)
(* what the sender has pushed is still there.                              *)
LEMMA PubNotifyWaiters ==
    ASSUME NamesDiffer, PublishInv, PubSubTypeOK', BusInv', NEW t \in Task,
           NotifyWaiters(t), UNCHANGED callVars
    PROVE  PublishInv'
<1>1. /\ pc[t] = "notify" /\ pc'[t] = "idle"
      /\ \A u \in Task : u # t =>
             /\ \/ pc'[u] = pc[u]
                \/ pc[u] = "waiting" /\ ref[u] = ref[t] /\ pc'[u] = "pop"
             /\ addr'[u] = addr[u] /\ ref'[u] = ref[u]
      /\ UNCHANGED <<workers, memory, present, notifiers, created, msg, got, fate>>
      /\ UNCHANGED <<stage, my_id, job, response>>
  BY DEF NotifyWaiters, callVars, PublishInv, PubSubTypeOK, TypeOK
<1>2. \A p \in Publisher : ReplyAddress(p)' = ReplyAddress(p)
  BY SameNames
<1>3. Started' = Started
  BY SameNames
<1>4. \A a : IsOpen(a)' <=> IsOpen(a)
  BY <1>1, SameOpen, Kinds
     DEF PublishInv, StagesInBus, SendPoints, RequestPoints, InitPoints, RemovePoints
<1>5. StagesInBus'
  BY <1>1, <1>2, <1>3, <1>4, Kinds
     DEF PublishInv, StagesInBus, PubSubTypeOK, SendPoints, RequestPoints,
         InitPoints, RemovePoints
<1>6. Arguments'
  BY <1>1, <1>2, <1>3, <1>4, Kinds DEF PublishInv, Arguments, Sending
<1>7. StartedFirst'
  BY <1>1, <1>2, <1>3, <1>4, Kinds DEF PublishInv, StartedFirst
<1>8. OwnFates'
  <2>1. \A p \in Publisher :
           /\ pc'[p] = "credit" <=> pc[p] = "credit"
           /\ stage[p] = "request" => (pc'[p] = "idle" <=> pc[p] = "idle")
    BY <1>1, Kinds, Sender DEF PublishInv, SendPoints
  <2>2. pc'[Supervisor] = "credit" <=> pc[Supervisor] = "credit"
    BY <1>1, Kinds
  <2> QED
    BY <1>1, <2>1, <2>2 DEF PublishInv, OwnFates, Answered
<1>9. RepliesListened'
  BY <1>1, <1>2, <1>3, <1>4, Kinds
     DEF PublishInv, RepliesListened, Replies, Listening, StagesInBus,
         SendPoints, RequestPoints, InitPoints, RemovePoints
<1>10. OwnQueue'
  BY <1>1, <1>2, <1>3, <1>4, Kinds DEF PublishInv, OwnQueue, Active
<1>11. AddressTables'
  BY <1>1, <1>2, <1>3, <1>4, Kinds DEF PublishInv, AddressTables
<1>12. OwnNotify'
  BY <1>1, <1>2, <1>3, <1>4, Kinds DEF PublishInv, OwnNotify, BusInv, LocalsSet
<1>13. NoticesTrue'
  <2>1. ASSUME NEW u \in Task, pc'[u] \in {"lookup", "notify"}
        PROVE  \/ memory'[addr'[u]] # <<>>
               \/ \E v \in Task : pc'[v] = "credit" /\ addr'[v] = addr'[u]
    <3>1. pc[u] \in {"lookup", "notify"} /\ u # t
      BY <1>1, <2>1
    <3> QED
      BY <1>1, <3>1 DEF PublishInv, NoticesTrue
  <2>2. ASSUME NEW u \in Task, pc'[u] = "pop" PROVE memory'[addr'[u]] # <<>>
    <3>1. u # t /\ addr'[u] = addr[u]
      BY <1>1, <2>2
    <3>2. CASE pc[u] = "pop"
      BY <1>1, <3>1, <3>2 DEF PublishInv, NoticesTrue
    <3>3. CASE pc[u] = "waiting" /\ ref[u] = ref[t]
      <4>1. notifiers[addr[u]] = notifiers[addr[t]]
        BY <1>1, <3>3 DEF PublishInv, OwnNotify
      <4>2. addr[u] \in Address /\ addr[t] \in Address /\ notifiers[addr[t]] # 0
        BY <1>1, <3>3, UsedIsOpen
           DEF SendPoints, RequestPoints, PublishInv, AddressTables
      <4>3. addr[u] = addr[t]
        BY <4>1, <4>2 DEF PublishInv, OwnNotify
      <4>4. ASSUME NEW v \in Task, pc[v] = "credit", addr[v] = addr[t] PROVE FALSE
        BY <3>3, <4>3, <4>4, OneRequester DEF RequestPoints
      <4> QED
        BY <1>1, <3>1, <4>3, <4>4 DEF PublishInv, NoticesTrue
    <3> QED
      BY <1>1, <2>2, <3>1, <3>2, <3>3
  <2> QED
    BY <2>1, <2>2 DEF NoticesTrue
<1> QED
  BY <1>5, <1>6, <1>7, <1>8, <1>9, <1>10, <1>11, <1>12, <1>13 DEF PublishInv

(* A pop finds a message: a publisher its own reply, since nothing else is  *)
(* queued at its address.                                                  *)
LEMMA PubPopOne ==
    ASSUME NamesDiffer, PublishInv, PubSubTypeOK', BusInv', NEW t \in Task,
           PopOne(t), UNCHANGED callVars
    PROVE  PublishInv'
<1>1. /\ pc[t] = "pop" /\ pc'[t] = "credit"
      /\ \A u \in Task : u # t => pc'[u] = pc[u]
      /\ UNCHANGED <<workers, notifiers, created, addr, msg, ref>>
      /\ UNCHANGED <<stage, my_id, job, response>>
      /\ memory[addr[t]] # <<>>
      /\ memory' = [memory EXCEPT ![addr[t]] = Tail(@)]
      /\ present' = present \cup {addr[t]}
      /\ got' = [got EXCEPT ![t] = Head(memory[addr[t]])]
      /\ fate' = [fate EXCEPT ![Head(memory[addr[t]])] = "popped"]
  BY
     DEF PopOne, Goto, Leave, callVars, PublishInv, PubSubTypeOK, TypeOK,
         NoticesTrue
<1>2. \A p \in Publisher : ReplyAddress(p)' = ReplyAddress(p)
  BY SameNames
<1>3. Started' = Started
  BY SameNames
<1>4. \A a : IsOpen(a)' <=> IsOpen(a)
  BY <1>1, SameOpen, Kinds
     DEF PublishInv, StagesInBus, SendPoints, RequestPoints, InitPoints, RemovePoints
<1> DEFINE a == addr[t]
           m == Head(memory[a])
<1>5. a \in Address /\ a \in present
  BY <1>1, UsedIsOpen DEF RequestPoints, PublishInv, AddressTables
<1>6. present' = present
  BY <1>1, <1>5
<1>7. /\ m \in Message /\ m \in Range(memory[a])
      /\ Range(memory'[a]) \subseteq Range(memory[a])
      /\ \A b \in Address : b # a => memory'[b] = memory[b]
  <2>1. memory[a] \in Seq(Message) /\ memory'[a] = Tail(memory[a]) /\ IsInjective(memory[a])
    BY <1>1, <1>5 DEF PublishInv, BusInv, TypeOK, QueuedOnce
  <2>2. \A b \in Address : b # a => memory'[b] = memory[b]
    BY <1>1 DEF PublishInv, BusInv, TypeOK
  <2> QED
    BY <1>1, <2>1, <2>2, PopFirst
<1>8. /\ got'[t] = m /\ \A u \in Task : u # t => got'[u] = got[u]
      /\ fate[m] = "queued" /\ fate'[m] = "popped"
      /\ \A n \in Message : n # m => fate'[n] = fate[n]
  BY <1>1, <1>5, <1>7 DEF PublishInv, BusInv, TypeOK, FateKnown
<1>9. \/ t = Supervisor
      \/ t \in Publisher /\ stage[t] = "request" /\ m = ReplyTo(t)
  BY <1>1, <1>7, Requester DEF RequestPoints, PublishInv, OwnQueue, Active
<1>10. StagesInBus'
  BY <1>1, <1>2, <1>3, <1>4, Kinds
     DEF PublishInv, StagesInBus, PubSubTypeOK, SendPoints, RequestPoints,
         InitPoints, RemovePoints
<1>11. Arguments'
  BY <1>1, <1>2, <1>3, <1>4, Kinds DEF PublishInv, Arguments, Sending
<1>12. StartedFirst'
  BY <1>1, <1>2, <1>3, <1>4, Kinds DEF PublishInv, StartedFirst
<1>13. OwnFates'
  <2> HIDE DEF a, m
  <2>1. \A n \in Message : fate[n] \in {"unsent", "delivered"} => fate'[n] = fate[n]
    BY <1>8
  <2>2. UNCHANGED <<stage, job, response>> /\ pc'[t] = "credit"
    BY <1>1
  <2>3. \A p \in Publisher :
           /\ stage[p] \in {"load", "store", "named", "initialize"}
                 => fate'[RequestOf(p)] = "unsent"
           /\ stage[p] \in {"remove", "returned"} => response[p] = ReplyTo(p)
    BY <2>1, Messages DEF PublishInv, OwnFates
  <2>4. \A p \in Publisher : Answered(p)' => fate'[ReplyTo(p)] = "delivered"
    BY <1>1, <2>1, <2>2, Kinds, Messages DEF PublishInv, OwnFates, Answered
  <2>5. \A p \in Publisher :
           pc'[p] = "credit" \/ (stage[p] = "request" /\ pc'[p] = "idle")
              => got'[p] = ReplyTo(p)
    BY <1>1, <1>8, <1>9, Kinds DEF PublishInv, OwnFates
  <2>6. \A r \in Replica : job[r] # NoMessage => fate'[job[r]] = "delivered"
    BY <2>1 DEF PublishInv, PubSubTypeOK, OwnFates
  <2>7. pc'[Supervisor] = "credit" => got'[Supervisor] # NoMessage
    BY <1>1, <1>7, <1>8, Kinds, Messages DEF PublishInv, OwnFates
  <2>8. pc'[Supervisor] # "credit" /\ got'[Supervisor] # NoMessage
           => fate'[got'[Supervisor]] = "delivered"
    BY <1>1, <1>8, <2>1, Kinds DEF PublishInv, OwnFates, PubSubTypeOK, TypeOK
  <2> QED
    BY <2>2, <2>3, <2>4, <2>5, <2>6, <2>7, <2>8 DEF OwnFates
<1>14. RepliesListened'
  BY <1>1, <1>2, <1>3, <1>4, Kinds
     DEF PublishInv, RepliesListened, Replies, Listening
<1>15. OwnQueue'
  BY <1>1, <1>2, <1>7, OwnAddresses DEF PublishInv, OwnQueue, Active
<1>16. AddressTables'
  BY <1>1, <1>4, <1>5, <1>6, <1>7 DEF PublishInv, AddressTables
<1>17. OwnNotify'
  BY <1>1, <1>2, <1>3, <1>4, Kinds DEF PublishInv, OwnNotify, BusInv, LocalsSet
<1>18. NoticesTrue'
  <2>1. ASSUME NEW u \in Task, pc'[u] \in {"lookup", "notify"}
        PROVE  \/ memory'[addr'[u]] # <<>>
               \/ \E v \in Task : pc'[v] = "credit" /\ addr'[v] = addr'[u]
    <3>1. pc[u] \in {"lookup", "notify"} /\ u # t /\ addr[u] \in Address
      BY <1>1, <2>1, UsedIsOpen DEF SendPoints
    <3>2. CASE addr[u] = a
      BY <1>1, <3>2
    <3>3. CASE addr[u] # a
      BY <1>1, <1>7, <3>1, <3>3 DEF PublishInv, NoticesTrue
    <3> QED
      BY <3>2, <3>3
  <2>2. ASSUME NEW u \in Task, pc'[u] = "pop" PROVE memory'[addr'[u]] # <<>>
    <3>1. pc[u] = "pop" /\ u # t /\ addr[u] \in Address
      BY <1>1, <2>2, UsedIsOpen DEF RequestPoints
    <3>2. addr[u] # a
      BY <1>1, <3>1, OneRequester DEF RequestPoints
    <3> QED
      BY <1>1, <1>7, <3>1, <3>2 DEF PublishInv, NoticesTrue
  <2> QED
    BY <2>1, <2>2 DEF NoticesTrue
<1> QED
  BY <1>10, <1>11, <1>12, <1>13, <1>14, <1>15, <1>16, <1>17, <1>18 DEF PublishInv

(* The sender of a message keeps the worker count until it has notified,   *)
(* so a requester that has popped it cannot return before.                 *)
LEMMA PubCreditWorker ==
    ASSUME NamesDiffer, PublishInv, PubSubTypeOK', BusInv', NEW t \in Task,
           CreditWorker(t), UNCHANGED callVars
    PROVE  PublishInv'
<1>1. /\ pc[t] = "credit" /\ pc'[t] = "idle"
      /\ \A u \in Task : u # t => pc'[u] = pc[u]
      /\ UNCHANGED <<memory, present, notifiers, created, msg, got>>
      /\ UNCHANGED <<stage, my_id, job, response>>
      /\ \A u \in Task : pc[u] \notin {"push", "lookup", "notify"}
      /\ \A u \in Task : u # t => addr'[u] = addr[u] /\ ref'[u] = ref[u]
      /\ got[t] # NoMessage => fate' = [fate EXCEPT ![got[t]] = "delivered"]
  BY DEF CreditWorker, Goto, Leave, callVars, PublishInv, PubSubTypeOK, TypeOK,
         WorkersFree, HoldsWorkers
<1>2. \A p \in Publisher : ReplyAddress(p)' = ReplyAddress(p)
  BY SameNames
<1>3. Started' = Started
  BY SameNames
<1>4. \A a : IsOpen(a)' <=> IsOpen(a)
  BY <1>1, SameOpen, Kinds
     DEF PublishInv, StagesInBus, SendPoints, RequestPoints, InitPoints, RemovePoints
<1>5. \/ t = Supervisor /\ stage[t] = "request" /\ got[t] # NoMessage
      \/ t \in Publisher /\ stage[t] = "request" /\ got[t] = ReplyTo(t)
  BY <1>1, Requester DEF RequestPoints, PublishInv, OwnFates
<1>6. got[t] \in Message /\ got[t] # NoMessage
  BY <1>5, Messages DEF PublishInv, PubSubTypeOK, TypeOK
<1>7. /\ fate[got[t]] = "popped" /\ fate'[got[t]] = "delivered"
      /\ \A n \in Message : n # got[t] => fate'[n] = fate[n]
  BY <1>1, <1>6 DEF PublishInv, BusInv, TypeOK, FateKnown
<1>8. StagesInBus'
  BY <1>1, <1>2, <1>3, <1>4, Kinds
     DEF PublishInv, StagesInBus, PubSubTypeOK, SendPoints, RequestPoints,
         InitPoints, RemovePoints
<1>9. Arguments'
  BY <1>1, <1>2, <1>3, <1>4, Kinds DEF PublishInv, Arguments, Sending
<1>10. StartedFirst'
  BY <1>1, <1>2, <1>3, <1>4, Kinds DEF PublishInv, StartedFirst
<1>11. OwnFates'
  <2>1. \A n \in Message : fate[n] \in {"unsent", "delivered"} => fate'[n] = fate[n]
    BY <1>7
  <2>2. UNCHANGED <<stage, job, response, got>> /\ pc'[t] = "idle"
    BY <1>1
  <2>3. \A p \in Publisher :
           /\ stage[p] \in {"load", "store", "named", "initialize"}
                 => fate'[RequestOf(p)] = "unsent"
           /\ stage[p] \in {"remove", "returned"} => response[p] = ReplyTo(p)
    BY <2>1, Messages DEF PublishInv, OwnFates
  <2>4. \A p \in Publisher : Answered(p)' => fate'[ReplyTo(p)] = "delivered"
    BY <1>1, <1>5, <1>7, <2>1, <2>2, Kinds, Messages
       DEF PublishInv, OwnFates, Answered
  <2>5. \A p \in Publisher :
           pc'[p] = "credit" \/ (stage[p] = "request" /\ pc'[p] = "idle")
              => got[p] = ReplyTo(p)
    BY <1>1, <1>5, Kinds DEF PublishInv, OwnFates
  <2>6. \A r \in Replica : job[r] # NoMessage => fate'[job[r]] = "delivered"
    BY <2>1 DEF PublishInv, PubSubTypeOK, OwnFates
  <2>7. pc'[Supervisor] = "credit" => got[Supervisor] # NoMessage
    BY <1>1, Kinds DEF PublishInv, OwnFates
  <2>8. pc'[Supervisor] # "credit" /\ got[Supervisor] # NoMessage
           => fate'[got[Supervisor]] = "delivered"
    BY <1>1, <1>7, <2>1, Kinds DEF PublishInv, OwnFates, PubSubTypeOK, TypeOK
  <2> QED
    BY <2>2, <2>3, <2>4, <2>5, <2>6, <2>7, <2>8 DEF OwnFates
<1>12. RepliesListened'
  <2> SUFFICES ASSUME NEW r \in Replica, NEW p \in Publisher, Replies(r, p)'
               PROVE  Listening(p)'
    BY DEF RepliesListened
  <2>1. Replies(r, p) /\ Listening(p)
    BY <1>1, Kinds DEF PublishInv, RepliesListened, Replies
  <2>2. CASE p # t
    BY <1>1, <2>1, <2>2, Kinds DEF Listening
  <2>3. CASE p = t
    <3>1. pc[r] \in SendPoints /\ r \in Task
      BY <2>1, Kinds
         DEF Replies, PublishInv, PubSubTypeOK, StagesInBus, ReplicaStages
    <3>2. pc[r] \in {"check", "claim"}
      BY <1>1, <3>1 DEF SendPoints
    <3>3. msg[r] = ReplyTo(p)
      <4>1. PICK q \in Publisher : job[r] = RequestOf(q) /\ msg[r] = ReplyTo(q)
        BY <3>2 DEF PublishInv, Arguments, Sending
      <4> QED
        BY <2>1, <4>1, Messages DEF Replies
    <3>4. fate[ReplyTo(p)] = "sending"
      BY <3>1, <3>2, <3>3 DEF PublishInv, BusInv, FateKnown
    <3> QED
      BY <1>5, <1>7, <2>3, <3>4, Kinds
  <2> QED
    BY <2>2, <2>3
<1>13. OwnQueue'
  BY <1>1, <1>2, <1>3, <1>4, Kinds DEF PublishInv, OwnQueue, Active
<1>14. AddressTables'
  BY <1>1, <1>2, <1>3, <1>4, Kinds DEF PublishInv, AddressTables
<1>15. OwnNotify'
  BY <1>1, <1>2, <1>3, <1>4, Kinds DEF PublishInv, OwnNotify, BusInv, LocalsSet
<1>16. NoticesTrue'
  BY <1>1, Kinds DEF PublishInv, NoticesTrue
<1> QED
  BY <1>8, <1>9, <1>10, <1>11, <1>12, <1>13, <1>14, <1>15, <1>16 DEF PublishInv

(* An address that is inserted or removed has an empty queue: it was not    *)
(* open, or its only reply has been taken.                                 *)
LEMMA QueueEmpty ==
    ASSUME NamesDiffer, PublishInv, NEW t \in Task,
           pc[t] \in {"init_notifiers", "remove_notifiers"}
    PROVE  /\ addr[t] \in Address
           /\ memory[addr[t]] = <<>>
           /\ Range(memory[addr[t]]) = {}
           /\ pc[t] = "init_notifiers" => ~IsOpen(addr[t])
<1> DEFINE a == addr[t]
<1>1. pc[t] \in InitPoints \cup RemovePoints
  BY DEF InitPoints, RemovePoints
<1>2. a \in Address /\ memory[a] \in Seq(Message)
  BY DEF PublishInv, BusInv, LocalsSet, TypeOK
<1>3. ASSUME ~IsOpen(a) PROVE memory[a] = <<>>
  BY <1>2, <1>3 DEF PublishInv, AddressTables
<1>4. ASSUME memory[a] = <<>> PROVE Range(memory[a]) = {}
  BY <1>4 DEF Range
<1>5. CASE t = Supervisor /\ a = Topic /\ stage[t] = "initialize" /\ pc[t] \in InitPoints
  <2>1. ~IsOpen(a) /\ pc[t] = "init_notifiers"
    BY <1>5, OwnAddresses DEF PublishInv, IsOpen, Started, InitPoints, Active
  <2> QED
    BY <1>2, <1>3, <1>4, <2>1
<1>6. CASE t \in Publisher /\ a = ReplyAddress(t) /\ stage[t] = "initialize"
           /\ pc[t] \in InitPoints
  <2>1. ~IsOpen(a) /\ pc[t] = "init_notifiers"
    BY <1>6, OwnAddresses DEF PublishInv, IsOpen, InitPoints, Active
  <2> QED
    BY <1>2, <1>3, <1>4, <2>1
<1>7. CASE t \in Publisher /\ a = ReplyAddress(t) /\ stage[t] = "remove"
           /\ pc[t] \in RemovePoints
  <2>1. ASSUME NEW m \in Range(memory[a]) PROVE FALSE
    <3>1. m = ReplyTo(t)
      BY <1>7, <2>1 DEF PublishInv, OwnQueue, Active
    <3>2. fate[m] = "queued"
      BY <1>2, <2>1 DEF PublishInv, BusInv, FateKnown
    <3>3. fate[ReplyTo(t)] = "delivered"
      BY <1>7 DEF PublishInv, OwnFates, Answered
    <3> QED
      BY <3>1, <3>2, <3>3
  <2>2. Range(memory[a]) = {}
    BY <2>1
  <2>3. 1 \notin DOMAIN memory[a]
    BY <2>2 DEF Range
  <2>4. memory[a] = <<>>
    <3>1. DOMAIN memory[a] = 1..Len(memory[a]) /\ Len(memory[a]) \in Nat
      BY <1>2
    <3> QED
      BY <1>2, <2>3, <3>1
  <2>5. pc[t] # "init_notifiers"
    BY <1>7 DEF RemovePoints
  <2> QED
    BY <1>2, <2>2, <2>4, <2>5
<1> QED
  BY <1>1, <1>5, <1>6, <1>7, Admin

(* An address that is inserted was not there, so nothing is lost with its  *)
(* old queue and nobody holds its old Notify.                              *)
LEMMA PubInsertAddress ==
    ASSUME NamesDiffer, PublishInv, PubSubTypeOK', BusInv', NEW t \in Task,
           InsertAddress(t), UNCHANGED callVars
    PROVE  PublishInv'
<1>1. /\ pc[t] = "init_notifiers" /\ pc'[t] = "init_tick"
      /\ \A u \in Task : u # t => pc'[u] = pc[u]
      /\ UNCHANGED <<workers, addr, msg, ref, got>>
      /\ UNCHANGED <<stage, my_id, job, response>>
      /\ created' = created + 1
      /\ notifiers' = [notifiers EXCEPT ![addr[t]] = created + 1]
      /\ memory' = [memory EXCEPT ![addr[t]] = <<>>]
      /\ present' = present \cup {addr[t]}
      /\ DropQueue(addr[t])
  BY DEF InsertAddress, Goto, Leave, callVars, PublishInv, PubSubTypeOK, TypeOK
<1>2. \A p \in Publisher : ReplyAddress(p)' = ReplyAddress(p)
  BY SameNames
<1>3. Started' = Started
  BY SameNames
<1> DEFINE a == addr[t]
<1>4. \/ t = Supervisor /\ a = Topic /\ stage[t] = "initialize"
      \/ t \in Publisher /\ a = ReplyAddress(t) /\ stage[t] = "initialize"
  BY <1>1, Admin DEF InitPoints, RemovePoints
<1>5. a \in Address /\ ~IsOpen(a) /\ memory[a] = <<>> /\ Range(memory[a]) = {}
  BY <1>1, QueueEmpty
<1>6. UNCHANGED memory
  BY <1>1, <1>5 DEF PublishInv, PubSubTypeOK, TypeOK
<1>7. UNCHANGED fate
  BY <1>1, <1>5 DEF DropQueue, PublishInv, PubSubTypeOK, TypeOK
<1>8. \A b : IsOpen(b)' <=> IsOpen(b) \/ b = a
  <2>1. CASE t = Supervisor /\ a = Topic /\ stage[t] = "initialize"
    <3>1. \A p \in Publisher : pc'[p] = pc[p]
      BY <1>1, <2>1, Kinds
    <3>2. Started' = Started /\ stage' = stage /\ pc'[Supervisor] = "init_tick"
      BY <1>1, <1>3, <2>1
    <3> QED
      BY <1>2, <2>1, <3>1, <3>2 DEF IsOpen
  <2>2. CASE t \in Publisher /\ a = ReplyAddress(t) /\ stage[t] = "initialize"
    <3>1. pc'[Supervisor] = pc[Supervisor] /\ Started' = Started /\ stage' = stage
      BY <1>1, <1>3, <2>2, Kinds
    <3>2. \A p \in Publisher : p # t => pc'[p] = pc[p]
      BY <1>1, Kinds
    <3>3. pc'[t] = "init_tick" /\ a = ReplyAddress(t)'
      BY <1>1, <1>2, <2>2
    <3> QED
      BY <1>2, <2>2, <3>1, <3>2, <3>3 DEF IsOpen
  <2> QED
    BY <1>4, <2>1, <2>2
<1>9. \A u \in Task : pc[u] \in SendPoints \cup RequestPoints => addr[u] # a
  BY <1>1, NotInUse
<1>10. StagesInBus'
  BY <1>1, <1>2, <1>3, <1>8, Kinds
     DEF PublishInv, StagesInBus, PubSubTypeOK, SendPoints, RequestPoints,
         InitPoints, RemovePoints
<1>11. Arguments'
  BY <1>1, <1>2, <1>3, <1>8, Kinds DEF PublishInv, Arguments, Sending
<1>12. StartedFirst'
  BY <1>1, <1>2, <1>3, <1>8, Kinds DEF PublishInv, StartedFirst
<1>13. OwnFates'
  BY <1>1, <1>7, Kinds DEF PublishInv, OwnFates, Answered
<1>14. RepliesListened'
  BY <1>1, <1>4, Kinds DEF PublishInv, RepliesListened, Replies, Listening
<1>15. OwnQueue'
  BY <1>1, <1>2, <1>6 DEF PublishInv, OwnQueue, Active
<1>16. AddressTables'
  <2>1. \A b \in Address : notifiers'[b] = IF b = a THEN created + 1 ELSE notifiers[b]
    BY <1>1 DEF PublishInv, PubSubTypeOK, TypeOK
  <2>2. created + 1 # 0
    BY DEF PublishInv, PubSubTypeOK, TypeOK
  <2>3. \A b \in Address : b \in present' <=> b \in present \/ b = a
    BY <1>1
  <2> HIDE DEF a
  <2> QED
    BY <1>8, <1>5, <1>6, <2>1, <2>2, <2>3 DEF PublishInv, AddressTables
<1>17. OwnNotify'
  <2>1. \A b \in Address : notifiers'[b] = IF b = a THEN created + 1 ELSE notifiers[b]
    BY <1>1 DEF PublishInv, PubSubTypeOK, TypeOK
  <2>2. created \in Nat /\ \A b \in Address : notifiers[b] \in Nat /\ notifiers[b] <= created
    BY DEF PublishInv, PubSubTypeOK, TypeOK, OwnNotify
  <2>3. ASSUME NEW u \in Task, pc'[u] \in {"notify", "arm", "waiting"}
        PROVE  ref'[u] = notifiers'[addr'[u]]
    <3>1. pc[u] = pc'[u]
      BY <1>1, <2>3
    <3>2. addr[u] \in Address /\ addr[u] # a
      BY <1>9, <2>3, <3>1, UsedIsOpen DEF SendPoints, RequestPoints
    <3> QED
      BY <1>1, <2>1, <2>3, <3>1, <3>2 DEF PublishInv, OwnNotify
  <2> HIDE DEF a
  <2>4. \A b \in Address : notifiers'[b] <= created'
    BY <1>1, <2>1, <2>2
  <2>5. \A b, c \in Address : notifiers'[b] = notifiers'[c] => b = c \/ notifiers'[b] = 0
    BY <2>1, <2>2 DEF PublishInv, OwnNotify
  <2> QED
    BY <2>3, <2>4, <2>5 DEF OwnNotify
<1>18. NoticesTrue'
  BY <1>1, <1>6, Kinds DEF PublishInv, NoticesTrue
<1> QED
  BY <1>10, <1>11, <1>12, <1>13, <1>14, <1>15, <1>16, <1>17, <1>18 DEF PublishInv

(* A reply address is removed when its reply has been taken and its sender *)
(* has notified.                                                           *)
LEMMA PubRemoveAddress ==
    ASSUME NamesDiffer, PublishInv, PubSubTypeOK', BusInv', NEW t \in Task,
           RemoveAddress(t), UNCHANGED callVars
    PROVE  PublishInv'
<1>1. /\ pc[t] = "remove_notifiers" /\ pc'[t] = "idle"
      /\ \A u \in Task : u # t => pc'[u] = pc[u]
      /\ UNCHANGED <<workers, created, msg, got>>
      /\ UNCHANGED <<stage, my_id, job, response>>
      /\ notifiers' = [notifiers EXCEPT ![addr[t]] = 0]
      /\ memory' = [memory EXCEPT ![addr[t]] = <<>>]
      /\ present' = present \ {addr[t]}
      /\ DropQueue(addr[t])
      /\ \A u \in Task : u # t => addr'[u] = addr[u] /\ ref'[u] = ref[u]
  BY DEF RemoveAddress, Goto, Leave, callVars, PublishInv, PubSubTypeOK, TypeOK
<1>2. \A p \in Publisher : ReplyAddress(p)' = ReplyAddress(p)
  BY SameNames
<1>3. Started' = Started
  BY SameNames
<1> DEFINE a == addr[t]
<1>4. t \in Publisher /\ a = ReplyAddress(t) /\ stage[t] = "remove" /\ a \in Address
  BY <1>1, Admin, OwnAddresses DEF InitPoints, RemovePoints, PublishInv, Active
<1>5. memory[a] = <<>> /\ Range(memory[a]) = {}
  BY <1>1, QueueEmpty
<1>6. UNCHANGED memory
  BY <1>1, <1>5 DEF PublishInv, PubSubTypeOK, TypeOK
<1>7. UNCHANGED fate
  BY <1>1, <1>5 DEF DropQueue, PublishInv, PubSubTypeOK, TypeOK
<1>8. \A b : IsOpen(b)' <=> IsOpen(b) /\ b # a
  <2>1. pc'[Supervisor] = pc[Supervisor] /\ Started' = Started /\ stage' = stage
    BY <1>1, <1>3, <1>4, Kinds
  <2>2. \A p \in Publisher :
           p # t => pc'[p] = pc[p] /\ (Active(p) => ReplyAddress(p) # a)
    BY <1>1, <1>4, Kinds, OwnAddresses DEF PublishInv, Active
  <2>3. pc'[t] = "idle" /\ a # Topic
    BY <1>1, <1>4, OwnAddresses DEF PublishInv, Active
  <2> HIDE DEF a
  <2> QED
    BY <1>2, <1>4, <2>1, <2>2, <2>3 DEF IsOpen, Active
<1>9. \A u \in Task : pc[u] \in SendPoints \cup RequestPoints => addr[u] # a
  BY <1>1, NotInUse
<1>10. StagesInBus'
  BY <1>1, <1>2, <1>3, <1>8, Kinds
     DEF PublishInv, StagesInBus, PubSubTypeOK, SendPoints, RequestPoints,
         InitPoints, RemovePoints
<1>11. Arguments'
  BY <1>1, <1>2, <1>3, <1>8, Kinds DEF PublishInv, Arguments, Sending
<1>12. StartedFirst'
  BY <1>1, <1>2, <1>3, <1>8, Kinds DEF PublishInv, StartedFirst
<1>13. OwnFates'
  <2>1. \A p \in Publisher :
           /\ pc'[p] = "credit" <=> pc[p] = "credit"
           /\ stage[p] = "request" => (pc'[p] = "idle" <=> pc[p] = "idle")
    BY <1>1, <1>4, Kinds
  <2>2. pc'[Supervisor] = "credit" <=> pc[Supervisor] = "credit"
    BY <1>1, Kinds
  <2> QED
    BY <1>1, <1>7, <2>1, <2>2 DEF PublishInv, OwnFates, Answered
<1>14. RepliesListened'
  BY <1>1, <1>4, Kinds DEF PublishInv, RepliesListened, Replies, Listening
<1>15. OwnQueue'
  BY <1>1, <1>2, <1>6 DEF PublishInv, OwnQueue, Active
<1>16. AddressTables'
  <2>1. \A b \in Address : notifiers'[b] = IF b = a THEN 0 ELSE notifiers[b]
    BY <1>1 DEF PublishInv, PubSubTypeOK, TypeOK
  <2>2. \A b \in Address : b \in present' <=> b \in present /\ b # a
    BY <1>1
  <2>3. memory'[a] = <<>> /\ \A b \in Address : memory'[b] = memory[b]
    BY <1>1, <1>4, <1>6 DEF PublishInv, PubSubTypeOK, TypeOK
  <2> HIDE DEF a
  <2> QED
    BY <1>8, <2>1, <2>2, <2>3 DEF PublishInv, AddressTables
<1>17. OwnNotify'
  <2>1. \A b \in Address : notifiers'[b] = IF b = a THEN 0 ELSE notifiers[b]
    BY <1>1 DEF PublishInv, PubSubTypeOK, TypeOK
  <2>2. created \in Nat /\ \A b \in Address : notifiers[b] \in Nat /\ notifiers[b] <= created
    BY DEF PublishInv, PubSubTypeOK, TypeOK, OwnNotify
  <2>3. ASSUME NEW u \in Task, pc'[u] \in {"notify", "arm", "waiting"}
        PROVE  ref'[u] = notifiers'[addr'[u]]
    <3>1. pc[u] = pc'[u] /\ u # t
      BY <1>1, <2>3
    <3>2. addr[u] \in Address /\ addr[u] # a
      BY <1>9, <2>3, <3>1, UsedIsOpen DEF SendPoints, RequestPoints
    <3> QED
      BY <1>1, <2>1, <2>3, <3>1, <3>2 DEF PublishInv, OwnNotify
  <2> HIDE DEF a
  <2>4. \A b \in Address : notifiers'[b] <= created'
    BY <1>1, <2>1, <2>2
  <2>5. \A b, c \in Address : notifiers'[b] = notifiers'[c] => b = c \/ notifiers'[b] = 0
    BY <2>1, <2>2 DEF PublishInv, OwnNotify
  <2> QED
    BY <2>3, <2>4, <2>5 DEF OwnNotify
<1>18. NoticesTrue'
  BY <1>1, <1>6, Kinds DEF PublishInv, NoticesTrue
<1> QED
  BY <1>10, <1>11, <1>12, <1>13, <1>14, <1>15, <1>16, <1>17, <1>18 DEF PublishInv

-----------------------------------------------------------------------------
(* Entering a bus operation and going on after one change neither the      *)
(* address table nor what tasks inside of the bus rely on.                 *)
LEMMA CallStep ==
    ASSUME PublishInv, NEW x \in Task, pc[x] = "idle",
           pc'[x] \in {"idle", "check", "measure", "init_memory", "remove_memory"},
           \A u \in Task : u # x => pc'[u] = pc[u] /\ addr'[u] = addr[u],
           UNCHANGED <<memory, present, notifiers, created, ref>>,
           \A a : IsOpen(a)' <=> IsOpen(a)
    PROVE  AddressTables' /\ OwnNotify' /\ NoticesTrue'
<1>1. AddressTables'
  BY DEF PublishInv, AddressTables
<1>2. OwnNotify'
  <2>1. ASSUME NEW t \in Task, pc'[t] \in {"notify", "arm", "waiting"}
        PROVE  ref'[t] = notifiers'[addr'[t]]
    <3>1. t # x
      BY <2>1
    <3> QED
      BY <2>1, <3>1 DEF PublishInv, OwnNotify
  <2> QED
    BY <2>1 DEF PublishInv, OwnNotify
<1>3. NoticesTrue'
  BY DEF PublishInv, NoticesTrue
<1> QED
  BY <1>1, <1>2, <1>3

(* The reply address that a publisher names was not open before.           *)
LEMMA PubLoadId ==
    ASSUME NamesDiffer, PublishInv, PubSubTypeOK', BusInv',
           NamesDiffer', NEW p \in Publisher, LoadId(p)
    PROVE  PublishInv'
<1>1. /\ p \in Task /\ stage[p] = "load" /\ pc[p] = "idle"
      /\ stage'[p] = "store" /\ pc'[p] = "idle"
      /\ \A u \in Task : u # p
            => stage'[u] = stage[u] /\ pc'[u] = pc[u] /\ addr'[u] = addr[u]
      /\ UNCHANGED <<memory, present, notifiers, created, ref, addr, msg, got,
                     fate, job, response>>
      /\ Started /\ \A q \in Publisher : q # p => my_id'[q] = my_id[q]
  BY Kinds DEF LoadId, MoveTo, At, busVars, PublishInv, PubSubTypeOK, TypeOK
<1>2. Started' = Started
  BY <1>1, Kinds DEF Started
<1>3. \A q \in Publisher : q # p => ReplyAddress(q)' = ReplyAddress(q)
  BY <1>1 DEF ReplyAddress
<1>4. \A a : IsOpen(a)' <=> IsOpen(a)
  <2>1. ASSUME NEW a, NEW q \in Publisher, a = ReplyAddress(q)',
               \/ stage'[q] \in {"send", "request"}
               \/ stage'[q] = "initialize" /\ pc'[q] \in {"init_tick", "idle"}
               \/ stage'[q] = "remove" /\ pc'[q] # "idle"
        PROVE  IsOpen(a)
    BY <1>1, <1>3, <2>1, Kinds DEF IsOpen
  <2>2. ASSUME NEW a, NEW q \in Publisher, a = ReplyAddress(q),
               \/ stage[q] \in {"send", "request"}
               \/ stage[q] = "initialize" /\ pc[q] \in {"init_tick", "idle"}
               \/ stage[q] = "remove" /\ pc[q] # "idle"
        PROVE  IsOpen(a)'
    BY <1>1, <1>3, <2>2, Kinds DEF IsOpen
  <2> QED
    BY <1>1, <1>2, <2>1, <2>2, Kinds DEF IsOpen
<1>5. AddressTables' /\ OwnNotify' /\ NoticesTrue'
  BY <1>1, <1>4, CallStep
<1>6. StagesInBus'
  BY <1>1, Kinds
     DEF PublishInv, StagesInBus, SendPoints, RequestPoints, InitPoints,
         RemovePoints
<1>7. Arguments'
  <2>1. ASSUME NEW r \in Replica, NEW q \in Publisher, pc[r] # "idle", job[r] = RequestOf(q)
        PROVE  q # p
    BY <1>1, <2>1 DEF PublishInv, RepliesListened, Replies, Listening
  <2>2. \A r \in Replica :
           pc'[r] # "idle" =>
              \E q \in Publisher : /\ job'[r] = RequestOf(q)
                                   /\ addr'[r] = ReplyAddress(q)'
                                   /\ pc'[r] \in Sending => msg'[r] = ReplyTo(q)
    BY <1>1, <1>3, <2>1, Kinds DEF PublishInv, Arguments
  <2> QED
    BY <1>1, <1>3, <2>2, Kinds DEF PublishInv, Arguments, Sending
<1>8. StartedFirst'
  BY <1>1, <1>2, Kinds DEF PublishInv, StartedFirst
<1>9. OwnFates'
  BY <1>1, Kinds, Messages DEF PublishInv, OwnFates, Answered
<1>10. RepliesListened'
  BY <1>1, <1>3, Kinds DEF PublishInv, RepliesListened, Replies, Listening
<1>11. OwnQueue'
  <2> SUFFICES ASSUME NEW q \in Publisher, Active(q)',
                      NEW m \in Range(memory'[ReplyAddress(q)'])
               PROVE  m = ReplyTo(q)
    BY DEF OwnQueue
  <2>1. CASE q # p
    <3>1. Active(q)
      BY <1>1, <2>1, Kinds DEF Active
    <3> QED
      BY <1>1, <1>3, <2>1, <3>1 DEF PublishInv, OwnQueue
  <2>2. CASE q = p
    <3> DEFINE a == ReplyAddress(p)'
    <3>1. a \in Address /\ a # Topic
      <4>1. my_id'[p] \in 0..MOD - 1
        BY DEF PubSubTypeOK
      <4> QED
        BY <4>1, <1>1, Addresses DEF ReplyAddress
    <3>2. ASSUME NEW s \in Publisher, s # p, Active(s) PROVE a # ReplyAddress(s)
      <4>1. Active(s)' /\ Active(p)' /\ ReplyAddress(s)' = ReplyAddress(s)
        BY <1>1, <1>3, <3>2, Kinds DEF Active
      <4> QED
        BY <3>2, <4>1 DEF NamesDiffer, ReplyAddress
    <3>3. ~IsOpen(a)
      BY <1>1, <3>1, <3>2 DEF IsOpen, Active
    <3>4. memory[a] = <<>>
      BY <3>1, <3>3 DEF PublishInv, AddressTables
    <3>5. memory'[a] = <<>>
      BY <1>1, <3>4
    <3>6. DOMAIN memory'[a] = {}
      BY <3>5
    <3> QED
      BY <2>2, <3>6 DEF Range
  <2> QED
    BY <2>1, <2>2
<1> QED
  BY <1>5, <1>6, <1>7, <1>8, <1>9, <1>10, <1>11 DEF PublishInv

(* Between two bus calls of publish: the next id is stored.                *)
LEMMA PubStoreId ==
    ASSUME NamesDiffer, PublishInv, PubSubTypeOK', BusInv',
           NEW p \in Publisher, StoreId(p)
    PROVE  PublishInv'
<1>1. /\ p \in Task /\ stage[p] = "store" /\ pc[p] = "idle"
      /\ stage'[p] = "named" /\ pc'[p] = "idle"
      /\ \A u \in Task : u # p
            => stage'[u] = stage[u] /\ pc'[u] = pc[u] /\ addr'[u] = addr[u]
      /\ UNCHANGED <<memory, present, notifiers, created, ref, addr, msg, got,
                     fate, my_id, job, response>>
  BY Kinds DEF StoreId, MoveTo, At, busVars, PublishInv, PubSubTypeOK, TypeOK
<1>2. \A q \in Publisher : ReplyAddress(q)' = ReplyAddress(q)
  BY <1>1 DEF ReplyAddress
<1>3. Started' = Started
  BY <1>1, Kinds DEF Started
<1>4. \A a : IsOpen(a)' <=> IsOpen(a)
  BY <1>1, <1>2, <1>3, Kinds DEF IsOpen
<1>5. AddressTables' /\ OwnNotify' /\ NoticesTrue'
  BY <1>1, <1>4, CallStep
<1>6. StagesInBus'
  BY <1>1, Kinds
     DEF PublishInv, StagesInBus, SendPoints, RequestPoints, InitPoints,
         RemovePoints
<1>7. Arguments'
  BY <1>1, <1>2, Kinds DEF PublishInv, Arguments, Sending
<1>8. StartedFirst'
  BY <1>1, <1>3, Kinds DEF PublishInv, StartedFirst
<1>9. OwnFates'
  BY <1>1, Kinds, Messages DEF PublishInv, OwnFates, Answered
<1>10. RepliesListened'
  BY <1>1, <1>2, Kinds DEF PublishInv, RepliesListened, Replies, Listening
<1>11. OwnQueue'
  BY <1>1, <1>2, Kinds DEF PublishInv, OwnQueue, Active
<1> QED
  BY <1>5, <1>6, <1>7, <1>8, <1>9, <1>10, <1>11 DEF PublishInv

(* publish opens its reply address.                                        *)
LEMMA PubInitializeReply ==
    ASSUME NamesDiffer, PublishInv, PubSubTypeOK', BusInv',
           NEW p \in Publisher, InitializeReply(p)
    PROVE  PublishInv'
<1>1. /\ p \in Task /\ stage[p] = "named" /\ pc[p] = "idle"
      /\ stage'[p] = "initialize" /\ pc'[p] = "init_memory"
      /\ \A u \in Task : u # p
            => stage'[u] = stage[u] /\ pc'[u] = pc[u] /\ addr'[u] = addr[u]
      /\ UNCHANGED <<memory, present, notifiers, created, ref, msg, fate,
                     my_id, job, response>>
      /\ addr'[p] = ReplyAddress(p)
      /\ \A u \in Task : u # p => got'[u] = got[u]
  BY Kinds
     DEF InitializeReply, CallInitialize, Goto, MoveTo, At, PublishInv,
         PubSubTypeOK, TypeOK
<1>2. \A q \in Publisher : ReplyAddress(q)' = ReplyAddress(q)
  BY <1>1 DEF ReplyAddress
<1>3. Started' = Started
  BY <1>1, Kinds DEF Started
<1>4. \A a : IsOpen(a)' <=> IsOpen(a)
  BY <1>1, <1>2, <1>3, Kinds DEF IsOpen
<1>5. AddressTables' /\ OwnNotify' /\ NoticesTrue'
  BY <1>1, <1>4, CallStep
<1>6. StagesInBus'
  BY <1>1, Kinds
     DEF PublishInv, StagesInBus, SendPoints, RequestPoints, InitPoints,
         RemovePoints
<1>7. Arguments'
  BY <1>1, <1>2, Kinds DEF PublishInv, Arguments, Sending
<1>8. StartedFirst'
  BY <1>1, <1>3, Kinds DEF PublishInv, StartedFirst
<1>9. OwnFates'
  BY <1>1, Kinds, Messages DEF PublishInv, OwnFates, Answered
<1>10. RepliesListened'
  BY <1>1, <1>2, Kinds DEF PublishInv, RepliesListened, Replies, Listening
<1>11. OwnQueue'
  BY <1>1, <1>2, Kinds DEF PublishInv, OwnQueue, Active
<1> QED
  BY <1>5, <1>6, <1>7, <1>8, <1>9, <1>10, <1>11 DEF PublishInv

(* publish sends its message once the reply address is open.               *)
LEMMA PubSendRequest ==
    ASSUME NamesDiffer, PublishInv, PubSubTypeOK', BusInv',
           NEW p \in Publisher, SendRequest(p)
    PROVE  PublishInv'
<1>1. /\ p \in Task /\ stage[p] = "initialize" /\ pc[p] = "idle"
      /\ stage'[p] = "send" /\ pc'[p] = "check"
      /\ \A u \in Task : u # p
            => stage'[u] = stage[u] /\ pc'[u] = pc[u] /\ addr'[u] = addr[u]
      /\ UNCHANGED <<memory, present, notifiers, created, ref, my_id, job,
                     response>>
      /\ addr'[p] = Topic /\ msg'[p] = RequestOf(p)
      /\ \A u \in Task : u # p => got'[u] = got[u] /\ msg'[u] = msg[u]
      /\ fate[RequestOf(p)] = "unsent"
      /\ \A m \in Message : m # RequestOf(p) => fate'[m] = fate[m]
  BY Kinds
     DEF SendRequest, CallSendData, Goto, MoveTo, At, PublishInv, PubSubTypeOK,
         TypeOK
<1>2. \A q \in Publisher : ReplyAddress(q)' = ReplyAddress(q)
  BY <1>1 DEF ReplyAddress
<1>3. Started' = Started
  BY <1>1, Kinds DEF Started
<1>4. \A a : IsOpen(a)' <=> IsOpen(a)
  BY <1>1, <1>2, <1>3, Kinds DEF IsOpen
<1>5. AddressTables' /\ OwnNotify' /\ NoticesTrue'
  BY <1>1, <1>4, CallStep
<1>6. StagesInBus'
  BY <1>1, Kinds
     DEF PublishInv, StagesInBus, SendPoints, RequestPoints, InitPoints,
         RemovePoints
<1>7. Arguments'
  BY <1>1, <1>2, Kinds DEF PublishInv, Arguments, Sending
<1>8. StartedFirst'
  BY <1>1, <1>3, Kinds DEF PublishInv, StartedFirst
<1>9. OwnFates'
  <2>1. \A n \in Message : fate[n] = "delivered" => fate'[n] = fate[n]
    BY <1>1
  <2>2. \A q \in Publisher :
           /\ stage'[q] \in {"load", "store", "named", "initialize"}
                 => fate'[RequestOf(q)] = "unsent"
           /\ stage'[q] \in {"remove", "returned"} => response'[q] = ReplyTo(q)
    BY <1>1, Kinds, Messages DEF PublishInv, OwnFates
  <2>3. \A q \in Publisher : Answered(q)' => fate'[ReplyTo(q)] = "delivered"
    BY <1>1, <2>1, Kinds, Messages DEF PublishInv, OwnFates, Answered
  <2>4. \A q \in Publisher :
           pc'[q] = "credit" \/ (stage'[q] = "request" /\ pc'[q] = "idle")
              => got'[q] = ReplyTo(q)
    BY <1>1, Kinds DEF PublishInv, OwnFates
  <2>5. \A r \in Replica : job'[r] # NoMessage => fate'[job'[r]] = "delivered"
    BY <1>1, <2>1 DEF PublishInv, PubSubTypeOK, OwnFates
  <2>6. /\ pc'[Supervisor] = "credit" => got'[Supervisor] # NoMessage
        /\ pc'[Supervisor] # "credit" /\ got'[Supervisor] # NoMessage
              => fate'[got'[Supervisor]] = "delivered"
    BY <1>1, <2>1, Kinds DEF PublishInv, OwnFates, PubSubTypeOK, TypeOK
  <2> QED
    BY <2>2, <2>3, <2>4, <2>5, <2>6 DEF OwnFates
<1>10. RepliesListened'
  BY <1>1, <1>2, Kinds DEF PublishInv, RepliesListened, Replies, Listening
<1>11. OwnQueue'
  BY <1>1, <1>2, Kinds DEF PublishInv, OwnQueue, Active
<1> QED
  BY <1>5, <1>6, <1>7, <1>8, <1>9, <1>10, <1>11 DEF PublishInv

(* publish requests its reply.                                             *)
LEMMA PubAwaitReply ==
    ASSUME NamesDiffer, PublishInv, PubSubTypeOK', BusInv',
           NEW p \in Publisher, AwaitReply(p)
    PROVE  PublishInv'
<1>1. /\ p \in Task /\ stage[p] = "send" /\ pc[p] = "idle"
      /\ stage'[p] = "request" /\ pc'[p] = "measure"
      /\ \A u \in Task : u # p
            => stage'[u] = stage[u] /\ pc'[u] = pc[u] /\ addr'[u] = addr[u]
      /\ UNCHANGED <<memory, present, notifiers, created, ref, msg, fate,
                     my_id, job, response>>
      /\ addr'[p] = ReplyAddress(p)
      /\ \A u \in Task : u # p => got'[u] = got[u]
  BY Kinds
     DEF AwaitReply, CallRequestData, Goto, MoveTo, At, PublishInv, PubSubTypeOK,
         TypeOK
<1>2. \A q \in Publisher : ReplyAddress(q)' = ReplyAddress(q)
  BY <1>1 DEF ReplyAddress
<1>3. Started' = Started
  BY <1>1, Kinds DEF Started
<1>4. \A a : IsOpen(a)' <=> IsOpen(a)
  BY <1>1, <1>2, <1>3, Kinds DEF IsOpen
<1>5. AddressTables' /\ OwnNotify' /\ NoticesTrue'
  BY <1>1, <1>4, CallStep
<1>6. StagesInBus'
  BY <1>1, Kinds
     DEF PublishInv, StagesInBus, SendPoints, RequestPoints, InitPoints,
         RemovePoints
<1>7. Arguments'
  BY <1>1, <1>2, Kinds DEF PublishInv, Arguments, Sending
<1>8. StartedFirst'
  BY <1>1, <1>3, Kinds DEF PublishInv, StartedFirst
<1>9. OwnFates'
  BY <1>1, Kinds, Messages DEF PublishInv, OwnFates, Answered
<1>10. RepliesListened'
  BY <1>1, <1>2, Kinds DEF PublishInv, RepliesListened, Replies, Listening
<1>11. OwnQueue'
  BY <1>1, <1>2, Kinds DEF PublishInv, OwnQueue, Active
<1> QED
  BY <1>5, <1>6, <1>7, <1>8, <1>9, <1>10, <1>11 DEF PublishInv

(* Nobody replies to a publisher that has its reply, so the reply address  *)
(* can be removed.                                                         *)
LEMMA PubRemoveReply ==
    ASSUME NamesDiffer, PublishInv, PubSubTypeOK', BusInv',
           NEW p \in Publisher, RemoveReply(p)
    PROVE  PublishInv'
<1>1. /\ p \in Task /\ stage[p] = "request" /\ pc[p] = "idle"
      /\ stage'[p] = "remove" /\ pc'[p] = "remove_memory"
      /\ \A u \in Task : u # p
            => stage'[u] = stage[u] /\ pc'[u] = pc[u] /\ addr'[u] = addr[u]
      /\ UNCHANGED <<memory, present, notifiers, created, ref, msg, got, fate,
                     my_id, job>>
      /\ addr'[p] = ReplyAddress(p) /\ response'[p] = got[p]
      /\ \A q \in Publisher : q # p => response'[q] = response[q]
  BY Kinds
     DEF RemoveReply, CallRemove, Goto, MoveTo, At, PublishInv, PubSubTypeOK, TypeOK
<1>2. \A q \in Publisher : ReplyAddress(q)' = ReplyAddress(q)
  BY <1>1 DEF ReplyAddress
<1>3. Started' = Started
  BY <1>1, Kinds DEF Started
<1>4. \A a : IsOpen(a)' <=> IsOpen(a)
  BY <1>1, <1>2, <1>3, Kinds DEF IsOpen
<1>5. AddressTables' /\ OwnNotify' /\ NoticesTrue'
  BY <1>1, <1>4, CallStep
<1>6. StagesInBus'
  BY <1>1, Kinds
     DEF PublishInv, StagesInBus, SendPoints, RequestPoints, InitPoints,
         RemovePoints
<1>7. Arguments'
  BY <1>1, <1>2, Kinds DEF PublishInv, Arguments, Sending
<1>8. StartedFirst'
  BY <1>1, <1>3, Kinds DEF PublishInv, StartedFirst
<1>9. OwnFates'
  BY <1>1, Kinds, Messages DEF PublishInv, OwnFates, Answered
<1>10. RepliesListened'
  BY <1>1, <1>2, Kinds DEF PublishInv, RepliesListened, Replies, Listening
<1>11. OwnQueue'
  BY <1>1, <1>2, Kinds DEF PublishInv, OwnQueue, Active
<1> QED
  BY <1>5, <1>6, <1>7, <1>8, <1>9, <1>10, <1>11 DEF PublishInv

(* publish returns.                                                        *)
LEMMA PubReturn ==
    ASSUME NamesDiffer, PublishInv, PubSubTypeOK', BusInv',
           NEW p \in Publisher, Return(p)
    PROVE  PublishInv'
<1>1. /\ p \in Task /\ stage[p] = "remove" /\ pc[p] = "idle"
      /\ stage'[p] = "returned" /\ pc'[p] = "idle"
      /\ \A u \in Task : u # p
            => stage'[u] = stage[u] /\ pc'[u] = pc[u] /\ addr'[u] = addr[u]
      /\ UNCHANGED <<memory, present, notifiers, created, ref, addr, msg, got,
                     fate, my_id, job, response>>
  BY Kinds DEF Return, MoveTo, At, busVars, PublishInv, PubSubTypeOK, TypeOK
<1>2. \A q \in Publisher : ReplyAddress(q)' = ReplyAddress(q)
  BY <1>1 DEF ReplyAddress
<1>3. Started' = Started
  BY <1>1, Kinds DEF Started
<1>4. \A a : IsOpen(a)' <=> IsOpen(a)
  BY <1>1, <1>2, <1>3, Kinds DEF IsOpen
<1>5. AddressTables' /\ OwnNotify' /\ NoticesTrue'
  BY <1>1, <1>4, CallStep
<1>6. StagesInBus'
  BY <1>1, Kinds
     DEF PublishInv, StagesInBus, SendPoints, RequestPoints, InitPoints,
         RemovePoints
<1>7. Arguments'
  BY <1>1, <1>2, Kinds DEF PublishInv, Arguments, Sending
<1>8. StartedFirst'
  BY <1>1, <1>3, Kinds DEF PublishInv, StartedFirst
<1>9. OwnFates'
  BY <1>1, Kinds, Messages DEF PublishInv, OwnFates, Answered
<1>10. RepliesListened'
  BY <1>1, <1>2, Kinds DEF PublishInv, RepliesListened, Replies, Listening
<1>11. OwnQueue'
  BY <1>1, <1>2, Kinds DEF PublishInv, OwnQueue, Active
<1> QED
  BY <1>5, <1>6, <1>7, <1>8, <1>9, <1>10, <1>11 DEF PublishInv

(* dispatch sends its event.                                               *)
LEMMA PubDispatch ==
    ASSUME NamesDiffer, PublishInv, PubSubTypeOK', BusInv',
           NEW d \in Dispatcher, Dispatch(d)
    PROVE  PublishInv'
<1>1. /\ d \in Task /\ stage[d] = "dispatch" /\ pc[d] = "idle"
      /\ stage'[d] = "send" /\ pc'[d] = "check"
      /\ \A u \in Task : u # d
            => stage'[u] = stage[u] /\ pc'[u] = pc[u] /\ addr'[u] = addr[u]
      /\ UNCHANGED <<memory, present, notifiers, created, ref, my_id, job,
                     response>>
      /\ Started
      /\ addr'[d] = Topic /\ msg'[d] = EventOf(d)
      /\ \A u \in Task : u # d => got'[u] = got[u] /\ msg'[u] = msg[u]
      /\ fate[EventOf(d)] = "unsent"
      /\ \A m \in Message : m # EventOf(d) => fate'[m] = fate[m]
  BY Kinds
     DEF Dispatch, CallSendData, Goto, MoveTo, At, PublishInv, PubSubTypeOK, TypeOK
<1>2. \A q \in Publisher : ReplyAddress(q)' = ReplyAddress(q)
  BY <1>1 DEF ReplyAddress
<1>3. Started' = Started
  BY <1>1, Kinds DEF Started
<1>4. \A a : IsOpen(a)' <=> IsOpen(a)
  BY <1>1, <1>2, <1>3, Kinds DEF IsOpen
<1>5. AddressTables' /\ OwnNotify' /\ NoticesTrue'
  BY <1>1, <1>4, CallStep
<1>6. StagesInBus'
  BY <1>1, Kinds
     DEF PublishInv, StagesInBus, SendPoints, RequestPoints, InitPoints,
         RemovePoints
<1>7. Arguments'
  BY <1>1, <1>2, Kinds DEF PublishInv, Arguments, Sending
<1>8. StartedFirst'
  BY <1>1, <1>3, Kinds DEF PublishInv, StartedFirst
<1>9. OwnFates'
  <2>1. \A n \in Message : fate[n] = "delivered" => fate'[n] = fate[n]
    BY <1>1
  <2>2. \A q \in Publisher :
           /\ stage'[q] \in {"load", "store", "named", "initialize"}
                 => fate'[RequestOf(q)] = "unsent"
           /\ stage'[q] \in {"remove", "returned"} => response'[q] = ReplyTo(q)
    BY <1>1, Kinds, Messages DEF PublishInv, OwnFates
  <2>3. \A q \in Publisher : Answered(q)' => fate'[ReplyTo(q)] = "delivered"
    BY <1>1, <2>1, Kinds, Messages DEF PublishInv, OwnFates, Answered
  <2>4. \A q \in Publisher :
           pc'[q] = "credit" \/ (stage'[q] = "request" /\ pc'[q] = "idle")
              => got'[q] = ReplyTo(q)
    BY <1>1, Kinds DEF PublishInv, OwnFates
  <2>5. \A r \in Replica : job'[r] # NoMessage => fate'[job'[r]] = "delivered"
    BY <1>1, <2>1 DEF PublishInv, PubSubTypeOK, OwnFates
  <2>6. /\ pc'[Supervisor] = "credit" => got'[Supervisor] # NoMessage
        /\ pc'[Supervisor] # "credit" /\ got'[Supervisor] # NoMessage
              => fate'[got'[Supervisor]] = "delivered"
    BY <1>1, <2>1, Kinds DEF PublishInv, OwnFates, PubSubTypeOK, TypeOK
  <2> QED
    BY <2>2, <2>3, <2>4, <2>5, <2>6 DEF OwnFates
<1>10. RepliesListened'
  BY <1>1, <1>2, Kinds DEF PublishInv, RepliesListened, Replies, Listening
<1>11. OwnQueue'
  BY <1>1, <1>2, Kinds DEF PublishInv, OwnQueue, Active
<1> QED
  BY <1>5, <1>6, <1>7, <1>8, <1>9, <1>10, <1>11 DEF PublishInv

(* The supervisor opens the topic.                                         *)
LEMMA PubSetupPublishing ==
    ASSUME NamesDiffer, PublishInv, PubSubTypeOK', BusInv', SetupPublishing
    PROVE  PublishInv'
<1>1. /\ Supervisor \in Task /\ stage[Supervisor] = "setup" /\ pc[Supervisor] = "idle"
      /\ stage'[Supervisor] = "initialize" /\ pc'[Supervisor] = "init_memory"
      /\ \A u \in Task : u # Supervisor
            => stage'[u] = stage[u] /\ pc'[u] = pc[u] /\ addr'[u] = addr[u]
      /\ UNCHANGED <<memory, present, notifiers, created, ref, msg, fate,
                     my_id, job, response>>
      /\ addr'[Supervisor] = Topic
      /\ got'[Supervisor] = NoMessage
      /\ \A u \in Task : u # Supervisor => got'[u] = got[u]
  BY Kinds
     DEF SetupPublishing, CallInitialize, Goto, MoveTo, At, PublishInv,
         PubSubTypeOK, TypeOK
<1>2. \A q \in Publisher : ReplyAddress(q)' = ReplyAddress(q)
  BY <1>1 DEF ReplyAddress
<1>3. Started' = Started
  BY <1>1, Kinds DEF Started
<1>4. \A a : IsOpen(a)' <=> IsOpen(a)
  BY <1>1, <1>2, <1>3, Kinds DEF IsOpen
<1>5. AddressTables' /\ OwnNotify' /\ NoticesTrue'
  BY <1>1, <1>4, CallStep
<1>6. StagesInBus'
  BY <1>1, Kinds
     DEF PublishInv, StagesInBus, SendPoints, RequestPoints, InitPoints,
         RemovePoints
<1>7. Arguments'
  BY <1>1, <1>2, Kinds DEF PublishInv, Arguments, Sending
<1>8. StartedFirst'
  BY <1>1, <1>3, Kinds DEF PublishInv, StartedFirst
<1>9. OwnFates'
  BY <1>1, Kinds, Messages DEF PublishInv, OwnFates, Answered
<1>10. RepliesListened'
  BY <1>1, <1>2, Kinds DEF PublishInv, RepliesListened, Replies, Listening
<1>11. OwnQueue'
  BY <1>1, <1>2, Kinds DEF PublishInv, OwnQueue, Active
<1> QED
  BY <1>5, <1>6, <1>7, <1>8, <1>9, <1>10, <1>11 DEF PublishInv

(* setup_publishing has returned, so there may be clients.                 *)
LEMMA PubBeginLoop ==
    ASSUME NamesDiffer, PublishInv, PubSubTypeOK', BusInv', BeginLoop
    PROVE  PublishInv'
<1>1. /\ Supervisor \in Task /\ stage[Supervisor] = "initialize" /\ pc[Supervisor] = "idle"
      /\ stage'[Supervisor] = "ask" /\ pc'[Supervisor] = "idle"
      /\ \A u \in Task : u # Supervisor
            => stage'[u] = stage[u] /\ pc'[u] = pc[u] /\ addr'[u] = addr[u]
      /\ UNCHANGED <<memory, present, notifiers, created, ref, addr, msg, got,
                     fate, my_id, job, response>>
  BY Kinds DEF BeginLoop, MoveTo, At, busVars, PublishInv, PubSubTypeOK, TypeOK
<1>2. \A q \in Publisher : ReplyAddress(q)' = ReplyAddress(q)
  BY <1>1 DEF ReplyAddress
<1>3. Started' /\ ~Started
  BY <1>1 DEF Started
<1>4. \A a : IsOpen(a)' <=> IsOpen(a)
  BY <1>1, <1>2, <1>3, Kinds DEF IsOpen
<1>5. AddressTables' /\ OwnNotify' /\ NoticesTrue'
  BY <1>1, <1>4, CallStep
<1>6. StagesInBus'
  BY <1>1, Kinds
     DEF PublishInv, StagesInBus, SendPoints, RequestPoints, InitPoints,
         RemovePoints
<1>7. Arguments'
  BY <1>1, <1>2, Kinds DEF PublishInv, Arguments, Sending
<1>8. StartedFirst'
  BY <1>1, <1>3, Kinds DEF PublishInv, StartedFirst
<1>9. OwnFates'
  BY <1>1, Kinds, Messages DEF PublishInv, OwnFates, Answered
<1>10. RepliesListened'
  BY <1>1, <1>2, Kinds DEF PublishInv, RepliesListened, Replies, Listening
<1>11. OwnQueue'
  BY <1>1, <1>2, Kinds DEF PublishInv, OwnQueue, Active
<1> QED
  BY <1>5, <1>6, <1>7, <1>8, <1>9, <1>10, <1>11 DEF PublishInv

(* The supervisor requests a message of the topic.                         *)
LEMMA PubAskForData ==
    ASSUME NamesDiffer, PublishInv, PubSubTypeOK', BusInv', AskForData
    PROVE  PublishInv'
<1>1. /\ Supervisor \in Task /\ stage[Supervisor] = "ask" /\ pc[Supervisor] = "idle"
      /\ stage'[Supervisor] = "request" /\ pc'[Supervisor] = "measure"
      /\ \A u \in Task : u # Supervisor
            => stage'[u] = stage[u] /\ pc'[u] = pc[u] /\ addr'[u] = addr[u]
      /\ UNCHANGED <<memory, present, notifiers, created, ref, msg, fate,
                     my_id, job, response>>
      /\ addr'[Supervisor] = Topic
      /\ got'[Supervisor] = NoMessage
      /\ \A u \in Task : u # Supervisor => got'[u] = got[u]
  BY Kinds
     DEF AskForData, CallRequestData, Goto, MoveTo, At, PublishInv, PubSubTypeOK,
         TypeOK
<1>2. \A q \in Publisher : ReplyAddress(q)' = ReplyAddress(q)
  BY <1>1 DEF ReplyAddress
<1>3. Started' = Started
  BY <1>1, Kinds DEF Started
<1>4. \A a : IsOpen(a)' <=> IsOpen(a)
  BY <1>1, <1>2, <1>3, Kinds DEF IsOpen
<1>5. AddressTables' /\ OwnNotify' /\ NoticesTrue'
  BY <1>1, <1>4, CallStep
<1>6. StagesInBus'
  BY <1>1, Kinds
     DEF PublishInv, StagesInBus, SendPoints, RequestPoints, InitPoints,
         RemovePoints
<1>7. Arguments'
  BY <1>1, <1>2, Kinds DEF PublishInv, Arguments, Sending
<1>8. StartedFirst'
  BY <1>1, <1>3, Kinds DEF PublishInv, StartedFirst
<1>9. OwnFates'
  BY <1>1, Kinds, Messages DEF PublishInv, OwnFates, Answered
<1>10. RepliesListened'
  BY <1>1, <1>2, Kinds DEF PublishInv, RepliesListened, Replies, Listening
<1>11. OwnQueue'
  BY <1>1, <1>2, Kinds DEF PublishInv, OwnQueue, Active
<1> QED
  BY <1>5, <1>6, <1>7, <1>8, <1>9, <1>10, <1>11 DEF PublishInv

(* The supervisor has a message.                                           *)
LEMMA PubTakeData ==
    ASSUME NamesDiffer, PublishInv, PubSubTypeOK', BusInv', TakeData
    PROVE  PublishInv'
<1>1. /\ Supervisor \in Task /\ stage[Supervisor] = "request" /\ pc[Supervisor] = "idle"
      /\ stage'[Supervisor] = "reserve" /\ pc'[Supervisor] = "idle"
      /\ \A u \in Task : u # Supervisor
            => stage'[u] = stage[u] /\ pc'[u] = pc[u] /\ addr'[u] = addr[u]
      /\ UNCHANGED <<memory, present, notifiers, created, ref, addr, msg, got,
                     fate, my_id, job, response>>
  BY Kinds DEF TakeData, MoveTo, At, busVars, PublishInv, PubSubTypeOK, TypeOK
<1>2. \A q \in Publisher : ReplyAddress(q)' = ReplyAddress(q)
  BY <1>1 DEF ReplyAddress
<1>3. Started' = Started
  BY <1>1, Kinds DEF Started
<1>4. \A a : IsOpen(a)' <=> IsOpen(a)
  BY <1>1, <1>2, <1>3, Kinds DEF IsOpen
<1>5. AddressTables' /\ OwnNotify' /\ NoticesTrue'
  BY <1>1, <1>4, CallStep
<1>6. StagesInBus'
  BY <1>1, Kinds
     DEF PublishInv, StagesInBus, SendPoints, RequestPoints, InitPoints,
         RemovePoints
<1>7. Arguments'
  BY <1>1, <1>2, Kinds DEF PublishInv, Arguments, Sending
<1>8. StartedFirst'
  BY <1>1, <1>3, Kinds DEF PublishInv, StartedFirst
<1>9. OwnFates'
  BY <1>1, Kinds, Messages DEF PublishInv, OwnFates, Answered
<1>10. RepliesListened'
  BY <1>1, <1>2, Kinds DEF PublishInv, RepliesListened, Replies, Listening
<1>11. OwnQueue'
  BY <1>1, <1>2, Kinds DEF PublishInv, OwnQueue, Active
<1> QED
  BY <1>5, <1>6, <1>7, <1>8, <1>9, <1>10, <1>11 DEF PublishInv

(* What is handed to a replica was delivered to the supervisor.            *)
LEMMA PubHandOver ==
    ASSUME NamesDiffer, PublishInv, PubSubTypeOK', BusInv',
           NEW r \in Replica, HandOver(r)
    PROVE  PublishInv'
<1>1. /\ r \in Task /\ Supervisor \in Task /\ r # Supervisor
      /\ stage[Supervisor] = "reserve" /\ pc[Supervisor] = "idle"
      /\ stage[r] = "free" /\ pc[r] = "idle"
      /\ stage'[r] = "run" /\ stage'[Supervisor] = "ask"
      /\ \A u \in Task : u # r /\ u # Supervisor => stage'[u] = stage[u]
      /\ UNCHANGED <<memory, present, notifiers, created, ref, pc, addr, msg,
                     got, fate, my_id, response>>
      /\ job'[r] = got[Supervisor]
      /\ \A s \in Replica : s # r => job'[s] = job[s]
  BY Kinds DEF HandOver, At, busVars, PublishInv, PubSubTypeOK, TypeOK
<1>2. \A q \in Publisher : ReplyAddress(q)' = ReplyAddress(q)
  BY <1>1 DEF ReplyAddress
<1>3. Started' = Started
  BY <1>1, Kinds DEF Started
<1>4. \A a : IsOpen(a)' <=> IsOpen(a)
  BY <1>1, <1>2, <1>3, Kinds DEF IsOpen
<1>5. AddressTables' /\ OwnNotify' /\ NoticesTrue'
  BY <1>1, <1>4, CallStep
<1>6. StagesInBus'
  BY <1>1, Kinds
     DEF PublishInv, StagesInBus, SendPoints, RequestPoints, InitPoints,
         RemovePoints
<1>7. Arguments'
  BY <1>1, <1>2, Kinds DEF PublishInv, Arguments, Sending
<1>8. StartedFirst'
  BY <1>1, <1>3, Kinds DEF PublishInv, StartedFirst
<1>9. OwnFates'
  BY <1>1, Kinds, Messages DEF PublishInv, OwnFates, Answered
<1>10. RepliesListened'
  BY <1>1, <1>2, Kinds DEF PublishInv, RepliesListened, Replies, Listening
<1>11. OwnQueue'
  BY <1>1, <1>2, Kinds DEF PublishInv, OwnQueue, Active
<1> QED
  BY <1>5, <1>6, <1>7, <1>8, <1>9, <1>10, <1>11 DEF PublishInv

(* A replica ends a run without a reply.                                   *)
LEMMA PubRunWithoutReply ==
    ASSUME NamesDiffer, PublishInv, PubSubTypeOK', BusInv',
           NEW r \in Replica, RunWithoutReply(r)
    PROVE  PublishInv'
<1>1. /\ r \in Task /\ stage[r] = "run" /\ pc[r] = "idle"
      /\ stage'[r] = "free" /\ pc'[r] = "idle"
      /\ \A u \in Task : u # r
            => stage'[u] = stage[u] /\ pc'[u] = pc[u] /\ addr'[u] = addr[u]
      /\ UNCHANGED <<memory, present, notifiers, created, ref, addr, msg, got,
                     fate, my_id, response>>
      /\ job'[r] = NoMessage
      /\ \A s \in Replica : s # r => job'[s] = job[s]
  BY Kinds
     DEF RunWithoutReply, Free, MoveTo, At, busVars, PublishInv, PubSubTypeOK,
         TypeOK
<1>2. \A q \in Publisher : ReplyAddress(q)' = ReplyAddress(q)
  BY <1>1 DEF ReplyAddress
<1>3. Started' = Started
  BY <1>1, Kinds DEF Started
<1>4. \A a : IsOpen(a)' <=> IsOpen(a)
  BY <1>1, <1>2, <1>3, Kinds DEF IsOpen
<1>5. AddressTables' /\ OwnNotify' /\ NoticesTrue'
  BY <1>1, <1>4, CallStep
<1>6. StagesInBus'
  BY <1>1, Kinds
     DEF PublishInv, StagesInBus, SendPoints, RequestPoints, InitPoints,
         RemovePoints
<1>7. Arguments'
  BY <1>1, <1>2, Kinds DEF PublishInv, Arguments, Sending
<1>8. StartedFirst'
  BY <1>1, <1>3, Kinds DEF PublishInv, StartedFirst
<1>9. OwnFates'
  BY <1>1, Kinds, Messages DEF PublishInv, OwnFates, Answered
<1>10. RepliesListened'
  BY <1>1, <1>2, Kinds DEF PublishInv, RepliesListened, Replies, Listening
<1>11. OwnQueue'
  BY <1>1, <1>2, Kinds DEF PublishInv, OwnQueue, Active
<1> QED
  BY <1>5, <1>6, <1>7, <1>8, <1>9, <1>10, <1>11 DEF PublishInv

(* A replica is free again after its reply.                                *)
LEMMA PubFinishReply ==
    ASSUME NamesDiffer, PublishInv, PubSubTypeOK', BusInv',
           NEW r \in Replica, FinishReply(r)
    PROVE  PublishInv'
<1>1. /\ r \in Task /\ stage[r] = "reply" /\ pc[r] = "idle"
      /\ stage'[r] = "free" /\ pc'[r] = "idle"
      /\ \A u \in Task : u # r
            => stage'[u] = stage[u] /\ pc'[u] = pc[u] /\ addr'[u] = addr[u]
      /\ UNCHANGED <<memory, present, notifiers, created, ref, addr, msg, got,
                     fate, my_id, response>>
      /\ job'[r] = NoMessage
      /\ \A s \in Replica : s # r => job'[s] = job[s]
  BY Kinds
     DEF FinishReply, Free, MoveTo, At, busVars, PublishInv, PubSubTypeOK, TypeOK
<1>2. \A q \in Publisher : ReplyAddress(q)' = ReplyAddress(q)
  BY <1>1 DEF ReplyAddress
<1>3. Started' = Started
  BY <1>1, Kinds DEF Started
<1>4. \A a : IsOpen(a)' <=> IsOpen(a)
  BY <1>1, <1>2, <1>3, Kinds DEF IsOpen
<1>5. AddressTables' /\ OwnNotify' /\ NoticesTrue'
  BY <1>1, <1>4, CallStep
<1>6. StagesInBus'
  BY <1>1, Kinds
     DEF PublishInv, StagesInBus, SendPoints, RequestPoints, InitPoints,
         RemovePoints
<1>7. Arguments'
  BY <1>1, <1>2, Kinds DEF PublishInv, Arguments, Sending
<1>8. StartedFirst'
  BY <1>1, <1>3, Kinds DEF PublishInv, StartedFirst
<1>9. OwnFates'
  BY <1>1, Kinds, Messages DEF PublishInv, OwnFates, Answered
<1>10. RepliesListened'
  BY <1>1, <1>2, Kinds DEF PublishInv, RepliesListened, Replies, Listening
<1>11. OwnQueue'
  BY <1>1, <1>2, Kinds DEF PublishInv, OwnQueue, Active
<1> QED
  BY <1>5, <1>6, <1>7, <1>8, <1>9, <1>10, <1>11 DEF PublishInv

(* A replica has its request from the bus, so the publisher has sent it;   *)
(* and as the reply was not sent, the publisher is not past its request.   *)
LEMMA PubRunWithReply ==
    ASSUME NamesDiffer, PublishInv, PubSubTypeOK', BusInv',
           NEW r \in Replica, RunWithReply(r)
    PROVE  PublishInv'
<1>1. /\ r \in Task /\ stage[r] = "run" /\ pc[r] = "idle"
      /\ stage'[r] = "reply" /\ pc'[r] = "check"
      /\ \A u \in Task : u # r => /\ stage'[u] = stage[u] /\ pc'[u] = pc[u]
                                  /\ addr'[u] = addr[u] /\ got'[u] = got[u] /\ msg'[u] = msg[u]
      /\ UNCHANGED <<memory, present, notifiers, created, ref, my_id, job,
                     response>>
  BY Kinds
     DEF RunWithReply, CallSendData, Goto, MoveTo, At, PublishInv, PubSubTypeOK,
         TypeOK
<1>2. \A q \in Publisher : ReplyAddress(q)' = ReplyAddress(q)
  BY <1>1 DEF ReplyAddress
<1>3. Started' = Started
  BY <1>1, Kinds DEF Started
<1>4. PICK p \in Publisher : /\ job[r] = RequestOf(p)
                             /\ CallSendData(r, ReplyAddress(p), ReplyTo(p))
  BY DEF RunWithReply
<1>5. /\ addr'[r] = ReplyAddress(p) /\ msg'[r] = ReplyTo(p)
      /\ fate[ReplyTo(p)] = "unsent"
      /\ \A m \in Message : m # ReplyTo(p) => fate'[m] = fate[m]
  BY <1>1, <1>4 DEF CallSendData, PublishInv, PubSubTypeOK, TypeOK
<1>6. Listening(p) /\ stage[p] # "remove" /\ stage[p] # "returned"
  <2>1. fate[RequestOf(p)] = "delivered"
    BY <1>4, Messages DEF PublishInv, OwnFates
  <2>2. stage[p] \in {"send", "request", "remove", "returned"}
    BY <2>1 DEF PublishInv, OwnFates, PubSubTypeOK, PublishStages
  <2>3. ~Answered(p)
    BY <1>5 DEF PublishInv, OwnFates
  <2> QED
    BY <2>2, <2>3 DEF Answered, Listening
<1>7. \A a : IsOpen(a)' <=> IsOpen(a)
  BY <1>1, <1>2, <1>3, Kinds DEF IsOpen
<1>8. AddressTables' /\ OwnNotify' /\ NoticesTrue'
  BY <1>1, <1>7, CallStep
<1>9. StagesInBus'
  BY <1>1, Kinds
     DEF PublishInv, StagesInBus, SendPoints, RequestPoints, InitPoints,
         RemovePoints
<1>10. Arguments'
  <2>1. /\ job'[r] = RequestOf(p) /\ addr'[r] = ReplyAddress(p)'
        /\ msg'[r] = ReplyTo(p)
    BY <1>1, <1>2, <1>4, <1>5
  <2>2. \A s \in Replica :
           pc'[s] # "idle" =>
              \E q \in Publisher : /\ job'[s] = RequestOf(q)
                                   /\ addr'[s] = ReplyAddress(q)'
                                   /\ pc'[s] \in Sending => msg'[s] = ReplyTo(q)
    BY <1>1, <1>2, <2>1, Kinds DEF PublishInv, Arguments
  <2> QED
    BY <1>1, <1>2, <2>2, Kinds DEF PublishInv, Arguments, Sending
<1>11. StartedFirst'
  BY <1>1, <1>3, Kinds DEF PublishInv, StartedFirst
<1>12. OwnFates'
  BY <1>1, <1>4, <1>5, Kinds, Messages
     DEF PublishInv, OwnFates, Answered, PubSubTypeOK, TypeOK
<1>13. RepliesListened'
  <2>1. \A q \in Publisher : Listening(q)' <=> Listening(q)
    BY <1>1, Kinds DEF Listening
  <2>2. \A s \in Replica, q \in Publisher : Replies(s, q)' => Replies(s, q) \/ q = p
    BY <1>1, <1>4, Kinds, Messages DEF Replies
  <2> QED
    BY <1>6, <2>1, <2>2 DEF PublishInv, RepliesListened
<1>14. OwnQueue'
  BY <1>1, <1>2, Kinds DEF PublishInv, OwnQueue, Active
<1> QED
  BY <1>8, <1>9, <1>10, <1>11, <1>12, <1>13, <1>14 DEF PublishInv

-----------------------------------------------------------------------------
(* At first no address is open, nothing is sent and nobody is in the bus.  *)
LEMMA PublishInvInit == Init => PublishInv
<1> SUFFICES ASSUME Init PROVE PublishInv
  OBVIOUS
<1>1. PubSubTypeOK /\ BusInv
  BY PubSubTypeOKInit
<1>2. /\ \A t \in Task : pc[t] = "idle"
      /\ \A p \in Publisher : stage[p] = "load"
      /\ \A d \in Dispatcher : stage[d] = "dispatch"
      /\ \A r \in Replica : stage[r] = "free" /\ job[r] = NoMessage
      /\ stage[Supervisor] = "setup" /\ got[Supervisor] = NoMessage
      /\ \A m \in Message : fate[m] = "unsent"
      /\ present = {} /\ created = 0
      /\ \A a \in Address : memory[a] = <<>> /\ notifiers[a] = 0
  BY Kinds DEF Init, BusInit
<1>3. StagesInBus
  BY <1>2, Kinds DEF StagesInBus
<1>4. Arguments
  BY <1>2, Kinds DEF Arguments, Sending
<1>5. StartedFirst
  BY <1>2 DEF StartedFirst
<1>6. OwnFates
  BY <1>2, Kinds, Messages DEF OwnFates, Answered
<1>7. RepliesListened
  BY <1>2, Kinds DEF RepliesListened, Replies
<1>8. OwnQueue
  <2>1. \A p \in Publisher : ReplyAddress(p) \in Address
    BY <1>1, Addresses DEF PubSubTypeOK, ReplyAddress
  <2> QED
    BY <1>2, <2>1 DEF OwnQueue, Range, Active
<1>9. \A a : ~IsOpen(a)
  BY <1>2 DEF IsOpen, Started
<1>10. AddressTables /\ OwnNotify /\ NoticesTrue
  BY <1>2, <1>9 DEF AddressTables, OwnNotify, NoticesTrue
<1> QED
  BY <1>1, <1>3, <1>4, <1>5, <1>6, <1>7, <1>8, <1>10 DEF PublishInv

(* Inside of the bus the panics are the only steps that could break it.    *)
LEMMA PublishInvInsideBus ==
    ASSUME NamesDiffer, PublishInv, PubSubTypeOK', BusInv', NEW t \in Task, InsideBus(t)
    PROVE  PublishInv'
<1>1. UNCHANGED callVars
  BY DEF InsideBus, callVars
<1>2. CASE SendStep(t)
  BY <1>1, <1>2, NobodyPanics, PubCheckWorkers, PubClaimWorker, PubPushMessage,
     PubLookupNotifier, PubNotifyWaiters DEF SendStep
<1>3. CASE RequestStep(t)
  BY <1>1, <1>3, NobodyPanics, PubReadLength, PubFetchNotifier, PubArmNotified,
     PubPopOne, PubCreditWorker DEF RequestStep
<1>4. CASE AdminStep(t)
  BY <1>1, <1>4, PubLockMemory, PubInsertAddress, PubFirstTick, PubRemoveAddress
     DEF AdminStep
<1> QED
  BY <1>2, <1>3, <1>4 DEF InsideBus, BusStep

(* Every step of the system is one of those above.                         *)
LEMMA PublishInvStep ==
    ASSUME NamesDiffer, NamesDiffer', PublishInv, PubSubTypeOK', BusInv', [Next]_vars
    PROVE  PublishInv'
<1>1. ASSUME NEW p \in Publisher, PublishStep(p) PROVE PublishInv'
  BY <1>1, PubLoadId, PubStoreId, PubInitializeReply, PubSendRequest, PubAwaitReply,
     PubRemoveReply, PubReturn DEF PublishStep
<1>2. ASSUME NEW d \in Dispatcher, Dispatch(d) PROVE PublishInv'
  BY <1>2, PubDispatch
<1>3. ASSUME SupervisorStep PROVE PublishInv'
  BY <1>3, PubSetupPublishing, PubBeginLoop, PubAskForData, PubTakeData, PubHandOver
     DEF SupervisorStep
<1>4. ASSUME NEW r \in Replica, ReplicaStep(r) PROVE PublishInv'
  BY <1>4, PubRunWithoutReply, PubRunWithReply, PubFinishReply DEF ReplicaStep
<1>5. ASSUME NEW t \in Task, InsideBus(t) PROVE PublishInv'
  BY <1>5, PublishInvInsideBus
<1>6. ASSUME UNCHANGED vars PROVE PublishInv'
  <2>1. UNCHANGED <<busVars, stage, my_id, job, response>>
    BY <1>6 DEF vars
  <2>2. /\ \A p : ReplyAddress(p)' = ReplyAddress(p)
        /\ Started' = Started
        /\ \A a : IsOpen(a)' <=> IsOpen(a)
    BY <2>1 DEF ReplyAddress, Started, IsOpen, busVars
  <2>3. StagesInBus' /\ StartedFirst' /\ OwnFates' /\ RepliesListened'
    BY <2>1, <2>2 DEF PublishInv, StagesInBus, StartedFirst, OwnFates, Answered,
                      RepliesListened, Replies, Listening, busVars
  <2>4. Arguments' /\ OwnQueue'
    BY <2>1, <2>2 DEF PublishInv, Arguments, OwnQueue, busVars, Active
  <2>5. AddressTables' /\ OwnNotify' /\ NoticesTrue'
    BY <2>1, <2>2 DEF PublishInv, AddressTables, OwnNotify, NoticesTrue, busVars
  <2> QED
    BY <2>3, <2>4, <2>5 DEF PublishInv
<1> QED
  BY <1>1, <1>2, <1>3, <1>4, <1>5, <1>6 DEF Next

(* So PublishInv holds throughout every behaviour.                         *)
LEMMA PublishInvInvariant == Spec /\ []NamesDiffer => []PublishInv
<1>1. /\ PublishInv /\ NamesDiffer /\ [Next]_vars
      /\ NamesDiffer' /\ (PubSubTypeOK /\ BusInv)'
      => PublishInv'
  BY PublishInvStep
<1> QED
  BY <1>1, PublishInvInit, BusInvStays, PTL DEF Spec

(* publish returns the response to the message it has published, for any   *)
(* number of calls at a time, as long as no two under way have the same    *)
(* reply address; which those of one source may have (pub_sub.rs:41-55).   *)
THEOREM PublishAnswered == Spec /\ []NamesDiffer => []OwnReply
<1>1. PublishInv => OwnReply
  BY DEF PublishInv, OwnFates, OwnReply
<1> QED
  BY <1>1, PublishInvInvariant, PTL

(* While names differ no unwrap on the address tables panics: a reply      *)
(* address outlives whoever replies to it (multibus.rs:85, 100, 110).      *)
THEOREM NobodyUnwrapsNone == Spec /\ []NamesDiffer => []NoPanic
<1>1. PublishInv => NoPanic
  <2> SUFFICES ASSUME PublishInv, NEW t \in Task PROVE pc[t] # "panicked"
    BY DEF NoPanic
  <2>1. CASE t \in Publisher
    BY <2>1 DEF PublishInv, StagesInBus, PubSubTypeOK, PublishStages, SendPoints,
                RequestPoints, InitPoints, RemovePoints
  <2>2. CASE t \in Dispatcher
    BY <2>2 DEF PublishInv, StagesInBus, PubSubTypeOK, SendPoints
  <2>3. CASE t \in Replica
    BY <2>3 DEF PublishInv, StagesInBus, PubSubTypeOK, ReplicaStages, SendPoints
  <2>4. CASE t = Supervisor
    BY <2>4 DEF PublishInv, StagesInBus, PubSubTypeOK, SupervisorStages,
                RequestPoints, InitPoints
  <2> QED
    BY <2>1, <2>2, <2>3, <2>4, Kinds
<1> QED
  BY <1>1, PublishInvInvariant, PTL

(* Reply addresses do not pile up: a table has one only while a call of    *)
(* publish that uses it is under way, and no late sender or requester      *)
(* brings it back, while later calls may take the names of those that have *)
(* returned (pub_sub.rs:54-57, multibus.rs:80, 126).                       *)
THEOREM RepliesReclaimed == Spec /\ []NamesDiffer => []ReplyAddressesReclaimed
<1>1. PublishInv => ReplyAddressesReclaimed
  <2> SUFFICES ASSUME PublishInv, NEW a \in ReplyAddresses,
                      a \in present \/ notifiers[a] # 0
               PROVE  \E p \in Publisher :
                         /\ ReplyAddress(p) = a
                         /\ stage[p] \in {"initialize", "send", "request", "remove"}
    BY DEF ReplyAddressesReclaimed
  <2>1. a \in Address /\ a # Topic
    BY PubSubAssumption
  <2>2. IsOpen(a)
    BY <2>1 DEF PublishInv, AddressTables
  <2> QED
    BY <2>1, <2>2 DEF IsOpen
<1> QED
  BY <1>1, PublishInvInvariant, PTL

-----------------------------------------------------------------------------
(* What the steps outside of the bus have in common: one task that is not  *)
(* in the bus goes on or enters it, and at most begins to send a message.  *)
LEMMA OutsideBus ==
    ASSUME PublishInv, Next, \A t \in Task : ~InsideBus(t)
    PROVE  /\ workers' = workers
           /\ \A m \in Message :
                 fate'[m] = fate[m] \/ (fate'[m] = "sending" /\ fate[m] = "unsent")
           /\ \A t \in Task :
                 pc[t] # "idle" => /\ pc'[t] = pc[t] /\ addr'[t] = addr[t]
                                   /\ t \in Publisher => ReplyAddress(t)' = ReplyAddress(t)
           /\ \A t \in Task : pc'[t] # "waiting" \/ pc[t] = "waiting"
<1> DEFINE Quiet(x) ==
        /\ x \in Task /\ pc[x] = "idle" /\ pc'[x] # "waiting"
        /\ \A u \in Task : u # x => pc'[u] = pc[u] /\ addr'[u] = addr[u]
        /\ \A p \in Publisher : p # x => my_id'[p] = my_id[p]
        /\ workers' = workers
        /\ \A m \in Message :
              fate'[m] = fate[m] \/ (fate'[m] = "sending" /\ fate[m] = "unsent")
<1>1. ASSUME NEW p \in Publisher, PublishStep(p) PROVE Quiet(p)
  <2>1. p \in Task
    BY Kinds
  <2>2. CASE LoadId(p) \/ StoreId(p) \/ Return(p)
    BY <2>1, <2>2 DEF LoadId, StoreId, Return, At, busVars, PublishInv, PubSubTypeOK
  <2>3. CASE SendRequest(p)
    BY <2>1, <2>3
       DEF SendRequest, CallSendData, Goto, PublishInv, PubSubTypeOK, TypeOK
  <2>4. CASE InitializeReply(p) \/ AwaitReply(p) \/ RemoveReply(p)
    BY <2>1, <2>4 DEF InitializeReply, AwaitReply, RemoveReply, CallInitialize,
                      CallRequestData, CallRemove, Goto, PublishInv, PubSubTypeOK, TypeOK
  <2> QED
    BY <1>1, <2>2, <2>3, <2>4 DEF PublishStep
<1>2. ASSUME NEW d \in Dispatcher, Dispatch(d) PROVE Quiet(d)
  BY <1>2, Kinds DEF Dispatch, CallSendData, Goto, PublishInv, PubSubTypeOK, TypeOK
<1>3. ASSUME SupervisorStep PROVE Quiet(Supervisor)
  <2>1. CASE BeginLoop \/ TakeData \/ \E r \in Replica : HandOver(r)
    BY <2>1, Kinds DEF BeginLoop, TakeData, HandOver, At, busVars
  <2>2. CASE SetupPublishing \/ AskForData
    BY <2>2, Kinds
       DEF SetupPublishing, AskForData, CallInitialize, CallRequestData, Goto,
                       PublishInv, PubSubTypeOK, TypeOK
  <2> QED
    BY <1>3, <2>1, <2>2 DEF SupervisorStep
<1>4. ASSUME NEW r \in Replica, ReplicaStep(r) PROVE Quiet(r)
  <2>1. CASE RunWithoutReply(r) \/ FinishReply(r)
    BY <2>1, Kinds DEF RunWithoutReply, FinishReply, At, busVars
  <2>2. CASE RunWithReply(r)
    BY <2>2, Kinds
       DEF RunWithReply, CallSendData, Goto, PublishInv, PubSubTypeOK, TypeOK
  <2> QED
    BY <1>4, <2>1, <2>2 DEF ReplicaStep
<1>5. PICK x : Quiet(x)
  <2> HIDE DEF Quiet
  <2> QED
    BY <1>1, <1>2, <1>3, <1>4 DEF Next
<1> QED
  BY <1>5 DEF ReplyAddress

(* The messages that a worker was taken for and not yet given back         *)
Held == {m \in Message : fate[m] \in {"claimed", "queued", "popped"}}

(* There are finitely many messages, so the held ones can be counted.      *)
LEMMA HeldFinite == IsFiniteSet(Held)
<1>1. Held \subseteq Message
  BY DEF Held
<1> QED
  BY <1>1, FS_Subset, BusAssumption

(* A claim makes one message held and takes a worker.                      *)
LEMMA LeakClaim ==
    ASSUME PublishInv, NoWorkerLeak, NEW t \in Task, ClaimWorker(t)
    PROVE  NoWorkerLeak'
<1>1. /\ msg[t] \in Message /\ fate[msg[t]] = "sending"
      /\ fate' = [fate EXCEPT ![msg[t]] = "claimed"] /\ workers' = workers - 1
  BY DEF PublishInv, BusInv, ClaimWorker, LocalsSet, FateKnown, Sending
<1>2. msg[t] \notin Held /\ Held' = Held \cup {msg[t]}
  BY <1>1 DEF Held, PublishInv, PubSubTypeOK, TypeOK
<1>3. Cardinality(Held') = Cardinality(Held) + 1
  BY <1>2, HeldFinite, FS_AddElement
<1>4. workers' = NWorkers - Cardinality(Held')
  BY <1>1, <1>3, HeldFinite, FS_CardinalityType, BusAssumption
     DEF NoWorkerLeak, Held
<1> QED
  BY <1>4 DEF NoWorkerLeak, Held

(* A credit gives the worker of one held message back.                     *)
LEMMA LeakCredit ==
    ASSUME PublishInv, NoWorkerLeak, NEW t \in Task, CreditWorker(t)
    PROVE  NoWorkerLeak'
<1>1. got[t] # NoMessage
  BY Requester, Messages DEF CreditWorker, RequestPoints, PublishInv, OwnFates
<1>2. /\ got[t] \in Message /\ fate[got[t]] = "popped"
      /\ fate' = [fate EXCEPT ![got[t]] = "delivered"] /\ workers' = workers + 1
  BY <1>1 DEF CreditWorker, PublishInv, BusInv, TypeOK, FateKnown
<1>3. got[t] \in Held /\ Held' = Held \ {got[t]}
  BY <1>2 DEF Held, PublishInv, PubSubTypeOK, TypeOK
<1>4. Cardinality(Held') = Cardinality(Held) - 1
  BY <1>3, HeldFinite, FS_RemoveElement
<1>5. workers' = NWorkers - Cardinality(Held')
  BY <1>2, <1>4, HeldFinite, FS_CardinalityType, BusAssumption
     DEF NoWorkerLeak, Held
<1> QED
  BY <1>5 DEF NoWorkerLeak, Held

(* No other step changes which messages are held.                          *)
LEMMA LeakStep ==
    ASSUME NamesDiffer, PublishInv, NoWorkerLeak, [Next]_vars
    PROVE  NoWorkerLeak'
<1>1. ASSUME workers' = workers,
             \A m \in Message : fate'[m] \in {"claimed", "queued", "popped"}
                                   <=> fate[m] \in {"claimed", "queued", "popped"}
      PROVE  NoWorkerLeak'
  <2>1. Held' = Held
    BY <1>1 DEF Held
  <2> QED
    BY <1>1, <2>1 DEF NoWorkerLeak, Held
<1>2. CASE UNCHANGED vars
  BY <1>1, <1>2 DEF vars, busVars
<1>3. CASE Next /\ \A t \in Task : ~InsideBus(t)
  BY <1>1, <1>3, OutsideBus
<1>4. ASSUME NEW t \in Task, InsideBus(t) PROVE NoWorkerLeak'
  <2>1. CASE ClaimWorker(t) \/ CreditWorker(t)
    BY <2>1, LeakClaim, LeakCredit
  <2>2. CASE CheckWorkers(t) \/ LookupNotifier(t) \/ LookupPanics(t) \/ NotifyWaiters(t)
    BY <1>1, <2>2 DEF CheckWorkers, LookupNotifier, LookupPanics, NotifyWaiters
  <2>3. CASE ReadLength(t) \/ ReadLengthPanics(t) \/ FetchNotifier(t)
             \/ FetchNotifierPanics(t) \/ ArmNotified(t)
    BY <1>1, <2>3
       DEF ReadLength, ReadLengthPanics, FetchNotifier, FetchNotifierPanics,
                      ArmNotified
  <2>4. CASE LockMemory(t) \/ FirstTick(t)
    BY <1>1, <2>4 DEF LockMemory, FirstTick
  <2>5. CASE PushMessage(t)
    <3>1. /\ workers' = workers /\ fate[msg[t]] = "claimed"
          /\ fate' = [fate EXCEPT ![msg[t]] = "queued"]
      BY <2>5 DEF PushMessage, PublishInv, BusInv, FateKnown
    <3> QED
      BY <1>1, <3>1 DEF PublishInv, PubSubTypeOK, TypeOK
  <2>6. CASE PopOne(t)
    <3>1. addr[t] \in Address /\ memory[addr[t]] # <<>>
      BY <2>6, UsedIsOpen DEF PopOne, RequestPoints, PublishInv, NoticesTrue
    <3> DEFINE m == Head(memory[addr[t]])
    <3>2. memory[addr[t]] \in Seq(Message) /\ IsInjective(memory[addr[t]])
      BY <3>1 DEF PublishInv, BusInv, TypeOK, QueuedOnce
    <3>3. m \in Range(memory[addr[t]])
      BY <3>1, <3>2, PopFirst
    <3>4. fate[m] = "queued" /\ fate' = [fate EXCEPT ![m] = "popped"] /\ workers' = workers
      BY <2>6, <3>1, <3>3 DEF PopOne, PublishInv, BusInv, FateKnown
    <3> QED
      BY <1>1, <3>4 DEF PublishInv, PubSubTypeOK, TypeOK
  <2>7. CASE InsertAddress(t) \/ RemoveAddress(t)
    <3>1. Range(memory[addr[t]]) = {}
      BY <2>7, QueueEmpty DEF InsertAddress, RemoveAddress
    <3>2. UNCHANGED <<workers, fate>>
      BY <2>7, <3>1
         DEF InsertAddress, RemoveAddress, DropQueue, PublishInv, PubSubTypeOK,
             TypeOK
    <3> QED
      BY <1>1, <3>2
  <2> QED
    BY <1>4, <2>1, <2>2, <2>3, <2>4, <2>5, <2>6, <2>7
       DEF InsideBus, BusStep, SendStep, RequestStep, AdminStep
<1> QED
  BY <1>2, <1>3, <1>4

(* The pool of workers is whole whenever no message is under way: nothing  *)
(* is dropped with its worker and no pop of an empty queue adds one, while *)
(* names differ (multibus.rs:75-76, 125-132).                              *)
THEOREM WorkersReturn == Spec /\ []NamesDiffer => []NoWorkerLeak
<1>1. Init => NoWorkerLeak
  <2> SUFFICES ASSUME Init PROVE NoWorkerLeak
    OBVIOUS
  <2>1. Held = {} /\ workers = NWorkers
    BY DEF Init, BusInit, Held
  <2>2. Cardinality(Held) = 0
    BY <2>1, FS_EmptySet
  <2> QED
    BY <2>1, <2>2, BusAssumption DEF NoWorkerLeak, Held
<1>2. NamesDiffer /\ PublishInv /\ NoWorkerLeak /\ [Next]_vars => NoWorkerLeak'
  BY LeakStep
<1> QED
  BY <1>1, <1>2, PublishInvInvariant, PTL DEF Spec

-----------------------------------------------------------------------------
(* Whoever is about to notify goes on to do so and does nothing else.      *)
LEMMA NotifierNotifies ==
    ASSUME PublishInv, [Next]_vars, NEW t \in Task, pc[t] \in {"lookup", "notify"}
    PROVE  \/ pc'[t] \in {"lookup", "notify"} /\ addr'[t] = addr[t]
           \/ NotifyWaiters(t)
<1>1. CASE UNCHANGED vars
  BY <1>1 DEF vars, busVars
<1>2. CASE Next /\ \A u \in Task : ~InsideBus(u)
  BY <1>2, OutsideBus
<1>3. ASSUME NEW u \in Task, InsideBus(u), u # t
      PROVE  pc'[t] \in {"lookup", "notify"} /\ addr'[t] = addr[t]
  <2>1. CASE SendStep(u)
    BY <1>3, <2>1
       DEF SendStep, CheckWorkers, ClaimWorker, PushMessage, LookupNotifier,
                      LookupPanics, NotifyWaiters, Goto, Leave, PublishInv, PubSubTypeOK, TypeOK
  <2>2. CASE RequestStep(u)
    BY <1>3, <2>2 DEF RequestStep, ReadLength, ReadLengthPanics, FetchNotifier,
                      FetchNotifierPanics, ArmNotified, PopOne, CreditWorker, Goto, Leave,
                      PublishInv, PubSubTypeOK, TypeOK
  <2>3. CASE AdminStep(u)
    BY <1>3, <2>3
       DEF AdminStep, LockMemory, InsertAddress, FirstTick, RemoveAddress,
                      Goto, Leave, PublishInv, PubSubTypeOK, TypeOK
  <2> QED
    BY <1>3, <2>1, <2>2, <2>3 DEF InsideBus, BusStep
<1>4. CASE InsideBus(t)
  <2>1. CASE LookupNotifier(t)
    BY <2>1 DEF LookupNotifier, Goto, PublishInv, PubSubTypeOK, TypeOK
  <2>2. ~LookupPanics(t)
    BY NobodyPanics
  <2> QED
    BY <1>4, <2>1, <2>2
       DEF InsideBus, BusStep, SendStep, RequestStep, AdminStep, CheckWorkers, ClaimWorker,
           PushMessage, ReadLength, ReadLengthPanics, FetchNotifier, FetchNotifierPanics,
           ArmNotified, PopOne, CreditWorker, LockMemory, InsertAddress, FirstTick,
           RemoveAddress
<1> QED
  BY <1>1, <1>2, <1>3, <1>4

(* A task comes to wait only from arm.                                     *)
LEMMA WaitsFromArm ==
    ASSUME PublishInv, [Next]_vars, NEW t \in Task, pc'[t] = "waiting", pc[t] # "waiting"
    PROVE  pc[t] = "arm"
<1>1. CASE UNCHANGED vars
  BY <1>1 DEF vars, busVars
<1>2. CASE Next /\ \A u \in Task : ~InsideBus(u)
  BY <1>2, OutsideBus
<1>3. ASSUME NEW u \in Task, InsideBus(u) PROVE pc[t] = "arm"
  <2>1. ~SendStep(u)
    BY <1>3 DEF SendStep, CheckWorkers, ClaimWorker, PushMessage, LookupNotifier,
                LookupPanics, NotifyWaiters, Goto, Leave, PublishInv, PubSubTypeOK, TypeOK
  <2>2. ~AdminStep(u)
    BY <1>3 DEF AdminStep, LockMemory, InsertAddress, FirstTick, RemoveAddress,
                Goto, Leave, PublishInv, PubSubTypeOK, TypeOK
  <2>3. CASE RequestStep(u)
    BY <1>3, <2>3 DEF RequestStep, ReadLength, ReadLengthPanics, FetchNotifier,
                FetchNotifierPanics, ArmNotified, PopOne, CreditWorker, Goto, Leave,
                PublishInv, PubSubTypeOK, TypeOK
  <2> QED
    BY <1>3, <2>1, <2>2, <2>3 DEF InsideBus, BusStep
<1> QED
  BY <1>1, <1>2, <1>3

(* A message is queued by the sender that pushes it.                       *)
LEMMA QueuedByPush ==
    ASSUME NamesDiffer, PublishInv, [Next]_vars, NEW m \in Message,
           fate'[m] = "queued", fate[m] # "queued"
    PROVE  \E t \in Task : PushMessage(t) /\ msg[t] = m
<1>1. ~UNCHANGED vars
  BY DEF vars, busVars
<1>2. PICK t \in Task : InsideBus(t)
  BY <1>1, OutsideBus
<1>3. ~RequestStep(t)
  BY <1>2 DEF RequestStep, ReadLength, ReadLengthPanics, FetchNotifier,
              FetchNotifierPanics, ArmNotified, PopOne, CreditWorker,
              PublishInv, PubSubTypeOK, TypeOK
<1>4. ~AdminStep(t)
  BY DEF AdminStep, LockMemory, InsertAddress, FirstTick, RemoveAddress, DropQueue
<1> QED
  BY <1>2, <1>3, <1>4 DEF InsideBus, BusStep, SendStep, CheckWorkers, ClaimWorker,
        PushMessage, LookupNotifier, LookupPanics, NotifyWaiters,
        PublishInv, PubSubTypeOK, TypeOK

(* A waiting publisher whose reply is queued has a notifier on the way, as *)
(* the sender that has pushed the reply is one, and it wakes all who wait  *)
(* on the Notify of the address.                                           *)
LEMMA MissStep ==
    ASSUME NamesDiffer, PublishInv, [Next]_vars, NEW p \in Publisher,
           MissedReply(p)', ~MissedReply(p)
    PROVE  pc[p] = "arm"
<1> SUFFICES ASSUME pc[p] # "arm" PROVE FALSE
  OBVIOUS
<1>1. /\ p \in Task /\ pc'[p] = "waiting" /\ pc[p] = "waiting"
      /\ addr[p] = ReplyAddress(p) /\ ReplyTo(p) \in Message
      /\ fate'[ReplyTo(p)] = "queued"
  BY Kinds, Messages, WaitsFromArm, Requester DEF MissedReply, RequestPoints
<1>2. ReplyAddress(p)' = ReplyAddress(p)
  BY <1>1, OutsideBus DEF vars, InsideBus, ReplyAddress
<1>3. \A r \in Replica :
         ~(pc'[r] \in {"lookup", "notify"} /\ addr'[r] = ReplyAddress(p))
  BY <1>2 DEF MissedReply
<1>4. CASE fate[ReplyTo(p)] # "queued"
  <2>1. PICK t \in Task : PushMessage(t) /\ msg[t] = ReplyTo(p)
    BY <1>1, <1>4, QueuedByPush
  <2>2. /\ pc[t] = "push" /\ pc'[t] = "lookup" /\ addr'[t] = addr[t]
    BY <2>1 DEF PushMessage, Goto, PublishInv, PubSubTypeOK, TypeOK
  <2>3. t \in Replica /\ addr[t] = ReplyAddress(p)
    BY <2>1, <2>2, Sender, Messages, Kinds
       DEF SendPoints, Sending, PublishInv, Arguments
  <2> QED
    BY <1>3, <2>2, <2>3
<1>5. CASE fate[ReplyTo(p)] = "queued"
  <2>1. PICK r \in Replica : pc[r] \in {"lookup", "notify"} /\ addr[r] = ReplyAddress(p)
    BY <1>1, <1>5 DEF MissedReply
  <2>2. NotifyWaiters(r) /\ r \in Task
    BY <1>3, <2>1, NotifierNotifies, Kinds
  <2>3. ref[r] = notifiers[addr[r]] /\ ref[p] = notifiers[addr[p]]
    BY <1>1, <2>2 DEF NotifyWaiters, PublishInv, OwnNotify
  <2>4. pc'[p] = "pop"
    BY <1>1, <2>1, <2>2, <2>3 DEF NotifyWaiters
  <2> QED
    BY <1>1, <2>4
<1> QED
  BY <1>4, <1>5

(* A publisher misses its reply only by being late with its notified():    *)
(* in no other way a step leaves it waiting with its reply in the queue    *)
(* (multibus.rs:87, 112).                                                  *)
THEOREM MissedByUnarmed == Spec /\ []NamesDiffer => OnlyUnarmedMissReply
<1>1. NamesDiffer /\ PublishInv /\ [Next]_vars
        => [\A p \in Publisher : MissedReply(p)' /\ ~MissedReply(p) => pc[p] = "arm"]_vars
  BY MissStep
<1> QED
  BY <1>1, PublishInvInvariant, PTL DEF Spec, OnlyUnarmedMissReply

=============================================================================
