----------------------------- MODULE RedisBusProofs -----------------------------
(***************************************************************************)
(* Proofs about publishing over Redis, for any callers, requests of the    *)
(* bus, processes and replicas.                                            *)
(***************************************************************************)
EXTENDS RedisBus, SequenceLemmas, FiniteSetTheorems, TLAPS

(* What a supervisor has taken and what it runs can be counted.            *)
FinitelyManyJobs ==
    \A s \in Service : IsFiniteSet(held[s]) /\ IsFiniteSet(running[s])

(* A connection without subscription holds nothing.                        *)
InboxWhileSubscribed ==
    \A s \in Service : service[s] # "subscribed" => inbox[s] = <<>>

(* How many messages had been published when those in the connection of a  *)
(* supervisor began                                                        *)
Before(s) == Len(log) - Len(inbox[s])

(* What is in a connection was published last, without a gap.              *)
InboxIsRecent ==
    \A s \in Service :
        /\ Len(inbox[s]) <= Len(log)
        /\ \A i \in 1..Len(inbox[s]) : inbox[s][i] = log[Before(s) + i]

(* f finds the messages of t in the first n of l, in their order.          *)
Embeds(f, t, l, n) ==
    /\ f \in [DOMAIN t -> 1..n]
    /\ \A i \in DOMAIN t : l[f[i]] = t[i]
    /\ \A i, j \in DOMAIN t : i < j => f[i] < f[j]

(* What a supervisor has taken was published in that order, and before     *)
(* what it can take next.                                                  *)
TakenBeforeInbox ==
    \A s \in Service : \E f : Embeds(f, taken[s], log, Before(s))

(* A request of a call is held or run by a supervisor that has taken it.   *)
TakenBeforeRun ==
    \A s \in Service, c \in Caller :
        RequestOf(c) \in held[s] \cup running[s] => RequestOf(c) \in Range(taken[s])

(* A call whose request is in the log listens or has ended.                *)
AskedByListening ==
    \A c \in Caller :
        RequestOf(c) \in Range(log) => caller[c] \in {"asked", "waiting", "ended"}

(* A reply is to the call, from a supervisor that has taken its request.   *)
IsOwn(c, r) == r[1] = c /\ RequestOf(c) \in Range(taken[r[2]])

RepliesOwn ==
    \A c \in Caller : \A i \in DOMAIN replies[c] : IsOwn(c, replies[c][i])

(* A call that was answered has asked, and its reply is in its connection. *)
AnswersThere ==
    \A a \in answered :
        caller[a[1]] \in {"asked", "waiting"} /\ replies[a[1]] # <<>>

RedisInv ==
    /\ RedisTypeOK
    /\ FinitelyManyJobs
    /\ InboxWhileSubscribed
    /\ InboxIsRecent
    /\ TakenBeforeInbox
    /\ TakenBeforeRun
    /\ AskedByListening
    /\ RepliesOwn
    /\ AnswersThere
    /\ OwnRedisReply

-----------------------------------------------------------------------------
(* An order that was found in a log is there when more of it is looked at, *)
(* and when it has grown.                                                  *)
LEMMA EmbedsWider ==
    ASSUME NEW S, NEW t \in Seq(S), NEW l \in Seq(S), NEW f,
           NEW n \in Nat, NEW k \in Nat, n <= k, Embeds(f, t, l, n)
    PROVE  Embeds(f, t, l, k)
<1>1. \A i \in DOMAIN t : f[i] \in 1..k
  BY DEF Embeds
<1>2. f \in [DOMAIN t -> 1..k]
  BY <1>1 DEF Embeds
<1> QED
  BY <1>2 DEF Embeds

LEMMA EmbedsLonger ==
    ASSUME NEW S, NEW t \in Seq(S), NEW l \in Seq(S), NEW e \in S, NEW f,
           NEW n \in Nat, NEW k \in Nat, n <= Len(l), n <= k, Embeds(f, t, l, n)
    PROVE  Embeds(f, t, Append(l, e), k)
<1>1. \A i \in DOMAIN t : f[i] \in 1..Len(l)
  BY DEF Embeds
<1>2. \A i \in 1..Len(l) : Append(l, e)[i] = l[i]
  OBVIOUS
<1>3. Embeds(f, t, l, k)
  BY EmbedsWider
<1> QED
  BY <1>1, <1>2, <1>3 DEF Embeds

(* A later message of the log may follow those that were found.            *)
LEMMA EmbedsNext ==
    ASSUME NEW S, NEW t \in Seq(S), NEW l \in Seq(S), NEW f, NEW n \in Nat,
           NEW k \in 1..Len(l), n < k, Embeds(f, t, l, n)
    PROVE  \E g : Embeds(g, Append(t, l[k]), l, Len(l))
<1> DEFINE last == Len(t) + 1
           g == [i \in 1..last |-> IF i = last THEN k ELSE f[i]]
<1>1. Len(t) \in Nat /\ DOMAIN t = 1..Len(t) /\ l[k] \in S
  OBVIOUS
<1>2. \A i \in 1..Len(t) : f[i] \in 1..n /\ f[i] \in 1..Len(l)
  BY <1>1 DEF Embeds
<1>3. /\ DOMAIN Append(t, l[k]) = 1..last
      /\ \A i \in 1..Len(t) : Append(t, l[k])[i] = t[i]
      /\ Append(t, l[k])[last] = l[k]
  BY <1>1
<1>4. \A i \in 1..Len(t) : g[i] = f[i] /\ i # last
  BY <1>1
<1>5. g[last] = k
  BY <1>1
<1>6. \A i \in 1..last : i = last \/ i \in 1..Len(t)
  BY <1>1
<1>7. g \in [1..last -> 1..Len(l)]
  BY <1>2, <1>4, <1>5, <1>6
<1>8. \A i \in 1..last : l[g[i]] = Append(t, l[k])[i]
  BY <1>1, <1>3, <1>4, <1>5, <1>6 DEF Embeds
<1>9. ASSUME NEW i \in 1..last, NEW j \in 1..last, i < j PROVE g[i] < g[j]
  <2>1. i \in 1..Len(t)
    BY <1>1, <1>9
  <2>2. CASE j = last
    BY <1>2, <1>4, <1>5, <2>1, <2>2
  <2>3. CASE j \in 1..Len(t)
    BY <1>1, <1>4, <1>9, <2>1, <2>3 DEF Embeds
  <2> QED
    BY <1>6, <2>2, <2>3
<1> HIDE DEF g, last
<1>10. Embeds(g, Append(t, l[k]), l, Len(l))
  BY <1>3, <1>7, <1>8, <1>9 DEF Embeds
<1> QED
  BY <1>10

(* What a message is                                                       *)
LEMMA MessageTypes ==
    /\ \A c \in Caller : RequestOf(c) \in TopicMessage /\ EventOf(c) \in TopicMessage
    /\ \A c \in Caller, d \in Caller :
          /\ RequestOf(c) # EventOf(d)
          /\ RequestOf(c) = RequestOf(d) => c = d
    /\ \A c \in Caller, b \in BusRequest : BusOf(b) # RequestOf(c)
    /\ \A b \in BusRequest : BusOf(b) \in Job
    /\ TopicMessage \subseteq Job
  BY DEF RequestOf, EventOf, BusOf, TopicMessage, Job

(* One job or reply is at most one.                                        *)
LEMMA OneJob == ASSUME NEW m PROVE IsFiniteSet({m}) /\ Cardinality({m}) <= 1
<1>1. IsFiniteSet({m}) /\ Cardinality({m}) = 1
  BY FS_Singleton
<1> QED
  BY <1>1

(* PUBLISH makes the log longer by a message.                              *)
LEMMA PublishGrowsLog ==
    ASSUME RedisTypeOK, NEW m \in TopicMessage, PublishToTopic(m)
    PROVE  /\ log' \in Seq(TopicMessage)
           /\ inbox' \in [Service -> Seq(TopicMessage)]
           /\ Len(log') = Len(log) + 1
           /\ Range(log') = Range(log) \cup {m}
<1>1. log \in Seq(TopicMessage) /\ log' = Append(log, m)
  BY DEF RedisTypeOK, PublishToTopic
<1>2. inbox' \in [Service -> Seq(TopicMessage)]
  BY DEF RedisTypeOK, PublishToTopic
<1> QED
  BY <1>1, <1>2, AppendRange

(* The end of a call leaves the variables of the others alone.             *)
LEMMA EndTyped ==
    ASSUME RedisTypeOK, NEW c \in Caller, End(c)
    PROVE  /\ caller' \in [Caller -> CallStages]
           /\ replies' \in [Caller -> Seq(Reply)]
           /\ answered' \subseteq Reply
           /\ caller'[c] = "ended"
           /\ \A d \in Caller \ {c} : caller'[d] = caller[d] /\ replies'[d] = replies[d]
           /\ \A i \in DOMAIN replies'[c] : FALSE
<1>1. <<>> \in Seq(Reply) /\ \A i \in DOMAIN <<>> : FALSE
  OBVIOUS
<1> QED
  BY <1>1 DEF RedisTypeOK, End, CallStages

(* The end of a run leaves the supervisors as they were.                   *)
LEMMA EndRunTyped ==
    ASSUME RedisInv, NEW s \in Service, NEW m, EndRun(s, m)
    PROVE  /\ running' \in [Service -> SUBSET Job]
           /\ \A t \in Service :
                 /\ running'[t] \subseteq running[t]
                 /\ IsFiniteSet(running'[t])
                 /\ Cardinality(running'[t]) <= NrReplicas
<1>1. running' \in [Service -> SUBSET Job]
  BY DEF RedisInv, RedisTypeOK, EndRun
<1>2. \A t \in Service : running'[t] \subseteq running[t]
  BY DEF RedisInv, RedisTypeOK, EndRun
<1>3. ASSUME NEW t \in Service
      PROVE  /\ IsFiniteSet(running'[t])
             /\ Cardinality(running'[t]) <= NrReplicas
  <2>1. IsFiniteSet(running[t]) /\ Cardinality(running[t]) <= NrReplicas
    BY DEF RedisInv, RedisTypeOK, FinitelyManyJobs
  <2>2. /\ IsFiniteSet(running'[t])
        /\ Cardinality(running'[t]) <= Cardinality(running[t])
    BY <1>2, <2>1, FS_Subset
  <2> QED
    BY <2>1, <2>2, FS_CardinalityType, RedisAssumption
<1> QED
  BY <1>1, <1>2, <1>3

(* A run that is handed over is one more.                                  *)
LEMMA HandOverTyped ==
    ASSUME RedisInv, NEW s \in Service, HandOver(s)
    PROVE  /\ running' \in [Service -> SUBSET Job]
           /\ \A t \in Service : /\ IsFiniteSet(running'[t])
                                 /\ Cardinality(running'[t]) <= NrReplicas
<1> USE DEF RedisInv
<1>1. held[s] \subseteq Job /\ running[s] \subseteq Job
  BY DEF RedisTypeOK
<1>2. /\ running' = [running EXCEPT ![s] = running[s] \cup held[s]]
      /\ running \in [Service -> SUBSET Job]
  BY DEF RedisTypeOK, HandOver
<1>3. running' \in [Service -> SUBSET Job]
  BY <1>1, <1>2
<1>4. /\ running'[s] = running[s] \cup held[s]
      /\ \A t \in Service \ {s} : running'[t] = running[t]
  BY <1>2
<1>5. IsFiniteSet(running[s]) /\ IsFiniteSet(held[s])
  BY DEF FinitelyManyJobs
<1>6. /\ IsFiniteSet(running'[s])
      /\ Cardinality(running'[s]) <= Cardinality(running[s]) + Cardinality(held[s])
  <2>1. /\ IsFiniteSet(running'[s])
        /\ Cardinality(running'[s]) = Cardinality(running[s]) + Cardinality(held[s])
                                         - Cardinality(running[s] \cap held[s])
    BY <1>4, <1>5, FS_Union
  <2>2. /\ Cardinality(running[s]) \in Nat /\ Cardinality(held[s]) \in Nat
        /\ Cardinality(running[s] \cap held[s]) \in Nat
    BY <1>5, FS_CardinalityType, FS_Intersection
  <2> QED
    BY <2>1, <2>2
<1>7. Cardinality(running'[s]) <= NrReplicas
  <2>1. Cardinality(running[s]) < NrReplicas /\ Cardinality(held[s]) <= 1
    BY DEF HandOver, RedisTypeOK
  <2>2. /\ Cardinality(running[s]) \in Nat /\ Cardinality(held[s]) \in Nat
        /\ Cardinality(running'[s]) \in Nat
    BY <1>5, <1>6, FS_CardinalityType
  <2> QED
    BY <1>6, <2>1, <2>2, RedisAssumption
<1>8. \A t \in Service \ {s} : /\ IsFiniteSet(running'[t])
                              /\ Cardinality(running'[t]) <= NrReplicas
  BY <1>4 DEF FinitelyManyJobs, RedisTypeOK
<1> QED
  BY <1>3, <1>6, <1>7, <1>8

(* The message a supervisor takes from its connection                      *)
LEMMA FirstOfInbox ==
    ASSUME RedisInv, NEW s \in Service, TakeFromRedis(s)
    PROVE  /\ Head(inbox[s]) \in TopicMessage
           /\ Before(s) \in Nat /\ Before(s) + 1 \in 1..Len(log)
           /\ Head(inbox[s]) = log[Before(s) + 1]
<1>1. inbox[s] \in Seq(TopicMessage) /\ inbox[s] # <<>> /\ log \in Seq(TopicMessage)
  BY DEF RedisInv, RedisTypeOK, TakeFromRedis
<1>2. Len(inbox[s]) \in Nat /\ Len(inbox[s]) >= 1 /\ Head(inbox[s]) = inbox[s][1]
  BY <1>1
<1>3. Len(inbox[s]) <= Len(log) /\ inbox[s][1] = log[Before(s) + 1]
  BY <1>2 DEF RedisInv, InboxIsRecent
<1>4. Len(log) \in Nat /\ Head(inbox[s]) \in TopicMessage
  BY <1>1
<1>5. Before(s) \in Nat /\ Before(s) + 1 \in 1..Len(log)
  BY <1>2, <1>3, <1>4 DEF Before
<1> QED
  BY <1>2, <1>3, <1>4, <1>5

(* Types                                                                  *)
LEMMA RedisTypeOKStep == RedisInv /\ [Next]_vars => RedisTypeOK'
<1> SUFFICES ASSUME RedisInv, [Next]_vars PROVE RedisTypeOK'
  OBVIOUS
<1> USE DEF RedisInv
<1>1. ASSUME NEW c \in Caller, SubscribeReply(c) PROVE RedisTypeOK'
  BY <1>1 DEF RedisTypeOK, SubscribeReply, callerVars, serviceVars,
     CallStages, ServiceStages
<1>2. ASSUME NEW c \in Caller, ReturnUnconfigured(c) PROVE RedisTypeOK'
  <2>1. /\ caller' \in [Caller -> CallStages] /\ replies' \in [Caller -> Seq(Reply)]
        /\ answered' \subseteq Reply
    BY <1>2, EndTyped DEF ReturnUnconfigured
  <2> QED
    BY <1>2, <2>1 DEF ReturnUnconfigured, RedisTypeOK, serviceVars
<1>3. ASSUME NEW c \in Caller, PublishRequest(c) PROVE RedisTypeOK'
  <2>1. log' \in Seq(TopicMessage) /\ inbox' \in [Service -> Seq(TopicMessage)]
    BY <1>3, PublishGrowsLog, MessageTypes DEF PublishRequest
  <2>2. caller' \in [Caller -> CallStages]
    BY <1>3 DEF PublishRequest, RedisTypeOK, CallStages
  <2> QED
    BY <1>3, <2>1, <2>2 DEF PublishRequest, RedisTypeOK, serviceVars
<1>4. ASSUME NEW c \in Caller, AwaitReply(c) PROVE RedisTypeOK'
  BY <1>4 DEF RedisTypeOK, AwaitReply, callerVars, serviceVars, CallStages,
     ServiceStages
<1>5. ASSUME NEW c \in Caller, ReceiveReply(c) PROVE RedisTypeOK'
  <2>1. /\ caller' \in [Caller -> CallStages] /\ replies' \in [Caller -> Seq(Reply)]
        /\ answered' \subseteq Reply
    BY <1>5, EndTyped DEF ReceiveReply
  <2>2. Head(replies[c]) \in Reply
    BY <1>5 DEF ReceiveReply, RedisTypeOK
  <2>3. response' \in [Caller -> SUBSET Reply]
    BY <1>5, <2>2 DEF ReceiveReply, RedisTypeOK
  <2>4. \A d \in Caller : Cardinality(response'[d]) <= 1
    <3>1. Cardinality({Head(replies[c])}) <= 1
      BY OneJob
    <3>2. response'[c] = {Head(replies[c])}
      BY <1>5 DEF ReceiveReply, RedisTypeOK
    <3>3. \A d \in Caller \ {c} : response'[d] = response[d]
      BY <1>5 DEF ReceiveReply, RedisTypeOK
    <3> QED
      BY <3>1, <3>2, <3>3 DEF RedisTypeOK
  <2> QED
    BY <1>5, <2>1, <2>3, <2>4 DEF ReceiveReply, RedisTypeOK, serviceVars
<1>6. ASSUME NEW c \in Caller, Timeout(c) PROVE RedisTypeOK'
  <2>1. /\ caller' \in [Caller -> CallStages] /\ replies' \in [Caller -> Seq(Reply)]
        /\ answered' \subseteq Reply
    BY <1>6, EndTyped DEF Timeout
  <2> QED
    BY <1>6, <2>1 DEF Timeout, RedisTypeOK, serviceVars
<1>7. ASSUME NEW c \in Caller, CallPanics(c) PROVE RedisTypeOK'
  <2>1. /\ caller' \in [Caller -> CallStages] /\ replies' \in [Caller -> Seq(Reply)]
        /\ answered' \subseteq Reply
    BY <1>7, EndTyped DEF CallPanics
  <2> QED
    BY <1>7, <2>1 DEF CallPanics, RedisTypeOK, serviceVars
<1>8. ASSUME NEW c \in Caller, DispatchEvent(c) PROVE RedisTypeOK'
  <2>1. log' \in Seq(TopicMessage) /\ inbox' \in [Service -> Seq(TopicMessage)]
    BY <1>8, PublishGrowsLog, MessageTypes DEF DispatchEvent
  <2>2. /\ caller' \in [Caller -> CallStages] /\ replies' \in [Caller -> Seq(Reply)]
        /\ answered' \subseteq Reply
    BY <1>8, EndTyped DEF DispatchEvent
  <2> QED
    BY <1>8, <2>1, <2>2 DEF DispatchEvent, RedisTypeOK, serviceVars
<1>9. ASSUME NEW s \in Service, WriteRedisUrl(s) PROVE RedisTypeOK'
  BY <1>9 DEF RedisTypeOK, WriteRedisUrl, callerVars, serviceVars,
     CallStages, ServiceStages
<1>10. ASSUME NEW s \in Service, NEW b \in BusRequest, ArriveOnBus(s, b)
      PROVE  RedisTypeOK'
  BY <1>10 DEF RedisTypeOK, ArriveOnBus, callerVars, serviceVars,
     CallStages, ServiceStages
<1>11. ASSUME NEW s \in Service, BeginLoop(s) PROVE RedisTypeOK'
  BY <1>11 DEF RedisTypeOK, BeginLoop, callerVars, serviceVars, CallStages,
     ServiceStages
<1>12. ASSUME NEW s \in Service, Subscribe(s) PROVE RedisTypeOK'
  BY <1>12 DEF RedisTypeOK, Subscribe, callerVars, serviceVars, CallStages,
     ServiceStages
<1>13. ASSUME NEW s \in Service, TakeFromRedis(s) PROVE RedisTypeOK'
  <2>1. Head(inbox[s]) \in TopicMessage /\ Head(inbox[s]) \in Job
    BY <1>13, FirstOfInbox, MessageTypes
  <2>2. held' \in [Service -> SUBSET Job]
    BY <1>13, <2>1 DEF TakeFromRedis, RedisTypeOK
  <2>3. taken' \in [Service -> Seq(TopicMessage)]
    BY <1>13, <2>1 DEF TakeFromRedis, RedisTypeOK
  <2>4. inbox' \in [Service -> Seq(TopicMessage)]
    BY <1>13 DEF TakeFromRedis, RedisTypeOK
  <2>5. pending' \in [Service -> SUBSET BusRequest]
    BY <1>13 DEF TakeFromRedis, DropRequestData, RedisTypeOK
  <2>6. \A t \in Service : Cardinality(held'[t]) <= 1
    <3>1. Cardinality(held'[s]) <= 1
      BY <1>13, OneJob DEF TakeFromRedis, RedisTypeOK
    <3>2. \A t \in Service \ {s} : held'[t] = held[t]
      BY <1>13 DEF TakeFromRedis, RedisTypeOK
    <3> QED
      BY <3>1, <3>2 DEF RedisTypeOK
  <2>7. service' \in [Service -> ServiceStages]
    BY <1>13 DEF TakeFromRedis, RedisTypeOK, ServiceStages
  <2> QED
    BY <1>13, <2>2, <2>3, <2>4, <2>5, <2>6, <2>7
       DEF TakeFromRedis, RedisTypeOK, callerVars
<1>14. ASSUME NEW s \in Service, TakeFromBus(s) PROVE RedisTypeOK'
  <2>1. PICK b \in pending[s] :
            /\ held' = [held EXCEPT ![s] = {BusOf(b)}]
            /\ pending' = [pending EXCEPT ![s] = pending[s] \ {b}]
    BY <1>14 DEF TakeFromBus
  <2>2. BusOf(b) \in Job
    BY <2>1, MessageTypes DEF RedisTypeOK
  <2>3. held' \in [Service -> SUBSET Job]
    BY <2>1, <2>2 DEF RedisTypeOK
  <2>4. \A t \in Service : Cardinality(held'[t]) <= 1
    <3>1. Cardinality(held'[s]) <= 1
      BY <2>1, OneJob DEF RedisTypeOK
    <3>2. \A t \in Service \ {s} : held'[t] = held[t]
      BY <2>1 DEF RedisTypeOK
    <3> QED
      BY <3>1, <3>2 DEF RedisTypeOK
  <2>5. pending' \in [Service -> SUBSET BusRequest]
    BY <2>1 DEF RedisTypeOK
  <2>6. inbox' \in [Service -> Seq(TopicMessage)]
    BY <1>14 DEF TakeFromBus, RedisTypeOK
  <2>7. service' \in [Service -> ServiceStages]
    BY <1>14 DEF TakeFromBus, RedisTypeOK, ServiceStages
  <2> QED
    BY <1>14, <2>3, <2>4, <2>5, <2>6, <2>7 DEF TakeFromBus, RedisTypeOK, callerVars
<1>15. ASSUME NEW s \in Service, SupervisorPanics(s) PROVE RedisTypeOK'
  <2>1. inbox' \in [Service -> Seq(TopicMessage)]
    BY <1>15 DEF SupervisorPanics, RedisTypeOK
  <2>2. pending' \in [Service -> SUBSET BusRequest]
    BY <1>15 DEF SupervisorPanics, DropRequestData, RedisTypeOK
  <2>3. service' \in [Service -> ServiceStages]
    BY <1>15 DEF SupervisorPanics, RedisTypeOK, ServiceStages
  <2> QED
    BY <1>15, <2>1, <2>2, <2>3 DEF SupervisorPanics, RedisTypeOK, callerVars
<1>16. ASSUME NEW s \in Service, HandOver(s) PROVE RedisTypeOK'
  <2>1. /\ running' \in [Service -> SUBSET Job]
        /\ \A t \in Service : Cardinality(running'[t]) <= NrReplicas
    BY <1>16, HandOverTyped
  <2>2. held' \in [Service -> SUBSET Job]
    BY <1>16 DEF HandOver, RedisTypeOK
  <2>3. \A t \in Service : Cardinality(held'[t]) <= 1
    BY <1>16, FS_EmptySet DEF HandOver, RedisTypeOK
  <2>4. service' \in [Service -> ServiceStages]
    BY <1>16 DEF HandOver, RedisTypeOK, ServiceStages
  <2> QED
    BY <1>16, <2>1, <2>2, <2>3, <2>4 DEF HandOver, RedisTypeOK, callerVars
<1>17. ASSUME NEW s \in Service, NEW c \in Caller, FinishWithReply(s, c)
      PROVE  RedisTypeOK'
  <2>1. /\ running' \in [Service -> SUBSET Job]
        /\ \A t \in Service : Cardinality(running'[t]) <= NrReplicas
    BY <1>17, EndRunTyped DEF FinishWithReply
  <2>2. <<c, s>> \in Reply
    BY DEF Reply
  <2>3. replies' \in [Caller -> Seq(Reply)]
    BY <1>17, <2>2 DEF FinishWithReply, RedisTypeOK
  <2>4. answered' \subseteq Reply
    BY <1>17, <2>2 DEF FinishWithReply, RedisTypeOK
  <2> QED
    BY <1>17, <2>1, <2>3, <2>4 DEF FinishWithReply, EndRun, RedisTypeOK
<1>18. ASSUME NEW s \in Service, NEW m \in Job, FinishWithoutReply(s, m)
      PROVE  RedisTypeOK'
  <2>1. /\ running' \in [Service -> SUBSET Job]
        /\ \A t \in Service : Cardinality(running'[t]) <= NrReplicas
    BY <1>18, EndRunTyped DEF FinishWithoutReply
  <2> QED
    BY <1>18, <2>1 DEF FinishWithoutReply, EndRun, RedisTypeOK, callerVars
<1>19. CASE UNCHANGED vars
  BY <1>19 DEF RedisTypeOK, vars, callerVars, serviceVars
<1> QED
  BY <1>1, <1>2, <1>3, <1>4, <1>5, <1>6, <1>7, <1>8, <1>9, <1>10, <1>11,
     <1>12, <1>13, <1>14, <1>15, <1>16, <1>17, <1>18, <1>19 DEF Next,
     CallStep

(* Jobs come one by one.                                                  *)
LEMMA FinitelyManyJobsStep == RedisInv /\ [Next]_vars => FinitelyManyJobs'
<1> SUFFICES ASSUME RedisInv, [Next]_vars PROVE FinitelyManyJobs'
  OBVIOUS
<1> USE DEF RedisInv
<1>1. ASSUME NEW s \in Service, TakeFromRedis(s) PROVE FinitelyManyJobs'
  <2>1. PICK m : held' = [held EXCEPT ![s] = {m}]
    BY <1>1 DEF TakeFromRedis
  <2>2. \A t \in Service : IsFiniteSet(held'[t])
    <3>1. IsFiniteSet({m})
      BY OneJob
    <3> QED
      BY <2>1, <3>1 DEF FinitelyManyJobs, RedisTypeOK
  <2> QED
    BY <1>1, <2>2 DEF TakeFromRedis, FinitelyManyJobs
<1>2. ASSUME NEW s \in Service, TakeFromBus(s) PROVE FinitelyManyJobs'
  <2>1. PICK m : held' = [held EXCEPT ![s] = {m}]
    BY <1>2 DEF TakeFromBus
  <2>2. \A t \in Service : IsFiniteSet(held'[t])
    <3>1. IsFiniteSet({m})
      BY OneJob
    <3> QED
      BY <2>1, <3>1 DEF FinitelyManyJobs, RedisTypeOK
  <2> QED
    BY <1>2, <2>2 DEF TakeFromBus, FinitelyManyJobs
<1>3. ASSUME NEW s \in Service, HandOver(s) PROVE FinitelyManyJobs'
  <2>1. \A t \in Service : IsFiniteSet(held'[t])
    BY <1>3, FS_EmptySet DEF HandOver, FinitelyManyJobs, RedisTypeOK
  <2> QED
    BY <1>3, <2>1, HandOverTyped DEF FinitelyManyJobs
<1>4. ASSUME NEW s \in Service, NEW c \in Caller, FinishWithReply(s, c)
      PROVE  FinitelyManyJobs'
  BY <1>4, EndRunTyped DEF FinishWithReply, EndRun, FinitelyManyJobs
<1>5. ASSUME NEW s \in Service, NEW m \in Job, FinishWithoutReply(s, m)
      PROVE  FinitelyManyJobs'
  BY <1>5, EndRunTyped DEF FinishWithoutReply, EndRun, FinitelyManyJobs
<1>6. ASSUME NEW c \in Caller,
             \/ SubscribeReply(c) \/ ReturnUnconfigured(c)
             \/ PublishRequest(c) \/ AwaitReply(c) \/ ReceiveReply(c)
             \/ Timeout(c) \/ CallPanics(c) \/ DispatchEvent(c)
      PROVE  FinitelyManyJobs'
  BY <1>6 DEF FinitelyManyJobs, SubscribeReply, ReturnUnconfigured,
     PublishRequest, AwaitReply, ReceiveReply, Timeout, CallPanics,
     DispatchEvent, End, PublishToTopic, callerVars, serviceVars
<1>7. ASSUME NEW s \in Service,
             \/ WriteRedisUrl(s) \/ BeginLoop(s) \/ Subscribe(s)
             \/ SupervisorPanics(s)
      PROVE  FinitelyManyJobs'
  BY <1>7 DEF FinitelyManyJobs, WriteRedisUrl, BeginLoop, Subscribe,
     SupervisorPanics, DropRequestData, callerVars, serviceVars
<1>8. ASSUME NEW s \in Service, NEW b \in BusRequest, ArriveOnBus(s, b)
      PROVE  FinitelyManyJobs'
  BY <1>8 DEF FinitelyManyJobs, ArriveOnBus, callerVars, serviceVars
<1>9. CASE UNCHANGED vars
  BY <1>9 DEF FinitelyManyJobs, vars, callerVars, serviceVars
<1> QED
  BY <1>1, <1>2, <1>3, <1>4, <1>5, <1>6, <1>7, <1>8, <1>9 DEF Next, CallStep

(* PUBLISH reaches those who are subscribed, and who leaves drops the rest. *)
LEMMA InboxWhileSubscribedStep == RedisInv /\ [Next]_vars => InboxWhileSubscribed'
<1> SUFFICES ASSUME RedisInv, [Next]_vars PROVE InboxWhileSubscribed'
  OBVIOUS
<1> USE DEF RedisInv
<1>1. ASSUME NEW c \in Caller, PublishRequest(c) PROVE InboxWhileSubscribed'
  BY <1>1 DEF InboxWhileSubscribed, PublishRequest, PublishToTopic,
     callerVars, serviceVars, RedisTypeOK
<1>2. ASSUME NEW c \in Caller, DispatchEvent(c) PROVE InboxWhileSubscribed'
  BY <1>2 DEF InboxWhileSubscribed, DispatchEvent, End, PublishToTopic,
     callerVars, serviceVars, RedisTypeOK
<1>3. ASSUME NEW s \in Service, BeginLoop(s) PROVE InboxWhileSubscribed'
  BY <1>3 DEF InboxWhileSubscribed, BeginLoop, callerVars, serviceVars,
     RedisTypeOK
<1>4. ASSUME NEW s \in Service, Subscribe(s) PROVE InboxWhileSubscribed'
  BY <1>4 DEF InboxWhileSubscribed, Subscribe, callerVars, serviceVars,
     RedisTypeOK
<1>5. ASSUME NEW s \in Service, TakeFromRedis(s) PROVE InboxWhileSubscribed'
  BY <1>5 DEF InboxWhileSubscribed, TakeFromRedis, DropRequestData,
     callerVars, serviceVars, RedisTypeOK
<1>6. ASSUME NEW s \in Service, TakeFromBus(s) PROVE InboxWhileSubscribed'
  BY <1>6 DEF InboxWhileSubscribed, TakeFromBus, callerVars, serviceVars,
     RedisTypeOK
<1>7. ASSUME NEW s \in Service, SupervisorPanics(s)
      PROVE  InboxWhileSubscribed'
  BY <1>7 DEF InboxWhileSubscribed, SupervisorPanics, DropRequestData,
     callerVars, serviceVars, RedisTypeOK
<1>8. ASSUME NEW s \in Service, HandOver(s) PROVE InboxWhileSubscribed'
  BY <1>8 DEF InboxWhileSubscribed, HandOver, callerVars, serviceVars,
     RedisTypeOK
<1>9. ASSUME NEW c \in Caller,
             \/ SubscribeReply(c) \/ ReturnUnconfigured(c)
             \/ AwaitReply(c) \/ ReceiveReply(c) \/ Timeout(c)
             \/ CallPanics(c)
      PROVE  InboxWhileSubscribed'
  BY <1>9 DEF InboxWhileSubscribed, SubscribeReply, ReturnUnconfigured,
     AwaitReply, ReceiveReply, Timeout, CallPanics, End, callerVars,
     serviceVars
<1>10. ASSUME NEW s \in Service, WriteRedisUrl(s) PROVE InboxWhileSubscribed'
  BY <1>10 DEF InboxWhileSubscribed, WriteRedisUrl, callerVars, serviceVars
<1>11. ASSUME NEW s \in Service, NEW b \in BusRequest, ArriveOnBus(s, b)
      PROVE  InboxWhileSubscribed'
  BY <1>11 DEF InboxWhileSubscribed, ArriveOnBus, callerVars, serviceVars
<1>12. ASSUME NEW s \in Service, NEW c \in Caller, FinishWithReply(s, c)
      PROVE  InboxWhileSubscribed'
  BY <1>12 DEF InboxWhileSubscribed, FinishWithReply, EndRun, Listening,
     ReplyChannel, callerVars, serviceVars
<1>13. ASSUME NEW s \in Service, NEW m \in Job, FinishWithoutReply(s, m)
      PROVE  InboxWhileSubscribed'
  BY <1>13 DEF InboxWhileSubscribed, FinishWithoutReply, EndRun, callerVars,
     serviceVars
<1>14. CASE UNCHANGED vars
  BY <1>14 DEF InboxWhileSubscribed, vars, callerVars, serviceVars
<1> QED
  BY <1>1, <1>2, <1>3, <1>4, <1>5, <1>6, <1>7, <1>8, <1>9, <1>10, <1>11,
     <1>12, <1>13, <1>14 DEF Next, CallStep

(* PUBLISH appends to the log and to the connections that are subscribed.  *)
LEMMA PublishStaysRecent ==
    ASSUME RedisInv, NEW m \in TopicMessage, PublishToTopic(m)
    PROVE  InboxIsRecent'
<1> USE DEF RedisInv
<1> SUFFICES ASSUME NEW s \in Service
             PROVE  /\ Len(inbox'[s]) <= Len(log')
                    /\ \A i \in 1..Len(inbox'[s]) :
                          inbox'[s][i] = log'[Before(s)' + i]
  BY DEF InboxIsRecent
<1> DEFINE box == inbox[s]
<1>1. /\ box \in Seq(TopicMessage) /\ log \in Seq(TopicMessage)
      /\ log' = Append(log, m) /\ Len(box) \in Nat /\ Len(log) \in Nat
  BY DEF PublishToTopic, RedisTypeOK
<1>2. /\ Len(box) <= Len(log)
      /\ \A i \in 1..Len(box) : box[i] = log[Len(log) - Len(box) + i]
  BY DEF InboxIsRecent, Before
<1>3. CASE service[s] = "subscribed"
  <2>1. inbox'[s] = Append(box, m)
    BY <1>3 DEF PublishToTopic
  <2> HIDE DEF box
  <2>2. Len(inbox'[s]) = Len(box) + 1 /\ Len(log') = Len(log) + 1
    BY <1>1, <2>1
  <2>3. Before(s)' = Len(log) - Len(box)
    BY <1>1, <2>2 DEF Before
  <2>4. ASSUME NEW i \in 1..Len(box)
        PROVE  inbox'[s][i] = log'[Before(s)' + i]
    <3>1. Len(log) - Len(box) + i \in 1..Len(log)
      BY <1>1, <1>2
    <3>2. log'[Len(log) - Len(box) + i] = log[Len(log) - Len(box) + i]
      BY <1>1, <3>1
    <3>3. inbox'[s][i] = box[i]
      BY <1>1, <2>1
    <3> QED
      BY <1>2, <2>3, <3>2, <3>3
  <2>5. inbox'[s][Len(box) + 1] = log'[Before(s)' + Len(box) + 1]
    <3>1. Before(s)' + Len(box) + 1 = Len(log) + 1
      BY <1>1, <2>3
    <3>2. log'[Len(log) + 1] = m /\ inbox'[s][Len(box) + 1] = m
      BY <1>1, <2>1
    <3> QED
      BY <3>1, <3>2
  <2>6. Before(s)' + (Len(box) + 1) = Before(s)' + Len(box) + 1
    BY <1>1, <2>3
  <2>7. \A i \in 1..Len(box) + 1 : i \in 1..Len(box) \/ i = Len(box) + 1
    BY <1>1
  <2>8. \A i \in 1..Len(box) + 1 : inbox'[s][i] = log'[Before(s)' + i]
    BY <2>4, <2>5, <2>6, <2>7
  <2>9. Len(inbox'[s]) <= Len(log')
    BY <1>1, <1>2, <2>2
  <2> QED
    BY <2>2, <2>8, <2>9
<1>4. CASE service[s] # "subscribed"
  <2>1. inbox'[s] = <<>>
    BY <1>4 DEF PublishToTopic, InboxWhileSubscribed
  <2> QED
    BY <1>1, <2>1, PublishGrowsLog
<1> QED
  BY <1>3, <1>4

(* Who leaves a subscription begins the next one with nothing.            *)
LEMMA InboxIsRecentStep == RedisInv /\ [Next]_vars => InboxIsRecent'
<1> SUFFICES ASSUME RedisInv, [Next]_vars PROVE InboxIsRecent'
  OBVIOUS
<1> USE DEF RedisInv
<1>1. ASSUME NEW c \in Caller, PublishRequest(c) PROVE InboxIsRecent'
  <2>1. \E m \in TopicMessage : PublishToTopic(m)
    BY <1>1, MessageTypes DEF PublishRequest
  <2> QED
    BY <2>1, PublishStaysRecent
<1>2. ASSUME NEW c \in Caller, DispatchEvent(c) PROVE InboxIsRecent'
  <2>1. \E m \in TopicMessage : PublishToTopic(m)
    BY <1>2, MessageTypes DEF DispatchEvent
  <2> QED
    BY <2>1, PublishStaysRecent
<1>3. ASSUME NEW s \in Service, TakeFromRedis(s) PROVE InboxIsRecent'
  <2>1. log' = log /\ Len(log) \in Nat
    BY <1>3 DEF TakeFromRedis, RedisTypeOK
  <2>2. inbox'[s] = <<>> /\ \A t \in Service \ {s} : inbox'[t] = inbox[t]
    BY <1>3 DEF TakeFromRedis, RedisTypeOK
  <2>3. Len(inbox'[s]) = 0 /\ \A i \in 1..Len(inbox'[s]) : FALSE
    BY <2>2
  <2>4. \A t \in Service \ {s} :
           /\ Len(inbox'[t]) <= Len(log')
           /\ \A i \in 1..Len(inbox'[t]) : inbox'[t][i] = log'[Before(t)' + i]
    BY <2>1, <2>2 DEF InboxIsRecent, Before
  <2>5. Len(inbox'[s]) <= Len(log')
    BY <2>1, <2>3
  <2> QED
    BY <2>3, <2>4, <2>5 DEF InboxIsRecent
<1>4. ASSUME NEW s \in Service, TakeFromBus(s) PROVE InboxIsRecent'
  <2>1. log' = log /\ Len(log) \in Nat
    BY <1>4 DEF TakeFromBus, RedisTypeOK
  <2>2. inbox'[s] = <<>> /\ \A t \in Service \ {s} : inbox'[t] = inbox[t]
    BY <1>4 DEF TakeFromBus, RedisTypeOK
  <2>3. Len(inbox'[s]) = 0 /\ \A i \in 1..Len(inbox'[s]) : FALSE
    BY <2>2
  <2>4. \A t \in Service \ {s} :
           /\ Len(inbox'[t]) <= Len(log')
           /\ \A i \in 1..Len(inbox'[t]) : inbox'[t][i] = log'[Before(t)' + i]
    BY <2>1, <2>2 DEF InboxIsRecent, Before
  <2>5. Len(inbox'[s]) <= Len(log')
    BY <2>1, <2>3
  <2> QED
    BY <2>3, <2>4, <2>5 DEF InboxIsRecent
<1>5. ASSUME NEW s \in Service, SupervisorPanics(s) PROVE InboxIsRecent'
  <2>1. log' = log /\ Len(log) \in Nat
    BY <1>5 DEF SupervisorPanics, RedisTypeOK
  <2>2. inbox'[s] = <<>> /\ \A t \in Service \ {s} : inbox'[t] = inbox[t]
    BY <1>5 DEF SupervisorPanics, RedisTypeOK
  <2>3. Len(inbox'[s]) = 0 /\ \A i \in 1..Len(inbox'[s]) : FALSE
    BY <2>2
  <2>4. \A t \in Service \ {s} :
           /\ Len(inbox'[t]) <= Len(log')
           /\ \A i \in 1..Len(inbox'[t]) : inbox'[t][i] = log'[Before(t)' + i]
    BY <2>1, <2>2 DEF InboxIsRecent, Before
  <2>5. Len(inbox'[s]) <= Len(log')
    BY <2>1, <2>3
  <2> QED
    BY <2>3, <2>4, <2>5 DEF InboxIsRecent
<1>6. ASSUME NEW c \in Caller,
             \/ SubscribeReply(c) \/ ReturnUnconfigured(c)
             \/ AwaitReply(c) \/ ReceiveReply(c) \/ Timeout(c)
             \/ CallPanics(c)
      PROVE  InboxIsRecent'
  BY <1>6 DEF InboxIsRecent, SubscribeReply, ReturnUnconfigured, AwaitReply,
     ReceiveReply, Timeout, CallPanics, End, callerVars, serviceVars, Before
<1>7. ASSUME NEW s \in Service,
             WriteRedisUrl(s) \/ BeginLoop(s) \/ Subscribe(s) \/ HandOver(s)
      PROVE  InboxIsRecent'
  BY <1>7 DEF InboxIsRecent, WriteRedisUrl, BeginLoop, Subscribe, HandOver,
     callerVars, serviceVars, Before
<1>8. ASSUME NEW s \in Service, NEW b \in BusRequest, ArriveOnBus(s, b)
      PROVE  InboxIsRecent'
  BY <1>8 DEF InboxIsRecent, ArriveOnBus, callerVars, serviceVars, Before
<1>9. ASSUME NEW s \in Service, NEW c \in Caller, FinishWithReply(s, c)
      PROVE  InboxIsRecent'
  BY <1>9 DEF InboxIsRecent, FinishWithReply, EndRun, Listening,
     ReplyChannel, callerVars, serviceVars, Before
<1>10. ASSUME NEW s \in Service, NEW m \in Job, FinishWithoutReply(s, m)
      PROVE  InboxIsRecent'
  BY <1>10 DEF InboxIsRecent, FinishWithoutReply, EndRun, callerVars,
     serviceVars, Before
<1>11. CASE UNCHANGED vars
  BY <1>11 DEF InboxIsRecent, vars, callerVars, serviceVars, Before
<1> QED
  BY <1>1, <1>2, <1>3, <1>4, <1>5, <1>6, <1>7, <1>8, <1>9, <1>10,
     <1>11 DEF Next, CallStep

(* How much of the log lies before a connection                            *)
LEMMA BeforeCounts ==
    ASSUME RedisInv, NEW s \in Service
    PROVE  /\ Before(s) \in Nat /\ Len(log) \in Nat /\ Before(s) <= Len(log)
           /\ log \in Seq(TopicMessage) /\ taken[s] \in Seq(TopicMessage)
<1>1. /\ log \in Seq(TopicMessage) /\ inbox[s] \in Seq(TopicMessage)
      /\ taken[s] \in Seq(TopicMessage)
  BY DEF RedisInv, RedisTypeOK
<1>2. Len(inbox[s]) \in Nat /\ Len(log) \in Nat /\ Len(inbox[s]) <= Len(log)
  BY <1>1 DEF RedisInv, InboxIsRecent
<1> QED
  BY <1>1, <1>2 DEF Before

(* What is published comes after all that was taken.                       *)
LEMMA PublishKeepsOrder ==
    ASSUME RedisInv, NEW m \in TopicMessage, PublishToTopic(m), taken' = taken
    PROVE  TakenBeforeInbox'
<1> SUFFICES ASSUME NEW s \in Service
             PROVE  \E f : Embeds(f, taken[s], log', Before(s)')
  BY DEF TakenBeforeInbox
<1>1. PICK f : Embeds(f, taken[s], log, Before(s))
  BY DEF RedisInv, TakenBeforeInbox
<1>2. Before(s) <= Before(s)' /\ Before(s)' \in Nat
  <2>1. Len(log') = Len(log) + 1
    BY PublishGrowsLog DEF RedisInv
  <2>2. \/ Len(inbox'[s]) = Len(inbox[s]) + 1
        \/ Len(inbox'[s]) = Len(inbox[s])
    BY DEF PublishToTopic, RedisInv, RedisTypeOK
  <2>3. /\ Len(inbox[s]) \in Nat /\ Len(log) \in Nat
        /\ Len(inbox[s]) <= Len(log)
    BY DEF RedisInv, RedisTypeOK, InboxIsRecent
  <2>4. /\ Before(s) = Len(log) - Len(inbox[s])
        /\ Before(s)' = Len(log') - Len(inbox'[s])
    BY DEF Before
  <2>5. /\ Len(log) - Len(inbox[s]) <= Len(log') - Len(inbox'[s])
        /\ Len(log') - Len(inbox'[s]) \in Nat
    <3>1. CASE Len(inbox'[s]) = Len(inbox[s]) + 1
      BY <2>1, <2>3, <3>1
    <3>2. CASE Len(inbox'[s]) = Len(inbox[s])
      BY <2>1, <2>3, <3>2
    <3> QED
      BY <2>2, <3>1, <3>2
  <2> QED
    BY <2>4, <2>5
<1>3. log' = Append(log, m)
  BY DEF PublishToTopic
<1> QED
  BY <1>1, <1>2, <1>3, BeforeCounts, EmbedsLonger

(* Who drops a connection may take what comes after the whole log.         *)
LEMMA DropKeepsOrder ==
    ASSUME RedisInv, NEW s \in Service, log' = log, taken' = taken,
           inbox' = [inbox EXCEPT ![s] = <<>>]
    PROVE  TakenBeforeInbox'
<1> SUFFICES ASSUME NEW t \in Service
             PROVE  \E f : Embeds(f, taken[t], log, Before(t)')
  BY DEF TakenBeforeInbox
<1>1. PICK f : Embeds(f, taken[t], log, Before(t))
  BY DEF RedisInv, TakenBeforeInbox
<1>2. CASE t = s
  <2>1. Before(t)' = Len(log)
    <3>1. inbox'[t] = <<>> /\ Len(log) \in Nat
      BY <1>2, BeforeCounts DEF RedisInv, RedisTypeOK
    <3> QED
      BY <3>1 DEF Before
  <2>2. Embeds(f, taken[t], log, Len(log))
    BY <1>1, BeforeCounts, EmbedsWider
  <2> QED
    BY <2>1, <2>2
<1>3. CASE t # s
  <2>1. Before(t)' = Before(t)
    BY <1>3 DEF Before, RedisInv, RedisTypeOK
  <2> QED
    BY <1>1, <2>1
<1> QED
  BY <1>2, <1>3

(* A supervisor takes the oldest message of its connection.               *)
LEMMA TakenBeforeInboxStep == RedisInv /\ [Next]_vars => TakenBeforeInbox'
<1> SUFFICES ASSUME RedisInv, [Next]_vars PROVE TakenBeforeInbox'
  OBVIOUS
<1> USE DEF RedisInv
<1>1. ASSUME NEW c \in Caller, PublishRequest(c) PROVE TakenBeforeInbox'
  <2>1. /\ \E m \in TopicMessage : PublishToTopic(m)
        /\ taken' = taken
    BY <1>1, MessageTypes DEF PublishRequest, serviceVars
  <2> QED
    BY <2>1, PublishKeepsOrder
<1>2. ASSUME NEW c \in Caller, DispatchEvent(c) PROVE TakenBeforeInbox'
  <2>1. /\ \E m \in TopicMessage : PublishToTopic(m)
        /\ taken' = taken
    BY <1>2, MessageTypes DEF DispatchEvent, serviceVars
  <2> QED
    BY <2>1, PublishKeepsOrder
<1>3. ASSUME NEW s \in Service, TakeFromRedis(s) PROVE TakenBeforeInbox'
  <2> DEFINE n == Before(s)
  <2>1. /\ n \in Nat /\ n + 1 \in 1..Len(log)
        /\ Head(inbox[s]) = log[n + 1]
    BY <1>3, FirstOfInbox
  <2>2. taken'[s] = Append(taken[s], log[n + 1])
    BY <1>3, <2>1 DEF TakeFromRedis, RedisTypeOK
  <2>3. PICK f : Embeds(f, taken[s], log, n)
    BY DEF TakenBeforeInbox
  <2>4. log' = log /\ Before(s)' = Len(log)
    <3>1. inbox'[s] = <<>> /\ log' = log /\ Len(log) \in Nat
      BY <1>3, BeforeCounts DEF TakeFromRedis, RedisTypeOK
    <3> QED
      BY <3>1 DEF Before
  <2> HIDE DEF n
  <2>5. \E e : Embeds(e, Append(taken[s], log[n + 1]), log, Len(log))
    BY <2>1, <2>3, BeforeCounts, EmbedsNext
  <2>6. ASSUME NEW t \in Service, t # s
        PROVE  Before(t)' = Before(t) /\ taken'[t] = taken[t]
    BY <1>3, <2>6 DEF TakeFromRedis, Before, RedisTypeOK
  <2>7. ASSUME NEW t \in Service
        PROVE  \E e : Embeds(e, taken'[t], log, Before(t)')
    BY <2>2, <2>4, <2>5, <2>6 DEF TakenBeforeInbox
  <2> QED
    BY <2>4, <2>7 DEF TakenBeforeInbox
<1>4. ASSUME NEW s \in Service, TakeFromBus(s) PROVE TakenBeforeInbox'
  BY <1>4, DropKeepsOrder DEF TakeFromBus
<1>5. ASSUME NEW s \in Service, SupervisorPanics(s) PROVE TakenBeforeInbox'
  BY <1>5, DropKeepsOrder DEF SupervisorPanics
<1>6. ASSUME NEW c \in Caller,
             \/ SubscribeReply(c) \/ ReturnUnconfigured(c)
             \/ AwaitReply(c) \/ ReceiveReply(c) \/ Timeout(c)
             \/ CallPanics(c)
      PROVE  TakenBeforeInbox'
  BY <1>6 DEF TakenBeforeInbox, SubscribeReply, ReturnUnconfigured,
     AwaitReply, ReceiveReply, Timeout, CallPanics, End, callerVars,
     serviceVars, Before
<1>7. ASSUME NEW s \in Service,
             WriteRedisUrl(s) \/ BeginLoop(s) \/ Subscribe(s) \/ HandOver(s)
      PROVE  TakenBeforeInbox'
  BY <1>7 DEF TakenBeforeInbox, WriteRedisUrl, BeginLoop, Subscribe,
     HandOver, callerVars, serviceVars, Before
<1>8. ASSUME NEW s \in Service, NEW b \in BusRequest, ArriveOnBus(s, b)
      PROVE  TakenBeforeInbox'
  BY <1>8 DEF TakenBeforeInbox, ArriveOnBus, callerVars, serviceVars, Before
<1>9. ASSUME NEW s \in Service, NEW c \in Caller, FinishWithReply(s, c)
      PROVE  TakenBeforeInbox'
  BY <1>9 DEF TakenBeforeInbox, FinishWithReply, EndRun, Listening,
     ReplyChannel, callerVars, serviceVars, Before
<1>10. ASSUME NEW s \in Service, NEW m \in Job, FinishWithoutReply(s, m)
      PROVE  TakenBeforeInbox'
  BY <1>10 DEF TakenBeforeInbox, FinishWithoutReply, EndRun, callerVars,
     serviceVars, Before
<1>11. CASE UNCHANGED vars
  BY <1>11 DEF TakenBeforeInbox, vars, callerVars, serviceVars, Before
<1> QED
  BY <1>1, <1>2, <1>3, <1>4, <1>5, <1>6, <1>7, <1>8, <1>9, <1>10,
     <1>11 DEF Next, CallStep

(* What a supervisor has taken was published.                              *)
LEMMA TakenWasPublished ==
    ASSUME RedisInv, NEW s \in Service
    PROVE  Range(taken[s]) \subseteq Range(log)
<1>1. PICK f : Embeds(f, taken[s], log, Before(s))
  BY DEF RedisInv, TakenBeforeInbox
<1>2. 1..Before(s) \subseteq DOMAIN log
  BY BeforeCounts
<1>3. \A i \in DOMAIN taken[s] : f[i] \in DOMAIN log /\ log[f[i]] = taken[s][i]
  BY <1>1, <1>2 DEF Embeds
<1> QED
  BY <1>3 DEF Range

(* So the call whose request is run has asked.                             *)
LEMMA RunWasAsked ==
    ASSUME RedisInv, NEW s \in Service, NEW c \in Caller,
           RequestOf(c) \in running[s]
    PROVE  /\ RequestOf(c) \in Range(taken[s])
           /\ caller[c] \in {"asked", "waiting", "ended"}
  BY TakenWasPublished DEF RedisInv, TakenBeforeRun, AskedByListening

(* A message that is taken joins those that were.                          *)
LEMMA TakenGrows ==
    ASSUME RedisInv, NEW s \in Service, TakeFromRedis(s)
    PROVE  /\ Head(inbox[s]) \in Range(taken'[s])
           /\ \A t \in Service : Range(taken[t]) \subseteq Range(taken'[t])
<1>1. taken[s] \in Seq(TopicMessage) /\ Head(inbox[s]) \in TopicMessage
  BY FirstOfInbox DEF RedisInv, RedisTypeOK
<1>2. /\ taken'[s] = Append(taken[s], Head(inbox[s]))
      /\ \A t \in Service \ {s} : taken'[t] = taken[t]
  BY DEF TakeFromRedis, RedisInv, RedisTypeOK
<1>3. Range(taken'[s]) = Range(taken[s]) \cup {Head(inbox[s])}
  BY <1>1, <1>2, AppendRange
<1> QED
  BY <1>2, <1>3

(* A request is held once it is taken, and run once it is held.            *)
LEMMA TakenBeforeRunStep == RedisInv /\ [Next]_vars => TakenBeforeRun'
<1> SUFFICES ASSUME RedisInv, [Next]_vars PROVE TakenBeforeRun'
  OBVIOUS
<1> USE DEF RedisInv
<1>1. ASSUME NEW s \in Service, TakeFromRedis(s) PROVE TakenBeforeRun'
  <2>1. /\ held'[s] = {Head(inbox[s])} /\ running' = running
        /\ \A t \in Service \ {s} : held'[t] = held[t]
    BY <1>1 DEF TakeFromRedis, RedisTypeOK
  <2> QED
    BY <1>1, <2>1, TakenGrows DEF TakenBeforeRun
<1>2. ASSUME NEW s \in Service, TakeFromBus(s) PROVE TakenBeforeRun'
  <2>1. PICK b \in pending[s] : held' = [held EXCEPT ![s] = {BusOf(b)}]
    BY <1>2 DEF TakeFromBus
  <2>2. \A c \in Caller : BusOf(b) # RequestOf(c)
    BY <2>1, MessageTypes DEF RedisTypeOK
  <2>3. /\ held'[s] = {BusOf(b)}
        /\ \A t \in Service \ {s} : held'[t] = held[t]
    BY <2>1 DEF RedisTypeOK
  <2> QED
    BY <1>2, <2>2, <2>3 DEF TakeFromBus, TakenBeforeRun
<1>3. ASSUME NEW s \in Service, HandOver(s) PROVE TakenBeforeRun'
  <2>1. \A t \in Service : held'[t] \cup running'[t] \subseteq held[t] \cup running[t]
    BY <1>3 DEF HandOver, RedisTypeOK
  <2> QED
    BY <1>3, <2>1 DEF HandOver, TakenBeforeRun
<1>4. ASSUME NEW s \in Service, NEW c \in Caller, FinishWithReply(s, c)
      PROVE  TakenBeforeRun'
  BY <1>4, EndRunTyped DEF FinishWithReply, EndRun, TakenBeforeRun
<1>5. ASSUME NEW s \in Service, NEW m \in Job, FinishWithoutReply(s, m)
      PROVE  TakenBeforeRun'
  BY <1>5, EndRunTyped DEF FinishWithoutReply, EndRun, TakenBeforeRun
<1>6. ASSUME NEW c \in Caller,
             \/ SubscribeReply(c) \/ ReturnUnconfigured(c)
             \/ PublishRequest(c) \/ AwaitReply(c) \/ ReceiveReply(c)
             \/ Timeout(c) \/ CallPanics(c) \/ DispatchEvent(c)
      PROVE  TakenBeforeRun'
  BY <1>6 DEF TakenBeforeRun, SubscribeReply, ReturnUnconfigured,
     PublishRequest, AwaitReply, ReceiveReply, Timeout, CallPanics,
     DispatchEvent, End, PublishToTopic, callerVars, serviceVars
<1>7. ASSUME NEW s \in Service,
             \/ WriteRedisUrl(s) \/ BeginLoop(s) \/ Subscribe(s)
             \/ SupervisorPanics(s)
      PROVE  TakenBeforeRun'
  BY <1>7 DEF TakenBeforeRun, WriteRedisUrl, BeginLoop, Subscribe,
     SupervisorPanics, DropRequestData, callerVars, serviceVars
<1>8. ASSUME NEW s \in Service, NEW b \in BusRequest, ArriveOnBus(s, b)
      PROVE  TakenBeforeRun'
  BY <1>8 DEF TakenBeforeRun, ArriveOnBus, callerVars, serviceVars
<1>9. CASE UNCHANGED vars
  BY <1>9 DEF TakenBeforeRun, vars, callerVars, serviceVars
<1> QED
  BY <1>1, <1>2, <1>3, <1>4, <1>5, <1>6, <1>7, <1>8, <1>9 DEF Next, CallStep

(* A call publishes its request after it has subscribed.                   *)
LEMMA AskedByListeningStep == RedisInv /\ [Next]_vars => AskedByListening'
<1> SUFFICES ASSUME RedisInv, [Next]_vars PROVE AskedByListening'
  OBVIOUS
<1> USE DEF RedisInv
<1>1. ASSUME NEW c \in Caller, SubscribeReply(c) PROVE AskedByListening'
  BY <1>1 DEF AskedByListening, SubscribeReply, callerVars, serviceVars,
     RedisTypeOK
<1>2. ASSUME NEW c \in Caller, ReturnUnconfigured(c) PROVE AskedByListening'
  BY <1>2 DEF AskedByListening, ReturnUnconfigured, End, callerVars,
     serviceVars, RedisTypeOK
<1>3. ASSUME NEW c \in Caller, PublishRequest(c) PROVE AskedByListening'
  <2>1. Range(log') = Range(log) \cup {RequestOf(c)}
    BY <1>3, PublishGrowsLog, MessageTypes DEF PublishRequest
  <2>2. caller'[c] = "asked" /\ \A d \in Caller \ {c} : caller'[d] = caller[d]
    BY <1>3 DEF PublishRequest, RedisTypeOK
  <2> QED
    BY <2>1, <2>2, MessageTypes DEF AskedByListening
<1>4. ASSUME NEW c \in Caller, AwaitReply(c) PROVE AskedByListening'
  BY <1>4 DEF AskedByListening, AwaitReply, callerVars, serviceVars,
     RedisTypeOK
<1>5. ASSUME NEW c \in Caller, ReceiveReply(c) PROVE AskedByListening'
  BY <1>5 DEF AskedByListening, ReceiveReply, End, callerVars, serviceVars,
     RedisTypeOK
<1>6. ASSUME NEW c \in Caller, Timeout(c) PROVE AskedByListening'
  BY <1>6 DEF AskedByListening, Timeout, End, callerVars, serviceVars,
     RedisTypeOK
<1>7. ASSUME NEW c \in Caller, CallPanics(c) PROVE AskedByListening'
  BY <1>7 DEF AskedByListening, CallPanics, End, callerVars, serviceVars,
     RedisTypeOK
<1>8. ASSUME NEW c \in Caller, DispatchEvent(c) PROVE AskedByListening'
  <2>1. Range(log') = Range(log) \cup {EventOf(c)}
    BY <1>8, PublishGrowsLog, MessageTypes DEF DispatchEvent
  <2>2. caller'[c] = "ended" /\ \A d \in Caller \ {c} : caller'[d] = caller[d]
    BY <1>8, EndTyped DEF DispatchEvent
  <2> QED
    BY <2>1, <2>2, MessageTypes DEF AskedByListening
<1>9. ASSUME NEW s \in Service,
             \/ WriteRedisUrl(s) \/ BeginLoop(s) \/ Subscribe(s)
             \/ TakeFromRedis(s) \/ TakeFromBus(s) \/ SupervisorPanics(s)
             \/ HandOver(s)
      PROVE  AskedByListening'
  BY <1>9 DEF AskedByListening, WriteRedisUrl, BeginLoop, Subscribe,
     TakeFromRedis, TakeFromBus, SupervisorPanics, HandOver,
     DropRequestData, callerVars, serviceVars
<1>10. ASSUME NEW s \in Service, NEW b \in BusRequest, ArriveOnBus(s, b)
      PROVE  AskedByListening'
  BY <1>10 DEF AskedByListening, ArriveOnBus, callerVars, serviceVars
<1>11. ASSUME NEW s \in Service, NEW c \in Caller, FinishWithReply(s, c)
      PROVE  AskedByListening'
  BY <1>11 DEF AskedByListening, FinishWithReply, EndRun, Listening,
     ReplyChannel, callerVars, serviceVars
<1>12. ASSUME NEW s \in Service, NEW m \in Job, FinishWithoutReply(s, m)
      PROVE  AskedByListening'
  BY <1>12 DEF AskedByListening, FinishWithoutReply, EndRun, callerVars,
     serviceVars
<1>13. CASE UNCHANGED vars
  BY <1>13 DEF AskedByListening, vars, callerVars, serviceVars
<1> QED
  BY <1>1, <1>2, <1>3, <1>4, <1>5, <1>6, <1>7, <1>8, <1>9, <1>10, <1>11,
     <1>12, <1>13 DEF Next, CallStep

(* A reply is published by the run of the request, on the call's channel.  *)
LEMMA RepliesOwnStep == RedisInv /\ [Next]_vars => RepliesOwn'
<1> SUFFICES ASSUME RedisInv, [Next]_vars PROVE RepliesOwn'
  OBVIOUS
<1> USE DEF RedisInv
<1>1. ASSUME NEW c \in Caller, ReturnUnconfigured(c) PROVE RepliesOwn'
  <2> SUFFICES ASSUME NEW d \in Caller, NEW i \in DOMAIN replies'[d],
                      NEW r, r = replies'[d][i]
               PROVE  r[1] = d /\ RequestOf(d) \in Range(taken'[r[2]])
    BY DEF RepliesOwn, IsOwn
  <2>1. d # c /\ replies'[d] = replies[d]
    BY <1>1, EndTyped DEF ReturnUnconfigured
  <2>2. taken' = taken
    BY <1>1 DEF ReturnUnconfigured, serviceVars
  <2> QED
    BY <2>1, <2>2 DEF RepliesOwn, IsOwn
<1>2. ASSUME NEW c \in Caller, ReceiveReply(c) PROVE RepliesOwn'
  <2> SUFFICES ASSUME NEW d \in Caller, NEW i \in DOMAIN replies'[d],
                      NEW r, r = replies'[d][i]
               PROVE  r[1] = d /\ RequestOf(d) \in Range(taken'[r[2]])
    BY DEF RepliesOwn, IsOwn
  <2>1. d # c /\ replies'[d] = replies[d]
    BY <1>2, EndTyped DEF ReceiveReply
  <2>2. taken' = taken
    BY <1>2 DEF ReceiveReply, serviceVars
  <2> QED
    BY <2>1, <2>2 DEF RepliesOwn, IsOwn
<1>3. ASSUME NEW c \in Caller, Timeout(c) PROVE RepliesOwn'
  <2> SUFFICES ASSUME NEW d \in Caller, NEW i \in DOMAIN replies'[d],
                      NEW r, r = replies'[d][i]
               PROVE  r[1] = d /\ RequestOf(d) \in Range(taken'[r[2]])
    BY DEF RepliesOwn, IsOwn
  <2>1. d # c /\ replies'[d] = replies[d]
    BY <1>3, EndTyped DEF Timeout
  <2>2. taken' = taken
    BY <1>3 DEF Timeout, serviceVars
  <2> QED
    BY <2>1, <2>2 DEF RepliesOwn, IsOwn
<1>4. ASSUME NEW c \in Caller, CallPanics(c) PROVE RepliesOwn'
  <2> SUFFICES ASSUME NEW d \in Caller, NEW i \in DOMAIN replies'[d],
                      NEW r, r = replies'[d][i]
               PROVE  r[1] = d /\ RequestOf(d) \in Range(taken'[r[2]])
    BY DEF RepliesOwn, IsOwn
  <2>1. d # c /\ replies'[d] = replies[d]
    BY <1>4, EndTyped DEF CallPanics
  <2>2. taken' = taken
    BY <1>4 DEF CallPanics, serviceVars
  <2> QED
    BY <2>1, <2>2 DEF RepliesOwn, IsOwn
<1>5. ASSUME NEW c \in Caller, DispatchEvent(c) PROVE RepliesOwn'
  <2> SUFFICES ASSUME NEW d \in Caller, NEW i \in DOMAIN replies'[d],
                      NEW r, r = replies'[d][i]
               PROVE  r[1] = d /\ RequestOf(d) \in Range(taken'[r[2]])
    BY DEF RepliesOwn, IsOwn
  <2>1. d # c /\ replies'[d] = replies[d]
    BY <1>5, EndTyped DEF DispatchEvent
  <2>2. taken' = taken
    BY <1>5 DEF DispatchEvent, serviceVars
  <2> QED
    BY <2>1, <2>2 DEF RepliesOwn, IsOwn
<1>6. ASSUME NEW s \in Service, TakeFromRedis(s) PROVE RepliesOwn'
  <2> SUFFICES ASSUME NEW d \in Caller, NEW i \in DOMAIN replies'[d],
                      NEW r, r = replies'[d][i]
               PROVE  r[1] = d /\ RequestOf(d) \in Range(taken'[r[2]])
    BY DEF RepliesOwn, IsOwn
  <2>1. replies' = replies
    BY <1>6 DEF TakeFromRedis, callerVars
  <2>2. replies[d][i] \in Reply /\ replies[d][i][2] \in Service
    BY <2>1 DEF RedisTypeOK, Reply
  <2> QED
    BY <1>6, <2>1, <2>2, TakenGrows DEF RepliesOwn, IsOwn
<1>7. ASSUME NEW s \in Service, NEW c \in Caller, FinishWithReply(s, c)
      PROVE  RepliesOwn'
  <2> SUFFICES ASSUME NEW d \in Caller, NEW i \in DOMAIN replies'[d],
                      NEW r, r = replies'[d][i]
               PROVE  r[1] = d /\ RequestOf(d) \in Range(taken'[r[2]])
    BY DEF RepliesOwn, IsOwn
  <2>1. taken' = taken /\ RequestOf(c) \in running[s]
    BY <1>7 DEF FinishWithReply, EndRun
  <2>2. CASE i \in DOMAIN replies[d] /\ replies'[d][i] = replies[d][i]
    BY <2>1, <2>2 DEF RepliesOwn, IsOwn
  <2>3. CASE d = c /\ replies'[d][i] = <<c, s>>
    BY <2>1, <2>3, RunWasAsked DEF IsOwn
  <2>4. \/ replies'[d] = replies[d]
        \/ d = c /\ replies'[d] = Append(replies[d], <<c, s>>)
    BY <1>7 DEF FinishWithReply, ReplyChannel
  <2>5. replies[d] \in Seq(Reply) /\ <<c, s>> \in Reply
    BY DEF RedisTypeOK, Reply
  <2>6. \/ i \in DOMAIN replies[d] /\ replies'[d][i] = replies[d][i]
        \/ d = c /\ replies'[d][i] = <<c, s>>
    BY <2>4, <2>5
  <2> QED
    BY <2>2, <2>3, <2>6
<1>8. ASSUME NEW c \in Caller,
             SubscribeReply(c) \/ PublishRequest(c) \/ AwaitReply(c)
      PROVE  RepliesOwn'
  BY <1>8 DEF RepliesOwn, SubscribeReply, PublishRequest, AwaitReply,
     PublishToTopic, callerVars, serviceVars, IsOwn
<1>9. ASSUME NEW s \in Service,
             \/ WriteRedisUrl(s) \/ BeginLoop(s) \/ Subscribe(s)
             \/ TakeFromBus(s) \/ SupervisorPanics(s) \/ HandOver(s)
      PROVE  RepliesOwn'
  BY <1>9 DEF RepliesOwn, WriteRedisUrl, BeginLoop, Subscribe, TakeFromBus,
     SupervisorPanics, HandOver, DropRequestData, callerVars, serviceVars,
     IsOwn
<1>10. ASSUME NEW s \in Service, NEW b \in BusRequest, ArriveOnBus(s, b)
      PROVE  RepliesOwn'
  BY <1>10 DEF RepliesOwn, ArriveOnBus, callerVars, serviceVars, IsOwn
<1>11. ASSUME NEW s \in Service, NEW m \in Job, FinishWithoutReply(s, m)
      PROVE  RepliesOwn'
  BY <1>11 DEF RepliesOwn, FinishWithoutReply, EndRun, callerVars,
     serviceVars, IsOwn
<1>12. CASE UNCHANGED vars
  BY <1>12 DEF RepliesOwn, vars, callerVars, serviceVars, IsOwn
<1> QED
  BY <1>1, <1>2, <1>3, <1>4, <1>5, <1>6, <1>7, <1>8, <1>9, <1>10, <1>11,
     <1>12 DEF Next, CallStep

(* A connection with one more reply is not empty.                          *)
LEMMA ReplyAppended ==
    ASSUME RedisInv, NEW c \in Caller, NEW d \in Caller, NEW s \in Service
    PROVE  Append(replies[d], <<c, s>>) # <<>>
<1>1. replies[d] \in Seq(Reply) /\ <<c, s>> \in Reply
  BY DEF RedisInv, RedisTypeOK, Reply
<1> DEFINE more == Append(replies[d], <<c, s>>)
<1>2. <<c, s>> \in Range(more)
  BY <1>1, AppendRange
<1>3. Range(<<>>) = {}
  BY DEF Range
<1> QED
  BY <1>2, <1>3

(* A service that answers finds the call in its connection.                *)
LEMMA AnswersThereStep == RedisInv /\ [Next]_vars => AnswersThere'
<1> SUFFICES ASSUME RedisInv, [Next]_vars PROVE AnswersThere'
  OBVIOUS
<1> USE DEF RedisInv
<1>1. ASSUME NEW c \in Caller, SubscribeReply(c) PROVE AnswersThere'
  <2>1. \A a \in answered : a[1] \in Caller
    BY DEF RedisTypeOK, Reply
  <2> QED
    BY <1>1, <2>1 DEF SubscribeReply, AnswersThere, RedisTypeOK
<1>2. ASSUME NEW c \in Caller, PublishRequest(c) PROVE AnswersThere'
  <2>1. \A a \in answered : a[1] \in Caller
    BY DEF RedisTypeOK, Reply
  <2> QED
    BY <1>2, <2>1 DEF PublishRequest, AnswersThere, RedisTypeOK
<1>3. ASSUME NEW c \in Caller, AwaitReply(c) PROVE AnswersThere'
  <2>1. \A a \in answered : a[1] \in Caller
    BY DEF RedisTypeOK, Reply
  <2> QED
    BY <1>3, <2>1 DEF AwaitReply, AnswersThere, RedisTypeOK
<1>4. ASSUME NEW c \in Caller, ReturnUnconfigured(c) PROVE AnswersThere'
  <2>1. /\ answered' = answered \ ({c} \X Service)
        /\ \A d \in Caller \ {c} : caller'[d] = caller[d] /\ replies'[d] = replies[d]
    BY <1>4, EndTyped DEF ReturnUnconfigured, End
  <2>2. \A a \in answered' : a \in answered /\ a[1] \in Caller \ {c}
    BY <2>1 DEF RedisTypeOK, Reply
  <2> QED
    BY <2>1, <2>2 DEF AnswersThere
<1>5. ASSUME NEW c \in Caller, ReceiveReply(c) PROVE AnswersThere'
  <2>1. /\ answered' = answered \ ({c} \X Service)
        /\ \A d \in Caller \ {c} : caller'[d] = caller[d] /\ replies'[d] = replies[d]
    BY <1>5, EndTyped DEF ReceiveReply, End
  <2>2. \A a \in answered' : a \in answered /\ a[1] \in Caller \ {c}
    BY <2>1 DEF RedisTypeOK, Reply
  <2> QED
    BY <2>1, <2>2 DEF AnswersThere
<1>6. ASSUME NEW c \in Caller, Timeout(c) PROVE AnswersThere'
  <2>1. /\ answered' = answered \ ({c} \X Service)
        /\ \A d \in Caller \ {c} : caller'[d] = caller[d] /\ replies'[d] = replies[d]
    BY <1>6, EndTyped DEF Timeout, End
  <2>2. \A a \in answered' : a \in answered /\ a[1] \in Caller \ {c}
    BY <2>1 DEF RedisTypeOK, Reply
  <2> QED
    BY <2>1, <2>2 DEF AnswersThere
<1>7. ASSUME NEW c \in Caller, CallPanics(c) PROVE AnswersThere'
  <2>1. /\ answered' = answered \ ({c} \X Service)
        /\ \A d \in Caller \ {c} : caller'[d] = caller[d] /\ replies'[d] = replies[d]
    BY <1>7, EndTyped DEF CallPanics, End
  <2>2. \A a \in answered' : a \in answered /\ a[1] \in Caller \ {c}
    BY <2>1 DEF RedisTypeOK, Reply
  <2> QED
    BY <2>1, <2>2 DEF AnswersThere
<1>8. ASSUME NEW c \in Caller, DispatchEvent(c) PROVE AnswersThere'
  <2>1. /\ answered' = answered \ ({c} \X Service)
        /\ \A d \in Caller \ {c} : caller'[d] = caller[d] /\ replies'[d] = replies[d]
    BY <1>8, EndTyped DEF DispatchEvent, End
  <2>2. \A a \in answered' : a \in answered /\ a[1] \in Caller \ {c}
    BY <2>1 DEF RedisTypeOK, Reply
  <2> QED
    BY <2>1, <2>2 DEF AnswersThere
<1>9. ASSUME NEW s \in Service, NEW c \in Caller, FinishWithReply(s, c)
      PROVE  AnswersThere'
  <2>1. caller' = caller /\ RequestOf(c) \in running[s]
    BY <1>9 DEF FinishWithReply, EndRun
  <2>2. \A d \in Caller : replies[d] # <<>> => replies'[d] # <<>>
    <3>1. \A d \in Caller : \/ replies'[d] = replies[d]
                            \/ replies'[d] = Append(replies[d], <<c, s>>)
      BY <1>9 DEF FinishWithReply
    <3> QED
      BY <3>1, ReplyAppended
  <2>3. \A a \in answered : a[1] \in Caller
    BY DEF RedisTypeOK, Reply
  <2>4. \A a \in answered :
           caller'[a[1]] \in {"asked", "waiting"} /\ replies'[a[1]] # <<>>
    BY <2>1, <2>2, <2>3 DEF AnswersThere
  <2>5. CASE caller[c] = "ended"
    BY <1>9, <2>4, <2>5 DEF FinishWithReply, AnswersThere
  <2>6. CASE caller[c] # "ended"
    <3>1. caller[c] \in {"asked", "waiting"}
      BY <2>1, <2>6, RunWasAsked
    <3>2. replies'[c] = Append(replies[c], <<c, s>>)
      BY <1>9, <3>1 DEF FinishWithReply, Listening
    <3>3. replies'[c] # <<>>
      BY <3>2, ReplyAppended
    <3>4. answered' = answered \cup {<<c, s>>}
      BY <1>9, <2>6 DEF FinishWithReply
    <3> QED
      BY <2>1, <2>4, <3>1, <3>3, <3>4 DEF AnswersThere
  <2> QED
    BY <2>5, <2>6
<1>10. ASSUME NEW s \in Service,
             \/ WriteRedisUrl(s) \/ BeginLoop(s) \/ Subscribe(s)
             \/ TakeFromRedis(s) \/ TakeFromBus(s) \/ SupervisorPanics(s)
             \/ HandOver(s)
      PROVE  AnswersThere'
  BY <1>10 DEF AnswersThere, WriteRedisUrl, BeginLoop, Subscribe,
     TakeFromRedis, TakeFromBus, SupervisorPanics, HandOver,
     DropRequestData, callerVars, serviceVars
<1>11. ASSUME NEW s \in Service, NEW b \in BusRequest, ArriveOnBus(s, b)
      PROVE  AnswersThere'
  BY <1>11 DEF AnswersThere, ArriveOnBus, callerVars, serviceVars
<1>12. ASSUME NEW s \in Service, NEW m \in Job, FinishWithoutReply(s, m)
      PROVE  AnswersThere'
  BY <1>12 DEF AnswersThere, FinishWithoutReply, EndRun, callerVars,
     serviceVars
<1>13. CASE UNCHANGED vars
  BY <1>13 DEF AnswersThere, vars, callerVars, serviceVars
<1> QED
  BY <1>1, <1>2, <1>3, <1>4, <1>5, <1>6, <1>7, <1>8, <1>9, <1>10, <1>11,
     <1>12, <1>13 DEF Next, CallStep

(* publish_redis returns the first reply in the connection of the call.     *)
LEMMA OwnRedisReplyStep == RedisInv /\ [Next]_vars => OwnRedisReply'
<1> SUFFICES ASSUME RedisInv, [Next]_vars PROVE OwnRedisReply'
  OBVIOUS
<1> USE DEF RedisInv
<1>1. ASSUME NEW c \in Caller, ReceiveReply(c) PROVE OwnRedisReply'
  <2>1. /\ response'[c] = {Head(replies[c])}
        /\ \A d \in Caller \ {c} : response'[d] = response[d]
    BY <1>1 DEF ReceiveReply, RedisTypeOK
  <2>2. IsOwn(c, Head(replies[c]))
    <3>1. 1 \in DOMAIN replies[c] /\ Head(replies[c]) = replies[c][1]
      BY <1>1 DEF ReceiveReply, RedisTypeOK
    <3> QED
      BY <3>1 DEF RepliesOwn
  <2>3. taken' = taken
    BY <1>1 DEF ReceiveReply, serviceVars
  <2> QED
    BY <2>1, <2>2, <2>3 DEF OwnRedisReply, IsOwn
<1>2. ASSUME NEW s \in Service, TakeFromRedis(s) PROVE OwnRedisReply'
  <2>1. response' = response
    BY <1>2 DEF TakeFromRedis, callerVars
  <2>2. \A d \in Caller : \A r \in response[d] : r[2] \in Service
    BY DEF RedisTypeOK, Reply
  <2> QED
    BY <1>2, <2>1, <2>2, TakenGrows DEF OwnRedisReply
<1>3. ASSUME NEW c \in Caller,
             \/ SubscribeReply(c) \/ ReturnUnconfigured(c)
             \/ PublishRequest(c) \/ AwaitReply(c) \/ Timeout(c)
             \/ CallPanics(c) \/ DispatchEvent(c)
      PROVE  OwnRedisReply'
  BY <1>3 DEF OwnRedisReply, SubscribeReply, ReturnUnconfigured,
     PublishRequest, AwaitReply, Timeout, CallPanics, DispatchEvent, End,
     PublishToTopic, callerVars, serviceVars
<1>4. ASSUME NEW s \in Service,
             \/ WriteRedisUrl(s) \/ BeginLoop(s) \/ Subscribe(s)
             \/ TakeFromBus(s) \/ SupervisorPanics(s) \/ HandOver(s)
      PROVE  OwnRedisReply'
  BY <1>4 DEF OwnRedisReply, WriteRedisUrl, BeginLoop, Subscribe,
     TakeFromBus, SupervisorPanics, HandOver, DropRequestData, callerVars,
     serviceVars
<1>5. ASSUME NEW s \in Service, NEW b \in BusRequest, ArriveOnBus(s, b)
      PROVE  OwnRedisReply'
  BY <1>5 DEF OwnRedisReply, ArriveOnBus, callerVars, serviceVars
<1>6. ASSUME NEW s \in Service, NEW c \in Caller, FinishWithReply(s, c)
      PROVE  OwnRedisReply'
  BY <1>6 DEF OwnRedisReply, FinishWithReply, EndRun, Listening,
     ReplyChannel, callerVars, serviceVars
<1>7. ASSUME NEW s \in Service, NEW m \in Job, FinishWithoutReply(s, m)
      PROVE  OwnRedisReply'
  BY <1>7 DEF OwnRedisReply, FinishWithoutReply, EndRun, callerVars,
     serviceVars
<1>8. CASE UNCHANGED vars
  BY <1>8 DEF OwnRedisReply, vars, callerVars, serviceVars
<1> QED
  BY <1>1, <1>2, <1>3, <1>4, <1>5, <1>6, <1>7, <1>8 DEF Next, CallStep

-----------------------------------------------------------------------------
(* At first nothing is published, taken or asked.                          *)
LEMMA RedisInvInit == Init => RedisInv
<1> SUFFICES ASSUME Init PROVE RedisInv
  OBVIOUS
<1> USE DEF Init
<1>1. RedisTypeOK
  <2>1. Cardinality({}) = 0
    BY FS_EmptySet
  <2>2. /\ \A c \in Caller : Cardinality(response[c]) <= 1
        /\ \A s \in Service : /\ Cardinality(held[s]) <= 1
                              /\ Cardinality(running[s]) <= NrReplicas
    BY <2>1, RedisAssumption
  <2>3. /\ replies \in [Caller -> Seq(Reply)]
        /\ inbox \in [Service -> Seq(TopicMessage)]
        /\ taken \in [Service -> Seq(TopicMessage)]
        /\ log \in Seq(TopicMessage)
    OBVIOUS
  <2> QED
    BY <2>2, <2>3 DEF RedisTypeOK, CallStages, ServiceStages
<1>2. FinitelyManyJobs
  BY FS_EmptySet DEF FinitelyManyJobs
<1>3. InboxWhileSubscribed /\ InboxIsRecent
  BY DEF InboxWhileSubscribed, InboxIsRecent, Before
<1>4. TakenBeforeInbox
  <2>1. ASSUME NEW s \in Service PROVE Embeds(<<>>, taken[s], log, Before(s))
    BY DEF Embeds, Before
  <2> QED
    BY <2>1 DEF TakenBeforeInbox
<1>5. TakenBeforeRun /\ AskedByListening
  BY DEF TakenBeforeRun, AskedByListening, Range
<1>6. RepliesOwn /\ AnswersThere /\ OwnRedisReply
  BY DEF RepliesOwn, AnswersThere, OwnRedisReply
<1> QED
  BY <1>1, <1>2, <1>3, <1>4, <1>5, <1>6 DEF RedisInv

(* Every behaviour of the callers and supervisors stays within the         *)
(* inductive invariant.                                                    *)
THEOREM RedisInvInvariant == Spec => []RedisInv
<1>1. RedisInv /\ [Next]_vars => RedisInv'
  BY RedisTypeOKStep, FinitelyManyJobsStep, InboxWhileSubscribedStep,
     InboxIsRecentStep, TakenBeforeInboxStep, TakenBeforeRunStep,
     AskedByListeningStep, RepliesOwnStep, AnswersThereStep, OwnRedisReplyStep
     DEF RedisInv
<1> QED
  BY <1>1, RedisInvInit, PTL DEF Spec

(* The variables have their types in every reachable state: no supervisor  *)
(* runs more than nr_replicas requests at a time.                          *)
THEOREM RedisTypeCorrect == Spec => []RedisTypeOK
<1>1. RedisInv => RedisTypeOK
  BY DEF RedisInv
<1> QED
  BY <1>1, RedisInvInvariant, PTL

(* For any number of callers and services on one topic, publish_redis      *)
(* returns a reply to its own request (traits.rs:123-138).                 *)
THEOREM RepliesAreOwn == Spec => []OwnRedisReply
<1>1. RedisInv => OwnRedisReply
  BY DEF RedisInv
<1> QED
  BY <1>1, RedisInvInvariant, PTL

(* However fast a service is, its reply is in the connection of the call   *)
(* that still waits for it (traits.rs:126-133).                            *)
THEOREM RepliesReachCallers == Spec => []ReplyReachesCaller
<1>1. RedisInv => ReplyReachesCaller
  BY DEF RedisInv, AnswersThere, ReplyReachesCaller
<1> QED
  BY <1>1, RedisInvInvariant, PTL

(* However often a supervisor subscribes anew, it takes messages in the    *)
(* order of the topic and none twice (traits.rs:189-199).                  *)
THEOREM MessagesAreTakenInOrder == Spec => []TakenInOrder
<1>1. ASSUME RedisInv, NEW s \in Service
      PROVE  \E f \in [DOMAIN taken[s] -> DOMAIN log] :
                /\ \A i \in DOMAIN taken[s] : log[f[i]] = taken[s][i]
                /\ \A i, j \in DOMAIN taken[s] : i < j => f[i] < f[j]
  <2>1. PICK f : Embeds(f, taken[s], log, Before(s))
    BY <1>1 DEF RedisInv, TakenBeforeInbox
  <2>2. DOMAIN log = 1..Len(log)
    BY <1>1, BeforeCounts
  <2>3. Embeds(f, taken[s], log, Len(log))
    BY <1>1, <2>1, BeforeCounts, EmbedsWider
  <2> QED
    BY <2>2, <2>3 DEF Embeds
<1>2. RedisInv => TakenInOrder
  BY <1>1 DEF TakenInOrder
<1> QED
  BY <1>2, RedisInvInvariant, PTL

===============================================================================
