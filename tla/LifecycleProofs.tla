---------------------------- MODULE LifecycleProofs ----------------------------
(***************************************************************************)
(* Proofs about the life of a manager, for any number of handlers, starts  *)
(* and calls.                                                              *)
(***************************************************************************)
EXTENDS Lifecycle, FiniteSetTheorems, WellFoundedInduction, TLAPS

AllNew == \A c \in Call : call[c].at = "new"

(* Before and during the first start                                       *)
FirstStart ==
    /\ starts = 0 => /\ main = "idle" /\ AllNew
                     /\ \A s \in Supervisor : sup[s] = "absent"
                     /\ ~meddled => url = "none"
    /\ starts = 1 /\ main = "handlers" /\ ~meddled =>
          /\ url = "none" /\ AllNew
          /\ \A s \in Supervisor : sup[s] \notin {"connecting", "subscribed"}

(* The supervisors of the current start are spawned one by one, those of   *)
(* later ones not at all.                                                  *)
Numbered ==
    /\ \A s \in Supervisor : s[2] > starts => sup[s] = "absent"
    /\ \A h \in todo : sup[<<h, starts>>] = "absent"
    /\ todo # {} => main = "handlers"

(* Where a redis_url comes from that nobody meddled with, and what a       *)
(* supervisor that has read one can rely on                                *)
UrlSources ==
    ~meddled =>
        /\ url = "set" => given
        /\ \A s \in Supervisor :
              /\ sup[s] \in {"connecting", "subscribed"} => given
              /\ sup[s] = "connecting" => url = "set"
              /\ sup[s] # "panicked"

(* A call is held only by a supervisor that looks for a replica.           *)
HeldReserved ==
    \A c \in Call : call[c].at = "held"
        => call[c].by \in Supervisor /\ sup[call[c].by] = "reserve"

(* A queued call is in the queue of a topic that is on the bus.            *)
QueuedOnTopics == \A c \in Call : call[c].at = "queued" => call[c].to \in Topics

LifecycleInv ==
    /\ LifecycleTypeOK
    /\ FirstStart
    /\ Numbered
    /\ UrlSources
    /\ HeldReserved
    /\ QueuedOnTopics
    /\ EveryTopicServed
    /\ NothingLostOnTheBus

-----------------------------------------------------------------------------
(* What a step does, by what it changes                                    *)

(* Of the variables of the supervisors and the calls, nothing              *)
OwnerMoves ==
    \/ AddGlobalState \/ WithRedisUrl \/ Start
    \/ \E h \in Handler : AddHandler(h)
    \/ LaunchServer \/ WriteUrl \/ Shutdown

(* One supervisor, and no call                                             *)
LoopMoves(s) ==
    \/ BeginLoop(s) \/ Subscribe(s) \/ FindNoMessage(s) \/ FindNoId(s)
    \/ ArmSupervisor(s)

(* Neither a supervisor nor a call                                         *)
RunMoves(c) == StoreUrl(c) \/ FindNoReply(c) \/ ArmPublisher(c)

(* A step is one of the actions.                                           *)
LEMMA Steps ==
    ASSUME [Next]_vars
    PROVE  \/ OwnerMoves
           \/ \E h \in Handler : InitializeHandler(h)
           \/ ForceFinishAll
           \/ \E s \in Supervisor :
                 \/ LoopMoves(s) \/ SubscribePanics(s) \/ HandOver(s)
                 \/ \E c \in Call : TakeFromBus(s, c) \/ TakeFromRedis(s, c)
           \/ \E c \in Call :
                 \/ RunMoves(c) \/ EndRun(c) \/ RunPanics(c)
                 \/ \E h \in Handler : ArriveOverHttp(c, h)
                 \/ \E d \in Call : \/ TakeReply(c, d)
                                    \/ \E h \in Handler : \/ Send(c, d, h)
                                                          \/ SendPanics(c, d, h)
           \/ UNCHANGED vars
<1>1. CASE OwnerStep
  BY <1>1 DEF OwnerStep, OwnerMoves
<1>2. ASSUME NEW s \in Supervisor, SupervisorStep(s)
      PROVE  \/ LoopMoves(s) \/ SubscribePanics(s) \/ HandOver(s)
             \/ \E c \in Call : TakeFromBus(s, c) \/ TakeFromRedis(s, c)
  BY <1>2 DEF SupervisorStep, LoopMoves
<1>3. ASSUME NEW c \in Call, CallStep(c)
      PROVE  \/ RunMoves(c) \/ EndRun(c) \/ RunPanics(c)
             \/ \E h \in Handler : ArriveOverHttp(c, h)
             \/ \E d \in Call : \/ TakeReply(c, d)
                                \/ \E h \in Handler : \/ Send(c, d, h)
                                                      \/ SendPanics(c, d, h)
  BY <1>3 DEF CallStep, RunMoves
<1> QED
  BY <1>1, <1>2, <1>3 DEF Next

(* A call keeps its type when its stage is changed.                        *)
LEMMA StageTyped ==
    ASSUME LifecycleTypeOK, NEW c \in Call, NEW stage \in CallStages
    PROVE  [call[c] EXCEPT !.at = stage] \in CallRecord
  BY DEF LifecycleTypeOK, CallRecord

(* Lose leaves every call a record of its type.                            *)
LEMMA LoseTyped ==
    ASSUME LifecycleTypeOK, NEW C, Lose(C)
    PROVE  call' \in [Call -> CallRecord]
<1>1. ASSUME NEW c \in Call PROVE call'[c] \in CallRecord
  BY StageTyped DEF LifecycleTypeOK, Lose, CallStages
<1> QED
  BY <1>1 DEF Lose

(* What the types say of the supervisors, and of the rest                  *)
SupervisorsTyped ==
    /\ sup \in [Supervisor -> Asking \cup Gone \cup {"absent", "loop", "reserve"}]
    /\ wait \in [Supervisor -> Waits \cup {"woken"}]
    /\ \A s \in Supervisor :
          /\ wait[s] # "looks" => sup[s] \in Asking \cup {"reserve"}
          /\ wait[s] = "woken" => sup[s] \in Asking
          /\ s \in deaf => sup[s] \in Asking /\ wait[s] \in {"unarmed", "armed"}
    /\ deaf \subseteq Supervisor

CallsTyped ==
    /\ call \in [Call -> CallRecord]
    /\ reply_wait \in [Call -> Waits]

OwnerTyped ==
    /\ main \in {"idle", "handlers", "bound", "serving", "panicked"}
    /\ registered \subseteq Handler
    /\ starts \in 0..MaxStarts
    /\ todo \subseteq registered
    /\ installed \in BOOLEAN /\ given \in BOOLEAN /\ meddled \in BOOLEAN
    /\ url \in Urls

LEMMA TypesByPart ==
    LifecycleTypeOK <=> OwnerTyped /\ SupervisorsTyped /\ CallsTyped
  BY DEF LifecycleTypeOK, OwnerTyped, SupervisorsTyped, CallsTyped

(* A supervisor that moves on no longer waits, and is not deaf.            *)
LEMMA MoveSupervisorTyped ==
    ASSUME SupervisorsTyped, NEW s \in Supervisor,
           NEW where \in {"panicked", "reserve", "loop"}, MoveSupervisor(s, where)
    PROVE  SupervisorsTyped'
  BY DEF SupervisorsTyped, MoveSupervisor, Asking, Gone, Waits

(* The types of the supervisors: one that is spawned was not there before  *)
(* (Numbered), so that it neither waits nor is deaf.                       *)
LEMMA SupervisorsTypedStep == LifecycleInv /\ [Next]_vars => SupervisorsTyped'
<1> SUFFICES ASSUME LifecycleInv, [Next]_vars PROVE SupervisorsTyped'
  OBVIOUS
<1> SupervisorsTyped
  BY TypesByPart DEF LifecycleInv
<1>1. CASE OwnerMoves
  BY <1>1 DEF SupervisorsTyped, OwnerMoves, AddGlobalState, WithRedisUrl, Start,
     AddHandler, LaunchServer, WriteUrl, Shutdown, supVars
<1>2. ASSUME NEW h \in Handler, InitializeHandler(h) PROVE SupervisorsTyped'
  <2>1. <<h, starts>> \in Supervisor /\ sup[<<h, starts>>] = "absent"
    BY <1>2, LifecycleAssumption DEF InitializeHandler, LifecycleInv,
       LifecycleTypeOK, FirstStart, Numbered, Supervisor
  <2>2. wait[<<h, starts>>] = "looks" /\ <<h, starts>> \notin deaf
    BY <2>1 DEF SupervisorsTyped, Asking
  <2>3. PICK D \in SUBSET (AskingFor(h) \cap Waiters) : deaf' = deaf \cup D
    BY <1>2 DEF InitializeHandler
  <2>4. \A s \in D : /\ s \in Supervisor /\ sup[s] \in Asking
                   /\ wait[s] \in {"unarmed", "armed"}
    BY DEF AskingFor, Waiters
  <2>5. sup' = [sup EXCEPT ![<<h, starts>>] = "loop"] /\ wait' = wait
    BY <1>2 DEF InitializeHandler
  <2> QED
    BY <2>1, <2>2, <2>3, <2>4, <2>5 DEF SupervisorsTyped, Asking
<1>3. CASE ForceFinishAll
  BY <1>3 DEF SupervisorsTyped, ForceFinishAll, Asking, Gone, Waits
<1>4. ASSUME NEW s \in Supervisor, LoopMoves(s) PROVE SupervisorsTyped'
  <2>1. CASE BeginLoop(s) \/ Subscribe(s)
    BY <2>1 DEF SupervisorsTyped, BeginLoop, Subscribe, Asking, supVars
  <2>2. CASE FindNoMessage(s)
    <3>1. CASE wait[s] = "woken"
      BY <2>2, <3>1, MoveSupervisorTyped DEF FindNoMessage
    <3>2. CASE wait[s] # "woken"
      BY <2>2, <3>2 DEF SupervisorsTyped, FindNoMessage, Looking, Waits
    <3> QED
      BY <3>1, <3>2
  <2>3. CASE FindNoId(s) \/ ArmSupervisor(s)
    BY <2>3 DEF SupervisorsTyped, FindNoId, ArmSupervisor, Waits, Asking
  <2> QED
    BY <1>4, <2>1, <2>2, <2>3 DEF LoopMoves
<1>5. ASSUME NEW s \in Supervisor, SubscribePanics(s) \/ HandOver(s)
      PROVE  SupervisorsTyped'
  BY <1>5, MoveSupervisorTyped DEF SubscribePanics, HandOver
<1>6. ASSUME NEW s \in Supervisor, NEW c \in Call,
             TakeFromBus(s, c) \/ TakeFromRedis(s, c)
      PROVE  SupervisorsTyped'
  BY <1>6, MoveSupervisorTyped DEF TakeFromBus, TakeFromRedis
<1>7. ASSUME NEW c \in Call, RunMoves(c) \/ RunPanics(c) PROVE SupervisorsTyped'
  BY <1>7 DEF SupervisorsTyped, RunMoves, StoreUrl, FindNoReply, ArmPublisher,
     RunPanics, supVars
<1>8. ASSUME NEW c \in Call, EndRun(c) PROVE SupervisorsTyped'
  BY <1>8 DEF SupervisorsTyped, EndRun, WakeForId, Waits, Asking
<1>9. ASSUME NEW c \in Call, NEW h \in Handler, ArriveOverHttp(c, h)
      PROVE  SupervisorsTyped'
  BY <1>9 DEF SupervisorsTyped, ArriveOverHttp, supVars
<1>10. ASSUME NEW c \in Call, NEW d \in Call, TakeReply(c, d)
       PROVE  SupervisorsTyped'
  BY <1>10 DEF SupervisorsTyped, TakeReply, supVars
<1>11. ASSUME NEW c \in Call, NEW d \in Call, NEW h \in Handler, Send(c, d, h)
       PROVE  SupervisorsTyped'
  <2>1. wait' = WakeTopic(h) /\ sup' = sup /\ deaf' = deaf
    BY <1>11 DEF Send
  <2>2. \A s \in AskingFor(h) : sup[s] \in Asking
    BY DEF AskingFor
  <2> QED
    BY <2>1, <2>2 DEF SupervisorsTyped, WakeTopic, Waits
<1>12. ASSUME NEW c \in Call, NEW d \in Call, NEW h \in Handler, SendPanics(c, d, h)
       PROVE  SupervisorsTyped'
  BY <1>12 DEF SupervisorsTyped, SendPanics, supVars
<1>13. CASE UNCHANGED vars
  BY <1>13 DEF SupervisorsTyped, vars, supVars
<1> QED
  BY Steps, <1>1, <1>2, <1>3, <1>4, <1>5, <1>6, <1>7, <1>8, <1>9, <1>10, <1>11,
     <1>12, <1>13

-----------------------------------------------------------------------------
(* How a call moves in a step, and what else holds when it does            *)

(* It is new and arrives, or goes into the queue of a topic.               *)
Arrives(c) ==
    /\ call[c].at = "new"
    /\ \/ /\ call'[c].at = "running" /\ main = "serving"
          /\ call'[c].by = call[c].by /\ call'[c].published = call[c].published
       \/ /\ call'[c].at = "queued" /\ \E b \in Call : call[b].at = "running"
          /\ call'[c].to \in Topics
          /\ call'[c].by = None
       \/ /\ call'[c].at = "unsent" /\ \E b \in Call : call[b].at = "running"
          /\ call'[c].published = call[c].published

(* A supervisor takes it.                                                  *)
Taken(c) ==
    \E s \in Supervisor :
        /\ sup[s] \in Asking /\ sup'[s] = "reserve"
        /\ \/ call[c].at = "new" /\ sup[s] = "subscribed"
           \/ call[c].at = "queued"
        /\ call'[c].at = "held" /\ call'[c].by = s /\ call'[c].to = s[1]
        /\ call'[c].published = call[c].published

(* A queue is replaced, a request_data dropped or a supervisor cancelled.  *)
Losing ==
    \/ main = "handlers"
    \/ \E s \in Supervisor :
          sup[s] \in {"connecting", "subscribed"} \/ sup'[s] = "cancelled"

(* It goes on to the next stage.                                           *)
Advances(c) ==
    /\ \/ call[c].at \in {"queued", "held"} /\ call'[c].at = "lost" /\ Losing
       \/ call[c].at = "held" /\ call'[c].at = "running"
       \/ call[c].at = "running" /\ call'[c].at \in {"panicked", "failed", "ended"}
       \/ call[c].at = "running" /\ call'[c].at = "replied" /\ call[c].published
       \/ call[c].at = "replied" /\ call'[c].at = "ended"
    /\ call'[c].to = call[c].to /\ call'[c].by = call[c].by
    /\ call'[c].published = call[c].published

CallMoves(c) == call'[c] = call[c] \/ Arrives(c) \/ Taken(c) \/ Advances(c)

CallsMove == CallsTyped' /\ \A c \in Call : CallMoves(c)

(* Calls that are lost were queued or held.                                *)
LEMMA LoseMoves ==
    ASSUME CallsTyped, NEW C, Lose(C),
           \A c \in C : c \in Call => call[c].at \in {"queued", "held"} /\ Losing
    PROVE  \A c \in Call : CallMoves(c)
<1> SUFFICES ASSUME NEW c \in Call PROVE call'[c] = call[c] \/ Advances(c)
  BY DEF CallMoves
<1>1. CASE c \in C
  <2>1. call'[c] = [call[c] EXCEPT !.at = "lost"]
    BY <1>1 DEF Lose
  <2> QED
    BY <1>1, <2>1 DEF CallsTyped, CallRecord, Advances
<1>2. CASE c \notin C
  BY <1>2 DEF Lose
<1> QED
  BY <1>1, <1>2

(* A set that counts no more than an empty one is empty.                   *)
LEMMA SomeoneCounts ==
    ASSUME NEW C \in SUBSET Call, C # {}, NEW S, Cardinality(C) <= Cardinality(S)
    PROVE  S # {}
<1>1. IsFiniteSet(C) /\ Cardinality(C) \in Nat /\ Cardinality(C) # 0
  BY LifecycleAssumption, FS_Subset, FS_EmptySet, FS_CardinalityType
<1>2. Cardinality({}) = 0
  BY FS_EmptySet
<1> QED
  BY <1>1, <1>2

(* Every step keeps the types of the calls, and moves each as above.       *)
LEMMA CallsStep == LifecycleInv /\ [Next]_vars => CallsMove
<1> SUFFICES ASSUME LifecycleInv, [Next]_vars PROVE CallsMove
  OBVIOUS
<1>types. LifecycleTypeOK /\ CallsTyped
  BY TypesByPart DEF LifecycleInv
<1>idle. call' = call /\ reply_wait' = reply_wait => CallsMove
  BY <1>types DEF CallsMove, CallsTyped, CallMoves
<1>lose. ASSUME UNCHANGED reply_wait, NEW C, Lose(C),
              \A c \in C : c \in Call => call[c].at \in {"queued", "held"} /\ Losing
       PROVE  CallsMove
  BY <1>types, <1>lose, LoseTyped, LoseMoves DEF CallsMove, CallsTyped
<1>1. CASE OwnerMoves
  BY <1>idle, <1>1 DEF OwnerMoves, AddGlobalState, WithRedisUrl, Start,
     AddHandler,
     LaunchServer, WriteUrl, Shutdown, callVars
<1>2. ASSUME NEW h \in Handler, InitializeHandler(h) PROVE CallsMove
  BY <1>lose, <1>2 DEF InitializeHandler, Queued, Losing
<1>3. CASE ForceFinishAll
  <2> DEFINE H == UNION {Held(s) : s \in Supervisor}
  <2>1. PICK L \in SUBSET {c \in Call : call[c].at = "queued"} :
            /\ \A h \in Handler : Cardinality(L \cap Queued(h))
                                   <= Cardinality({s \in AskingFor(h) : Looking(s)})
            /\ Lose(L \cup H)
    BY <1>3 DEF ForceFinishAll
  <2>2. ASSUME NEW c \in L \cup H PROVE call[c].at \in {"queued", "held"} /\ Losing
    <3>1. CASE c \in L
      <4>1. call[c].to \in Handler /\ c \in L \cap Queued(call[c].to)
        BY <3>1 DEF LifecycleInv, QueuedOnTopics, Topics, Supervisor, Queued
      <4>2. {s \in AskingFor(call[c].to) : Looking(s)} # {}
        BY <2>1, <4>1, SomeoneCounts
      <4>3. PICK s \in Supervisor : sup[s] \in Asking
        BY <4>2 DEF AskingFor
      <4>4. sup'[s] = "cancelled"
        BY <1>3, <4>3 DEF ForceFinishAll, Asking, Gone
      <4> QED
        BY <3>1, <4>4 DEF Losing
    <3>2. CASE c \in H
      <4>1. PICK s \in Supervisor : c \in Held(s)
        BY <3>2
      <4>2. call[c].at = "held" /\ sup[s] = "reserve"
        BY <4>1 DEF Held, LifecycleInv, HeldReserved
      <4>3. sup'[s] = "cancelled"
        BY <1>3, <4>2 DEF ForceFinishAll, Gone
      <4> QED
        BY <4>2, <4>3 DEF Losing
    <3> QED
      BY <2>2, <3>1, <3>2
  <2>3. UNCHANGED reply_wait
    BY <1>3 DEF ForceFinishAll
  <2> HIDE DEF H
  <2> QED
    BY <1>lose, <2>1, <2>2, <2>3
<1>4. ASSUME NEW s \in Supervisor, LoopMoves(s) PROVE CallsMove
  BY <1>idle, <1>4 DEF LoopMoves, BeginLoop, Subscribe, FindNoMessage, FindNoId,
     ArmSupervisor, callVars
<1>5. ASSUME NEW s \in Supervisor, SubscribePanics(s) PROVE CallsMove
  <2>1. PICK L \in Popped(s) : Lose(L)
    BY <1>5 DEF SubscribePanics
  <2>2. \A c \in L : call[c].at = "queued" /\ Losing
    BY <1>5 DEF Popped, Queued, SubscribePanics, Losing
  <2> QED
    BY <1>lose, <1>5, <2>1, <2>2 DEF SubscribePanics
<1>6. ASSUME NEW s \in Supervisor, HandOver(s) PROVE CallsMove
  <2>1. \A c \in Call : [call[c] EXCEPT !.at = "running"] \in CallRecord
    BY <1>types, StageTyped DEF CallStages
  <2>2. call' \in [Call -> CallRecord]
    BY <1>types, <1>6, <2>1 DEF HandOver, CallsTyped
  <2>3. ASSUME NEW c \in Held(s) PROVE Advances(c)
    BY <1>types, <1>6, <2>3 DEF HandOver, CallsTyped, CallRecord, Advances, Held
  <2> QED
    BY <1>types, <1>6, <2>2, <2>3 DEF HandOver, CallsMove, CallsTyped, CallMoves
<1>7. ASSUME NEW s \in Supervisor, NEW c \in Call, TakeFromBus(s, c)
      PROVE  CallsMove
  <2>1. call[c].at = "queued" /\ call[c].to = s[1] /\ sup[s] \in Asking
    BY <1>7 DEF TakeFromBus, Queued, Looking
  <2>2. [call[c] EXCEPT !.at = "held", !.by = s] \in CallRecord
    BY <1>types DEF CallsTyped, CallRecord, CallStages
  <2>3. call' = [call EXCEPT ![c] = [call[c] EXCEPT !.at = "held", !.by = s]]
    BY <1>7 DEF TakeFromBus
  <2>4. sup'[s] = "reserve"
    BY <1>types, <1>7 DEF TakeFromBus, MoveSupervisor, LifecycleTypeOK
  <2>5. Taken(c)
    BY <1>types, <2>1, <2>3, <2>4 DEF CallsTyped, CallRecord, Taken
  <2>6. CallsTyped'
    BY <1>types, <1>7, <2>2, <2>3 DEF TakeFromBus, CallsTyped
  <2>7. \A d \in Call : CallMoves(d)
    BY <1>types, <2>3, <2>5 DEF CallsTyped, CallMoves
  <2> QED
    BY <2>6, <2>7 DEF CallsMove
<1>8. ASSUME NEW s \in Supervisor, NEW c \in Call, TakeFromRedis(s, c)
      PROVE  CallsMove
  <2>1. PICK L \in Popped(s) :
          call' = [d \in Call |->
              IF d = c THEN [call[c] EXCEPT !.at = "held", !.to = s[1], !.by = s]
              ELSE IF d \in L THEN [call[d] EXCEPT !.at = "lost"] ELSE call[d]]
    BY <1>8 DEF TakeFromRedis
  <2>2. call[c].at = "new" /\ sup[s] = "subscribed" /\ s[1] \in Handler
    BY <1>8 DEF TakeFromRedis, Supervisor
  <2>3. sup'[s] = "reserve"
    BY <1>types, <1>8 DEF TakeFromRedis, MoveSupervisor, LifecycleTypeOK
  <2>4. /\ call'[c] = [call[c] EXCEPT !.at = "held", !.to = s[1], !.by = s]
        /\ call'[c] \in CallRecord
    BY <1>types, <2>1, <2>2 DEF CallsTyped, CallRecord, CallStages
  <2>5. Taken(c) /\ Losing
    BY <1>types, <2>2, <2>3, <2>4 DEF CallsTyped, CallRecord, Taken, Asking,
       Losing
  <2>6. ASSUME NEW d \in Call \ {c}
        PROVE  call'[d] \in CallRecord /\ (call'[d] = call[d] \/ Advances(d))
    <3>1. CASE d \in L
      <4>1. call[d].at = "queued" /\ call'[d] = [call[d] EXCEPT !.at = "lost"]
        BY <2>1, <3>1 DEF Popped, Queued
      <4> QED
        BY <1>types, <2>5, <4>1 DEF CallsTyped, CallRecord, CallStages, Advances
    <3>2. CASE d \notin L
      BY <1>types, <2>1, <3>2 DEF CallsTyped
    <3> QED
      BY <3>1, <3>2
  <2>7. CallsTyped'
    <3>1. call' \in [Call -> CallRecord]
      BY <2>1, <2>4, <2>6
    <3> QED
      BY <1>types, <1>8, <3>1 DEF TakeFromRedis, CallsTyped
  <2> QED
    BY <2>5, <2>6, <2>7 DEF CallsMove, CallMoves
<1>9. ASSUME NEW c \in Call, RunMoves(c) PROVE CallsMove
  <2>1. CASE StoreUrl(c)
    BY <1>idle, <2>1 DEF StoreUrl, callVars
  <2>2. CASE FindNoReply(c) \/ ArmPublisher(c)
    BY <1>types, <2>2 DEF FindNoReply, ArmPublisher, CallsMove, CallsTyped,
       CallMoves, Waits
  <2> QED
    BY <1>9, <2>1, <2>2 DEF RunMoves
<1>10. ASSUME NEW c \in Call, EndRun(c) PROVE CallsMove
  <2>1. call[c].at = "running"
    BY <1>10 DEF EndRun, Free
  <2>2. PICK stage \in {"replied", "ended", "failed"} :
          /\ call' = [call EXCEPT ![c] = [call[c] EXCEPT !.at = stage]]
          /\ stage = "replied" => call[c].published
    BY <1>10 DEF EndRun
  <2>3. [call[c] EXCEPT !.at = stage] \in CallRecord
    BY <1>types, StageTyped DEF CallStages
  <2>4. reply_wait' \in [Call -> Waits]
    BY <1>types, <1>10 DEF EndRun, CallsTyped, WakePublisher, Waits
  <2>5. Advances(c)
    BY <1>types, <2>1, <2>2 DEF CallsTyped, CallRecord, Advances
  <2> QED
    BY <1>types, <2>2, <2>3, <2>4, <2>5 DEF CallsMove, CallsTyped, CallMoves
<1>11. ASSUME NEW c \in Call, RunPanics(c) PROVE CallsMove
  <2>1. call[c].at = "running"
    BY <1>11 DEF RunPanics, Free
  <2>2. PICK stage \in {"ended", "panicked"} :
          call' = [call EXCEPT ![c] = [call[c] EXCEPT !.at = stage]]
    BY <1>11 DEF RunPanics
  <2>3. [call[c] EXCEPT !.at = stage] \in CallRecord
    BY <1>types, StageTyped DEF CallStages
  <2>4. Advances(c)
    BY <1>types, <2>1, <2>2 DEF CallsTyped, CallRecord, Advances
  <2> QED
    BY <1>types, <1>11, <2>2, <2>3, <2>4 DEF RunPanics, CallsMove, CallsTyped,
       CallMoves
<1>12. ASSUME NEW c \in Call, NEW h \in Handler, ArriveOverHttp(c, h)
       PROVE  CallsMove
  <2>1. call' = [call EXCEPT ![c] = [call[c] EXCEPT !.at = "running", !.to = h]]
    BY <1>12 DEF ArriveOverHttp
  <2>2. [call[c] EXCEPT !.at = "running", !.to = h] \in CallRecord
    BY <1>types DEF CallsTyped, CallRecord, CallStages
  <2>3. Arrives(c)
    BY <1>types, <1>12, <2>1 DEF CallsTyped, CallRecord, ArriveOverHttp, Arrives
  <2> QED
    BY <1>types, <1>12, <2>1, <2>2, <2>3 DEF ArriveOverHttp, CallsMove,
       CallsTyped, CallMoves
<1>13. ASSUME NEW c \in Call, NEW d \in Call, TakeReply(c, d) PROVE CallsMove
  <2>1. call' = [call EXCEPT ![d] = [call[d] EXCEPT !.at = "ended"]]
    BY <1>13 DEF TakeReply
  <2>2. [call[d] EXCEPT !.at = "ended"] \in CallRecord
    BY <1>types, StageTyped DEF CallStages
  <2>3. Advances(d)
    BY <1>types, <1>13, <2>1 DEF TakeReply, CallsTyped, CallRecord, Advances
  <2> QED
    BY <1>types, <1>13, <2>1, <2>2, <2>3 DEF TakeReply, CallsMove, CallsTyped,
       CallMoves
<1>14. ASSUME NEW c \in Call, NEW d \in Call, NEW h \in Handler, Send(c, d, h)
       PROVE  CallsMove
  <2>1. PICK p \in BOOLEAN :
            call' = [call EXCEPT ![d] = [at |-> "queued", to |-> h, from |-> c,
                                         by |-> None, published |-> p]]
    BY <1>14 DEF Send
  <2>2. [at |-> "queued", to |-> h, from |-> c, by |-> None, published |-> p]
            \in CallRecord
    BY DEF CallRecord, CallStages
  <2>3. /\ call[c].at = "running" /\ call[d].at = "new"
        /\ h \in Topics
    BY <1>14 DEF Send, Free
  <2>4. call'[d] = [at |-> "queued", to |-> h, from |-> c, by |-> None,
                    published |-> p]
    BY <1>types, <2>1 DEF CallsTyped
  <2>5. CallsTyped'
    BY <1>types, <1>14, <2>1, <2>2 DEF Send, CallsTyped
  <2>6. Arrives(d)
    BY <2>3, <2>4 DEF Arrives
  <2>7. \A b \in Call \ {d} : call'[b] = call[b]
    BY <1>types, <2>1 DEF CallsTyped
  <2> QED
    BY <2>5, <2>6, <2>7 DEF CallsMove, CallMoves
<1>15. ASSUME NEW c \in Call, NEW d \in Call, NEW h \in Handler, SendPanics(c, d, h)
       PROVE  CallsMove
  <2>1. call[c].at = "running" /\ call[d].at = "new" /\ c # d
    BY <1>15 DEF SendPanics, Free
  <2>2. call' = [call EXCEPT ![c] = [call[c] EXCEPT !.at = "panicked"],
                 ![d] = [call[d] EXCEPT !.at = "unsent", !.to = h, !.from = c]]
    BY <1>types, <1>15, <2>1 DEF SendPanics, CallsTyped
  <2>3. /\ [call[c] EXCEPT !.at = "panicked"] \in CallRecord
        /\ [call[d] EXCEPT !.at = "unsent", !.to = h, !.from = c] \in CallRecord
    BY <1>types DEF CallsTyped, CallRecord, CallStages
  <2>4. Advances(c)
    BY <1>types, <2>1, <2>2 DEF CallsTyped, CallRecord, Advances
  <2>5. Arrives(d)
    BY <1>types, <2>1, <2>2 DEF CallsTyped, CallRecord, Arrives
  <2>6. \A b \in Call \ {c, d} : call'[b] = call[b]
    BY <1>types, <2>2 DEF CallsTyped
  <2>7. CallsTyped'
    <3>1. \A b \in Call : call'[b] \in CallRecord
      BY <1>types, <2>1, <2>2, <2>3, <2>6 DEF CallsTyped
    <3> QED
      BY <1>types, <1>15, <2>2, <3>1 DEF SendPanics, CallsTyped
  <2> QED
    BY <2>4, <2>5, <2>6, <2>7 DEF CallsMove, CallMoves
<1>16. CASE UNCHANGED vars
  BY <1>idle, <1>16 DEF vars, callVars
<1> QED
  BY Steps, <1>1, <1>2, <1>3, <1>4, <1>5, <1>6, <1>7, <1>8, <1>9, <1>10, <1>11,
     <1>12, <1>13, <1>14, <1>15, <1>16

-----------------------------------------------------------------------------
(* How a supervisor moves in a step, and the entry redis_url               *)
SupervisorMoves(s) ==
    \/ sup'[s] = sup[s]
    \/ /\ UNCHANGED urlVars
       /\ \/ /\ sup[s] = "absent" /\ sup'[s] = "loop"
             /\ main = "handlers" /\ s[1] \in todo \ todo' /\ s[2] = starts
          \/ /\ sup[s] # "absent" /\ sup'[s] = "cancelled" /\ main = "idle"
             /\ \A c \in Held(s) : call'[c].at = "lost"
          \/ sup[s] = "loop" /\ sup'[s] = "bus_only"
          \/ sup[s] = "loop" /\ sup'[s] = "connecting" /\ url = "set"
          \/ sup[s] = "connecting" /\ sup'[s] = "subscribed"
          \/ sup[s] = "connecting" /\ sup'[s] = "panicked" /\ url # "set"
          \/ sup[s] \in Asking /\ sup'[s] = "reserve"
          \/ /\ sup[s] = "reserve" /\ sup'[s] = "loop"
             /\ \A c \in Held(s) : call'[c].at = "running"

UrlMoves ==
    \/ UNCHANGED urlVars
    \/ meddled'
    \/ /\ main = "bound" /\ given' = given /\ meddled' = meddled
       /\ url' = IF given THEN "set" ELSE "none"
    \/ main = "idle" /\ (given => given') /\ meddled' = meddled /\ url' = url

SupervisorsMove == UrlMoves /\ \A s \in Supervisor : SupervisorMoves(s)

(* Every step moves the entry and each supervisor as above.                *)
LEMMA SupervisorsStep == LifecycleInv /\ [Next]_vars => SupervisorsMove
<1> SUFFICES ASSUME LifecycleInv, [Next]_vars PROVE SupervisorsMove
  OBVIOUS
<1>types. /\ LifecycleTypeOK
          /\ sup \in [Supervisor -> Asking \cup Gone
                                          \cup {"absent", "loop", "reserve"}]
  BY DEF LifecycleInv, LifecycleTypeOK
<1>idle. sup' = sup /\ UrlMoves => SupervisorsMove
  BY DEF SupervisorsMove, SupervisorMoves
<1>move. ASSUME UNCHANGED urlVars, NEW s \in Supervisor, NEW where,
              MoveSupervisor(s, where),
              \/ sup[s] = "connecting" /\ where = "panicked" /\ url # "set"
              \/ sup[s] \in Asking /\ where = "reserve"
              \/ /\ sup[s] = "reserve" /\ where = "loop"
                 /\ \A c \in Held(s) : call'[c].at = "running"
       PROVE  SupervisorsMove
  BY <1>types, <1>move DEF MoveSupervisor, SupervisorsMove, SupervisorMoves,
     UrlMoves
<1>1. CASE OwnerMoves
  <2>1. sup' = sup
    BY <1>1 DEF OwnerMoves, AddGlobalState, WithRedisUrl, Start, AddHandler,
       LaunchServer, WriteUrl, Shutdown, supVars
  <2>2. UrlMoves
    BY <1>types, <1>1 DEF LifecycleTypeOK, OwnerMoves, AddGlobalState,
       WithRedisUrl,
       Start, AddHandler, LaunchServer, WriteUrl, Shutdown, Meddle, Insert,
       urlVars, mainVars, UrlMoves
  <2> QED
    BY <1>idle, <2>1, <2>2
<1>2. ASSUME NEW h \in Handler, InitializeHandler(h) PROVE SupervisorsMove
  <2>1. <<h, starts>> \in Supervisor /\ sup[<<h, starts>>] = "absent"
    BY <1>2, LifecycleAssumption DEF InitializeHandler, LifecycleInv,
       LifecycleTypeOK, FirstStart, Numbered, Supervisor
  <2> QED
    BY <1>types, <1>2, <2>1 DEF InitializeHandler, SupervisorsMove,
       SupervisorMoves, UrlMoves
<1>3. CASE ForceFinishAll
  <2>1. UNCHANGED urlVars /\ main = "idle"
    BY <1>3 DEF ForceFinishAll
  <2>2. ASSUME NEW s \in Supervisor, sup'[s] # sup[s]
        PROVE  sup[s] # "absent" /\ sup'[s] = "cancelled"
    BY <1>types, <1>3, <2>2 DEF ForceFinishAll
  <2>3. ASSUME NEW s \in Supervisor, NEW c \in Held(s) PROVE call'[c].at = "lost"
    <3>1. PICK C : Lose(C) /\ UNION {Held(t) : t \in Supervisor} \subseteq C
      BY <1>3 DEF ForceFinishAll
    <3>2. c \in C /\ c \in Call
      BY <3>1 DEF Held
    <3>3. call'[c] = [call[c] EXCEPT !.at = "lost"]
      BY <3>1, <3>2 DEF Lose
    <3> QED
      BY <1>types, <3>2, <3>3 DEF LifecycleTypeOK, CallRecord
  <2> QED
    BY <2>1, <2>2, <2>3 DEF SupervisorsMove, SupervisorMoves, UrlMoves
<1>4. ASSUME NEW s \in Supervisor, LoopMoves(s) PROVE SupervisorsMove
  <2>1. UNCHANGED urlVars
    BY <1>4 DEF LoopMoves, BeginLoop, Subscribe, FindNoMessage, FindNoId,
       ArmSupervisor
  <2>2. CASE BeginLoop(s) \/ Subscribe(s)
    BY <1>types, <2>1, <2>2 DEF BeginLoop, Subscribe, SupervisorsMove,
       SupervisorMoves,
       UrlMoves
  <2>3. CASE FindNoMessage(s)
    BY <1>idle, <1>move, <2>1, <2>3 DEF FindNoMessage, Looking, UrlMoves
  <2>4. CASE FindNoId(s) \/ ArmSupervisor(s)
    BY <1>idle, <2>1, <2>4 DEF FindNoId, ArmSupervisor, UrlMoves
  <2> QED
    BY <1>4, <2>2, <2>3, <2>4 DEF LoopMoves
<1>5. ASSUME NEW s \in Supervisor, SubscribePanics(s) PROVE SupervisorsMove
  BY <1>move, <1>5 DEF SubscribePanics
<1>6. ASSUME NEW s \in Supervisor, HandOver(s) PROVE SupervisorsMove
  <2>1. \A c \in Held(s) : call'[c].at = "running"
    BY <1>types, <1>6 DEF HandOver, Held, LifecycleTypeOK, CallRecord
  <2> QED
    BY <1>move, <1>6, <2>1 DEF HandOver, Granted
<1>7. ASSUME NEW s \in Supervisor, NEW c \in Call,
             TakeFromBus(s, c) \/ TakeFromRedis(s, c)
      PROVE  SupervisorsMove
  BY <1>move, <1>7 DEF TakeFromBus, TakeFromRedis, Looking, Asking
<1>8. ASSUME NEW c \in Call, RunMoves(c) PROVE SupervisorsMove
  BY <1>idle, <1>8 DEF RunMoves, StoreUrl, FindNoReply, ArmPublisher, Meddle,
     supVars, UrlMoves
<1>9. ASSUME NEW c \in Call, EndRun(c) \/ RunPanics(c) PROVE SupervisorsMove
  BY <1>idle, <1>9 DEF EndRun, RunPanics, supVars, UrlMoves
<1>10. ASSUME NEW c \in Call, NEW h \in Handler, ArriveOverHttp(c, h)
       PROVE  SupervisorsMove
  BY <1>idle, <1>10 DEF ArriveOverHttp, supVars, UrlMoves
<1>11. ASSUME NEW c \in Call, NEW d \in Call, TakeReply(c, d)
       PROVE  SupervisorsMove
  BY <1>idle, <1>11 DEF TakeReply, supVars, UrlMoves
<1>12. ASSUME NEW c \in Call, NEW d \in Call, NEW h \in Handler,
              Send(c, d, h) \/ SendPanics(c, d, h)
       PROVE  SupervisorsMove
  BY <1>idle, <1>12 DEF Send, SendPanics, supVars, UrlMoves
<1>13. CASE UNCHANGED vars
  BY <1>idle, <1>13 DEF vars, supVars, UrlMoves
<1> QED
  BY Steps, <1>1, <1>2, <1>3, <1>4, <1>5, <1>6, <1>7, <1>8, <1>9, <1>10, <1>11,
     <1>12, <1>13

(* The types of what the owner keeps, and of the entry redis_url           *)
LEMMA OwnerTypedStep == LifecycleInv /\ [Next]_vars => OwnerTyped'
<1> SUFFICES ASSUME LifecycleInv, [Next]_vars PROVE OwnerTyped'
  OBVIOUS
<1> OwnerTyped
  BY TypesByPart DEF LifecycleInv
<1> USE LifecycleAssumption DEF OwnerTyped, mainVars, urlVars
<1>1. CASE AddGlobalState \/ WithRedisUrl \/ Start
  <2>1. CASE AddGlobalState
    BY <2>1 DEF AddGlobalState, Meddle, Insert
  <2>2. CASE WithRedisUrl
    <3>1. meddled' \in BOOLEAN
      BY <2>2 DEF WithRedisUrl, Meddle
    <3> QED
      BY <2>2, <3>1 DEF WithRedisUrl
  <2>3. CASE Start
    BY <2>3 DEF Start
  <2> QED
    BY <1>1, <2>1, <2>2, <2>3
<1>2. ASSUME NEW h \in Handler, AddHandler(h) \/ InitializeHandler(h)
      PROVE  OwnerTyped'
  BY <1>2 DEF AddHandler, InitializeHandler
<1>3. CASE LaunchServer \/ WriteUrl \/ Shutdown \/ ForceFinishAll
  BY <1>3 DEF LaunchServer, WriteUrl, Shutdown, ForceFinishAll, Insert, Urls
<1>4. ASSUME NEW s \in Supervisor,
             \/ LoopMoves(s) \/ SubscribePanics(s) \/ HandOver(s)
             \/ \E c \in Call : TakeFromBus(s, c) \/ TakeFromRedis(s, c)
      PROVE  OwnerTyped'
  <2>1. UNCHANGED <<mainVars, urlVars>>
    BY <1>4 DEF LoopMoves, BeginLoop, Subscribe, FindNoMessage, FindNoId,
       ArmSupervisor, SubscribePanics, HandOver, TakeFromBus, TakeFromRedis
  <2> QED
    BY <2>1
<1>5. ASSUME NEW c \in Call, RunMoves(c) PROVE OwnerTyped'
  BY <1>5 DEF RunMoves, StoreUrl, FindNoReply, ArmPublisher, Meddle, Insert
<1>6. ASSUME NEW c \in Call,
             \/ EndRun(c) \/ RunPanics(c)
             \/ \E h \in Handler : ArriveOverHttp(c, h)
             \/ \E d \in Call : \/ TakeReply(c, d)
                                \/ \E h \in Handler : \/ Send(c, d, h)
                                                      \/ SendPanics(c, d, h)
      PROVE  OwnerTyped'
  <2>1. UNCHANGED <<mainVars, urlVars>>
    BY <1>6 DEF EndRun, RunPanics, ArriveOverHttp, TakeReply, Send, SendPanics
  <2> QED
    BY <2>1
<1>7. CASE UNCHANGED vars
  BY <1>7 DEF vars
<1> QED
  BY Steps, <1>1, <1>2, <1>3, <1>4, <1>5, <1>6, <1>7 DEF OwnerMoves

(* How start and its end move the owner                                    *)
MainMoves ==
    \/ UNCHANGED <<main, starts>> /\ todo' \subseteq todo
    \/ /\ main = "idle" /\ main' = "handlers"
       /\ starts < MaxStarts /\ starts' = starts + 1
       /\ todo' = registered /\ UNCHANGED <<urlVars, supVars, callVars>>
    \/ /\ main # "idle" /\ main' # "handlers"
       /\ todo = {} /\ UNCHANGED <<starts, todo>>

LEMMA MainStep == LifecycleInv /\ [Next]_vars => MainMoves
<1> SUFFICES ASSUME LifecycleInv, [Next]_vars PROVE MainMoves
  OBVIOUS
<1> USE DEF MainMoves, mainVars
<1>1. CASE AddGlobalState \/ WithRedisUrl \/ Start \/ ForceFinishAll
  BY <1>1 DEF AddGlobalState, WithRedisUrl, Start, ForceFinishAll
<1>2. ASSUME NEW h \in Handler, AddHandler(h) \/ InitializeHandler(h)
      PROVE  MainMoves
  BY <1>2 DEF AddHandler, InitializeHandler
<1>3. CASE LaunchServer \/ WriteUrl \/ Shutdown
  BY <1>3 DEF LaunchServer, WriteUrl, Shutdown, LifecycleInv, Numbered
<1>4. ASSUME NEW s \in Supervisor,
             \/ LoopMoves(s) \/ SubscribePanics(s) \/ HandOver(s)
             \/ \E c \in Call : TakeFromBus(s, c) \/ TakeFromRedis(s, c)
      PROVE  MainMoves
  <2>1. UNCHANGED mainVars
    BY <1>4 DEF LoopMoves, BeginLoop, Subscribe, FindNoMessage, FindNoId,
       ArmSupervisor, SubscribePanics, HandOver, TakeFromBus, TakeFromRedis
  <2> QED
    BY <2>1
<1>5. ASSUME NEW c \in Call,
             \/ RunMoves(c) \/ EndRun(c) \/ RunPanics(c)
             \/ \E h \in Handler : ArriveOverHttp(c, h)
             \/ \E d \in Call : \/ TakeReply(c, d)
                                \/ \E h \in Handler : \/ Send(c, d, h)
                                                      \/ SendPanics(c, d, h)
      PROVE  MainMoves
  <2>1. UNCHANGED mainVars
    BY <1>5 DEF RunMoves, StoreUrl, FindNoReply, ArmPublisher, EndRun,
       RunPanics, ArriveOverHttp, TakeReply, Send, SendPanics
  <2> QED
    BY <2>1
<1>6. CASE UNCHANGED vars
  BY <1>6 DEF vars
<1> QED
  BY Steps, <1>1, <1>2, <1>3, <1>4, <1>5, <1>6 DEF OwnerMoves

-----------------------------------------------------------------------------
(* The first start finds no url, and until it writes one nothing arrives.  *)
LEMMA FirstStartStep == LifecycleInv /\ [Next]_vars => FirstStart'
<1> SUFFICES ASSUME LifecycleInv, [Next]_vars PROVE FirstStart'
  OBVIOUS
<1>1. MainMoves /\ UrlMoves /\ \A s \in Supervisor : SupervisorMoves(s)
  BY MainStep, SupervisorsStep DEF SupervisorsMove
<1>2. \A c \in Call : CallMoves(c)
  BY CallsStep DEF CallsMove
<1>3. starts \in Nat /\ given \in BOOLEAN /\ meddled \in BOOLEAN
  BY LifecycleAssumption DEF LifecycleInv, LifecycleTypeOK
<1>4. ASSUME AllNew, main # "serving", \A s \in Supervisor : sup[s] # "subscribed"
      PROVE  AllNew'
  <2>1. ASSUME NEW c \in Call PROVE call'[c].at = "new"
    BY <1>2, <1>4 DEF AllNew, CallMoves, Arrives, Taken, Advances
  <2> QED
    BY <2>1 DEF AllNew
<1>5. CASE starts' = 0
  <2>1. /\ starts = 0 /\ main = "idle" /\ AllNew
        /\ \A s \in Supervisor : sup[s] = "absent"
        /\ ~meddled => url = "none"
    BY <1>1, <1>3, <1>5 DEF MainMoves, LifecycleInv, FirstStart
  <2>2. main' = "idle"
    BY <1>1, <1>3, <1>5, <2>1 DEF MainMoves
  <2>3. \A s \in Supervisor : sup'[s] = "absent"
    BY <1>1, <2>1 DEF SupervisorMoves, Asking
  <2>4. ~meddled' => url' = "none"
    BY <1>1, <2>1 DEF UrlMoves, urlVars
  <2>5. AllNew'
    BY <1>4, <2>1
  <2> QED
    BY <1>5, <2>2, <2>3, <2>4, <2>5 DEF FirstStart
<1>6. CASE starts' = 1 /\ main' = "handlers" /\ ~meddled'
  <2>1. CASE starts = 0
    <3>1. UNCHANGED <<urlVars, supVars, callVars>>
      BY <1>1, <1>6, <2>1 DEF MainMoves, LifecycleInv, FirstStart
    <3> QED
      BY <1>6, <2>1, <3>1 DEF LifecycleInv, FirstStart, AllNew, urlVars, supVars,
         callVars
  <2>2. CASE starts # 0
    <3>1. starts = 1 /\ main = "handlers"
      BY <1>1, <1>3, <1>6, <2>2 DEF MainMoves
    <3>2. ~meddled /\ url' = url
      <4>1. CASE meddled
        BY <1>1, <1>6, <3>1, <4>1 DEF UrlMoves, urlVars
      <4> QED
        BY <1>1, <1>6, <3>1, <4>1 DEF UrlMoves, urlVars
    <3>3. /\ url = "none" /\ AllNew
          /\ \A s \in Supervisor : sup[s] \notin {"connecting", "subscribed"}
      BY <3>1, <3>2 DEF LifecycleInv, FirstStart
    <3>4. AllNew'
      BY <1>4, <3>1, <3>3
    <3>5. \A s \in Supervisor : sup'[s] \notin {"connecting", "subscribed"}
      BY <1>1, <3>3 DEF SupervisorMoves
    <3> QED
      BY <1>6, <3>2, <3>3, <3>4, <3>5 DEF FirstStart
  <2> QED
    BY <2>1, <2>2
<1> QED
  BY <1>5, <1>6 DEF FirstStart

(* The supervisors of a start are spawned one by one.                      *)
LEMMA NumberedStep == LifecycleInv /\ [Next]_vars => Numbered'
<1> SUFFICES ASSUME LifecycleInv, [Next]_vars PROVE Numbered'
  OBVIOUS
<1>1. MainMoves /\ \A s \in Supervisor : SupervisorMoves(s)
  BY MainStep, SupervisorsStep DEF SupervisorsMove
<1>2. /\ starts \in Nat /\ starts <= MaxStarts
      /\ todo \subseteq Handler /\ registered \subseteq Handler
      /\ \A s \in Supervisor : s[1] \in Handler /\ s[2] \in Nat
  BY LifecycleAssumption DEF LifecycleInv, LifecycleTypeOK, Supervisor
<1>3. ASSUME NEW s \in Supervisor, s[2] > starts' PROVE sup'[s] = "absent"
  <2>1. s[2] > starts
    BY <1>1, <1>2, <1>3 DEF MainMoves
  <2>2. sup[s] = "absent" /\ s[2] # starts
    BY <1>2, <2>1 DEF LifecycleInv, Numbered
  <2> QED
    BY <1>1, <2>2 DEF SupervisorMoves, Asking
<1>4. CASE UNCHANGED <<main, starts>> /\ todo' \subseteq todo
  <2>1. ASSUME NEW h \in todo'
        PROVE  main = "handlers" /\ sup'[<<h, starts>>] = "absent"
    <3>1. h \in todo /\ main = "handlers" /\ sup[<<h, starts>>] = "absent"
      BY <1>4, <2>1 DEF LifecycleInv, Numbered
    <3>2. <<h, starts>> \in Supervisor
      BY <1>2, <3>1, LifecycleAssumption DEF LifecycleInv, FirstStart, Supervisor
    <3> QED
      BY <1>1, <2>1, <3>1, <3>2 DEF SupervisorMoves, Asking
  <2> QED
    BY <1>3, <1>4, <2>1 DEF Numbered
<1>5. CASE /\ main' = "handlers" /\ starts < MaxStarts /\ starts' = starts + 1
           /\ todo' = registered /\ UNCHANGED supVars
  <2>1. ASSUME NEW h \in registered PROVE sup'[<<h, starts'>>] = "absent"
    <3>1. <<h, starts + 1>> \in Supervisor
      BY <1>2, <1>5, LifecycleAssumption DEF Supervisor
    <3> QED
      BY <1>2, <1>5, <3>1 DEF LifecycleInv, Numbered, supVars
  <2> QED
    BY <1>3, <1>5, <2>1 DEF Numbered
<1>6. CASE todo = {} /\ UNCHANGED <<starts, todo>>
  BY <1>3, <1>6 DEF Numbered
<1> QED
  BY <1>1, <1>4, <1>5, <1>6 DEF MainMoves

(* A url that nobody meddled with comes from the manager, which keeps it.  *)
LEMMA UrlSourcesStep == LifecycleInv /\ [Next]_vars => UrlSources'
<1> SUFFICES ASSUME LifecycleInv, [Next]_vars, ~meddled' PROVE UrlSources'
  BY DEF UrlSources
<1>1. UrlMoves /\ \A s \in Supervisor : SupervisorMoves(s)
  BY SupervisorsStep DEF SupervisorsMove
<1>2. given \in BOOLEAN /\ url \in {"none", "set"}
  BY DEF LifecycleInv, LifecycleTypeOK, Urls
<1>3. ~meddled
  BY <1>1 DEF UrlMoves, urlVars
<1>4. /\ url = "set" => given
      /\ \A s \in Supervisor :
            /\ sup[s] \in {"connecting", "subscribed"} => given
            /\ sup[s] = "connecting" => url = "set"
            /\ sup[s] # "panicked"
  BY <1>3 DEF LifecycleInv, UrlSources
<1>5. given => given'
  BY <1>1 DEF UrlMoves, urlVars
<1>6. url' = "set" => given'
  BY <1>1, <1>4, <1>5 DEF UrlMoves, urlVars
<1>7. url = "set" => url' = "set"
  BY <1>1, <1>4 DEF UrlMoves, urlVars
<1>8. ASSUME NEW s \in Supervisor
      PROVE  /\ sup'[s] \in {"connecting", "subscribed"} => given'
             /\ sup'[s] = "connecting" => url' = "set"
             /\ sup'[s] # "panicked"
  <2>1. CASE sup'[s] = sup[s]
    BY <1>4, <1>5, <1>7, <2>1
  <2>2. CASE sup'[s] # sup[s]
    <3>1. /\ sup'[s] \in {"connecting", "subscribed"} => url = "set"
          /\ sup'[s] # "panicked"
      BY <1>1, <1>4, <2>2 DEF SupervisorMoves
    <3> QED
      BY <1>4, <1>5, <1>7, <3>1
  <2> QED
    BY <2>1, <2>2
<1> QED
  BY <1>6, <1>8 DEF UrlSources

(* A supervisor keeps looking for a replica as long as it holds a call.    *)
LEMMA HeldReservedStep == LifecycleInv /\ [Next]_vars => HeldReserved'
<1> SUFFICES ASSUME LifecycleInv, [Next]_vars, NEW c \in Call,
                    call'[c].at = "held"
             PROVE  call'[c].by \in Supervisor /\ sup'[call'[c].by] = "reserve"
  BY DEF HeldReserved
<1>1. CallMoves(c) /\ \A s \in Supervisor : SupervisorMoves(s)
  BY CallsStep, SupervisorsStep DEF CallsMove, SupervisorsMove
<1>2. CASE call'[c] = call[c]
  <2>1. call[c].by \in Supervisor /\ sup[call[c].by] = "reserve"
    BY <1>2 DEF LifecycleInv, HeldReserved
  <2>2. c \in Held(call[c].by)
    BY <1>2 DEF Held
  <2>3. sup'[call[c].by] = "reserve"
    BY <1>1, <1>2, <2>1, <2>2 DEF SupervisorMoves, Asking
  <2> QED
    BY <1>2, <2>1, <2>3
<1>3. CASE call'[c] # call[c]
  BY <1>1, <1>3 DEF CallMoves, Arrives, Taken, Advances
<1> QED
  BY <1>2, <1>3

(* No supervisor becomes absent again, and so topics stay on the bus.      *)
LEMMA TopicsStay ==
    LifecycleInv /\ [Next]_vars
        => /\ \A s \in Supervisor : sup[s] # "absent" => sup'[s] # "absent"
           /\ Topics \subseteq Topics'
<1> SUFFICES ASSUME LifecycleInv, [Next]_vars
             PROVE  /\ \A s \in Supervisor : sup[s] # "absent" => sup'[s] # "absent"
                    /\ Topics \subseteq Topics'
  OBVIOUS
<1>1. \A s \in Supervisor : SupervisorMoves(s)
  BY SupervisorsStep DEF SupervisorsMove
<1>2. \A s \in Supervisor : sup[s] # "absent" => sup'[s] # "absent"
  BY <1>1 DEF SupervisorMoves
<1> QED
  BY <1>2 DEF Topics

(* A call is queued by publish or dispatch, at a topic that is there.      *)
LEMMA QueuedOnTopicsStep == LifecycleInv /\ [Next]_vars => QueuedOnTopics'
<1> SUFFICES ASSUME LifecycleInv, [Next]_vars, NEW c \in Call,
                    call'[c].at = "queued"
             PROVE  call'[c].to \in Topics'
  BY DEF QueuedOnTopics
<1>1. CallMoves(c) /\ Topics \subseteq Topics'
  BY CallsStep, TopicsStay DEF CallsMove
<1>2. call'[c].to \in Topics
  BY <1>1 DEF CallMoves, Arrives, Taken, Advances, LifecycleInv, QueuedOnTopics
<1> QED
  BY <1>1, <1>2

(* A supervisor is deafened by a later one only.                           *)
LEMMA EveryTopicServedStep == LifecycleInv /\ [Next]_vars => EveryTopicServed'
<1> SUFFICES ASSUME LifecycleInv, [Next]_vars, NEW s \in deaf'
             PROVE  \E t \in Supervisor : /\ t[1] = s[1] /\ t[2] > s[2]
                                          /\ sup'[t] # "absent"
  BY DEF EveryTopicServed
<1>1. CASE s \in deaf
  <2>1. PICK t \in Supervisor : t[1] = s[1] /\ t[2] > s[2] /\ sup[t] # "absent"
    BY <1>1 DEF LifecycleInv, EveryTopicServed
  <2> QED
    BY <2>1, TopicsStay
<1>2. CASE \E h \in Handler : InitializeHandler(h) /\ s \in AskingFor(h)
  <2>1. PICK h \in Handler : InitializeHandler(h) /\ s \in AskingFor(h)
    BY <1>2
  <2>2. /\ s \in Supervisor /\ s[1] = h /\ sup[s] \in Asking
        /\ starts \in Nat /\ s[2] \in Nat
    BY <2>1, LifecycleAssumption DEF AskingFor, Supervisor, LifecycleInv,
       LifecycleTypeOK
  <2>3. /\ <<h, starts>> \in Supervisor
        /\ sup[<<h, starts>>] = "absent" /\ sup'[<<h, starts>>] = "loop"
    BY <2>1, LifecycleAssumption DEF InitializeHandler, LifecycleInv,
       LifecycleTypeOK, FirstStart, Numbered, Supervisor
  <2>4. s[2] # starts
    BY <2>2, <2>3 DEF Supervisor, Asking
  <2>5. ~(s[2] > starts)
    BY <2>2 DEF LifecycleInv, Numbered, Asking
  <2> QED
    BY <2>2, <2>3, <2>4, <2>5
<1>3. s \in deaf \/ \E h \in Handler : InitializeHandler(h) /\ s \in AskingFor(h)
  <2>1. CASE OwnerMoves
    BY <2>1 DEF OwnerMoves, AddGlobalState, WithRedisUrl, Start, AddHandler,
       LaunchServer, WriteUrl, Shutdown, supVars
  <2>2. ASSUME NEW h \in Handler, InitializeHandler(h)
        PROVE  \/ s \in deaf
               \/ \E i \in Handler : InitializeHandler(i) /\ s \in AskingFor(i)
    <3>1. s \in deaf \/ s \in AskingFor(h)
      BY <2>2 DEF InitializeHandler
    <3> QED
      BY <2>2, <3>1
  <2>3. CASE ForceFinishAll
    BY <2>3 DEF ForceFinishAll
  <2>4. ASSUME NEW t \in Supervisor,
               \/ LoopMoves(t) \/ SubscribePanics(t) \/ HandOver(t)
               \/ \E c \in Call : TakeFromBus(t, c) \/ TakeFromRedis(t, c)
        PROVE  s \in deaf
    BY <2>4 DEF LoopMoves, BeginLoop, Subscribe, FindNoMessage, FindNoId,
       ArmSupervisor, SubscribePanics, HandOver, TakeFromBus, TakeFromRedis,
       MoveSupervisor
  <2>5. ASSUME NEW c \in Call,
               \/ RunMoves(c) \/ EndRun(c) \/ RunPanics(c)
               \/ \E h \in Handler : ArriveOverHttp(c, h)
               \/ \E d \in Call : \/ TakeReply(c, d)
                                  \/ \E h \in Handler : \/ Send(c, d, h)
                                                      \/ SendPanics(c, d, h)
        PROVE  s \in deaf
    BY <2>5 DEF RunMoves, StoreUrl, FindNoReply, ArmPublisher, EndRun,
       RunPanics, ArriveOverHttp, TakeReply, Send, SendPanics, supVars
  <2>6. CASE UNCHANGED vars
    BY <2>6 DEF vars, supVars
  <2> QED
    BY Steps, <2>1, <2>2, <2>3, <2>4, <2>5, <2>6
<1> QED
  BY <1>1, <1>2, <1>3

(* Without Redis no request_data is dropped, and the topics are made while *)
(* no message is under way.                                                *)
LEMMA NothingLostOnTheBusStep ==
    LifecycleInv /\ [Next]_vars => NothingLostOnTheBus'
<1> SUFFICES ASSUME LifecycleInv, [Next]_vars, starts' = 1, ~given', ~meddled',
                    \A s \in Supervisor : sup'[s] # "cancelled",
                    NEW c \in Call, call'[c].at = "lost"
             PROVE  FALSE
  BY DEF NothingLostOnTheBus
<1>1. /\ MainMoves /\ UrlMoves /\ CallMoves(c)
      /\ \A s \in Supervisor : SupervisorMoves(s)
  BY MainStep, SupervisorsStep, CallsStep DEF SupervisorsMove, CallsMove
<1>2. ~given /\ ~meddled
  BY <1>1 DEF UrlMoves, urlVars
<1>3. \A s \in Supervisor : /\ sup[s] \notin {"connecting", "subscribed"}
                            /\ sup[s] # "cancelled"
  BY <1>1, <1>2 DEF LifecycleInv, UrlSources, SupervisorMoves, Asking
<1>4. CASE starts = 1
  <2>1. call[c].at # "lost"
    BY <1>2, <1>3, <1>4 DEF LifecycleInv, NothingLostOnTheBus
  <2>2. main = "handlers" => call[c].at = "new"
    BY <1>2, <1>4 DEF LifecycleInv, FirstStart, AllNew
  <2>3. ~Losing \/ call[c].at = "new"
    BY <1>3, <2>2 DEF Losing
  <2> QED
    BY <1>1, <2>1, <2>3 DEF CallMoves, Arrives, Taken, Advances
<1>5. CASE starts # 1
  <2>1. starts \in Nat /\ call' = call
    BY <1>1, <1>5, LifecycleAssumption DEF MainMoves, callVars, LifecycleInv,
       LifecycleTypeOK
  <2>2. starts = 0
    BY <1>1, <1>5, <2>1 DEF MainMoves
  <2> QED
    BY <2>1, <2>2 DEF LifecycleInv, FirstStart, AllNew
<1> QED
  BY <1>4, <1>5

-----------------------------------------------------------------------------
(* The invariant holds initially.                                          *)
LEMMA LifecycleInvInit == Init => LifecycleInv
<1> SUFFICES ASSUME Init PROVE LifecycleInv
  OBVIOUS
<1> USE LifecycleAssumption DEF Init
<1>1. LifecycleTypeOK
  <2>1. [at |-> "new", to |-> None, from |-> None, by |-> None,
         published |-> FALSE] \in CallRecord
    BY DEF CallRecord, CallStages
  <2>2. CallsTyped
    BY <2>1 DEF CallsTyped, Waits
  <2>3. OwnerTyped
    <3>1. starts \in 0..MaxStarts
      OBVIOUS
    <3> QED
      BY <3>1 DEF OwnerTyped, Urls
  <2>4. SupervisorsTyped
    BY DEF SupervisorsTyped, Waits
  <2> QED
    BY <2>2, <2>3, <2>4, TypesByPart
<1>2. FirstStart /\ Numbered /\ UrlSources
  BY DEF FirstStart, AllNew, Numbered, UrlSources
<1>3. HeldReserved /\ QueuedOnTopics
  BY DEF HeldReserved, QueuedOnTopics
<1>4. EveryTopicServed /\ NothingLostOnTheBus
  BY DEF EveryTopicServed, NothingLostOnTheBus
<1> QED
  BY <1>1, <1>2, <1>3, <1>4 DEF LifecycleInv

(* Every step preserves it, since it preserves each of its parts.          *)
LEMMA LifecycleInvInvariant == Spec => []LifecycleInv
<1>1. LifecycleInv /\ [Next]_vars => LifecycleTypeOK'
  BY OwnerTypedStep, SupervisorsTypedStep, CallsStep
     DEF CallsMove, LifecycleTypeOK, OwnerTyped, SupervisorsTyped, CallsTyped
<1>2. LifecycleInv /\ [Next]_vars => LifecycleInv'
  BY <1>1, FirstStartStep, NumberedStep, UrlSourcesStep, HeldReservedStep,
     QueuedOnTopicsStep, EveryTopicServedStep, NothingLostOnTheBusStep
     DEF LifecycleInv
<1> QED
  BY LifecycleInvInit, <1>2, PTL DEF Spec

(* The state of a manager stays in its types, however often it is started. *)
THEOREM LifecycleTypeCorrect == Spec => []LifecycleTypeOK
<1>1. LifecycleInv => LifecycleTypeOK
  BY DEF LifecycleInv
<1> QED
  BY LifecycleInvInvariant, <1>1, PTL

(* The newest supervisor of a topic never waits on a Notify that was       *)
(* replaced.                                                               *)
THEOREM TopicsStayServed == Spec => []EveryTopicServed
<1>1. LifecycleInv => EveryTopicServed
  BY DEF LifecycleInv
<1> QED
  BY LifecycleInvInvariant, <1>1, PTL

(* Nothing reaches a handler while the first start makes the topics,       *)
(* unless others wrote a redis_url before.                                 *)
THEOREM TopicsPrecedeCalls == Spec => []TopicsBeforeCalls
<1>1. LifecycleInv => TopicsBeforeCalls
  BY DEF LifecycleInv, FirstStart, AllNew, TopicsBeforeCalls
<1> QED
  BY LifecycleInvInvariant, <1>1, PTL

(* As long as redis_url is written by start alone, and the manager keeps a *)
(* url once it has one, no supervisor panics for want of it, for any       *)
(* number of starts and wherever the supervisors of earlier ones are.      *)
THEOREM UrlIsKept == Spec => []UrlKeptWhileConnecting
<1>1. LifecycleInv => UrlKeptWhileConnecting
  BY DEF LifecycleInv, UrlSources, UrlKeptWhileConnecting
<1> QED
  BY LifecycleInvInvariant, <1>1, PTL

(* With one start, no forced finish and no Redis no message that was put   *)
(* into the queue of a topic is dropped before its run.                    *)
THEOREM BusLosesNothing == Spec => []NothingLostOnTheBus
<1>1. LifecycleInv => NothingLostOnTheBus
  BY DEF LifecycleInv
<1> QED
  BY LifecycleInvInvariant, <1>1, PTL

-----------------------------------------------------------------------------
(* The calls that keep an id of a supervisor's pool from standby           *)
BusyCalls(s) == {c \in Call : call[c].by = s
                              /\ call[c].at \in {"running", "panicked"}}

(* A call has a supervisor only when that has taken it, which is one of    *)
(* the handler the call is for.                                            *)
Placed ==
    \A c \in Call :
        /\ call[c].at \in {"new", "queued"} => call[c].by = None
        /\ call[c].at \in {"held", "running", "replied"} /\ call[c].by # None =>
              /\ call[c].to = call[c].by[1]
              /\ sup[call[c].by] # "absent"

(* A call that was published has been sent, and is run by a supervisor.    *)
PublishedTaken ==
    \A c \in Call : call[c].published =>
        /\ call[c].at \notin {"new", "unsent"}
        /\ call[c].at \in {"running", "replied"} => call[c].by # None

RepliesInv ==
    /\ LifecycleInv
    /\ Placed
    /\ PublishedTaken

(* A call is with a supervisor from the moment it is taken.                *)
LEMMA PlacedStep == RepliesInv /\ [Next]_vars => Placed'
<1> SUFFICES ASSUME RepliesInv, [Next]_vars, NEW c \in Call
             PROVE  /\ call'[c].at \in {"new", "queued"} => call'[c].by = None
                    /\ /\ call'[c].at \in {"held", "running", "replied"}
                       /\ call'[c].by # None
                       => /\ call'[c].to = call'[c].by[1]
                          /\ sup'[call'[c].by] # "absent"
  BY DEF Placed
<1>1. /\ CallMoves(c)
      /\ \A s \in Supervisor : sup[s] # "absent" => sup'[s] # "absent"
  BY CallsStep, TopicsStay DEF CallsMove, RepliesInv
<1>2. call[c].by \in Supervisor \cup {None}
  BY DEF RepliesInv, LifecycleInv, LifecycleTypeOK, CallRecord
<1>3. CASE call'[c] = call[c] \/ Advances(c)
  <2>1. call'[c].at \in {"held", "running", "replied"}
            => /\ call[c].at \in {"held", "running", "replied"}
               /\ call'[c].to = call[c].to /\ call'[c].by = call[c].by
    BY <1>3 DEF Advances
  <2>2. call'[c].at \in {"new", "queued"}
            => call'[c].at = call[c].at /\ call'[c].by = call[c].by
    BY <1>3 DEF Advances
  <2> QED
    BY <1>1, <1>2, <2>1, <2>2 DEF RepliesInv, Placed
<1>4. CASE Arrives(c)
  BY <1>4 DEF Arrives, RepliesInv, Placed
<1>5. CASE Taken(c)
  BY <1>5 DEF Taken
<1> QED
  BY <1>1, <1>3, <1>4, <1>5 DEF CallMoves

(* A published call is queued when it is sent, and a supervisor takes it   *)
(* before it is run.                                                       *)
LEMMA PublishedTakenStep == RepliesInv /\ [Next]_vars => PublishedTaken'
<1> SUFFICES ASSUME RepliesInv, [Next]_vars, NEW c \in Call, call'[c].published
             PROVE  /\ call'[c].at \notin {"new", "unsent"}
                    /\ call'[c].at \in {"running", "replied"} => call'[c].by # None
  BY DEF PublishedTaken
<1>1. CallMoves(c)
  BY CallsStep DEF CallsMove, RepliesInv
<1>2. call[c].at = "held" => call[c].by # None
  BY NoneAssumption DEF RepliesInv, LifecycleInv, HeldReserved
<1>3. CASE call'[c] = call[c] \/ Advances(c)
  BY <1>2, <1>3 DEF Advances, RepliesInv, PublishedTaken
<1>4. CASE Arrives(c) \/ Taken(c)
  BY <1>4 DEF Arrives, Taken, RepliesInv, PublishedTaken
<1> QED
  BY <1>1, <1>3, <1>4 DEF CallMoves

(* The invariant of the types and stages, with the two parts about         *)
(* published calls                                                         *)
LEMMA RepliesInvInvariant == Spec => []RepliesInv
<1>1. Init => Placed /\ PublishedTaken
  BY DEF Init, Placed, PublishedTaken
<1>2. Init => RepliesInv
  BY <1>1, LifecycleInvInit DEF RepliesInv
<1>3. RepliesInv /\ LifecycleInv' /\ [Next]_vars => RepliesInv'
  BY PlacedStep, PublishedTakenStep DEF RepliesInv
<1> QED
  BY <1>2, <1>3, LifecycleInvInvariant, PTL DEF Spec

-----------------------------------------------------------------------------
(* A set of natural numbers has a least element, since < is well-founded.  *)
LEMMA LeastOf ==
    ASSUME NEW T, T \subseteq Nat, T # {}
    PROVE  \E m \in T : \A n \in T : m <= n
<1> DEFINE R == OpToRel(<, Nat)
<1>1. IsWellFoundedOn(R, Nat)
  BY NatLessThanWellFounded
<1>2. \A n, m \in Nat : n < m => <<n, m>> \in R
  BY DEF OpToRel
<1> HIDE DEF R
<1>3. PICK m \in T : \A n \in T : <<n, m>> \notin R
  BY <1>1, WFMin
<1>4. ASSUME NEW n \in T PROVE m <= n
  <2>1. n \in Nat /\ m \in Nat /\ ~(n < m)
    BY <1>2, <1>3
  <2> QED
    BY <2>1
<1> QED
  BY <1>4

(* The newest supervisor of a topic is not deaf.                           *)
LEMMA TopicHasSupervisor ==
    ASSUME LifecycleInv, NEW h \in Topics
    PROVE  \E s \in Supervisor : s[1] = h /\ sup[s] # "absent" /\ s \notin deaf
<1> DEFINE S == {s \in Supervisor : s[1] = h /\ sup[s] # "absent"}
           T == {MaxStarts - s[2] : s \in S}
<1>1. \A s \in S : s[2] \in 1..MaxStarts
  BY DEF Supervisor
<1>2. T \subseteq Nat
  BY <1>1, LifecycleAssumption
<1>3. T # {}
  BY DEF Topics
<1>4. PICK m \in T : \A n \in T : m <= n
  BY <1>2, <1>3, LeastOf
<1>5. PICK s \in S : m = MaxStarts - s[2]
  OBVIOUS
<1>6. ASSUME s \in deaf PROVE FALSE
  <2>1. PICK t \in Supervisor : t[1] = s[1] /\ t[2] > s[2] /\ sup[t] # "absent"
    BY <1>6 DEF LifecycleInv, EveryTopicServed
  <2>2. t \in S /\ MaxStarts - s[2] <= MaxStarts - t[2]
    BY <1>4, <1>5, <2>1
  <2> QED
    BY <1>1, <2>1, <2>2, LifecycleAssumption
<1> QED
  BY <1>6

(* When a supervisor finds no id, and has not missed the wake-up for one,  *)
(* one of the runs that have them waits.                                   *)
LEMMA ReplicaWaits ==
    ASSUME RepliesInv, Undisturbed, NEW s \in Supervisor, sup[s] = "reserve",
           ~CanMove(s[1])
    PROVE  \E e \in Call : Awaited(e) /\ <<s[1], call[e].to>> \in WaitingHandlers
<1>1. ~(Busy(s) < NrReplicas)
  <2>1. CASE wait[s] = "looks"
    BY <2>1 DEF CanMove, Granted
  <2>2. CASE wait[s] # "looks"
    <3>1. s \in Waiters \ deaf
      BY <2>2 DEF RepliesInv, LifecycleInv, LifecycleTypeOK, Waits, Asking,
         Waiters
    <3> QED
      BY <3>1 DEF Undisturbed, Overslept
  <2> QED
    BY <2>1, <2>2
<1>2. BusyCalls(s) # {}
  <2>1. Busy(s) = Cardinality(BusyCalls(s))
    BY DEF Busy, BusyCalls
  <2> QED
    BY <1>1, <2>1, FS_EmptySet, LifecycleAssumption
<1>3. PICK r \in Call : call[r].by = s /\ call[r].at = "running"
  BY <1>2 DEF BusyCalls, Undisturbed
<1>4. call[r].by # None /\ call[r].to = s[1]
  BY <1>3, NoneAssumption DEF RepliesInv, Placed
<1>5. PICK e \in Call : call[e].from = r /\ Awaited(e)
  BY <1>3, <1>4 DEF CanMove, Free, Waiting, Undisturbed
<1> QED
  BY <1>4, <1>5 DEF WaitingHandlers

(* The stages of a call whose reply is awaited                             *)
LEMMA AwaitedStages ==
    ASSUME RepliesInv, Undisturbed, NEW d \in Call, Awaited(d)
    PROVE  call[d].at \in {"queued", "held", "running", "replied"}
<1>1. call[d].at \in CallStages
  BY DEF RepliesInv, LifecycleInv, LifecycleTypeOK, CallRecord
<1> QED
  BY <1>1 DEF Awaited, RepliesInv, PublishedTaken, Undisturbed, CallStages

(* Where a reply is awaited and nothing can move, a run of that handler    *)
(* awaits a reply in turn.                                                 *)
LEMMA ReplyAwaitsReply ==
    ASSUME RepliesInv, Undisturbed, NEW d \in Call, Awaited(d),
           ~CanMove(call[d].to)
    PROVE  \E e \in Call :
              Awaited(e) /\ <<call[d].to, call[e].to>> \in WaitingHandlers
<1> USE DEF RepliesInv, LifecycleInv
<1>1. CASE call[d].at = "queued"
  <2>1. call[d].to \in Topics
    BY <1>1 DEF QueuedOnTopics
  <2>2. PICK s \in Supervisor : /\ s[1] = call[d].to
                                /\ sup[s] # "absent"
                                /\ s \notin deaf
    BY <2>1, TopicHasSupervisor
  <2>3. Queued(s[1]) # {}
    BY <1>1, <2>2 DEF Queued
  <2>4. sup[s] \notin Asking
    <3>1. ~Looking(s)
      BY <2>2, <2>3 DEF CanMove
    <3>2. s \in Waiters => sup[s] \notin Asking
      BY <2>2, <2>3 DEF Undisturbed, Overslept
    <3> QED
      BY <3>1, <3>2 DEF Looking, Waiters, LifecycleTypeOK, Waits
  <2>5. sup[s] # "loop"
    BY <2>2 DEF CanMove
  <2>6. sup[s] = "reserve"
    BY <2>2, <2>4, <2>5 DEF LifecycleTypeOK, Undisturbed
  <2> QED
    BY <2>2, <2>6, ReplicaWaits
<1>2. CASE call[d].at = "held"
  <2>1. /\ call[d].by \in Supervisor
        /\ sup[call[d].by] = "reserve"
        /\ call[d].to = call[d].by[1]
    BY <1>2, NoneAssumption DEF HeldReserved, Placed
  <2> QED
    BY <2>1, ReplicaWaits
<1>3. CASE call[d].at = "running"
  <2>1. PICK e \in Call : call[e].from = d /\ Awaited(e)
    BY <1>3 DEF CanMove, Free, Waiting, Undisturbed
  <2>2. call[d].by # None
    BY <1>3 DEF Awaited, PublishedTaken
  <2> QED
    BY <2>1, <2>2 DEF WaitingHandlers
<1>4. call[d].at # "replied"
  BY DEF CanMove, Undisturbed, Overslept
<1> QED
  BY <1>1, <1>2, <1>3, <1>4, AwaitedStages

(* A reply is awaited from a handler.                                      *)
LEMMA AwaitedFromHandler ==
    ASSUME RepliesInv, Undisturbed, NEW d \in Call, Awaited(d)
    PROVE  call[d].to \in Handler
<1> USE DEF RepliesInv, LifecycleInv
<1>1. CASE call[d].at = "queued"
  BY <1>1 DEF QueuedOnTopics, Topics, Supervisor
<1>2. CASE call[d].at \in {"held", "running", "replied"}
  <2>1. call[d].by \in Supervisor
    BY <1>2 DEF HeldReserved, Awaited, PublishedTaken, LifecycleTypeOK,
       CallRecord
  <2> QED
    BY <1>2, <2>1, NoneAssumption DEF Placed, Supervisor
<1> QED
  BY <1>1, <1>2, AwaitedStages

(* As long as replicas wait for lower ranks only, and nobody has failed,   *)
(* overslept or run out of workers, publish does not deadlock, for any     *)
(* calls, workers, replicas and starts: of the awaited handlers at and     *)
(* below which nothing could move, take one of least rank; a run of it     *)
(* would await one of them from a lower rank.                              *)
THEOREM PublishingDoesNotDeadlock == Spec => []PublishesReturn
<1>1. ASSUME RepliesInv, Undisturbed, NEW rank \in Ranks
      PROVE  \A d \in Call : Awaited(d) =>
                \E h \in Handler : rank[h] <= rank[call[d].to] /\ CanMove(h)
  <2> DEFINE Below(d) == \E h \in Handler : /\ rank[h] <= rank[call[d].to]
                                            /\ CanMove(h)
             Stuck    == {d \in Call : Awaited(d) /\ ~Below(d)}
             T        == {rank[call[d].to] : d \in Stuck}
  <2>1. \A h \in Handler : rank[h] \in Nat
    <3>1. Cardinality(Handler) \in Nat
      BY LifecycleAssumption, FS_CardinalityType
    <3> QED
      BY <3>1 DEF Ranks
  <2>2. \A d \in Stuck : call[d].to \in Handler
    BY <1>1, AwaitedFromHandler
  <2> SUFFICES ASSUME Stuck # {} PROVE FALSE
    OBVIOUS
  <2>3. PICK m \in T : \A n \in T : m <= n
    <3>1. T \subseteq Nat /\ T # {}
      BY <2>1, <2>2
    <3> HIDE DEF T
    <3> QED
      BY <3>1, LeastOf
  <2>4. PICK d \in Stuck : m = rank[call[d].to]
    OBVIOUS
  <2>5. ~CanMove(call[d].to)
    BY <2>1, <2>2
  <2>6. PICK e \in Call : /\ Awaited(e)
                          /\ <<call[d].to, call[e].to>> \in WaitingHandlers
    BY <1>1, <2>5, ReplyAwaitsReply
  <2>7. call[e].to \in Handler /\ rank[call[d].to] > rank[call[e].to]
    <3>1. call[e].to \in Handler
      BY <1>1, <2>6, AwaitedFromHandler
    <3>2. \A w \in WaitingHandlers : rank[w[1]] > rank[w[2]]
      BY DEF Ranks
    <3> QED
      BY <2>6, <3>1, <3>2
  <2>8. e \notin Stuck
    BY <2>1, <2>2, <2>3, <2>4, <2>7
  <2>9. PICK h \in Handler : rank[h] <= rank[call[e].to] /\ CanMove(h)
    BY <2>6, <2>8
  <2>10. rank[h] <= rank[call[d].to]
    BY <2>1, <2>2, <2>7, <2>9
  <2> QED
    BY <2>9, <2>10
<1>2. RepliesInv => PublishesReturn
  BY <1>1 DEF PublishesReturn
<1> QED
  BY <1>2, RepliesInvInvariant, PTL

=============================================================================
