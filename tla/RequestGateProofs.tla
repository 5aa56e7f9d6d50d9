--------------------------- MODULE RequestGateProofs ---------------------------
(***************************************************************************)
(* Proofs about the HTTP routes and their semaphores, for any requests,    *)
(* handlers, permits, bodies and channels.                                 *)
(***************************************************************************)
EXTENDS RequestGate, SequenceLemmas, FiniteSetTheorems, TLAPS

(* Where the front of a request has got to says whether there is a         *)
(* processor, and which route it is on.                                    *)
FrontsAndTasks ==
    \A r \in Request :
        /\ front[r] \in {"absent", "body"} => task[r] = "none"
        /\ task[r] = "none" => front[r] \in {"absent", "body", "answered", "dropped"}
        /\ front[r] = "body" => route[r] \in Handler \ {"upload"}
        /\ front[r] \in {"stream", "send"} => route[r] = "upload"
        /\ task[r] # "none" => route[r] \in Handler
        /\ answer[r] # "none" => front[r] = "answered"
        /\ task[r] # "done" => result[r] = "none"

(* Those who acquire are in line, once.                                    *)
Queues ==
    /\ IsInjective(waiting)
    /\ Range(waiting) = Holders({"acquire"})
    /\ \A h \in Handler :
          /\ IsInjective(waiting_for[h])
          /\ Range(waiting_for[h])
                = {r \in Holders({"acquire_local"}) : route[r] = h}

FinitelyManyHolders == IsFiniteSet(Holders({"acquire_local", "run"}))

(* The chunk that a front has read and not yet put into the channel        *)
InHand(r) == IF front[r] = "send" THEN 1 ELSE 0

(* A chunk is with the client, in hand, in the channel, received or lost.  *)
ChunksLeft ==
    \A r \in Request :
        /\ unsent[r] + InHand(r) + channel[r] + received[r] <= Chunks
        /\ route[r] # "upload" => channel[r] = 0

BodyEnded(r) == front[r] \in {"spawned", "select", "notified"}

(* None is lost unless the run stops early: a run that does not goes on    *)
(* until the channel is empty and its sender gone, and the sender goes     *)
(* when the client has sent everything or its body has broken off.         *)
ChunkKept(r) ==
    route[r] = "upload" /\ front[r] # "dropped" =>
        /\ "stopped_early" \in faults[r] => task[r] = "done"
        /\ "stopped_early" \notin faults[r] =>
              /\ received[r] + channel[r] + InHand(r) = Chunks - unsent[r]
              /\ task[r] = "done" => channel[r] = 0 /\ ~SenderAlive(r)
              /\ BodyEnded(r) => unsent[r] = 0 \/ "body_error" \in faults[r]

ChunksKept == \A r \in Request : ChunkKept(r)

GateInv ==
    /\ GateTypeOK
    /\ FrontsAndTasks
    /\ Queues
    /\ FinitelyManyHolders
    /\ ChunksLeft
    /\ ChunksKept
    /\ PermitsAccounted
    /\ OkMeansDelivered

-----------------------------------------------------------------------------
(* Who is first in line for a permit of all requests.                      *)
LEMMA FirstInLine ==
    ASSUME GateInv, NEW r \in Request, AcquireGlobal(r)
    PROVE  task[r] = "acquire" /\ route[r] \in Handler
<1>1. r \in Range(waiting)
  BY PopFirst DEF AcquireGlobal, GateInv, GateTypeOK, Queues
<1> QED
  BY <1>1 DEF GateInv, Queues, Holders, FrontsAndTasks

(* Spawn puts a request in line.                                           *)
LEMMA SpawnTyped ==
    ASSUME GateTypeOK, NEW r \in Request, Spawn(r)
    PROVE  /\ task' \in [Request -> Tasks]
           /\ waiting' \in Seq(Request)
<1>1. task' \in [Request -> Tasks]
  BY DEF Spawn, GateTypeOK, Tasks
<1>2. waiting \in Seq(Request) /\ waiting' = Append(waiting, r)
  BY DEF Spawn, GateTypeOK
<1> QED
  BY <1>1, <1>2

(* The chunks of a request are counted in natural numbers.                 *)
LEMMA ChunkCounts ==
    ASSUME GateInv, NEW r \in Request
    PROVE  /\ Chunks \in Nat /\ ChannelSize \in Nat
           /\ unsent[r] \in Nat /\ InHand(r) \in {0, 1}
           /\ channel[r] \in Nat /\ received[r] \in Nat
           /\ unsent[r] + InHand(r) + channel[r] + received[r] <= Chunks
<1>1. /\ unsent[r] \in 0..Chunks /\ received[r] \in 0..Chunks
      /\ channel[r] \in 0..ChannelSize
  BY DEF GateInv, GateTypeOK
<1>2. InHand(r) \in {0, 1}
  BY DEF InHand
<1> QED
  BY <1>1, <1>2, GateAssumption DEF GateInv, ChunksLeft

(* Types: chunks are counted from those that are left (ChunksLeft).        *)
LEMMA GateTypeOKStep == GateInv /\ [Next]_vars => GateTypeOK'
<1> SUFFICES ASSUME GateInv, [Next]_vars PROVE GateTypeOK'
  OBVIOUS
<1> USE DEF GateInv
<1>1. ASSUME NEW r \in Request, Arrive(r) PROVE GateTypeOK'
  <2>1. front' \in [Request -> Fronts] /\ answer' \in [Request -> Answers]
    BY <1>1 DEF Arrive, MoveFront, Answer, GateTypeOK, Fronts, Answers
  <2>2. task' \in [Request -> Tasks] /\ waiting' \in Seq(Request)
    BY <1>1, SpawnTyped DEF Arrive, GateTypeOK, taskVars
  <2> QED
    BY <1>1, <2>1, <2>2 DEF Arrive, Spawn, GateTypeOK, taskVars, bodyVars
<1>2. ASSUME NEW r \in Request, ReadBody(r) PROVE GateTypeOK'
  <2>1. front' \in [Request -> Fronts]
    BY <1>2 DEF ReadBody, MoveFront, GateTypeOK, Fronts
  <2>2. task' \in [Request -> Tasks] /\ waiting' \in Seq(Request)
    BY <1>2, SpawnTyped DEF ReadBody, GateTypeOK, taskVars
  <2> QED
    BY <1>2, <2>1, <2>2 DEF ReadBody, Spawn, GateTypeOK, taskVars, bodyVars
<1>3. ASSUME NEW r \in Request, NextChunk(r) PROVE GateTypeOK'
  <2>1. unsent' \in [Request -> 0..Chunks]
    BY <1>3, GateAssumption DEF NextChunk, GateTypeOK
  <2> QED
    BY <1>3, <2>1 DEF NextChunk, MoveFront, GateTypeOK, Fronts, taskVars
<1>4. ASSUME NEW r \in Request, SendChunk(r) PROVE GateTypeOK'
  <2>1. front' \in [Request -> Fronts]
    BY <1>4 DEF SendChunk, MoveFront, GateTypeOK, Fronts
  <2>2. channel' \in [Request -> 0..ChannelSize]
    <3>1. CASE ReceiverAlive(r)
      <4>1. channel[r] + 1 \in 0..ChannelSize
        BY <1>4, <3>1, ChunkCounts DEF SendChunk
      <4> QED
        BY <1>4, <3>1, <4>1 DEF SendChunk, GateTypeOK
    <3>2. CASE ~ReceiverAlive(r)
      BY <1>4, <3>2 DEF SendChunk, GateTypeOK
    <3> QED
      BY <3>1, <3>2
  <2> QED
    BY <1>4, <2>1, <2>2 DEF SendChunk, GateTypeOK, taskVars
<1>5. ASSUME NEW r \in Request, EndBody(r) PROVE GateTypeOK'
  BY <1>5 DEF GateTypeOK, EndBody, MoveFront, taskVars, bodyVars, Fronts,
     Answers, Tasks
<1>6. ASSUME NEW r \in Request, BreakBody(r) PROVE GateTypeOK'
  <2>1. faults' \in [Request -> SUBSET Faults]
    BY <1>6 DEF BreakBody, GateTypeOK, Faults
  <2> QED
    BY <1>6, <2>1 DEF GateTypeOK, BreakBody, MoveFront, taskVars, Fronts
<1>7. ASSUME NEW r \in Request, TimeoutBody(r) PROVE GateTypeOK'
  BY <1>7 DEF GateTypeOK, TimeoutBody, Answer, MoveFront, taskVars,
     bodyVars, Fronts, Answers, Tasks
<1>8. ASSUME NEW r \in Request, EnterSelect(r) PROVE GateTypeOK'
  BY <1>8 DEF GateTypeOK, EnterSelect, MoveFront, taskVars, bodyVars,
     Fronts, Answers, Tasks
<1>9. ASSUME NEW r \in Request, AnswerResult(r) PROVE GateTypeOK'
  <2>1. answer' \in [Request -> Answers]
    BY <1>9 DEF AnswerResult, Answer, GateTypeOK, Answers
  <2> QED
    BY <1>9, <2>1 DEF AnswerResult, Answer, MoveFront, GateTypeOK, Fronts,
       taskVars, bodyVars
<1>10. ASSUME NEW r \in Request, AnswerShutdown(r) PROVE GateTypeOK'
  BY <1>10 DEF GateTypeOK, AnswerShutdown, Answer, MoveFront, taskVars,
     bodyVars, Fronts, Answers, Tasks
<1>11. ASSUME NEW r \in Request, DropFront(r) PROVE GateTypeOK'
  BY <1>11 DEF GateTypeOK, DropFront, MoveFront, taskVars, bodyVars, Fronts,
     Answers, Tasks
<1>12. ASSUME NEW r \in Request, AcquireGlobal(r) PROVE GateTypeOK'
  <2>1. route[r] \in Handler
    BY <1>12, FirstInLine
  <2>2. waiting' \in Seq(Request)
    BY <1>12 DEF AcquireGlobal, GateTypeOK
  <2>3. waiting_for' \in [Handler -> Seq(Request)]
    BY <1>12, <2>1 DEF AcquireGlobal, GateTypeOK
  <2>4. task' \in [Request -> Tasks] /\ permits' \in Nat
    BY <1>12 DEF AcquireGlobal, GateTypeOK, Tasks
  <2> QED
    BY <1>12, <2>2, <2>3, <2>4 DEF AcquireGlobal, GateTypeOK, bodyVars
<1>13. ASSUME NEW r \in Request, AcquireLocal(r) PROVE GateTypeOK'
  <2>1. route[r] \in Handler
    BY <1>13 DEF AcquireLocal, FrontsAndTasks
  <2>2. r \in Range(waiting_for[route[r]])
    BY <1>13, <2>1 DEF AcquireLocal, Queues, Holders
  <2>3. waiting_for[route[r]] # <<>>
    BY <2>2 DEF Range
  <2>4. waiting_for' \in [Handler -> Seq(Request)]
    BY <1>13, <2>1, <2>3 DEF AcquireLocal, GateTypeOK
  <2>5. per_handler' \in [Handler -> Nat]
    BY <1>13, <2>1 DEF AcquireLocal, GateTypeOK
  <2>6. task' \in [Request -> Tasks]
    BY <1>13 DEF AcquireLocal, GateTypeOK, Tasks
  <2> QED
    BY <1>13, <2>4, <2>5, <2>6 DEF AcquireLocal, GateTypeOK, bodyVars
<1>14. ASSUME NEW r \in Request, TakeChunk(r) PROVE GateTypeOK'
  <2>1. received[r] + 1 \in 0..Chunks
    BY <1>14, ChunkCounts DEF TakeChunk
  <2>2. channel[r] - 1 \in 0..ChannelSize
    BY <1>14, ChunkCounts DEF TakeChunk, GateTypeOK
  <2> QED
    BY <1>14, <2>1, <2>2 DEF TakeChunk, GateTypeOK, taskVars
<1>15. ASSUME NEW r \in Request, FinishRun(r) PROVE GateTypeOK'
  <2>1. route[r] \in Handler
    BY <1>15 DEF FinishRun, FrontsAndTasks
  <2>2. result' \in [Request -> Results]
    BY <1>15 DEF FinishRun, GateTypeOK
  <2>3. per_handler' \in [Handler -> Nat]
    BY <1>15, <2>1 DEF FinishRun, GateTypeOK
  <2>4. faults' \in [Request -> SUBSET Faults]
    BY <1>15 DEF FinishRun, GateTypeOK, Faults
  <2> QED
    BY <1>15, <2>2, <2>3, <2>4 DEF FinishRun, GateTypeOK, Tasks
<1>16. CASE Shutdown
  BY <1>16 DEF GateTypeOK, Shutdown, taskVars, bodyVars, Fronts, Answers,
     Tasks
<1>17. CASE UNCHANGED vars
  BY <1>17 DEF GateTypeOK, vars, taskVars, bodyVars
<1> QED
  BY <1>1, <1>2, <1>3, <1>4, <1>5, <1>6, <1>7, <1>8, <1>9, <1>10, <1>11,
     <1>12, <1>13, <1>14, <1>15, <1>16, <1>17 DEF Next, FrontStep, TaskStep

(* A request is spawned once its handler is known, and answered once.      *)
LEMMA FrontsAndTasksStep == GateInv /\ [Next]_vars => FrontsAndTasks'
<1> SUFFICES ASSUME GateInv, [Next]_vars PROVE FrontsAndTasks'
  OBVIOUS
<1> USE DEF GateInv
<1>1. ASSUME NEW r \in Request, Arrive(r) PROVE FrontsAndTasks'
  BY <1>1 DEF FrontsAndTasks, Arrive, MoveFront, Answer, Spawn, taskVars,
     bodyVars, GateTypeOK, Fronts, Tasks, Answers
<1>2. ASSUME NEW r \in Request, ReadBody(r) PROVE FrontsAndTasks'
  BY <1>2 DEF FrontsAndTasks, ReadBody, MoveFront, Spawn, taskVars,
     bodyVars, GateTypeOK, Fronts, Tasks, Answers
<1>3. ASSUME NEW r \in Request, SendChunk(r) PROVE FrontsAndTasks'
  BY <1>3 DEF FrontsAndTasks, SendChunk, MoveFront, taskVars, bodyVars,
     GateTypeOK, Fronts, Tasks, Answers
<1>4. ASSUME NEW r \in Request, EndBody(r) PROVE FrontsAndTasks'
  BY <1>4 DEF FrontsAndTasks, EndBody, MoveFront, taskVars, bodyVars,
     GateTypeOK, Fronts, Tasks, Answers
<1>5. ASSUME NEW r \in Request, BreakBody(r) PROVE FrontsAndTasks'
  BY <1>5 DEF FrontsAndTasks, BreakBody, MoveFront, taskVars, bodyVars,
     GateTypeOK, Fronts, Tasks, Answers
<1>6. ASSUME NEW r \in Request, TimeoutBody(r) PROVE FrontsAndTasks'
  BY <1>6 DEF FrontsAndTasks, TimeoutBody, Answer, MoveFront, taskVars,
     bodyVars, GateTypeOK, Fronts, Tasks, Answers
<1>7. ASSUME NEW r \in Request, EnterSelect(r) PROVE FrontsAndTasks'
  BY <1>7 DEF FrontsAndTasks, EnterSelect, MoveFront, taskVars, bodyVars,
     GateTypeOK, Fronts, Tasks, Answers
<1>8. ASSUME NEW r \in Request, AnswerResult(r) PROVE FrontsAndTasks'
  BY <1>8 DEF FrontsAndTasks, AnswerResult, Answer, MoveFront, taskVars,
     bodyVars, GateTypeOK, Fronts, Tasks, Answers
<1>9. ASSUME NEW r \in Request, AnswerShutdown(r) PROVE FrontsAndTasks'
  BY <1>9 DEF FrontsAndTasks, AnswerShutdown, Answer, MoveFront, taskVars,
     bodyVars, GateTypeOK, Fronts, Tasks, Answers
<1>10. ASSUME NEW r \in Request, DropFront(r) PROVE FrontsAndTasks'
  BY <1>10 DEF FrontsAndTasks, DropFront, MoveFront, taskVars, bodyVars,
     GateTypeOK, Fronts, Tasks, Answers
<1>11. ASSUME NEW r \in Request, AcquireGlobal(r) PROVE FrontsAndTasks'
  <2>1. task[r] = "acquire" /\ route[r] \in Handler
    BY <1>11, FirstInLine
  <2> QED
    BY <1>11, <2>1 DEF AcquireGlobal, GateTypeOK, FrontsAndTasks
<1>12. ASSUME NEW r \in Request, AcquireLocal(r) PROVE FrontsAndTasks'
  BY <1>12 DEF FrontsAndTasks, AcquireLocal, taskVars, bodyVars, GateTypeOK,
     Fronts, Tasks, Answers
<1>13. ASSUME NEW r \in Request, FinishRun(r) PROVE FrontsAndTasks'
  BY <1>13 DEF FrontsAndTasks, FinishRun, taskVars, bodyVars, GateTypeOK,
     Fronts, Tasks, Answers
<1>14. CASE Shutdown
  BY <1>14 DEF FrontsAndTasks, Shutdown, taskVars, bodyVars, GateTypeOK,
     Fronts, Tasks, Answers
<1>15. ASSUME NEW r \in Request, NextChunk(r) \/ TakeChunk(r)
      PROVE  FrontsAndTasks'
  BY <1>15 DEF FrontsAndTasks, NextChunk, TakeChunk, MoveFront, taskVars,
     bodyVars, GateTypeOK
<1>16. CASE UNCHANGED vars
  BY <1>16 DEF FrontsAndTasks, vars, taskVars, bodyVars, GateTypeOK
<1> QED
  BY <1>1, <1>2, <1>3, <1>4, <1>5, <1>6, <1>7, <1>8, <1>9, <1>10, <1>11,
     <1>12, <1>13, <1>14, <1>15, <1>16 DEF Next, FrontStep, TaskStep

(* Spawn puts a request in line that has not been there.                    *)
LEMMA SpawnQueues ==
    ASSUME GateInv, NEW r \in Request, Spawn(r), task[r] = "none",
           route' = route
    PROVE  Queues'
<1> USE DEF GateInv
<1>1. r \notin Range(waiting)
  BY DEF Queues, Holders
<1>2. IsInjective(waiting') /\ Range(waiting') = Range(waiting) \cup {r}
  BY <1>1, PushNew DEF Spawn, GateTypeOK, Queues
<1>3. /\ Holders({"acquire"})' = Holders({"acquire"}) \cup {r}
      /\ Holders({"acquire_local"})' = Holders({"acquire_local"})
  BY DEF Spawn, GateTypeOK, Holders
<1> QED
  BY <1>2, <1>3 DEF Queues, Spawn

(* The lines hold those who acquire, each once.                            *)
LEMMA QueuesStep == GateInv /\ [Next]_vars => Queues'
<1> SUFFICES ASSUME GateInv, [Next]_vars PROVE Queues'
  OBVIOUS
<1> USE DEF GateInv
<1>1. ASSUME NEW r \in Request, Arrive(r) PROVE Queues'
  <2>1. CASE Spawn(r) /\ task[r] = "none"
    BY <1>1, <2>1, SpawnQueues DEF Arrive
  <2>2. CASE taskVars' = taskVars
    BY <1>1, <2>2 DEF Arrive, Queues, Holders, taskVars
  <2> QED
    BY <1>1, <2>1, <2>2 DEF Arrive, FrontsAndTasks
<1>2. ASSUME NEW r \in Request, ReadBody(r) PROVE Queues'
  <2>1. CASE Spawn(r) /\ task[r] = "none"
    BY <1>2, <2>1, SpawnQueues DEF ReadBody
  <2>2. CASE taskVars' = taskVars
    BY <1>2, <2>2 DEF ReadBody, Queues, Holders, taskVars
  <2> QED
    BY <1>2, <2>1, <2>2 DEF ReadBody, FrontsAndTasks
<1>3. ASSUME NEW r \in Request, AcquireGlobal(r) PROVE Queues'
  <2> DEFINE h == route[r]
  <2>1. task[r] = "acquire" /\ h \in Handler
    BY <1>3, FirstInLine
  <2>2. IsInjective(waiting') /\ Range(waiting') = Range(waiting) \ {r}
    BY <1>3, PopFirst DEF AcquireGlobal, GateTypeOK, Queues
  <2>3. r \notin Range(waiting_for[h])
    BY <2>1 DEF Queues, Holders
  <2>4. waiting_for'[h] = Append(waiting_for[h], r)
    BY <1>3, <2>1 DEF AcquireGlobal, GateTypeOK
  <2>5. waiting_for[h] \in Seq(Request) /\ IsInjective(waiting_for[h])
    BY <2>1 DEF GateTypeOK, Queues
  <2>6. /\ IsInjective(waiting_for'[h])
        /\ Range(waiting_for'[h]) = Range(waiting_for[h]) \cup {r}
    BY <2>3, <2>4, <2>5, PushNew
  <2>7. \A i \in Handler \ {h} : waiting_for'[i] = waiting_for[i]
    BY <1>3 DEF AcquireGlobal, GateTypeOK
  <2>8. /\ Holders({"acquire"})' = Holders({"acquire"}) \ {r}
        /\ Holders({"acquire_local"})' = Holders({"acquire_local"}) \cup {r}
    BY <1>3 DEF AcquireGlobal, GateTypeOK, Holders
  <2>9. route' = route
    BY <1>3 DEF AcquireGlobal
  <2> QED
    BY <2>2, <2>6, <2>7, <2>8, <2>9 DEF Queues
<1>4. ASSUME NEW r \in Request, AcquireLocal(r) PROVE Queues'
  <2> DEFINE h == route[r]
  <2>1. h \in Handler /\ r \in Range(waiting_for[h])
    BY <1>4 DEF AcquireLocal, FrontsAndTasks, Queues, Holders
  <2>2. waiting_for[h] # <<>>
    BY <2>1 DEF Range
  <2>3. /\ IsInjective(waiting_for'[h])
        /\ Range(waiting_for'[h]) = Range(waiting_for[h]) \ {r}
    BY <1>4, <2>1, <2>2, PopFirst DEF AcquireLocal, GateTypeOK, Queues
  <2>4. \A i \in Handler \ {h} : waiting_for'[i] = waiting_for[i]
    BY <1>4 DEF AcquireLocal, GateTypeOK
  <2>5. /\ Holders({"acquire"})' = Holders({"acquire"})
        /\ Holders({"acquire_local"})' = Holders({"acquire_local"}) \ {r}
    BY <1>4 DEF AcquireLocal, GateTypeOK, Holders
  <2>6. route' = route /\ waiting' = waiting
    BY <1>4 DEF AcquireLocal
  <2> QED
    BY <2>3, <2>4, <2>5, <2>6 DEF Queues
<1>5. ASSUME NEW r \in Request, FinishRun(r) PROVE Queues'
  <2>1. /\ Holders({"acquire"})' = Holders({"acquire"})
        /\ Holders({"acquire_local"})' = Holders({"acquire_local"})
    BY <1>5 DEF FinishRun, GateTypeOK, Holders
  <2> QED
    BY <1>5, <2>1 DEF FinishRun, Queues
<1>6. ASSUME NEW r \in Request,
             \/ NextChunk(r) \/ SendChunk(r) \/ EndBody(r)
             \/ BreakBody(r) \/ TimeoutBody(r) \/ EnterSelect(r)
             \/ AnswerResult(r) \/ AnswerShutdown(r) \/ DropFront(r)
             \/ TakeChunk(r)
      PROVE  Queues'
  BY <1>6 DEF Queues, NextChunk, SendChunk, EndBody, BreakBody, TimeoutBody,
     EnterSelect, AnswerResult, AnswerShutdown, DropFront, TakeChunk,
     MoveFront, Answer, taskVars, bodyVars, Holders
<1>7. CASE Shutdown
  BY <1>7 DEF Queues, Shutdown, taskVars, bodyVars, Holders
<1>8. CASE UNCHANGED vars
  BY <1>8 DEF Queues, vars, taskVars, bodyVars, Holders
<1> QED
  BY <1>1, <1>2, <1>3, <1>4, <1>5, <1>6, <1>7, <1>8 DEF Next, FrontStep,
     TaskStep

(* The processors that hold a permit of all requests, and of handler h.    *)
Admitted == Holders({"acquire_local", "run"})
Running(h) == {r \in Holders({"run"}) : route[r] = h}

(* The request, when it is for that handler                                *)
OfHandler(r, h) == IF route[r] = h THEN {r} ELSE {}

(* A step that leaves both sets alone leaves the counts alone.             *)
LEMMA SameHolders ==
    ASSUME GateInv, Admitted' = Admitted,
           \A h \in Handler : Running(h)' = Running(h),
           permits' = permits, per_handler' = per_handler
    PROVE  FinitelyManyHolders' /\ PermitsAccounted'
  BY DEF GateInv, FinitelyManyHolders, PermitsAccounted, Admitted, Running

(* One that has only got in line holds no permit.                          *)
LEMMA SpawnHolders ==
    ASSUME GateInv, NEW r \in Request, Spawn(r), task[r] = "none",
           route' = route
    PROVE  FinitelyManyHolders' /\ PermitsAccounted'
<1>1. Admitted' = Admitted /\ \A h \in Handler : Running(h)' = Running(h)
  BY DEF GateInv, GateTypeOK, Spawn, Admitted, Running, Holders
<1> QED
  BY <1>1, SameHolders DEF Spawn

(* The runs of a handler are finitely many.                                *)
LEMMA FinitelyManyRunning ==
    ASSUME GateInv, NEW h \in Handler
    PROVE  IsFiniteSet(Running(h)) /\ Cardinality(Running(h)) \in Nat
<1>1. Running(h) \subseteq Admitted /\ IsFiniteSet(Admitted)
  BY DEF GateInv, FinitelyManyHolders, Running, Admitted, Holders
<1> QED
  BY <1>1, FS_Subset, FS_CardinalityType

(* AcquireGlobal admits a processor, and FinishRun lets one go.            *)
LEMMA AdmittedStep ==
    ASSUME GateInv, NEW r \in Request
    PROVE  /\ AcquireGlobal(r) =>
                 r \notin Admitted /\ Admitted' = Admitted \cup {r}
           /\ AcquireLocal(r) => Admitted' = Admitted
           /\ FinishRun(r) => r \in Admitted /\ Admitted' = Admitted \ {r}
<1> USE DEF GateInv, GateTypeOK, Admitted, Holders
<1>1. ASSUME AcquireGlobal(r)
      PROVE  r \notin Admitted /\ Admitted' = Admitted \cup {r}
  <2>1. task[r] = "acquire"
    BY <1>1, FirstInLine
  <2> QED
    BY <1>1, <2>1 DEF AcquireGlobal
<1>2. ASSUME AcquireLocal(r) PROVE Admitted' = Admitted
  BY <1>2 DEF AcquireLocal
<1>3. ASSUME FinishRun(r)
      PROVE  r \in Admitted /\ Admitted' = Admitted \ {r}
  BY <1>3 DEF FinishRun
<1> QED
  BY <1>1, <1>2, <1>3

(* AcquireLocal starts a run, and FinishRun ends one.                      *)
LEMMA RunningStep ==
    ASSUME GateInv, NEW r \in Request, NEW h \in Handler
    PROVE  /\ AcquireGlobal(r) => Running(h)' = Running(h)
           /\ AcquireLocal(r) =>
                 /\ r \notin Running(h)
                 /\ Running(h)' = Running(h) \cup OfHandler(r, h)
           /\ FinishRun(r) =>
                 /\ route[r] = h => r \in Running(h)
                 /\ Running(h)' = Running(h) \ OfHandler(r, h)
<1> USE DEF GateInv, GateTypeOK, Running, OfHandler, Holders
<1>1. ASSUME AcquireGlobal(r) PROVE Running(h)' = Running(h)
  <2>1. task[r] = "acquire"
    BY <1>1, FirstInLine
  <2> QED
    BY <1>1, <2>1 DEF AcquireGlobal
<1>2. ASSUME AcquireLocal(r)
      PROVE  /\ r \notin Running(h)
             /\ Running(h)' = Running(h) \cup OfHandler(r, h)
  BY <1>2 DEF AcquireLocal
<1>3. ASSUME FinishRun(r)
      PROVE  /\ route[r] = h => r \in Running(h)
             /\ Running(h)' = Running(h) \ OfHandler(r, h)
  BY <1>3 DEF FinishRun
<1> QED
  BY <1>1, <1>2, <1>3

(* The processors with a permit stay finitely many.                        *)
LEMMA FinitelyManyHoldersStep == GateInv /\ [Next]_vars => FinitelyManyHolders'
<1> SUFFICES ASSUME GateInv, [Next]_vars PROVE FinitelyManyHolders'
  OBVIOUS
<1> USE DEF GateInv
<1>1. ASSUME NEW r \in Request, Arrive(r) PROVE FinitelyManyHolders'
  <2>1. CASE Spawn(r) /\ task[r] = "none"
    BY <1>1, <2>1, SpawnHolders DEF Arrive
  <2>2. CASE taskVars' = taskVars
    <3>1. Admitted' = Admitted /\ \A h \in Handler : Running(h)' = Running(h)
      BY <1>1, <2>2 DEF Arrive, taskVars, Admitted, Running, Holders
    <3> QED
      BY <2>2, <3>1, SameHolders DEF taskVars
  <2> QED
    BY <1>1, <2>1, <2>2 DEF Arrive, FrontsAndTasks
<1>2. ASSUME NEW r \in Request, ReadBody(r) PROVE FinitelyManyHolders'
  <2>1. CASE Spawn(r) /\ task[r] = "none"
    BY <1>2, <2>1, SpawnHolders DEF ReadBody
  <2>2. CASE taskVars' = taskVars
    <3>1. Admitted' = Admitted /\ \A h \in Handler : Running(h)' = Running(h)
      BY <1>2, <2>2 DEF ReadBody, taskVars, Admitted, Running, Holders
    <3> QED
      BY <2>2, <3>1, SameHolders DEF taskVars
  <2> QED
    BY <1>2, <2>1, <2>2 DEF ReadBody, FrontsAndTasks
<1>3. ASSUME NEW r \in Request, AcquireGlobal(r) PROVE FinitelyManyHolders'
  BY <1>3, AdmittedStep, FS_AddElement DEF FinitelyManyHolders, Admitted
<1>4. ASSUME NEW r \in Request, AcquireLocal(r) PROVE FinitelyManyHolders'
  BY <1>4, AdmittedStep DEF FinitelyManyHolders, Admitted
<1>5. ASSUME NEW r \in Request, FinishRun(r) PROVE FinitelyManyHolders'
  BY <1>5, AdmittedStep, FS_RemoveElement DEF FinitelyManyHolders, Admitted
<1>6. ASSUME NEW r \in Request,
             \/ NextChunk(r) \/ SendChunk(r) \/ EndBody(r)
             \/ BreakBody(r) \/ TimeoutBody(r) \/ EnterSelect(r)
             \/ AnswerResult(r) \/ AnswerShutdown(r) \/ DropFront(r)
             \/ TakeChunk(r)
      PROVE  FinitelyManyHolders'
  BY <1>6 DEF FinitelyManyHolders, NextChunk, SendChunk, EndBody, BreakBody,
     TimeoutBody, EnterSelect, AnswerResult, AnswerShutdown, DropFront,
     TakeChunk, MoveFront, Answer, taskVars, bodyVars, Holders
<1>7. CASE Shutdown
  BY <1>7 DEF FinitelyManyHolders, Shutdown, taskVars, bodyVars, Holders
<1>8. CASE UNCHANGED vars
  BY <1>8 DEF FinitelyManyHolders, vars, taskVars, bodyVars, Holders
<1> QED
  BY <1>1, <1>2, <1>3, <1>4, <1>5, <1>6, <1>7, <1>8 DEF Next, FrontStep,
     TaskStep

(* Each permit is with the semaphore or with one processor.               *)
LEMMA PermitsAccountedStep == GateInv /\ [Next]_vars => PermitsAccounted'
<1> SUFFICES ASSUME GateInv, [Next]_vars PROVE PermitsAccounted'
  OBVIOUS
<1> USE DEF GateInv
<1>1. ASSUME NEW r \in Request, Arrive(r) PROVE PermitsAccounted'
  <2>1. CASE Spawn(r) /\ task[r] = "none"
    BY <1>1, <2>1, SpawnHolders DEF Arrive
  <2>2. CASE taskVars' = taskVars
    <3>1. Admitted' = Admitted /\ \A h \in Handler : Running(h)' = Running(h)
      BY <1>1, <2>2 DEF Arrive, taskVars, Admitted, Running, Holders
    <3> QED
      BY <2>2, <3>1, SameHolders DEF taskVars
  <2> QED
    BY <1>1, <2>1, <2>2 DEF Arrive, FrontsAndTasks
<1>2. ASSUME NEW r \in Request, ReadBody(r) PROVE PermitsAccounted'
  <2>1. CASE Spawn(r) /\ task[r] = "none"
    BY <1>2, <2>1, SpawnHolders DEF ReadBody
  <2>2. CASE taskVars' = taskVars
    <3>1. Admitted' = Admitted /\ \A h \in Handler : Running(h)' = Running(h)
      BY <1>2, <2>2 DEF ReadBody, taskVars, Admitted, Running, Holders
    <3> QED
      BY <2>2, <3>1, SameHolders DEF taskVars
  <2> QED
    BY <1>2, <2>1, <2>2 DEF ReadBody, FrontsAndTasks
<1>3. ASSUME NEW r \in Request, AcquireGlobal(r) PROVE PermitsAccounted'
  <2>1. permits + Cardinality(Admitted) = NrRequests
    BY DEF PermitsAccounted, Admitted
  <2>2. permits \in Nat /\ IsFiniteSet(Admitted) /\ Cardinality(Admitted) \in Nat
    BY FS_CardinalityType DEF GateTypeOK, FinitelyManyHolders, Admitted
  <2>3. (permits + Cardinality(Admitted) = NrRequests)'
    <3>1. Cardinality(Admitted') = Cardinality(Admitted) + 1
      BY <1>3, <2>2, AdmittedStep, FS_AddElement
    <3>2. permits' = permits - 1
      BY <1>3 DEF AcquireGlobal
    <3> QED
      BY <2>1, <2>2, <3>1, <3>2
  <2>4. ASSUME NEW h \in Handler
        PROVE  (per_handler[h] + Cardinality(Running(h)) = NrReplicas[h])'
    <3>1. per_handler[h] + Cardinality(Running(h)) = NrReplicas[h]
      BY DEF PermitsAccounted, Running
    <3>2. /\ per_handler[h] \in Nat
          /\ IsFiniteSet(Running(h)) /\ Cardinality(Running(h)) \in Nat
      BY FinitelyManyRunning DEF GateTypeOK
    <3>3. Running(h)' = Running(h)
      BY <1>3, RunningStep
    <3>4. per_handler' = per_handler
      BY <1>3 DEF AcquireGlobal
    <3> QED
      BY <3>1, <3>3, <3>4
  <2> QED
    BY <2>3, <2>4 DEF PermitsAccounted, Admitted, Running
<1>4. ASSUME NEW r \in Request, AcquireLocal(r) PROVE PermitsAccounted'
  <2>1. permits + Cardinality(Admitted) = NrRequests
    BY DEF PermitsAccounted, Admitted
  <2>2. permits \in Nat /\ IsFiniteSet(Admitted) /\ Cardinality(Admitted) \in Nat
    BY FS_CardinalityType DEF GateTypeOK, FinitelyManyHolders, Admitted
  <2>3. (permits + Cardinality(Admitted) = NrRequests)'
    <3>1. Admitted' = Admitted
      BY <1>4, AdmittedStep
    <3>2. permits' = permits
      BY <1>4 DEF AcquireLocal
    <3> QED
      BY <2>1, <3>1, <3>2
  <2>4. ASSUME NEW h \in Handler
        PROVE  (per_handler[h] + Cardinality(Running(h)) = NrReplicas[h])'
    <3>1. per_handler[h] + Cardinality(Running(h)) = NrReplicas[h]
      BY DEF PermitsAccounted, Running
    <3>2. /\ per_handler[h] \in Nat
          /\ IsFiniteSet(Running(h)) /\ Cardinality(Running(h)) \in Nat
      BY FinitelyManyRunning DEF GateTypeOK
    <3>3. CASE route[r] = h
      <4>1. Cardinality(Running(h)') = Cardinality(Running(h)) + 1
        BY <1>4, <3>2, <3>3, RunningStep, FS_AddElement DEF OfHandler
      <4>2. per_handler'[h] = per_handler[h] - 1
        BY <1>4, <3>3 DEF AcquireLocal, GateTypeOK
      <4> QED
        BY <3>1, <3>2, <4>1, <4>2
    <3>4. CASE route[r] # h
      <4>1. Running(h)' = Running(h)
        BY <1>4, <3>4, RunningStep DEF OfHandler
      <4>2. per_handler'[h] = per_handler[h]
        BY <1>4, <3>4 DEF AcquireLocal, GateTypeOK
      <4> QED
        BY <3>1, <4>1, <4>2
    <3> QED
      BY <3>3, <3>4
  <2> QED
    BY <2>3, <2>4 DEF PermitsAccounted, Admitted, Running
<1>5. ASSUME NEW r \in Request, FinishRun(r) PROVE PermitsAccounted'
  <2>1. permits + Cardinality(Admitted) = NrRequests
    BY DEF PermitsAccounted, Admitted
  <2>2. permits \in Nat /\ IsFiniteSet(Admitted) /\ Cardinality(Admitted) \in Nat
    BY FS_CardinalityType DEF GateTypeOK, FinitelyManyHolders, Admitted
  <2>3. (permits + Cardinality(Admitted) = NrRequests)'
    <3>1. Cardinality(Admitted') = Cardinality(Admitted) - 1
      BY <1>5, <2>2, AdmittedStep, FS_RemoveElement
    <3>2. permits' = permits + 1
      BY <1>5 DEF FinishRun
    <3> QED
      BY <2>1, <2>2, <3>1, <3>2
  <2>4. ASSUME NEW h \in Handler
        PROVE  (per_handler[h] + Cardinality(Running(h)) = NrReplicas[h])'
    <3>1. per_handler[h] + Cardinality(Running(h)) = NrReplicas[h]
      BY DEF PermitsAccounted, Running
    <3>2. /\ per_handler[h] \in Nat
          /\ IsFiniteSet(Running(h)) /\ Cardinality(Running(h)) \in Nat
      BY FinitelyManyRunning DEF GateTypeOK
    <3>3. CASE route[r] = h
      <4>1. Cardinality(Running(h)') = Cardinality(Running(h)) - 1
        BY <1>5, <3>2, <3>3, RunningStep, FS_RemoveElement DEF OfHandler
      <4>2. per_handler'[h] = per_handler[h] + 1
        BY <1>5, <3>3 DEF FinishRun, GateTypeOK
      <4> QED
        BY <3>1, <3>2, <4>1, <4>2
    <3>4. CASE route[r] # h
      <4>1. Running(h)' = Running(h)
        BY <1>5, <3>4, RunningStep DEF OfHandler
      <4>2. per_handler'[h] = per_handler[h]
        BY <1>5, <3>4 DEF FinishRun, GateTypeOK
      <4> QED
        BY <3>1, <4>1, <4>2
    <3> QED
      BY <3>3, <3>4
  <2> QED
    BY <2>3, <2>4 DEF PermitsAccounted, Admitted, Running
<1>6. ASSUME NEW r \in Request,
             \/ NextChunk(r) \/ SendChunk(r) \/ EndBody(r)
             \/ BreakBody(r) \/ TimeoutBody(r) \/ EnterSelect(r)
             \/ AnswerResult(r) \/ AnswerShutdown(r) \/ DropFront(r)
             \/ TakeChunk(r)
      PROVE  PermitsAccounted'
  BY <1>6 DEF PermitsAccounted, NextChunk, SendChunk, EndBody, BreakBody,
     TimeoutBody, EnterSelect, AnswerResult, AnswerShutdown, DropFront,
     TakeChunk, MoveFront, Answer, taskVars, bodyVars, Holders
<1>7. CASE Shutdown
  BY <1>7 DEF PermitsAccounted, Shutdown, taskVars, bodyVars, Holders
<1>8. CASE UNCHANGED vars
  BY <1>8 DEF PermitsAccounted, vars, taskVars, bodyVars, Holders
<1> QED
  BY <1>1, <1>2, <1>3, <1>4, <1>5, <1>6, <1>7, <1>8 DEF Next, FrontStep,
     TaskStep

(* A step that moves no chunk into a front's hands keeps the count.         *)
LEMMA NoNewChunk ==
    ASSUME GateInv, unsent' = unsent, channel' = channel,
           received' = received, route' = route,
           \A q \in Request : front'[q] = "send" => front[q] = "send"
    PROVE  ChunksLeft'
<1> SUFFICES ASSUME NEW q \in Request
             PROVE  /\ (unsent[q] + InHand(q) + channel[q] + received[q] <= Chunks)'
                    /\ (route[q] # "upload" => channel[q] = 0)'
  BY DEF ChunksLeft
<1>1. InHand(q)' <= InHand(q) /\ InHand(q)' \in {0, 1}
  BY DEF InHand
<1> QED
  BY <1>1, ChunkCounts DEF GateInv, ChunksLeft

(* No chunk is there twice.                                                *)
LEMMA ChunksLeftStep == GateInv /\ [Next]_vars => ChunksLeft'
<1> SUFFICES ASSUME GateInv, [Next]_vars PROVE ChunksLeft'
  OBVIOUS
<1> USE DEF GateInv
<1>1. ASSUME NEW r \in Request, Arrive(r) PROVE ChunksLeft'
  <2>1. \A q \in Request : front'[q] = "send" => front[q] = "send"
    BY <1>1 DEF Arrive, GateTypeOK, MoveFront, Answer
  <2> QED
    BY <1>1, <2>1, NoNewChunk DEF Arrive, bodyVars
<1>2. ASSUME NEW r \in Request, ReadBody(r) PROVE ChunksLeft'
  <2>1. \A q \in Request : front'[q] = "send" => front[q] = "send"
    BY <1>2 DEF ReadBody, GateTypeOK, MoveFront
  <2> QED
    BY <1>2, <2>1, NoNewChunk DEF ReadBody, bodyVars
<1>3. ASSUME NEW r \in Request, NextChunk(r) PROVE ChunksLeft'
  <2> SUFFICES ASSUME NEW q \in Request
               PROVE  /\ (unsent[q] + InHand(q) + channel[q] + received[q] <= Chunks)'
                      /\ (route[q] # "upload" => channel[q] = 0)'
    BY DEF ChunksLeft
  <2>1. CASE q = r
    <3>1. unsent'[q] = unsent[q] - 1 /\ InHand(q)' = 1 /\ InHand(q) = 0
      BY <1>3, <2>1 DEF NextChunk, MoveFront, InHand, GateTypeOK
    <3> QED
      BY <1>3, <2>1, <3>1, ChunkCounts DEF NextChunk, ChunksLeft
  <2>2. CASE q # r
    <3>1. unsent'[q] = unsent[q] /\ InHand(q)' = InHand(q)
      BY <1>3, <2>2 DEF NextChunk, MoveFront, InHand, GateTypeOK
    <3> QED
      BY <1>3, <3>1 DEF NextChunk, ChunksLeft
  <2> QED
    BY <2>1, <2>2
<1>4. ASSUME NEW r \in Request, SendChunk(r) PROVE ChunksLeft'
  <2> SUFFICES ASSUME NEW q \in Request
               PROVE  /\ (unsent[q] + InHand(q) + channel[q] + received[q] <= Chunks)'
                      /\ (route[q] # "upload" => channel[q] = 0)'
    BY DEF ChunksLeft
  <2>1. CASE q = r /\ ReceiverAlive(r)
    <3>1. channel'[q] = channel[q] + 1 /\ InHand(q)' = 0 /\ InHand(q) = 1
      BY <1>4, <2>1 DEF SendChunk, MoveFront, InHand, GateTypeOK
    <3>2. route[q] = "upload"
      BY <1>4, <2>1 DEF SendChunk, FrontsAndTasks
    <3> QED
      BY <1>4, <3>1, <3>2, ChunkCounts DEF SendChunk
  <2>2. CASE q = r /\ ~ReceiverAlive(r)
    <3>1. channel' = channel /\ InHand(q)' = 0 /\ InHand(q) = 1
      BY <1>4, <2>2 DEF SendChunk, MoveFront, InHand, GateTypeOK
    <3> QED
      BY <1>4, <3>1, ChunkCounts DEF SendChunk, ChunksLeft
  <2>3. CASE q # r
    <3>1. channel'[q] = channel[q] /\ InHand(q)' = InHand(q)
      BY <1>4, <2>3 DEF SendChunk, MoveFront, InHand, GateTypeOK
    <3> QED
      BY <1>4, <3>1 DEF SendChunk, ChunksLeft
  <2> QED
    BY <2>1, <2>2, <2>3
<1>5. ASSUME NEW r \in Request, EndBody(r) PROVE ChunksLeft'
  <2>1. \A q \in Request : front'[q] = "send" => front[q] = "send"
    BY <1>5 DEF EndBody, GateTypeOK, MoveFront
  <2> QED
    BY <1>5, <2>1, NoNewChunk DEF EndBody, bodyVars
<1>6. ASSUME NEW r \in Request, BreakBody(r) PROVE ChunksLeft'
  <2>1. \A q \in Request : front'[q] = "send" => front[q] = "send"
    BY <1>6 DEF BreakBody, GateTypeOK, MoveFront
  <2> QED
    BY <1>6, <2>1, NoNewChunk DEF BreakBody, bodyVars
<1>7. ASSUME NEW r \in Request, TimeoutBody(r) PROVE ChunksLeft'
  <2>1. \A q \in Request : front'[q] = "send" => front[q] = "send"
    BY <1>7 DEF TimeoutBody, GateTypeOK, Answer, MoveFront
  <2> QED
    BY <1>7, <2>1, NoNewChunk DEF TimeoutBody, bodyVars
<1>8. ASSUME NEW r \in Request, EnterSelect(r) PROVE ChunksLeft'
  <2>1. \A q \in Request : front'[q] = "send" => front[q] = "send"
    BY <1>8 DEF EnterSelect, GateTypeOK, MoveFront
  <2> QED
    BY <1>8, <2>1, NoNewChunk DEF EnterSelect, bodyVars
<1>9. ASSUME NEW r \in Request, AnswerResult(r) PROVE ChunksLeft'
  <2>1. \A q \in Request : front'[q] = "send" => front[q] = "send"
    BY <1>9 DEF AnswerResult, GateTypeOK, Answer, MoveFront
  <2> QED
    BY <1>9, <2>1, NoNewChunk DEF AnswerResult, bodyVars
<1>10. ASSUME NEW r \in Request, AnswerShutdown(r) PROVE ChunksLeft'
  <2>1. \A q \in Request : front'[q] = "send" => front[q] = "send"
    BY <1>10 DEF AnswerShutdown, GateTypeOK, Answer, MoveFront
  <2> QED
    BY <1>10, <2>1, NoNewChunk DEF AnswerShutdown, bodyVars
<1>11. ASSUME NEW r \in Request, DropFront(r) PROVE ChunksLeft'
  <2>1. \A q \in Request : front'[q] = "send" => front[q] = "send"
    BY <1>11 DEF DropFront, GateTypeOK, MoveFront
  <2> QED
    BY <1>11, <2>1, NoNewChunk DEF DropFront, bodyVars
<1>12. ASSUME NEW r \in Request, TakeChunk(r) PROVE ChunksLeft'
  <2> SUFFICES ASSUME NEW q \in Request
               PROVE  /\ (unsent[q] + InHand(q) + channel[q] + received[q] <= Chunks)'
                      /\ (route[q] # "upload" => channel[q] = 0)'
    BY DEF ChunksLeft
  <2>1. InHand(q)' = InHand(q)
    BY <1>12 DEF TakeChunk, InHand
  <2>2. CASE q = r
    <3>1. channel'[q] = channel[q] - 1 /\ received'[q] = received[q] + 1
      BY <1>12, <2>2 DEF TakeChunk, GateTypeOK
    <3>2. route[q] = "upload"
      BY <1>12, <2>2 DEF TakeChunk, ChunksLeft
    <3> QED
      BY <1>12, <2>1, <3>1, <3>2, ChunkCounts DEF TakeChunk
  <2>3. CASE q # r
    <3>1. channel'[q] = channel[q] /\ received'[q] = received[q]
      BY <1>12, <2>3 DEF TakeChunk, GateTypeOK
    <3> QED
      BY <1>12, <2>1, <3>1 DEF TakeChunk, ChunksLeft
  <2> QED
    BY <2>2, <2>3
<1>13. CASE Shutdown
  <2>1. \A q \in Request : front'[q] = "send" => front[q] = "send"
    BY <1>13 DEF Shutdown, GateTypeOK
  <2> QED
    BY <1>13, <2>1, NoNewChunk DEF Shutdown, bodyVars
<1>14. ASSUME NEW r \in Request,
             AcquireGlobal(r) \/ AcquireLocal(r) \/ FinishRun(r)
      PROVE  ChunksLeft'
  BY <1>14 DEF ChunksLeft, AcquireGlobal, AcquireLocal, FinishRun, taskVars,
     bodyVars, InHand
<1>15. CASE UNCHANGED vars
  BY <1>15 DEF ChunksLeft, vars, taskVars, bodyVars, InHand
<1> QED
  BY <1>1, <1>2, <1>3, <1>4, <1>5, <1>6, <1>7, <1>8, <1>9, <1>10, <1>11,
     <1>12, <1>13, <1>14, <1>15 DEF Next, FrontStep, TaskStep

(* A step that touches neither the chunks nor the run of a request, and at *)
(* most moves a front past its body or starts one whose run is to come.    *)
LEMMA KeptIfQuiet ==
    ASSUME GateInv, NEW q \in Request, route' = route, unsent'[q] = unsent[q],
           channel'[q] = channel[q], received'[q] = received[q],
           faults'[q] = faults[q], task'[q] = "done" <=> task[q] = "done",
           \/ front'[q] = "dropped"
           \/ /\ front[q] # "dropped" /\ InHand(q)' = InHand(q)
              /\ SenderAlive(q)' => SenderAlive(q) \/ task[q] # "done"
              /\ BodyEnded(q)' =>
                    BodyEnded(q) \/ unsent[q] = 0 \/ route[q] # "upload"
    PROVE  ChunkKept(q)'
  BY DEF GateInv, ChunksKept, ChunkKept, BodyEnded

(* No chunk is lost as long as its front and its run are there.            *)
LEMMA ChunksKeptStep == GateInv /\ [Next]_vars => ChunksKept'
<1> SUFFICES ASSUME GateInv, [Next]_vars PROVE ChunksKept'
  OBVIOUS
<1> USE DEF GateInv
<1>1. ASSUME NEW r \in Request, Arrive(r) PROVE ChunksKept'
  <2> SUFFICES ASSUME NEW q \in Request PROVE ChunkKept(q)'
    BY DEF ChunksKept
  <2>1. \/ front'[q] = "dropped"
        \/ /\ front[q] # "dropped" /\ InHand(q)' = InHand(q)
           /\ SenderAlive(q)' => SenderAlive(q) \/ task[q] # "done"
           /\ BodyEnded(q)' =>
                 BodyEnded(q) \/ unsent[q] = 0 \/ route[q] # "upload"
    BY <1>1 DEF Arrive, MoveFront, Answer, Spawn, InHand, SenderAlive, BodyEnded,
       GateTypeOK, FrontsAndTasks
  <2>2. /\ route' = route /\ unsent' = unsent /\ channel' = channel
        /\ received' = received /\ faults' = faults
    BY <1>1 DEF Arrive, MoveFront, Answer, Spawn, taskVars, bodyVars
  <2>3. task'[q] = "done" <=> task[q] = "done"
    BY <1>1 DEF Arrive, MoveFront, Answer, Spawn, taskVars, GateTypeOK,
       FrontsAndTasks
  <2> QED
    BY <2>1, <2>2, <2>3, KeptIfQuiet
<1>2. ASSUME NEW r \in Request, ReadBody(r) PROVE ChunksKept'
  <2> SUFFICES ASSUME NEW q \in Request PROVE ChunkKept(q)'
    BY DEF ChunksKept
  <2>1. \/ front'[q] = "dropped"
        \/ /\ front[q] # "dropped" /\ InHand(q)' = InHand(q)
           /\ SenderAlive(q)' => SenderAlive(q) \/ task[q] # "done"
           /\ BodyEnded(q)' =>
                 BodyEnded(q) \/ unsent[q] = 0 \/ route[q] # "upload"
    BY <1>2 DEF ReadBody, MoveFront, Spawn, InHand, SenderAlive, BodyEnded,
       GateTypeOK, FrontsAndTasks
  <2>2. /\ route' = route /\ unsent' = unsent /\ channel' = channel
        /\ received' = received /\ faults' = faults
    BY <1>2 DEF ReadBody, MoveFront, Spawn, taskVars, bodyVars
  <2>3. task'[q] = "done" <=> task[q] = "done"
    BY <1>2 DEF ReadBody, MoveFront, Spawn, taskVars, GateTypeOK,
       FrontsAndTasks
  <2> QED
    BY <2>1, <2>2, <2>3, KeptIfQuiet
<1>3. ASSUME NEW r \in Request, NextChunk(r) PROVE ChunksKept'
  <2> SUFFICES ASSUME NEW q \in Request PROVE ChunkKept(q)'
    BY DEF ChunksKept
  <2>1. CASE q = r
    <3>1. unsent'[q] = unsent[q] - 1 /\ InHand(q)' = 1 /\ InHand(q) = 0
      BY <1>3, <2>1 DEF NextChunk, MoveFront, InHand, GateTypeOK
    <3>2. front[q] = "stream" /\ SenderAlive(q) /\ ~BodyEnded(q)'
      BY <1>3, <2>1 DEF NextChunk, MoveFront, SenderAlive, BodyEnded,
       GateTypeOK
    <3>3. UNCHANGED <<route, task, channel, received, faults>>
      BY <1>3 DEF NextChunk, taskVars
    <3> QED
      BY <3>1, <3>2, <3>3, ChunkCounts DEF ChunksKept, ChunkKept
  <2>2. CASE q # r
    <3>1. unsent'[q] = unsent[q] /\ front'[q] = front[q]
      BY <1>3, <2>2 DEF NextChunk, MoveFront, GateTypeOK
    <3> QED
      BY <1>3, <3>1, KeptIfQuiet DEF NextChunk, taskVars, InHand, SenderAlive,
     BodyEnded
  <2> QED
    BY <2>1, <2>2
<1>4. ASSUME NEW r \in Request, SendChunk(r) PROVE ChunksKept'
  <2> SUFFICES ASSUME NEW q \in Request PROVE ChunkKept(q)'
    BY DEF ChunksKept
  <2>1. CASE q = r
    <3>1. front[q] = "send" /\ InHand(q) = 1 /\ InHand(q)' = 0
      BY <1>4, <2>1 DEF SendChunk, MoveFront, InHand, GateTypeOK
    <3>2. SenderAlive(q) /\ UNCHANGED <<route, task, unsent, received, faults>>
      BY <1>4, <3>1 DEF SendChunk, taskVars, SenderAlive
    <3>3. \/ task[q] # "done" /\ channel'[q] = channel[q] + 1 /\ ~BodyEnded(q)'
          \/ task[q] = "done" /\ channel'[q] = channel[q]
      BY <1>4, <2>1 DEF SendChunk, MoveFront, ReceiverAlive, BodyEnded,
       GateTypeOK
    <3> QED
      BY <3>1, <3>2, <3>3, ChunkCounts DEF ChunksKept, ChunkKept
  <2>2. CASE q # r
    <3>1. channel'[q] = channel[q] /\ front'[q] = front[q]
      BY <1>4, <2>2 DEF SendChunk, MoveFront, GateTypeOK
    <3> QED
      BY <1>4, <3>1, KeptIfQuiet DEF SendChunk, taskVars, InHand, SenderAlive,
     BodyEnded
  <2> QED
    BY <2>1, <2>2
<1>5. ASSUME NEW r \in Request, EndBody(r) PROVE ChunksKept'
  <2> SUFFICES ASSUME NEW q \in Request PROVE ChunkKept(q)'
    BY DEF ChunksKept
  <2>1. \/ front'[q] = "dropped"
        \/ /\ front[q] # "dropped" /\ InHand(q)' = InHand(q)
           /\ SenderAlive(q)' => SenderAlive(q) \/ task[q] # "done"
           /\ BodyEnded(q)' =>
                 BodyEnded(q) \/ unsent[q] = 0 \/ route[q] # "upload"
    BY <1>5 DEF EndBody, MoveFront, InHand, SenderAlive, BodyEnded,
       GateTypeOK
  <2>2. /\ route' = route /\ unsent' = unsent /\ channel' = channel
        /\ received' = received /\ faults' = faults
    BY <1>5 DEF EndBody, MoveFront, taskVars, bodyVars
  <2>3. task'[q] = "done" <=> task[q] = "done"
    BY <1>5 DEF EndBody, MoveFront, taskVars, GateTypeOK
  <2> QED
    BY <2>1, <2>2, <2>3, KeptIfQuiet
<1>6. ASSUME NEW r \in Request, BreakBody(r) PROVE ChunksKept'
  <2> SUFFICES ASSUME NEW q \in Request PROVE ChunkKept(q)'
    BY DEF ChunksKept
  <2>1. UNCHANGED <<route, task, unsent, channel, received>>
    BY <1>6 DEF BreakBody, taskVars
  <2>2. CASE q = r
    <3>1. /\ front[q] = "stream" /\ InHand(q) = 0 /\ InHand(q)' = 0
          /\ SenderAlive(q) /\ ~SenderAlive(q)'
          /\ faults'[q] = faults[q] \cup {"body_error"}
      BY <1>6, <2>2 DEF BreakBody, MoveFront, InHand, SenderAlive, GateTypeOK
    <3> QED
      BY <2>1, <3>1 DEF ChunksKept, ChunkKept
  <2>3. CASE q # r
    <3>1. faults'[q] = faults[q] /\ front'[q] = front[q]
      BY <1>6, <2>3 DEF BreakBody, MoveFront, GateTypeOK
    <3> QED
      BY <2>1, <3>1, KeptIfQuiet DEF InHand, SenderAlive, BodyEnded
  <2> QED
    BY <2>2, <2>3
<1>7. ASSUME NEW r \in Request, TimeoutBody(r) PROVE ChunksKept'
  <2> SUFFICES ASSUME NEW q \in Request PROVE ChunkKept(q)'
    BY DEF ChunksKept
  <2>1. \/ front'[q] = "dropped"
        \/ /\ front[q] # "dropped" /\ InHand(q)' = InHand(q)
           /\ SenderAlive(q)' => SenderAlive(q) \/ task[q] # "done"
           /\ BodyEnded(q)' =>
                 BodyEnded(q) \/ unsent[q] = 0 \/ route[q] # "upload"
    BY <1>7 DEF TimeoutBody, Answer, MoveFront, InHand, SenderAlive, BodyEnded,
       GateTypeOK
  <2>2. /\ route' = route /\ unsent' = unsent /\ channel' = channel
        /\ received' = received /\ faults' = faults
    BY <1>7 DEF TimeoutBody, Answer, MoveFront, taskVars, bodyVars
  <2>3. task'[q] = "done" <=> task[q] = "done"
    BY <1>7 DEF TimeoutBody, Answer, MoveFront, taskVars, GateTypeOK
  <2> QED
    BY <2>1, <2>2, <2>3, KeptIfQuiet
<1>8. ASSUME NEW r \in Request, EnterSelect(r) PROVE ChunksKept'
  <2> SUFFICES ASSUME NEW q \in Request PROVE ChunkKept(q)'
    BY DEF ChunksKept
  <2>1. \/ front'[q] = "dropped"
        \/ /\ front[q] # "dropped" /\ InHand(q)' = InHand(q)
           /\ SenderAlive(q)' => SenderAlive(q) \/ task[q] # "done"
           /\ BodyEnded(q)' =>
                 BodyEnded(q) \/ unsent[q] = 0 \/ route[q] # "upload"
    BY <1>8 DEF EnterSelect, MoveFront, InHand, SenderAlive, BodyEnded,
       GateTypeOK
  <2>2. /\ route' = route /\ unsent' = unsent /\ channel' = channel
        /\ received' = received /\ faults' = faults
    BY <1>8 DEF EnterSelect, MoveFront, taskVars, bodyVars
  <2>3. task'[q] = "done" <=> task[q] = "done"
    BY <1>8 DEF EnterSelect, MoveFront, taskVars, GateTypeOK
  <2> QED
    BY <2>1, <2>2, <2>3, KeptIfQuiet
<1>9. ASSUME NEW r \in Request, AnswerResult(r) PROVE ChunksKept'
  <2> SUFFICES ASSUME NEW q \in Request PROVE ChunkKept(q)'
    BY DEF ChunksKept
  <2>1. \/ front'[q] = "dropped"
        \/ /\ front[q] # "dropped" /\ InHand(q)' = InHand(q)
           /\ SenderAlive(q)' => SenderAlive(q) \/ task[q] # "done"
           /\ BodyEnded(q)' =>
                 BodyEnded(q) \/ unsent[q] = 0 \/ route[q] # "upload"
    BY <1>9 DEF AnswerResult, Answer, MoveFront, InHand, SenderAlive, BodyEnded,
       GateTypeOK
  <2>2. /\ route' = route /\ unsent' = unsent /\ channel' = channel
        /\ received' = received /\ faults' = faults
    BY <1>9 DEF AnswerResult, Answer, MoveFront, taskVars, bodyVars
  <2>3. task'[q] = "done" <=> task[q] = "done"
    BY <1>9 DEF AnswerResult, Answer, MoveFront, taskVars, GateTypeOK
  <2> QED
    BY <2>1, <2>2, <2>3, KeptIfQuiet
<1>10. ASSUME NEW r \in Request, AnswerShutdown(r) PROVE ChunksKept'
  <2> SUFFICES ASSUME NEW q \in Request PROVE ChunkKept(q)'
    BY DEF ChunksKept
  <2>1. \/ front'[q] = "dropped"
        \/ /\ front[q] # "dropped" /\ InHand(q)' = InHand(q)
           /\ SenderAlive(q)' => SenderAlive(q) \/ task[q] # "done"
           /\ BodyEnded(q)' =>
                 BodyEnded(q) \/ unsent[q] = 0 \/ route[q] # "upload"
    BY <1>10 DEF AnswerShutdown, Answer, MoveFront, InHand, SenderAlive, BodyEnded,
       GateTypeOK
  <2>2. /\ route' = route /\ unsent' = unsent /\ channel' = channel
        /\ received' = received /\ faults' = faults
    BY <1>10 DEF AnswerShutdown, Answer, MoveFront, taskVars, bodyVars
  <2>3. task'[q] = "done" <=> task[q] = "done"
    BY <1>10 DEF AnswerShutdown, Answer, MoveFront, taskVars, GateTypeOK
  <2> QED
    BY <2>1, <2>2, <2>3, KeptIfQuiet
<1>11. ASSUME NEW r \in Request, DropFront(r) PROVE ChunksKept'
  <2> SUFFICES ASSUME NEW q \in Request PROVE ChunkKept(q)'
    BY DEF ChunksKept
  <2>1. \/ front'[q] = "dropped"
        \/ /\ front[q] # "dropped" /\ InHand(q)' = InHand(q)
           /\ SenderAlive(q)' => SenderAlive(q) \/ task[q] # "done"
           /\ BodyEnded(q)' =>
                 BodyEnded(q) \/ unsent[q] = 0 \/ route[q] # "upload"
    BY <1>11 DEF DropFront, MoveFront, InHand, SenderAlive, BodyEnded,
       GateTypeOK
  <2>2. /\ route' = route /\ unsent' = unsent /\ channel' = channel
        /\ received' = received /\ faults' = faults
    BY <1>11 DEF DropFront, MoveFront, taskVars, bodyVars
  <2>3. task'[q] = "done" <=> task[q] = "done"
    BY <1>11 DEF DropFront, MoveFront, taskVars, GateTypeOK
  <2> QED
    BY <2>1, <2>2, <2>3, KeptIfQuiet
<1>12. ASSUME NEW r \in Request, AcquireGlobal(r) PROVE ChunksKept'
  <2> SUFFICES ASSUME NEW q \in Request PROVE ChunkKept(q)'
    BY DEF ChunksKept
  <2>1. \/ front'[q] = "dropped"
        \/ /\ front[q] # "dropped" /\ InHand(q)' = InHand(q)
           /\ SenderAlive(q)' => SenderAlive(q) \/ task[q] # "done"
           /\ BodyEnded(q)' =>
                 BodyEnded(q) \/ unsent[q] = 0 \/ route[q] # "upload"
    BY <1>12 DEF AcquireGlobal, InHand, SenderAlive, BodyEnded,
       GateTypeOK
  <2>2. /\ route' = route /\ unsent' = unsent /\ channel' = channel
        /\ received' = received /\ faults' = faults
    BY <1>12 DEF AcquireGlobal, taskVars, bodyVars
  <2>3. task'[q] = "done" <=> task[q] = "done"
    BY <1>12, FirstInLine DEF AcquireGlobal, taskVars, GateTypeOK
  <2> QED
    BY <2>1, <2>2, <2>3, KeptIfQuiet
<1>13. ASSUME NEW r \in Request, AcquireLocal(r) PROVE ChunksKept'
  <2> SUFFICES ASSUME NEW q \in Request PROVE ChunkKept(q)'
    BY DEF ChunksKept
  <2>1. \/ front'[q] = "dropped"
        \/ /\ front[q] # "dropped" /\ InHand(q)' = InHand(q)
           /\ SenderAlive(q)' => SenderAlive(q) \/ task[q] # "done"
           /\ BodyEnded(q)' =>
                 BodyEnded(q) \/ unsent[q] = 0 \/ route[q] # "upload"
    BY <1>13 DEF AcquireLocal, InHand, SenderAlive, BodyEnded,
       GateTypeOK
  <2>2. /\ route' = route /\ unsent' = unsent /\ channel' = channel
        /\ received' = received /\ faults' = faults
    BY <1>13 DEF AcquireLocal, taskVars, bodyVars
  <2>3. task'[q] = "done" <=> task[q] = "done"
    BY <1>13 DEF AcquireLocal, taskVars, GateTypeOK
  <2> QED
    BY <2>1, <2>2, <2>3, KeptIfQuiet
<1>14. ASSUME NEW r \in Request, TakeChunk(r) PROVE ChunksKept'
  <2> SUFFICES ASSUME NEW q \in Request PROVE ChunkKept(q)'
    BY DEF ChunksKept
  <2>1. CASE q = r
    <3>1. channel'[q] = channel[q] - 1 /\ received'[q] = received[q] + 1
      BY <1>14, <2>1 DEF TakeChunk, GateTypeOK
    <3>2. task[q] = "run" /\ UNCHANGED <<route, front, task, unsent, faults>>
      BY <1>14, <2>1 DEF TakeChunk, taskVars
    <3>3. InHand(q)' = InHand(q) /\ BodyEnded(q)' = BodyEnded(q)
      BY <3>2 DEF InHand, BodyEnded
    <3> QED
      BY <3>1, <3>2, <3>3, ChunkCounts DEF ChunksKept, ChunkKept
  <2>2. CASE q # r
    <3>1. channel'[q] = channel[q] /\ received'[q] = received[q]
      BY <1>14, <2>2 DEF TakeChunk, GateTypeOK
    <3> QED
      BY <1>14, <3>1, KeptIfQuiet DEF TakeChunk, taskVars, InHand, SenderAlive,
     BodyEnded
  <2> QED
    BY <2>1, <2>2
<1>15. ASSUME NEW r \in Request, FinishRun(r) PROVE ChunksKept'
  <2> SUFFICES ASSUME NEW q \in Request PROVE ChunkKept(q)'
    BY DEF ChunksKept
  <2>1. UNCHANGED <<route, front, unsent, channel, received>>
    BY <1>15 DEF FinishRun
  <2>2. /\ InHand(q)' = InHand(q) /\ SenderAlive(q)' = SenderAlive(q)
        /\ BodyEnded(q)' = BodyEnded(q)
    BY <2>1 DEF InHand, SenderAlive, BodyEnded
  <2>3. CASE q = r
    <3>1. task[q] = "run" /\ task'[q] = "done"
      BY <1>15, <2>3 DEF FinishRun, GateTypeOK
    <3>2. CASE StreamEnded(q)
      <4>1. faults'[q] = faults[q]
        BY <1>15, <2>3, <3>2 DEF FinishRun, GateTypeOK
      <4> QED
        BY <2>1, <2>2, <3>1, <3>2, <4>1 DEF StreamEnded, ChunksKept, ChunkKept
    <3>3. CASE ~StreamEnded(q)
      <4>1. "stopped_early" \in faults'[q]
        BY <1>15, <2>3, <3>3 DEF FinishRun, GateTypeOK
      <4> QED
        BY <3>1, <4>1 DEF ChunkKept
    <3> QED
      BY <3>2, <3>3
  <2>4. CASE q # r
    <3>1. task'[q] = task[q] /\ faults'[q] = faults[q]
      BY <1>15, <2>4 DEF FinishRun, GateTypeOK
    <3> QED
      BY <2>1, <2>2, <3>1, KeptIfQuiet
  <2> QED
    BY <2>3, <2>4
<1>16. CASE Shutdown
  <2> SUFFICES ASSUME NEW q \in Request PROVE ChunkKept(q)'
    BY DEF ChunksKept
  <2>1. \/ front'[q] = "dropped"
        \/ /\ front[q] # "dropped" /\ InHand(q)' = InHand(q)
           /\ SenderAlive(q)' => SenderAlive(q) \/ task[q] # "done"
           /\ BodyEnded(q)' =>
                 BodyEnded(q) \/ unsent[q] = 0 \/ route[q] # "upload"
    BY <1>16 DEF Shutdown, InHand, SenderAlive, BodyEnded,
       GateTypeOK
  <2>2. /\ route' = route /\ unsent' = unsent /\ channel' = channel
        /\ received' = received /\ faults' = faults
    BY <1>16 DEF Shutdown, taskVars, bodyVars
  <2>3. task'[q] = "done" <=> task[q] = "done"
    BY <1>16 DEF Shutdown, taskVars, GateTypeOK
  <2> QED
    BY <2>1, <2>2, <2>3, KeptIfQuiet
<1>17. CASE UNCHANGED vars
  BY <1>17 DEF ChunksKept, vars, taskVars, bodyVars, ChunkKept, InHand,
     SenderAlive, BodyEnded
<1> QED
  BY <1>1, <1>2, <1>3, <1>4, <1>5, <1>6, <1>7, <1>8, <1>9, <1>10, <1>11,
     <1>12, <1>13, <1>14, <1>15, <1>16, <1>17 DEF Next, FrontStep, TaskStep

(* A front says ok about a run that is over, and nothing moves after that. *)
LEMMA OkMeansDeliveredStep == GateInv /\ [Next]_vars => OkMeansDelivered'
<1> SUFFICES ASSUME GateInv, [Next]_vars PROVE OkMeansDelivered'
  OBVIOUS
<1> USE DEF GateInv
<1>1. ASSUME NEW r \in Request, Arrive(r) PROVE OkMeansDelivered'
  BY <1>1 DEF OkMeansDelivered, Arrive, MoveFront, Answer, Spawn, taskVars,
     bodyVars, GateTypeOK, FrontsAndTasks
<1>2. ASSUME NEW r \in Request, ReadBody(r) PROVE OkMeansDelivered'
  BY <1>2 DEF OkMeansDelivered, ReadBody, MoveFront, Spawn, taskVars,
     bodyVars, GateTypeOK, FrontsAndTasks
<1>3. ASSUME NEW r \in Request, NextChunk(r) PROVE OkMeansDelivered'
  BY <1>3 DEF OkMeansDelivered, NextChunk, MoveFront, taskVars, bodyVars,
     GateTypeOK, FrontsAndTasks
<1>4. ASSUME NEW r \in Request, SendChunk(r) PROVE OkMeansDelivered'
  <2>1. answer[r] # "ok" /\ answer' = answer
    BY <1>4 DEF SendChunk, FrontsAndTasks
  <2>2. \A q \in Request \ {r} : channel'[q] = channel[q]
    BY <1>4 DEF SendChunk, GateTypeOK
  <2> QED
    BY <1>4, <2>1, <2>2 DEF SendChunk, OkMeansDelivered, taskVars
<1>5. ASSUME NEW r \in Request, EndBody(r) PROVE OkMeansDelivered'
  BY <1>5 DEF OkMeansDelivered, EndBody, MoveFront, taskVars, bodyVars,
     GateTypeOK, FrontsAndTasks
<1>6. ASSUME NEW r \in Request, BreakBody(r) PROVE OkMeansDelivered'
  <2>1. answer[r] # "ok" /\ answer' = answer
    BY <1>6 DEF BreakBody, FrontsAndTasks
  <2>2. \A q \in Request \ {r} : faults'[q] = faults[q]
    BY <1>6 DEF BreakBody, GateTypeOK
  <2> QED
    BY <1>6, <2>1, <2>2 DEF BreakBody, OkMeansDelivered, taskVars
<1>7. ASSUME NEW r \in Request, TimeoutBody(r) PROVE OkMeansDelivered'
  BY <1>7 DEF OkMeansDelivered, TimeoutBody, Answer, MoveFront, taskVars,
     bodyVars, GateTypeOK, FrontsAndTasks
<1>8. ASSUME NEW r \in Request, EnterSelect(r) PROVE OkMeansDelivered'
  BY <1>8 DEF OkMeansDelivered, EnterSelect, MoveFront, taskVars, bodyVars,
     GateTypeOK, FrontsAndTasks
<1>9. ASSUME NEW r \in Request, AnswerResult(r) PROVE OkMeansDelivered'
  <2>1. CASE result[r] = "ok"
    <3>1. task[r] = "done" /\ front[r] # "dropped" /\ InHand(r) = 0
      BY <1>9 DEF AnswerResult, InHand
    <3>2. BodyEnded(r)
      BY <1>9 DEF AnswerResult, BodyEnded
    <3>3. route[r] = "upload" /\ "stopped_early" \notin faults[r] =>
             /\ channel[r] = 0
             /\ received[r] = Chunks - unsent[r]
             /\ unsent[r] > 0 => "body_error" \in faults[r]
      <4> SUFFICES ASSUME route[r] = "upload", "stopped_early" \notin faults[r]
                   PROVE  /\ channel[r] = 0
                          /\ received[r] = Chunks - unsent[r]
                          /\ unsent[r] > 0 => "body_error" \in faults[r]
        OBVIOUS
      <4>1. ChunkKept(r)
        BY DEF ChunksKept
      <4>2. /\ received[r] + channel[r] + InHand(r) = Chunks - unsent[r]
            /\ channel[r] = 0
        BY <3>1, <4>1 DEF ChunkKept
      <4>3. unsent[r] = 0 \/ "body_error" \in faults[r]
        BY <3>1, <3>2, <4>1 DEF ChunkKept
      <4> QED
        BY <3>1, <4>2, <4>3, ChunkCounts
    <3>4. \A q \in Request \ {r} : answer'[q] = answer[q]
      BY <1>9 DEF AnswerResult, Answer, GateTypeOK
    <3> QED
      BY <1>9, <2>1, <3>1, <3>2, <3>3, <3>4
         DEF AnswerResult, OkMeansDelivered, taskVars, bodyVars
  <2>2. CASE result[r] # "ok"
    <3>1. answer'[r] # "ok"
      BY <1>9, <2>2 DEF AnswerResult, Answer, GateTypeOK
    <3>2. \A q \in Request \ {r} : answer'[q] = answer[q]
      BY <1>9 DEF AnswerResult, Answer, GateTypeOK
    <3> QED
      BY <1>9, <3>1, <3>2 DEF AnswerResult, OkMeansDelivered, taskVars, bodyVars
  <2> QED
    BY <2>1, <2>2
<1>10. ASSUME NEW r \in Request, AnswerShutdown(r) PROVE OkMeansDelivered'
  BY <1>10 DEF OkMeansDelivered, AnswerShutdown, Answer, MoveFront,
     taskVars, bodyVars, GateTypeOK, FrontsAndTasks
<1>11. ASSUME NEW r \in Request, DropFront(r) PROVE OkMeansDelivered'
  BY <1>11 DEF OkMeansDelivered, DropFront, MoveFront, taskVars, bodyVars,
     GateTypeOK, FrontsAndTasks
<1>12. ASSUME NEW r \in Request, AcquireGlobal(r) PROVE OkMeansDelivered'
  <2>1. task[r] = "acquire"
    BY <1>12, FirstInLine
  <2> QED
    BY <1>12, <2>1 DEF AcquireGlobal, OkMeansDelivered, GateTypeOK, bodyVars
<1>13. ASSUME NEW r \in Request, AcquireLocal(r) PROVE OkMeansDelivered'
  BY <1>13 DEF OkMeansDelivered, AcquireLocal, taskVars, bodyVars,
     GateTypeOK, FrontsAndTasks
<1>14. ASSUME NEW r \in Request, TakeChunk(r) PROVE OkMeansDelivered'
  BY <1>14 DEF OkMeansDelivered, TakeChunk, taskVars, bodyVars, GateTypeOK,
     FrontsAndTasks
<1>15. ASSUME NEW r \in Request, FinishRun(r) PROVE OkMeansDelivered'
  <2>1. answer[r] # "ok" /\ answer' = answer
    BY <1>15 DEF FinishRun, OkMeansDelivered
  <2>2. \A q \in Request \ {r} :
           /\ task'[q] = task[q] /\ result'[q] = result[q]
           /\ faults'[q] = faults[q]
    BY <1>15 DEF FinishRun, GateTypeOK
  <2> QED
    BY <1>15, <2>1, <2>2 DEF FinishRun, OkMeansDelivered
<1>16. CASE Shutdown
  BY <1>16 DEF OkMeansDelivered, Shutdown, taskVars, bodyVars, GateTypeOK,
     FrontsAndTasks
<1>17. CASE UNCHANGED vars
  BY <1>17 DEF OkMeansDelivered, vars, taskVars, bodyVars
<1> QED
  BY <1>1, <1>2, <1>3, <1>4, <1>5, <1>6, <1>7, <1>8, <1>9, <1>10, <1>11,
     <1>12, <1>13, <1>14, <1>15, <1>16, <1>17 DEF Next, FrontStep, TaskStep

-----------------------------------------------------------------------------
(* Before the first request every permit is with its semaphore.            *)
LEMMA GateInvInit == Init => GateInv
<1> SUFFICES ASSUME Init PROVE GateInv
  OBVIOUS
<1> USE GateAssumption DEF Init
<1>1. GateTypeOK
  <2>1. unsent \in [Request -> 0..Chunks]
    OBVIOUS
  <2>2. waiting \in Seq(Request) /\ waiting_for \in [Handler -> Seq(Request)]
    OBVIOUS
  <2> QED
    BY <2>1, <2>2 DEF GateTypeOK, Fronts, Answers, Tasks, Results, Faults, Handler
<1>2. FrontsAndTasks
  BY DEF FrontsAndTasks
<1>3. \A S \in {{"acquire"}, {"acquire_local"}, {"run"}, {"acquire_local", "run"}} :
         Holders(S) = {}
  BY DEF Holders
<1>4. Queues
  BY <1>3 DEF Queues, IsInjective, Range
<1>5. FinitelyManyHolders /\ PermitsAccounted
  <2>1. Admitted = {} /\ \A h \in Handler : Running(h) = {}
    BY <1>3 DEF Admitted, Running
  <2>2. permits = NrRequests /\ \A h \in Handler : per_handler[h] = NrReplicas[h]
    OBVIOUS
  <2>3. NrRequests \in Nat /\ \A h \in Handler : NrReplicas[h] \in Nat
    BY DEF Handler
  <2>4. permits + Cardinality(Admitted) = NrRequests /\ IsFiniteSet(Admitted)
    BY <2>1, <2>2, <2>3, FS_EmptySet
  <2>5. ASSUME NEW h \in Handler
        PROVE  per_handler[h] + Cardinality(Running(h)) = NrReplicas[h]
    <3>1. Cardinality(Running(h)) = 0
      BY <2>1, FS_EmptySet
    <3>2. per_handler[h] = NrReplicas[h] /\ NrReplicas[h] \in Nat
      BY <2>2, <2>3
    <3> HIDE DEF Init, Running
    <3> QED
      BY <3>1, <3>2
  <2> QED
    BY <2>4, <2>5 DEF FinitelyManyHolders, PermitsAccounted, Admitted, Running
<1>6. ChunksLeft /\ ChunksKept
  <2>1. \A r \in Request :
           /\ InHand(r) = 0 /\ channel[r] = 0 /\ received[r] = 0
           /\ unsent[r] \in 0..Chunks
           /\ route[r] = "upload" => unsent[r] = Chunks
           /\ task[r] = "none" /\ faults[r] = {} /\ ~BodyEnded(r)
    BY DEF InHand, BodyEnded
  <2> QED
    BY <2>1 DEF ChunksLeft, ChunksKept, ChunkKept
<1>7. OkMeansDelivered
  BY DEF OkMeansDelivered
<1> QED
  BY <1>1, <1>2, <1>4, <1>5, <1>6, <1>7 DEF GateInv

(* Every behaviour of the routes stays within the inductive invariant.     *)
THEOREM GateInvInvariant == Spec => []GateInv
<1>1. GateInv /\ [Next]_vars => GateInv'
  BY GateTypeOKStep, FrontsAndTasksStep, QueuesStep, FinitelyManyHoldersStep,
     PermitsAccountedStep, ChunksLeftStep, ChunksKeptStep, OkMeansDeliveredStep
     DEF GateInv
<1> QED
  BY <1>1, GateInvInit, PTL DEF Spec

(* The variables of the routes have their types in every reachable state:  *)
(* no permit is given back that was not taken, no chunk counted twice.     *)
THEOREM GateTypeCorrect == Spec => []GateTypeOK
<1>1. GateInv => GateTypeOK
  BY DEF GateInv
<1> QED
  BY <1>1, GateInvInvariant, PTL

(* For any number of requests and whatever ends them, permits are neither  *)
(* lost nor made: at most nr_requests processors are admitted and at most  *)
(* nr_replicas runs of a handler run at once (general.rs:121-123).         *)
THEOREM PermitsAreAccounted == Spec => []PermitsAccounted
<1>1. GateInv => PermitsAccounted
  BY DEF GateInv
<1> QED
  BY <1>1, GateInvInvariant, PTL

(* For bodies and channels of any size, an answer ok is about a run that   *)
(* succeeded, and an upload was received as far as it was read unless the  *)
(* run stopped early, and read to its end unless the body broke off        *)
(* (files.rs:157-189).                                                     *)
THEOREM OkIsDelivered == Spec => []OkMeansDelivered
<1>1. GateInv => OkMeansDelivered
  BY DEF GateInv
<1> QED
  BY <1>1, GateInvInvariant, PTL

-----------------------------------------------------------------------------
(* A run goes on: there is a chunk to take, a front that brings one, or    *)
(* the end of the stream.                                                  *)
LEMMA RunGoesOn ==
    ASSUME GateInv, NEW q \in Request, task[q] = "run"
    PROVE  GoesOn(q)
<1>1. channel[q] \in 0..ChannelSize
  BY DEF GateInv, GateTypeOK
<1> QED
  BY <1>1, GateAssumption DEF GoesOn, StreamEnded, SenderAlive

(* Of those in line for a handler the first can go on, or a run has all of *)
(* its permits.                                                            *)
LEMMA LocalLineGoesOn ==
    ASSUME GateInv, NEW r \in Request, task[r] = "acquire_local",
           \A h \in Handler : NrReplicas[h] > 0
    PROVE  \E q \in Request : /\ task[q] \in {"acquire_local", "run"}
                              /\ route[q] = route[r]
                              /\ GoesOn(q)
<1> DEFINE h == route[r]
<1>1. h \in Handler
  BY DEF GateInv, FrontsAndTasks
<1>2. CASE per_handler[h] > 0
  <2>1. Range(waiting_for[h]) = {q \in Holders({"acquire_local"}) : route[q] = h}
    BY <1>1 DEF GateInv, Queues
  <2>2. waiting_for[h] \in Seq(Request) /\ waiting_for[h] # <<>>
    <3>1. waiting_for[h] \in Seq(Request)
      BY <1>1 DEF GateInv, GateTypeOK
    <3>2. r \in Range(waiting_for[h])
      BY <2>1 DEF Holders
    <3> QED
      BY <3>1, <3>2 DEF Range
  <2>3. Head(waiting_for[h]) \in Range(waiting_for[h])
    BY <2>2 DEF Range
  <2>4. /\ Head(waiting_for[h]) \in Request
        /\ task[Head(waiting_for[h])] = "acquire_local"
        /\ route[Head(waiting_for[h])] = h
    BY <2>1, <2>3 DEF Holders
  <2> QED
    BY <1>2, <2>4 DEF GoesOn
<1>3. CASE ~(per_handler[h] > 0)
  <2>1. per_handler[h] = 0
    BY <1>1, <1>3 DEF GateInv, GateTypeOK
  <2>2. per_handler[h] + Cardinality(Running(h)) = NrReplicas[h]
    BY <1>1 DEF GateInv, PermitsAccounted, Running
  <2>3. Cardinality(Running(h)) # 0
    BY <1>1, <2>1, <2>2, FinitelyManyRunning
  <2>4. Running(h) # {}
    BY <2>3, FS_EmptySet
  <2>5. PICK q \in Request : task[q] = "run" /\ route[q] = h
    BY <2>4 DEF Running, Holders
  <2> QED
    BY <2>5, RunGoesOn
<1> QED
  BY <1>2, <1>3

(* Of those in line for the first permit the first can go on, or one who   *)
(* has a permit.                                                           *)
LEMMA LineGoesOn ==
    ASSUME GateInv, NEW r \in Request, task[r] = "acquire", NrRequests > 0,
           \A h \in Handler : NrReplicas[h] > 0
    PROVE  \E q \in Request :
               /\ \/ waiting # <<>> /\ q = Head(waiting)
                  \/ task[q] \in {"acquire_local", "run"}
               /\ GoesOn(q)
<1>1. CASE permits > 0
  <2>1. Range(waiting) = Holders({"acquire"}) /\ waiting \in Seq(Request)
    BY DEF GateInv, Queues, GateTypeOK
  <2>2. r \in Range(waiting)
    BY <2>1 DEF Holders
  <2>3. waiting # <<>> /\ Head(waiting) \in Request
    BY <2>1, <2>2 DEF Range
  <2> QED
    BY <1>1, <2>3 DEF GoesOn
<1>2. CASE ~(permits > 0)
  <2>1. permits = 0
    BY <1>2 DEF GateInv, GateTypeOK
  <2>2. permits + Cardinality(Admitted) = NrRequests
    BY DEF GateInv, PermitsAccounted, Admitted
  <2>3. IsFiniteSet(Admitted) /\ Cardinality(Admitted) \in Nat
    BY FS_CardinalityType DEF GateInv, FinitelyManyHolders, Admitted
  <2>4. Admitted # {}
    BY <2>1, <2>2, <2>3, FS_EmptySet
  <2>5. PICK q \in Request : task[q] \in {"acquire_local", "run"}
    BY <2>4 DEF Admitted, Holders
  <2> QED
    BY <2>5, RunGoesOn, LocalLineGoesOn
<1> QED
  BY <1>1, <1>2

(* However many requests and permits there are, no request is stuck        *)
(* (general.rs:120-126, files.rs:153-189).                                 *)
THEOREM NoRequestIsStuck == Spec => []RequestsAdvance
<1>1. ASSUME GateInv, NrRequests > 0, \A h \in Handler : NrReplicas[h] > 0,
             NEW r \in Request, front[r] \notin {"absent", "answered", "dropped"}
      PROVE  \E q \in WaitsOn(r) : GoesOn(q)
  <2>1. CASE task[r] = "none"
    <3>1. front[r] = "body"
      BY <1>1, <2>1 DEF GateInv, FrontsAndTasks
    <3> QED
      BY <3>1 DEF GoesOn, WaitsOn
  <2>2. CASE task[r] = "acquire"
    BY <1>1, <2>2, LineGoesOn DEF WaitsOn
  <2>3. CASE task[r] = "acquire_local"
    BY <1>1, <2>3, LocalLineGoesOn DEF WaitsOn
  <2>4. CASE task[r] = "run"
    BY <1>1, <2>4, RunGoesOn DEF WaitsOn
  <2>5. CASE task[r] = "done"
    <3>1. front[r] \in Fronts
      BY <1>1 DEF GateInv, GateTypeOK
    <3> QED
      BY <1>1, <2>5, <3>1 DEF GoesOn, WaitsOn, ReceiverAlive, Fronts
  <2> QED
    BY <1>1, <2>1, <2>2, <2>3, <2>4, <2>5 DEF GateInv, GateTypeOK, Tasks
<1>2. GateInv => RequestsAdvance
  BY <1>1 DEF RequestsAdvance
<1> QED
  BY <1>2, GateInvInvariant, PTL

===============================================================================
