------------------------------ MODULE RequestGate ------------------------------
(***************************************************************************)
(* The HTTP side: process_request of src/src/core/routes/general.rs, the   *)
(* three routes of src/src/core/routes/files.rs, the two kinds of          *)
(* semaphores that src/src/manager.rs gives them, and the shutdown route.  *)
(*                                                                         *)
(* A request is two futures.  The front is the route handler, which reads  *)
(* the body, spawns the processor and waits for it or for the shutdown     *)
(* notification.  The processor acquires a permit of all requests, then    *)
(* one of its handler, and runs the handler.  It is not tied to the front: *)
(* a front that is answered otherwise, or dropped by the server, leaves it *)
(* running with its permits.                                               *)
(*                                                                         *)
(* The semaphores are tokio's, which serve their waiters in order.         *)
(***************************************************************************)
EXTENDS Integers, Sequences, FiniteSets, Functions

CONSTANTS
    Request,
    Asks,          \* the handler names each request may be for
    NrReplicas,    \* number_replicas: a function of the registered names
    NrRequests,    \* nr_requests
    Chunks,        \* how many chunks the body of an upload has
    ChannelSize    \* 64 in process_upload

ASSUME GateAssumption ==
    /\ DOMAIN Asks = Request
    /\ NrReplicas \in [DOMAIN NrReplicas -> Nat]
    /\ NrRequests \in Nat
    /\ Chunks \in Nat
    /\ ChannelSize \in Nat \ {0}

Handler == DOMAIN NrReplicas

VARIABLES
    route,         \* the handler name each request is for
    front,         \* where the route handler of each request is
    answer,        \* the answer it gave
    task,          \* where its processor is
    result,        \* what Base::run returned
    permits,       \* permits left in one_request_at_a_time
    per_handler,   \* permits left in request_max_per_handler
    waiting,       \* who waits for the first, in order
    waiting_for,   \* who waits for the second, per handler
    unsent,        \* chunks the client has not sent yet
    channel,       \* chunks in the mpsc channel of an upload
    received,      \* chunks run_stream has taken out of it
    faults         \* history: what cut the upload of each request short

vars == <<route, front, answer, task, result, permits, per_handler,
          waiting, waiting_for, unsent, channel, received, faults>>
taskVars == <<task, result, permits, per_handler, waiting, waiting_for>>
bodyVars == <<unsent, channel, received, faults>>

Fronts  == {"absent", "body", "stream", "send", "spawned", "select",
            "notified", "answered", "dropped"}
Answers == {"none", "ok", "error", "bad_request", "timeout", "unavailable"}
Results == {"none", "ok", "error", "panic"}
Tasks   == {"none", "acquire", "acquire_local", "run", "done"}
Faults  == {"body_error", "stopped_early"}

GateTypeOK ==
    /\ \A r \in Request : route[r] \in Asks[r]
    /\ front \in [Request -> Fronts]
    /\ answer \in [Request -> Answers]
    /\ task \in [Request -> Tasks]
    /\ result \in [Request -> Results]
    /\ permits \in Nat
    /\ per_handler \in [Handler -> Nat]
    /\ waiting \in Seq(Request)
    /\ waiting_for \in [Handler -> Seq(Request)]
    /\ unsent \in [Request -> 0..Chunks]
    /\ channel \in [Request -> 0..ChannelSize]
    /\ received \in [Request -> 0..Chunks]
    /\ faults \in [Request -> SUBSET Faults]

Init ==
    /\ route \in {f \in [Request -> UNION {Asks[r] : r \in Request}] :
                     \A r \in Request : f[r] \in Asks[r]}
    /\ front = [r \in Request |-> "absent"]
    /\ answer = [r \in Request |-> "none"]
    /\ task = [r \in Request |-> "none"]
    /\ result = [r \in Request |-> "none"]
    /\ permits = NrRequests
    /\ per_handler = NrReplicas
    /\ waiting = <<>>
    /\ waiting_for = [h \in Handler |-> <<>>]
    /\ unsent = [r \in Request |-> IF route[r] = "upload" THEN Chunks ELSE 0]
    /\ channel = [r \in Request |-> 0]
    /\ received = [r \in Request |-> 0]
    /\ faults = [r \in Request |-> {}]

(* The sender half of the channel lives as long as the loop that feeds it, *)
(* the receiver half as long as run_stream and what precedes it.           *)
SenderAlive(r)   == front[r] \in {"stream", "send"}
ReceiverAlive(r) == task[r] # "done"

MoveFront(r, f) == front' = [front EXCEPT ![r] = f]

Answer(r, a) ==
    /\ MoveFront(r, "answered")
    /\ answer' = [answer EXCEPT ![r] = a]

(* tokio::spawn of the processor, which gets in line for a permit.         *)
Spawn(r) ==
    /\ task' = [task EXCEPT ![r] = "acquire"]
    /\ waiting' = Append(waiting, r)
    /\ UNCHANGED <<result, permits, per_handler, waiting_for>>

-----------------------------------------------------------------------------
(* The front of a request                                                  *)

(* A name without semaphore or instance panics in expect, and the          *)
(* connection is dropped; an upload without the size header is answered.   *)
Arrive(r) ==
    /\ front[r] = "absent"
    /\ \/ /\ route[r] \notin Handler
          /\ MoveFront(r, "dropped")
          /\ UNCHANGED <<answer, taskVars>>
       \/ /\ route[r] = "upload"
          /\ Answer(r, "bad_request")
          /\ UNCHANGED taskVars
       \/ /\ route[r] \in Handler
          /\ route[r] \in {"upload", "download", "metadata"}
          /\ MoveFront(r, IF route[r] = "upload" THEN "stream" ELSE "spawned")
          /\ Spawn(r)
          /\ UNCHANGED answer
       \/ /\ route[r] \in Handler \ {"upload", "download", "metadata"}
          /\ MoveFront(r, "body")
          /\ UNCHANGED <<answer, taskVars>>
    /\ UNCHANGED <<route, bodyVars>>

(* process_request reads the whole body before it spawns; a body that      *)
(* cannot be read panics in expect.                                        *)
ReadBody(r) ==
    /\ front[r] = "body"
    /\ \/ MoveFront(r, "spawned") /\ Spawn(r)
       \/ MoveFront(r, "dropped") /\ UNCHANGED taskVars
    /\ UNCHANGED <<route, answer, bodyVars>>

(* Mutant: a chunk that finds the channel full is skipped.                 *)
SendChunkOrSkip(r) ==
    /\ front[r] = "send"
    /\ \/ /\ ReceiverAlive(r)
          /\ channel' = [channel EXCEPT ![r] = IF @ < ChannelSize THEN @ + 1 ELSE @]
          /\ MoveFront(r, "stream")
       \/ /\ ~ReceiverAlive(r)
          /\ MoveFront(r, "spawned")
          /\ UNCHANGED channel
    /\ UNCHANGED <<route, answer, taskVars, unsent, received, faults>>

(* Mutant: the channel has room for one more.                              *)
SendChunkOverfull(r) ==
    /\ front[r] = "send"
    /\ \/ /\ ReceiverAlive(r)
          /\ channel[r] <= ChannelSize
          /\ channel' = [channel EXCEPT ![r] = @ + 1]
          /\ MoveFront(r, "stream")
       \/ /\ ~ReceiverAlive(r)
          /\ MoveFront(r, "spawned")
          /\ UNCHANGED channel
    /\ UNCHANGED <<route, answer, taskVars, unsent, received, faults>>

(* process_upload forwards chunk after chunk; send waits when the channel  *)
(* is full and fails when the receiver is gone.                            *)
NextChunk(r) ==
    /\ front[r] = "stream"
    /\ unsent[r] > 0
    /\ unsent' = [unsent EXCEPT ![r] = @ - 1]
    /\ MoveFront(r, "send")
    /\ UNCHANGED <<route, answer, taskVars, channel, received, faults>>

SendChunk(r) ==
    /\ front[r] = "send"
    /\ \/ /\ ReceiverAlive(r)
          /\ channel[r] < ChannelSize
          /\ channel' = [channel EXCEPT ![r] = @ + 1]
          /\ MoveFront(r, "stream")
       \/ /\ ~ReceiverAlive(r)
          /\ MoveFront(r, "spawned")
          /\ UNCHANGED channel
    /\ UNCHANGED <<route, answer, taskVars, unsent, received, faults>>

(* End of the body, and also an error while reading it: both leave the     *)
(* loop and drop the sender.                                               *)
EndBody(r) ==
    /\ front[r] = "stream"
    /\ unsent[r] = 0
    /\ MoveFront(r, "spawned")
    /\ UNCHANGED <<route, answer, taskVars, bodyVars>>

BreakBody(r) ==
    /\ front[r] = "stream"
    /\ unsent[r] > 0
    /\ MoveFront(r, "spawned")
    /\ faults' = [faults EXCEPT ![r] = @ \cup {"body_error"}]
    /\ UNCHANGED <<route, answer, taskVars, unsent, channel, received>>

(* No chunk for 20 seconds.                                                *)
TimeoutBody(r) ==
    /\ front[r] = "stream"
    /\ Answer(r, "timeout")
    /\ UNCHANGED <<route, taskVars, bodyVars>>

(* The select! creates notified(); a shutdown before that is not seen.     *)
EnterSelect(r) ==
    /\ front[r] = "spawned"
    /\ MoveFront(r, "select")
    /\ UNCHANGED <<route, answer, taskVars, bodyVars>>

(* Mutant: the task's join error is not answered.                          *)
AnswerResultOfRun(r) ==
    /\ front[r] \in {"select", "notified"}
    /\ task[r] = "done"
    /\ result[r] # "panic"
    /\ Answer(r, IF result[r] = "ok" THEN "ok" ELSE "error")
    /\ UNCHANGED <<route, taskVars, bodyVars>>

(* handle_common_ending; only process_download answers a panic and a       *)
(* shutdown differently.                                                   *)
AnswerResult(r) ==
    /\ front[r] \in {"select", "notified"}
    /\ task[r] = "done"
    /\ Answer(r, CASE result[r] = "ok" -> "ok"
                   [] result[r] = "panic" /\ route[r] = "download" -> "bad_request"
                   [] OTHER -> "error")
    /\ UNCHANGED <<route, taskVars, bodyVars>>

AnswerShutdown(r) ==
    /\ front[r] = "notified"
    /\ Answer(r, IF route[r] = "download" THEN "unavailable" ELSE "error")
    /\ UNCHANGED <<route, taskVars, bodyVars>>

(* The client disconnects or the server stops.                             *)
DropFront(r) ==
    /\ front[r] \notin {"absent", "answered", "dropped"}
    /\ MoveFront(r, "dropped")
    /\ UNCHANGED <<route, answer, taskVars, bodyVars>>

(* shutdown_from_http: notify_waiters reaches the requests in their        *)
(* select!.  That the server then takes no more requests is one of the     *)
(* behaviours in which the absent ones do not arrive.                      *)
Shutdown ==
    /\ \E r \in Request : front[r] = "select"
    /\ front' = [r \in Request |-> IF front[r] = "select" THEN "notified" ELSE front[r]]
    /\ UNCHANGED <<route, answer, taskVars, bodyVars>>

-----------------------------------------------------------------------------
(* The processor                                                           *)

AcquireGlobal(r) ==
    /\ waiting # <<>> /\ Head(waiting) = r
    /\ permits > 0
    /\ permits' = permits - 1
    /\ waiting' = Tail(waiting)
    /\ waiting_for' = [waiting_for EXCEPT ![route[r]] = Append(@, r)]
    /\ task' = [task EXCEPT ![r] = "acquire_local"]
    /\ UNCHANGED <<route, front, answer, result, per_handler, bodyVars>>

AcquireLocal(r) ==
    /\ task[r] = "acquire_local"
    /\ Head(waiting_for[route[r]]) = r
    /\ per_handler[route[r]] > 0
    /\ per_handler' = [per_handler EXCEPT ![route[r]] = @ - 1]
    /\ waiting_for' = [waiting_for EXCEPT ![route[r]] = Tail(@)]
    /\ task' = [task EXCEPT ![r] = "run"]
    /\ UNCHANGED <<route, front, answer, result, permits, waiting, bodyVars>>

TakeChunk(r) ==
    /\ task[r] = "run"
    /\ channel[r] > 0
    /\ channel' = [channel EXCEPT ![r] = @ - 1]
    /\ received' = [received EXCEPT ![r] = @ + 1]
    /\ UNCHANGED <<route, front, answer, taskVars, unsent, faults>>

StreamEnded(r) == ~SenderAlive(r) /\ channel[r] = 0

(* Mutant: a panic forgets the permits.                                    *)
FinishRunLeaking(r) ==
    /\ task[r] = "run"
    /\ \E x \in Results \ {"none"} :
          /\ result' = [result EXCEPT ![r] = x]
          /\ permits' = IF x = "panic" THEN permits ELSE permits + 1
          /\ per_handler' = IF x = "panic" THEN per_handler
                            ELSE [per_handler EXCEPT ![route[r]] = @ + 1]
    /\ task' = [task EXCEPT ![r] = "done"]
    /\ UNCHANGED <<route, front, answer, waiting, waiting_for, bodyVars>>

(* A run ends with a result or a panic, whenever it likes, and gives both  *)
(* permits back; one that stores an upload need not have read it all.      *)
FinishRun(r) ==
    /\ task[r] = "run"
    /\ \E x \in Results \ {"none"} : result' = [result EXCEPT ![r] = x]
    /\ task' = [task EXCEPT ![r] = "done"]
    /\ permits' = permits + 1
    /\ per_handler' = [per_handler EXCEPT ![route[r]] = @ + 1]
    /\ faults' = [faults EXCEPT ![r] = IF StreamEnded(r) THEN @
                                       ELSE @ \cup {"stopped_early"}]
    /\ UNCHANGED <<route, front, answer, waiting, waiting_for,
                   unsent, channel, received>>

-----------------------------------------------------------------------------
FrontStep(r) ==
    \/ ReadBody(r) \/ NextChunk(r) \/ SendChunk(r)
    \/ EndBody(r) \/ BreakBody(r) \/ TimeoutBody(r)
    \/ EnterSelect(r) \/ AnswerResult(r) \/ AnswerShutdown(r)
TaskStep(r) == AcquireGlobal(r) \/ AcquireLocal(r) \/ TakeChunk(r) \/ FinishRun(r)

(* A run must end only once its input has: that one stops earlier is       *)
(* possible and not relied upon.                                           *)
FairTaskStep(r) ==
    AcquireGlobal(r) \/ AcquireLocal(r) \/ TakeChunk(r) \/ (StreamEnded(r) /\ FinishRun(r))

Next ==
    \/ \E r \in Request :
          \/ Arrive(r)
          \/ FrontStep(r)
          \/ DropFront(r)
          \/ TaskStep(r)
    \/ Shutdown

Spec == Init /\ [][Next]_vars

(* Futures that are ready are polled, permits go to the waiter that is     *)
(* first, the body of an upload that stalls times out, a client sends any  *)
(* other body or disconnects, and a run ends after its input.              *)
FairSpec ==
    /\ Spec
    /\ \A r \in Request :
          /\ WF_vars(FrontStep(r))
          /\ WF_vars(FairTaskStep(r))

-----------------------------------------------------------------------------
Holders(S) == {r \in Request : task[r] \in S}

(* Whatever ends a request, its permits come back when its run is over,    *)
(* once: the semaphores never allow more than nr_requests processors and   *)
(* nr_replicas runs of a handler (general.rs:121-123, files.rs:54-56).     *)
PermitsAccounted ==
    /\ permits + Cardinality(Holders({"acquire_local", "run"})) = NrRequests
    /\ \A h \in Handler :
          per_handler[h] + Cardinality({r \in Holders({"run"}) : route[r] = h})
              = NrReplicas[h]

(* A request is answered with success only after its run has succeeded,    *)
(* also when a shutdown races with the result.  An upload that is has been *)
(* received as a whole, unless its run stopped before the end of the       *)
(* stream, which the loop takes for an end of its own, or the body broke   *)
(* off with an error, which ends the stream like its end does; then it was *)
(* received up to there (general.rs:55-76, files.rs:157-189).              *)
OkMeansDelivered ==
    \A r \in Request :
        answer[r] = "ok" =>
            /\ task[r] = "done" /\ result[r] = "ok"
            /\ route[r] = "upload" /\ "stopped_early" \notin faults[r] =>
                  /\ channel[r] = 0
                  /\ received[r] = Chunks - unsent[r]
                  /\ unsent[r] > 0 => "body_error" \in faults[r]

(* Every request is answered or dropped, once there are no new ones: no    *)
(* combination of full channels, permits held by runs nobody waits for any *)
(* more, and one semaphore held while waiting for another leaves a client  *)
(* without an end (general.rs:120-126, files.rs:153-189).  A request       *)
(* arrives once, so this is the same as that each one that does ends.      *)
RequestsEnd ==
    []<>(\A r \in Request : front[r] \in {"absent", "answered", "dropped"})

(* What a request can do without relying on a run that gives up early: the *)
(* guards of FrontStep and FairTaskStep.                                   *)
GoesOn(r) ==
    \/ front[r] \in {"body", "stream", "spawned", "notified"}
    \/ front[r] = "send" /\ (ReceiverAlive(r) => channel[r] < ChannelSize)
    \/ front[r] = "select" /\ task[r] = "done"
    \/ waiting # <<>> /\ Head(waiting) = r /\ permits > 0
    \/ /\ task[r] = "acquire_local" /\ Head(waiting_for[route[r]]) = r
       /\ per_handler[route[r]] > 0
    \/ task[r] = "run" /\ (channel[r] > 0 \/ StreamEnded(r))

(* Those it may have to wait for: while it is in line for the first        *)
(* permit, whoever comes before it and all who have one; after that only   *)
(* who has one for its own handler.                                        *)
WaitsOn(r) ==
    {r} \cup {q \in Request :
                 \/ /\ task[r] = "acquire"
                    /\ waiting # <<>> /\ q = Head(waiting)
                 \/ /\ task[q] \in {"acquire_local", "run"}
                    /\ task[r] = "acquire" \/ route[q] = route[r]}

(* With at least one permit of each kind no request is stuck: it or one    *)
(* that it waits for can go on, also when uploads fill their channels      *)
(* while their runs wait for permits, one semaphore is held while waiting  *)
(* for the other, and fronts are gone.  Past the first permit the          *)
(* requests for other handlers do not matter (general.rs:120-126,          *)
(* files.rs:153-189).                                                      *)
RequestsAdvance ==
    NrRequests > 0 /\ (\A h \in Handler : NrReplicas[h] > 0) =>
        \A r \in Request :
            front[r] \notin {"absent", "answered", "dropped"}
                => \E q \in WaitsOn(r) : GoesOn(q)

=============================================================================
