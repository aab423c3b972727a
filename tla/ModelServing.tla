---------------------------- MODULE ModelServing ----------------------------
(***************************************************************************)
(* services/ml-pipeline: the inference server and the retraining beside    *)
(* operators of the model registry.                                        *)
(*                                                                         *)
(* The server reads the index once, when it is made, and keeps its         *)
(* champion in memory until it ends. It answers a request at once          *)
(* (handle_request), or puts it with a future into a queue, from which the *)
(* batch processor, one coroutine, takes some and answers them together.   *)
(*                                                                         *)
(* The retraining would register what it trained; see Retraining.          *)
(***************************************************************************)
EXTENDS ModelRegistry, Retraining, Sequences, SequencesExt

CONSTANTS
    Requests,       \* bound: prediction requests
    BatchSize,      \* 32
    AbTesting       \* enable_ab_testing

ASSUME ServingAssumption ==
    /\ BatchSize \in Nat \ {0}
    /\ AbTesting \in BOOLEAN

VARIABLES
    server,     \* [at, listed, champion, challenger, batcher]
    request,    \* request -> [at, malformed, by]: malformed without eight numbers
    waiting,    \* request_queue
    batch       \* what the batch processor has taken

serving == <<server, request, waiting, batch>>
servingVars == <<registry, serving, retraining>>

Down == [at |-> "down", listed |-> {}, champion |-> NoModel, challenger |-> NoModel,
         batcher |-> "off"]
NewRequest == [at |-> "new", malformed |-> FALSE, by |-> NoModel]

Serves == server.at = "up"

----------------------------------------------------------------------------
(* The server.                                                             *)

Listed(index) == {m \in Models : index.models[m] # "absent"}

\* __init__: the champion the index names is loaded from its files. Otherwise,
\* or when the index cannot be parsed, the constructor raises.
StartServer ==
    /\ ~Serves /\ ~disk.torn
    /\ \E m \in GetChampion(disk) :
         server' = [Down EXCEPT !.at = "up", !.listed = Listed(disk),
                                !.champion = m, !.batcher = "on"]
    /\ UNCHANGED <<registry, request, waiting, batch, retraining>>

\* set_challenger_model: a model the server's own copy of the index lists.
SetChallenger(m) ==
    /\ Serves
    /\ m \in server.listed /\ meta[m] # "absent"
    /\ server' = [server EXCEPT !.challenger = m]
    /\ UNCHANGED <<registry, request, waiting, batch, retraining>>

\* predict: the splitter sends a share to the challenger.
Chosen ==
    {server.champion}
    \cup IF AbTesting /\ server.challenger # NoModel THEN {server.challenger} ELSE {}

\* handle_request: when the prediction raises, that is the caller's, and no state.
HandleRequest(r) ==
    /\ Serves /\ request[r].at = "new"
    /\ \E m \in Chosen : request' = [request EXCEPT ![r].at = "answered", ![r].by = m]
    /\ UNCHANGED <<registry, server, waiting, batch, retraining>>

Enqueue(r) ==
    /\ Serves /\ request[r].at = "new"
    /\ waiting' = Append(waiting, r)
    /\ \E malformed \in BOOLEAN :
         request' = [request EXCEPT ![r].at = "queued", ![r].malformed = malformed]
    /\ UNCHANGED <<registry, server, batch, retraining>>

\* The caller cancels its future.
Cancel(r) ==
    /\ request[r].at = "queued"
    /\ request' = [request EXCEPT ![r].at = "cancelled"]
    /\ UNCHANGED <<registry, server, waiting, batch, retraining>>

\* batch_processor waits a millisecond for each request of a batch.
Collect ==
    /\ server.batcher = "on"
    /\ waiting # << >> /\ Len(batch) < BatchSize
    /\ batch' = Append(batch, Head(waiting))
    /\ waiting' = Tail(waiting)
    /\ UNCHANGED <<registry, server, request, retraining>>

\* set_result for every future that was not cancelled.
Resolved(requests, m) ==
    [r \in Requests |->
        IF r \in requests /\ request[r].at = "queued"
        THEN [request[r] EXCEPT !.at = "answered", !.by = m] ELSE request[r]]

Poisoned == \E r \in ToSet(batch) : request[r].malformed

\* Mutant: the last future of the batch is left out.
PredictAllButLast ==
    /\ server.batcher = "on" /\ batch # << >>
    /\ batch' = << >>
    /\ IF Poisoned
       THEN server' = [server EXCEPT !.batcher = "dead"] /\ UNCHANGED request
       ELSE /\ \E m \in Chosen : request' = Resolved(ToSet(Front(batch)), m)
            /\ UNCHANGED server
    /\ UNCHANGED <<registry, waiting, retraining>>

\* The batch is full, or 10 ms are over, or a millisecond passed without a request.
\* One prediction for all of them; if it raises, the coroutine ends and with it
\* the futures of the batch and of every later request.
PredictBatch ==
    /\ server.batcher = "on" /\ batch # << >>
    /\ batch' = << >>
    /\ IF Poisoned
       THEN server' = [server EXCEPT !.batcher = "dead"] /\ UNCHANGED request
       ELSE /\ \E m \in Chosen : request' = Resolved(ToSet(batch), m)
            /\ UNCHANGED server
    /\ UNCHANGED <<registry, waiting, retraining>>

\* serve is cancelled, stop_batch_processor cancels the batch processor where it
\* waits, and the process ends; or it dies. Its futures go with it, and who waited
\* may ask again.
StopServer ==
    /\ Serves
    /\ server' = Down
    /\ waiting' = << >> /\ batch' = << >>
    /\ request' = [r \in Requests |->
                     IF request[r].at = "queued" THEN NewRequest ELSE request[r]]
    /\ UNCHANGED <<registry, retraining>>

----------------------------------------------------------------------------

InitServing ==
    /\ InitRegistry
    /\ server = Down
    /\ request = [r \in Requests |-> NewRequest]
    /\ waiting = << >> /\ batch = << >>
    /\ InitRetraining

\* (What the death of a process does to the registry is in ModelRollout.)
RegistryStep(s) ==
    /\ \/ Open(s) \/ Close(s) \/ OperationStep(s)
       \/ \E m \in Models : Register(s, m) \/ Promote(s, m) \/ Archive(s, m) \/ Delete(s, m)
    /\ UNCHANGED <<serving, retraining>>

BatchStep == Collect \/ PredictBatch

NextServing ==
    \/ \E s \in Sessions : RegistryStep(s)
    \/ StartServer \/ StopServer \/ BatchStep
    \/ \E m \in Models : SetChallenger(m)
    \/ \E r \in Requests : HandleRequest(r) \/ Enqueue(r) \/ Cancel(r)
    \/ RetrainingStep /\ UNCHANGED <<registry, serving>>

\* The event loop runs the batch processor, and its timeouts go off.
SpecServing == InitServing /\ [][NextServing]_servingVars /\ WF_servingVars(BatchStep)

----------------------------------------------------------------------------
(* Properties.                                                             *)

\* The variables hold values of their types; TypeOKRetraining says that a run that
\* failed never keeps later ones out.
TypeOKServing ==
    /\ TypeOKRegistry
    /\ server \in [at : {"down", "up"}, listed : SUBSET Models,
                   champion : Models \cup {NoModel}, challenger : Models \cup {NoModel},
                   batcher : {"off", "on", "dead"}]
    /\ request \in [Requests ->
         [at : {"new", "queued", "answered", "cancelled"},
          malformed : BOOLEAN, by : Models \cup {NoModel}]]
    /\ waiting \in Seq(Requests) /\ batch \in Seq(Requests) /\ Len(batch) <= BatchSize
    /\ TypeOKRetraining

\* What waits, in the order it came.
Line == batch \o waiting

\* A future that somebody waits for is in the queue or in the batch, once, as long as
\* the batch processor lives: whatever was cancelled, answered beside it or restarted,
\* none is dropped and none would be resolved twice.
NoRequestForgotten ==
    \A r \in Requests :
        request[r].at = "queued" /\ server.batcher = "on" =>
            \E i \in 1..Len(Line) : \A j \in 1..Len(Line) : Line[j] = r <=> j = i

\* A request that waits for a batch is answered or cancelled, unless the server
\* ends or a malformed request of a batch has ended the batch processor.
QueuedIsAnswered ==
    \A r \in Requests :
        request[r].at = "queued" /\ server.batcher = "on" ~>
            request[r].at \in {"answered", "cancelled"} \/ server.batcher # "on"

============================================================================
