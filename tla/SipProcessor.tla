---------------------------- MODULE SipProcessor ----------------------------
(***************************************************************************)
(* services/sip-processor: the Redis counters of one called number, the    *)
(* coroutines of CDRProcessor that count into them and log finished calls, *)
(* and the /analyze requests that count, read and judge.                   *)
(*                                                                         *)
(* A coroutine gives way at each await; a Redis pipeline is one MULTI.     *)
(* Time is kept as what is left of every key's time to live.               *)
(***************************************************************************)
EXTENDS Integers, FiniteSets

CONSTANTS
    Callers,            \* A-numbers
    Calls,              \* Call-IDs the CDR processor hears of
    Tasks,              \* coroutines inside CDRProcessor
    Requests,           \* bound: /analyze requests
    WindowTtl,          \* 5 s: time to live of the set of callers
    CountersTtl,        \* cdr_window_seconds: that of the counters
    DistinctA,          \* rule 1: RULE_BASED_DISTINCT_A_THRESHOLD, 5
    MismatchA,          \* rule 3: 3
    LowAsrA,            \* rule 5: 4
    MaxInvites,         \* bound: INVITEs of one Call-ID
    MaxAnswers,         \* bound: answers counted in one life of the counter
    NoCall, NoCaller

ASSUME SipAssumption ==
    /\ WindowTtl \in Nat \ {0} /\ CountersTtl \in Nat
    /\ WindowTtl <= CountersTtl
    /\ DistinctA \in Nat /\ MismatchA \in Nat /\ LowAsrA \in Nat
    /\ MaxInvites \in Nat /\ MaxAnswers \in Nat
    /\ NoCall \notin Calls /\ NoCaller \notin Callers

VARIABLES
    attempts,   \* cdr:{b}:attempts, a counter and its time to live
    answered,   \* cdr:{b}:answered
    total,      \* cdr:{b}:total_window
    callers,    \* window:{b}, the set of callers and its time to live
    active,     \* CDRProcessor._active_calls: state of each known call
    task,       \* CDRProcessor coroutines
    inserting,  \* the coroutine whose INSERT the PostgreSQL session executes
    aborted,    \* the session's transaction has failed and nobody rolled back
    invites,    \* history: INVITEs processed per call
    rows,       \* history: rows sent to cdr_logs per call
    request,    \* /analyze requests
    undisturbed \* history: no time has passed and nothing was reset

counters == <<attempts, answered, total, callers>>
cdr == <<active, task, inserting, aborted, invites, rows>>
vars == <<counters, cdr, request, undisturbed>>

---------------------------------------------------------------------------
(* Redis. A counter that is not there reads as 0; a key without a time to   *)
(* live (0) stays.                                                         *)

NoKey == [n |-> 0, ttl |-> 0]
NoSet == [members |-> {}, ttl |-> 0]

\* INCR and EXPIRE in one pipeline.
Incremented(key) == [n |-> key.n + 1, ttl |-> CountersTtl]

\* Mutant: the total of the window keeps the time to live of its first call.
RecordAttemptFixedWindow(a) ==
    /\ attempts' = Incremented(attempts)
    /\ callers' = [members |-> callers.members \cup {a}, ttl |-> WindowTtl]
    /\ total' = [Incremented(total) EXCEPT !.ttl = IF total.n = 0 THEN @ ELSE total.ttl]
    /\ UNCHANGED answered

\* CDRMetricsCalculator.record_attempt.
RecordAttempt(a) ==
    /\ attempts' = Incremented(attempts)
    /\ callers' = [members |-> callers.members \cup {a}, ttl |-> WindowTtl]
    /\ total' = Incremented(total)
    /\ UNCHANGED answered

Aged(key, gone) ==
    IF key.ttl = 0 THEN key ELSE IF key.ttl = 1 THEN gone ELSE [key EXCEPT !.ttl = @ - 1]

Tick ==
    /\ counters # <<NoKey, NoKey, NoKey, NoSet>>
    /\ attempts' = Aged(attempts, NoKey)
    /\ answered' = Aged(answered, NoKey)
    /\ total' = Aged(total, NoKey)
    /\ callers' = Aged(callers, NoSet)
    /\ undisturbed' = FALSE
    /\ UNCHANGED <<cdr, request>>

\* One DEL of all keys.
Deleted == attempts' = NoKey /\ answered' = NoKey /\ total' = NoKey /\ callers' = NoSet

\* DELETE /metrics/{b_number}.
ResetMetrics ==
    /\ counters # <<NoKey, NoKey, NoKey, NoSet>>
    /\ Deleted
    /\ undisturbed' = FALSE
    /\ UNCHANGED <<cdr, request>>

---------------------------------------------------------------------------
(* CDRProcessor. A coroutine is at the await it waits for: "attempt",      *)
(* "answer", "duration" (the three Redis pipelines) or "insert".           *)

Idle == [at |-> "idle", call |-> NoCall, caller |-> NoCaller]
Waiting(step, c) == [Idle EXCEPT !.at = step, !.call = c]

At(t, step) == task[t].at = step

\* CallState, as far as a call that is still active gets ("unknown": not active).
CallStates == {"unknown", "attempting", "answered"}

\* What is not the pipeline's own counter.
Rest == <<request, undisturbed>>
LogIdle == UNCHANGED <<inserting, aborted, rows>>

\* process_invite: a known Call-ID is overwritten.
ProcessInvite(t, c, a) ==
    /\ At(t, "idle") /\ invites[c] < MaxInvites
    /\ active' = [active EXCEPT ![c] = "attempting"]
    /\ invites' = [invites EXCEPT ![c] = @ + 1]
    /\ task' = [task EXCEPT ![t] = [Waiting("attempt", c) EXCEPT !.caller = a]]
    /\ LogIdle /\ UNCHANGED <<counters, Rest>>

AttemptCounted(t) ==
    /\ At(t, "attempt")
    /\ RecordAttempt(task[t].caller)
    /\ task' = [task EXCEPT ![t] = Idle]
    /\ LogIdle /\ UNCHANGED <<active, invites, Rest>>

\* process_answer: whatever the state of the call.
ProcessAnswer(t, c) ==
    /\ At(t, "idle") /\ active[c] # "unknown" /\ answered.n < MaxAnswers
    /\ active' = [active EXCEPT ![c] = "answered"]
    /\ task' = [task EXCEPT ![t] = Waiting("answer", c)]
    /\ LogIdle /\ UNCHANGED <<counters, invites, Rest>>

AnswerCounted(t) ==
    /\ At(t, "answer")
    /\ answered' = Incremented(answered)
    /\ task' = [task EXCEPT ![t] = Idle]
    /\ LogIdle /\ UNCHANGED <<attempts, total, callers, active, invites, Rest>>

\* Mutant: the call is looked up, not popped.
StillKnown(c) == active

Forgotten(c) == [active EXCEPT ![c] = "unknown"]

\* process_bye up to its first await: the state is COMPLETED, so is_answered
\* holds and a duration is recorded, also of a call nobody answered.
ProcessBye(t, c) ==
    /\ At(t, "idle") /\ active[c] # "unknown"
    /\ active' = Forgotten(c)
    /\ task' = [task EXCEPT ![t] = Waiting("duration", c)]
    /\ LogIdle /\ UNCHANGED <<counters, invites, Rest>>

\* Mutant: nothing keeps two coroutines from executing on the session.
BeginInsertShared(t, c) ==
    /\ inserting' = inserting \cup {t}
    /\ task' = [task EXCEPT ![t] = Waiting("insert", c)]

\* _log_cdr_to_postgres begins: a session that executes another statement, or
\* whose transaction has failed, refuses; the exception is swallowed.
BeginInsert(t, c) ==
    IF inserting = {} /\ ~aborted
    THEN /\ inserting' = {t}
         /\ task' = [task EXCEPT ![t] = Waiting("insert", c)]
    ELSE /\ UNCHANGED inserting
         /\ task' = [task EXCEPT ![t] = Idle]

DurationRecorded(t) ==
    /\ At(t, "duration")
    /\ BeginInsert(t, task[t].call)
    /\ UNCHANGED <<counters, active, aborted, invites, rows, Rest>>

\* process_failure.
ProcessFailure(t, c) ==
    /\ At(t, "idle") /\ active[c] # "unknown"
    /\ active' = Forgotten(c)
    /\ BeginInsert(t, c)
    /\ UNCHANGED <<counters, aborted, invites, rows, Rest>>

Inserted(t) ==
    /\ At(t, "insert")
    /\ rows' = [rows EXCEPT ![task[t].call] = @ + 1]
    /\ inserting' = {}
    /\ task' = [task EXCEPT ![t] = Idle]
    /\ UNCHANGED <<counters, active, aborted, invites, Rest>>

\* The INSERT fails: logged, never rolled back.
InsertFails(t) ==
    /\ At(t, "insert")
    /\ aborted' = TRUE
    /\ inserting' = {}
    /\ task' = [task EXCEPT ![t] = Idle]
    /\ UNCHANGED <<counters, active, invites, rows, Rest>>

\* Redis fails: the exception leaves the coroutine.
PipelineFails(t) ==
    /\ task[t].at \in {"attempt", "answer", "duration"}
    /\ task' = [task EXCEPT ![t] = Idle]
    /\ LogIdle /\ UNCHANGED <<counters, active, invites, Rest>>

---------------------------------------------------------------------------
(* POST /analyze. The await points of get_all_metrics whose results the    *)
(* rules use: two GETs (ASR), SCARD and GET (overlap ratio), SCARD.        *)

NewRequest == [at |-> "new", read |-> 0, lowAsr |-> FALSE, overlap |-> 0,
               verdict |-> "none", method |-> "none"]
Finished(verdict, method) == [NewRequest EXCEPT !.at = "done", !.verdict = verdict, !.method = method]

\* What a request leaves alone while it reads.
Apart == <<counters, cdr, undisturbed>>

Analyze(r, a) ==
    /\ request[r].at = "new"
    /\ RecordAttempt(a)
    /\ request' = [request EXCEPT ![r].at = "get attempts"]
    /\ UNCHANGED <<cdr, undisturbed>>

\* The reads of a ratio: the first count is kept until the second is there.
Keep(r, at, next, count) ==
    /\ request[r].at = at
    /\ request' = [request EXCEPT ![r].at = next, ![r].read = count]
    /\ UNCHANGED Apart

GetAttempts(r) == Keep(r, "get attempts", "get answered", attempts.n)
CountCallers(r) == Keep(r, "scard", "get total", Cardinality(callers.members))

\* calculate_asr: below 20%, of no attempts 0%.
LowAsr(tried, taken) == tried = 0 \/ 5 * taken < tried

GetAnswered(r) ==
    /\ request[r].at = "get answered"
    /\ request' = [request EXCEPT ![r].at = "scard", ![r].read = 0,
                                  ![r].lowAsr = LowAsr(request[r].read, answered.n)]
    /\ UNCHANGED Apart

\* _predict_with_rules, in hundredths.
Points(condition, n) == IF condition THEN n ELSE 0

\* calculate_overlap_ratio and rule 2: a counter that is gone counts as 1.
TotalRead == IF total.n = 0 THEN 1 ELSE total.n
OverlapPoints(distinct) ==
    IF 10 * distinct > 8 * TotalRead THEN 30 ELSE Points(2 * distinct > TotalRead, 15)

GetTotal(r) ==
    /\ request[r].at = "get total"
    /\ request' = [request EXCEPT ![r].at = "predict", ![r].read = 0,
                                  ![r].overlap = OverlapPoints(request[r].read)]
    /\ UNCHANGED Apart

\* CDRMetrics, and the features that are extracted from it and the request, as far
\* as the rules look at them.
Metrics(req, distinct) ==
    [overlap |-> req.overlap, lowAsr |-> req.lowAsr, distinct |-> distinct]
Extract(metrics, mismatch, fast) ==
    [overlap |-> metrics.overlap, lowAsr |-> metrics.lowAsr, distinct |-> metrics.distinct,
     mismatch |-> mismatch, fast |-> fast]

\* Mutant: rule 1 asks for more callers than the threshold.
ScoreAbove(f) ==
    Points(f.distinct > DistinctA, 50)
    + f.overlap
    + Points(f.mismatch /\ f.distinct >= MismatchA, 20)
    + Points(f.fast, 10)
    + Points(f.lowAsr /\ f.distinct >= LowAsrA, 10)

Score(f) ==
    Points(f.distinct >= DistinctA, 50)
    + f.overlap
    + Points(f.mismatch /\ f.distinct >= MismatchA, 20)
    + Points(f.fast, 10)
    + Points(f.lowAsr /\ f.distinct >= LowAsrA, 10)

Verdict(score) == IF score >= 70 THEN "masking" ELSE "clear"
PredictWithRules(f) == Finished(Verdict(Score(f)), "rules")

\* The model answers anything, or fails and leaves it to the rules.
ModelAnswers == {"masking", "clear"}
PredictWithModel(f) ==
    {Finished(verdict, "model") : verdict \in ModelAnswers} \cup {PredictWithRules(f)}

\* load: the model file is there and can be read, or not.
Loaded == BOOLEAN

\* _use_model is what load returned last: at the start, or at a /model/reload, which
\* may come between any two requests.
UseModel == Loaded

\* The last SCARD; then features and verdict, without an await.
Predict(r) ==
    /\ request[r].at = "predict"
    /\ \E mismatch, fast \in BOOLEAN, use \in UseModel :
         LET metrics == Metrics(request[r], Cardinality(callers.members))
             f == Extract(metrics, mismatch, fast)
         IN  \E result \in IF use THEN PredictWithModel(f) ELSE {PredictWithRules(f)} :
               request' = [request EXCEPT ![r] = result]
    /\ UNCHANGED Apart

\* Redis fails in a request, before or after the attempt was counted: 500.
AnalysisFails(r) ==
    /\ request[r].at # "done"
    /\ request' = [request EXCEPT ![r] = Finished("error", "none")]
    /\ UNCHANGED Apart

---------------------------------------------------------------------------

Init ==
    /\ attempts = NoKey /\ answered = NoKey /\ total = NoKey /\ callers = NoSet
    /\ active = [c \in Calls |-> "unknown"]
    /\ task = [t \in Tasks |-> Idle]
    /\ inserting = {} /\ aborted = FALSE
    /\ invites = [c \in Calls |-> 0]
    /\ rows = [c \in Calls |-> 0]
    /\ request = [r \in Requests |-> NewRequest]
    /\ undisturbed = TRUE

Redis(t) == AttemptCounted(t) \/ AnswerCounted(t) \/ DurationRecorded(t) \/ PipelineFails(t)
Log(t) == Inserted(t) \/ InsertFails(t)
Event(t) ==
    \E c \in Calls :
        \/ \E a \in Callers : ProcessInvite(t, c, a)
        \/ ProcessAnswer(t, c) \/ ProcessBye(t, c) \/ ProcessFailure(t, c)

Read(r) == GetAttempts(r) \/ GetAnswered(r) \/ CountCallers(r) \/ GetTotal(r) \/ Predict(r)
Receive(r) == \E a \in Callers : Analyze(r, a)

Next ==
    \/ Tick \/ ResetMetrics
    \/ \E t \in Tasks : Event(t) \/ Redis(t) \/ Log(t)
    \/ \E r \in Requests : Receive(r) \/ Read(r) \/ AnalysisFails(r)

Spec == Init /\ [][Next]_vars

---------------------------------------------------------------------------
(* Properties.                                                             *)

Counter == [n : Nat, ttl : 0..CountersTtl]
TaskState == [at : {"idle", "attempt", "answer", "duration", "insert"},
              call : Calls \cup {NoCall}, caller : Callers \cup {NoCaller}]
RequestState ==
    [at : {"new", "get attempts", "get answered", "scard", "get total", "predict", "done"},
     read : Nat, lowAsr : BOOLEAN, overlap : {0, 15, 30},
     verdict : {"none", "masking", "clear", "error"}, method : {"none", "rules", "model"}]

\* The variables hold values of their types, and the session executes the
\* INSERT of exactly the coroutine that waits for one: two coroutines never
\* execute on the session at once (processor.py:202).
TypeOK ==
    /\ attempts \in Counter /\ answered \in Counter /\ total \in Counter
    /\ callers \in [members : SUBSET Callers, ttl : 0..WindowTtl]
    /\ active \in [Calls -> CallStates]
    /\ task \in [Tasks -> TaskState]
    /\ inserting = {t \in Tasks : At(t, "insert")} /\ Cardinality(inserting) <= 1
    /\ aborted \in BOOLEAN
    /\ invites \in [Calls -> 0..MaxInvites]
    /\ rows \in [Calls -> Nat]
    /\ request \in [Requests -> RequestState]
    /\ undisturbed \in BOOLEAN

\* While the set of callers is there, so is the total, and it counts each of
\* them: the overlap ratio of one instant never passes 1, and the default of
\* 1 for a missing total never stands for more than one caller
\* (metrics.py:49-66, 157-164).
CallersAreCounted == total.n >= Cardinality(callers.members)

\* The coroutines that have taken the record of c and will log it.
Ending(c) == {t \in Tasks : task[t].call = c /\ task[t].at \in {"duration", "insert"}}

\* A call is logged at most once for each INVITE processed for it, however
\* BYEs, failures and repeated INVITEs of the Call-ID interleave
\* (processor.py:66, 111, 148).
CallLoggedOnce ==
    \A c \in Calls :
        rows[c] + Cardinality(Ending(c)) + (IF active[c] = "unknown" THEN 0 ELSE 1) <= invites[c]

\* The requests the rules have judged.
Analysed == {r \in Requests : request[r].method = "rules"}

\* Callers that all call within the window, once each, and are all analysed:
\* when they are as many as rule 1 asks for and all the answers are there, one
\* of the answers says masking, in whatever order the requests counted and
\* read (routes.py:67-84).
BurstIsFlagged ==
    ( /\ undisturbed
      /\ answered = NoKey
      /\ Cardinality(Analysed) = total.n
      /\ Cardinality(callers.members) = total.n
      /\ total.n >= DistinctA )
    => \E r \in Analysed : request[r].verdict = "masking"

============================================================================
