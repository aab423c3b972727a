------------------------------ MODULE Sentinel ------------------------------
(***************************************************************************)
(* services/sip-processor/app/sentinel: uploads of call records (parser,   *)
(* database, routes), the detection of callers with many short calls       *)
(* (detector), and the alerts it creates and broadcasts (AlertStream).     *)
(*                                                                         *)
(* Each query is an await, on a connection of its own; inserts of a batch  *)
(* are one transaction. call_records has no unique constraint, so ON       *)
(* CONFLICT DO NOTHING never applies.                                      *)
(***************************************************************************)
EXTENDS AlertStream, Sequences, SequencesExt

CONSTANTS
    Records,        \* keys (caller, callee, timestamp) of call records
    Caller, Callee, \* Records -> phone numbers
    Duration,       \* Records -> seconds
    BadRow,         \* a row that is no call record
    Files,          \* bound: the CSV files that are uploaded, as sequences of rows
    Uploads,        \* bound: POST /ingest requests
    Detectors,      \* bound: POST /detect/sdhf requests
    EventRecords,   \* bound: the records of POST /events/call, each sent once
    MaxAged,        \* bound: records that leave the time window
    BatchSize,      \* insert_call_records: 1000
    MinDestinations, MaxAverage,    \* the thresholds of rule SDHF_001
    Critical, High, Raised          \* those of _calculate_severity: [many, average]

ASSUME SentinelAssumption ==
    /\ Duration \in [Records -> Nat]
    /\ BadRow \notin Records /\ Files \subseteq Seq(Records \cup {BadRow})
    /\ EventRecords \subseteq Records
    /\ BatchSize \in Nat \ {0}
    /\ MinDestinations \in Nat /\ MaxAverage \in Nat
    /\ Detectors \subseteq Loops \ {Heart}
    /\ {Critical, High, Raised} \subseteq [many : Nat, average : Nat]

VARIABLES
    rows,       \* call_records: how many rows a record has
    recent,     \* the records inside the time window of the detection
    upload,     \* upload -> [at, file, next, fresh]
    detector,   \* detector -> [at, pending, due, created]
    alerts,     \* sentinel_fraud_alerts, in the order of their ids
    events,     \* history: records received one by one
    overlapped  \* history: two uploads ran at once

tables == <<rows, recent, events, overlapped>>
vars == <<stream, tables, upload, detector, alerts>>

Stored == {r \in Records : rows[r] > 0}
Insert(batch) == rows' = [r \in Records |-> rows[r] + Cardinality({i \in DOMAIN batch : batch[i] = r})]

---------------------------------------------------------------------------
(* POST /ingest.                                                           *)

\* CDRParser.parse_csv: a row with a number, a date or a duration that is not
\* valid is noted as an error and passed over.
Parsed(file) ==
    FoldLeft(LAMBDA records, row : IF row = BadRow THEN records ELSE Append(records, row),
             <<>>, file)

\* Mutant: a file is taken as it is.
Verbatim(file) == file

\* CDRParser.deduplicate.
Deduplicated(file) ==
    FoldLeft(LAMBDA unique, r : IF Contains(unique, r) THEN unique ELSE Append(unique, r),
             <<>>, file)

NewUpload == [at |-> "new", file |-> <<>>, next |-> 1, fresh |-> <<>>]
InProgress(u) == upload[u].at \in {"check", "insert"}

\* ingest_cdr up to its first query. A file whose every row is bad is refused; one
\* that has no row goes through.
ReadFile(u, file) ==
    LET records == Deduplicated(Parsed(file))
        first   == IF records # <<>> THEN "check" ELSE IF file = <<>> THEN "insert" ELSE "failed"
    IN  /\ upload[u].at = "new"
        /\ upload' = [upload EXCEPT ![u] = [NewUpload EXCEPT !.at = first, !.file = records]]
        /\ overlapped' = (overlapped \/ (records # <<>> /\ \E v \in Uploads : InProgress(v)))
        /\ UNCHANGED <<stream, rows, recent, events, detector, alerts>>

\* What check_duplicates keeps of the record it looks up.
Kept(r) == IF rows[r] = 0 THEN <<r>> ELSE <<>>

\* check_duplicates: one query per record.
CheckDuplicate(u) ==
    LET file == upload[u].file
        k    == upload[u].next
    IN  /\ upload[u].at = "check"
        /\ upload' = [upload EXCEPT
               ![u].fresh = @ \o Kept(file[k]),
               ![u].next = k + 1,
               ![u].at = IF k = Len(file) THEN "insert" ELSE "check"]
        /\ UNCHANGED <<stream, tables, detector, alerts>>

Smaller(m, n) == IF m < n THEN m ELSE n
Batch(records) == SubSeq(records, 1, Smaller(BatchSize, Len(records)))
Others(records) == SubSeq(records, BatchSize + 1, Len(records))

\* insert_call_records: one transaction per batch.
InsertBatch(u) ==
    LET fresh == upload[u].fresh
    IN  /\ upload[u].at = "insert" /\ fresh # <<>>
        /\ Insert(Batch(fresh))
        /\ upload' = [upload EXCEPT ![u].fresh = Others(fresh)]
        /\ UNCHANGED <<stream, recent, events, overlapped, detector, alerts>>

Answer(u) ==
    /\ upload[u].at = "insert" /\ upload[u].fresh = <<>>
    /\ upload' = [upload EXCEPT ![u].at = "done"]
    /\ UNCHANGED <<stream, tables, detector, alerts>>

\* A query fails, or the service goes down: 500, what is committed stays.
UploadFails(u) ==
    /\ InProgress(u)
    /\ upload' = [upload EXCEPT ![u] = [NewUpload EXCEPT !.at = "failed"]]
    /\ UNCHANGED <<stream, tables, detector, alerts>>

\* POST /events/call: no look at what is there. (Its score reads, and changes nothing.)
ReceiveEvent(r) ==
    /\ r \in EventRecords \ events
    /\ Insert(<<r>>)
    /\ events' = events \cup {r}
    /\ UNCHANGED <<stream, recent, overlapped, upload, detector, alerts>>

\* The window moves past a record.
Age(r) ==
    /\ r \in recent /\ Cardinality(Records \ recent) < MaxAged
    /\ recent' = recent \ {r}
    /\ UNCHANGED <<stream, rows, events, overlapped, upload, detector, alerts>>

---------------------------------------------------------------------------
(* POST /detect/sdhf.                                                      *)

RecentOf(s, records) == {r \in records \cap recent : Caller[r] = s}
Destinations(s, records) == {Callee[r] : r \in RecentOf(s, records)}

CallCount(s) == MapThenSumSet(LAMBDA r : rows[r], RecentOf(s, Stored))
TotalDuration(s) == MapThenSumSet(LAMBDA r : rows[r] * Duration[r], RecentOf(s, Stored))

\* Mutant: the threshold is off by one.
ManyMoreDestinations(n) == n > MinDestinations + 1

\* HAVING COUNT(DISTINCT callee_number) > $2 AND AVG(duration_seconds) < $3.
ManyDestinations(n) == n > MinDestinations
ShortCalls(s) == TotalDuration(s) < MaxAverage * CallCount(s)

\* _calculate_severity, whose last two grades are not the documented ones. (The
\* query rounds the average to hundredths.)
AtMost(s, average) == TotalDuration(s) <= average * CallCount(s)
Severity(s, destinations) ==
    CASE destinations >= Critical.many /\ AtMost(s, Critical.average) -> "CRITICAL"
      [] destinations >= High.many /\ AtMost(s, High.average)         -> "HIGH"
      [] destinations >= Raised.many \/ AtMost(s, Raised.average)     -> "HIGH"
      [] OTHER                                                        -> "MEDIUM"

\* A row of the query, and what is made of it.
Detection(s, destinations) ==
    [suspect |-> s, destinations |-> destinations, severity |-> Severity(s, destinations)]

\* Mutant: COUNT(callee_number), the calls instead of the numbers called.
DetectionsByCalls ==
    {Detection(s, CallCount(s)) :
        s \in {c \in {Caller[r] : r \in Stored \cap recent} :
                   ManyDestinations(CallCount(c)) /\ ShortCalls(c)}}

Detections ==
    {Detection(s, Cardinality(Destinations(s, Stored))) :
        s \in {c \in {Caller[r] : r \in Stored \cap recent} :
                   ManyDestinations(Cardinality(Destinations(c, Stored))) /\ ShortCalls(c)}}

\* History: whom the uploads answered so far put over the threshold, with no
\* stored call of theirs that is long.
Answered == UNION {ToSet(upload[u].file) : u \in {v \in Uploads : upload[v].at = "done"}}
Due == {s \in {Caller[r] : r \in Answered} :
           /\ Cardinality(Destinations(s, Answered)) > MinDestinations
           /\ \A r \in Stored : Caller[r] = s => Duration[r] < MaxAverage}

NewDetection == [at |-> "new", pending |-> {}, due |-> {}, created |-> {}]

\* detect_sdhf_patterns: one query.
Detect(d) ==
    /\ detector[d].at = "new"
    /\ detector' = [detector EXCEPT ![d] =
           [NewDetection EXCEPT !.at = "alert", !.pending = Detections, !.due = Due]]
    /\ UNCHANGED <<stream, tables, upload, alerts>>

\* ORDER BY unique_destinations DESC.
Foremost(pending) == {p \in pending : \A q \in pending : q.destinations <= p.destinations}

Waits(d) == detector[d].at = "alert" /\ loop[d].at = "idle"

\* Mutant: the broadcast begins before the INSERT, which is then lost.
CreateAlertUnsaved(d, p) ==
    /\ Waits(d) /\ p \in Foremost(detector[d].pending)
    /\ detector' = [detector EXCEPT ![d].pending = @ \ {p}, ![d].created = @ \cup {p.suspect}]
    /\ Begin(d, Len(alerts) + 1)
    /\ UNCHANGED <<alerts, client, active, missed, tables, upload>>

\* The row of an alert: the column reviewed defaults to FALSE.
AlertRow(p) == [detection |-> p, reviewed |-> FALSE]

\* _create_alert: the INSERT has committed when the broadcast begins, and the
\* detection goes on when it has ended or broken.
CreateAlert(d, p) ==
    /\ Waits(d) /\ p \in Foremost(detector[d].pending)
    /\ alerts' = Append(alerts, AlertRow(p))
    /\ detector' = [detector EXCEPT ![d].pending = @ \ {p}, ![d].created = @ \cup {p.suspect}]
    /\ Begin(d, Len(alerts) + 1)
    /\ UNCHANGED <<client, active, missed, tables, upload>>

AnswerDetection(d) ==
    /\ Waits(d) /\ detector[d].pending = {}
    /\ detector' = [detector EXCEPT ![d].at = "done"]
    /\ UNCHANGED <<stream, tables, upload, alerts>>

\* The INSERT fails: 500, the alerts created before it stay.
DetectionFails(d) ==
    /\ Waits(d)
    /\ detector' = [detector EXCEPT ![d] = [NewDetection EXCEPT !.at = "failed"]]
    /\ UNCHANGED <<stream, tables, upload, alerts>>

\* PATCH /alerts/{alert_id}: the last write stays; 404 where there is none.
UpdateAlert(i, reviewed) ==
    /\ i \in DOMAIN alerts
    /\ alerts' = [alerts EXCEPT ![i].reviewed = reviewed]
    /\ UNCHANGED <<stream, tables, upload, detector>>

---------------------------------------------------------------------------

Init ==
    /\ InitStream
    /\ rows = [r \in Records |-> 0]
    /\ recent = Records
    /\ events = {} /\ overlapped = FALSE
    /\ upload = [u \in Uploads |-> NewUpload]
    /\ detector = [d \in Detectors |-> NewDetection]
    /\ alerts = <<>>

UploadStep(u) ==
    \/ \E file \in Files : ReadFile(u, file)
    \/ CheckDuplicate(u) \/ InsertBatch(u) \/ Answer(u) \/ UploadFails(u)

DetectionStep(d) ==
    \/ Detect(d)
    \/ \E p \in detector[d].pending : CreateAlert(d, p)
    \/ AnswerDetection(d) \/ DetectionFails(d)

Next ==
    \/ StreamStep /\ UNCHANGED <<tables, upload, detector, alerts>>
    \/ \E u \in Uploads : UploadStep(u)
    \/ \E d \in Detectors : DetectionStep(d)
    \/ \E r \in Records : ReceiveEvent(r) \/ Age(r)
    \/ \E i \in DOMAIN alerts, reviewed \in BOOLEAN : UpdateAlert(i, reviewed)

Spec == Init /\ [][Next]_vars

---------------------------------------------------------------------------
(* Properties.                                                             *)

Messages == 1..Len(alerts) \cup {Heartbeat}
LoopState == [at : {"idle", "send", "dead"}, message : Messages \cup {NoMessage},
              to : Clients \cup {NoClient}, size : {Cardinality(s) : s \in SUBSET Clients},
              unheard : SUBSET Clients, failed : SUBSET Clients, disturbed : BOOLEAN]

\* The variables hold values of their types; what a loop sends is a stored
\* alert or a heartbeat: no client hears of an alert before its INSERT has
\* committed (detector.py:186-205).
TypeOK ==
    /\ client \in [Clients -> {"new", "open", "gone", "closed"}]
    /\ active \subseteq Clients
    /\ loop \in [Loops -> LoopState]
    /\ missed \in SUBSET [message : 1..Len(alerts), client : Clients, disturbed : BOOLEAN]
    /\ rows \in [Records -> Nat]
    /\ recent \subseteq Records /\ events \subseteq Records /\ overlapped \in BOOLEAN
    /\ \A u \in Uploads :
          /\ upload[u].at \in {"new", "check", "insert", "done", "failed"}
          /\ upload[u].file \in Seq(Records) /\ upload[u].fresh \in Seq(Records)
    /\ \A d \in Detectors : detector[d].at \in {"new", "alert", "done", "failed"}
    /\ alerts \in Seq([detection : [suspect : {Caller[r] : r \in Records}, destinations : Nat,
                                   severity : {"MEDIUM", "HIGH", "CRITICAL"}],
                      reviewed : BOOLEAN])

\* Uploads that do not overlap store no record twice, also when one of them
\* failed half way and the file is sent again, and also when the file names
\* the record twice (routes.py:83-91). Records that came one by one are not
\* looked up and are exempt.
UploadsAreIdempotent ==
    ~overlapped => \A r \in Records \ events : rows[r] <= 1

\* An alert stays backed by the call records: its suspect has called at least
\* as many numbers as it says (detector.py:38-63).
AlertHasEvidence ==
    \A i \in DOMAIN alerts :
        LET d == alerts[i].detection
        IN  /\ d.destinations > MinDestinations
            /\ Cardinality({Callee[r] : r \in {q \in Stored : Caller[q] = d.suspect}})
                  >= d.destinations

\* A detection that was answered has created an alert for every caller whom
\* uploads answered before it put over the threshold, whatever became of the
\* broadcasts (detector.py:75-133, 202-221).
DetectionIsComplete ==
    \A d \in Detectors : detector[d].at = "done" => detector[d].due \subseteq detector[d].created

\* A broadcast during which nobody connects, disconnects or is removed reaches
\* every client that is there, although sends to others fail; whom a broadcast
\* passes over, whether it ended or broke, was passed over because the set was
\* changed under its walk, if only by a client that came and left
\* (websocket.py:52-59).
QuietBroadcastReachesAll == \A m \in missed : m.disturbed

============================================================================
