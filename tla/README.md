# VoxGuard: a formal model

VoxGuard detects call masking (many distinct calling numbers converging on one
called number within seconds) and runs the services around that: alerts, archival,
regulator reports, machine learning, dashboards. This directory models them in TLA+,
model-checks small instances with TLC, and proves with TLAPS their safety properties, that
the detection engine keeps the ledger its tables are read as, and that the archival
service implements its promise.

## 1. Inventory

The program's own logic lives in `services/` (Python, Rust, Go) and `integration/` (Go).
Front ends (`packages/`), schemas, infrastructure and documents have no protocol of
their own.

| Component | State | Operations | Talks to | Hard behaviour | Modules |
|---|---|---|---|---|---|
| **detection-engine**, Rust, async | DragonflyDB keys `window:{b}`, `cooldown:{b}`; YugabyteDB rows `calls`, `fraud_alerts` | `register_call`, `create_alert`, `cleanup_old_calls` | voice switch, both stores | handlers interleave at every await; TTLs expire between them; nothing is a transaction | `DetectionEngine`, `EvidenceLedger` |
| **voice-switch circuit breaker**, asyncio | `_state`, three counters, failure time | `call`, `reset` | any protected coroutine | a call ends in another state than the one that admitted it | `CircuitBreaker` |
| **data-archival**, threads | hot tables, S3 data and metadata objects, one DB connection | `archive_table`, `restore_archive`, `delete_expired_archives` | PostgreSQL, S3 | one transaction shared by threads; two objects per archive; failures anywhere | `DataArchival`, `RecordRetention` |
| **ncc-integration**, asyncio | local files, remote files, token | daily report | SFTP, ATRS API, database | retries of a POST, token expiry, crash between steps, manual trigger beside cron | `NccCompliance` |
| **ml-pipeline registry and A/B** | index file, model directories | register, promote, archive, delete; rollout | file system | crash between the files of a promotion; whole-file writes from private copies | `ModelRegistry`, `ModelRollout` |
| **ml-pipeline server and retraining** | models in memory, batch queue; runs | predict, batch, retrain | registry, data stores | one coroutine answers everybody; stale champion | `ModelServing`, `Retraining` |
| **sip-processor CDR and /analyze** | active calls, Redis counters with TTLs, one DB session | INVITE, 200, BYE, failure; analyze; reset | Redis, PostgreSQL | retransmissions, records read before an await, counters that expire apart | `SipProcessor` |
| **sip-processor sentinel** | `call_records`, alerts, WebSocket clients | upload, event, detection, review, broadcast | PostgreSQL, clients | batches half inserted, detection over old query, live set walked across awaits | `Sentinel`, `AlertStream` |
| **sip-processor signaling** | `asyncio.Queue` shared with a thread | sniff, take, start, stop | scapy, `on_sip_event` | queue not made for threads, time limit against wake-up | `SignalingListener` |
| detection-engine HTTP shell, alert lifecycle | | `/event`; acknowledge, resolve | | | section 7 |
| management-api (Go), fraud handler (Go) | users, gateways, alerts; event buffer | | PostgreSQL, Vault, switch | counters and locks in separate statements; find, mutate, save | section 7 |

`PROJECT.json` lists the components with what is modelled of each, and under `hazards`
the places, by line, where this code is hard to test, with the properties about them.

How they interact: the switch posts calls to the engine and the sip-processor, which
count callers per called number, store rows and raise alerts; archival moves old rows
out of the same database; the NCC job reports from it; the ML pipeline trains on it and
serves models through the registry. Apart from the registry, which connects rollout,
server and operators (and is the shared module `ModelRegistry`), the services share
tables, not protocols, so each is a specification of its own.

## 2. What is modelled

One action is the code between two points where others can come in: awaits for
coroutines, driver or store calls for threads, file writes for processes. Scores,
wording, logging and metrics are left out unless something is decided on them.
History variables (marked so in the modules) never guard an action.

### DetectionEngine, EvidenceLedger

One handler is one `register_call` in flight; its `pc` names the await it stands at.

| action | code |
|---|---|
| `Receive` | parsing, blacklist check passed, `Call::new` (detection_service.rs:79-102) |
| `AddCaller`, `ExpireWindow` | the pipeline SADD; EXPIRE of `add_caller_to_window`. No MULTI: two steps |
| `CountCallers`, `SaveCall` | SCARD; the INSERT of the call, then the threshold decision |
| `CheckCooldown` | EXISTS; returns, or `create_alert` starts and reads the clock |
| `GetCallers`, `FindCalls` | SMEMBERS; the SELECT of unflagged calls in the window |
| `SaveAlert`, `FlagAsFraud`, `SetCooldown` | INSERT; UPDATE; SETEX and the return |
| `Fail` | the `?` of any await, or the process dying: the write in progress may or may not have been applied |
| `Tick`, `CleanupOldCalls` | time and TTL expiry; DELETE of old unflagged rows, for any date |

Numbers and ids are model values; an unparsable command or a blacklisted source returns
with nothing changed and is no step. An alert's id is that of the call whose handler
raised it. `lost`, a history variable, holds the B-numbers of which a handler failed;
`NoMissedAttack`, `WindowsExpire`, `NoAlertSpam` and `SlidingWindow` except them, the
other properties hold through failures. The clocks of the service and of the store are
taken to agree and never to step back. `CleanupOldCalls` has no caller besides the port
that declares it.

`EvidenceLedger` is what an investigator who reads the tables may rely on: a received call
gets its row once or never; it raises at most one alert, after its row was written, founded
on calls that were made; an alert claims the rows it lists at one moment or never; a claimed
row stays. Handlers, windows and cooldowns are not in it. `DetectionEngine` implements it
(`KeepsTheLedger`), through failures: `RowOf` says whether a row is due, stored or gone, and
an alert is yet to claim its rows while its handler stands before the UPDATE. The ledger
lets alerts come a moment apart; a detector that raises one per cooldown would be a
stronger promise, which `alert_spam` refutes.

`InTurnSpec` restricts the engine: per B-number one handler at a time is past its cooldown
check and before the write of the cooldown. The code has no such lock; the restriction says
what one would buy (`NoAlertSpam`).

### CircuitBreaker

Nothing that is awaited while the lock is held suspends, so `call()` is two atomic
segments around `await func(...)`: `Admit`, and one of `Succeed`, `FailExpected`,
`Abandon` (an unexpected exception or a cancellation: only `finally` runs). The methods
are functions of the record `breaker` in the code's order. `sinceFailure` is the age of
`_last_failure_time`, saturated at `Timeout`; `probes` is a history variable; `up` is
the environment. `_half_open_calls` may go below zero, as in the code. `late`,
another history variable, counts the calls that ended in the present half-open period
without having been admitted by it.

### DataArchival, RecordRetention

`worker` are the threads inside `archive_table` and `restore_archive` (the monthly job, a
manual archival, a restoration), `cleaner` the daily cleanup. `tx`, `ins`, `del` are the ONE
transaction of the connection all threads share: a statement sees what others have executed,
a commit commits it, and a failed statement aborts it for everybody, since no path rolls
back. `data` and `meta` are the two objects of an archive. Each call of the driver or the
store may fail before or after its effect; `LoseConnection` and `Restart` come at any time.
`WriteRecord` dates a row anywhere in the past, since the date column is the data's (a
call's start), and `ManualCutoffs` may lie in the future, so a row can become old between a
thread's SELECT and its DELETE. `swept`, a history variable, holds the rows that a DELETE
removed, or is about to, without its SELECT having returned them: rows beyond the LIMIT, and
rows written or dated since. `Packed`/`Unpacked` stand for serialisation and compression,
which carry the records and nothing else; statistics and integrity queries only read.

`RecordRetention` is what the service promises: a record is unborn, in its table, kept (in a
complete archive), or gone. It goes only after its retention period or swept away, and
comes back only from the hands of a thread, or of the open transaction, that took it while
it was there, as when the cleanup overtakes a restoration. `DataArchival` implements it
(`KeepsItsPromise`) under the mapping `Place`; a record that only a thread's memory holds
is gone, and in `hands`.

### NccCompliance

One `job` is one daily report: four queries, four local files whose names only depend on the
date, SFTP (temporary name, put, size check, rename), then the ATRS request with its token,
its 401 and error retries. Jobs are coroutines of one event loop; paramiko and the file
writes are synchronous, so only a crash comes between their steps. ATRS takes a report and
may still answer with an error. `Stall` is a call that never returns: asyncpg's fetch and
close have no time limit, and the job hangs; paramiko has one for the TCP connection alone,
and the job blocks the event loop with every other job. `version` counts the changes of the
database, so that two queries differ; `received` counts what ATRS took of a job;
`overlapped` is a history variable, the dates two jobs worked on at once.

### ModelRegistry, ModelRollout

A `session` is a process with a `ModelRegistry`: it reads the index once and from then on
saves its own copy, whole. Each file written is a step, and a process may die at each,
leaving the index cut off (`torn`): `open(..., "w")` truncates first. The read and the
write of one metadata file are one step: sessions at work at the same time set `conflict`, and
no property speaks about them. `ModelRollout` adds operators and the deployment manager,
whose rollout shifts traffic in steps (`Shares`), evaluates what it has collected
(`Observations` is external data) and promotes. It calls methods its collaborators do not
have; the model takes the path the code then takes (an exception, caught, `False`, ignored).

### ModelServing, Retraining

`server` is `ModelInferenceServer` from start to stop: champion and challenger read once
from the registry, the queue of requests that wait and the batch its one coroutine has
taken. Requests may be cancelled or malformed (a malformed one ends the coroutine). Which
code puts requests into the queue is external. `Line`, of which `NoRequestForgotten` speaks, is
the batch followed by the queue. `Retraining` follows `run_retraining` as far
as it gets: connect, extract, join, clean, balance, check the number of samples, and the
call of `train` that always raises. `Target` is `int(n * 0.3 / 0.7)` computed as
`3n \div 7`; the two agree for n < 2000.

### SipProcessor

The Redis counters of one called number, each with what is left of its own TTL; `task` are
the coroutines inside `CDRProcessor` (each await a step, a pipeline one MULTI); `request`
are `/analyze` requests, which count, read seven keys one await after another, and judge
by the five rules or by the XGBoost model, which may answer anything. One PostgreSQL session
executes one statement at a time and refuses after a failure. `Verdict` keeps the rules'
weights and the threshold. `WindowTtl <= CountersTtl` is assumed (5 s and the
`cdr_window_seconds` of the configuration). The engine may switch between model and rules
between any two requests (`/model/reload`).

### Sentinel, AlertStream

`AlertStream` is `websocket.py`: `active_connections`, the clients, and the loops that walk
the live set and await a send for each member. CPython's iterator raises when the size has
changed between two steps. When the set was changed and has its old size again, if only by a
client that came and left during one awaited send, the hash table may have been rebuilt:
from then on (`disturbed`) the walk may visit anybody, again or not at all. `disturbed` and
`unheard` stand for the iterator's place in the table. `Sentinel` adds uploads (parse, look
up what is stored, insert in batches, each a transaction), single events, the SDHF detection
(one query, then for each finding an INSERT and a broadcast) and reviews. Records leave the
time window (`Age`).

### SignalingListener

Each `start()` adds a sniffer, which is a thread (`Capture`), and a consumer
(`ComeRound`, `Get`, `Register`, `CallbackEnds`), whose `wait_for` has a time limit
(`TimeOut`). The look at the empty queue (`Get`) and the registration of a getter
(`Register`) are separate steps, because a thread can come between. `put_nowait` is four
steps of its thread: is there room (`PacketCallback`), the put (`Put`), the first getter
leaves the line (`TakeGetter`) and is woken (`SetResult`). Two sniffers can find the same room;
a getter can be cancelled before it is woken, and then the thread passes it over or raises
(the error is logged). `Stop` stops the last sniffer only, and raises, leaving `_sniffer`
set, when its thread is not up yet or, possibly, has died.
Queue and `wait_for` follow the asyncio of Python 3.11. A packet is
only its kind; `Method` is what `parser.py` makes of it, a response being parsed as INVITE.
`on_sip_event` is external and returns in the end. `start` and `stop` come in any order.

## 3. Runs

| Run | Instance | Shows |
|---|---|---|
| `detection` | 2 handlers, 3 calls, 2 callers, 1 B-number, threshold, window and cooldown 2, clock 0..2; 2.04 M states | no attack missed, no unfounded alert, sound evidence; `EvidenceLedger` implemented |
| `alert_spam` | the same, window 1 | violation of `NoAlertSpam` |
| `sliding_window` | 1 handler, 4 calls, 3 callers, threshold 3, clock 0..3 | violation of `SlidingWindow` |
| `breaker` | 4 calls, all thresholds 2 | bounded counters, fail-fast, slots that are the probes in flight but for late calls, recovery |
| `breaker_probes` | 3 calls, failure threshold 1, one probe | violation of `ProbesBounded` |
| `archival` | 2 records of 1 table, 1 archive id, 2 threads, chunk 1, a manual cutoff of 2, retention 1, clock 0..2; 0.43 M states | no record lost but those swept away, `RecordRetention` implemented, expired archives deleted |
| `ncc` | 2 jobs, 2 dates, 1 retry, 1 change of the database | what is reported is on the server, one reporter, every job ends, hangs or is blocked |
| `ml` | 2 models, 1 operator process at a time, the manager, shares 5/10/20/50; 1.85 M states | champion servable after any crash, readers see one champion, promotion by verdict only |
| `serving` | 2 models, 1 operator process, 2 requests, batches of 2, 5 feature vectors (4 valid), times 0..2, 3 samples needed; 1.29 M states | nobody who waits is forgotten, and each is answered; failed retraining runs leave nothing behind |
| `sip` | 2 callers, 1 Call-ID, 2 coroutines, 2 requests, TTLs 2 and 3, thresholds 2/1/2 | callers counted, calls logged once, a burst is flagged |
| `sentinel` | 2 uploads of 3 files over 3 records, 1 event, 1 detection, 2 clients and the heartbeat | idempotent uploads, complete and backed detection, nobody passed over by a broadcast while the set is unchanged |
| `listener` | 3 packets, room for 1, 2 calls of `start`; 0.30 M states | no event lost, doubled or swapped; one consumer and the queue within its capacity after orderly restarts; progress |

Bounds, and why they are enough.

* Keys, rows and files are per called number, record, date or model: one of them, with
  two actors on it, has all the interference there is. A second date (`ncc`) and a second
  model (`ml`, `serving`) are there because jobs and promotions relate two of them; the
  proofs of `DetectionEngine` cover any number of numbers and calls.
* Two handlers, threads, coroutines or requests let every pair of steps interleave; a
  third call (`detection`) comes before, between or after; four calls (`breaker`) are two
  more than there are slots.
* Clocks run past the end of every TTL and retention that starts at 0, and one further
  so that something happens after it.
* Thresholds are as small as the number of actors: `DistinctA`, `MismatchA`, `LowAsrA`
  stand for 5, 3 and 4; their order is kept where rules depend on it.
* `archival` has two records and chunks of one, so LIMIT does cut queries off, rows of any
  past date arrive between SELECT and DELETE, and the manual cutoff of 2 lies in the future
  at first. One archive id means that a second archival waits for the cleanup of the first, and
  that the listing's limit never hides an archive; two ids do not fit in the time of a run.
  The theorems cover any number of both.
* `sentinel` has two clients: a client that comes and leaves during one send disturbs a
  walk to the other. That the skipped member stays connected all the while, with a third
  client coming and leaving, does not fit in the time of a run; the theorem covers it.
* `listener` has two sniffers on the room of one event: the smallest queue that two threads
  can overfill.
* `MaxTime`, `CallIds`, `MaxVersion`, `MaxInvites`, `MaxAnswers`, `MaxAged`, `MaxStarts`
  and the sets marked "bound" in the modules only bound the search.

Symmetry is used in `detection`, `sip` and `sentinel`, which check no liveness.
`CHECK_DEADLOCK FALSE` where the bound uses everything up and nothing is left to do.

### Properties

* `detection`: `NoMissedAttack`, `AlertJustified`, `SuppressedOnlyAfterAlert`,
  `EvidenceIntegrity`, `WindowsExpire`; the action property `LateAlertIsRace` (the only
  way to a second alert during a cooldown is the race of `alert_spam`); `KeepsTheLedger`
  (the refinement; `EvidenceRetained`, proved too, is a consequence of it).
* `breaker`: `CountersInBounds`, `OpenCanRecover`, `SlotsAccounted` (what the half-open slots
  count; `NoLockout` and `ExcessIsLate`, what is left of the limit that `breaker_probes`
  refutes, follow from it), `FailFast`, `Recovery`.
* `archival`: `NoRecordLost` (a record whose retention is not over is in its table or in a
  complete archive, unless it was swept away), `KeepsItsPromise` (the
  refinement), `ExpiredAreDeleted` (liveness).
* `ncc`: `ReportMatchesFiles` (what ATRS took is on the server whole, and, unless two jobs
  of the date overlapped, with the checksum it took), `OneReporter`, `EveryJobEnds` (unless
  it hangs in a call without a time limit or stands behind a job that does).
* `ml`: `ChampionServable`, `OneChampion`, `PromotedByVerdict`.
* `serving`: `NoRequestForgotten` (who waits stands in the queue or in the batch, once, as long
  as the batch processor lives), `QueuedIsAnswered`; `TypeOKServing` says with
  `TypeOKRetraining` that a run that failed does not keep later ones out.
* `sip`: `CallersAreCounted`, `CallLoggedOnce`, `BurstIsFlagged` (of the requests of one
  attack at least one sees all of it, in whatever order they count and read).
* `sentinel`: `UploadsAreIdempotent`, `AlertHasEvidence`, `DetectionIsComplete`,
  `QuietBroadcastReachesAll` (whom a broadcast passes over, it passed over because the set
  was changed during its walk, not because a send failed).
* `listener`: `NoEventVanishes`, `OneConsumer` (with the queue's capacity, after orderly
  restarts), `QueuedIsTaken`; `TypeOK` says how far two sniffers overfill the queue, and that no
  two threads wake one getter.

Each property has a mutant in `PROJECT.json`, a plausible bug of the code it is about,
under which TLC finds it violated.

### Fairness

* `breaker`: time passes; traffic goes on (the breaker leaves the open state only when a
  call arrives); a call in progress ends, by the callers' time-outs. `Recovery` itself
  assumes that the service stays up from some time on.
* `archival` (`CleanupFairness`): the scheduler starts the cleanup each day, and no call to
  the store fails every time (strong fairness of the calls, weak of the steps that cannot
  be interrupted). Nothing is assumed of the threads that use the database.
* `ncc`: a job that can step does (`WF(JobStep)`): the event loop runs it. That a call returns is
  not assumed where nothing bounds it: asyncpg's fetch and close and everything of
  paramiko but the TCP connection may `Stall` instead. ATRS requests end by the session's
  `ClientTimeout(total=...)`, asyncpg's connect by its default of 60 seconds.
* `listener`: consumers run and time limits fire; the sniffer and `start`/`stop` are not fair.
* `serving`: the batch processor runs (`WF(BatchStep)`); nothing else is fair.

## 4. Findings

Shown by a run that TLC refutes:

* **Alert spam** (`alert_spam`). The cooldown check and the write that sets it are five
  awaits apart (detection_service.rs:123, 139), against "Check cooldown to prevent alert
  spam" and the integration test that expects a single alert.
* **Not a sliding window** (`sliding_window`). docs/PERFORMANCE.md:64 and
  docs/VOICE_SWITCH_INTEGRATION.md:219 promise one; dragonfly.rs:54 renews the expiry of
  the whole set.
* **Probe limit** (`breaker_probes`). circuit_breaker.py:33 says "Max concurrent calls in
  half-open state"; `finally` (289-291) also counts down for calls that took no slot.

Met while modelling, by reading; the models follow the code in each case:

* archival_service.py:157: the DELETE has no LIMIT, the query before it has; rows beyond
  one chunk are deleted unarchived, and so are rows written in between with an older date or
  under a manual cutoff in the future.
* archival_service.py:197: a restoration that the cleanup overtakes brings back records
  whose archive was deleted for good.
* sftp_uploader.py:151, atrs_client.py:207: no retry of uploads, none after a 429; a job
  that failed half way stops every later job of its date at the rename.
* sftp_uploader.py:140: put, stat and rename have no time limit and block the event loop, the
  scheduler included, when the server goes silent.
* deployment_manager.py:277, 156: methods that do not exist; the split never moves, a
  rollback does nothing. model_registry.py:90: a crash while saving leaves an index nobody
  can read.
* inference/engine.py:155, model.py:57; cdr/metrics.py:118, cdr/processor.py:120: five
  callers alone do not reach the threshold; status after a failed reload; ratio above
  100 %; durations of unanswered calls.
* sentinel/websocket.py:52, database.py:57, detector.py:162, routes.py:305, 383: broadcasts
  and the heartbeat end when a client comes or goes; no unique constraint; LOW never
  produced; aware time stamps refused; risk score constant.
* signaling/parser.py:124: responses parsed as INVITE.
* inference_server.py:230, retraining_orchestrator.py:299, 458, data_collector.py:372,
  grpc_client.py:79: a malformed request ends batching; no retraining gets past `train`;
  cron and time zone settings ignored; no undersampling; no retries.

`PROJECT.json` quotes the sentence each of them contradicts.

## 5. Proofs

All theorems hold for every value of the constants that satisfies the named assumptions;
TLC evaluates these on every run.

| Assumption | says |
|---|---|
| `EngineAssumption`, `NoCallAssumption` | what `DetectionThreshold::new`, `DetectionWindow::new` and SETEX accept; finitely many numbers; the null value is no call |
| `BreakerAssumption` | thresholds, timeout and slots positive |
| `ListenerAssumption` | a finite capture, a queue with room for at least one event |
| `NccAssumption` | `max_retries` and the bound on database changes are numbers |
| `ArchivalAssumption` | every row has a table; chunks hold at least one record; retentions are numbers, cutoffs integers |
| `SipAssumption` | the window's TTL is positive and no longer than the counters' (5 s against the configured `cdr_window_seconds`) |
| `RegistryAssumption`, `RolloutAssumption` | the manager is no operator; a list of shares between 1 and 99 |
| `SentinelAssumption`, `StreamAssumption` | durations and thresholds are numbers; batches hold at least one record; detections are coroutines other than the heartbeat |

Each proof module has one inductive invariant `IInv`, the lemmas about the model's helpers,
one lemma per action, `Invariance` (`Spec => []IInv`), and a theorem per property. TLC
checked each `IInv` as an invariant of its run's instance before it was proved.
So were the parts that `LedgerInv`, `ServingInv`, `Tally` and `Spaced` add to it.

### What is proved, and along which argument

`DetectionEngineProofs`. No property but the type invariant is inductive alone: an alert
is decided on values a handler read several awaits earlier. `IInv` therefore adds what a
handler at each step knows:

* `HandlersOK`, `RowsOK`: a handler at a step has a call of its own, saved from the cooldown
  check on; rows belong to received calls.
* `AlertStored`: from `flag` on, the alert that the handler raised is in the table. With
  it, `SuppressedOnlyAfterAlert` is inductive.
* `Justified`: the members of a window called; so a count, a caller set or an alert
  stands for at least as many callers as it says.
* `Evidence`: the calls a handler carries are about its B-number and within its window.
* `CheckedBefore`: a handler past its cooldown check either checked before the cooldown
  in force was set, or finds none. It gives `LateAlertIsRace`.
* `TTLsBounded`: no key expires later than its TTL from now.
* `AttackCovered`: if a window holds `Threshold` callers then a handler failed, or a handler
  is on its way from SADD to a cooldown, or there is an alert whose cooldown was in force
  when the set was last renewed. With no handler left this is `NoMissedAttack`. The last
  case survives every step but a renewal of the set, whose handler takes over.

The refinement (`LedgerIsKept`) needs four facts more, together `LedgerInv`: no alert
ends and no call comes later than now (`EndsPast`, `CallsPast`); a call whose handler has not
raised an alert has none, and a row is settled when its alert is raised (`RaisedOnce`); the
callers and rows a handler has collected are ones its alert may list (`Collected`). Then each
await is a step of the ledger or invisible: the INSERTs settle a row or raise an alert, the
UPDATE claims, the rest are stutters. A failure is the same step with or without its effect,
so `Fail` maps to what the await does, to a row that never comes, or to `GiveUp`.

`AlertsInTurnAreSpaced` explains the finding on alert spam: in `InTurnSpec` a handler
that passed its check is alone until it has set the cooldown, so the alert before its own
ended a cooldown ago. Like `NoAlertSpam`, it excepts B-numbers of which a handler failed.

`WindowsExpire` is inductive as it stands. Every await is first reduced to the few facts
the invariants need (what it writes, where the handler goes), then each conjunct is preserved
per action, for `Fail` too, since its writes are those of the awaits.

`CircuitBreakerProofs`. `IInv` joins the types, `CountersInBounds`, `OpenCanRecover` and
`NoLockout`: `CountersInBounds` needs `OpenCanRecover` for the early return of `CheckOpen`, and
`NoLockout` needs that `probes` contains only running calls, and counts them.
`SlotsAreAccounted` adds `Tally`: in a half-open period `_half_open_calls` is the number of
probes in flight less `late`, otherwise both are zero. With the bound on the counter this is
`ExcessIsAlwaysLate`: late calls are the whole cause of the violation in `breaker_probes`,
without them the limit holds.

`SignalingListenerProofs`. `NoEventVanishes` relates two histories and the queue and is
inductive given that they are sequences of events. `TypeOK` carries the rest. `RoomKept`: the
queue and the threads that have found room in it together stay below the capacity plus the
number of sniffers; the put adds nothing to the sum, and a thread that looks is not yet in
it. `LineIsWaiting`: the line of getters has no repetition and is exactly the consumers that
wait, so taking the first, removing a cancelled one and a new getter each need a lemma about
sequences without repetition. `CalledOnce`: a getter that a thread took out of the line is
no other thread's. `OneConsumer` is strengthened to `OneAlive`: at most one consumer is
alive and, once the listener was stopped, whoever is alive is still lingering, so an orderly
`start()` finds nobody; and to `OneSniffer`: one thread alone keeps the capacity.

`NccComplianceProofs`. `OneReporter` and `ReportMatchesFiles` speak of jobs that have
reported; what makes them true happens earlier, at the first rename. A job is the `Owner`
of its date once it has renamed a file without a failure, is submitting, or has reported.
`OneOwner`: a date has one owner, since the final names are taken and a later job's rename
fails. `UploadedOK`: an owner's files stay on the server and, unless another job was seen
at work on the date (`OverlapSeen` says that this would have been noticed), they are what it
wrote (`WrittenOK`). `PhaseOK` bounds what ATRS took by the retries, the retry after a 401
included.

`DataArchivalProofs`. `IInv` follows a record out of its table. `RecordsOK`: what is not in
its table, or what the open transaction deletes from it, is past its retention, in a complete
archive or swept away. `WorkerOK` says the same of the rows a thread has selected, from the
step on at which their metadata is written; before, they are the ones it carries. Since the
DELETE goes by the date alone, whatever else it reaches enters `swept`, and leaves it when the
transaction ends with the row still in the table (`SweptMoves`).
`Describes` and `OneDescriber`: the archive whose metadata is to come is this thread's alone
and no cleanup has it on its list. `StoreOK`: an archive's date is late enough for each of
its records; `CleanerOK`: what the cleanup deletes was over when it started.
`NothingLost` is `RecordsOK` read from the outside. `PromiseKept` is the refinement of
`RecordRetention`: initial states map to initial states, and each step of a thread, of the
cleanup, of the connection or of the clock is mapped, record by record, to a step of the
promise or to a stutter. The essential lemma is that a record that was gone comes back only
from `hands`, and that hands take records only from a table or a complete archive. Neither
theorem has a hypothesis: tables and queries may have any size, rows and cutoffs any date.

`SipProcessorProofs`. `EveryCallerCounted` needs that the set of callers never outlives the
total (`CountersOK`), although both are renewed separately: the window's TTL is the shorter one.
`LoggedOnce` is inductive over finite sets (`LogOK`), once it is known that a coroutine
between taking a record and inserting its row is the only one to have it (`TaskOK`,
`OneInsert`). `BurstFlagged` is the deep one. Every single request may read counters that
are too small; but of the requests of one burst, the one that counted last is up to date at each
of its reads (`UpToDate`), and `LastIsUpToDate` hands this role over at each count.
It assumes `DistinctA > 0` (5 in the code): with no caller asked for there may be no request.

`ModelPipelineProofs`. The registry's index is a file and private copies of it.
`SoundOK`: in every copy the champion is listed, and a process in the middle of an
operation knows its model. `NewOK`: a model whose registration is not finished is in nobody's
index; no two processes register the same one. `ServeOK`: until two processes were in each
other's way, the champion's files are there, for the index on the disk and for every copy that
is up to date; a deletion therefore cannot take them. `RanksOK` says by step of a promotion
which statuses "champion" a copy has, and that the disk differs from that only between the
last two writes. `RolloutOK`: the manager's process is busy only while it promotes, at the last
step and after a verdict; this gives the action property `PromotedByVerdict`.

The same module proves `ModelServing`, beside the same registry. Its invariant, `ServingInv`,
joins the registry's part of the one above (`RegistryOK`) with the types and `LineOK`: who
stands in the line stands there once and waits or was cancelled, who waits stands in it, and nobody
waits for a server that is down. A cancelled request stays in the line, so a request
that is made again must not be in it still; a start with requests left over would double them,
which the last part excludes.

`SentinelProofs`. Four kinds of facts meet here.

* What the folds compute. `LeastNat` (a nonempty set of numbers has a least member, from
  the library's theorem on well-founded relations) replaces induction: `FoldExists`
  and `FoldStays` take a smallest counterexample. From them: deduplicating leaves
  records in which none is twice, parsing leaves records, and calls that are each shorter than the
  threshold are so on average (`ShortOnAverage`).
* `UploadsOK`, `InTurn`: what an upload has looked up is stored or among the rows it is going to
  insert, and has no repetition; without overlaps, one upload at a time has rows to
  insert, and none of them is there. This is `UploadsAreIdempotent` at every batch.
* `DetectorsOK`, `AlertsOK`: a finding is backed by stored calls from the query on, and calls
  are never deleted; whoever is due has an alert or is among the findings that wait.
  `DueDetected` shows that the query finds everybody who is due.
* `StreamOK`, `WalksKept`, `PassedOverDisturbed`: any change of the set marks every walk under
  way; the size that an unmarked walk keeps is that of the set, so it cannot break, and it ends
  only when nobody is left unheard.

### What stays with TLC

* Liveness: `Recovery`, `ExpiredAreDeleted`, `EveryJobEnds`, `QueuedIsTaken`,
  `QueuedIsAnswered`. Fairness and ENABLED are beyond the installed provers.
* The violations of section 4: they are TLC's traces. That a property does not hold in
  general is not proved; for `NoAlertSpam` and `ProbesBounded` theorems say under which
  condition it does. No run has the specification `InTurnSpec`; TLC was used on the
  instance of `alert_spam` (612 480 states) before the proof.

No module here declares a RECURSIVE operator; what recursive functions of the library compute is
proved where it is needed (above), by first-order means.

## 6. Plan

Every safety and action property of a passing run is stated by a theorem. What is left is the
Go services: the alert and gateway lifecycles of management-api against an atomic one, its
login counters, and the event buffer of the fraud handler. Their hazards are in
`PROJECT.json` without a property.

## 7. Not modelled, and why

* detection-engine: `/event` (the first two steps of `register_call` without the rest; a
  stopgap by its own comment), blacklist keys, scores, the time-series store, the repository
  methods nobody calls, and `alert_service.rs`, which has no caller.
* sip-processor: the risk score and the listings of the sentinel (read only); ALOC and the
  counts that only reach a response; the domain layer, the gRPC client and the sentinel's
  cache and mock data, which have no caller; the XGBoost file.
* ml-pipeline: everything of the orchestrator behind `train` (unreachable), `GradualRollout`
  (no caller), the evaluator and the configuration (arithmetic on prediction arrays).
* ncc-integration: `submit_incident`, `get_incident`, `submit_monthly_report` (no caller),
  the weekly and monthly jobs (stubs that log).
* health checks of the voice switch: three stateless probes, combined.
* Go: management-api (authentication, roles, audit, gateways, alerts) and the fraud handler.
  They are separate programs that share no state with the services above beyond finished
  rows; their hazards are listed without a property.
* `packages/` (TypeScript and mobile front ends), schemas, Hasura metadata, infrastructure,
  monitoring, the agent and growth scripts: presentation, declarations and one-shot tools.

## Running

    tlc -workers 2 -config MCDetectionEngine.cfg MCDetectionEngine.tla
    tlapm DetectionEngineProofs.tla

and so on: a passing run's `.cfg` has the name of its MC module; the three violations are
`DetectionAlertSpam.cfg`, `DetectionSlidingWindow.cfg` and `BreakerProbes.cfg`.
