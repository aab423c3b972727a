---------------------------- MODULE NccCompliance ----------------------------
(***************************************************************************)
(* services/ncc-integration: the daily compliance report.                  *)
(*                                                                         *)
(* A job (the cron job, or trigger_daily_report for a date of the          *)
(* operator's choice) queries the database, writes four files under names  *)
(* that only depend on the date, uploads them over SFTP and submits their  *)
(* checksum to the regulator's API (ATRS). Jobs are coroutines of one      *)
(* event loop: they interleave at every await; the uploads (paramiko) and  *)
(* the file writes are synchronous, so only a crash can come between their *)
(* steps. No job remembers how far an earlier one for its date came.       *)
(* Calls of asyncpg and paramiko without a time limit may never return.    *)
(* The weekly and monthly jobs are stubs that only log.                    *)
(***************************************************************************)
EXTENDS Integers, Sequences

CONSTANTS
    Jobs,           \* bound: jobs ever started
    Dates,          \* report dates
    MaxRetries,     \* AtrsConfig.max_retries
    MaxVersion      \* bound: changes of the database

ASSUME NccAssumption == MaxRetries \in Nat /\ MaxVersion \in Nat

VARIABLES
    version,    \* the database: how often the rows of the dates changed
    local,      \* date -> file -> content, in output_dir
    remote,     \* date -> file -> content, under the final names on the server
    received,   \* job -> how many times ATRS took its report
    job,        \* job -> the coroutine's state
    overlapped  \* history: dates that two jobs worked on at the same time

vars == <<version, local, remote, received, job, overlapped>>

Csv == <<"stats", "alerts", "targets">>
Files == Append(Csv, "summary")
FileNames == {Files[n] : n \in DOMAIN Files}
CsvNames == FileNames \ {"summary"}

\* The SHA-256 checksum of the three CSVs stands for their contents.
Checksums == [CsvNames -> 0..MaxVersion]

\* A file that is not there, and one that is cut short.
Absent == << >>
Short == [cut |-> TRUE]

\* What each file of a report holds; the summary holds the checksum.
Content(f, sum) == IF f = "summary" THEN sum ELSE [g \in {f} |-> sum[g]]
Contents(f) == {Absent, Short} \cup {Content(f, sum) : sum \in Checksums}

NoDate == "none"
Waiting == [pc |-> "waiting", date |-> NoDate, n |-> 1, failed |-> FALSE,
            checksum |-> [f \in CsvNames |-> 0], tmp |-> Absent,
            token |-> FALSE, retry |-> 0]

Active(j) == job[j].pc \notin {"waiting", "done", "failed"}

\* The event loop is free: no job is between two calls of paramiko, or in one
\* that does not return.
LoopFree(j) == \A k \in Jobs \ {j} : job[k].pc \notin {"put", "rename", "blocked"}

At(j, step) == job[j].pc = step /\ LoopFree(j)

End(j, how) == job' = [job EXCEPT ![j] =
    [Waiting EXCEPT !.pc = how, !.date = job[j].date, !.checksum = job[j].checksum]]

Init ==
    /\ version = 0
    /\ local = [d \in Dates |-> [f \in FileNames |-> Absent]]
    /\ remote = [d \in Dates |-> [f \in FileNames |-> Absent]]
    /\ received = [j \in Jobs |-> 0]
    /\ job = [j \in Jobs |-> Waiting]
    /\ overlapped = {}

----------------------------------------------------------------------------
(* Generation.                                                             *)

\* The database goes on changing: alerts of a past day are still resolved.
DatabaseChanges ==
    /\ version < MaxVersion
    /\ version' = version + 1
    /\ UNCHANGED <<local, remote, received, job, overlapped>>

\* By the cron trigger or by hand; nothing asks whether the date was reported.
Start(j, d) ==
    /\ At(j, "waiting")
    /\ job' = [job EXCEPT ![j] = [@ EXCEPT !.pc = "query", !.date = d]]
    /\ overlapped' = overlapped \cup
         (IF \E k \in Jobs : Active(k) /\ job[k].date = d THEN {d} ELSE {})
    /\ UNCHANGED <<version, local, remote, received>>

\* _query_daily_statistics, _query_alert_details, _query_top_targets: each its
\* own await and, without a transaction, its own snapshot.
Query(j) ==
    /\ At(j, "query")
    /\ job' = [job EXCEPT ![j] =
         [@ EXCEPT !.checksum[Csv[job[j].n]] = version,
                   !.n = IF job[j].n = Len(Csv) THEN 1 ELSE job[j].n + 1,
                   !.pc = IF job[j].n = Len(Csv) THEN "write" ELSE "query"]]
    /\ UNCHANGED <<version, local, remote, received, overlapped>>

\* The four files are written, and the checksum taken, without an await.
WriteFiles(j) ==
    /\ At(j, "write")
    /\ local' = [local EXCEPT ![job[j].date] =
                    [f \in FileNames |-> Content(f, job[j].checksum)]]
    /\ job' = [job EXCEPT ![j].pc = "disconnect"]
    /\ UNCHANGED <<version, remote, received, overlapped>>

\* The disk is full at file n: the ones before are new, the ones after old.
WriteFails(j, n) ==
    /\ At(j, "write")
    /\ local' = [local EXCEPT ![job[j].date] = [f \in FileNames |->
                   IF f = Files[n] THEN Short
                   ELSE IF \E m \in 1..(n - 1) : f = Files[m]
                        THEN Content(f, job[j].checksum) ELSE @[f]]]
    /\ End(j, "failed")
    /\ UNCHANGED <<version, remote, received, overlapped>>

\* A query, the connection to the database or its close fails.
GenerationFails(j) ==
    /\ At(j, "query") \/ At(j, "disconnect")
    /\ End(j, "failed")
    /\ UNCHANGED <<version, local, remote, received, overlapped>>

Disconnect(j) ==
    /\ At(j, "disconnect")
    /\ job' = [job EXCEPT ![j].pc = "connect"]
    /\ UNCHANGED <<version, local, remote, received, overlapped>>

----------------------------------------------------------------------------
(* SFTP.                                                                   *)

Connect(j) ==
    /\ At(j, "connect")
    /\ \/ job' = [job EXCEPT ![j].pc = "put"]
       \/ End(j, "failed")
    /\ UNCHANGED <<version, local, remote, received, overlapped>>

File(j) == Files[job[j].n]
Target(j) == remote[job[j].date][File(j)]

\* upload_batch: on to the next file, whatever became of this one; after the
\* last one any failure fails the job.
NextFile(j, failed) ==
    IF job[j].n < Len(Files)
    THEN job' = [job EXCEPT ![j] = [@ EXCEPT !.n = job[j].n + 1, !.failed = failed,
                                            !.tmp = Absent, !.pc = "put"]]
    ELSE IF failed THEN End(j, "failed")
    ELSE job' = [job EXCEPT ![j] = [@ EXCEPT !.tmp = Absent, !.pc = "token"]]

\* put truncates whatever an earlier job left under the .tmp name, so what lies
\* there is the current upload's; it may arrive short without an error.
Put(j) ==
    /\ At(j, "put")
    /\ \E content \in {local[job[j].date][File(j)], Short} :
         job' = [job EXCEPT ![j] = [@ EXCEPT !.tmp = content, !.pc = "rename"]]
    /\ UNCHANGED <<version, local, remote, received, overlapped>>

PutFails(j) ==
    /\ At(j, "put")
    /\ NextFile(j, TRUE)
    /\ UNCHANGED <<version, local, remote, received, overlapped>>

\* With posix_rename, which replaces the target.
MayRenameReplacing(j) == job[j].tmp = local[job[j].date][File(j)]

\* The size is that of the local file, and SFTP's rename replaces nothing.
MayRename(j) ==
    /\ job[j].tmp = local[job[j].date][File(j)]
    /\ Target(j) = Absent

Rename(j) ==
    /\ At(j, "rename")
    /\ MayRename(j)
    /\ remote' = [remote EXCEPT ![job[j].date][File(j)] = job[j].tmp]
    /\ \/ NextFile(j, job[j].failed)
       \/ NextFile(j, TRUE)        \* done, but the answer was lost
    /\ UNCHANGED <<version, local, received, overlapped>>

\* A wrong size, a target that exists, or the connection is lost.
RenameFails(j) ==
    /\ At(j, "rename")
    /\ NextFile(j, TRUE)
    /\ UNCHANGED <<version, local, remote, received, overlapped>>

----------------------------------------------------------------------------
(* ATRS.                                                                   *)

\* _ensure_token: the token is there and 60 seconds from its expiry, or a new
\* one is asked for; whatever goes wrong with that ends the job.
EnsureToken(j) ==
    /\ At(j, "token")
    /\ \/ job[j].token /\ job' = [job EXCEPT ![j].pc = "post"]
       \/ job' = [job EXCEPT ![j] = [@ EXCEPT !.token = TRUE, !.pc = "post"]]
       \/ End(j, "failed")
    /\ UNCHANGED <<version, local, remote, received, overlapped>>

\* ATRS takes the report, whether or not its answer arrives.
Taken(j) == received' = [received EXCEPT ![j] = @ + 1]

Accepted(j) ==
    /\ At(j, "post")
    /\ Taken(j)
    /\ End(j, "done")
    /\ UNCHANGED <<version, local, remote, overlapped>>

\* 429, a total timeout (which is no ClientError), or a second 401.
Refused(j) ==
    /\ At(j, "post")
    /\ Taken(j) \/ UNCHANGED received
    /\ End(j, "failed")
    /\ UNCHANGED <<version, local, remote, overlapped>>

\* 401 to the first request: the token is dropped, and the retry counted.
Unauthorized(j) ==
    /\ At(j, "post")
    /\ job[j].retry = 0
    /\ job' = [job EXCEPT ![j] =
         [@ EXCEPT !.token = FALSE, !.retry = 1, !.pc = "token"]]
    /\ UNCHANGED <<version, local, remote, received, overlapped>>

\* The retry calls _request with the count it was called with.
RetryUncounted(j) ==
    IF job[j].retry < MaxRetries
    THEN job' = [job EXCEPT ![j].pc = "token"]
    ELSE End(j, "failed")

\* A ClientError: an error status, a lost connection, an answer that is no JSON.
\* The report may have been taken all the same.
RetryLater(j) ==
    IF job[j].retry < MaxRetries
    THEN job' = [job EXCEPT ![j] = [@ EXCEPT !.retry = job[j].retry + 1, !.pc = "token"]]
    ELSE End(j, "failed")

ClientError(j) ==
    /\ At(j, "post")
    /\ Taken(j) \/ UNCHANGED received
    /\ RetryLater(j)
    /\ UNCHANGED <<version, local, remote, overlapped>>

----------------------------------------------------------------------------
\* A call without a time limit never returns: a query or the close of its
\* connection, and the job hangs; or one of paramiko, where the TCP connection
\* alone has a limit, and the job blocks the event loop. The rename may be done.
Stall(j) ==
    /\ \/ (At(j, "query") \/ At(j, "disconnect")) /\ End(j, "hung") /\ UNCHANGED remote
       \/ (At(j, "connect") \/ At(j, "put") \/ At(j, "rename")) /\ End(j, "blocked")
          /\ UNCHANGED remote
       \/ /\ At(j, "rename") /\ MayRename(j) /\ End(j, "blocked")
          /\ remote' = [remote EXCEPT ![job[j].date][File(j)] = job[j].tmp]
    /\ UNCHANGED <<version, local, received, overlapped>>

\* The process dies; a put on its way leaves only its .tmp file. Whatever has
\* not been started by then is started by the next process.
Crash ==
    /\ \E j \in Jobs : Active(j)
    /\ job' = [j \in Jobs |-> IF Active(j)
         THEN [Waiting EXCEPT !.pc = "failed", !.date = job[j].date,
                              !.checksum = job[j].checksum]
         ELSE job[j]]
    /\ UNCHANGED <<version, local, remote, received, overlapped>>

Generate(j) ==
    \/ Query(j)
    \/ WriteFiles(j)
    \/ \E n \in DOMAIN Files : WriteFails(j, n)
    \/ GenerationFails(j)
    \/ Disconnect(j)
Upload(j) == Connect(j) \/ Put(j) \/ PutFails(j) \/ Rename(j) \/ RenameFails(j)
Submit(j) ==
    EnsureToken(j) \/ Accepted(j) \/ Refused(j) \/ Unauthorized(j) \/ ClientError(j)

JobStep(j) == Generate(j) \/ Upload(j) \/ Submit(j)

Next ==
    \/ DatabaseChanges
    \/ \E j \in Jobs, d \in Dates : Start(j, d)
    \/ \E j \in Jobs : JobStep(j) \/ Stall(j)
    \/ Crash

Spec == Init /\ [][Next]_vars

\* The event loop is fair, and a call returns or raises unless it stalls: those
\* that can stall do so by Stall, and the others (the session's requests to ATRS,
\* asyncpg's connect) have time limits.
FairSpec == Spec /\ \A j \in Jobs : WF_vars(JobStep(j))

----------------------------------------------------------------------------
(* Properties.                                                             *)

JobState == [pc : {"waiting", "query", "write", "disconnect", "connect", "put",
                   "rename", "token", "post", "hung", "blocked", "done", "failed"},
             date : Dates \cup {NoDate}, n : DOMAIN Files, failed : BOOLEAN,
             checksum : Checksums, tmp : UNION {Contents(f) : f \in FileNames},
             token : BOOLEAN, retry : 0..(MaxRetries + 1)]

\* The variables have their types; in particular one call of submit_daily_report
\* posts at most max_retries + 1 times, the retry after a 401 included.
TypeOK ==
    /\ version \in 0..MaxVersion
    /\ \A d \in Dates, f \in FileNames :
         local[d][f] \in Contents(f) /\ remote[d][f] \in Contents(f)
    /\ received \in [Jobs -> 0..(MaxRetries + 1)]
    /\ job \in [Jobs -> JobState]
    /\ overlapped \subseteq Dates

\* A report that ATRS took is completely on the server, under final names and
\* with the checksum ATRS has, however uploads were cut short and whatever later
\* jobs of the date do (scheduler.py:99-126, sftp_uploader.py:107-194). Two jobs of
\* one date at the same time break the second half: one rewrites the local files
\* the other is about to upload.
ReportMatchesFiles ==
    \A j \in Jobs, f \in FileNames :
        received[j] > 0 =>
            /\ remote[job[j].date][f] # Absent
            /\ job[j].date \notin overlapped =>
                 remote[job[j].date][f] = Content(f, job[j].checksum)

\* At most one job ever submits the report of a date, so that a date is reported
\* twice only by the retries of one request: the files of the first job that
\* uploaded all of them stop the rename of every other.
OneReporter ==
    \A j, k \in Jobs :
        received[j] > 0 /\ received[k] > 0 /\ job[j].date = job[k].date => j = k

\* Whatever the servers answer, a job that was started ends, hangs itself in a
\* call without a time limit, or stands behind a job that blocks the event loop in
\* one: retries, refreshed tokens and failed files alone never keep it going
\* (atrs_client.py:204-232, sftp_uploader.py:183-194).
EveryJobEnds ==
    \A j \in Jobs :
        Active(j) ~> \/ ~Active(j) \/ job[j].pc = "hung"
                     \/ \E k \in Jobs : job[k].pc = "blocked"
=============================================================================
