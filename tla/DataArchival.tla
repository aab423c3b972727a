---------------------------- MODULE DataArchival ----------------------------
(***************************************************************************)
(* services/data-archival: old records move from their table to an object  *)
(* store and back.                                                         *)
(*                                                                         *)
(* The threads that call ArchivalService (the scheduler's monthly job, an  *)
(* operator's manual archival, a restoration) share ONE database           *)
(* connection, so one transaction: what one of them executed is visible to *)
(* the others, committed by whoever commits first and lost when any        *)
(* statement fails. No path rolls back, and nothing reconnects. The daily  *)
(* cleanup only talks to the object store. One action is one call of the   *)
(* database driver or of the store; each may fail, before or after it had  *)
(* its effect, and the process may die between any two of them.            *)
(***************************************************************************)
EXTENDS Integers, FiniteSets

CONSTANTS
    Rows,           \* records, each of one table
    Tables,         \* tables_to_archive
    TableOf,        \* [Rows -> Tables]
    ArchiveIds,     \* bound: archive ids (uuids, listed in the order of Nat)
    Workers,        \* threads that archive or restore
    ChunkSize,      \* LIMIT of the query
    HotRetention,   \* hot_retention_days
    ManualCutoffs,  \* bound: cutoff dates of manual archivals, past or future
    Retention,      \* cold_retention_years
    MaxKeys,        \* objects a listing returns at most
    MaxTime         \* bound on the clock

ASSUME ArchivalAssumption ==
    /\ TableOf \in [Rows -> Tables]
    /\ ArchiveIds \subseteq Nat
    /\ ChunkSize \in Nat \ {0} /\ HotRetention \in Nat /\ Retention \in Nat
    /\ ManualCutoffs \subseteq Int
    /\ MaxKeys \in Nat /\ MaxTime \in Nat

VARIABLES
    now,
    born,       \* [Rows -> 0..MaxTime]: the record's date column
    written,    \* records ever written
    table,      \* committed records of the tables
    tx,         \* the shared connection: "idle", "open", "aborted" or "closed"
    ins, del,   \* what its open transaction inserted and deleted
    swept,      \* history: records that DELETEs removed from the table, or are about
                \* to, although no SELECT returned them and no archive has them
    data,       \* archive id -> object under archives/, or NoObject
    meta,       \* archive id -> object under metadata/, or NoObject
    worker,     \* thread -> its local state
    cleaner     \* the cleanup job's local state

conn == <<tx, ins, del, swept>>
store == <<data, meta>>
db == <<born, written, table>>
vars == <<now, db, conn, store, worker, cleaner>>

NoObject == [none |-> TRUE]
NoId == -1

\* The bucket exists before anything is stored: __init__ creates it or raises.
EmptyBucket == [a \in ArchiveIds |-> NoObject]

\* compress and decompress: the records come back from what they were packed into.
\* (The key of the object names the table.)
Packed(rows, t) == [rows |-> rows, table |-> t]
Unpacked(object) == object.rows

\* ArchiveMetadata: of its fields, only the retention date is ever decided on.
Metadata(until) == [until |-> until]

NoTable == "none"

Idle == [pc |-> "idle", todo |-> {}, cutoff |-> 0, table |-> NoTable,
         rows |-> {}, id |-> NoId, until |-> 0]
Resting == [pc |-> "idle", todo |-> {}, started |-> 0, expired |-> {}, id |-> NoId]

\* The records the shared connection sees.
Visible == (table \ del) \cup ins

\* By the date column of its table.
OlderThan(cutoff) == {r \in Visible : born[r] < cutoff}

\* Records of t that are older than the cutoff.
Old(t, cutoff) == {r \in OlderThan(cutoff) : TableOf[r] = t}

\* ORDER BY date LIMIT chunk_size: among equal dates any may come first.
IsChunk(chunk, old) ==
    /\ chunk \subseteq old
    /\ IF Cardinality(old) <= ChunkSize THEN chunk = old
       ELSE /\ Cardinality(chunk) = ChunkSize
            /\ \A r \in chunk, s \in old \ chunk : born[r] <= born[s]

At(w, step) == worker[w].pc = step

Init ==
    /\ now = 0
    /\ born = [r \in Rows |-> 0]
    /\ written = {} /\ table = {}
    /\ tx = "idle" /\ ins = {} /\ del = {} /\ swept = {}
    /\ data = EmptyBucket /\ meta = EmptyBucket
    /\ worker = [w \in Workers |-> Idle]
    /\ cleaner = Resting

----------------------------------------------------------------------------
(* The shared connection.                                                  *)

Usable == tx \in {"idle", "open"}

\* The transaction ends; what is in the table by then is not swept away.
End(state) == tx' = state /\ ins' = {} /\ del' = {} /\ swept' = swept \ table'

\* A statement failed on the server: the transaction is lost, and every later
\* statement fails until someone commits (which then rolls back).
Abort == UNCHANGED table /\ End("aborted")

Committed == (table \ del) \cup ins

CommitTx ==
    /\ tx \in {"idle", "open", "aborted"}
    /\ table' = Committed
    /\ End("idle")
    /\ UNCHANGED <<born, written>>

\* The connection breaks: nothing in the service opens another one. A commit on
\* its way may have arrived.
LoseConnection ==
    /\ tx # "closed"
    /\ \/ table' = table
       \/ (\E w \in Workers : worker[w].pc \in {"commit", "restored"}) /\ table' = Committed
    /\ End("closed")
    /\ UNCHANGED <<now, born, written, store, worker, cleaner>>

----------------------------------------------------------------------------
(* archive_table, table after table.                                       *)

\* _run_archival_job: cutoff hot_retention_days ago, all tables in turn.
ScheduledArchival(w) ==
    /\ At(w, "idle")
    /\ worker' = [worker EXCEPT ![w] =
            [Idle EXCEPT !.pc = "query", !.todo = Tables, !.cutoff = now - HotRetention]]
    /\ UNCHANGED <<now, db, conn, store, cleaner>>

\* trigger_manual_archival: one table, a cutoff of the operator's choice.
ManualArchival(w, t, cutoff) ==
    /\ At(w, "idle")
    /\ worker' = [worker EXCEPT ![w] =
            [Idle EXCEPT !.pc = "query", !.todo = {t}, !.cutoff = cutoff]]
    /\ UNCHANGED <<now, db, conn, store, cleaner>>

\* archive_table returned, whatever it returned: on to the next table.
Skip(w, rest) ==
    worker' = [worker EXCEPT ![w] =
        IF rest = {} THEN Idle
        ELSE [Idle EXCEPT !.pc = "query", !.todo = rest, !.cutoff = worker[w].cutoff]]

NextTable(w) == Skip(w, worker[w].todo)

\* The SELECT opens a transaction, which stays open when there is no record.
Query(w, t) ==
    /\ At(w, "query") /\ t \in worker[w].todo
    /\ LET rest == worker[w].todo \ {t} IN
       \/ ~Usable /\ Skip(w, rest) /\ UNCHANGED conn
       \/ Usable /\ Abort /\ Skip(w, rest)
       \/ /\ Usable
          /\ tx' = "open" /\ UNCHANGED <<ins, del, swept>>
          /\ \E chunk \in SUBSET Old(t, worker[w].cutoff) :
                /\ IsChunk(chunk, Old(t, worker[w].cutoff))
                /\ IF chunk = {} THEN Skip(w, rest)
                   ELSE worker' = [worker EXCEPT ![w] =
                            [@ EXCEPT !.pc = "upload", !.todo = rest, !.table = t,
                                      !.rows = chunk]]
    /\ UNCHANGED <<now, db, store, cleaner>>

\* A uuid nobody has.
Fresh(a) ==
    /\ data[a] = NoObject /\ meta[a] = NoObject
    /\ cleaner.id # a /\ a \notin cleaner.expired
    /\ \A w \in Workers : worker[w].id # a

\* Serialise and compress (which may raise), describe, and put the data object.
UploadData(w, a) ==
    /\ At(w, "upload") /\ Fresh(a)
    /\ \/ NextTable(w) /\ UNCHANGED data
       \/ /\ data' = [data EXCEPT ![a] = Packed(worker[w].rows, worker[w].table)]
          /\ \/ NextTable(w)
             \/ worker' = [worker EXCEPT ![w] =
                    [@ EXCEPT !.pc = "describe", !.id = a, !.until = now + Retention]]
    /\ UNCHANGED <<now, db, conn, meta, cleaner>>

\* Variant: upload_archive reports success although the metadata was not put.
PutMetadataUnchecked(w) ==
    /\ At(w, "describe")
    /\ meta' \in {meta, [meta EXCEPT ![worker[w].id] = Metadata(worker[w].until)]}
    /\ worker' = [worker EXCEPT ![w] =
                    [@ EXCEPT !.pc = "delete", !.id = NoId, !.until = 0]]
    /\ UNCHANGED <<now, db, conn, data, cleaner>>

\* Then its metadata. An error leaves the data object without metadata, or the
\* whole archive in place without the records being deleted.
PutMetadata(w) ==
    /\ At(w, "describe")
    /\ \/ NextTable(w) /\ UNCHANGED meta
       \/ /\ meta' = [meta EXCEPT ![worker[w].id] = Metadata(worker[w].until)]
          /\ \/ NextTable(w)
             \/ worker' = [worker EXCEPT ![w] =
                    [@ EXCEPT !.pc = "delete", !.id = NoId, !.until = 0]]
    /\ UNCHANGED <<now, db, conn, data, cleaner>>

\* An archive a restoration can use: both objects are there.
Complete(a) == data[a] # NoObject /\ meta[a] # NoObject

Archived(r) == \E a \in ArchiveIds : Complete(a) /\ r \in data[a].rows

\* DELETE ... WHERE date < cutoff: all that is old now, not what was selected. Rows
\* beyond the LIMIT of the query are swept away, and rows written or dated since.
DeleteArchived(w) ==
    /\ At(w, "delete")
    /\ \/ ~Usable /\ NextTable(w) /\ UNCHANGED conn
       \/ Usable /\ Abort /\ NextTable(w)
       \/ LET old == Old(worker[w].table, worker[w].cutoff) IN
          /\ Usable
          /\ tx' = "open"
          /\ ins' = ins \ old /\ del' = del \cup (old \cap table)
          /\ swept' = swept \cup {r \in (old \cap table) \ worker[w].rows : ~Archived(r)}
          /\ worker' = [worker EXCEPT ![w] = [@ EXCEPT !.pc = "commit", !.rows = {}]]
    /\ UNCHANGED <<now, db, store, cleaner>>

\* The connection may have been aborted by another thread since: the COMMIT then
\* rolls back, and archive_table still returns its metadata.
CommitDelete(w) ==
    /\ At(w, "commit")
    /\ NextTable(w)
    /\ CommitTx \/ (tx = "closed" /\ UNCHANGED <<db, conn>>)
    /\ UNCHANGED <<now, store, cleaner>>

----------------------------------------------------------------------------
(* restore_archive.                                                        *)

Return(w) == worker' = [worker EXCEPT ![w] = Idle]

GetMetadata(w, a) ==
    /\ At(w, "idle") /\ meta[a] # NoObject
    /\ worker' = [worker EXCEPT ![w] = [Idle EXCEPT !.pc = "download", !.id = a]]
    /\ UNCHANGED <<now, db, conn, store, cleaner>>

\* download_archive: nothing where the cleanup was faster.
Stored(a) == data[a]

\* Download, verify, decompress. Any of them may fail: the checksum, or the codec,
\* which is the one configured now, whatever the archive was compressed with.
Download(w) ==
    LET object == Stored(worker[w].id) IN
    /\ At(w, "download")
    /\ \/ Return(w)
       \/ /\ object # NoObject
          /\ worker' = [worker EXCEPT ![w] =
                [@ EXCEPT !.pc = "restore", !.rows = Unpacked(object), !.id = NoId]]
    /\ UNCHANGED <<now, db, conn, store, cleaner>>

\* Leaves the loop after the last record.
NextRecord(w, r) ==
    worker' = [worker EXCEPT ![w] = [@ EXCEPT !.rows = worker[w].rows \ {r},
                   !.pc = IF worker[w].rows = {r} THEN "restored" ELSE "restore"]]

\* Variant: no ON CONFLICT DO NOTHING, on a table without a primary key.
InsertAgain(r) == ins \cup {r}
Inserted(r) == IF r \in table THEN ins ELSE ins \cup {r}

\* INSERT ... ON CONFLICT DO NOTHING. An error is logged and the loop goes on:
\* the driver rejects a value it cannot adapt without telling the server, a
\* server error aborts the transaction.
InsertRecord(w, r) ==
    /\ At(w, "restore") /\ r \in worker[w].rows
    /\ \/ UNCHANGED conn
       \/ Usable /\ Abort
       \/ /\ Usable
          /\ tx' = "open"
          /\ del' = del \ {r}
          /\ ins' = Inserted(r)
          /\ UNCHANGED swept
    /\ NextRecord(w, r)
    /\ UNCHANGED <<now, db, store, cleaner>>

CommitRestored(w) ==
    /\ At(w, "restored")
    /\ Return(w)
    /\ CommitTx \/ (tx = "closed" /\ UNCHANGED <<db, conn>>)
    /\ UNCHANGED <<now, store, cleaner>>

----------------------------------------------------------------------------
(* delete_expired_archives.                                                *)

Keys(t) == {a \in ArchiveIds : data[a] # NoObject /\ data[a].table = t}

\* list_objects_v2 returns the first MaxKeys keys and is not asked for more.
Listed(t) == {a \in Keys(t) : Cardinality({b \in Keys(t) : b < a}) < MaxKeys}

\* Variant: the retention date is not looked at.
ListedAtAll(a, time) == meta[a] # NoObject
Expired(a, time) == meta[a] # NoObject /\ time > meta[a].until

StartCleanup ==
    /\ cleaner.pc = "idle"
    /\ cleaner' = [Resting EXCEPT !.pc = "list", !.todo = Tables, !.started = now]
    /\ UNCHANGED <<now, db, conn, store, worker>>

\* The job goes on with the other expired archives of the table, then with the
\* other tables.
Continue(todo, expired) ==
    cleaner' = IF expired = {} /\ todo = {} THEN Resting
               ELSE [cleaner EXCEPT !.pc = IF expired = {} THEN "list" ELSE "delete",
                                    !.todo = todo, !.expired = expired, !.id = NoId]

\* list_archives_for_table: an archive whose metadata cannot be read is skipped.
ListArchives(t, readable) ==
    /\ cleaner.pc = "list" /\ t \in cleaner.todo
    /\ Continue(cleaner.todo \ {t},
                {a \in Listed(t) \cap readable : Expired(a, cleaner.started)})
    /\ UNCHANGED <<now, db, conn, store, worker>>

SkipArchive(a) ==
    /\ cleaner.pc = "delete" /\ a \in cleaner.expired
    /\ Continue(cleaner.todo, cleaner.expired \ {a})
    /\ UNCHANGED <<now, db, conn, store, worker>>

\* Variant: metadata first, so that the data is not listed as an archive.
DeleteMetadataFirst(a) ==
    /\ cleaner.pc = "delete" /\ a \in cleaner.expired
    /\ meta' = [meta EXCEPT ![a] = NoObject]
    /\ cleaner' = [cleaner EXCEPT !.pc = "deletemeta", !.id = a]
    /\ UNCHANGED <<now, db, conn, data, worker>>

DeleteData(a) ==
    /\ cleaner.pc = "delete" /\ a \in cleaner.expired
    /\ data' = [data EXCEPT ![a] = NoObject]
    /\ cleaner' = [cleaner EXCEPT !.pc = "deletemeta", !.id = a]
    /\ UNCHANGED <<now, db, conn, meta, worker>>

\* If this fails the metadata stays for good: its archive is listed no more.
DeleteMetadata ==
    /\ cleaner.pc = "deletemeta"
    /\ \/ UNCHANGED meta
       \/ meta' = [meta EXCEPT ![cleaner.id] = NoObject]
    /\ Continue(cleaner.todo, cleaner.expired \ {cleaner.id})
    /\ UNCHANGED <<now, db, conn, data, worker>>

\* An error that is not a ClientError (the store cannot be reached) ends the job;
\* a deletion it interrupts may have happened.
CleanupFails ==
    /\ cleaner.pc # "idle"
    /\ cleaner' = Resting
    /\ \/ UNCHANGED store
       \/ \E a \in cleaner.expired : /\ cleaner.pc = "delete"
                                     /\ data' = [data EXCEPT ![a] = NoObject]
                                     /\ UNCHANGED meta
       \/ /\ cleaner.pc = "deletemeta"
          /\ meta' = [meta EXCEPT ![cleaner.id] = NoObject]
          /\ UNCHANGED data
    /\ UNCHANGED <<now, db, conn, worker>>

----------------------------------------------------------------------------
(* The environment.                                                        *)

Tick ==
    /\ now < MaxTime
    /\ now' = now + 1
    /\ UNCHANGED <<db, conn, store, worker, cleaner>>

\* The application writes a record over a connection of its own. The date column is
\* the data's (the start of a call, say), so it may lie anywhere in the past.
WriteRecord(r) ==
    /\ r \notin written
    /\ written' = written \cup {r}
    /\ table' = table \cup {r}
    /\ \E date \in 0..now : born' = [born EXCEPT ![r] = date]
    /\ UNCHANGED <<now, conn, store, worker, cleaner>>

\* The process dies and starts again, with a new connection.
Restart ==
    /\ UNCHANGED <<now, db, store>>
    /\ End("idle")
    /\ worker' = [w \in Workers |-> Idle]
    /\ cleaner' = Resting

Archive(w) ==
    \/ ScheduledArchival(w)
    \/ \E t \in Tables, cutoff \in ManualCutoffs : ManualArchival(w, t, cutoff)
    \/ \E t \in Tables : Query(w, t)
    \/ \E a \in ArchiveIds : UploadData(w, a)
    \/ PutMetadata(w) \/ DeleteArchived(w) \/ CommitDelete(w)

Restore(w) ==
    \/ \E a \in ArchiveIds : GetMetadata(w, a)
    \/ Download(w)
    \/ \E r \in Rows : InsertRecord(w, r)
    \/ CommitRestored(w)

Cleanup ==
    \/ StartCleanup
    \/ \E t \in Tables, readable \in SUBSET ArchiveIds : ListArchives(t, readable)
    \/ \E a \in ArchiveIds : SkipArchive(a) \/ DeleteData(a)
    \/ DeleteMetadata \/ CleanupFails

Next ==
    \/ \E w \in Workers : Archive(w) \/ Restore(w)
    \/ Cleanup
    \/ Tick \/ (\E r \in Rows : WriteRecord(r))
    \/ LoseConnection \/ Restart

Spec == Init /\ [][Next]_vars

\* The scheduler starts the cleanup every day, and no call to the store fails
\* every time. Nothing is assumed of the threads that use the database.
CleanupFairness ==
    /\ WF_vars(StartCleanup) /\ WF_vars(DeleteMetadata)
    /\ \A t \in Tables : SF_vars(ListArchives(t, ArchiveIds))
    /\ \A a \in ArchiveIds : SF_vars(DeleteData(a))

FairSpec == Spec /\ CleanupFairness

----------------------------------------------------------------------------
(* Properties.                                                             *)

\* Every variable has the shape the code gives it.
TypeOK ==
    /\ now \in 0..MaxTime /\ born \in [Rows -> 0..MaxTime]
    /\ table \subseteq written /\ written \subseteq Rows
    /\ tx \in {"idle", "open", "aborted", "closed"}
    /\ ins \subseteq written \ table /\ del \subseteq table /\ swept \subseteq written
    /\ \A a \in ArchiveIds :
          /\ data[a] = NoObject \/
                /\ data[a].rows \subseteq written /\ data[a].rows # {}
                /\ data[a].table \in Tables
          /\ meta[a] = NoObject \/ meta[a].until \in Nat
    /\ \A w \in Workers :
          /\ worker[w].pc \in {"idle", "query", "upload", "describe", "delete", "commit",
                               "download", "restore", "restored"}
          /\ worker[w].rows \subseteq written
          /\ worker[w].id \in ArchiveIds \cup {NoId}
    /\ cleaner.pc \in {"idle", "list", "delete", "deletemeta"}
    /\ cleaner.expired \subseteq ArchiveIds

\* Seven-year retention: however archivals, restorations and the cleanup
\* interleave on the one connection, whatever call fails and whenever the
\* process dies, a record whose retention period is not over is in its table or
\* in a complete archive - but for those a DELETE swept away that its SELECT had
\* not returned (archival_service.py:135-146, 157).
NoRecordLost ==
    \A r \in written \ swept : now <= born[r] + Retention => r \in table \/ Archived(r)

\* A record in the hands of a thread, or of its transaction.
InFlight(r) == r \in ins \/ \E w \in Workers : r \in worker[w].rows

Place(r) == CASE r \notin written -> "unborn"
              [] r \in table     -> "table"
              [] OTHER           -> IF Archived(r) THEN "kept" ELSE "gone"

Promise == INSTANCE RecordRetention WITH
               place <- [r \in Rows |-> Place(r)], hands <- {r \in Rows : InFlight(r)}

\* The service implements RecordRetention: a step leaves a record where it was or
\* takes it where the promise allows, and a record that is gone (in no table, in no
\* complete archive) comes back only from the hands of a thread that took it while
\* it was there, such as a restoration the cleanup has overtaken.
KeepsItsPromise == Promise!Spec

\* GDPR deletion: an archive whose retention is over is eventually deleted, unless
\* the listing does not reach it. (Data without metadata has no retention date.)
ExpiredAreDeleted ==
    \A a \in ArchiveIds :
        Complete(a) /\ Expired(a, now) ~>
            data[a] = NoObject \/ (\E t \in Tables : a \in Keys(t) \ Listed(t))

=============================================================================
