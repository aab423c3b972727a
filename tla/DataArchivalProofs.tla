------------------------- MODULE DataArchivalProofs -------------------------
(***************************************************************************)
(* What DataArchival keeps of its records, for any number of records,      *)
(* tables, archives and threads and whatever the dates of the records and  *)
(* the cutoffs of the operators, and that it implements RecordRetention.   *)
(*                                                                         *)
(* The one way a record goes before its time is a DELETE that reaches what *)
(* its SELECT did not return: such records are in swept.                   *)
(***************************************************************************)
EXTENDS DataArchival, TLAPS

----------------------------------------------------------------------------
(* The inductive invariant.                                                *)

\* The record may leave its table.
Safe(r) == now > born[r] + Retention \/ Archived(r)

WorkerState ==
    [pc : {"idle", "query", "upload", "describe", "delete", "commit",
           "download", "restore", "restored"},
     todo : SUBSET Tables, cutoff : Int, table : Tables \cup {NoTable},
     rows : SUBSET Rows, id : ArchiveIds \cup {NoId}, until : Nat]

CleanerState ==
    [pc : {"idle", "list", "delete", "deletemeta"}, todo : SUBSET Tables,
     started : Nat, expired : SUBSET ArchiveIds, id : ArchiveIds \cup {NoId}]

ClockOK ==
    /\ now \in 0..MaxTime /\ born \in [Rows -> 0..MaxTime] /\ written \subseteq Rows
    /\ \A r \in written : born[r] <= now

ConnOK ==
    /\ table \subseteq written
    /\ tx \in {"idle", "open", "aborted", "closed"}
    /\ ins \subseteq written \ table /\ del \subseteq table /\ swept \subseteq written

\* What is not in its table, or is about to be deleted from it, need not be there,
\* or was swept away.
RecordsOK == \A r \in written : r \notin table \/ r \in del => Safe(r) \/ r \in swept

\* An archive keeps its records for as long as the retention asks.
StoreOK ==
    /\ data \in [ArchiveIds -> [rows : SUBSET Rows, table : Tables] \cup {NoObject}]
    /\ meta \in [ArchiveIds -> [until : Nat] \cup {NoObject}]
    /\ \A a \in ArchiveIds :
         /\ data[a] # NoObject => data[a].rows \subseteq written /\ data[a].rows # {}
         /\ Complete(a) => \A r \in data[a].rows : meta[a].until >= born[r] + Retention

\* The cleanup deletes archives that were over when it started, data first.
CleanerOK ==
    /\ cleaner \in CleanerState
    /\ cleaner.started <= now
    /\ \A a \in cleaner.expired : Expired(a, cleaner.started)
    /\ cleaner.id \in cleaner.expired \cup {NoId}
    /\ cleaner.pc = "deletemeta" => cleaner.id \in ArchiveIds /\ data[cleaner.id] = NoObject

\* The archive a thread has put the data of: its metadata is still to come.
Describes(w) ==
    /\ worker[w].id \in ArchiveIds \ cleaner.expired
    /\ data[worker[w].id] # NoObject /\ meta[worker[w].id] = NoObject
    /\ data[worker[w].id].rows = worker[w].rows
    /\ \A r \in worker[w].rows : worker[w].until >= born[r] + Retention

WorkerOK(w) ==
    /\ worker[w].rows \subseteq written
    /\ At(w, "upload") => worker[w].table \in Tables /\ worker[w].rows # {}
    /\ At(w, "describe") => Describes(w)
    /\ At(w, "delete") => \A r \in worker[w].rows : Safe(r)
    /\ At(w, "download") =>
         /\ worker[w].id \in ArchiveIds
         /\ data[worker[w].id] # NoObject => meta[worker[w].id] # NoObject

OneDescriber ==
    \A v, w \in Workers :
        At(v, "describe") /\ At(w, "describe") /\ worker[v].id = worker[w].id => v = w

WorkersOK ==
    /\ worker \in [Workers -> WorkerState]
    /\ \A w \in Workers : WorkerOK(w)
    /\ OneDescriber

IInv == ClockOK /\ ConnOK /\ RecordsOK /\ StoreOK /\ CleanerOK /\ WorkersOK

----------------------------------------------------------------------------
(* Lemmas about the steps.                                                 *)

\* Objects of the store are not mistaken for absent ones.
LEMMA ObjectFacts ==
    /\ \A o \in [rows : SUBSET Rows, table : Tables] : o # NoObject
    /\ \A o \in [until : Nat] : o # NoObject
    /\ NoId \notin ArchiveIds
<1>1. DOMAIN NoObject = {"none"}
  BY DEF NoObject
<1>2. \A o \in [rows : SUBSET Rows, table : Tables] : DOMAIN o = {"rows", "table"}
  OBVIOUS
<1>3. \A o \in [until : Nat] : DOMAIN o = {"until"}
  OBVIOUS
<1>4. NoId \notin ArchiveIds
  BY ArchivalAssumption DEF NoId
<1> QED
  BY <1>1, <1>2, <1>3, <1>4

\* An empty bucket, an idle thread and a resting cleanup.
LEMMA IdleTyped ==
    /\ Idle \in WorkerState /\ Idle.pc = "idle" /\ Idle.cutoff = 0 /\ Idle.rows = {}
    /\ Idle.id = NoId /\ Idle.until = 0 /\ Idle.table = NoTable
    /\ Resting \in CleanerState /\ Resting.pc = "idle" /\ Resting.expired = {}
    /\ Resting.started = 0 /\ Resting.id = NoId
  BY DEF Idle, Resting, WorkerState, CleanerState

LEMMA TypesFollow == IInv => TypeOK
<1> SUFFICES ASSUME IInv PROVE TypeOK
  OBVIOUS
<1>1. \A a \in ArchiveIds : data[a] = NoObject \/
         (data[a].rows \subseteq written /\ data[a].rows # {} /\ data[a].table \in Tables)
  BY DEF IInv, StoreOK
<1>2. \A a \in ArchiveIds : meta[a] = NoObject \/ meta[a].until \in Nat
  BY DEF IInv, StoreOK
<1>3. ASSUME NEW w \in Workers
      PROVE  /\ worker[w].pc \in {"idle", "query", "upload", "describe", "delete", "commit",
                                  "download", "restore", "restored"}
             /\ worker[w].rows \subseteq written
             /\ worker[w].id \in ArchiveIds \cup {NoId}
  BY DEF IInv, WorkersOK, WorkerOK, WorkerState
<1>4. cleaner.pc \in {"idle", "list", "delete", "deletemeta"} /\ cleaner.expired \subseteq ArchiveIds
  BY DEF IInv, CleanerOK, CleanerState
<1> QED
  BY <1>1, <1>2, <1>3, <1>4 DEF IInv, ClockOK, ConnOK, TypeOK

LEMMA NowIsNat == IInv => now \in Nat
<1> SUFFICES ASSUME IInv PROVE now \in Nat
  OBVIOUS
<1>1. now \in 0..MaxTime /\ MaxTime \in Nat
  BY ArchivalAssumption DEF IInv, ClockOK
<1> QED
  BY <1>1

\* A step that leaves the store and the clock alone moves no record out of safety.
LEMMA SafeUnchanged ==
    ASSUME UNCHANGED <<now, born, data, meta>>, NEW r
    PROVE  Safe(r)' = Safe(r)
  BY DEF Safe, Archived, Complete

LEMMA StoreUnchanged ==
    ASSUME UNCHANGED <<born, written, data, meta>>, StoreOK
    PROVE  StoreOK'
  BY DEF StoreOK, Complete

\* A thread that does not move, where the cleanup and the store do not either.
LEMMA WorkerUnchanged ==
    ASSUME NEW w \in Workers, WorkerOK(w), worker'[w] = worker[w],
           UNCHANGED <<now, born, written, data, meta, cleaner>>
    PROVE  WorkerOK(w)'
<1>1. \A r : Safe(r)' = Safe(r)
  BY SafeUnchanged
<1> QED
  BY <1>1 DEF WorkerOK, Describes, At

\* A thread takes a step that touches at most the connection.
LEMMA WorkerMoves ==
    ASSUME IInv, NEW w \in Workers, NEW s \in WorkerState,
           worker' = [worker EXCEPT ![w] = s],
           s.pc # "describe", WorkerOK(w)',
           UNCHANGED <<now, born, written, data, meta, cleaner>>,
           ConnOK', \A r \in written : r \notin table' \/ r \in del' => Safe(r) \/ r \in swept'
    PROVE  IInv'
<1>1. /\ worker' \in [Workers -> WorkerState] /\ worker'[w] = s
      /\ \A v \in Workers \ {w} : worker'[v] = worker[v]
  BY DEF IInv, WorkersOK
<1>2. \A v \in Workers : WorkerOK(v)'
  BY <1>1, WorkerUnchanged DEF IInv, WorkersOK
<1>3. OneDescriber'
  BY <1>1 DEF IInv, WorkersOK, OneDescriber, At
<1>4. RecordsOK'
  BY SafeUnchanged DEF RecordsOK
<1>5. ClockOK' /\ StoreOK' /\ CleanerOK'
  BY StoreUnchanged DEF IInv, ClockOK, CleanerOK, Expired
<1> QED
  BY <1>1, <1>2, <1>3, <1>4, <1>5 DEF IInv, WorkersOK

\* What any thread may do to the connection: nothing, abort, commit or open it.
LEMMA TxKept ==
    ASSUME IInv, UNCHANGED written,
           \/ UNCHANGED <<table, conn>>
           \/ UNCHANGED table /\ Abort
           \/ UNCHANGED <<table, ins, del, swept>> /\ tx' = "open"
           \/ CommitTx
    PROVE  ConnOK' /\ \A r \in written : r \notin table' \/ r \in del' => Safe(r) \/ r \in swept'
<1>1. CASE UNCHANGED <<table, conn>>
  BY <1>1 DEF IInv, ConnOK, RecordsOK, conn
<1>2. CASE UNCHANGED table /\ Abort
  BY <1>2 DEF IInv, ConnOK, RecordsOK, Abort, End
<1>3. CASE UNCHANGED <<table, ins, del, swept>> /\ tx' = "open"
  BY <1>3 DEF IInv, ConnOK, RecordsOK
<1>4. CASE CommitTx
  BY <1>4 DEF IInv, ConnOK, RecordsOK, CommitTx, End, Committed
<1> QED
  BY <1>1, <1>2, <1>3, <1>4

LEMMA InitIInv == Init => IInv
<1> SUFFICES ASSUME Init PROVE IInv
  OBVIOUS
<1>1. ClockOK /\ ConnOK /\ RecordsOK
  BY ArchivalAssumption DEF Init, ClockOK, ConnOK, RecordsOK
<1>2. StoreOK
  BY DEF Init, StoreOK, EmptyBucket, Complete
<1>3. CleanerOK
  BY <1>1, IdleTyped DEF Init, CleanerOK, ClockOK
<1>4. WorkersOK
  <2>1. \A w \in Workers : worker[w] = Idle
    BY DEF Init
  <2>2. \A w \in Workers : WorkerOK(w)
    BY <1>1, <2>1, IdleTyped DEF Init, WorkerOK, At, ClockOK
  <2>3. worker \in [Workers -> WorkerState]
    BY IdleTyped DEF Init
  <2>4. OneDescriber
    BY <2>1, IdleTyped DEF OneDescriber, At
  <2> QED
    BY <2>2, <2>3, <2>4 DEF WorkersOK
<1> QED
  BY <1>1, <1>2, <1>3, <1>4 DEF IInv

----------------------------------------------------------------------------
(* The threads.                                                            *)

\* A thread that starts, or goes on to its next table, or returns.
LEMMA WorkerRests ==
    ASSUME IInv, NEW w \in Workers, NEW s,
           \/ s = Idle
           \/ \E X \in SUBSET Tables, c \in Int :
                s = [Idle EXCEPT !.pc = "query", !.todo = X, !.cutoff = c],
           worker' = [worker EXCEPT ![w] = s], now' = now
    PROVE  /\ s \in WorkerState /\ s.pc \in {"idle", "query"} /\ s.rows = {} /\ s.id = NoId
           /\ worker'[w] = s /\ WorkerOK(w)'
<1>1. now \in Nat
  BY NowIsNat
<1>2. s \in WorkerState /\ s.pc \in {"idle", "query"} /\ s.rows = {} /\ s.id = NoId
  <2>1. CASE s = Idle
    BY <1>1, <2>1, IdleTyped
  <2>2. CASE \E X \in SUBSET Tables, c \in Int :
                s = [Idle EXCEPT !.pc = "query", !.todo = X, !.cutoff = c]
    <3>1. PICK X \in SUBSET Tables, c \in Int :
                s = [Idle EXCEPT !.pc = "query", !.todo = X, !.cutoff = c]
      BY <2>2
    <3> QED
      BY <3>1, IdleTyped DEF WorkerState
  <2> QED
    BY <2>1, <2>2
<1>3. worker'[w] = s
  BY DEF IInv, WorkersOK
<1>4. WorkerOK(w)'
  BY <1>2, <1>3 DEF WorkerOK, At
<1> QED
  BY <1>2, <1>3, <1>4

\* The state a thread skips to.
LEMMA SkipRests ==
    ASSUME IInv, NEW w \in Workers, NEW rest \in SUBSET Tables, Skip(w, rest)
    PROVE  \E s :
             /\ worker' = [worker EXCEPT ![w] = s]
             /\ \/ s = Idle
                \/ \E X \in SUBSET Tables, c \in Int :
                     s = [Idle EXCEPT !.pc = "query", !.todo = X, !.cutoff = c]
<1>1. worker[w].cutoff \in Int
  BY DEF IInv, WorkersOK, WorkerState
<1>2. CASE rest = {}
  BY <1>2 DEF Skip
<1>3. CASE rest # {}
  <2> DEFINE s == [Idle EXCEPT !.pc = "query", !.todo = rest, !.cutoff = worker[w].cutoff]
  <2>1. worker' = [worker EXCEPT ![w] = s]
    BY <1>3 DEF Skip
  <2> QED
    BY <1>1, <2>1
<1> QED
  BY <1>2, <1>3

LEMMA NextTableSkips ==
    ASSUME IInv, NEW w \in Workers, NextTable(w)
    PROVE  worker[w].todo \in SUBSET Tables /\ Skip(w, worker[w].todo)
  BY DEF IInv, WorkersOK, WorkerState, NextTable

\* Such a step preserves the invariant, with whatever it does to the transaction.
LEMMA SkipPreserves ==
    ASSUME IInv, NEW w \in Workers, NEW rest \in SUBSET Tables,
           Skip(w, rest) \/ Return(w),
           UNCHANGED <<now, born, written, data, meta, cleaner>>,
           ConnOK', \A r \in written : r \notin table' \/ r \in del' => Safe(r) \/ r \in swept'
    PROVE  IInv'
<1>1. PICK s :
         /\ worker' = [worker EXCEPT ![w] = s]
         /\ \/ s = Idle
            \/ \E X \in SUBSET Tables, c \in Int :
                 s = [Idle EXCEPT !.pc = "query", !.todo = X, !.cutoff = c]
  BY SkipRests DEF Return
<1>2. s \in WorkerState /\ s.pc \in {"idle", "query"} /\ WorkerOK(w)'
  BY <1>1, WorkerRests
<1> QED
  BY <1>1, <1>2, WorkerMoves

LEMMA StartsPreserve ==
    ASSUME IInv, NEW w \in Workers,
           \/ ScheduledArchival(w)
           \/ \E t \in Tables, cutoff \in ManualCutoffs : ManualArchival(w, t, cutoff)
    PROVE  IInv'
<1>1. now \in Nat /\ HotRetention \in Nat /\ ManualCutoffs \subseteq Int
  BY NowIsNat, ArchivalAssumption
<1>2. PICK X \in SUBSET Tables, c \in Int :
         worker' = [worker EXCEPT ![w] = [Idle EXCEPT !.pc = "query", !.todo = X, !.cutoff = c]]
  <2>1. CASE ScheduledArchival(w)
    <3>1. Tables \in SUBSET Tables /\ now - HotRetention \in Int
      BY <1>1
    <3> QED
      BY <2>1, <3>1 DEF ScheduledArchival
  <2>2. CASE \E t \in Tables, cutoff \in ManualCutoffs : ManualArchival(w, t, cutoff)
    <3>1. PICK t \in Tables, cutoff \in ManualCutoffs : ManualArchival(w, t, cutoff)
      BY <2>2
    <3>2. {t} \in SUBSET Tables
      OBVIOUS
    <3> QED
      BY <1>1, <3>1, <3>2 DEF ManualArchival
  <2> QED
    BY <2>1, <2>2
<1> DEFINE s == [Idle EXCEPT !.pc = "query", !.todo = X, !.cutoff = c]
<1>3. UNCHANGED <<now, born, written, table, data, meta, cleaner>> /\ UNCHANGED conn
  BY DEF ScheduledArchival, ManualArchival, db, store
<1>4. worker' = [worker EXCEPT ![w] = s]
  BY <1>2
<1>5. \E Y \in SUBSET Tables, d \in Int :
         s = [Idle EXCEPT !.pc = "query", !.todo = Y, !.cutoff = d]
  BY <1>2
<1> HIDE DEF s
<1>6. s \in WorkerState /\ s.pc \in {"idle", "query"} /\ WorkerOK(w)'
  BY <1>3, <1>4, <1>5, WorkerRests
<1>7. ConnOK' /\ \A r \in written : r \notin table' \/ r \in del' => Safe(r) \/ r \in swept'
  BY <1>3, TxKept
<1> QED
  BY <1>3, <1>4, <1>6, <1>7, WorkerMoves

\* A chunk is taken from the records that the connection sees.
LEMMA QueryPreserves ==
    ASSUME IInv, NEW w \in Workers, NEW t \in Tables, Query(w, t)
    PROVE  IInv'
<1>1. /\ UNCHANGED <<now, born, written, table, data, meta, cleaner>>
      /\ At(w, "query") /\ t \in worker[w].todo
      /\ worker[w] \in WorkerState /\ WorkerOK(w)
      /\ worker[w].todo \ {t} \in SUBSET Tables
  BY DEF Query, db, store, IInv, WorkersOK, WorkerState
<1> DEFINE rest == worker[w].todo \ {t}
<1>2. CASE Skip(w, rest) /\ (UNCHANGED conn \/ Abort \/ (tx' = "open" /\ UNCHANGED <<ins, del, swept>>))
  <2>1. ConnOK' /\ \A r \in written : r \notin table' \/ r \in del' => Safe(r) \/ r \in swept'
    BY <1>1, <1>2, TxKept
  <2> QED
    BY <1>1, <1>2, <2>1, SkipPreserves
<1>3. ASSUME NEW chunk, IsChunk(chunk, Old(t, worker[w].cutoff)), chunk # {},
             tx' = "open", UNCHANGED <<ins, del, swept>>,
             worker' = [worker EXCEPT ![w] =
               [worker[w] EXCEPT !.pc = "upload", !.todo = rest, !.table = t, !.rows = chunk]]
      PROVE  IInv'
  <2> DEFINE s == [worker[w] EXCEPT !.pc = "upload", !.todo = rest, !.table = t, !.rows = chunk]
  <2>1. chunk \subseteq Old(t, worker[w].cutoff)
    BY <1>3 DEF IsChunk
  <2>2. chunk \subseteq written /\ chunk \subseteq Rows
    BY <2>1 DEF Old, OlderThan, Visible, IInv, ConnOK, ClockOK
  <2>3. s \in WorkerState /\ s.pc = "upload" /\ s.table = t /\ s.rows = chunk
        /\ s.cutoff = worker[w].cutoff
    BY <1>1, <2>2 DEF WorkerState
  <2>4. worker'[w] = s
    BY <1>3 DEF IInv, WorkersOK
  <2> HIDE DEF s
  <2>6. \A r : Safe(r)' = Safe(r)
    BY <1>1, SafeUnchanged
  <2>7. WorkerOK(w)'
    BY <1>1, <1>3, <2>2, <2>3, <2>4, <2>6 DEF WorkerOK, At
  <2>8. ConnOK' /\ \A r \in written : r \notin table' \/ r \in del' => Safe(r) \/ r \in swept'
    BY <1>1, <1>3, TxKept
  <2>9. worker' = [worker EXCEPT ![w] = s]
    BY <1>3 DEF s
  <2> QED
    BY <1>1, <2>3, <2>7, <2>8, <2>9, WorkerMoves
<1> QED
  BY <1>2, <1>3 DEF Query

\* The data object is put under an id nobody knows: no archive is complete by it,
\* and nobody but the thread is concerned.
LEMMA DataPut ==
    ASSUME IInv, NEW w \in Workers, NEW a \in ArchiveIds, At(w, "upload"), Fresh(a),
           data' = [data EXCEPT ![a] = Packed(worker[w].rows, worker[w].table)],
           NEW s, worker' = [worker EXCEPT ![w] = s],
           UNCHANGED <<now, born, written, table, tx, ins, del, swept, meta, cleaner>>
    PROVE  /\ ClockOK' /\ ConnOK' /\ RecordsOK' /\ StoreOK' /\ CleanerOK'
           /\ \A r : Safe(r)' = Safe(r)
           /\ \A v \in Workers \ {w} : WorkerOK(v)' /\ worker'[v] = worker[v]
           /\ data'[a] # NoObject /\ data'[a].rows = worker[w].rows /\ meta'[a] = NoObject
<1>1. /\ worker[w] \in WorkerState /\ WorkerOK(w)
      /\ worker[w].rows \in SUBSET Rows /\ worker[w].table \in Tables
      /\ worker[w].rows \subseteq written /\ worker[w].rows # {}
  BY DEF IInv, WorkersOK, WorkerOK, WorkerState, At
<1>2. Packed(worker[w].rows, worker[w].table) \in [rows : SUBSET Rows, table : Tables]
  BY <1>1 DEF Packed
<1>3. /\ data' \in [ArchiveIds -> [rows : SUBSET Rows, table : Tables] \cup {NoObject}]
      /\ data'[a] # NoObject /\ data'[a].rows = worker[w].rows /\ meta'[a] = NoObject
      /\ \A b \in ArchiveIds \ {a} : data'[b] = data[b]
      /\ meta' = meta /\ meta[a] = NoObject
  BY <1>2, ObjectFacts DEF IInv, StoreOK, Fresh, Packed
<1>4. \A b \in ArchiveIds : /\ Complete(b)' = Complete(b)
                            /\ Complete(b) => data'[b] = data[b]
  BY <1>3 DEF Complete
<1>5. \A r : Safe(r)' = Safe(r)
  BY <1>4 DEF Safe, Archived
<1>6. StoreOK'
  <2>1. \A b \in ArchiveIds :
           data'[b] # NoObject => data'[b].rows \subseteq written' /\ data'[b].rows # {}
    BY <1>1, <1>3 DEF IInv, StoreOK
  <2>2. \A b \in ArchiveIds :
           Complete(b)' => \A r \in data'[b].rows : meta'[b].until >= born'[r] + Retention
    BY <1>4 DEF IInv, StoreOK
  <2>3. meta' \in [ArchiveIds -> [until : Nat] \cup {NoObject}]
    BY DEF IInv, StoreOK
  <2> QED
    BY <1>3, <2>1, <2>2, <2>3 DEF StoreOK
<1>7. CleanerOK'
  BY <1>3 DEF IInv, CleanerOK, Expired, Fresh
<1>8. RecordsOK' /\ ClockOK' /\ ConnOK'
  BY <1>5 DEF IInv, RecordsOK, ClockOK, ConnOK
<1>9. ASSUME NEW v \in Workers \ {w} PROVE WorkerOK(v)' /\ worker'[v] = worker[v]
  <2>1. worker'[v] = worker[v] /\ WorkerOK(v) /\ worker[v].id # a
    BY DEF IInv, WorkersOK, Fresh
  <2>2. Describes(v) => Describes(v)'
    BY <1>3, <2>1 DEF Describes
  <2> QED
    BY <1>3, <1>5, <2>1, <2>2 DEF WorkerOK, At
<1> QED
  BY <1>3, <1>5, <1>6, <1>7, <1>8, <1>9

LEMMA UploadDataPreserves ==
    ASSUME IInv, NEW w \in Workers, NEW a \in ArchiveIds, UploadData(w, a) PROVE IInv'
<1>1. /\ UNCHANGED <<now, born, written, table, tx, ins, del, swept, meta, cleaner>> /\ UNCHANGED conn
      /\ At(w, "upload") /\ Fresh(a) /\ worker[w] \in WorkerState /\ WorkerOK(w)
  BY DEF UploadData, db, conn, IInv, WorkersOK
<1>2. NextTable(w) => \E s :
             /\ worker' = [worker EXCEPT ![w] = s]
             /\ \/ s = Idle
                \/ \E X \in SUBSET Tables, c \in Int :
                     s = [Idle EXCEPT !.pc = "query", !.todo = X, !.cutoff = c]
  BY NextTableSkips, SkipRests
<1>3. CASE NextTable(w) /\ UNCHANGED data
  <2>1. ConnOK' /\ \A r \in written : r \notin table' \/ r \in del' => Safe(r) \/ r \in swept'
    BY <1>1, TxKept
  <2> QED
    BY <1>1, <1>3, <2>1, NextTableSkips, SkipPreserves
<1>4. CASE NextTable(w) /\ data' = [data EXCEPT ![a] = Packed(worker[w].rows, worker[w].table)]
  <2>1. PICK s :
             /\ worker' = [worker EXCEPT ![w] = s]
             /\ \/ s = Idle
                \/ \E X \in SUBSET Tables, c \in Int :
                     s = [Idle EXCEPT !.pc = "query", !.todo = X, !.cutoff = c]
    BY <1>2, <1>4
  <2>2. s \in WorkerState /\ s.pc \in {"idle", "query"} /\ worker'[w] = s /\ WorkerOK(w)'
    BY <1>1, <2>1, WorkerRests
  <2>3. /\ ClockOK' /\ ConnOK' /\ RecordsOK' /\ StoreOK' /\ CleanerOK'
        /\ \A v \in Workers \ {w} : WorkerOK(v)' /\ worker'[v] = worker[v]
    BY <1>1, <1>4, <2>1, DataPut
  <2>4. OneDescriber' /\ worker' \in [Workers -> WorkerState]
    BY <2>1, <2>2, <2>3 DEF IInv, WorkersOK, OneDescriber, At
  <2> QED
    BY <2>2, <2>3, <2>4 DEF IInv, WorkersOK
<1>5. CASE /\ data' = [data EXCEPT ![a] = Packed(worker[w].rows, worker[w].table)]
           /\ worker' = [worker EXCEPT ![w] =
                [worker[w] EXCEPT !.pc = "describe", !.id = a, !.until = now + Retention]]
  <2> DEFINE s == [worker[w] EXCEPT !.pc = "describe", !.id = a, !.until = now + Retention]
  <2>1. now \in Nat /\ now + Retention \in Nat
    BY NowIsNat, ArchivalAssumption
  <2>2. /\ s \in WorkerState /\ s.pc = "describe" /\ s.id = a /\ s.until = now + Retention
        /\ s.rows = worker[w].rows /\ s.table = worker[w].table /\ s.cutoff = worker[w].cutoff
    BY <1>1, <2>1 DEF WorkerState
  <2>3. /\ worker' = [worker EXCEPT ![w] = s] /\ worker'[w] = s
        /\ data' = [data EXCEPT ![a] = Packed(worker[w].rows, worker[w].table)]
    BY <1>5 DEF IInv, WorkersOK
  <2> HIDE DEF s
  <2>4. /\ ClockOK' /\ ConnOK' /\ RecordsOK' /\ StoreOK' /\ CleanerOK'
        /\ \A r : Safe(r)' = Safe(r)
        /\ \A v \in Workers \ {w} : WorkerOK(v)' /\ worker'[v] = worker[v]
        /\ data'[a] # NoObject /\ data'[a].rows = worker[w].rows /\ meta'[a] = NoObject
    BY <1>1, <2>3, DataPut
  <2>5. Describes(w)'
    <3>1. \A r \in worker[w].rows : now + Retention >= born[r] + Retention
      BY <1>1, <2>1, ArchivalAssumption DEF WorkerOK, IInv, ClockOK
    <3> QED
      BY <1>1, <2>2, <2>3, <2>4, <3>1 DEF Describes, Fresh
  <2>6. WorkerOK(w)'
    BY <1>1, <2>2, <2>3, <2>4, <2>5 DEF WorkerOK, At
  <2>7. \A v \in Workers \ {w} : worker'[v].id # a
    BY <1>1, <2>4 DEF Fresh
  <2>8. OneDescriber' /\ worker' \in [Workers -> WorkerState]
    BY <2>2, <2>3, <2>4, <2>7 DEF IInv, WorkersOK, OneDescriber, At
  <2> QED
    BY <2>4, <2>6, <2>8 DEF IInv, WorkersOK
<1> QED
  BY <1>3, <1>4, <1>5 DEF UploadData

\* The metadata completes the archive: its records are kept as long as they must be.
LEMMA MetadataPut ==
    ASSUME IInv, NEW w \in Workers, At(w, "describe"),
           meta' = [meta EXCEPT ![worker[w].id] = Metadata(worker[w].until)],
           NEW s, worker' = [worker EXCEPT ![w] = s],
           UNCHANGED <<now, born, written, table, tx, ins, del, swept, data, cleaner>>
    PROVE  /\ ClockOK' /\ ConnOK' /\ RecordsOK' /\ StoreOK' /\ CleanerOK'
           /\ \A r : Safe(r) => Safe(r)'
           /\ \A r \in worker[w].rows : Safe(r)'
           /\ \A v \in Workers \ {w} : WorkerOK(v)' /\ worker'[v] = worker[v]
<1> DEFINE a == worker[w].id
<1>1. worker[w] \in WorkerState /\ WorkerOK(w) /\ Describes(w) /\ a \in ArchiveIds
  BY DEF IInv, WorkersOK, WorkerOK, Describes
<1>2. /\ meta' \in [ArchiveIds -> [until : Nat] \cup {NoObject}]
      /\ meta'[a] # NoObject /\ meta'[a].until = worker[w].until
      /\ \A b \in ArchiveIds \ {a} : meta'[b] = meta[b]
      /\ data' = data /\ data[a] # NoObject /\ data[a].rows = worker[w].rows
      /\ meta[a] = NoObject /\ a \notin cleaner.expired
  <2>1. worker[w].until \in Nat
    BY <1>1 DEF WorkerState
  <2>2. Metadata(worker[w].until) \in [until : Nat]
    BY <2>1 DEF Metadata
  <2>3. Metadata(worker[w].until) # NoObject /\ Metadata(worker[w].until).until = worker[w].until
    BY <2>2, ObjectFacts DEF Metadata
  <2> HIDE DEF a
  <2>4. meta' = [meta EXCEPT ![a] = Metadata(worker[w].until)]
    BY DEF a
  <2>5. meta \in [ArchiveIds -> [until : Nat] \cup {NoObject}]
    BY DEF IInv, StoreOK
  <2> QED
    BY <1>1, <2>2, <2>3, <2>4, <2>5 DEF Describes, a
<1> HIDE DEF a
<1>3. \A b \in ArchiveIds : Complete(b) => Complete(b)' /\ data'[b] = data[b]
  BY <1>2 DEF Complete
<1>4. \A r : Safe(r) => Safe(r)'
  BY <1>3 DEF Safe, Archived
<1>5. \A r \in worker[w].rows : Safe(r)'
  BY <1>1, <1>2 DEF Safe, Archived, Complete
<1>6. StoreOK'
  <2>1. \A b \in ArchiveIds :
           data'[b] # NoObject => data'[b].rows \subseteq written' /\ data'[b].rows # {}
    BY <1>2 DEF IInv, StoreOK
  <2>2. ASSUME NEW b \in ArchiveIds, Complete(b)', NEW r \in data'[b].rows
        PROVE  meta'[b].until >= born'[r] + Retention
    <3>1. CASE b = a
      BY <1>1, <1>2, <2>2, <3>1 DEF Describes
    <3>2. CASE b # a
      BY <1>2, <2>2, <3>2 DEF Complete, IInv, StoreOK
    <3> QED
      BY <3>1, <3>2
  <2>3. data' \in [ArchiveIds -> [rows : SUBSET Rows, table : Tables] \cup {NoObject}]
    BY DEF IInv, StoreOK
  <2> QED
    BY <1>2, <2>1, <2>2, <2>3 DEF StoreOK
<1>7. CleanerOK'
  <2>1. cleaner.expired \subseteq ArchiveIds
    BY DEF IInv, CleanerOK, CleanerState
  <2> QED
    BY <1>2, <2>1 DEF IInv, CleanerOK, Expired
<1>8. RecordsOK' /\ ClockOK' /\ ConnOK'
  BY <1>4 DEF IInv, RecordsOK, ClockOK, ConnOK
<1>9. ASSUME NEW v \in Workers \ {w} PROVE WorkerOK(v)' /\ worker'[v] = worker[v]
  <2>1. worker'[v] = worker[v] /\ WorkerOK(v) /\ (At(v, "describe") => worker[v].id # a)
    BY DEF IInv, WorkersOK, OneDescriber, a
  <2>2. At(v, "describe") => Describes(v)'
    BY <1>2, <2>1 DEF Describes, WorkerOK
  <2> QED
    BY <1>2, <1>4, <2>1, <2>2 DEF WorkerOK, At
<1> QED
  BY <1>4, <1>5, <1>6, <1>7, <1>8, <1>9

LEMMA PutMetadataPreserves == ASSUME IInv, NEW w \in Workers, PutMetadata(w) PROVE IInv'
<1>1. /\ UNCHANGED <<now, born, written, table, tx, ins, del, swept, data, cleaner>> /\ UNCHANGED conn
      /\ At(w, "describe") /\ worker[w] \in WorkerState /\ WorkerOK(w)
  BY DEF PutMetadata, db, conn, IInv, WorkersOK
<1>2. CASE NextTable(w) /\ UNCHANGED meta
  <2>1. ConnOK' /\ \A r \in written : r \notin table' \/ r \in del' => Safe(r) \/ r \in swept'
    BY <1>1, TxKept
  <2> QED
    BY <1>1, <1>2, <2>1, NextTableSkips, SkipPreserves
<1>3. ASSUME meta' = [meta EXCEPT ![worker[w].id] = Metadata(worker[w].until)],
             NEW s \in WorkerState, worker' = [worker EXCEPT ![w] = s],
             s.pc # "describe",
             (\A r : Safe(r) => Safe(r)') /\ (\A r \in worker[w].rows : Safe(r)') => WorkerOK(w)'
      PROVE  IInv'
  <2>1. /\ ClockOK' /\ ConnOK' /\ RecordsOK' /\ StoreOK' /\ CleanerOK'
        /\ \A r : Safe(r) => Safe(r)'
        /\ \A r \in worker[w].rows : Safe(r)'
        /\ \A v \in Workers \ {w} : WorkerOK(v)' /\ worker'[v] = worker[v]
    BY <1>1, <1>3, MetadataPut
  <2>2. worker' \in [Workers -> WorkerState] /\ worker'[w] = s
    BY <1>3 DEF IInv, WorkersOK
  <2>3. OneDescriber'
    BY <1>3, <2>1, <2>2 DEF IInv, WorkersOK, OneDescriber, At
  <2> QED
    BY <1>3, <2>1, <2>2, <2>3 DEF IInv, WorkersOK
<1>4. CASE NextTable(w) /\ meta' = [meta EXCEPT ![worker[w].id] = Metadata(worker[w].until)]
  <2>1. PICK s :
             /\ worker' = [worker EXCEPT ![w] = s]
             /\ \/ s = Idle
                \/ \E X \in SUBSET Tables, c \in Int :
                     s = [Idle EXCEPT !.pc = "query", !.todo = X, !.cutoff = c]
    BY <1>4, NextTableSkips, SkipRests
  <2>2. s \in WorkerState /\ s.pc \in {"idle", "query"} /\ WorkerOK(w)'
    BY <1>1, <2>1, WorkerRests
  <2> QED
    BY <1>3, <1>4, <2>1, <2>2
<1>5. CASE /\ meta' = [meta EXCEPT ![worker[w].id] = Metadata(worker[w].until)]
           /\ worker' = [worker EXCEPT ![w] =
                [worker[w] EXCEPT !.pc = "delete", !.id = NoId, !.until = 0]]
  <2> DEFINE s == [worker[w] EXCEPT !.pc = "delete", !.id = NoId, !.until = 0]
  <2>1. s \in WorkerState /\ s.pc = "delete" /\ s.rows = worker[w].rows
    BY <1>1 DEF WorkerState
  <2>2. worker' = [worker EXCEPT ![w] = s] /\ worker'[w] = s
    BY <1>5 DEF IInv, WorkersOK
  <2> HIDE DEF s
  <2>3. ASSUME \A r : Safe(r) => Safe(r)', \A r \in worker[w].rows : Safe(r)'
        PROVE  WorkerOK(w)'
    BY <1>1, <2>1, <2>2, <2>3 DEF WorkerOK, At
  <2> QED
    BY <1>3, <1>5, <2>1, <2>2, <2>3
<1> QED
  BY <1>2, <1>4, <1>5 DEF PutMetadata

\* What the DELETE reaches is in an archive, or is recorded as swept away.
LEMMA DeleteArchivedPreserves == ASSUME IInv, NEW w \in Workers, DeleteArchived(w) PROVE IInv'
<1>1. /\ UNCHANGED <<now, born, written, table, data, meta, cleaner>>
      /\ At(w, "delete") /\ worker[w] \in WorkerState /\ WorkerOK(w)
  BY DEF DeleteArchived, db, store, IInv, WorkersOK
<1>2. CASE NextTable(w) /\ (UNCHANGED conn \/ Abort)
  <2>1. ConnOK' /\ \A r \in written : r \notin table' \/ r \in del' => Safe(r) \/ r \in swept'
    BY <1>1, <1>2, TxKept
  <2> QED
    BY <1>1, <1>2, <2>1, NextTableSkips, SkipPreserves
<1> DEFINE old == Old(worker[w].table, worker[w].cutoff)
<1>3. CASE /\ tx' = "open" /\ ins' = ins \ old /\ del' = del \cup (old \cap table)
           /\ swept' = swept \cup {r \in (old \cap table) \ worker[w].rows : ~Archived(r)}
           /\ worker' = [worker EXCEPT ![w] = [worker[w] EXCEPT !.pc = "commit", !.rows = {}]]
  <2> DEFINE s == [worker[w] EXCEPT !.pc = "commit", !.rows = {}]
  <2>1. s \in WorkerState /\ s.pc = "commit" /\ s.rows = {}
    BY <1>1 DEF WorkerState
  <2>2. worker' = [worker EXCEPT ![w] = s] /\ worker'[w] = s
    BY <1>3 DEF IInv, WorkersOK
  <2> HIDE DEF s
  <2>3. WorkerOK(w)'
    BY <1>1, <2>1, <2>2 DEF WorkerOK, At
  <2>4. \A r \in old \cap table : Safe(r) \/ r \in swept'
    <3> HIDE DEF old
    <3> QED
      BY <1>1, <1>3 DEF WorkerOK, Safe
  <2>5. ConnOK' /\ \A r \in written : r \notin table' \/ r \in del' => Safe(r) \/ r \in swept'
    <3> HIDE DEF old
    <3> QED
      BY <1>1, <1>3, <2>4 DEF IInv, ConnOK, RecordsOK
  <2> QED
    BY <1>1, <2>1, <2>2, <2>3, <2>5, WorkerMoves
<1> QED
  BY <1>2, <1>3 DEF DeleteArchived

LEMMA CommitsPreserve ==
    ASSUME IInv, NEW w \in Workers, CommitDelete(w) \/ CommitRestored(w) PROVE IInv'
<1>1. UNCHANGED <<now, born, written, data, meta, cleaner>>
  BY DEF CommitDelete, CommitRestored, CommitTx, db, store
<1>2. ConnOK' /\ \A r \in written : r \notin table' \/ r \in del' => Safe(r) \/ r \in swept'
  <2>1. CommitTx \/ UNCHANGED <<table, conn>>
    BY DEF CommitDelete, CommitRestored, db
  <2> QED
    BY <1>1, <2>1, TxKept
<1>3. NextTable(w) \/ Return(w)
  BY DEF CommitDelete, CommitRestored
<1> QED
  BY <1>1, <1>2, <1>3, NextTableSkips, SkipPreserves

LEMMA GetMetadataPreserves ==
    ASSUME IInv, NEW w \in Workers, NEW a \in ArchiveIds, GetMetadata(w, a) PROVE IInv'
<1> DEFINE s == [Idle EXCEPT !.pc = "download", !.id = a]
<1>1. /\ UNCHANGED <<now, born, written, table, data, meta, cleaner>> /\ UNCHANGED conn
      /\ meta[a] # NoObject
  BY DEF GetMetadata, db, store
<1>2. s \in WorkerState /\ s.pc = "download" /\ s.rows = {} /\ s.id = a /\ s.cutoff = 0
  BY IdleTyped DEF WorkerState
<1>3. worker' = [worker EXCEPT ![w] = s] /\ worker'[w] = s
  BY DEF GetMetadata, IInv, WorkersOK
<1> HIDE DEF s
<1>4. WorkerOK(w)'
  BY <1>1, <1>2, <1>3, NowIsNat DEF WorkerOK, At
<1>5. ConnOK' /\ \A r \in written : r \notin table' \/ r \in del' => Safe(r) \/ r \in swept'
  BY <1>1, TxKept
<1> QED
  BY <1>1, <1>2, <1>3, <1>4, <1>5, WorkerMoves

LEMMA DownloadPreserves == ASSUME IInv, NEW w \in Workers, Download(w) PROVE IInv'
<1>1. /\ UNCHANGED <<now, born, written, table, data, meta, cleaner>> /\ UNCHANGED conn
      /\ worker[w] \in WorkerState /\ WorkerOK(w) /\ At(w, "download")
  BY DEF Download, db, store, IInv, WorkersOK
<1>2. ConnOK' /\ \A r \in written : r \notin table' \/ r \in del' => Safe(r) \/ r \in swept'
  BY <1>1, TxKept
<1>3. CASE Return(w)
  BY <1>1, <1>2, <1>3, SkipPreserves
<1> DEFINE object == data[worker[w].id]
           s == [worker[w] EXCEPT !.pc = "restore", !.rows = object.rows, !.id = NoId]
<1>4. CASE object # NoObject /\ worker' = [worker EXCEPT ![w] = s]
  <2>1. object.rows \subseteq written /\ object.rows \subseteq Rows
    BY <1>1, <1>4 DEF WorkerOK, IInv, StoreOK, ClockOK
  <2>2. s \in WorkerState /\ s.pc = "restore" /\ s.rows = object.rows
        /\ s.cutoff = worker[w].cutoff
    BY <1>1, <2>1 DEF WorkerState
  <2>3. worker' = [worker EXCEPT ![w] = s] /\ worker'[w] = s
    BY <1>4 DEF IInv, WorkersOK
  <2> HIDE DEF s, object
  <2>4. WorkerOK(w)'
    BY <1>1, <2>1, <2>2, <2>3 DEF WorkerOK, At
  <2> QED
    BY <1>1, <1>2, <2>2, <2>3, <2>4, WorkerMoves
<1> QED
  BY <1>3, <1>4 DEF Download, Stored, Unpacked

LEMMA InsertRecordPreserves ==
    ASSUME IInv, NEW w \in Workers, NEW r \in Rows, InsertRecord(w, r) PROVE IInv'
<1> DEFINE next == IF worker[w].rows = {r} THEN "restored" ELSE "restore"
           s == [worker[w] EXCEPT !.rows = worker[w].rows \ {r}, !.pc = next]
<1>1. /\ UNCHANGED <<now, born, written, table, data, meta, cleaner>>
      /\ worker[w] \in WorkerState /\ WorkerOK(w) /\ At(w, "restore")
      /\ r \in written
  BY DEF InsertRecord, db, store, IInv, WorkersOK, WorkerOK
<1>2. next \in {"restored", "restore"}
  OBVIOUS
<1> HIDE DEF next
<1>3. s \in WorkerState /\ s.pc \in {"restored", "restore"} /\ s.rows = worker[w].rows \ {r}
      /\ s.cutoff = worker[w].cutoff
  BY <1>1, <1>2 DEF WorkerState
<1>4. worker' = [worker EXCEPT ![w] = s] /\ worker'[w] = s
  BY DEF InsertRecord, NextRecord, IInv, WorkersOK, next
<1> HIDE DEF s
<1>5. WorkerOK(w)'
  BY <1>1, <1>3, <1>4 DEF WorkerOK, At
<1>6. ConnOK' /\ \A q \in written : q \notin table' \/ q \in del' => Safe(q) \/ q \in swept'
  <2>1. CASE UNCHANGED conn \/ Abort
    BY <1>1, <2>1, TxKept
  <2>2. CASE tx' = "open" /\ del' = del \ {r} /\ ins' = Inserted(r) /\ UNCHANGED swept
    BY <1>1, <2>2 DEF Inserted, IInv, ConnOK, RecordsOK
  <2> QED
    BY <2>1, <2>2 DEF InsertRecord
<1> QED
  BY <1>1, <1>3, <1>4, <1>5, <1>6, WorkerMoves

----------------------------------------------------------------------------
(* The cleanup.                                                            *)

\* Where the cleanup goes on to.
LEMMA ContinueTyped ==
    ASSUME IInv, NEW todo \in SUBSET Tables, NEW expired \in SUBSET ArchiveIds,
           Continue(todo, expired)
    PROVE  /\ cleaner' \in CleanerState /\ cleaner'.pc \in {"idle", "list", "delete"}
           /\ cleaner'.id = NoId /\ cleaner'.expired \subseteq expired
           /\ cleaner'.started = cleaner.started \/ cleaner' = Resting
<1>1. CASE expired = {} /\ todo = {}
  BY <1>1, IdleTyped DEF Continue
<1>2. CASE ~(expired = {} /\ todo = {})
  <2> DEFINE next == IF expired = {} THEN "list" ELSE "delete"
             c == [cleaner EXCEPT !.pc = next, !.todo = todo, !.expired = expired, !.id = NoId]
  <2>1. cleaner \in CleanerState
    BY DEF IInv, CleanerOK
  <2>2. next \in {"list", "delete"}
    OBVIOUS
  <2>3. cleaner' = c
    BY <1>2 DEF Continue
  <2> HIDE DEF next
  <2>4. /\ c \in CleanerState /\ c.pc \in {"list", "delete"} /\ c.id = NoId
        /\ c.expired = expired /\ c.started = cleaner.started
    BY <2>1, <2>2 DEF CleanerState
  <2> QED
    BY <2>3, <2>4
<1> QED
  BY <1>1, <1>2

\* A step of the cleanup only deletes objects of expired archives, the metadata
\* after the data: what they kept, they need not keep any longer.
LEMMA CleanerMoves ==
    ASSUME IInv, UNCHANGED <<now, born, written, table, tx, ins, del, swept, worker>>,
           \A a \in ArchiveIds :
             /\ data'[a] = data[a] \/ (data'[a] = NoObject /\ a \in cleaner.expired)
             /\ meta'[a] = meta[a]
                  \/ (meta'[a] = NoObject /\ data[a] = NoObject /\ a \in cleaner.expired),
           data' \in [ArchiveIds -> [rows : SUBSET Rows, table : Tables] \cup {NoObject}],
           meta' \in [ArchiveIds -> [until : Nat] \cup {NoObject}],
           \A w \in Workers : At(w, "describe") => worker[w].id \notin cleaner'.expired,
           CleanerOK'
    PROVE  IInv'
<1>1. \A a \in ArchiveIds : Complete(a)' => Complete(a) /\ data'[a] = data[a] /\ meta'[a] = meta[a]
  BY DEF Complete
<1>2. \A a \in ArchiveIds :
         Complete(a) => a \in cleaner.expired \/ (Complete(a)' /\ data'[a] = data[a])
  BY DEF Complete
<1>3. ASSUME NEW r \in written, Safe(r) PROVE Safe(r)'
  <2>1. CASE now > born[r] + Retention
    BY <2>1 DEF Safe
  <2>2. CASE Archived(r)
    <3>1. PICK a \in ArchiveIds : Complete(a) /\ r \in data[a].rows
      BY <2>2 DEF Archived
    <3>2. CASE a \in cleaner.expired
      <4>1. meta[a].until >= born[r] + Retention /\ cleaner.started > meta[a].until
            /\ meta[a].until \in Nat
        BY <3>1, <3>2 DEF IInv, StoreOK, CleanerOK, Expired
      <4>2. cleaner.started <= now /\ cleaner.started \in Nat
        BY DEF IInv, CleanerOK, CleanerState
      <4>3. now \in Nat /\ born[r] \in Nat /\ Retention \in Nat
        BY NowIsNat, ArchivalAssumption DEF IInv, ClockOK
      <4>4. now > born[r] + Retention
        BY <4>1, <4>2, <4>3
      <4> QED
        BY <4>4 DEF Safe
    <3>3. CASE Complete(a)' /\ data'[a] = data[a]
      BY <3>1, <3>3 DEF Safe, Archived
    <3> QED
      BY <1>2, <3>1, <3>2, <3>3
  <2> QED
    BY <1>3, <2>1, <2>2 DEF Safe
<1>4. StoreOK'
  BY <1>1 DEF IInv, StoreOK
<1>5. RecordsOK' /\ ClockOK' /\ ConnOK'
  BY <1>3 DEF IInv, RecordsOK, ClockOK, ConnOK
<1>6. ASSUME NEW w \in Workers PROVE WorkerOK(w)'
  <2>1. WorkerOK(w)
    BY DEF IInv, WorkersOK
  <2>2. At(w, "describe") => Describes(w)'
    BY <2>1 DEF WorkerOK, Describes
  <2>3. At(w, "download") =>
          (data'[worker[w].id] # NoObject => meta'[worker[w].id] # NoObject)
    BY <2>1 DEF WorkerOK
  <2> QED
    BY <1>3, <2>1, <2>2, <2>3 DEF WorkerOK, At
<1>7. WorkersOK'
  BY <1>6 DEF IInv, WorkersOK, OneDescriber, At
<1> QED
  BY <1>3, <1>4, <1>5, <1>7 DEF IInv

\* The archive being described is none of those the cleanup has listed.
LEMMA DescribedNotExpired ==
    ASSUME IInv, NEW w \in Workers, At(w, "describe")
    PROVE  worker[w].id \notin cleaner.expired /\ meta[worker[w].id] = NoObject
  BY DEF IInv, WorkersOK, WorkerOK, Describes

\* A step of the cleanup that touches nothing of the store.
LEMMA OnlyCleanerMoves ==
    ASSUME IInv, UNCHANGED <<now, born, written, table, tx, ins, del, swept, data, meta, worker>>,
           \A w \in Workers : At(w, "describe") => worker[w].id \notin cleaner'.expired,
           CleanerOK'
    PROVE  IInv'
<1>1. /\ data' \in [ArchiveIds -> [rows : SUBSET Rows, table : Tables] \cup {NoObject}]
      /\ meta' \in [ArchiveIds -> [until : Nat] \cup {NoObject}]
  BY DEF IInv, StoreOK
<1> QED
  BY <1>1, CleanerMoves

\* It goes on with archives that were over when it started.
LEMMA ContinueOK ==
    ASSUME IInv, NEW todo \in SUBSET Tables, NEW expired \in SUBSET ArchiveIds,
           Continue(todo, expired), now' = now,
           \A a \in expired : meta'[a] = meta[a] /\ Expired(a, cleaner.started)
    PROVE  CleanerOK'
<1>1. /\ cleaner' \in CleanerState /\ cleaner'.pc \in {"idle", "list", "delete"}
      /\ cleaner'.id = NoId /\ cleaner'.expired \subseteq expired
      /\ cleaner'.started = cleaner.started \/ cleaner' = Resting
  BY ContinueTyped
<1>2. cleaner.started <= now
  BY DEF IInv, CleanerOK
<1>3. CASE cleaner' = Resting
  BY <1>3, IdleTyped, NowIsNat DEF CleanerOK
<1>4. CASE cleaner'.started = cleaner.started
  BY <1>1, <1>2, <1>4 DEF CleanerOK, Expired
<1> QED
  BY <1>1, <1>3, <1>4

LEMMA RestingOK == ASSUME IInv, cleaner' = Resting, now' = now PROVE CleanerOK'
  BY IdleTyped, NowIsNat DEF CleanerOK

LEMMA StartCleanupPreserves == IInv /\ StartCleanup => IInv'
<1> SUFFICES ASSUME IInv, StartCleanup PROVE IInv'
  OBVIOUS
<1> DEFINE c == [Resting EXCEPT !.pc = "list", !.todo = Tables, !.started = now]
<1>1. UNCHANGED <<now, born, written, table, tx, ins, del, swept, data, meta, worker>>
  BY DEF StartCleanup, db, conn, store
<1>2. c \in CleanerState /\ c.pc = "list" /\ c.expired = {} /\ c.id = NoId /\ c.started = now
  BY IdleTyped, NowIsNat DEF CleanerState
<1>3. cleaner' = c
  BY DEF StartCleanup
<1> HIDE DEF c
<1>4. CleanerOK'
  BY <1>1, <1>2, <1>3, NowIsNat DEF CleanerOK
<1> QED
  BY <1>1, <1>2, <1>3, <1>4, OnlyCleanerMoves

LEMMA ListArchivesPreserves ==
    ASSUME IInv, NEW t \in Tables, NEW readable \in SUBSET ArchiveIds, ListArchives(t, readable)
    PROVE  IInv'
<1> DEFINE expired == {a \in Listed(t) \cap readable : Expired(a, cleaner.started)}
           todo == cleaner.todo \ {t}
<1>1. UNCHANGED <<now, born, written, table, tx, ins, del, swept, data, meta, worker>>
  BY DEF ListArchives, db, conn, store
<1>2. expired \in SUBSET ArchiveIds /\ todo \in SUBSET Tables /\ Continue(todo, expired)
  BY DEF ListArchives, IInv, CleanerOK, CleanerState
<1>3. \A a \in expired : meta[a] # NoObject /\ Expired(a, cleaner.started)
  BY DEF Expired
<1> HIDE DEF expired, todo
<1>4. CleanerOK'
  BY <1>1, <1>2, <1>3, ContinueOK
<1>5. \A w \in Workers : At(w, "describe") => worker[w].id \notin cleaner'.expired
  <2>1. cleaner'.expired \subseteq expired
    BY <1>2, ContinueTyped
  <2> QED
    BY <1>3, <2>1, DescribedNotExpired
<1> QED
  BY <1>1, <1>4, <1>5, OnlyCleanerMoves

LEMMA SkipArchivePreserves ==
    ASSUME IInv, NEW a \in ArchiveIds, SkipArchive(a)
    PROVE  IInv'
<1> DEFINE expired == cleaner.expired \ {a}
<1>1. UNCHANGED <<now, born, written, table, tx, ins, del, swept, data, meta, worker>>
  BY DEF SkipArchive, db, conn, store
<1>2. expired \in SUBSET ArchiveIds /\ cleaner.todo \in SUBSET Tables
      /\ Continue(cleaner.todo, expired)
  BY DEF SkipArchive, IInv, CleanerOK, CleanerState
<1>3. \A b \in expired : b \in cleaner.expired /\ Expired(b, cleaner.started)
  BY DEF IInv, CleanerOK
<1> HIDE DEF expired
<1>4. CleanerOK'
  BY <1>1, <1>2, <1>3, ContinueOK
<1>5. \A w \in Workers : At(w, "describe") => worker[w].id \notin cleaner'.expired
  BY <1>2, <1>3, ContinueTyped, DescribedNotExpired
<1> QED
  BY <1>1, <1>4, <1>5, OnlyCleanerMoves

LEMMA DeleteDataPreserves ==
    ASSUME IInv, NEW a \in ArchiveIds, DeleteData(a)
    PROVE  IInv'
<1> DEFINE c == [cleaner EXCEPT !.pc = "deletemeta", !.id = a]
<1>1. /\ UNCHANGED <<now, born, written, table, tx, ins, del, swept, meta, worker>>
      /\ a \in cleaner.expired /\ cleaner \in CleanerState
      /\ data' = [data EXCEPT ![a] = NoObject]
  BY DEF DeleteData, db, conn, IInv, CleanerOK
<1>2. /\ data' \in [ArchiveIds -> [rows : SUBSET Rows, table : Tables] \cup {NoObject}]
      /\ meta' \in [ArchiveIds -> [until : Nat] \cup {NoObject}]
      /\ data'[a] = NoObject /\ \A b \in ArchiveIds \ {a} : data'[b] = data[b]
  BY <1>1 DEF IInv, StoreOK
<1>3. c \in CleanerState /\ c.pc = "deletemeta" /\ c.id = a /\ c.expired = cleaner.expired
      /\ c.started = cleaner.started
  BY <1>1 DEF CleanerState
<1>4. cleaner' = c
  BY DEF DeleteData
<1> HIDE DEF c
<1>5. CleanerOK'
  BY <1>1, <1>2, <1>3, <1>4 DEF IInv, CleanerOK, Expired
<1>6. \A w \in Workers : At(w, "describe") => worker[w].id \notin cleaner'.expired
  BY <1>3, <1>4, DescribedNotExpired
<1> QED
  BY <1>1, <1>2, <1>5, <1>6, CleanerMoves

LEMMA DeleteMetadataPreserves == IInv /\ DeleteMetadata => IInv'
<1> SUFFICES ASSUME IInv, DeleteMetadata PROVE IInv'
  OBVIOUS
<1> DEFINE a == cleaner.id
           expired == cleaner.expired \ {a}
<1>1. /\ UNCHANGED <<now, born, written, table, tx, ins, del, swept, data, worker>>
      /\ a \in ArchiveIds /\ data[a] = NoObject /\ a \in cleaner.expired
      /\ UNCHANGED meta \/ meta' = [meta EXCEPT ![a] = NoObject]
  BY ObjectFacts DEF DeleteMetadata, db, conn, IInv, CleanerOK
<1>2. expired \in SUBSET ArchiveIds /\ cleaner.todo \in SUBSET Tables
      /\ Continue(cleaner.todo, expired)
  BY DEF DeleteMetadata, IInv, CleanerOK, CleanerState
<1>3. /\ data' \in [ArchiveIds -> [rows : SUBSET Rows, table : Tables] \cup {NoObject}]
      /\ meta' \in [ArchiveIds -> [until : Nat] \cup {NoObject}]
      /\ meta'[a] = meta[a] \/ meta'[a] = NoObject
      /\ \A b \in ArchiveIds \ {a} : meta'[b] = meta[b]
  <2> HIDE DEF a
  <2>1. CASE UNCHANGED meta
    BY <1>1, <2>1 DEF IInv, StoreOK
  <2>2. CASE meta' = [meta EXCEPT ![a] = NoObject]
    BY <1>1, <2>2 DEF IInv, StoreOK
  <2> QED
    BY <1>1, <2>1, <2>2
<1>4. \A b \in expired : b # a /\ b \in cleaner.expired /\ Expired(b, cleaner.started)
  BY DEF IInv, CleanerOK
<1> HIDE DEF a, expired
<1>5. CleanerOK'
  BY <1>1, <1>2, <1>3, <1>4, ContinueOK
<1>6. \A w \in Workers : At(w, "describe") => worker[w].id \notin cleaner'.expired
  BY <1>2, <1>4, ContinueTyped, DescribedNotExpired
<1> QED
  BY <1>1, <1>3, <1>5, <1>6, CleanerMoves

\* An interrupted deletion may have happened.
LEMMA CleanupFailsPreserves == IInv /\ CleanupFails => IInv'
<1> SUFFICES ASSUME IInv, CleanupFails PROVE IInv'
  OBVIOUS
<1>1. /\ UNCHANGED <<now, born, written, table, tx, ins, del, swept, worker>> /\ cleaner' = Resting
      /\ cleaner.expired \subseteq ArchiveIds
      /\ data \in [ArchiveIds -> [rows : SUBSET Rows, table : Tables] \cup {NoObject}]
      /\ meta \in [ArchiveIds -> [until : Nat] \cup {NoObject}]
  BY DEF CleanupFails, db, conn, IInv, CleanerOK, CleanerState, StoreOK
<1>2. CleanerOK' /\ \A w \in Workers : At(w, "describe") => worker[w].id \notin cleaner'.expired
  BY <1>1, RestingOK, IdleTyped
<1>3. CASE UNCHANGED store
  BY <1>1, <1>2, <1>3, OnlyCleanerMoves DEF store
<1>4. ASSUME NEW a \in cleaner.expired, data' = [data EXCEPT ![a] = NoObject], UNCHANGED meta
      PROVE  IInv'
  <2>1. /\ data' \in [ArchiveIds -> [rows : SUBSET Rows, table : Tables] \cup {NoObject}]
        /\ \A b \in ArchiveIds : data'[b] = data[b] \/ (data'[b] = NoObject /\ b = a)
    BY <1>1, <1>4
  <2> QED
    BY <1>1, <1>2, <1>4, <2>1, CleanerMoves
<1>5. CASE /\ cleaner.pc = "deletemeta" /\ UNCHANGED data
           /\ meta' = [meta EXCEPT ![cleaner.id] = NoObject]
  <2>1. cleaner.id \in cleaner.expired /\ data[cleaner.id] = NoObject
    BY <1>5, ObjectFacts DEF IInv, CleanerOK
  <2>2. /\ meta' \in [ArchiveIds -> [until : Nat] \cup {NoObject}]
        /\ \A b \in ArchiveIds : meta'[b] = meta[b] \/ (meta'[b] = NoObject /\ b = cleaner.id)
    BY <1>1, <1>5, <2>1
  <2> QED
    BY <1>1, <1>2, <1>5, <2>1, <2>2, CleanerMoves
<1> QED
  BY <1>3, <1>4, <1>5 DEF CleanupFails

----------------------------------------------------------------------------
(* The environment.                                                        *)

LEMMA TickPreserves == IInv /\ Tick => IInv'
<1> SUFFICES ASSUME IInv, Tick PROVE IInv'
  OBVIOUS
<1>1. /\ UNCHANGED <<born, written, table, tx, ins, del, swept, data, meta, worker, cleaner>>
      /\ now \in Nat /\ now' = now + 1 /\ now' \in 0..MaxTime
  BY NowIsNat, ArchivalAssumption DEF Tick, db, conn, store, IInv, ClockOK
<1>2. ClockOK'
  <2>1. \A r \in written : born[r] \in Nat /\ born[r] <= now
    BY DEF IInv, ClockOK
  <2>2. \A r \in written : born[r] <= now + 1
    BY <1>1, <2>1
  <2> QED
    BY <1>1, <2>2 DEF IInv, ClockOK
<1>3. \A r \in written : Safe(r) => Safe(r)'
  <2>1. \A r \in written : born[r] + Retention \in Nat
    BY ArchivalAssumption DEF IInv, ClockOK
  <2> QED
    BY <1>1, <2>1 DEF Safe, Archived, Complete
<1>4. ASSUME NEW w \in Workers PROVE WorkerOK(w)'
  <2>1. WorkerOK(w)
    BY DEF IInv, WorkersOK
  <2>2. Describes(w)' = Describes(w)
    BY <1>1 DEF Describes
  <2> QED
    BY <1>1, <1>3, <2>1, <2>2 DEF WorkerOK, At
<1>5. WorkersOK'
  BY <1>1, <1>4 DEF IInv, WorkersOK, OneDescriber, At
<1>6. RecordsOK' /\ ConnOK' /\ StoreOK'
  BY <1>1, <1>3 DEF IInv, RecordsOK, ConnOK, StoreOK, Complete
<1>7. CleanerOK'
  <2>1. cleaner.started \in Nat /\ cleaner.started <= now + 1
    BY <1>1 DEF IInv, CleanerOK, CleanerState
  <2> QED
    BY <1>1, <2>1 DEF IInv, CleanerOK, Expired
<1> QED
  BY <1>2, <1>3, <1>5, <1>6, <1>7 DEF IInv

\* A record is written to its table, with a date of its own.
LEMMA WriteRecordPreserves ==
    ASSUME IInv, NEW q \in Rows, WriteRecord(q)
    PROVE  IInv'
<1>1. /\ UNCHANGED <<now, tx, ins, del, swept, data, meta, worker, cleaner>>
      /\ q \notin written /\ written' = written \cup {q} /\ table' = table \cup {q}
      /\ born' \in [Rows -> 0..MaxTime] /\ born'[q] <= now
      /\ \A r \in written : born'[r] = born[r]
  <2>1. PICK date \in 0..now : born' = [born EXCEPT ![q] = date]
    BY DEF WriteRecord
  <2>2. date \in 0..MaxTime /\ date <= now
    BY <2>1, NowIsNat, ArchivalAssumption DEF IInv, ClockOK
  <2>3. born \in [Rows -> 0..MaxTime] /\ written \subseteq Rows
    BY DEF IInv, ClockOK
  <2> QED
    BY <2>1, <2>2, <2>3 DEF WriteRecord, conn, store
<1>2. ClockOK' /\ ConnOK'
  BY <1>1, NowIsNat DEF IInv, ClockOK, ConnOK
<1>3. \A r \in written : Safe(r) => Safe(r)'
  BY <1>1 DEF Safe, Archived, Complete
<1>4. RecordsOK'
  BY <1>1, <1>3 DEF IInv, RecordsOK, ConnOK
<1>5. StoreOK' /\ CleanerOK'
  <2>1. \A a \in ArchiveIds : Complete(a)' = Complete(a)
    BY <1>1 DEF Complete
  <2>2. ASSUME NEW a \in ArchiveIds, Complete(a), NEW r \in data[a].rows
        PROVE  meta[a].until >= born'[r] + Retention
    <3>1. r \in written /\ meta[a].until >= born[r] + Retention
      BY <2>2 DEF IInv, StoreOK, Complete
    <3> QED
      BY <1>1, <3>1
  <2> QED
    BY <1>1, <2>1, <2>2 DEF IInv, StoreOK, CleanerOK, Expired
<1>6. ASSUME NEW w \in Workers PROVE WorkerOK(w)'
  <2>1. WorkerOK(w)
    BY DEF IInv, WorkersOK
  <2>2. Describes(w) /\ worker[w].rows \subseteq written => Describes(w)'
    BY <1>1 DEF Describes
  <2> QED
    BY <1>1, <1>3, <2>1, <2>2 DEF WorkerOK, At
<1>7. WorkersOK'
  BY <1>1, <1>6 DEF IInv, WorkersOK, OneDescriber, At
<1> QED
  BY <1>2, <1>3, <1>4, <1>5, <1>7 DEF IInv

LEMMA LoseConnectionPreserves == IInv /\ LoseConnection => IInv'
<1> SUFFICES ASSUME IInv, LoseConnection PROVE IInv'
  OBVIOUS
<1>1. /\ UNCHANGED <<now, born, written, data, meta, worker, cleaner>>
      /\ tx' = "closed" /\ ins' = {} /\ del' = {} /\ swept' = swept \ table'
      /\ table' = table \/ table' = Committed
  BY DEF LoseConnection, End, store
<1>2. ConnOK' /\ \A r \in written : r \notin table' \/ r \in del' => Safe(r) \/ r \in swept'
  BY <1>1 DEF IInv, ConnOK, RecordsOK, Committed
<1>3. \A r : Safe(r)' = Safe(r)
  BY <1>1, SafeUnchanged
<1>4. RecordsOK' /\ ClockOK' /\ StoreOK' /\ CleanerOK'
  BY <1>1, <1>2, <1>3, StoreUnchanged DEF IInv, RecordsOK, ClockOK, CleanerOK, Expired
<1>5. WorkersOK'
  BY <1>1, WorkerUnchanged DEF IInv, WorkersOK, OneDescriber, At
<1> QED
  BY <1>2, <1>3, <1>4, <1>5 DEF IInv

LEMMA RestartPreserves == IInv /\ Restart => IInv'
<1> SUFFICES ASSUME IInv, Restart PROVE IInv'
  OBVIOUS
<1>1. /\ UNCHANGED <<now, born, written, table, data, meta>>
      /\ tx' = "idle" /\ ins' = {} /\ del' = {} /\ swept' = swept \ table'
      /\ cleaner' = Resting /\ worker' = [w \in Workers |-> Idle]
  BY DEF Restart, End, db, store
<1>2. \A r : Safe(r)' = Safe(r)
  BY <1>1, SafeUnchanged
<1>3. ConnOK' /\ RecordsOK' /\ ClockOK'
  BY <1>1, <1>2 DEF IInv, ConnOK, RecordsOK, ClockOK
<1>4. StoreOK' /\ CleanerOK'
  BY <1>1, StoreUnchanged, RestingOK DEF IInv
<1>5. \A w \in Workers : worker'[w] = Idle
  BY <1>1
<1>6. \A w \in Workers : WorkerOK(w)'
  BY <1>1, <1>5, IdleTyped, NowIsNat DEF WorkerOK, At
<1>7. WorkersOK'
  BY <1>1, <1>5, <1>6, IdleTyped DEF WorkersOK, OneDescriber, At
<1> QED
  BY <1>2, <1>3, <1>4, <1>7 DEF IInv

----------------------------------------------------------------------------
(* The theorems.                                                           *)

LEMMA ArchivePreserves == ASSUME IInv, NEW w \in Workers, Archive(w) PROVE IInv'
  BY StartsPreserve, QueryPreserves, UploadDataPreserves, PutMetadataPreserves,
     DeleteArchivedPreserves, CommitsPreserve DEF Archive

LEMMA RestorePreserves == ASSUME IInv, NEW w \in Workers, Restore(w) PROVE IInv'
  BY GetMetadataPreserves, DownloadPreserves, InsertRecordPreserves, CommitsPreserve DEF Restore

LEMMA CleanupPreserves == ASSUME IInv, Cleanup PROVE IInv'
  BY StartCleanupPreserves, ListArchivesPreserves, SkipArchivePreserves, DeleteDataPreserves,
     DeleteMetadataPreserves, CleanupFailsPreserves DEF Cleanup

LEMMA NextPreserves == IInv /\ [Next]_vars => IInv'
<1> SUFFICES ASSUME IInv, [Next]_vars PROVE IInv'
  OBVIOUS
<1>1. CASE Next
  BY <1>1, ArchivePreserves, RestorePreserves, CleanupPreserves, TickPreserves,
     WriteRecordPreserves, LoseConnectionPreserves, RestartPreserves DEF Next
<1>2. CASE UNCHANGED vars
  <2>1. /\ UNCHANGED <<now, born, written, table, tx, ins, del, swept, data, meta, worker, cleaner>>
        /\ UNCHANGED conn
    BY <1>2 DEF vars, db, conn, store
  <2>2. ConnOK' /\ RecordsOK' /\ ClockOK' /\ StoreOK' /\ CleanerOK'
    BY <2>1, TxKept, SafeUnchanged, StoreUnchanged
    DEF IInv, RecordsOK, ClockOK, CleanerOK, Expired
  <2>3. WorkersOK'
    BY <2>1, WorkerUnchanged DEF IInv, WorkersOK, OneDescriber, At
  <2> QED
    BY <2>2, <2>3 DEF IInv
<1> QED
  BY <1>1, <1>2

\* The inductive invariant: a record that is not in its table, or that a transaction
\* takes out of it, is in a complete archive, past its retention, or swept away; what
\* a thread is about to delete as archived is so; an archive's retention date is late
\* enough for each of its records; and the cleanup has listed only archives that were
\* over when it started.
THEOREM Invariance == Spec => []IInv
  BY InitIInv, NextPreserves, PTL DEF Spec

\* The types of the variables; in particular what the shared transaction inserted
\* is never in the table already, and every data object holds records.
THEOREM TypeCorrect == Spec => []TypeOK
  BY TypesFollow, Invariance, PTL

\* Seven-year retention: however archivals, restorations and the cleanup interleave
\* on the one connection, whatever call fails, whenever the process dies and however
\* the records are dated, one whose retention is not over is in its table or in a
\* complete archive, unless a DELETE swept it away that its SELECT had not returned
\* (archival_service.py:135-146, 157).
THEOREM NothingLost == Spec => []NoRecordLost
<1>1. IInv => NoRecordLost
  <2>1. SUFFICES ASSUME IInv, NEW r \in written \ swept, now <= born[r] + Retention, r \notin table
                 PROVE  Archived(r)
    BY DEF NoRecordLost
  <2>2. now \in Nat /\ Retention \in Nat /\ born[r] \in 0..MaxTime /\ MaxTime \in Nat
    BY NowIsNat, ArchivalAssumption, <2>1 DEF IInv, ClockOK
  <2>3. ~(now > born[r] + Retention)
    BY <2>1, <2>2
  <2> QED
    BY <2>1, <2>3 DEF IInv, RecordsOK, Safe
<1> QED
  BY <1>1, Invariance, PTL

----------------------------------------------------------------------------
(* The service implements RecordRetention.                                 *)

\* A record that is in no table, no complete archive and nobody's hands.
Forgotten(r) == r \in written /\ r \notin table /\ ~Archived(r) /\ ~InFlight(r)

\* It stays so over a step of a thread that takes no record from elsewhere.
LEMMA ForgottenByThread ==
    ASSUME NEW r, Forgotten(r), NEW w \in Workers, NEW s,
           worker \in [Workers -> WorkerState], worker' = [worker EXCEPT ![w] = s],
           s.rows \subseteq worker[w].rows \cup table \cup ins \/ (\A q \in s.rows : Archived(q)),
           table' \subseteq table \cup ins, ins' \subseteq ins \cup worker[w].rows,
           written' = written, Archived(r)' => Archived(r)
    PROVE  Forgotten(r)'
<1>1. worker'[w] = s /\ \A v \in Workers \ {w} : worker'[v] = worker[v]
  OBVIOUS
<1>2. r \notin s.rows /\ r \notin table' /\ r \notin ins'
  BY DEF Forgotten, InFlight
<1> QED
  BY <1>1, <1>2 DEF Forgotten, InFlight

\* What a transaction holds only comes from the table or goes to it.
LEMMA ForgottenTx ==
    ASSUME \/ UNCHANGED <<table, conn>>
           \/ UNCHANGED table /\ Abort
           \/ UNCHANGED <<table, ins, del, swept>>
           \/ CommitTx
    PROVE  table' \subseteq table \cup ins /\ ins' \subseteq ins
  BY DEF conn, Abort, CommitTx, End, Committed

LEMMA ArchivedUnchanged == ASSUME UNCHANGED store, NEW r PROVE Archived(r)' = Archived(r)
  BY DEF Archived, Complete, store

\* A thread that skips or returns carries nothing.
LEMMA ForgottenBySkip ==
    ASSUME NEW r, Forgotten(r), NEW w \in Workers, NEW rest, Skip(w, rest) \/ Return(w),
           worker \in [Workers -> WorkerState],
           table' \subseteq table \cup ins, ins' \subseteq ins,
           written' = written, Archived(r)' => Archived(r)
    PROVE  Forgotten(r)'
<1> DEFINE s == IF Return(w) \/ rest = {} THEN Idle
                ELSE [Idle EXCEPT !.pc = "query", !.todo = rest, !.cutoff = worker[w].cutoff]
<1>1. worker' = [worker EXCEPT ![w] = s]
  BY DEF Skip, Return
<1>2. s.rows = {}
  BY DEF Idle
<1> HIDE DEF s
<1> QED
  BY <1>1, <1>2, ForgottenByThread

LEMMA ForgottenByArchive ==
    ASSUME IInv, NEW r, Forgotten(r), NEW w \in Workers, Archive(w) PROVE Forgotten(r)'
<1>1. worker \in [Workers -> WorkerState] /\ worker[w] \in WorkerState
  BY DEF IInv, WorkersOK
<1>2. CASE ScheduledArchival(w) \/ \E t \in Tables, cutoff \in ManualCutoffs : ManualArchival(w, t, cutoff)
  <2>1. UNCHANGED <<written, table, ins, store>>
    BY <1>2 DEF ScheduledArchival, ManualArchival, db, conn
  <2>2. PICK X, c :
           worker' = [worker EXCEPT ![w] = [Idle EXCEPT !.pc = "query", !.todo = X, !.cutoff = c]]
    BY <1>2 DEF ScheduledArchival, ManualArchival
  <2> DEFINE s == [Idle EXCEPT !.pc = "query", !.todo = X, !.cutoff = c]
  <2>3. s.rows = {} /\ worker' = [worker EXCEPT ![w] = s]
    BY <2>2 DEF Idle
  <2> HIDE DEF s
  <2> QED
    BY <1>1, <2>1, <2>3, ArchivedUnchanged, ForgottenByThread
<1>3. ASSUME NEW t \in Tables, Query(w, t) PROVE Forgotten(r)'
  <2>1. UNCHANGED <<written, table, store>> /\ ins' \subseteq ins
    BY <1>3 DEF Query, db, conn, Abort, End
  <2>2. CASE Skip(w, worker[w].todo \ {t})
    BY <1>1, <2>1, <2>2, ArchivedUnchanged, ForgottenBySkip
  <2>3. ASSUME NEW chunk \in SUBSET Old(t, worker[w].cutoff),
               worker' = [worker EXCEPT ![w] =
                 [worker[w] EXCEPT !.pc = "upload", !.todo = worker[w].todo \ {t},
                                   !.table = t, !.rows = chunk]]
        PROVE  Forgotten(r)'
    <3> DEFINE s == [worker[w] EXCEPT !.pc = "upload", !.todo = worker[w].todo \ {t},
                                      !.table = t, !.rows = chunk]
    <3>1. s.rows = chunk /\ chunk \subseteq table \cup ins
      BY <1>1 DEF WorkerState, Old, OlderThan, Visible
    <3>2. worker' = [worker EXCEPT ![w] = s]
      BY <2>3
    <3> HIDE DEF s
    <3> QED
      BY <1>1, <2>1, <3>1, <3>2, ArchivedUnchanged, ForgottenByThread
  <2> QED
    BY <1>3, <2>2, <2>3 DEF Query
<1>4. ASSUME NEW a \in ArchiveIds, UploadData(w, a) PROVE Forgotten(r)'
  <2>1. UNCHANGED <<written, table, ins, meta>> /\ Fresh(a)
        /\ (UNCHANGED data \/ data' = [data EXCEPT ![a] = Packed(worker[w].rows, worker[w].table)])
    BY <1>4 DEF UploadData, db, conn
  <2>2. Archived(r)' => Archived(r)
    <3>1. \A b \in ArchiveIds : Complete(b)' => Complete(b) /\ data'[b] = data[b]
      BY <2>1 DEF Complete, Fresh, IInv, StoreOK
    <3> QED
      BY <3>1 DEF Archived
  <2>3. CASE NextTable(w)
    BY <1>1, <2>1, <2>2, <2>3, ForgottenBySkip DEF NextTable
  <2>4. CASE worker' = [worker EXCEPT ![w] =
               [worker[w] EXCEPT !.pc = "describe", !.id = a, !.until = now + Retention]]
    <3> DEFINE s == [worker[w] EXCEPT !.pc = "describe", !.id = a, !.until = now + Retention]
    <3>1. s.rows = worker[w].rows
      BY <1>1 DEF WorkerState
    <3>2. worker' = [worker EXCEPT ![w] = s]
      BY <2>4
    <3> HIDE DEF s
    <3> QED
      BY <1>1, <2>1, <2>2, <3>1, <3>2, ForgottenByThread
  <2> QED
    BY <1>4, <2>3, <2>4 DEF UploadData
<1>5. CASE PutMetadata(w)
  <2>1. UNCHANGED <<written, table, ins, data>> /\ At(w, "describe")
        /\ (UNCHANGED meta \/ meta' = [meta EXCEPT ![worker[w].id] = Metadata(worker[w].until)])
    BY <1>5 DEF PutMetadata, db, conn
  <2>2. Archived(r)' => Archived(r)
    <3>1. Describes(w)
      BY <2>1 DEF IInv, WorkersOK, WorkerOK
    <3>2. \A b \in ArchiveIds : Complete(b)' => Complete(b) \/ b = worker[w].id
      BY <2>1 DEF Complete, IInv, StoreOK
    <3>3. r \notin data[worker[w].id].rows
      BY <3>1 DEF Describes, Forgotten, InFlight
    <3> QED
      BY <2>1, <3>2, <3>3 DEF Archived
  <2>3. CASE NextTable(w)
    BY <1>1, <2>1, <2>2, <2>3, ForgottenBySkip DEF NextTable
  <2>4. CASE worker' = [worker EXCEPT ![w] =
               [worker[w] EXCEPT !.pc = "delete", !.id = NoId, !.until = 0]]
    <3> DEFINE s == [worker[w] EXCEPT !.pc = "delete", !.id = NoId, !.until = 0]
    <3>1. s.rows = worker[w].rows
      BY <1>1 DEF WorkerState
    <3>2. worker' = [worker EXCEPT ![w] = s]
      BY <2>4
    <3> HIDE DEF s
    <3> QED
      BY <1>1, <2>1, <2>2, <3>1, <3>2, ForgottenByThread
  <2> QED
    BY <1>5, <2>3, <2>4 DEF PutMetadata
<1>6. CASE DeleteArchived(w)
  <2>1. UNCHANGED <<written, table, store>> /\ ins' \subseteq ins
    BY <1>6 DEF DeleteArchived, db, conn, Abort, End
  <2>2. CASE NextTable(w)
    BY <1>1, <2>1, <2>2, ArchivedUnchanged, ForgottenBySkip DEF NextTable
  <2>3. CASE worker' = [worker EXCEPT ![w] = [worker[w] EXCEPT !.pc = "commit", !.rows = {}]]
    <3> DEFINE s == [worker[w] EXCEPT !.pc = "commit", !.rows = {}]
    <3>1. s.rows = {}
      BY <1>1 DEF WorkerState
    <3>2. worker' = [worker EXCEPT ![w] = s]
      BY <2>3
    <3> HIDE DEF s
    <3> QED
      BY <1>1, <2>1, <3>1, <3>2, ArchivedUnchanged, ForgottenByThread
  <2> QED
    BY <1>6, <2>2, <2>3 DEF DeleteArchived
<1>7. CASE CommitDelete(w)
  <2>1. UNCHANGED <<written, store>> /\ (CommitTx \/ UNCHANGED <<table, conn>>) /\ NextTable(w)
    BY <1>7 DEF CommitDelete, CommitTx, db
  <2> QED
    BY <1>1, <2>1, ForgottenTx, ArchivedUnchanged, ForgottenBySkip DEF NextTable
<1> QED
  BY <1>2, <1>3, <1>4, <1>5, <1>6, <1>7 DEF Archive

LEMMA ForgottenByRestore ==
    ASSUME IInv, NEW r, Forgotten(r), NEW w \in Workers, Restore(w) PROVE Forgotten(r)'
<1>1. worker \in [Workers -> WorkerState] /\ worker[w] \in WorkerState /\ WorkerOK(w)
  BY DEF IInv, WorkersOK
<1>2. ASSUME NEW a \in ArchiveIds, GetMetadata(w, a) PROVE Forgotten(r)'
  <2>1. UNCHANGED <<written, table, ins, store>>
    BY <1>2 DEF GetMetadata, db, conn
  <2> DEFINE s == [Idle EXCEPT !.pc = "download", !.id = a]
  <2>2. s.rows = {} /\ worker' = [worker EXCEPT ![w] = s]
    BY <1>2 DEF GetMetadata, Idle
  <2> HIDE DEF s
  <2> QED
    BY <1>1, <2>1, <2>2, ArchivedUnchanged, ForgottenByThread
<1>3. CASE Download(w)
  <2>1. UNCHANGED <<written, table, ins, store>> /\ At(w, "download")
    BY <1>3 DEF Download, db, conn
  <2>2. CASE Return(w)
    BY <1>1, <2>1, <2>2, ArchivedUnchanged, ForgottenBySkip
  <2> DEFINE object == data[worker[w].id]
             s == [worker[w] EXCEPT !.pc = "restore", !.rows = object.rows, !.id = NoId]
  <2>3. CASE object # NoObject /\ worker' = [worker EXCEPT ![w] = s]
    <3>1. s.rows = object.rows
      BY <1>1 DEF WorkerState
    <3>2. Complete(worker[w].id) /\ worker[w].id \in ArchiveIds
      BY <1>1, <2>1, <2>3 DEF WorkerOK, Complete
    <3>3. \A q \in s.rows : Archived(q)
      BY <3>1, <3>2 DEF Archived
    <3>4. worker' = [worker EXCEPT ![w] = s]
      BY <2>3
    <3> HIDE DEF s
    <3> QED
      BY <1>1, <2>1, <3>3, <3>4, ArchivedUnchanged, ForgottenByThread
  <2> QED
    BY <1>3, <2>2, <2>3 DEF Download, Stored, Unpacked
<1>4. ASSUME NEW q \in Rows, InsertRecord(w, q) PROVE Forgotten(r)'
  <2> DEFINE next == IF worker[w].rows = {q} THEN "restored" ELSE "restore"
             s == [worker[w] EXCEPT !.rows = worker[w].rows \ {q}, !.pc = next]
  <2>1. UNCHANGED <<written, table, store>> /\ ins' \subseteq ins \cup worker[w].rows
    BY <1>4 DEF InsertRecord, Inserted, db, conn, Abort, End
  <2>2. s.rows \subseteq worker[w].rows
    BY <1>1 DEF WorkerState
  <2>3. worker' = [worker EXCEPT ![w] = s]
    BY <1>4 DEF InsertRecord, NextRecord
  <2> HIDE DEF s
  <2> QED
    BY <1>1, <2>1, <2>2, <2>3, ArchivedUnchanged, ForgottenByThread
<1>5. CASE CommitRestored(w)
  <2>1. UNCHANGED <<written, store>> /\ (CommitTx \/ UNCHANGED <<table, conn>>) /\ Return(w)
    BY <1>5 DEF CommitRestored, CommitTx, db
  <2> QED
    BY <1>1, <2>1, ForgottenTx, ArchivedUnchanged, ForgottenBySkip
<1> QED
  BY <1>2, <1>3, <1>4, <1>5 DEF Restore

\* The cleanup only deletes; so does the loss of the connection or of the process.
LEMMA ForgottenByCleanup ==
    ASSUME IInv, NEW r, Forgotten(r), Cleanup PROVE Forgotten(r)'
<1>1. UNCHANGED <<written, table, ins, worker>>
  BY DEF Cleanup, StartCleanup, ListArchives, SkipArchive, DeleteData, DeleteMetadata,
         CleanupFails, db, conn
<1> DEFINE OnlyDeleted ==
             \A b \in ArchiveIds :
                 /\ (data'[b] = data[b] \/ data'[b] = NoObject)
                 /\ (meta'[b] = meta[b] \/ meta'[b] = NoObject)
<1>2. OnlyDeleted
  <2>1. CASE UNCHANGED store
    BY <2>1 DEF store
  <2>2. ASSUME NEW a, data' = [data EXCEPT ![a] = NoObject], UNCHANGED meta
        PROVE  OnlyDeleted
    BY <2>2 DEF IInv, StoreOK
  <2>3. ASSUME NEW a, meta' = [meta EXCEPT ![a] = NoObject], UNCHANGED data
        PROVE  OnlyDeleted
    BY <2>3 DEF IInv, StoreOK
  <2> HIDE DEF OnlyDeleted
  <2>4. ASSUME NEW a \in ArchiveIds, SkipArchive(a) \/ DeleteData(a) PROVE OnlyDeleted
    BY <2>1, <2>2, <2>4 DEF SkipArchive, DeleteData
  <2>5. CASE DeleteMetadata
    BY <2>1, <2>3, <2>5 DEF DeleteMetadata, store
  <2>6. CASE CleanupFails
    BY <2>1, <2>2, <2>3, <2>6 DEF CleanupFails
  <2>7. ASSUME NEW t \in Tables, NEW readable, ListArchives(t, readable) PROVE OnlyDeleted
    BY <2>1, <2>7 DEF ListArchives
  <2>8. CASE StartCleanup
    BY <2>1, <2>8 DEF StartCleanup
  <2> QED
    BY <2>4, <2>5, <2>6, <2>7, <2>8 DEF Cleanup
<1>3. Archived(r)' => Archived(r)
  BY <1>2 DEF Archived, Complete
<1> QED
  BY <1>1, <1>3 DEF Forgotten, InFlight

\* A record that nobody has in hands once it is gone is never brought back.
LEMMA ForgottenStays ==
    ASSUME IInv, NEW r \in Rows, Forgotten(r), Next PROVE Forgotten(r)'
<1>1. CASE \E w \in Workers : Archive(w) \/ Restore(w)
  BY <1>1, ForgottenByArchive, ForgottenByRestore
<1>2. CASE Cleanup
  BY <1>2, ForgottenByCleanup
<1>3. CASE Tick
  BY <1>3, ArchivedUnchanged DEF Tick, Forgotten, InFlight, db, conn
<1>4. ASSUME NEW q \in Rows, WriteRecord(q) PROVE Forgotten(r)'
  BY <1>4, ArchivedUnchanged DEF WriteRecord, Forgotten, InFlight, conn
<1>5. CASE LoseConnection
  BY <1>5, ArchivedUnchanged DEF LoseConnection, Committed, End, Forgotten, InFlight
<1>6. CASE Restart
  <2>1. \A w \in Workers : worker'[w].rows = {}
    BY <1>6 DEF Restart, Idle
  <2> QED
    BY <1>6, <2>1, ArchivedUnchanged DEF Restart, End, Forgotten, InFlight, db
<1> QED
  BY <1>1, <1>2, <1>3, <1>4, <1>5, <1>6 DEF Next

\* What is swept away comes from the table, and what is back in it is not swept.
LEMMA SweptMoves == Next => swept' \ swept \subseteq table /\ swept \ swept' \subseteq table'
<1> SUFFICES ASSUME Next PROVE swept' \ swept \subseteq table /\ swept \ swept' \subseteq table'
  OBVIOUS
<1>1. CASE swept' = swept \/ swept' = swept \ table'
  BY <1>1
<1>2. ASSUME NEW w \in Workers, DeleteArchived(w)
      PROVE  swept' \ swept \subseteq table /\ swept \ swept' \subseteq table'
  BY <1>1, <1>2 DEF DeleteArchived, Abort, End, conn
<1>3. ASSUME NEW w \in Workers, Archive(w), ~DeleteArchived(w)
      PROVE  swept' = swept \/ swept' = swept \ table'
  BY <1>3 DEF Archive, ScheduledArchival, ManualArchival, Query, UploadData, PutMetadata,
              CommitDelete, CommitTx, Abort, End, conn
<1>4. ASSUME NEW w \in Workers, Restore(w) PROVE swept' = swept \/ swept' = swept \ table'
  BY <1>4 DEF Restore, GetMetadata, Download, InsertRecord, CommitRestored, CommitTx, Abort,
              End, conn
<1>5. CASE Cleanup
  BY <1>5 DEF Cleanup, StartCleanup, ListArchives, SkipArchive, DeleteData, DeleteMetadata,
              CleanupFails, conn
<1>6. CASE Tick \/ (\E r \in Rows : WriteRecord(r)) \/ LoseConnection \/ Restart
  BY <1>6 DEF Tick, WriteRecord, LoseConnection, Restart, End, conn
<1> QED
  BY <1>1, <1>2, <1>3, <1>4, <1>5, <1>6 DEF Next

\* The four places, told apart by what keeps the record.
IsPlace(r) ==
    /\ r \notin written => Place(r) = "unborn"
    /\ r \in table => Place(r) = "table"
    /\ r \in written \ table /\ Archived(r) => Place(r) = "kept"
    /\ r \in written \ table /\ ~Archived(r) => Place(r) = "gone"

LEMMA PlaceFacts == ConnOK => \A r : IsPlace(r)
<1> SUFFICES ASSUME ConnOK, NEW r PROVE IsPlace(r)
  OBVIOUS
<1>1. r \in table => r \in written
  BY DEF ConnOK
<1>2. CASE r \notin written
  BY <1>1, <1>2 DEF IsPlace, Place
<1>3. CASE r \in table
  BY <1>1, <1>3 DEF IsPlace, Place
<1>4. CASE r \in written \ table
  BY <1>4 DEF IsPlace, Place
<1> QED
  BY <1>2, <1>3, <1>4

LEMMA PlaceNext == ConnOK' => (\A r : IsPlace(r))'
  BY PlaceFacts, PTL

\* Every step of a thread or of the cleanup, and every failure, is a Move.
LEMMA StepMoves ==
    ASSUME IInv, IInv', UNCHANGED <<now, born, written>>,
           \A r \in Rows : Forgotten(r) => Forgotten(r)',
           swept' \ swept \subseteq table, swept \ swept' \subseteq table'
    PROVE  Promise!Next
<1> DEFINE to == [r \in Rows |-> Place(r)']
<1>0. \A r : /\ IsPlace(r) /\ IsPlace(r)'
             /\ (r \in table => r \in written) /\ (r \in table' => r \in written)
  BY PlaceFacts, PlaceNext DEF IInv, ConnOK
<1>1. to \in [Rows -> Promise!Places]
  <2>1. \A r \in Rows : Place(r)' \in Promise!Places
    BY <1>0 DEF IsPlace, Promise!Places
  <2> QED
    BY <2>1
<1>2. ASSUME NEW r \in Rows PROVE Promise!MayGo(r, Place(r), Place(r)')
  <2>1. CASE r \notin written
    BY <1>0, <2>1 DEF IsPlace, Promise!MayGo
  <2>2. CASE r \in table' \/ Archived(r)'
    <3>1. CASE r \in table \/ Archived(r)
      BY <1>0, <2>1, <2>2, <3>1 DEF IsPlace, Promise!MayGo
    <3>2. CASE r \in written /\ r \notin table /\ ~Archived(r)
      <4>1. ~Forgotten(r)
        BY <2>2 DEF Forgotten
      <4>2. InFlight(r)
        BY <3>2, <4>1 DEF Forgotten
      <4> QED
        BY <1>0, <2>2, <3>2, <4>2 DEF IsPlace, Promise!MayGo
    <3> QED
      BY <2>1, <3>1, <3>2
  <2>3. CASE r \in written /\ r \notin table' /\ ~Archived(r)'
    <3>1. now > born[r] + Retention \/ r \in swept'
      BY <2>3 DEF IInv, RecordsOK, Safe
    <3> QED
      BY <1>0, <2>3, <3>1 DEF IsPlace, Promise!MayGo
  <2> QED
    BY <2>1, <2>2, <2>3
<1>3. ASSUME NEW r \in Rows, InFlight(r)', ~InFlight(r) PROVE Place(r) \in {"table", "kept"}
  <2>1. r \in written
    BY <1>3 DEF InFlight, IInv, ConnOK, WorkersOK, WorkerOK
  <2>2. ~Forgotten(r)
    BY <1>3 DEF Forgotten
  <2>3. r \in table \/ Archived(r)
    BY <1>3, <2>1, <2>2 DEF Forgotten
  <2> QED
    BY <1>0, <2>1, <2>3 DEF IsPlace
<1>4. \A r \in swept' \cup swept : r \in Rows
  BY DEF IInv, ConnOK, ClockOK
<1>5. \A r \in swept' \ swept : Place(r) = "table"
  BY <1>0 DEF IsPlace
<1>6. \A r \in swept \ swept' : Place(r)' = "table"
  BY <1>0 DEF IsPlace
<1>7. Promise!Move
  BY <1>1, <1>2, <1>3, <1>4, <1>5, <1>6 DEF Promise!Move
<1> QED
  BY <1>7 DEF Promise!Next

LEMMA StepImplements == IInv /\ IInv' /\ [Next]_vars => [Promise!Next]_(Promise!vars)
<1> SUFFICES ASSUME IInv, IInv', [Next]_vars PROVE [Promise!Next]_(Promise!vars)
  OBVIOUS
<1>1. CASE UNCHANGED vars
  <2>1. UNCHANGED <<now, born, written, table, ins, swept, worker, data, meta>>
    BY <1>1 DEF vars, db, conn, store
  <2>2. \A r : Place(r)' = Place(r) /\ InFlight(r)' = InFlight(r)
    BY <2>1 DEF Place, Archived, Complete, InFlight
  <2> QED
    BY <2>1, <2>2 DEF Promise!vars
<1>2. CASE Tick
  <2>1. UNCHANGED <<born, written, table, ins, swept, worker, data, meta>>
    BY <1>2 DEF Tick, db, conn, store
  <2>2. \A r : Place(r)' = Place(r) /\ InFlight(r)' = InFlight(r)
    BY <2>1 DEF Place, Archived, Complete, InFlight
  <2> QED
    BY <1>2, <2>1, <2>2 DEF Tick, Promise!Next, Promise!Tick
<1>3. ASSUME NEW q \in Rows, WriteRecord(q) PROVE Promise!Next
  <2>0. \A r : IsPlace(r) /\ IsPlace(r)'
    BY PlaceFacts, PlaceNext DEF IInv
  <2>1. /\ UNCHANGED <<now, ins, swept, worker, data, meta>> /\ q \notin written
        /\ written' = written \cup {q} /\ table' = table \cup {q}
        /\ \E date \in 0..now : born' = [born EXCEPT ![q] = date]
    BY <1>3 DEF WriteRecord, conn, store
  <2>2. \A r : Archived(r)' = Archived(r) /\ InFlight(r)' = InFlight(r)
    BY <2>1 DEF Archived, Complete, InFlight
  <2>3. /\ Place(q) = "unborn" /\ Place(q)' = "table"
        /\ \A r \in Rows \ {q} : Place(r)' = Place(r)
    <3>1. Place(q) = "unborn" /\ Place(q)' = "table"
      BY <2>0, <2>1 DEF IsPlace
    <3>2. ASSUME NEW r \in Rows \ {q} PROVE Place(r)' = Place(r)
      <4>1. /\ (r \in written') <=> r \in written
            /\ (r \in table') <=> r \in table
        BY <2>1
      <4> QED
        BY <2>0, <2>2, <4>1 DEF IsPlace
    <3> QED
      BY <3>1, <3>2
  <2>4. [r \in Rows |-> Place(r)]' = [[r \in Rows |-> Place(r)] EXCEPT ![q] = "table"]
    BY <2>3
  <2> QED
    BY <2>1, <2>2, <2>3, <2>4 DEF Promise!Next, Promise!Write
<1>4. CASE \/ \E w \in Workers : Archive(w) \/ Restore(w)
           \/ Cleanup \/ LoseConnection \/ Restart
  <2>1. UNCHANGED <<now, born, written>>
    BY <1>4
    DEF Archive, Restore, Cleanup, LoseConnection, Restart, ScheduledArchival, ManualArchival,
        Query, UploadData, PutMetadata, DeleteArchived, CommitDelete, CommitTx, GetMetadata,
        Download, InsertRecord, CommitRestored, StartCleanup, ListArchives, SkipArchive,
        DeleteData, DeleteMetadata, CleanupFails, End, db
  <2>2. \A r \in Rows : Forgotten(r) => Forgotten(r)'
    BY <1>4, ForgottenStays DEF Next
  <2>3. swept' \ swept \subseteq table /\ swept \ swept' \subseteq table'
    BY <1>4, SweptMoves DEF Next
  <2> QED
    BY <2>1, <2>2, <2>3, StepMoves
<1> QED
  BY <1>1, <1>2, <1>3, <1>4 DEF Next

LEMMA InitImplements == Init => Promise!Init
<1> SUFFICES ASSUME Init PROVE Promise!Init
  OBVIOUS
<1>1. \A r \in Rows : Place(r) = "unborn"
  BY DEF Init, Place
<1>2. {r \in Rows : InFlight(r)} = {}
  BY DEF Init, InFlight, Idle
<1> QED
  BY <1>1, <1>2 DEF Init, Promise!Init

\* The service implements RecordRetention: every call, failure and crash leaves a
\* record where it was or takes it where the promise allows. It is gone only after
\* its retention or swept away, and comes back only from the hands of a thread that
\* took it while it was still there.
THEOREM PromiseKept == Spec => KeepsItsPromise
<1>1. IInv /\ IInv' /\ [Next]_vars => [Promise!Next]_(Promise!vars)
  BY StepImplements
<1> QED
  BY <1>1, InitImplements, Invariance, PTL DEF Spec, KeepsItsPromise, Promise!Spec

=============================================================================
