------------------------ MODULE NccComplianceProofs ------------------------
(***************************************************************************)
(* The safety properties of NccCompliance, for any number of jobs, dates,  *)
(* retries and changes of the database.                                    *)
(***************************************************************************)
EXTENDS NccCompliance, SequenceTheorems, TLAPS

----------------------------------------------------------------------------
(* The inductive invariant.                                                *)

Uploading(j) == job[j].pc \in {"put", "rename"}
Submitting(j) == job[j].pc \in {"token", "post"}

\* The job has put every file up to now, or all of them: its date is its own.
Owner(j) ==
    \/ Uploading(j) /\ job[j].n > 1 /\ ~job[j].failed
    \/ Submitting(j)
    \/ received[j] > 0

\* The files an owner has put under their final names.
Uploaded(j) ==
    {f \in FileNames : Uploading(j) => \E m \in 1..(job[j].n - 1) : f = Files[m]}

\* A directory, here or on the server.
IsStore(s) ==
    /\ s \in [Dates -> [FileNames -> UNION {Contents(f) : f \in FileNames}]]
    /\ \A d \in Dates, f \in FileNames : s[d][f] \in Contents(f)

StoresOK == IsStore(local) /\ IsStore(remote)

\* Where the counters of a job stand at each of its steps.
PhaseOK(j) ==
    /\ job[j].pc # "waiting" => job[j].date \in Dates
    /\ job[j].pc = "query" => job[j].n \in DOMAIN Csv
    /\ job[j].pc \in {"waiting", "write", "disconnect", "connect"} => job[j].n = 1
    /\ job[j].pc \in {"waiting", "query", "write", "disconnect", "connect"} => ~job[j].failed
    /\ job[j].pc \in {"waiting", "query", "write", "disconnect", "connect", "put", "rename"} =>
         received[j] = 0 /\ job[j].retry = 0
    /\ Submitting(j) => received[j] <= job[j].retry /\ received[j] <= MaxRetries

\* What the job wrote is there until it is uploaded; only a job that runs at the
\* same time can have written something else.
WrittenOK(j) ==
    job[j].pc \in {"disconnect", "connect", "put", "rename"} =>
        \A f \in FileNames :
            /\ local[job[j].date][f] # Absent
            /\ job[j].date \notin overlapped =>
                 local[job[j].date][f] = Content(f, job[j].checksum)

UploadedOK(j) ==
    Owner(j) =>
        \A f \in Uploaded(j) :
            /\ remote[job[j].date][f] # Absent
            /\ job[j].date \notin overlapped =>
                 remote[job[j].date][f] = Content(f, job[j].checksum)

JobOK(j) == PhaseOK(j) /\ WrittenOK(j) /\ UploadedOK(j)

OneOwner ==
    \A j, k \in Jobs : Owner(j) /\ Owner(k) /\ job[j].date = job[k].date => j = k

OverlapSeen ==
    \A j, k \in Jobs :
        Active(j) /\ Active(k) /\ job[j].date = job[k].date /\ j # k => job[j].date \in overlapped

IInv == TypeOK /\ StoresOK /\ (\A j \in Jobs : JobOK(j)) /\ OneOwner /\ OverlapSeen

----------------------------------------------------------------------------
(* Lemmas about the files.                                                 *)

LEMMA FilesFacts ==
    /\ DOMAIN Csv = 1..3 /\ Len(Csv) = 3 /\ \A n \in 1..3 : Csv[n] \in CsvNames
    /\ DOMAIN Files = 1..4 /\ Len(Files) = 4
    /\ FileNames = {"stats", "alerts", "targets", "summary"}
    /\ CsvNames = {"stats", "alerts", "targets"}
    /\ Files[1] = "stats" /\ Files[2] = "alerts" /\ Files[3] = "targets" /\ Files[4] = "summary"
<1> DEFINE S == {"stats", "alerts", "targets", "summary"}
<1>1. /\ DOMAIN Csv = 1..3 /\ Len(Csv) = 3
      /\ Csv[1] = "stats" /\ Csv[2] = "alerts" /\ Csv[3] = "targets"
  BY DEF Csv
<1>2. DOMAIN Files = 1..4 /\ Len(Files) = 4
      /\ Files[1] = "stats" /\ Files[2] = "alerts" /\ Files[3] = "targets" /\ Files[4] = "summary"
  <2>1. Csv \in Seq(S)
    BY DEF Csv
  <2> HIDE DEF S
  <2>2. "summary" \in S
    BY DEF S
  <2>3. /\ Files \in Seq(S) /\ Len(Files) = Len(Csv) + 1
        /\ \A i \in 1..Len(Csv) : Files[i] = Csv[i]
        /\ Files[Len(Csv) + 1] = "summary"
    BY <2>1, <2>2, AppendProperties DEF Files
  <2> QED
    BY <1>1, <2>3, LenProperties
<1>3. FileNames = {"stats", "alerts", "targets", "summary"}
  BY <1>2 DEF FileNames
<1>4. CsvNames = {"stats", "alerts", "targets"}
  BY <1>3 DEF CsvNames
<1> QED
  BY <1>1, <1>2, <1>3, <1>4

\* A file that was written is not absent.
LEMMA ContentFacts ==
    ASSUME NEW f \in FileNames, NEW sum \in Checksums
    PROVE  /\ Content(f, sum) \in Contents(f)
           /\ Content(f, sum) # Absent /\ Short # Absent /\ Short \in Contents(f)
<1>1. DOMAIN Absent = {}
  BY DEF Absent
<1>2. DOMAIN Short = {"cut"}
  BY DEF Short
<1>3. Content(f, sum) # Absent
  <2>1. CASE f = "summary"
    <3>1. DOMAIN sum = CsvNames /\ "stats" \in CsvNames
      BY FilesFacts DEF Checksums
    <3> QED
      BY <1>1, <2>1, <3>1 DEF Content
  <2>2. CASE f # "summary"
    <3>1. DOMAIN Content(f, sum) = {f}
      BY <2>2 DEF Content
    <3> QED
      BY <1>1, <3>1
  <2> QED
    BY <2>1, <2>2
<1> QED
  BY <1>1, <1>2, <1>3 DEF Contents

LEMMA WaitingTyped ==
    /\ Waiting \in JobState
    /\ Waiting.pc = "waiting" /\ Waiting.date = NoDate /\ Waiting.n = 1 /\ ~Waiting.failed
    /\ Waiting.retry = 0
<1>1. Absent \in UNION {Contents(f) : f \in FileNames}
  <2>1. "stats" \in FileNames /\ Absent \in Contents("stats")
    BY FilesFacts DEF Contents
  <2> QED
    BY <2>1
<1>2. [f \in CsvNames |-> 0] \in Checksums
  BY NccAssumption DEF Checksums
<1>3. 1 \in DOMAIN Files /\ 0 \in 0..(MaxRetries + 1)
  BY FilesFacts, NccAssumption
<1> QED
  BY <1>1, <1>2, <1>3 DEF Waiting, JobState

\* The content of a file or of its .tmp name.
LEMMA ContentTyped ==
    ASSUME NEW f \in FileNames, NEW c \in Contents(f)
    PROVE  c \in UNION {Contents(g) : g \in FileNames}
  OBVIOUS

----------------------------------------------------------------------------
(* A step of one job.                                                      *)

\* An owner has a date.
LEMMA OwnerHasDate ==
    ASSUME NEW j \in Jobs, PhaseOK(j), job[j].pc # "waiting" \/ Owner(j) \/ Active(j)
    PROVE  job[j].date \in Dates
<1>1. job[j].pc # "waiting"
  BY DEF PhaseOK, Owner, Active, Uploading, Submitting
<1> QED
  BY <1>1 DEF PhaseOK

\* What a step of job j has to show: j keeps its own part of the invariant, writes
\* only local files of its own date, replaces nothing on the server, and becomes
\* an owner only of a date nobody else owns.
LEMMA JobMoves ==
    ASSUME IInv, NEW j \in Jobs, NEW r \in JobState,
           job' = [job EXCEPT ![j] = r], r.date = job[j].date,
           r.pc \notin {"waiting", "done", "failed"} => Active(j),
           UNCHANGED <<version, overlapped>>,
           received' \in [Jobs -> 0..(MaxRetries + 1)],
           \A k \in Jobs \ {j} : received'[k] = received[k],
           IsStore(local'), IsStore(remote'),
           \A d \in Dates, f \in FileNames :
               remote[d][f] # Absent => remote'[d][f] = remote[d][f],
           \A d \in Dates, f \in FileNames :
               \/ local'[d][f] = local[d][f]
               \/ Active(j) /\ d = job[j].date /\ local'[d][f] # Absent,
           JobOK(j)',
           Owner(j)' => \A k \in Jobs \ {j} : Owner(k) => job[k].date # job[j].date
    PROVE  IInv'
<1>1. /\ job' \in [Jobs -> JobState] /\ job'[j] = r
      /\ \A k \in Jobs \ {j} : job'[k] = job[k]
  BY DEF IInv, TypeOK
<1>2. \A k \in Jobs \ {j} :
         /\ Owner(k)' = Owner(k) /\ Uploaded(k)' = Uploaded(k) /\ Active(k)' = Active(k)
         /\ PhaseOK(k)' = PhaseOK(k)
  BY <1>1 DEF Owner, Uploaded, Active, PhaseOK, Uploading, Submitting
<1>3. TypeOK' /\ StoresOK'
  BY <1>1 DEF IInv, TypeOK, StoresOK, IsStore
<1>4. ASSUME NEW k \in Jobs, k # j PROVE JobOK(k)'
  <2>1. JobOK(k)
    BY DEF IInv
  <2>2. job'[k] = job[k] /\ overlapped' = overlapped
    BY <1>1, <1>4
  <2>3. WrittenOK(k)'
    <3>1. SUFFICES ASSUME job[k].pc \in {"disconnect", "connect", "put", "rename"},
                          NEW f \in FileNames
                   PROVE  /\ local'[job[k].date][f] # Absent
                          /\ job[k].date \notin overlapped =>
                               local'[job[k].date][f] = Content(f, job[k].checksum)
      BY <2>2 DEF WrittenOK
    <3>2. Active(k) /\ job[k].date \in Dates
      BY <2>1, <3>1, OwnerHasDate DEF Active, JobOK
    <3>3. /\ local[job[k].date][f] # Absent
          /\ job[k].date \notin overlapped =>
               local[job[k].date][f] = Content(f, job[k].checksum)
      BY <2>1, <3>1 DEF JobOK, WrittenOK
    <3>4. CASE local'[job[k].date][f] = local[job[k].date][f]
      BY <3>3, <3>4
    <3>5. CASE Active(j) /\ job[k].date = job[j].date /\ local'[job[k].date][f] # Absent
      BY <1>4, <3>2, <3>5 DEF IInv, OverlapSeen
    <3> QED
      BY <3>2, <3>4, <3>5
  <2>4. UploadedOK(k)'
    <3>1. SUFFICES ASSUME Owner(k), NEW f \in Uploaded(k)
                   PROVE  /\ remote'[job[k].date][f] # Absent
                          /\ job[k].date \notin overlapped =>
                               remote'[job[k].date][f] = Content(f, job[k].checksum)
      BY <1>2, <1>4, <2>2 DEF UploadedOK
    <3>2. job[k].date \in Dates /\ f \in FileNames
      BY <2>1, <3>1, OwnerHasDate DEF JobOK, Uploaded
    <3> QED
      BY <2>1, <3>1, <3>2 DEF JobOK, UploadedOK
  <2> QED
    BY <1>2, <1>4, <2>1, <2>3, <2>4 DEF JobOK
<1>5. OneOwner'
  <2>1. SUFFICES ASSUME NEW k \in Jobs, NEW l \in Jobs, Owner(k)', Owner(l)', k # l
                 PROVE  job'[k].date # job'[l].date
    BY DEF OneOwner
  <2>2. CASE k # j /\ l # j
    BY <1>1, <1>2, <2>1, <2>2 DEF IInv, OneOwner
  <2>3. CASE k = j
    BY <1>1, <1>2, <2>1, <2>3
  <2>4. CASE l = j
    BY <1>1, <1>2, <2>1, <2>4
  <2> QED
    BY <2>2, <2>3, <2>4
<1>6. OverlapSeen'
  <2>1. \A k \in Jobs : job'[k].date = job[k].date /\ (Active(k)' => Active(k))
    BY <1>1, <1>2 DEF Active
  <2> QED
    BY <2>1 DEF IInv, OverlapSeen
<1> QED
  BY <1>3, <1>4, <1>5, <1>6 DEF IInv

\* The same for a step that changes nothing but the job, and makes no owner.
LEMMA OnlyJobMoves ==
    ASSUME IInv, NEW j \in Jobs, NEW r \in JobState,
           job' = [job EXCEPT ![j] = r], r.date = job[j].date,
           r.pc \notin {"waiting", "done", "failed"} => Active(j),
           UNCHANGED <<version, local, remote, received, overlapped>>,
           JobOK(j)', Owner(j)' => Owner(j)
    PROVE  IInv'
<1>1. \A k \in Jobs \ {j} : Owner(j)' => (Owner(k) => job[k].date # job[j].date)
  BY DEF IInv, OneOwner
<1>2. /\ received' \in [Jobs -> 0..(MaxRetries + 1)] /\ IsStore(local') /\ IsStore(remote')
      /\ received' = received /\ local' = local /\ remote' = remote
  BY DEF IInv, TypeOK, StoresOK
<1> QED
  BY <1>1, <1>2, JobMoves

\* A job that has ended owns its date only if it was an owner of all files.
LEMMA JobEnds ==
    ASSUME IInv, NEW j \in Jobs, NEW how \in {"done", "failed", "hung", "blocked"},
           End(j, how), Active(j),
           UNCHANGED <<version, overlapped>>,
           IsStore(local'), IsStore(remote'),
           \A d \in Dates, f \in FileNames :
               remote[d][f] # Absent => remote'[d][f] = remote[d][f],
           \A d \in Dates, f \in FileNames :
               local'[d][f] = local[d][f] \/ (d = job[j].date /\ local'[d][f] # Absent),
           received' \in [Jobs -> 0..(MaxRetries + 1)],
           \A k \in Jobs \ {j} : received'[k] = received[k],
           received'[j] > 0 => Submitting(j)
    PROVE  IInv'
<1> DEFINE r == [Waiting EXCEPT !.pc = how, !.date = job[j].date, !.checksum = job[j].checksum]
<1>1. job[j] \in JobState /\ JobOK(j)
  BY DEF IInv, TypeOK
<1>2. job[j].date \in Dates
  BY <1>1, OwnerHasDate DEF JobOK
<1>3. /\ r \in JobState /\ r.pc = how /\ r.date = job[j].date
      /\ r.checksum = job[j].checksum
  BY <1>1, WaitingTyped DEF JobState
<1>4. job' = [job EXCEPT ![j] = r] /\ job'[j] = r
  BY DEF End, IInv, TypeOK
<1> HIDE DEF r
<1>5. JobOK(j)'
  <2>1. PhaseOK(j)'
    BY <1>2, <1>3, <1>4 DEF PhaseOK, Submitting
  <2>2. WrittenOK(j)'
    BY <1>3, <1>4 DEF WrittenOK
  <2>3. UploadedOK(j)'
    <3>1. SUFFICES ASSUME Owner(j)', NEW f \in FileNames
                   PROVE  /\ remote'[job[j].date][f] # Absent
                          /\ job[j].date \notin overlapped =>
                               remote'[job[j].date][f] = Content(f, job[j].checksum)
      BY <1>3, <1>4 DEF UploadedOK, Uploaded
    <3>2. Submitting(j) /\ ~Uploading(j)
      BY <1>3, <1>4, <3>1 DEF Owner, Uploading, Submitting
    <3>3. Owner(j) /\ f \in Uploaded(j)
      BY <3>2 DEF Owner, Uploaded
    <3> QED
      BY <1>1, <1>2, <3>3 DEF JobOK, UploadedOK
  <2> QED
    BY <2>1, <2>2, <2>3 DEF JobOK
<1>6. Owner(j)' => Owner(j)
  BY <1>3, <1>4 DEF Owner, Uploading, Submitting
<1>7. \A k \in Jobs \ {j} : Owner(j)' => (Owner(k) => job[k].date # job[j].date)
  BY <1>6 DEF IInv, OneOwner
<1> QED
  BY <1>3, <1>4, <1>5, <1>7, JobMoves

----------------------------------------------------------------------------
(* Every action preserves the invariant.                                   *)

LEMMA InitIInv == Init => IInv
<1> SUFFICES ASSUME Init PROVE IInv
  OBVIOUS
<1>1. \A f \in FileNames : Absent \in Contents(f)
  BY DEF Contents
<1>2. IsStore(local) /\ IsStore(remote)
  <2>1. \A f \in FileNames : Absent \in UNION {Contents(g) : g \in FileNames}
    BY <1>1, ContentTyped
  <2> QED
    BY <1>1, <2>1 DEF Init, IsStore
<1>3. \A j \in Jobs : job[j] = Waiting /\ received[j] = 0
  BY DEF Init
<1>4. TypeOK /\ StoresOK
  <2>1. 0 \in 0..MaxVersion /\ 0 \in 0..(MaxRetries + 1)
    BY NccAssumption
  <2> QED
    BY <1>2, <2>1, WaitingTyped DEF Init, TypeOK, StoresOK, IsStore
<1>5. ASSUME NEW j \in Jobs PROVE ~Owner(j) /\ ~Active(j) /\ JobOK(j)
  <2>1. /\ job[j].pc = "waiting" /\ job[j].n = 1 /\ ~job[j].failed /\ job[j].retry = 0
        /\ received[j] = 0
    BY <1>3, WaitingTyped
  <2>2. ~Owner(j) /\ ~Active(j)
    BY <2>1 DEF Owner, Active, Uploading, Submitting
  <2>3. PhaseOK(j) /\ WrittenOK(j) /\ UploadedOK(j)
    BY <2>1, <2>2 DEF PhaseOK, WrittenOK, UploadedOK, Submitting
  <2> QED
    BY <2>2, <2>3 DEF JobOK
<1> QED
  BY <1>4, <1>5 DEF IInv, OneOwner, OverlapSeen

LEMMA DatabaseChangesPreserves == IInv /\ DatabaseChanges => IInv'
<1> SUFFICES ASSUME IInv, DatabaseChanges PROVE IInv'
  OBVIOUS
<1>1. version' \in 0..MaxVersion /\ UNCHANGED <<local, remote, received, job, overlapped>>
  BY NccAssumption DEF DatabaseChanges, IInv, TypeOK
<1>2. TypeOK' /\ StoresOK'
  BY <1>1 DEF IInv, TypeOK, StoresOK, IsStore
<1>3. \A j \in Jobs : JobOK(j)' = JobOK(j) /\ Owner(j)' = Owner(j) /\ Active(j)' = Active(j)
  BY <1>1
  DEF JobOK, PhaseOK, WrittenOK, UploadedOK, Uploaded, Owner, Active, Uploading, Submitting
<1> QED
  BY <1>1, <1>2, <1>3 DEF IInv, OneOwner, OverlapSeen

\* A job that starts beside another one of its date is seen to overlap.
LEMMA StartPreserves ==
    ASSUME NEW j \in Jobs, NEW d \in Dates, IInv, Start(j, d) PROVE IInv'
<1> DEFINE r == [job[j] EXCEPT !.pc = "query", !.date = d]
<1>1. job[j] \in JobState /\ JobOK(j) /\ job[j].pc = "waiting"
  BY DEF IInv, TypeOK, Start, At
<1>2. r \in JobState /\ r.pc = "query" /\ r.date = d /\ r.n = job[j].n
      /\ r.failed = job[j].failed /\ r.retry = job[j].retry
  BY <1>1 DEF JobState
<1>3. /\ job' \in [Jobs -> JobState] /\ job'[j] = r
      /\ \A k \in Jobs \ {j} : job'[k] = job[k]
  BY <1>2 DEF Start, IInv, TypeOK
<1> HIDE DEF r
<1>4. /\ UNCHANGED <<version, local, remote, received>>
      /\ overlapped \subseteq overlapped' /\ overlapped' \subseteq Dates
      /\ \A k \in Jobs \ {j} : Active(k) /\ job[k].date = d => d \in overlapped'
  BY DEF Start, IInv, TypeOK
<1>5. TypeOK' /\ StoresOK'
  BY <1>3, <1>4 DEF IInv, TypeOK, StoresOK, IsStore
<1>6. ~Owner(j)' /\ JobOK(j)'
  BY <1>1, <1>2, <1>3, <1>4, FilesFacts
  DEF JobOK, PhaseOK, WrittenOK, UploadedOK, Owner, Uploading, Submitting
<1>7. \A k \in Jobs \ {j} :
         /\ Owner(k)' = Owner(k) /\ Uploaded(k)' = Uploaded(k) /\ Active(k)' = Active(k)
         /\ JobOK(k)'
  <2> SUFFICES ASSUME NEW k \in Jobs \ {j}
               PROVE  /\ Owner(k)' = Owner(k) /\ Uploaded(k)' = Uploaded(k)
                      /\ Active(k)' = Active(k) /\ JobOK(k)'
    OBVIOUS
  <2>1. job'[k] = job[k] /\ received'[k] = received[k] /\ JobOK(k)
    BY <1>3, <1>4 DEF IInv
  <2>2. /\ Owner(k)' = Owner(k) /\ Uploaded(k)' = Uploaded(k)
        /\ Active(k)' = Active(k) /\ PhaseOK(k)'
    BY <2>1 DEF Owner, Uploaded, Active, Uploading, Submitting, JobOK, PhaseOK
  <2>3. WrittenOK(k)' /\ UploadedOK(k)'
    BY <1>4, <2>1, <2>2 DEF JobOK, WrittenOK, UploadedOK
  <2> QED
    BY <2>2, <2>3 DEF JobOK
<1>8. OneOwner'
  BY <1>3, <1>6, <1>7 DEF IInv, OneOwner
<1>9. OverlapSeen'
  <2>1. \A k, l \in Jobs \ {j} :
           Active(k)' /\ Active(l)' /\ job'[k].date = job'[l].date /\ k # l
             => job'[k].date \in overlapped'
    BY <1>3, <1>4, <1>7 DEF IInv, OverlapSeen
  <2>2. \A k \in Jobs \ {j} :
           Active(k)' /\ job'[k].date = job'[j].date => job'[k].date \in overlapped'
    BY <1>2, <1>3, <1>4, <1>7
  <2> QED
    BY <2>1, <2>2 DEF OverlapSeen
<1> QED
  BY <1>5, <1>6, <1>7, <1>8, <1>9 DEF IInv

LEMMA QueryPreserves == ASSUME NEW j \in Jobs, IInv, Query(j) PROVE IInv'
<1> DEFINE r == [job[j] EXCEPT !.checksum[Csv[job[j].n]] = version,
                               !.n = IF job[j].n = Len(Csv) THEN 1 ELSE job[j].n + 1,
                               !.pc = IF job[j].n = Len(Csv) THEN "write" ELSE "query"]
<1>1. job[j] \in JobState /\ JobOK(j) /\ job[j].pc = "query" /\ job[j].n \in 1..3
      /\ version \in 0..MaxVersion
  BY FilesFacts DEF IInv, TypeOK, Query, At, JobOK, PhaseOK
<1>2. r \in JobState /\ r.date = job[j].date /\ r.failed = job[j].failed
      /\ r.retry = job[j].retry
      /\ \/ r.pc = "query" /\ r.n \in 1..3
         \/ r.pc = "write" /\ r.n = 1
  <2>1. [job[j].checksum EXCEPT ![Csv[job[j].n]] = version] \in Checksums
    BY <1>1, FilesFacts DEF JobState, Checksums
  <2>2. CASE job[j].n = 3
    <3>1. job[j].n = Len(Csv) /\ 1 \in DOMAIN Files
      BY <2>2, FilesFacts
    <3>2. /\ r.pc = "write" /\ r.n = 1 /\ r.date = job[j].date
          /\ r.failed = job[j].failed /\ r.retry = job[j].retry
      BY <1>1, <3>1 DEF JobState
    <3>3. r \in JobState
      BY <1>1, <2>1, <3>1 DEF JobState
    <3> HIDE DEF r
    <3> QED
      BY <3>2, <3>3
  <2>3. CASE job[j].n \in 1..2
    <3>1. job[j].n + 1 \in 1..3 /\ job[j].n + 1 \in 1..4 /\ job[j].n # 3
      BY <2>3
    <3> QED
      BY <1>1, <2>1, <3>1, FilesFacts DEF JobState
  <2> HIDE DEF r
  <2> QED
    BY <1>1, <2>2, <2>3
<1>3. job' = [job EXCEPT ![j] = r] /\ job'[j] = r
      /\ UNCHANGED <<version, local, remote, received, overlapped>>
  BY DEF Query, IInv, TypeOK
<1> HIDE DEF r
<1>4. ~Owner(j)' /\ JobOK(j)'
  BY <1>1, <1>2, <1>3, FilesFacts
  DEF JobOK, PhaseOK, WrittenOK, UploadedOK, Owner, Uploading, Submitting
<1> QED
  BY <1>1, <1>2, <1>3, <1>4, OnlyJobMoves DEF Active

\* Storing what a file may hold.
LEMMA StoreChanges ==
    ASSUME NEW s, IsStore(s), NEW d \in Dates,
           NEW g \in [FileNames -> UNION {Contents(f) : f \in FileNames}],
           \A f \in FileNames : g[f] \in Contents(f)
    PROVE  IsStore([s EXCEPT ![d] = g])
  BY DEF IsStore

LEMMA WriteFilesPreserves == ASSUME NEW j \in Jobs, IInv, WriteFiles(j) PROVE IInv'
<1> DEFINE r == [job[j] EXCEPT !.pc = "disconnect"]
           g == [f \in FileNames |-> Content(f, job[j].checksum)]
<1>1. job[j] \in JobState /\ JobOK(j) /\ job[j].pc = "write" /\ job[j].n = 1
      /\ job[j].checksum \in Checksums /\ job[j].date \in Dates
  BY DEF IInv, TypeOK, WriteFiles, At, JobOK, PhaseOK, JobState
<1>2. r \in JobState /\ r.pc = "disconnect" /\ r.date = job[j].date /\ r.n = 1
      /\ r.failed = job[j].failed /\ r.retry = job[j].retry /\ r.checksum = job[j].checksum
  BY <1>1 DEF JobState
<1>3. job' = [job EXCEPT ![j] = r] /\ job'[j] = r
      /\ UNCHANGED <<version, remote, received, overlapped>>
  BY DEF WriteFiles, IInv, TypeOK
<1>4. \A f \in FileNames : g[f] \in Contents(f) /\ g[f] # Absent
  BY <1>1, ContentFacts
<1>5. local' = [local EXCEPT ![job[j].date] = g]
  BY DEF WriteFiles
<1>6. IsStore(local') /\ IsStore(remote')
  BY <1>1, <1>3, <1>4, <1>5, StoreChanges DEF IInv, StoresOK
<1>7. /\ \A f \in FileNames : local'[job[j].date][f] = Content(f, job[j].checksum)
      /\ \A d \in Dates \ {job[j].date} : local'[d] = local[d]
  BY <1>1, <1>5 DEF IInv, StoresOK, IsStore
<1> HIDE DEF r
<1>8. ~Owner(j)' /\ JobOK(j)'
  BY <1>1, <1>2, <1>3, <1>4, <1>7
  DEF JobOK, PhaseOK, WrittenOK, UploadedOK, Owner, Uploading, Submitting
<1>9. Active(j)
  BY <1>1 DEF Active
<1>10. /\ received' \in [Jobs -> 0..(MaxRetries + 1)] /\ received' = received
       /\ remote' = remote
  BY <1>3 DEF IInv, TypeOK
<1>11. \A d \in Dates, f \in FileNames :
          local'[d][f] = local[d][f] \/ (d = job[j].date /\ local'[d][f] # Absent)
  BY <1>4, <1>7
<1> QED
  BY <1>2, <1>3, <1>6, <1>8, <1>9, <1>10, <1>11, JobMoves

LEMMA WriteFailsPreserves ==
    ASSUME NEW j \in Jobs, NEW n \in DOMAIN Files, IInv, WriteFails(j, n) PROVE IInv'
<1> DEFINE g == [f \in FileNames |->
                   IF f = Files[n] THEN Short
                   ELSE IF \E m \in 1..(n - 1) : f = Files[m]
                        THEN Content(f, job[j].checksum) ELSE local[job[j].date][f]]
<1>1. JobOK(j) /\ job[j].pc = "write" /\ received[j] = 0
      /\ job[j].checksum \in Checksums /\ job[j].date \in Dates
  BY DEF IInv, TypeOK, WriteFails, At, JobOK, PhaseOK, JobState
<1>2. /\ End(j, "failed") /\ UNCHANGED <<version, remote, received, overlapped>>
      /\ local' = [local EXCEPT ![job[j].date] = g]
  BY <1>1 DEF WriteFails, IInv, StoresOK, IsStore
<1>3. \A f \in FileNames :
         g[f] \in Contents(f) /\ (g[f] = local[job[j].date][f] \/ g[f] # Absent)
  BY <1>1, ContentFacts DEF IInv, StoresOK, IsStore
<1> HIDE DEF g
<1>4. g \in [FileNames -> UNION {Contents(f) : f \in FileNames}]
  <2>1. \A f \in FileNames : g[f] \in UNION {Contents(h) : h \in FileNames}
    BY <1>3, ContentTyped
  <2> QED
    BY <2>1 DEF g
<1>5. IsStore(local') /\ IsStore(remote')
  BY <1>1, <1>2, <1>3, <1>4, StoreChanges DEF IInv, StoresOK
<1>6. local'[job[j].date] = g /\ \A d \in Dates \ {job[j].date} : local'[d] = local[d]
  BY <1>1, <1>2 DEF IInv, StoresOK, IsStore
<1>7. \A d \in Dates, f \in FileNames :
         local'[d][f] = local[d][f] \/ (d = job[j].date /\ local'[d][f] # Absent)
  BY <1>3, <1>6
<1>8. Active(j) /\ received' \in [Jobs -> 0..(MaxRetries + 1)] /\ received' = received
      /\ remote' = remote /\ ~(received'[j] > 0)
  BY <1>1, <1>2 DEF IInv, TypeOK, Active
<1> QED
  BY <1>2, <1>5, <1>7, <1>8, JobEnds

\* A job fails, or stalls, before it has submitted anything, or without a further
\* request.
LEMMA JobFails ==
    ASSUME NEW j \in Jobs, IInv, NEW how \in {"failed", "hung", "blocked"}, End(j, how),
           Active(j), job[j].pc \notin {"hung", "blocked"},
           UNCHANGED <<version, local, remote, received, overlapped>>
    PROVE  IInv'
<1>1. received[j] > 0 => Submitting(j)
  <2>1. job[j] \in JobState /\ PhaseOK(j)
    BY DEF IInv, TypeOK, JobOK
  <2> QED
    BY <2>1 DEF PhaseOK, Submitting, Active, JobState
<1>2. /\ IsStore(local') /\ IsStore(remote') /\ received' \in [Jobs -> 0..(MaxRetries + 1)]
      /\ local' = local /\ remote' = remote /\ received' = received
  BY DEF IInv, TypeOK, StoresOK
<1> QED
  BY <1>1, <1>2, JobEnds

LEMMA GenerationFailsPreserves == ASSUME NEW j \in Jobs, IInv, GenerationFails(j) PROVE IInv'
  BY JobFails DEF GenerationFails, At, Active

LEMMA DisconnectPreserves == ASSUME NEW j \in Jobs, IInv, Disconnect(j) PROVE IInv'
<1> DEFINE r == [job[j] EXCEPT !.pc = "connect"]
<1>1. job[j] \in JobState /\ JobOK(j) /\ job[j].pc = "disconnect"
  BY DEF IInv, TypeOK, Disconnect, At
<1>2. r \in JobState /\ r.pc = "connect" /\ r.date = job[j].date /\ r.n = job[j].n
      /\ r.failed = job[j].failed /\ r.retry = job[j].retry /\ r.checksum = job[j].checksum
  BY <1>1 DEF JobState
<1>3. job' = [job EXCEPT ![j] = r] /\ job'[j] = r
      /\ UNCHANGED <<version, local, remote, received, overlapped>>
  BY DEF Disconnect, IInv, TypeOK
<1> HIDE DEF r
<1>4. ~Owner(j)' /\ JobOK(j)'
  BY <1>1, <1>2, <1>3
  DEF JobOK, PhaseOK, WrittenOK, UploadedOK, Owner, Uploading, Submitting
<1> QED
  BY <1>1, <1>2, <1>3, <1>4, OnlyJobMoves DEF Active

LEMMA ConnectPreserves == ASSUME NEW j \in Jobs, IInv, Connect(j) PROVE IInv'
<1> DEFINE r == [job[j] EXCEPT !.pc = "put"]
<1>1. job[j] \in JobState /\ JobOK(j) /\ job[j].pc = "connect" /\ Active(j)
  BY DEF IInv, TypeOK, Connect, At, Active
<1>2. UNCHANGED <<version, local, remote, received, overlapped>>
  BY DEF Connect
<1>3. CASE End(j, "failed")
  BY <1>1, <1>2, <1>3, JobFails
<1>4. CASE job' = [job EXCEPT ![j].pc = "put"]
  <2>1. r \in JobState /\ r.pc = "put" /\ r.date = job[j].date /\ r.n = job[j].n
        /\ r.failed = job[j].failed /\ r.retry = job[j].retry /\ r.checksum = job[j].checksum
    BY <1>1 DEF JobState
  <2>2. job' = [job EXCEPT ![j] = r] /\ job'[j] = r
    BY <1>4 DEF IInv, TypeOK
  <2> HIDE DEF r
  <2>3. ~Owner(j)' /\ JobOK(j)'
    BY <1>1, <1>2, <2>1, <2>2
    DEF JobOK, PhaseOK, WrittenOK, UploadedOK, Owner, Uploading, Submitting
  <2> QED
    BY <1>1, <1>2, <2>1, <2>2, <2>3, OnlyJobMoves
<1> QED
  BY <1>3, <1>4 DEF Connect

----------------------------------------------------------------------------
(* The uploads.                                                            *)

\* The upload goes on to the next file. A job that has not failed has just put the
\* current one under its final name, and no other job owns the date.
LEMMA NextFileMoves ==
    ASSUME NEW j \in Jobs, NEW flag \in BOOLEAN, IInv, Uploading(j), NextFile(j, flag),
           UNCHANGED <<version, local, received, overlapped>>,
           IsStore(remote'),
           \A d \in Dates, f \in FileNames :
               remote[d][f] # Absent => remote'[d][f] = remote[d][f],
           ~flag => /\ ~job[j].failed
                    /\ remote'[job[j].date][File(j)] # Absent
                    /\ job[j].date \notin overlapped =>
                         remote'[job[j].date][File(j)] = Content(File(j), job[j].checksum)
                    /\ \A k \in Jobs \ {j} : Owner(k) => job[k].date # job[j].date
    PROVE  IInv'
<1>1. job[j] \in JobState /\ JobOK(j) /\ job[j].n \in 1..4 /\ Active(j) /\ ~Submitting(j)
  BY FilesFacts DEF IInv, TypeOK, JobState, Uploading, Active, Submitting
<1>2. job[j].date \in Dates /\ received[j] = 0 /\ job[j].retry = 0 /\ received' = received
      /\ received' \in [Jobs -> 0..(MaxRetries + 1)] /\ IsStore(local') /\ local' = local
  BY <1>1 DEF IInv, TypeOK, StoresOK, JobOK, PhaseOK, Uploading
<1>3. Absent \in UNION {Contents(f) : f \in FileNames}
  BY FilesFacts DEF Contents
\* What is there of the files up to the current one.
<1>4. ASSUME ~flag, NEW m \in 1..job[j].n
      PROVE  /\ remote'[job[j].date][Files[m]] # Absent
             /\ job[j].date \notin overlapped =>
                  remote'[job[j].date][Files[m]] = Content(Files[m], job[j].checksum)
  <2>1. CASE m = job[j].n
    BY <1>4, <2>1 DEF File
  <2>2. CASE m # job[j].n
    <3>1. m \in 1..(job[j].n - 1) /\ job[j].n > 1 /\ m \in DOMAIN Files
      BY <1>1, <2>2, FilesFacts
    <3>2. Files[m] \in FileNames
      BY <3>1 DEF FileNames
    <3>3. Owner(j) /\ Files[m] \in Uploaded(j)
      BY <1>4, <3>1, <3>2 DEF Owner, Uploaded
    <3> QED
      BY <1>1, <1>2, <3>2, <3>3 DEF JobOK, UploadedOK
  <2> QED
    BY <2>1, <2>2
<1>5. CASE job[j].n < 4
  <2> DEFINE r == [job[j] EXCEPT !.n = job[j].n + 1, !.failed = flag, !.tmp = Absent, !.pc = "put"]
  <2>1. job[j].n + 1 \in 1..4 /\ job[j].n + 1 \in DOMAIN Files
    BY <1>1, <1>5, FilesFacts
  <2>2. r \in JobState /\ r.pc = "put" /\ r.n = job[j].n + 1 /\ r.failed = flag
        /\ r.date = job[j].date /\ r.retry = 0 /\ r.checksum = job[j].checksum
    BY <1>1, <1>2, <1>3, <2>1 DEF JobState
  <2>3. job' = [job EXCEPT ![j] = r] /\ job'[j] = r
    BY <1>1, <1>5, FilesFacts DEF NextFile, IInv, TypeOK
  <2> HIDE DEF r
  <2>4. Owner(j)' => ~flag
    BY <1>2, <2>2, <2>3 DEF Owner, Uploading, Submitting
  <2>5. PhaseOK(j)' /\ WrittenOK(j)'
    BY <1>1, <1>2, <2>2, <2>3 DEF JobOK, PhaseOK, WrittenOK, Uploading, Submitting
  <2>6. UploadedOK(j)'
    <3>1. SUFFICES ASSUME ~flag, NEW f \in FileNames, NEW m \in 1..job[j].n, f = Files[m]
                   PROVE  /\ remote'[job[j].date][f] # Absent
                          /\ job[j].date \notin overlapped =>
                               remote'[job[j].date][f] = Content(f, job[j].checksum)
      BY <1>1, <2>2, <2>3, <2>4 DEF UploadedOK, Uploaded, Uploading
    <3> QED
      BY <1>4, <3>1
  <2> QED
    BY <1>1, <1>2, <2>2, <2>3, <2>4, <2>5, <2>6, JobMoves DEF JobOK
<1>6. CASE job[j].n = 4 /\ flag
  <2>1. End(j, "failed") /\ ~(received'[j] > 0)
    BY <1>2, <1>6, FilesFacts DEF NextFile
  <2> QED
    BY <1>1, <1>2, <2>1, JobEnds
<1>7. CASE job[j].n = 4 /\ ~flag
  <2> DEFINE r == [job[j] EXCEPT !.tmp = Absent, !.pc = "token"]
  <2>1. r \in JobState /\ r.pc = "token" /\ r.date = job[j].date /\ r.retry = 0
        /\ r.checksum = job[j].checksum
    BY <1>1, <1>2, <1>3 DEF JobState
  <2>2. job' = [job EXCEPT ![j] = r] /\ job'[j] = r
    BY <1>1, <1>7, FilesFacts DEF NextFile, IInv, TypeOK
  <2> HIDE DEF r
  <2>3. PhaseOK(j)' /\ WrittenOK(j)'
    BY <1>2, <2>1, <2>2, NccAssumption DEF PhaseOK, WrittenOK, Submitting
  <2>4. UploadedOK(j)'
    <3>1. SUFFICES ASSUME NEW f \in FileNames
                   PROVE  /\ remote'[job[j].date][f] # Absent
                          /\ job[j].date \notin overlapped =>
                               remote'[job[j].date][f] = Content(f, job[j].checksum)
      BY <1>1, <2>1, <2>2 DEF UploadedOK, Uploaded
    <3>2. PICK m \in 1..job[j].n : f = Files[m]
      BY <1>7, FilesFacts DEF FileNames
    <3> QED
      BY <1>4, <1>7, <3>2
  <2> QED
    BY <1>1, <1>2, <1>7, <2>1, <2>2, <2>3, <2>4, JobMoves DEF JobOK
<1> QED
  BY <1>1, <1>5, <1>6, <1>7

LEMMA PutPreserves == ASSUME NEW j \in Jobs, IInv, Put(j) PROVE IInv'
<1>1. job[j] \in JobState /\ JobOK(j) /\ job[j].pc = "put" /\ job[j].date \in Dates
      /\ File(j) \in FileNames
  BY DEF IInv, TypeOK, Put, At, JobOK, PhaseOK, File, FileNames, JobState
<1>2. PICK content \in {local[job[j].date][File(j)], Short} :
         job' = [job EXCEPT ![j] = [job[j] EXCEPT !.tmp = content, !.pc = "rename"]]
  BY DEF Put, IInv, TypeOK
<1>3. content \in UNION {Contents(f) : f \in FileNames}
  <2>1. content \in Contents(File(j))
    BY <1>1 DEF IInv, TypeOK, Contents
  <2> QED
    BY <1>1, <2>1, ContentTyped
<1> DEFINE r == [job[j] EXCEPT !.tmp = content, !.pc = "rename"]
<1>4. r \in JobState /\ r.pc = "rename" /\ r.date = job[j].date /\ r.n = job[j].n
      /\ r.failed = job[j].failed /\ r.retry = job[j].retry /\ r.checksum = job[j].checksum
  BY <1>1, <1>3 DEF JobState
<1>5. job' = [job EXCEPT ![j] = r] /\ job'[j] = r
      /\ UNCHANGED <<version, local, remote, received, overlapped>>
  BY <1>2 DEF Put, IInv, TypeOK
<1> HIDE DEF r
<1>6. Owner(j)' = Owner(j) /\ Uploaded(j)' = Uploaded(j)
  BY <1>1, <1>4, <1>5 DEF Owner, Uploaded, Uploading, Submitting
<1>7. JobOK(j)'
  BY <1>1, <1>4, <1>5, <1>6 DEF JobOK, PhaseOK, WrittenOK, UploadedOK, Submitting
<1> QED
  BY <1>1, <1>4, <1>5, <1>6, <1>7, OnlyJobMoves DEF Active

LEMMA NotUploadedPreserves ==
    ASSUME NEW j \in Jobs, IInv, PutFails(j) \/ RenameFails(j) PROVE IInv'
<1>1. /\ NextFile(j, TRUE) /\ Uploading(j)
      /\ UNCHANGED <<version, local, remote, received, overlapped>>
  BY DEF PutFails, RenameFails, At, Uploading
<1>2. IsStore(remote') /\ remote' = remote
  BY <1>1 DEF IInv, StoresOK
<1> QED
  BY <1>1, <1>2, NextFileMoves

\* The rename that finds no target: of a first file, so that nobody owns the date,
\* or of a later one by the owner of the date.
LEMMA RenamePreserves == ASSUME NEW j \in Jobs, IInv, Rename(j) PROVE IInv'
<1>1. job[j] \in JobState /\ JobOK(j) /\ job[j].pc = "rename" /\ job[j].date \in Dates
      /\ File(j) \in FileNames /\ job[j].n \in 1..4
  BY FilesFacts DEF IInv, TypeOK, Rename, At, JobOK, PhaseOK, File, FileNames, JobState
<1>2. /\ job[j].tmp = local[job[j].date][File(j)]
      /\ remote[job[j].date][File(j)] = Absent
      /\ remote' = [remote EXCEPT ![job[j].date][File(j)] = job[j].tmp]
      /\ UNCHANGED <<version, local, received, overlapped>>
  BY DEF Rename, MayRename, Target
<1>3. PICK flag \in BOOLEAN : NextFile(j, flag) /\ (~flag => ~job[j].failed)
  <2>1. job[j].failed \in BOOLEAN
    BY <1>1 DEF JobState
  <2>2. CASE NextFile(j, job[j].failed)
    BY <2>1, <2>2
  <2>3. CASE NextFile(j, TRUE)
    BY <2>3
  <2> QED
    BY <2>2, <2>3 DEF Rename
<1>4. /\ job[j].tmp # Absent
      /\ job[j].date \notin overlapped => job[j].tmp = Content(File(j), job[j].checksum)
  BY <1>1, <1>2 DEF JobOK, WrittenOK
<1>5. remote \in [Dates -> [FileNames -> UNION {Contents(f) : f \in FileNames}]]
      /\ job[j].tmp \in Contents(File(j))
      /\ \A d \in Dates, f \in FileNames : remote[d][f] \in Contents(f)
  BY <1>1, <1>2 DEF IInv, StoresOK, IsStore
<1>6. /\ remote'[job[j].date][File(j)] = job[j].tmp
      /\ \A d \in Dates, f \in FileNames :
           d # job[j].date \/ f # File(j) => remote'[d][f] = remote[d][f]
  BY <1>1, <1>2, <1>5
<1>7. IsStore(remote')
  <2>1. \A d \in Dates, f \in FileNames : remote'[d][f] \in Contents(f)
    BY <1>1, <1>5, <1>6
  <2>2. job[j].tmp \in UNION {Contents(f) : f \in FileNames}
    BY <1>1, <1>5, ContentTyped
  <2>3. remote' \in [Dates -> [FileNames -> UNION {Contents(f) : f \in FileNames}]]
    BY <1>1, <1>2, <1>5, <2>2
  <2> QED
    BY <2>1, <2>3 DEF IsStore
<1>8. \A d \in Dates, f \in FileNames :
         remote[d][f] # Absent => remote'[d][f] = remote[d][f]
  BY <1>2, <1>6
<1>9. ASSUME ~job[j].failed, NEW k \in Jobs \ {j}, Owner(k) PROVE job[k].date # job[j].date
  <2>1. CASE job[j].n > 1
    BY <1>1, <1>9, <2>1 DEF IInv, OneOwner, Owner, Uploading
  <2>2. CASE job[j].n = 1
    <3>1. Files[1] \in Uploaded(k)
      <4>1. Files[1] \in FileNames /\ job[k] \in JobState
        BY FilesFacts DEF IInv, TypeOK
      <4>2. Uploading(k) => job[k].n > 1
        <5>1. JobOK(k)
          BY DEF IInv
        <5> QED
          BY <1>9, <5>1 DEF Owner, JobOK, PhaseOK, Uploading, Submitting
      <4>3. Uploading(k) => 1 \in 1..(job[k].n - 1)
        BY <4>1, <4>2, FilesFacts DEF JobState
      <4> QED
        BY <4>1, <4>3 DEF Uploaded
    <3>2. remote[job[k].date][Files[1]] # Absent
      BY <1>9, <3>1 DEF IInv, JobOK, UploadedOK
    <3> QED
      BY <1>2, <2>2, <3>2 DEF File
  <2> QED
    BY <1>1, <2>1, <2>2
<1>10. Uploading(j)
  BY <1>1 DEF Uploading
<1> QED
  BY <1>2, <1>3, <1>4, <1>6, <1>7, <1>8, <1>9, <1>10, NextFileMoves

----------------------------------------------------------------------------
(* The submission.                                                         *)

\* A job that has put all its files goes on submitting.
LEMMA Resubmits ==
    ASSUME NEW j \in Jobs, NEW r \in JobState, IInv, Submitting(j),
           job' = [job EXCEPT ![j] = r], r.pc \in {"token", "post"},
           r.date = job[j].date, r.checksum = job[j].checksum,
           UNCHANGED <<version, local, remote, overlapped>>,
           received' \in [Jobs -> 0..(MaxRetries + 1)],
           \A k \in Jobs \ {j} : received'[k] = received[k],
           received'[j] <= r.retry, received'[j] <= MaxRetries
    PROVE  IInv'
<1>1. job'[j] = r /\ JobOK(j) /\ Active(j) /\ Owner(j)
  BY DEF IInv, TypeOK, Active, Submitting, Owner
<1>2. job[j].date \in Dates
  BY <1>1, OwnerHasDate DEF JobOK
<1>3. PhaseOK(j)' /\ WrittenOK(j)'
  BY <1>1, <1>2 DEF PhaseOK, WrittenOK, Submitting
<1>4. UploadedOK(j)'
  BY <1>1 DEF JobOK, UploadedOK, Uploaded, Uploading, Submitting
<1>5. \A k \in Jobs \ {j} : Owner(k) => job[k].date # job[j].date
  BY <1>1 DEF IInv, OneOwner
<1>6. IsStore(local') /\ IsStore(remote') /\ local' = local /\ remote' = remote
  BY DEF IInv, StoresOK
<1> QED
  BY <1>1, <1>3, <1>4, <1>5, <1>6, JobMoves DEF JobOK

\* A job that submits ends, whatever ATRS took.
LEMMA SubmissionEnds ==
    ASSUME NEW j \in Jobs, NEW how \in {"done", "failed"}, IInv, Submitting(j), End(j, how),
           UNCHANGED <<version, local, remote, overlapped>>,
           Taken(j) \/ UNCHANGED received
    PROVE  IInv'
<1>1. received[j] \in 0..MaxRetries /\ received \in [Jobs -> 0..(MaxRetries + 1)]
  BY NccAssumption DEF IInv, TypeOK, JobOK, PhaseOK
<1>2. /\ received' \in [Jobs -> 0..(MaxRetries + 1)]
      /\ \A k \in Jobs \ {j} : received'[k] = received[k]
  <2>1. CASE Taken(j)
    <3>1. received[j] + 1 \in 0..(MaxRetries + 1)
      BY <1>1, NccAssumption
    <3> QED
      BY <1>1, <2>1, <3>1 DEF Taken
  <2> QED
    BY <1>1, <2>1
<1>3. IsStore(local') /\ IsStore(remote') /\ local' = local /\ remote' = remote /\ Active(j)
  BY DEF IInv, StoresOK, Active, Submitting
<1> QED
  BY <1>2, <1>3, JobEnds

LEMMA EnsureTokenPreserves == ASSUME NEW j \in Jobs, IInv, EnsureToken(j) PROVE IInv'
<1>1. job[j] \in JobState /\ JobOK(j) /\ Submitting(j) /\ Active(j)
      /\ received[j] <= job[j].retry /\ received[j] <= MaxRetries
  BY DEF IInv, TypeOK, EnsureToken, At, Submitting, Active, JobOK, PhaseOK
<1>2. received' \in [Jobs -> 0..(MaxRetries + 1)] /\ received' = received
      /\ UNCHANGED <<version, local, remote, received, overlapped>>
  BY DEF IInv, TypeOK, EnsureToken
<1>3. CASE End(j, "failed")
  BY <1>1, <1>2, <1>3, JobFails DEF Submitting
<1>4. ASSUME NEW t \in BOOLEAN,
             job' = [job EXCEPT ![j] = [job[j] EXCEPT !.token = t, !.pc = "post"]]
      PROVE  IInv'
  <2> DEFINE r == [job[j] EXCEPT !.token = t, !.pc = "post"]
  <2>1. r \in JobState /\ r.pc = "post" /\ r.date = job[j].date /\ r.checksum = job[j].checksum
        /\ r.retry = job[j].retry
    BY <1>1 DEF JobState
  <2> HIDE DEF r
  <2> QED
    BY <1>1, <1>2, <1>4, <2>1, Resubmits DEF r
<1>5. CASE job[j].token /\ job' = [job EXCEPT ![j].pc = "post"]
  <2>1. [job[j] EXCEPT !.pc = "post"] = [job[j] EXCEPT !.token = TRUE, !.pc = "post"]
    BY <1>1, <1>5 DEF JobState
  <2>2. job' = [job EXCEPT ![j] = [job[j] EXCEPT !.token = TRUE, !.pc = "post"]]
    BY <1>5, <2>1
  <2> QED
    BY <1>4, <2>2
<1>6. CASE job' = [job EXCEPT ![j] = [job[j] EXCEPT !.token = TRUE, !.pc = "post"]]
  BY <1>4, <1>6
<1> QED
  BY <1>3, <1>5, <1>6 DEF EnsureToken

LEMMA AnsweredPreserves == ASSUME NEW j \in Jobs, IInv, Accepted(j) \/ Refused(j) PROVE IInv'
  BY SubmissionEnds DEF Accepted, Refused, At, Submitting

\* Only the first request of a submission finds no retry counted, and ATRS took none.
LEMMA UnauthorizedPreserves == ASSUME NEW j \in Jobs, IInv, Unauthorized(j) PROVE IInv'
<1> DEFINE r == [job[j] EXCEPT !.token = FALSE, !.retry = 1, !.pc = "token"]
<1>1. job[j] \in JobState /\ Submitting(j) /\ job[j].retry = 0
      /\ received[j] <= job[j].retry /\ received[j] <= MaxRetries
      /\ received \in [Jobs -> 0..(MaxRetries + 1)]
  BY DEF IInv, TypeOK, Unauthorized, At, Submitting, JobOK, PhaseOK
<1>2. r \in JobState /\ r.pc = "token" /\ r.date = job[j].date /\ r.checksum = job[j].checksum
      /\ r.retry = 1
  <2>1. 1 \in 0..(MaxRetries + 1)
    BY NccAssumption
  <2> QED
    BY <1>1, <2>1 DEF JobState
<1>3. job' = [job EXCEPT ![j] = r] /\ UNCHANGED <<version, local, remote, received, overlapped>>
  BY DEF Unauthorized
<1> HIDE DEF r
<1>4. received[j] <= 1
  BY <1>1, NccAssumption
<1> QED
  BY <1>1, <1>2, <1>3, <1>4, Resubmits

LEMMA ClientErrorPreserves == ASSUME NEW j \in Jobs, IInv, ClientError(j) PROVE IInv'
<1>1. job[j] \in JobState /\ Submitting(j) /\ received[j] \in Nat /\ job[j].retry \in Nat
      /\ received[j] <= job[j].retry /\ received[j] <= MaxRetries
      /\ received \in [Jobs -> 0..(MaxRetries + 1)]
  BY NccAssumption DEF IInv, TypeOK, ClientError, At, Submitting, JobOK, PhaseOK, JobState
<1>2. UNCHANGED <<version, local, remote, overlapped>> /\ (Taken(j) \/ UNCHANGED received)
  BY DEF ClientError
<1>3. CASE job[j].retry < MaxRetries
  <2> DEFINE r == [job[j] EXCEPT !.retry = job[j].retry + 1, !.pc = "token"]
  <2>1. r \in JobState /\ r.pc = "token" /\ r.date = job[j].date
        /\ r.checksum = job[j].checksum /\ r.retry = job[j].retry + 1
    <3>1. job[j].retry + 1 \in 0..(MaxRetries + 1)
      BY <1>1, <1>3, NccAssumption
    <3> QED
      BY <1>1, <3>1 DEF JobState
  <2>2. job' = [job EXCEPT ![j] = r]
    BY <1>3 DEF ClientError, RetryLater
  <2> HIDE DEF r
  <2>3. received[j] + 1 <= MaxRetries /\ received[j] + 1 <= job[j].retry + 1
        /\ received[j] <= job[j].retry + 1 /\ received[j] + 1 \in 0..(MaxRetries + 1)
    BY <1>1, <1>3, NccAssumption
  <2>4. /\ received' \in [Jobs -> 0..(MaxRetries + 1)]
        /\ \A k \in Jobs \ {j} : received'[k] = received[k]
        /\ received'[j] <= r.retry /\ received'[j] <= MaxRetries
    <3>1. CASE Taken(j)
      BY <1>1, <2>1, <2>3, <3>1 DEF Taken
    <3>2. CASE UNCHANGED received
      BY <1>1, <2>1, <2>3, <3>2
    <3> QED
      BY <1>2, <3>1, <3>2
  <2> QED
    BY <1>1, <1>2, <2>1, <2>2, <2>4, Resubmits
<1>4. CASE ~(job[j].retry < MaxRetries)
  BY <1>1, <1>2, <1>4, SubmissionEnds DEF ClientError, RetryLater
<1> QED
  BY <1>3, <1>4

----------------------------------------------------------------------------
(* The theorems.                                                           *)

\* A rename that was done and never answered: the file was not there, and the job
\* submits nothing.
LEMMA StallPreserves == ASSUME NEW j \in Jobs, IInv, Stall(j) PROVE IInv'
<1>1. /\ UNCHANGED <<version, local, received, overlapped>>
      /\ Active(j) /\ job[j].pc \notin {"hung", "blocked"}
  BY DEF Stall, At, Active
<1>2. CASE /\ At(j, "rename") /\ MayRename(j) /\ End(j, "blocked")
           /\ remote' = [remote EXCEPT ![job[j].date][File(j)] = job[j].tmp]
  <2> DEFINE d == job[j].date  f == File(j)
  <2>1. /\ job[j] \in JobState /\ PhaseOK(j) /\ job[j].pc = "rename"
    BY <1>2 DEF IInv, TypeOK, JobOK, At
  <2>2. d \in Dates /\ f \in FileNames
    BY <2>1, FilesFacts DEF PhaseOK, JobState, File
  <2>3. remote[d][f] = Absent /\ job[j].tmp = local[d][f] /\ local[d][f] \in Contents(f)
    BY <1>2, <2>2 DEF MayRename, Target, IInv, StoresOK, IsStore
  <2>4. remote' = [remote EXCEPT ![d][f] = local[d][f]]
    BY <1>2, <2>3
  <2> HIDE DEF d, f
  <2>5. IsStore(remote) /\ IsStore(local')
    BY DEF IInv, StoresOK, Stall, IsStore
  <2>6. \A e \in Dates, g \in FileNames :
            remote'[e][g] = IF e = d /\ g = f THEN local[d][f] ELSE remote[e][g]
    BY <2>2, <2>4, <2>5 DEF IsStore
  <2>7. IsStore(remote')
    <3>1. remote' \in [Dates -> [FileNames -> UNION {Contents(g) : g \in FileNames}]]
      BY <2>2, <2>3, <2>4, <2>5 DEF IsStore
    <3> QED
      BY <2>3, <2>5, <2>6, <3>1 DEF IsStore
  <2>8. \A e \in Dates, g \in FileNames :
            remote[e][g] # Absent => remote'[e][g] = remote[e][g]
    BY <2>3, <2>6
  <2>9. received' = received /\ local' = local /\ UNCHANGED <<version, overlapped>>
    BY DEF Stall
  <2>10. received \in [Jobs -> 0..(MaxRetries + 1)] /\ received[j] = 0 /\ Active(j)
    BY <2>1 DEF IInv, TypeOK, PhaseOK, Active
  <2>11. /\ ~(received'[j] > 0) /\ received' \in [Jobs -> 0..(MaxRetries + 1)]
         /\ \A e \in Dates, g \in FileNames : local'[e][g] = local[e][g]
    BY <2>9, <2>10
  <2>12. End(j, "blocked") /\ Active(j)
    BY <1>1, <1>2
  <2> QED
    BY <2>5, <2>7, <2>8, <2>9, <2>11, <2>12, JobEnds
<1>3. CASE (End(j, "hung") \/ End(j, "blocked")) /\ UNCHANGED remote
  BY <1>1, <1>3, JobFails
<1> QED
  BY <1>2, <1>3 DEF Stall

\* A crash ends every job: whoever owned a date without having submitted loses it.
LEMMA CrashPreserves == IInv /\ Crash => IInv'
<1> SUFFICES ASSUME IInv, Crash PROVE IInv'
  OBVIOUS
<1> DEFINE r(j) == [Waiting EXCEPT !.pc = "failed", !.date = job[j].date,
                                   !.checksum = job[j].checksum]
<1>1. UNCHANGED <<version, local, remote, received, overlapped>>
  BY DEF Crash
<1>2. ASSUME NEW j \in Jobs
      PROVE  /\ r(j) \in JobState /\ r(j).pc = "failed" /\ r(j).date = job[j].date
             /\ r(j).checksum = job[j].checksum
             /\ job[j] \in JobState /\ JobOK(j)
             /\ Active(j) => job'[j] = r(j)
             /\ ~Active(j) => job'[j] = job[j]
  BY WaitingTyped DEF Crash, IInv, TypeOK, JobState
<1>3. job' \in [Jobs -> JobState]
  <2>1. \A j \in Jobs : (IF Active(j) THEN r(j) ELSE job[j]) \in JobState
    BY <1>2
  <2>2. job' = [j \in Jobs |-> IF Active(j) THEN r(j) ELSE job[j]]
    BY DEF Crash
  <2> HIDE DEF r
  <2> QED
    BY <2>1, <2>2
<1> HIDE DEF r
<1>4. TypeOK' /\ StoresOK'
  BY <1>1, <1>3 DEF IInv, TypeOK, StoresOK, IsStore
<1>5. ASSUME NEW j \in Jobs
      PROVE  /\ JobOK(j)' /\ (Owner(j)' => Owner(j)) /\ ~Active(j)'
             /\ job'[j].date = job[j].date
  <2>1. CASE Active(j)
    <3>1. /\ job'[j].pc = "failed" /\ job'[j].date = job[j].date
          /\ job'[j].checksum = job[j].checksum /\ job[j].date \in Dates
      BY <1>2, <2>1, OwnerHasDate DEF JobOK
    <3>2. PhaseOK(j)' /\ WrittenOK(j)' /\ ~Active(j)' /\ ~Uploading(j)' /\ ~Submitting(j)'
      BY <3>1 DEF PhaseOK, WrittenOK, Active, Uploading, Submitting
    <3>3. Owner(j)' => received[j] > 0
      BY <1>1, <3>2 DEF Owner
    <3>4. received[j] > 0 => Owner(j) /\ ~Uploading(j)
      <4>1. PhaseOK(j)
        BY <1>2 DEF JobOK
      <4> QED
        BY <4>1 DEF PhaseOK, Owner, Uploading
    <3>5. UploadedOK(j)'
      <4>1. SUFFICES ASSUME received[j] > 0, NEW f \in FileNames
                     PROVE  /\ remote[job[j].date][f] # Absent
                            /\ job[j].date \notin overlapped =>
                                 remote[job[j].date][f] = Content(f, job[j].checksum)
        BY <1>1, <3>1, <3>3 DEF UploadedOK, Uploaded
      <4>2. Owner(j) /\ f \in Uploaded(j)
        BY <3>4, <4>1 DEF Uploaded
      <4> QED
        BY <1>2, <4>2 DEF JobOK, UploadedOK
    <3> QED
      BY <3>1, <3>2, <3>3, <3>4, <3>5 DEF JobOK
  <2>2. CASE ~Active(j)
    <3>1. job'[j] = job[j]
      BY <1>2, <2>2
    <3>2. /\ PhaseOK(j)' = PhaseOK(j) /\ WrittenOK(j)' = WrittenOK(j)
          /\ UploadedOK(j)' = UploadedOK(j) /\ Owner(j)' = Owner(j) /\ Active(j)' = Active(j)
      BY <1>1, <3>1
      DEF PhaseOK, WrittenOK, UploadedOK, Uploaded, Owner, Active, Uploading, Submitting
    <3> QED
      BY <1>2, <2>2, <3>1, <3>2 DEF JobOK
  <2> QED
    BY <2>1, <2>2
<1>6. OneOwner' /\ OverlapSeen'
  BY <1>5 DEF IInv, OneOwner, OverlapSeen
<1> QED
  BY <1>4, <1>5, <1>6 DEF IInv

LEMMA JobStepPreserves == ASSUME NEW j \in Jobs, IInv, JobStep(j) PROVE IInv'
<1>1. CASE Generate(j)
  BY <1>1, QueryPreserves, WriteFilesPreserves, WriteFailsPreserves,
     GenerationFailsPreserves, DisconnectPreserves DEF Generate
<1>2. CASE Upload(j)
  BY <1>2, ConnectPreserves, PutPreserves, NotUploadedPreserves, RenamePreserves DEF Upload
<1>3. CASE Submit(j)
  BY <1>3, EnsureTokenPreserves, AnsweredPreserves, UnauthorizedPreserves,
     ClientErrorPreserves DEF Submit
<1> QED
  BY <1>1, <1>2, <1>3 DEF JobStep

LEMMA NextPreserves == IInv /\ [Next]_vars => IInv'
<1> SUFFICES ASSUME IInv, [Next]_vars PROVE IInv'
  OBVIOUS
<1>1. CASE UNCHANGED vars
  <2>1. UNCHANGED <<version, local, remote, received, job, overlapped>>
    BY <1>1 DEF vars
  <2> QED
    BY <2>1
    DEF IInv, TypeOK, StoresOK, IsStore, JobOK, PhaseOK, WrittenOK, UploadedOK, Uploaded,
        Owner, Active, Uploading, Submitting, OneOwner, OverlapSeen
<1>2. CASE Next
  BY <1>2, DatabaseChangesPreserves, StartPreserves, JobStepPreserves, StallPreserves,
     CrashPreserves DEF Next
<1> QED
  BY <1>1, <1>2

\* The inductive invariant: every job that has put files under their final names
\* without a failure, or has gone on to ATRS, owns its date; a date has one owner,
\* its files stay on the server, and they are the owner's report unless a second
\* job was seen at work on the date (scheduler.py:99-126, sftp_uploader.py:107-194).
THEOREM Invariance == Spec => []IInv
  BY InitIInv, NextPreserves, PTL DEF Spec

\* The types of the variables, for any number of jobs: in particular no call of
\* submit_daily_report makes ATRS take more than max_retries + 1 copies of a
\* report, the retry after a 401 included (atrs_client.py).
THEOREM TypeCorrect == Spec => []TypeOK
<1>1. IInv => TypeOK
  BY DEF IInv
<1> QED
  BY <1>1, Invariance, PTL

\* A report that ATRS took is completely on the server under its final names, and
\* unless two jobs worked on its date at the same time it is the very report whose
\* checksum ATRS has, whatever was cut short, retried or crashed.
THEOREM ReportsMatch == Spec => []ReportMatchesFiles
<1>1. IInv => ReportMatchesFiles
  <2>1. SUFFICES ASSUME IInv, NEW j \in Jobs, NEW f \in FileNames, received[j] > 0
                 PROVE  /\ remote[job[j].date][f] # Absent
                        /\ job[j].date \notin overlapped =>
                             remote[job[j].date][f] = Content(f, job[j].checksum)
    BY DEF ReportMatchesFiles
  <2>2. Owner(j) /\ f \in Uploaded(j)
    BY <2>1 DEF Owner, Uploaded, Uploading, IInv, JobOK, PhaseOK
  <2> QED
    BY <2>1, <2>2 DEF IInv, JobOK, UploadedOK
<1> QED
  BY <1>1, Invariance, PTL

\* Whatever number of jobs is started for a date, one after the other or at the
\* same time, at most one of them ever submits it to ATRS.
THEOREM ReportedOnce == Spec => []OneReporter
<1>1. IInv => OneReporter
  BY DEF IInv, OneOwner, Owner, OneReporter
<1> QED
  BY <1>1, Invariance, PTL

============================================================================
