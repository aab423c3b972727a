------------------------ MODULE SipProcessorProofs ------------------------
(***************************************************************************)
(* The safety properties of SipProcessor, for any number of callers,       *)
(* calls, coroutines and requests, any times to live and any thresholds.   *)
(***************************************************************************)
EXTENDS SipProcessor, FiniteSetTheorems, TLAPS

----------------------------------------------------------------------------
(* The inductive invariant.                                                *)

\* TypeOK, but for the bound on inserting, which OneInsert states.
TypesOK ==
    /\ attempts \in Counter /\ answered \in Counter /\ total \in Counter
    /\ callers \in [members : SUBSET Callers, ttl : 0..WindowTtl]
    /\ active \in [Calls -> CallStates]
    /\ task \in [Tasks -> TaskState]
    /\ aborted \in BOOLEAN
    /\ invites \in [Calls -> 0..MaxInvites]
    /\ rows \in [Calls -> Nat]
    /\ request \in [Requests -> RequestState]
    /\ undisturbed \in BOOLEAN

\* The callers never outlive the total that counts them.
CountersOK ==
    /\ IsFiniteSet(callers.members)
    /\ callers.ttl = 0 => callers.members = {}
    /\ callers.ttl <= total.ttl
    /\ CallersAreCounted

OneInsert ==
    /\ inserting = {t \in Tasks : At(t, "insert")}
    /\ \A t, u \in inserting : t = u

TaskOK ==
    \A t \in Tasks :
        /\ task[t].at # "idle" => task[t].call \in Calls
        /\ task[t].at = "attempt" => task[t].caller \in Callers

\* CallLoggedOnce, about sets that are finite.
Known(c) == IF active[c] = "unknown" THEN 0 ELSE 1
Accounted(c) ==
    /\ IsFiniteSet(Ending(c))
    /\ rows[c] + Cardinality(Ending(c)) + Known(c) <= invites[c]
LogOK == \A c \in Calls : Accounted(c)

\* The requests that have counted their caller and were not lost to a failure of
\* Redis or to the model.
Reading == {"get attempts", "get answered", "scard", "get total", "predict"}
IsLive(q) == q.at \in Reading \/ q.method = "rules"
Live == {r \in Requests : IsLive(request[r])}

\* Every call counted so far is of a caller of its own, and of a live request.
Burst ==
    /\ undisturbed
    /\ answered = NoKey
    /\ Cardinality(Live) = total.n
    /\ Cardinality(callers.members) = total.n
    /\ total.n > 0

\* What a request has read is what the counters hold now: the request that counted
\* last is such a one.
UpToDate(q) ==
    /\ q.at = "get total" => q.read = total.n
    /\ q.at = "predict" => q.overlap = 30
    /\ q.at = "done" /\ total.n >= DistinctA => q.verdict = "masking"

MethodsOK == \A r \in Requests : request[r].method # "none" => request[r].at = "done"
LiveCounted == undisturbed => IsFiniteSet(Live) /\ Cardinality(Live) <= total.n
LastIsUpToDate == Burst => \E r \in Live : UpToDate(request[r])
RequestsOK == MethodsOK /\ LiveCounted /\ LastIsUpToDate

IInv == TypesOK /\ CountersOK /\ OneInsert /\ TaskOK /\ LogOK /\ RequestsOK

----------------------------------------------------------------------------
(* Lemmas.                                                                 *)

\* A counter after a pipeline has counted, and after a tick.
LEMMA CounterFacts ==
    ASSUME NEW key \in Counter
    PROVE  /\ Incremented(key) \in Counter
           /\ Incremented(key).n = key.n + 1 /\ Incremented(key).ttl = CountersTtl
           /\ Aged(key, NoKey) \in Counter
           /\ NoKey \in Counter /\ NoKey.n = 0 /\ NoKey.ttl = 0
           /\ key.ttl > 1 => Aged(key, NoKey).n = key.n /\ Aged(key, NoKey).ttl = key.ttl - 1
           /\ key.ttl = 0 => Aged(key, NoKey) = key
<1>1. NoKey \in Counter /\ NoKey.n = 0 /\ NoKey.ttl = 0
  BY SipAssumption DEF NoKey, Counter
<1>2. Incremented(key) \in Counter /\ Incremented(key).n = key.n + 1 /\ Incremented(key).ttl = CountersTtl
  BY SipAssumption DEF Incremented, Counter
<1>3. CASE key.ttl = 0 \/ key.ttl = 1
  BY <1>1, <1>2, <1>3 DEF Aged
<1>4. CASE key.ttl > 1
  <2>1. /\ Aged(key, NoKey) = [key EXCEPT !.ttl = key.ttl - 1]
        /\ key.n \in Nat /\ key.ttl - 1 \in 0..CountersTtl
    BY <1>4, SipAssumption DEF Aged, Counter
  <2> QED
    BY <2>1, <1>1, <1>2, <1>4 DEF Counter
<1> QED
  BY <1>3, <1>4 DEF Counter

\* One more member, or one less.
LEMMA OneMore ==
    ASSUME NEW S, NEW x, IsFiniteSet(S)
    PROVE  /\ IsFiniteSet(S \cup {x}) /\ Cardinality(S) \in Nat
           /\ Cardinality(S \cup {x}) \in Nat
           /\ Cardinality(S \cup {x}) <= Cardinality(S) + 1
           /\ Cardinality(S) <= Cardinality(S \cup {x})
           /\ x \notin S => Cardinality(S \cup {x}) = Cardinality(S) + 1
<1>1. Cardinality(S) \in Nat
  BY FS_CardinalityType
<1>2. /\ IsFiniteSet(S \cup {x})
      /\ Cardinality(S \cup {x}) = IF x \in S THEN Cardinality(S) ELSE Cardinality(S) + 1
  BY FS_AddElement
<1> QED
  BY <1>1, <1>2

LEMMA OneLess ==
    ASSUME NEW S, NEW x \in S, IsFiniteSet(S)
    PROVE  /\ IsFiniteSet(S \ {x}) /\ Cardinality(S) \in Nat
           /\ Cardinality(S \ {x}) \in Nat
           /\ Cardinality(S \ {x}) + 1 = Cardinality(S)
<1>1. Cardinality(S) \in Nat
  BY FS_CardinalityType
<1>2. /\ IsFiniteSet(S \ {x})
      /\ Cardinality(S \ {x}) = IF x \in S THEN Cardinality(S) - 1 ELSE Cardinality(S)
  BY FS_RemoveElement
<1>3. Cardinality(S \ {x}) \in Nat
  BY <1>2, FS_CardinalityType
<1> QED
  BY <1>1, <1>2, <1>3

\* Where a coroutine can be put, and how the log sees it there.
LEMMA TaskFacts ==
    ASSUME NEW c \in Calls, NEW a \in Callers
    PROVE  /\ Idle \in TaskState /\ Idle.at = "idle"
           /\ \A step \in {"attempt", "answer", "duration", "insert"} :
                /\ Waiting(step, c) \in TaskState
                /\ Waiting(step, c).at = step /\ Waiting(step, c).call = c
           /\ [Waiting("attempt", c) EXCEPT !.caller = a] \in TaskState
           /\ [Waiting("attempt", c) EXCEPT !.caller = a].at = "attempt"
           /\ [Waiting("attempt", c) EXCEPT !.caller = a].call = c
  BY DEF Idle, Waiting, TaskState

----------------------------------------------------------------------------
(* The coroutines and the log.                                             *)

\* A coroutine that has taken the record of c, and what a move of it does to the
\* number of those.
Ends(s, c) == s.call = c /\ s.at \in {"duration", "insert"}

LEMMA EndingMoves ==
    ASSUME TypesOK, NEW c \in Calls, IsFiniteSet(Ending(c)), NEW t \in Tasks, NEW s,
           task' = [task EXCEPT ![t] = s]
    PROVE  /\ IsFiniteSet(Ending(c)')
           /\ Cardinality(Ending(c)) \in Nat /\ Cardinality(Ending(c)') \in Nat
           /\ Ends(s, c) => Cardinality(Ending(c)') <= Cardinality(Ending(c)) + 1
           /\ ~Ends(s, c) => Cardinality(Ending(c)') <= Cardinality(Ending(c))
           /\ Ends(s, c) /\ Ends(task[t], c) => Cardinality(Ending(c)') = Cardinality(Ending(c))
           /\ ~Ends(s, c) /\ Ends(task[t], c) => Cardinality(Ending(c)') + 1 = Cardinality(Ending(c))
<1> DEFINE E == Ending(c)
           F == Ending(c)'
<1>1. E = {u \in Tasks : Ends(task[u], c)} /\ F = {u \in Tasks : Ends(task'[u], c)}
  BY DEF Ending, Ends
<1>2. task'[t] = s /\ \A u \in Tasks : u # t => task'[u] = task[u]
  BY DEF TypesOK
<1>3. IsFiniteSet(E)
  OBVIOUS
<1> HIDE DEF E, F
<1>4. /\ IsFiniteSet(F) /\ Cardinality(E) \in Nat /\ Cardinality(F) \in Nat
      /\ Ends(s, c) => Cardinality(F) <= Cardinality(E) + 1
      /\ ~Ends(s, c) => Cardinality(F) <= Cardinality(E)
      /\ Ends(s, c) /\ Ends(task[t], c) => Cardinality(F) = Cardinality(E)
      /\ ~Ends(s, c) /\ Ends(task[t], c) => Cardinality(F) + 1 = Cardinality(E)
  <2>1. CASE Ends(s, c)
    <3>1. F = E \cup {t}
      BY <1>1, <1>2, <2>1
    <3>2. Ends(task[t], c) => F = E
      BY <1>1, <3>1
    <3>3. /\ IsFiniteSet(F) /\ Cardinality(E) \in Nat /\ Cardinality(F) \in Nat
          /\ Cardinality(F) <= Cardinality(E) + 1
      BY <1>3, <3>1, OneMore
    <3> QED
      BY <2>1, <3>2, <3>3
  <2>2. CASE ~Ends(s, c) /\ t \in E
    <3>1. F = E \ {t}
      BY <1>1, <1>2, <2>2
    <3>2. /\ IsFiniteSet(F) /\ Cardinality(E) \in Nat /\ Cardinality(F) \in Nat
          /\ Cardinality(F) + 1 = Cardinality(E)
      BY <1>3, <2>2, <3>1, OneLess
    <3> QED
      BY <2>2, <3>2
  <2>3. CASE ~Ends(s, c) /\ t \notin E
    <3>1. F = E /\ ~Ends(task[t], c)
      BY <1>1, <1>2, <2>3
    <3> QED
      BY <1>3, <2>3, <3>1, FS_CardinalityType
  <2> QED
    BY <2>1, <2>2, <2>3
<1> QED
  BY <1>4 DEF E, F

\* The steps of one coroutine: the record of c is handed on, never doubled.
LEMMA AccountMoves ==
    ASSUME TypesOK, NEW c \in Calls, Accounted(c), NEW t \in Tasks, NEW s,
           task' = [task EXCEPT ![t] = s],
           rows'[c] \in Nat, invites'[c] \in Nat,
           rows'[c] = rows[c] \/ (rows'[c] = rows[c] + 1 /\ Ends(task[t], c) /\ ~Ends(s, c)),
           Ends(s, c) => Ends(task[t], c) \/ (Known(c) = 1 /\ Known(c)' = 0),
           Known(c)' <= Known(c) \/ (~Ends(s, c) /\ invites'[c] = invites[c] + 1),
           invites'[c] >= invites[c],
           rows'[c] = rows[c] \/ Known(c)' <= Known(c)
    PROVE  Accounted(c)'
<1> DEFINE e == Cardinality(Ending(c))
           f == Cardinality(Ending(c)')
<1>1. /\ rows[c] \in Nat /\ invites[c] \in Nat
      /\ Known(c) \in {0, 1} /\ Known(c)' \in {0, 1}
  BY DEF TypesOK, Known
<1>2. /\ IsFiniteSet(Ending(c)') /\ e \in Nat /\ f \in Nat
      /\ Ends(s, c) => f <= e + 1
      /\ ~Ends(s, c) => f <= e
      /\ Ends(s, c) /\ Ends(task[t], c) => f = e
      /\ ~Ends(s, c) /\ Ends(task[t], c) => f + 1 = e
  BY EndingMoves DEF Accounted
<1>3. rows[c] + e + Known(c) <= invites[c]
  BY DEF Accounted
<1> HIDE DEF e, f
<1>4. rows'[c] + f + Known(c)' <= invites'[c]
  BY <1>1, <1>2, <1>3
<1> QED
  BY <1>2, <1>4 DEF Accounted, f

\* Nothing the log is about changes.
LEMMA AccountsStay ==
    ASSUME LogOK, UNCHANGED <<active, invites, rows, task>>
    PROVE  LogOK'
  BY DEF LogOK, Accounted, Ending, Known

\* A coroutine that moves.
LEMMA TaskMoves ==
    ASSUME TypesOK, TaskOK, NEW t \in Tasks, NEW s \in TaskState,
           task' = [task EXCEPT ![t] = s],
           s.at # "idle" => s.call \in Calls,
           s.at = "attempt" => s.caller \in Callers
    PROVE  task' \in [Tasks -> TaskState] /\ TaskOK'
<1>1. task' \in [Tasks -> TaskState] /\ task'[t] = s /\ \A u \in Tasks : u # t => task'[u] = task[u]
  BY DEF TypesOK
<1>2. ASSUME NEW u \in Tasks
      PROVE  /\ task'[u].at # "idle" => task'[u].call \in Calls
             /\ task'[u].at = "attempt" => task'[u].caller \in Callers
  BY <1>1 DEF TaskOK
<1> QED
  BY <1>1, <1>2 DEF TaskOK

\* The session is taken, given back, or left to the coroutine that has it.
LEMMA InsertMoves ==
    ASSUME TypesOK, OneInsert, NEW t \in Tasks, NEW s,
           task' = [task EXCEPT ![t] = s],
           \/ inserting' = inserting /\ s.at # "insert" /\ task[t].at # "insert"
           \/ inserting = {} /\ inserting' = {t} /\ s.at = "insert"
           \/ inserting' = {} /\ s.at # "insert" /\ task[t].at = "insert"
    PROVE  OneInsert'
<1>1. task'[t] = s /\ \A u \in Tasks : u # t => task'[u] = task[u]
  BY DEF TypesOK
<1>2. inserting' = {u \in Tasks : task'[u].at = "insert"}
  BY <1>1 DEF OneInsert, At
<1>3. \A u, v \in inserting' : u = v
  BY DEF OneInsert
<1> QED
  BY <1>2, <1>3 DEF OneInsert, At

\* The part of the invariant that is about CDRProcessor, at each of its steps.
CdrTypes ==
    /\ active \in [Calls -> CallStates]
    /\ task \in [Tasks -> TaskState]
    /\ aborted \in BOOLEAN
    /\ invites \in [Calls -> 0..MaxInvites]
    /\ rows \in [Calls -> Nat]

CdrOK == CdrTypes /\ OneInsert /\ TaskOK /\ LogOK

LEMMA CdrStays ==
    ASSUME IInv, UNCHANGED cdr
    PROVE  CdrOK'
<1>1. LogOK'
  BY AccountsStay DEF IInv, cdr
<1> QED
  BY <1>1 DEF IInv, cdr, CdrOK, CdrTypes, TypesOK, OneInsert, TaskOK, At

LEMMA InviteStep ==
    ASSUME IInv, NEW t \in Tasks, NEW c \in Calls, NEW a \in Callers, ProcessInvite(t, c, a)
    PROVE  CdrOK'
<1> DEFINE s == [Waiting("attempt", c) EXCEPT !.caller = a]
<1>1. s \in TaskState /\ s.at = "attempt" /\ s.call = c
  BY TaskFacts
<1>2. s.caller = a
  BY DEF Waiting, Idle
<1>3. /\ task' = [task EXCEPT ![t] = s] /\ task[t].at = "idle"
      /\ active' = [active EXCEPT ![c] = "attempting"]
      /\ invites' = [invites EXCEPT ![c] = invites[c] + 1] /\ invites[c] < MaxInvites
      /\ UNCHANGED <<inserting, aborted, rows>>
  BY DEF ProcessInvite, At, LogIdle
<1> HIDE DEF s
<1>4. task' \in [Tasks -> TaskState] /\ TaskOK'
  BY <1>1, <1>2, <1>3, TaskMoves DEF IInv
<1>5. OneInsert'
  BY <1>1, <1>3, InsertMoves DEF IInv
<1>6. /\ active' \in [Calls -> CallStates] /\ invites' \in [Calls -> 0..MaxInvites]
      /\ \A d \in Calls : /\ d # c => active'[d] = active[d] /\ invites'[d] = invites[d]
                          /\ d = c => active'[d] = "attempting" /\ invites'[d] = invites[d] + 1
  BY <1>3, SipAssumption DEF IInv, TypesOK, CallStates
<1>7. CdrTypes'
  BY <1>3, <1>4, <1>6 DEF IInv, TypesOK, CdrTypes
<1>8. ASSUME NEW d \in Calls PROVE Accounted(d)'
  <2>1. TypesOK /\ Accounted(d)
    BY DEF IInv, LogOK
  <2>2. ~Ends(s, d)
    BY <1>1 DEF Ends
  <2>3. rows'[d] = rows[d] /\ rows'[d] \in Nat /\ invites'[d] \in Nat /\ invites[d] \in Nat
    BY <1>3, <1>6, <2>1, SipAssumption DEF TypesOK
  <2>4. /\ Known(d)' <= Known(d) \/ invites'[d] = invites[d] + 1
        /\ invites'[d] >= invites[d]
    BY <1>6, <2>3 DEF Known
  <2> QED
    BY <1>3, <2>1, <2>2, <2>3, <2>4, AccountMoves
<1> QED
  BY <1>4, <1>5, <1>7, <1>8 DEF CdrOK, LogOK

\* A coroutine is done, or goes on to where it does not hold a record.
LEMMA ReleaseStep ==
    ASSUME IInv, NEW t \in Tasks, NEW s \in TaskState,
           s.at # "idle" => s.call \in Calls, s.at # "attempt",
           s.at \notin {"duration", "insert"}, task[t].at # "insert",
           task' = [task EXCEPT ![t] = s],
           active' \in [Calls -> CallStates],
           \A d \in Calls : Known(d)' <= Known(d),
           UNCHANGED <<inserting, aborted, rows, invites>>
    PROVE  CdrOK'
<1>1. task' \in [Tasks -> TaskState] /\ TaskOK'
  BY TaskMoves DEF IInv
<1>2. OneInsert'
  BY InsertMoves DEF IInv
<1>3. CdrTypes'
  BY <1>1 DEF IInv, TypesOK, CdrTypes
<1>4. ASSUME NEW d \in Calls PROVE Accounted(d)'
  <2>1. TypesOK /\ Accounted(d)
    BY DEF IInv, LogOK
  <2>2. ~Ends(s, d)
    BY DEF Ends
  <2>3. /\ rows'[d] = rows[d] /\ rows'[d] \in Nat
        /\ invites'[d] = invites[d] /\ invites'[d] \in Nat /\ invites'[d] >= invites[d]
    BY <2>1 DEF TypesOK
  <2> QED
    BY <2>1, <2>2, <2>3, AccountMoves
<1> QED
  BY <1>1, <1>2, <1>3, <1>4 DEF CdrOK, LogOK

\* process_bye and process_failure pop the call: only they take its record.
LEMMA PopFacts ==
    ASSUME TypesOK, NEW c \in Calls, active[c] # "unknown", active' = Forgotten(c)
    PROVE  /\ active' \in [Calls -> CallStates]
           /\ Known(c) = 1 /\ Known(c)' = 0
           /\ \A d \in Calls : Known(d)' <= Known(d)
<1>1. /\ active' \in [Calls -> CallStates] /\ active'[c] = "unknown"
      /\ \A d \in Calls : d # c => active'[d] = active[d]
  BY DEF TypesOK, Forgotten, CallStates
<1> QED
  BY <1>1 DEF Known

\* A coroutine takes the record of a call it pops, or hands on the one it has.
LEMMA TakeStep ==
    ASSUME IInv, NEW t \in Tasks, NEW c \in Calls, NEW s \in TaskState,
           s.call = c, s.at \in {"duration", "insert"},
           task' = [task EXCEPT ![t] = s],
           OneInsert',
           active' \in [Calls -> CallStates],
           \A d \in Calls : Known(d)' <= Known(d),
           Ends(task[t], c) \/ (Known(c) = 1 /\ Known(c)' = 0),
           UNCHANGED <<aborted, rows, invites>>
    PROVE  CdrOK'
<1>1. task' \in [Tasks -> TaskState] /\ TaskOK'
  BY TaskMoves DEF IInv
<1>2. CdrTypes'
  BY <1>1 DEF IInv, TypesOK, CdrTypes
<1>3. ASSUME NEW d \in Calls PROVE Accounted(d)'
  <2>1. TypesOK /\ Accounted(d)
    BY DEF IInv, LogOK
  <2>2. Ends(s, d) => d = c
    BY DEF Ends
  <2>3. /\ rows'[d] = rows[d] /\ rows'[d] \in Nat
        /\ invites'[d] = invites[d] /\ invites'[d] \in Nat /\ invites'[d] >= invites[d]
    BY <2>1 DEF TypesOK
  <2> QED
    BY <2>1, <2>2, <2>3, AccountMoves
<1> QED
  BY <1>1, <1>2, <1>3 DEF CdrOK, LogOK

\* A pipeline of Redis returns, or fails, and the coroutine is done.
LEMMA PipelineStep ==
    ASSUME IInv, NEW t \in Tasks,
           task[t].at \in {"attempt", "answer", "duration"},
           task' = [task EXCEPT ![t] = Idle], LogIdle, UNCHANGED <<active, invites>>
    PROVE  CdrOK'
<1>1. Idle \in TaskState /\ Idle.at = "idle"
  BY DEF Idle, TaskState
<1>2. active' \in [Calls -> CallStates] /\ \A d \in Calls : Known(d)' <= Known(d)
  BY DEF IInv, TypesOK, Known
<1>3. UNCHANGED <<inserting, aborted, rows, invites>>
  BY DEF LogIdle
<1> QED
  BY <1>1, <1>2, <1>3, ReleaseStep

LEMMA AnswerStep ==
    ASSUME IInv, NEW t \in Tasks, NEW c \in Calls, ProcessAnswer(t, c)
    PROVE  CdrOK'
<1> DEFINE s == Waiting("answer", c)
<1>1. s \in TaskState /\ s.at = "answer" /\ s.call = c
  BY DEF Waiting, Idle, TaskState
<1>2. /\ task' = [task EXCEPT ![t] = s] /\ task[t].at = "idle"
      /\ active[c] # "unknown" /\ active' = [active EXCEPT ![c] = "answered"]
      /\ UNCHANGED <<inserting, aborted, rows, invites>>
  BY DEF ProcessAnswer, At, LogIdle
<1> HIDE DEF s
<1>3. /\ active' \in [Calls -> CallStates]
      /\ \A d \in Calls : Known(d)' <= Known(d)
  BY <1>2 DEF IInv, TypesOK, CallStates, Known
<1> QED
  BY <1>1, <1>2, <1>3, ReleaseStep

LEMMA ByeStep ==
    ASSUME IInv, NEW t \in Tasks, NEW c \in Calls, ProcessBye(t, c)
    PROVE  CdrOK'
<1> DEFINE s == Waiting("duration", c)
<1>1. s \in TaskState /\ s.at = "duration" /\ s.call = c
  BY DEF Waiting, Idle, TaskState
<1>2. /\ task' = [task EXCEPT ![t] = s] /\ task[t].at = "idle"
      /\ active[c] # "unknown" /\ active' = Forgotten(c)
      /\ UNCHANGED <<inserting, aborted, rows, invites>>
  BY DEF ProcessBye, At, LogIdle
<1> HIDE DEF s
<1>3. OneInsert'
  BY <1>1, <1>2, InsertMoves DEF IInv
<1>4. /\ active' \in [Calls -> CallStates]
      /\ Known(c) = 1 /\ Known(c)' = 0
      /\ \A d \in Calls : Known(d)' <= Known(d)
  BY <1>2, PopFacts DEF IInv
<1> QED
  BY <1>1, <1>2, <1>3, <1>4, TakeStep

\* The session takes the INSERT of a popped call, or refuses it.
LEMMA BeginInsertStep ==
    ASSUME IInv, NEW t \in Tasks, NEW c \in Calls, BeginInsert(t, c),
           task[t].at # "insert",
           active' \in [Calls -> CallStates],
           \A d \in Calls : Known(d)' <= Known(d),
           Ends(task[t], c) \/ (Known(c) = 1 /\ Known(c)' = 0),
           UNCHANGED <<aborted, rows, invites>>
    PROVE  CdrOK'
<1> DEFINE s == Waiting("insert", c)
<1>1. s \in TaskState /\ s.at = "insert" /\ s.call = c
  BY DEF Waiting, Idle, TaskState
<1>2. Idle \in TaskState /\ Idle.at = "idle"
  BY DEF Idle, TaskState
<1>3. \/ inserting = {} /\ inserting' = {t} /\ task' = [task EXCEPT ![t] = s]
      \/ inserting' = inserting /\ task' = [task EXCEPT ![t] = Idle]
  BY DEF BeginInsert
<1> HIDE DEF s
<1>4. CASE inserting = {} /\ inserting' = {t} /\ task' = [task EXCEPT ![t] = s]
  <2>1. OneInsert'
    BY <1>1, <1>4, InsertMoves DEF IInv
  <2> QED
    BY <1>1, <1>4, <2>1, TakeStep
<1>5. CASE inserting' = inserting /\ task' = [task EXCEPT ![t] = Idle]
  BY <1>2, <1>5, ReleaseStep
<1> QED
  BY <1>3, <1>4, <1>5

LEMMA DurationStep ==
    ASSUME IInv, NEW t \in Tasks, DurationRecorded(t)
    PROVE  CdrOK'
<1> DEFINE c == task[t].call
<1>1. task[t].at = "duration" /\ c \in Calls
  BY DEF DurationRecorded, At, IInv, TaskOK
<1>2. BeginInsert(t, c) /\ UNCHANGED <<active, aborted, invites, rows>>
  BY DEF DurationRecorded
<1>3. active' \in [Calls -> CallStates] /\ \A d \in Calls : Known(d)' <= Known(d)
  BY <1>2 DEF IInv, TypesOK, Known
<1>4. Ends(task[t], c)
  BY <1>1 DEF Ends
<1> HIDE DEF c
<1> QED
  BY <1>1, <1>2, <1>3, <1>4, BeginInsertStep

LEMMA FailureStep ==
    ASSUME IInv, NEW t \in Tasks, NEW c \in Calls, ProcessFailure(t, c)
    PROVE  CdrOK'
<1>1. task[t].at = "idle" /\ active[c] # "unknown" /\ active' = Forgotten(c)
  BY DEF ProcessFailure, At
<1>2. BeginInsert(t, c) /\ UNCHANGED <<aborted, invites, rows>>
  BY DEF ProcessFailure
<1>3. /\ active' \in [Calls -> CallStates]
      /\ Known(c) = 1 /\ Known(c)' = 0
      /\ \A d \in Calls : Known(d)' <= Known(d)
  BY <1>1, PopFacts DEF IInv
<1> QED
  BY <1>1, <1>2, <1>3, BeginInsertStep

\* The INSERT ends: with a row, or with an aborted transaction.
LEMMA InsertEnds ==
    ASSUME IInv, NEW t \in Tasks, Log(t)
    PROVE  CdrOK'
<1> DEFINE c == task[t].call
<1>1. /\ task[t].at = "insert" /\ inserting' = {}
      /\ task' = [task EXCEPT ![t] = Idle]
      /\ UNCHANGED <<active, invites>>
  BY DEF Log, Inserted, InsertFails, At
<1>2. c \in Calls
  BY <1>1 DEF IInv, TaskOK
<1>3. Idle \in TaskState /\ Idle.at = "idle"
  BY DEF Idle, TaskState
<1>4. /\ aborted' \in BOOLEAN
      /\ rows' = [rows EXCEPT ![c] = rows[c] + 1] \/ rows' = rows
  BY DEF Log, Inserted, InsertFails, IInv, TypesOK
<1>5. Ends(task[t], c)
  BY <1>1 DEF Ends
<1> HIDE DEF c
<1>6. /\ rows' \in [Calls -> Nat]
      /\ \A d \in Calls : rows'[d] = rows[d] \/ (d = c /\ rows'[d] = rows[d] + 1)
  BY <1>2, <1>4 DEF IInv, TypesOK
<1>7. task' \in [Tasks -> TaskState] /\ TaskOK'
  BY <1>1, <1>3, TaskMoves DEF IInv
<1>8. OneInsert'
  BY <1>1, <1>3, InsertMoves DEF IInv
<1>9. CdrTypes'
  BY <1>1, <1>4, <1>6, <1>7 DEF IInv, TypesOK, CdrTypes
<1>10. ASSUME NEW d \in Calls PROVE Accounted(d)'
  <2>1. TypesOK /\ Accounted(d)
    BY DEF IInv, LogOK
  <2>2. ~Ends(Idle, d)
    BY <1>3 DEF Ends
  <2>3. /\ rows'[d] \in Nat
        /\ rows'[d] = rows[d] \/ (rows'[d] = rows[d] + 1 /\ Ends(task[t], d))
    BY <1>5, <1>6
  <2>4. /\ invites'[d] = invites[d] /\ invites'[d] \in Nat /\ invites'[d] >= invites[d]
        /\ Known(d)' <= Known(d)
    BY <1>1, <2>1 DEF TypesOK, Known
  <2> QED
    BY <1>1, <2>1, <2>2, <2>3, <2>4, AccountMoves
<1> QED
  BY <1>7, <1>8, <1>9, <1>10 DEF CdrOK, LogOK

LEMMA CdrStep ==
    ASSUME IInv, [Next]_vars
    PROVE  CdrOK'
<1>1. CASE UNCHANGED cdr
  BY <1>1, CdrStays
<1>2. ASSUME NEW t \in Tasks, Event(t) PROVE CdrOK'
  BY <1>2, InviteStep, AnswerStep, ByeStep, FailureStep DEF Event
<1>3. ASSUME NEW t \in Tasks, Redis(t) PROVE CdrOK'
  <2>1. CASE DurationRecorded(t)
    BY <2>1, DurationStep
  <2>2. CASE AttemptCounted(t) \/ AnswerCounted(t) \/ PipelineFails(t)
    BY <2>2, PipelineStep DEF AttemptCounted, AnswerCounted, PipelineFails, At
  <2> QED
    BY <1>3, <2>1, <2>2 DEF Redis
<1>4. ASSUME NEW t \in Tasks, Log(t) PROVE CdrOK'
  BY <1>4, InsertEnds
<1>5. CASE Tick \/ ResetMetrics
  <2>1. UNCHANGED cdr
    BY <1>5 DEF Tick, ResetMetrics
  <2> QED
    BY <1>1, <2>1
<1>6. ASSUME NEW r \in Requests, Receive(r) \/ Read(r) \/ AnalysisFails(r) PROVE CdrOK'
  <2>1. UNCHANGED cdr
    BY <1>6 DEF Receive, Analyze, Read, GetAttempts, GetAnswered, CountCallers, GetTotal,
                Predict, Keep, AnalysisFails, Apart
  <2> QED
    BY <1>1, <2>1
<1>7. CASE UNCHANGED vars
  BY <1>1, <1>7 DEF vars
<1> QED
  BY <1>2, <1>3, <1>4, <1>5, <1>6, <1>7 DEF Next

----------------------------------------------------------------------------
(* The counters.                                                           *)

CounterTypes ==
    /\ attempts \in Counter /\ answered \in Counter /\ total \in Counter
    /\ callers \in [members : SUBSET Callers, ttl : 0..WindowTtl]

LEMMA RecordKeepsCount ==
    ASSUME IInv, NEW a \in Callers, RecordAttempt(a)
    PROVE  CounterTypes' /\ CountersOK' /\ total'.n = total.n + 1
<1>1. /\ attempts' \in Counter /\ answered' \in Counter /\ total' \in Counter
      /\ total'.n = total.n + 1 /\ total'.ttl = CountersTtl
  BY CounterFacts DEF IInv, TypesOK, RecordAttempt
<1>2. /\ callers' \in [members : SUBSET Callers, ttl : 0..WindowTtl]
      /\ callers'.members = callers.members \cup {a} /\ callers'.ttl = WindowTtl
  BY SipAssumption DEF IInv, TypesOK, RecordAttempt
<1>3. IsFiniteSet(callers.members) /\ total.n \in Nat /\ total.n >= Cardinality(callers.members)
  BY DEF IInv, TypesOK, CountersOK, CallersAreCounted, Counter
<1>4. /\ IsFiniteSet(callers'.members)
      /\ total'.n >= Cardinality(callers'.members)
  <2> DEFINE S == callers.members
  <2>1. IsFiniteSet(S) /\ total.n >= Cardinality(S) /\ callers'.members = S \cup {a}
    BY <1>2, <1>3
  <2> HIDE DEF S
  <2>2. /\ IsFiniteSet(S \cup {a}) /\ Cardinality(S) \in Nat /\ Cardinality(S \cup {a}) \in Nat
        /\ Cardinality(S \cup {a}) <= Cardinality(S) + 1
    BY <2>1, OneMore
  <2>3. total'.n >= Cardinality(S \cup {a})
    BY <1>1, <1>3, <2>1, <2>2
  <2> QED
    BY <2>1, <2>2, <2>3
<1>5. callers'.ttl # 0 /\ callers'.ttl <= total'.ttl
  BY <1>1, <1>2, SipAssumption
<1> QED
  BY <1>1, <1>2, <1>4, <1>5 DEF CounterTypes, CountersOK, CallersAreCounted

\* A set of callers that is gone is counted by anything.
LEMMA NoCallers ==
    ASSUME callers' = NoSet, total' \in Counter
    PROVE  CountersOK' /\ callers' \in [members : SUBSET Callers, ttl : 0..WindowTtl]
<1>1. callers'.members = {} /\ callers'.ttl = 0
  BY DEF NoSet
<1>2. total'.n \in Nat /\ total'.ttl >= 0
  BY SipAssumption DEF Counter
<1>3. callers' \in [members : SUBSET Callers, ttl : 0..WindowTtl]
  BY SipAssumption DEF NoSet
<1> QED
  BY <1>1, <1>2, <1>3, FS_EmptySet DEF CountersOK, CallersAreCounted

LEMMA TickKeepsCount ==
    ASSUME IInv, Tick
    PROVE  CounterTypes' /\ CountersOK'
<1>1. /\ attempts' = Aged(attempts, NoKey) /\ answered' = Aged(answered, NoKey)
      /\ total' = Aged(total, NoKey) /\ callers' = Aged(callers, NoSet)
  BY DEF Tick
<1>2. attempts' \in Counter /\ answered' \in Counter /\ total' \in Counter
  BY <1>1, CounterFacts DEF IInv, TypesOK
<1>3. /\ callers \in [members : SUBSET Callers, ttl : 0..WindowTtl] /\ total \in Counter
      /\ callers.ttl = 0 => callers.members = {}
      /\ callers.ttl <= total.ttl /\ total.n >= Cardinality(callers.members)
      /\ IsFiniteSet(callers.members)
  BY DEF IInv, TypesOK, CountersOK, CallersAreCounted
<1>4. CASE callers.ttl = 0 \/ callers.ttl = 1
  <2>1. callers' = NoSet
    <3>1. CASE callers.ttl = 0
      <4>1. callers = NoSet
        BY <1>3, <3>1 DEF NoSet
      <4> QED
        BY <1>1, <3>1, <4>1 DEF Aged
    <3>2. CASE callers.ttl = 1
      BY <1>1, <3>2 DEF Aged
    <3> QED
      BY <1>4, <3>1, <3>2
  <2> QED
    BY <1>2, <2>1, NoCallers DEF CounterTypes
<1>5. CASE callers.ttl > 1
  <2>1. callers.ttl \in Int /\ total.ttl \in Int /\ total.ttl > 1
    BY <1>3, <1>5, SipAssumption DEF Counter
  <2>2. total'.n = total.n /\ total'.ttl = total.ttl - 1
    BY <1>1, <1>3, <2>1, CounterFacts
  <2>3. callers' = [callers EXCEPT !.ttl = callers.ttl - 1] /\ callers.ttl - 1 \in 0..WindowTtl
    BY <1>1, <1>3, <1>5, SipAssumption DEF Aged
  <2>4. /\ callers' \in [members : SUBSET Callers, ttl : 0..WindowTtl]
        /\ callers'.members = callers.members /\ callers'.ttl = callers.ttl - 1
    BY <1>3, <2>3
  <2>5. callers'.ttl # 0 /\ callers'.ttl <= total'.ttl
    BY <1>3, <1>5, <2>1, <2>2, <2>4
  <2> QED
    BY <1>2, <1>3, <2>2, <2>4, <2>5 DEF CounterTypes, CountersOK, CallersAreCounted
<1>6. callers.ttl \in Int /\ callers.ttl >= 0
  BY <1>3, SipAssumption
<1> QED
  BY <1>4, <1>5, <1>6

LEMMA CountersStay ==
    ASSUME IInv, UNCHANGED <<total, callers>>, UNCHANGED attempts,
           answered' = answered \/ answered' = Incremented(answered)
    PROVE  CounterTypes' /\ CountersOK'
  BY CounterFacts DEF IInv, TypesOK, CounterTypes, CountersOK, CallersAreCounted

LEMMA CountersStep ==
    ASSUME IInv, [Next]_vars
    PROVE  CounterTypes' /\ CountersOK'
<1>1. CASE UNCHANGED counters
  BY <1>1, CountersStay DEF counters
<1>2. CASE Tick
  BY <1>2, TickKeepsCount
<1>3. CASE ResetMetrics
  <2>1. /\ attempts' \in Counter /\ answered' \in Counter /\ total' \in Counter
        /\ callers' = NoSet
    BY <1>3, CounterFacts DEF ResetMetrics, Deleted, IInv, TypesOK
  <2> QED
    BY <2>1, NoCallers DEF CounterTypes
<1>4. ASSUME NEW t \in Tasks, Event(t) \/ Redis(t) \/ Log(t) PROVE CounterTypes' /\ CountersOK'
  <2>1. CASE AttemptCounted(t)
    <3>1. task[t].caller \in Callers /\ RecordAttempt(task[t].caller)
      BY <2>1 DEF AttemptCounted, At, IInv, TaskOK
    <3> QED
      BY <3>1, RecordKeepsCount
  <2>2. CASE AnswerCounted(t)
    BY <2>2, CountersStay DEF AnswerCounted
  <2>3. CASE Event(t) \/ DurationRecorded(t) \/ PipelineFails(t) \/ Log(t)
    <3>1. UNCHANGED counters
      BY <2>3 DEF Event, ProcessInvite, ProcessAnswer, ProcessBye, ProcessFailure,
                  DurationRecorded, PipelineFails, Log, Inserted, InsertFails
    <3> QED
      BY <1>1, <3>1
  <2> QED
    BY <1>4, <2>1, <2>2, <2>3 DEF Redis
<1>5. ASSUME NEW r \in Requests, Receive(r) PROVE CounterTypes' /\ CountersOK'
  BY <1>5, RecordKeepsCount DEF Receive, Analyze
<1>6. ASSUME NEW r \in Requests, Read(r) \/ AnalysisFails(r) PROVE CounterTypes' /\ CountersOK'
  <2>1. UNCHANGED counters
    BY <1>6 DEF Read, GetAttempts, GetAnswered, CountCallers, GetTotal,
                Predict, Keep, AnalysisFails, Apart
  <2> QED
    BY <1>1, <2>1
<1>7. CASE UNCHANGED vars
  BY <1>1, <1>7 DEF vars
<1> QED
  BY <1>2, <1>3, <1>4, <1>5, <1>6, <1>7 DEF Next

----------------------------------------------------------------------------
(* The requests.                                                           *)

RequestTypes == request \in [Requests -> RequestState] /\ undisturbed \in BOOLEAN

\* The request r moves to q: it stays live, or is not any more, or becomes live.
LEMMA LiveMoves ==
    ASSUME TypesOK, NEW r \in Requests, NEW q, request' = [request EXCEPT ![r] = q],
           IsFiniteSet(Live)
    PROVE  /\ IsFiniteSet(Live') /\ Cardinality(Live) \in Nat /\ Cardinality(Live') \in Nat
           /\ IsLive(q) /\ r \in Live => Live' = Live
           /\ ~IsLive(q) /\ r \notin Live => Live' = Live
           /\ IsLive(q) /\ r \notin Live => Cardinality(Live') = Cardinality(Live) + 1
           /\ ~IsLive(q) /\ r \in Live => Cardinality(Live') + 1 = Cardinality(Live)
           /\ IsLive(q) => r \in Live'
<1> DEFINE L == Live
           M == Live'
<1>1. L = {w \in Requests : IsLive(request[w])} /\ M = {w \in Requests : IsLive(request'[w])}
  BY DEF Live
<1>2. request'[r] = q /\ \A w \in Requests : w # r => request'[w] = request[w]
  BY DEF TypesOK
<1>3. IsFiniteSet(L)
  OBVIOUS
<1> HIDE DEF L, M
<1>4. /\ IsFiniteSet(M) /\ Cardinality(L) \in Nat /\ Cardinality(M) \in Nat
      /\ IsLive(q) /\ r \in L => M = L
      /\ ~IsLive(q) /\ r \notin L => M = L
      /\ IsLive(q) /\ r \notin L => Cardinality(M) = Cardinality(L) + 1
      /\ ~IsLive(q) /\ r \in L => Cardinality(M) + 1 = Cardinality(L)
      /\ IsLive(q) => r \in M
  <2>1. CASE IsLive(q)
    <3>1. M = L \cup {r} /\ (r \in L => M = L)
      BY <1>1, <1>2, <2>1
    <3>2. /\ IsFiniteSet(M) /\ Cardinality(L) \in Nat /\ Cardinality(M) \in Nat
          /\ r \notin L => Cardinality(M) = Cardinality(L) + 1
      BY <1>3, <3>1, OneMore
    <3> QED
      BY <2>1, <3>1, <3>2
  <2>2. CASE ~IsLive(q) /\ r \in L
    <3>1. M = L \ {r}
      BY <1>1, <1>2, <2>2
    <3>2. /\ IsFiniteSet(M) /\ Cardinality(L) \in Nat /\ Cardinality(M) \in Nat
          /\ Cardinality(M) + 1 = Cardinality(L)
      BY <1>3, <2>2, <3>1, OneLess
    <3> QED
      BY <2>2, <3>2
  <2>3. CASE ~IsLive(q) /\ r \notin L
    <3>1. M = L
      BY <1>1, <1>2, <2>3
    <3> QED
      BY <1>3, <2>3, <3>1, FS_CardinalityType
  <2> QED
    BY <2>1, <2>2, <2>3
<1> QED
  BY <1>4 DEF L, M

\* The requests do not move, and the counters do not either, or the burst is over.
LEMMA RequestsWait ==
    ASSUME IInv, UNCHANGED request, undisturbed' \in BOOLEAN,
           \/ undisturbed' = FALSE
           \/ undisturbed' = undisturbed /\ UNCHANGED <<total, callers, answered>>
           \/ undisturbed' = undisturbed /\ total' = total /\ answered'.n > 0
           \/ undisturbed' = undisturbed /\ total'.n = total.n + 1
    PROVE  RequestTypes' /\ RequestsOK'
<1>1. RequestTypes' /\ MethodsOK' /\ Live' = Live
  BY DEF IInv, TypesOK, RequestTypes, RequestsOK, MethodsOK, Live
<1>2. /\ undisturbed => IsFiniteSet(Live) /\ Cardinality(Live) <= total.n
      /\ total.n \in Nat
      /\ Burst => \E r \in Live : UpToDate(request[r])
  BY DEF IInv, TypesOK, Counter, RequestsOK, LiveCounted, LastIsUpToDate
<1>3. CASE undisturbed' = FALSE
  BY <1>1, <1>3 DEF RequestsOK, LiveCounted, LastIsUpToDate, Burst
<1>4. CASE undisturbed' = undisturbed /\ UNCHANGED <<total, callers, answered>>
  <2>1. LiveCounted'
    BY <1>1, <1>2, <1>4 DEF LiveCounted
  <2>2. Burst' = Burst /\ \A r \in Live : UpToDate(request[r])' = UpToDate(request[r])
    BY <1>1, <1>4 DEF Burst, UpToDate
  <2>3. LastIsUpToDate'
    BY <1>1, <1>2, <2>2 DEF LastIsUpToDate
  <2> QED
    BY <1>1, <2>1, <2>3 DEF RequestsOK
<1>5. CASE undisturbed' = undisturbed /\ total' = total /\ answered'.n > 0
  <2>1. LiveCounted'
    BY <1>1, <1>2, <1>5 DEF LiveCounted
  <2>2. ~Burst'
    BY <1>5 DEF Burst, NoKey
  <2> QED
    BY <1>1, <2>1, <2>2 DEF RequestsOK, LastIsUpToDate
<1>6. CASE undisturbed' = undisturbed /\ total'.n = total.n + 1
  <2>1. undisturbed => Cardinality(Live) \in Nat
    BY <1>2, FS_CardinalityType
  <2>2. undisturbed => Cardinality(Live) < total'.n
    BY <1>2, <1>6, <2>1
  <2>3. LiveCounted'
    BY <1>1, <1>2, <1>6, <2>1, <2>2 DEF LiveCounted
  <2>4. ~Burst'
    BY <1>1, <1>6, <2>1, <2>2 DEF Burst
  <2> QED
    BY <1>1, <2>3, <2>4 DEF RequestsOK, LastIsUpToDate
<1> QED
  BY <1>3, <1>4, <1>5, <1>6

\* The request that has counted its caller last has read nothing yet.
LEMMA AnalyzeStep ==
    ASSUME IInv, NEW r \in Requests, NEW a \in Callers, Analyze(r, a)
    PROVE  RequestTypes' /\ RequestsOK'
<1> DEFINE q == [request[r] EXCEPT !.at = "get attempts"]
<1>1. /\ request' = [request EXCEPT ![r] = q]
      /\ request[r].at = "new" /\ undisturbed' = undisturbed
  BY DEF Analyze
<1>2. request[r] \in RequestState /\ request[r].method = "none"
  <2>1. request[r] \in RequestState /\ (request[r].method # "none" => request[r].at = "done")
    BY DEF IInv, TypesOK, RequestsOK, MethodsOK
  <2> QED
    BY <1>1, <2>1
<1>3. q \in RequestState /\ q.at = "get attempts" /\ q.method = "none"
  BY <1>2 DEF RequestState
<1> HIDE DEF q
<1>4. /\ request' \in [Requests -> RequestState] /\ request'[r] = q
      /\ \A w \in Requests : w # r => request'[w] = request[w]
  BY <1>1, <1>3 DEF IInv, TypesOK
<1>5. RequestTypes' /\ MethodsOK'
  BY <1>1, <1>3, <1>4 DEF IInv, TypesOK, RequestTypes, RequestsOK, MethodsOK
<1>6. total'.n = total.n + 1 /\ total.n \in Nat
  BY RecordKeepsCount DEF Analyze, IInv, TypesOK, Counter
<1>7. IsLive(q) /\ r \notin Live
  BY <1>1, <1>2, <1>3 DEF IsLive, Reading, Live
<1>8. undisturbed => IsFiniteSet(Live) /\ Cardinality(Live) <= total.n
  BY DEF IInv, RequestsOK, LiveCounted
<1>9. undisturbed => /\ IsFiniteSet(Live') /\ Cardinality(Live) \in Nat
                     /\ Cardinality(Live') = Cardinality(Live) + 1 /\ r \in Live'
  BY <1>1, <1>7, <1>8, LiveMoves DEF IInv
<1>10. LiveCounted'
  <2>1. undisturbed => Cardinality(Live') <= total'.n
    BY <1>6, <1>8, <1>9
  <2> QED
    BY <1>1, <1>9, <2>1 DEF LiveCounted
<1>11. UpToDate(request[r])'
  BY <1>3, <1>4 DEF UpToDate
<1>12. LastIsUpToDate'
  BY <1>1, <1>9, <1>11 DEF LastIsUpToDate, Burst
<1> QED
  BY <1>5, <1>10, <1>12 DEF RequestsOK

\* A request reads on, judges or fails: if it was up to date it still is, or it
\* is not live any more.
LEMMA RequestMoves ==
    ASSUME IInv, NEW r \in Requests, NEW q \in RequestState,
           request' = [request EXCEPT ![r] = q], UNCHANGED Apart,
           q.method # "none" => q.at = "done",
           IsLive(q) => r \in Live,
           IsLive(q) /\ Burst /\ UpToDate(request[r]) => UpToDate(q)
    PROVE  RequestTypes' /\ RequestsOK'
<1>1. /\ request' \in [Requests -> RequestState] /\ request'[r] = q
      /\ \A w \in Requests : w # r => request'[w] = request[w]
  BY DEF IInv, TypesOK
<1>2. UNCHANGED <<total, callers, answered, undisturbed>>
  BY DEF Apart, counters
<1>3. RequestTypes' /\ MethodsOK'
  BY <1>1, <1>2 DEF IInv, TypesOK, RequestTypes, RequestsOK, MethodsOK
<1>4. /\ undisturbed => IsFiniteSet(Live) /\ Cardinality(Live) <= total.n
      /\ total.n \in Nat
      /\ Burst => \E w \in Live : UpToDate(request[w])
  BY DEF IInv, TypesOK, Counter, RequestsOK, LiveCounted, LastIsUpToDate
<1>5. undisturbed =>
        /\ IsFiniteSet(Live') /\ Cardinality(Live) \in Nat /\ Cardinality(Live') \in Nat
        /\ Live' = Live \/ (r \in Live /\ ~IsLive(q) /\ Cardinality(Live') + 1 = Cardinality(Live))
  BY <1>4, LiveMoves DEF IInv
<1>6. LiveCounted'
  <2>1. undisturbed => Cardinality(Live') <= total.n
    BY <1>4, <1>5
  <2> QED
    BY <1>2, <1>5, <2>1 DEF LiveCounted
<1>7. ASSUME Burst' PROVE \E w \in Live' : UpToDate(request[w])'
  <2>1. undisturbed /\ Cardinality(Live') = total.n
    BY <1>2, <1>7 DEF Burst
  <2>2. Live' = Live
    BY <1>4, <1>5, <2>1
  <2>3. Burst
    BY <1>2, <1>7, <2>2 DEF Burst
  <2>4. PICK w \in Live : UpToDate(request[w])
    BY <1>4, <2>3
  <2>5. w \in Requests /\ IsLive(request'[w])
    BY <2>2, <2>4 DEF Live
  <2>6. UpToDate(request'[w])
    BY <1>1, <2>3, <2>4, <2>5
  <2>7. UpToDate(request[w])'
    BY <1>2, <2>6 DEF UpToDate
  <2> QED
    BY <2>2, <2>7
<1> QED
  BY <1>3, <1>6, <1>7 DEF RequestsOK, LastIsUpToDate

\* A request that is still in its reads has no verdict.
LEMMA StillReading ==
    ASSUME IInv, NEW r \in Requests, request[r].at # "done"
    PROVE  /\ request[r] \in RequestState /\ request[r].method = "none"
           /\ request[r].at \in Reading => r \in Live
           /\ callers.members \in SUBSET Callers /\ Cardinality(callers.members) \in Nat
           /\ total.n \in Nat /\ attempts.n \in Nat
<1>1. request[r] \in RequestState /\ request[r].method = "none"
  BY DEF IInv, TypesOK, RequestsOK, MethodsOK
<1>2. IsFiniteSet(callers.members) /\ callers.members \in SUBSET Callers /\ total.n \in Nat /\ attempts.n \in Nat
  BY DEF IInv, TypesOK, CountersOK, Counter
<1> QED
  BY <1>1, <1>2, FS_CardinalityType DEF Live, IsLive

LEMMA KeepStep ==
    ASSUME IInv, NEW r \in Requests, GetAttempts(r) \/ CountCallers(r)
    PROVE  RequestTypes' /\ RequestsOK'
<1>1. CASE GetAttempts(r)
  <2> DEFINE q == [request[r] EXCEPT !.at = "get answered", !.read = attempts.n]
  <2>1. /\ request[r].at = "get attempts" /\ request' = [request EXCEPT ![r] = q]
        /\ UNCHANGED Apart
    BY <1>1 DEF GetAttempts, Keep
  <2>2. /\ q \in RequestState /\ q.at = "get answered" /\ q.method = "none" /\ r \in Live
    BY <2>1, StillReading DEF RequestState, Reading
  <2> HIDE DEF q
  <2>3. UpToDate(q)
    BY <2>2 DEF UpToDate
  <2> QED
    BY <2>1, <2>2, <2>3, RequestMoves
<1>2. CASE CountCallers(r)
  <2> DEFINE q == [request[r] EXCEPT !.at = "get total", !.read = Cardinality(callers.members)]
  <2>1. /\ request[r].at = "scard" /\ request' = [request EXCEPT ![r] = q]
        /\ UNCHANGED Apart
    BY <1>2 DEF CountCallers, Keep
  <2>2. /\ q \in RequestState /\ q.at = "get total" /\ q.method = "none" /\ r \in Live
        /\ q.read = Cardinality(callers.members)
    BY <2>1, StillReading DEF RequestState, Reading
  <2> HIDE DEF q
  <2>3. Burst => UpToDate(q)
    BY <2>2 DEF UpToDate, Burst
  <2> QED
    BY <2>1, <2>2, <2>3, RequestMoves
<1> QED
  BY <1>1, <1>2

LEMMA GetAnsweredStep ==
    ASSUME IInv, NEW r \in Requests, GetAnswered(r)
    PROVE  RequestTypes' /\ RequestsOK'
<1> DEFINE low == LowAsr(request[r].read, answered.n)
           q == [request[r] EXCEPT !.at = "scard", !.read = 0, !.lowAsr = low]
<1>1. /\ request[r].at = "get answered" /\ request' = [request EXCEPT ![r] = q]
      /\ UNCHANGED Apart
  BY DEF GetAnswered
<1>2. low \in BOOLEAN
  BY DEF LowAsr
<1> HIDE DEF low
<1>3. q \in RequestState /\ q.at = "scard" /\ q.method = "none" /\ r \in Live
  BY <1>1, <1>2, StillReading DEF RequestState, Reading
<1> HIDE DEF q
<1>4. UpToDate(q)
  BY <1>3 DEF UpToDate
<1> QED
  BY <1>1, <1>3, <1>4, RequestMoves

LEMMA OverlapFacts ==
    ASSUME NEW n \in Nat, total.n \in Nat
    PROVE  /\ OverlapPoints(n) \in {0, 15, 30}
           /\ n = total.n /\ n > 0 => OverlapPoints(n) = 30
  BY DEF OverlapPoints, TotalRead, Points

LEMMA GetTotalStep ==
    ASSUME IInv, NEW r \in Requests, GetTotal(r)
    PROVE  RequestTypes' /\ RequestsOK'
<1> DEFINE over == OverlapPoints(request[r].read)
           q == [request[r] EXCEPT !.at = "predict", !.read = 0, !.overlap = over]
<1>1. /\ request[r].at = "get total" /\ request' = [request EXCEPT ![r] = q]
      /\ UNCHANGED Apart
  BY DEF GetTotal
<1>2. request[r] \in RequestState /\ request[r].method = "none" /\ r \in Live /\ total.n \in Nat
  BY <1>1, StillReading DEF Reading
<1>3. request[r].read \in Nat
  BY <1>2 DEF RequestState
<1>4. /\ over \in {0, 15, 30}
      /\ request[r].read = total.n /\ total.n > 0 => over = 30
  BY <1>2, <1>3, OverlapFacts
<1> HIDE DEF over
<1>5. q \in RequestState /\ q.at = "predict" /\ q.method = "none" /\ q.overlap = over
  BY <1>2, <1>4 DEF RequestState
<1> HIDE DEF q
<1>6. Burst /\ UpToDate(request[r]) => UpToDate(q)
  BY <1>1, <1>4, <1>5 DEF UpToDate, Burst
<1> QED
  BY <1>1, <1>2, <1>5, <1>6, RequestMoves

\* Enough callers, all of them over-represented, are 80 points, whatever else holds.
LEMMA ScoreFacts ==
    ASSUME NEW f, f.overlap \in {0, 15, 30}
    PROVE  /\ Verdict(Score(f)) \in {"masking", "clear"}
           /\ f.overlap = 30 /\ f.distinct >= DistinctA => Verdict(Score(f)) = "masking"
<1> DEFINE p == Points(f.distinct >= DistinctA, 50)
           m == Points(f.mismatch /\ f.distinct >= MismatchA, 20)
           s == Points(f.fast, 10)
           l == Points(f.lowAsr /\ f.distinct >= LowAsrA, 10)
<1>1. /\ p \in {0, 50} /\ (f.distinct >= DistinctA => p = 50)
      /\ m \in {0, 20} /\ s \in {0, 10} /\ l \in {0, 10}
  BY DEF Points
<1>2. Score(f) = p + f.overlap + m + s + l
  BY DEF Score
<1> HIDE DEF p, m, s, l
<1>3. f.overlap = 30 /\ f.distinct >= DistinctA => Score(f) >= 70
  BY <1>1, <1>2
<1> QED
  BY <1>3 DEF Verdict

LEMMA FinishedFacts ==
    ASSUME NEW v \in {"masking", "clear", "error"}, NEW m \in {"none", "rules", "model"}
    PROVE  /\ Finished(v, m) \in RequestState
           /\ Finished(v, m).at = "done" /\ Finished(v, m).method = m
           /\ Finished(v, m).verdict = v
  BY DEF Finished, NewRequest, RequestState

LEMMA PredictStep ==
    ASSUME IInv, NEW r \in Requests, Predict(r)
    PROVE  RequestTypes' /\ RequestsOK'
<1>1. request[r].at = "predict" /\ UNCHANGED Apart
  BY DEF Predict
<1>2. PICK mismatch \in BOOLEAN, fast \in BOOLEAN, use \in UseModel :
        LET f == Extract(Metrics(request[r], Cardinality(callers.members)), mismatch, fast)
        IN  \E result \in IF use THEN PredictWithModel(f) ELSE {PredictWithRules(f)} :
              request' = [request EXCEPT ![r] = result]
  BY DEF Predict
<1> DEFINE f == Extract(Metrics(request[r], Cardinality(callers.members)), mismatch, fast)
<1>3. f.overlap = request[r].overlap /\ f.distinct = Cardinality(callers.members)
  BY DEF Extract, Metrics
<1>4. \/ request' = [request EXCEPT ![r] = Finished(Verdict(Score(f)), "rules")]
      \/ \E v \in {"masking", "clear"} : request' = [request EXCEPT ![r] = Finished(v, "model")]
  BY <1>2 DEF PredictWithModel, PredictWithRules, ModelAnswers
<1> HIDE DEF f
<1>5. request[r] \in RequestState /\ r \in Live
  BY <1>1, StillReading DEF Reading
<1>6. CASE request' = [request EXCEPT ![r] = Finished(Verdict(Score(f)), "rules")]
  <2> DEFINE q == Finished(Verdict(Score(f)), "rules")
  <2>1. f.overlap \in {0, 15, 30}
    BY <1>3, <1>5 DEF RequestState
  <2>2. /\ Verdict(Score(f)) \in {"masking", "clear"}
        /\ f.overlap = 30 /\ f.distinct >= DistinctA => Verdict(Score(f)) = "masking"
    BY <2>1, ScoreFacts
  <2>3. q \in RequestState /\ q.at = "done" /\ q.verdict = Verdict(Score(f))
    BY <2>2, FinishedFacts
  <2>4. request' = [request EXCEPT ![r] = q]
    BY <1>6
  <2> HIDE DEF q
  <2>5. Burst /\ UpToDate(request[r]) => UpToDate(q)
    BY <1>1, <1>3, <2>2, <2>3 DEF UpToDate, Burst
  <2> QED
    BY <1>1, <1>5, <2>3, <2>4, <2>5, RequestMoves
<1>7. ASSUME NEW v \in {"masking", "clear"}, request' = [request EXCEPT ![r] = Finished(v, "model")]
      PROVE  RequestTypes' /\ RequestsOK'
  <2>1. /\ Finished(v, "model") \in RequestState /\ Finished(v, "model").at = "done"
        /\ Finished(v, "model").method = "model"
    BY FinishedFacts
  <2>2. ~IsLive(Finished(v, "model"))
    BY <2>1 DEF IsLive, Reading
  <2> QED
    BY <1>1, <1>7, <2>1, <2>2, RequestMoves
<1> QED
  BY <1>4, <1>6, <1>7

LEMMA FailsStep ==
    ASSUME IInv, NEW r \in Requests, AnalysisFails(r)
    PROVE  RequestTypes' /\ RequestsOK'
<1> DEFINE q == Finished("error", "none")
<1>1. q \in RequestState /\ q.at = "done" /\ q.method = "none"
  BY FinishedFacts
<1>2. request' = [request EXCEPT ![r] = q] /\ UNCHANGED Apart
  BY DEF AnalysisFails
<1> HIDE DEF q
<1>3. ~IsLive(q)
  BY <1>1 DEF IsLive, Reading
<1> QED
  BY <1>1, <1>2, <1>3, RequestMoves

LEMMA RequestsStep ==
    ASSUME IInv, [Next]_vars
    PROVE  RequestTypes' /\ RequestsOK'
<1>1. undisturbed \in BOOLEAN
  BY DEF IInv, TypesOK
<1>2. CASE UNCHANGED <<request, undisturbed, total, callers, answered>>
  BY <1>1, <1>2, RequestsWait
<1>3. CASE Tick \/ ResetMetrics
  BY <1>3, RequestsWait DEF Tick, ResetMetrics
<1>4. ASSUME NEW t \in Tasks, Event(t) \/ Redis(t) \/ Log(t) PROVE RequestTypes' /\ RequestsOK'
  <2>1. CASE AttemptCounted(t)
    <3>1. task[t].caller \in Callers /\ RecordAttempt(task[t].caller)
      BY <2>1 DEF AttemptCounted, At, IInv, TaskOK
    <3>2. total'.n = total.n + 1
      BY <3>1, RecordKeepsCount
    <3> QED
      BY <1>1, <2>1, <3>2, RequestsWait DEF AttemptCounted, Rest
  <2>2. CASE AnswerCounted(t)
    <3>1. answered'.n = answered.n + 1 /\ answered.n \in Nat
      BY <2>2, CounterFacts DEF AnswerCounted, IInv, TypesOK, Counter
    <3>2. answered'.n > 0
      BY <3>1
    <3> QED
      BY <1>1, <2>2, <3>2, RequestsWait DEF AnswerCounted, Rest
  <2>3. CASE Event(t) \/ DurationRecorded(t) \/ PipelineFails(t) \/ Log(t)
    <3>1. UNCHANGED <<request, undisturbed, total, callers, answered>>
      BY <2>3 DEF Event, ProcessInvite, ProcessAnswer, ProcessBye, ProcessFailure,
                  DurationRecorded, PipelineFails, Log, Inserted, InsertFails, counters, Rest
    <3> QED
      BY <1>2, <3>1
  <2> QED
    BY <1>4, <2>1, <2>2, <2>3 DEF Redis
<1>5. ASSUME NEW r \in Requests, Receive(r) PROVE RequestTypes' /\ RequestsOK'
  BY <1>5, AnalyzeStep DEF Receive
<1>6. ASSUME NEW r \in Requests, Read(r) PROVE RequestTypes' /\ RequestsOK'
  BY <1>6, KeepStep, GetAnsweredStep, GetTotalStep, PredictStep DEF Read
<1>7. ASSUME NEW r \in Requests, AnalysisFails(r) PROVE RequestTypes' /\ RequestsOK'
  BY <1>7, FailsStep
<1>8. CASE UNCHANGED vars
  BY <1>2, <1>8 DEF vars, counters
<1> QED
  BY <1>3, <1>4, <1>5, <1>6, <1>7, <1>8 DEF Next

----------------------------------------------------------------------------
(* Theorems.                                                               *)

LEMMA InitInvariant ==
    ASSUME Init
    PROVE  IInv
<1>1. TypesOK
  <2>1. /\ NoKey \in Counter
        /\ NoSet \in [members : SUBSET Callers, ttl : 0..WindowTtl]
    BY SipAssumption DEF Counter, NoKey, NoSet
  <2>2. Idle \in TaskState /\ NewRequest \in RequestState
    BY DEF TaskState, Idle, NewRequest, RequestState
  <2>3. "unknown" \in CallStates /\ 0 \in 0..MaxInvites
    BY SipAssumption DEF CallStates
  <2> QED
    BY <2>1, <2>2, <2>3 DEF Init, TypesOK
<1>2. CountersOK
  <2>1. callers.members = {} /\ callers.ttl = 0 /\ total.ttl = 0 /\ total.n = 0
    BY DEF Init, NoKey, NoSet
  <2> QED
    BY <2>1, FS_EmptySet DEF CountersOK, CallersAreCounted
<1>3. \A t \in Tasks : task[t].at = "idle"
  BY DEF Init, Idle
<1>4. OneInsert /\ TaskOK
  BY <1>3 DEF Init, OneInsert, TaskOK, At
<1>5. LogOK
  <2>1. \A c \in Calls : Ending(c) = {} /\ rows[c] = 0 /\ invites[c] = 0 /\ Known(c) = 0
    BY <1>3 DEF Init, Ending, Known
  <2> QED
    BY <2>1, FS_EmptySet DEF LogOK, Accounted
<1>6. RequestsOK
  <2>1. \A r \in Requests : request[r].at = "new" /\ request[r].method = "none"
    BY DEF Init, NewRequest
  <2>2. Live = {} /\ total.n = 0
    BY <2>1 DEF Live, IsLive, Reading, Init, NoKey
  <2>3. ~Burst /\ LiveCounted
    BY <2>2, FS_EmptySet DEF Burst, LiveCounted
  <2> QED
    BY <2>1, <2>3 DEF RequestsOK, MethodsOK, LastIsUpToDate
<1> QED
  BY <1>1, <1>2, <1>4, <1>5, <1>6 DEF IInv

LEMMA NextInvariant ==
    ASSUME IInv, [Next]_vars
    PROVE  IInv'
  BY CdrStep, CountersStep, RequestsStep
  DEF IInv, TypesOK, CdrOK, CdrTypes, CounterTypes, RequestTypes

\* In every behaviour of the CDR processor and of /analyze the inductive invariant
\* holds.
THEOREM Invariance == Spec => []IInv
  BY InitInvariant, NextInvariant, PTL DEF Spec

LEMMA InvariantTypes ==
    ASSUME IInv
    PROVE  TypeOK
<1>1. Cardinality(inserting) <= 1
  <2>1. CASE inserting = {}
    BY <2>1, FS_EmptySet
  <2>2. ASSUME NEW t \in inserting PROVE Cardinality(inserting) <= 1
    <3>1. inserting = {t}
      BY DEF IInv, OneInsert
    <3>2. Cardinality({t}) = 1
      BY FS_Singleton, Zenon
    <3> QED
      BY <3>1, <3>2
  <2> QED
    BY <2>1, <2>2
<1> QED
  BY <1>1 DEF IInv, TypesOK, OneInsert, TypeOK

\* No two coroutines ever execute an INSERT on the one session, and every variable
\* keeps its type (processor.py:202).
THEOREM TypeCorrect == Spec => []TypeOK
  BY Invariance, InvariantTypes, PTL

\* The overlap ratio of one instant never passes 1: the set of callers is never
\* larger than the total, and never outlives it (metrics.py:49-66).
THEOREM EveryCallerCounted == Spec => []CallersAreCounted
<1>1. IInv => CallersAreCounted
  BY DEF IInv, CountersOK
<1> QED
  BY <1>1, Invariance, PTL

\* However BYEs, failures and repeated INVITEs interleave, a call is logged at most
\* once for each INVITE processed for it (processor.py:66, 111, 148).
THEOREM LoggedOnce == Spec => []CallLoggedOnce
<1>1. IInv => CallLoggedOnce
  BY DEF IInv, LogOK, Accounted, Known, CallLoggedOnce
<1> QED
  BY <1>1, Invariance, PTL

LEMMA BurstJudged ==
    ASSUME IInv, DistinctA > 0
    PROVE  BurstIsFlagged
<1> SUFFICES ASSUME undisturbed, answered = NoKey,
                    Cardinality(Analysed) = total.n,
                    Cardinality(callers.members) = total.n,
                    total.n >= DistinctA
             PROVE  \E r \in Analysed : request[r].verdict = "masking"
  BY DEF BurstIsFlagged
<1>1. IsFiniteSet(Live) /\ Cardinality(Live) <= total.n /\ total.n \in Nat
  BY DEF IInv, TypesOK, Counter, RequestsOK, LiveCounted
<1>2. Analysed \in SUBSET Live
  BY DEF Analysed, Live, IsLive
<1>3. Live = Analysed
  <2>1. /\ Cardinality(Analysed) <= Cardinality(Live)
        /\ Cardinality(Live) = Cardinality(Analysed) => Live = Analysed
    BY <1>1, <1>2, FS_Subset
  <2>2. Cardinality(Live) \in Nat
    BY <1>1, FS_CardinalityType
  <2> QED
    BY <1>1, <2>1, <2>2
<1>4. Burst
  BY <1>1, <1>3, SipAssumption DEF Burst
<1>5. PICK r \in Live : UpToDate(request[r])
  BY <1>4 DEF IInv, RequestsOK, LastIsUpToDate
<1>6. request[r].at = "done" /\ r \in Analysed
  BY <1>3, <1>5 DEF Analysed, IInv, RequestsOK, MethodsOK
<1> QED
  BY <1>5, <1>6 DEF UpToDate

\* Callers that all call within the window, once each, and are all judged by the
\* rules: one of the answers is masking, in whatever order the requests counted and
\* read, provided rule 1 asks for a caller at all (RULE_BASED_DISTINCT_A_THRESHOLD
\* is 5; routes.py:67-84).
THEOREM BurstFlagged ==
    ASSUME DistinctA > 0
    PROVE  Spec => []BurstIsFlagged
<1>1. IInv => BurstIsFlagged
  BY BurstJudged
<1> QED
  BY <1>1, Invariance, PTL

============================================================================
