----------------------- MODULE DetectionEngineProofs -----------------------
(***************************************************************************)
(* Safety of DetectionEngine for any number of concurrent handlers, calls  *)
(* and numbers, and any threshold, window and cooldown.                    *)
(***************************************************************************)
EXTENDS DetectionEngine, FiniteSetTheorems, TLAPS

\* A handler at work has a Call aggregate of its own.
HandlersOK ==
    /\ \A h \in Handlers : handler[h].pc # "idle" =>
          /\ handler[h].call \in CallIds
          /\ call[handler[h].call] \in CallRow
    /\ \A g, h \in Handlers :
          g # h /\ handler[g].pc # "idle" /\ handler[h].pc # "idle"
             => handler[g].call # handler[h].call

\* A row of table calls has an aggregate, and a flagged call is a row.
RowsOK ==
    /\ \A c \in saved : call[c] \in CallRow
    /\ \A c \in CallIds : flaggedBy[c] # NoAlert => c \in saved
    /\ \A h \in Handlers : handler[h].pc \in {"sadd", "expire", "scard", "save"} =>
          handler[h].call \notin saved

TInv == TypeOK /\ HandlersOK /\ RowsOK

----------------------------------------------------------------------------
(* What the three ways of moving a handler do to its local state.          *)

LEMMA GotoFacts ==
    ASSUME TypeOK, NEW h \in Handlers, NEW step \in Steps, Goto(h, step)
    PROVE  /\ handler' \in [Handlers -> LocalState]
           /\ handler'[h].pc = step
           /\ handler'[h].call = handler[h].call
           /\ handler'[h].count = handler[h].count
           /\ handler'[h].callers = handler[h].callers
           /\ handler'[h].calls = handler[h].calls
           /\ handler'[h].end = handler[h].end
           /\ \A g \in Handlers \ {h} : handler'[g] = handler[g]
BY DEF TypeOK, LocalState, Goto

LEMMA ReturnFacts ==
    ASSUME TypeOK, NEW h \in Handlers, Return(h)
    PROVE  /\ handler' \in [Handlers -> LocalState]
           /\ handler'[h] = Idle
           /\ handler'[h].pc = "idle"
           /\ handler'[h].call = NoCall
           /\ \A g \in Handlers \ {h} : handler'[g] = handler[g]
BY DEF TypeOK, LocalState, Return, Idle, Steps

LEMMA ReceiveFacts ==
    ASSUME TypeOK, NEW h \in Handlers, NEW c \in CallIds, NEW a \in ANumbers,
           NEW b \in BNumbers, Receive(h, c, a, b)
    PROVE  /\ handler' \in [Handlers -> LocalState]
           /\ handler'[h].pc = "sadd"
           /\ handler'[h].call = c
           /\ \A g \in Handlers \ {h} : handler'[g] = handler[g]
           /\ call' \in [CallIds -> CallRow \cup {NoCall}]
           /\ call'[c] \in CallRow /\ call'[c].a = a /\ call'[c].b = b
           /\ \A d \in CallIds \ {c} : call'[d] = call[d]
<1>1. Received(c) \in LocalState
  BY DEF Received, LocalState, Steps
<1>2. [a |-> a, b |-> b, at |-> now] \in CallRow
  BY EngineAssumption DEF TypeOK, CallRow
<1>3. handler' = [handler EXCEPT ![h] = Received(c)]
  BY DEF Receive
<1>4. call' = [call EXCEPT ![c] = [a |-> a, b |-> b, at |-> now]]
  BY DEF Receive
<1>5. Received(c).pc = "sadd" /\ Received(c).call = c
  BY DEF Received
<1>6. QED
  BY <1>1, <1>2, <1>3, <1>4, <1>5 DEF TypeOK

\* A handler at the point of counting, checking or reading keeps the rest.
LEMMA CountFacts ==
    ASSUME TypeOK, NEW h \in Handlers, CountCallers(h), DistinctCallers(B(h)) \in Nat
    PROVE  /\ handler' \in [Handlers -> LocalState]
           /\ handler'[h].pc = "save"
           /\ handler'[h].call = handler[h].call
           /\ handler'[h].count = DistinctCallers(B(h))
           /\ \A g \in Handlers \ {h} : handler'[g] = handler[g]
<1> DEFINE r == [handler[h] EXCEPT !.pc = "save", !.count = DistinctCallers(B(h))]
<1>1. handler[h] \in LocalState
  BY DEF TypeOK
<1>2. DistinctCallers(B(h)) \in Nat
  OBVIOUS
<1>3. r \in LocalState
  BY <1>1, <1>2 DEF LocalState, Steps
<1>4. /\ r.pc = "save"
      /\ r.count = DistinctCallers(B(h))
      /\ r.call = handler[h].call
      /\ r.callers = handler[h].callers
      /\ r.calls = handler[h].calls
      /\ r.end = handler[h].end
  BY <1>1 DEF LocalState
<1>5. handler' = [handler EXCEPT ![h] = r]
  BY DEF CountCallers
<1> HIDE DEF r
<1>6. handler \in [Handlers -> LocalState]
  BY DEF TypeOK
<1>7. QED
  BY <1>3, <1>4, <1>5, <1>6

LEMMA CheckFacts ==
    ASSUME TypeOK, NEW h \in Handlers, CheckCooldown(h), ~InCooldown(B(h))
    PROVE  /\ handler' \in [Handlers -> LocalState]
           /\ handler'[h].pc = "smembers"
           /\ handler'[h].call = handler[h].call
           /\ handler'[h].end = now
           /\ \A g \in Handlers \ {h} : handler'[g] = handler[g]
<1> DEFINE r == [handler[h] EXCEPT !.pc = "smembers", !.end = now]
<1>1. handler[h] \in LocalState
  BY DEF TypeOK
<1>2. now \in Nat
  BY EngineAssumption DEF TypeOK
<1>3. r \in LocalState
  BY <1>1, <1>2 DEF LocalState, Steps
<1>4. /\ r.pc = "smembers"
      /\ r.end = now
      /\ r.call = handler[h].call
      /\ r.count = handler[h].count
      /\ r.callers = handler[h].callers
      /\ r.calls = handler[h].calls
  BY <1>1 DEF LocalState
<1>5. handler' = [handler EXCEPT ![h] = r]
  BY DEF CheckCooldown
<1> HIDE DEF r
<1>6. handler \in [Handlers -> LocalState]
  BY DEF TypeOK
<1>7. QED
  BY <1>3, <1>4, <1>5, <1>6

LEMMA GetFacts ==
    ASSUME TypeOK, NEW h \in Handlers, GetCallers(h), B(h) \in BNumbers
    PROVE  /\ handler' \in [Handlers -> LocalState]
           /\ handler'[h].pc = "select"
           /\ handler'[h].call = handler[h].call
           /\ handler'[h].callers = window[B(h)].members
           /\ handler'[h].end = handler[h].end
           /\ \A g \in Handlers \ {h} : handler'[g] = handler[g]
<1> DEFINE r == [handler[h] EXCEPT !.pc = "select", !.callers = window[B(h)].members]
<1>1. handler[h] \in LocalState
  BY DEF TypeOK
<1>2. window[B(h)].members \in SUBSET ANumbers
  BY DEF TypeOK
<1>3. r \in LocalState
  BY <1>1, <1>2 DEF LocalState, Steps
<1>4. /\ r.pc = "select"
      /\ r.callers = window[B(h)].members
      /\ r.call = handler[h].call
      /\ r.count = handler[h].count
      /\ r.calls = handler[h].calls
      /\ r.end = handler[h].end
  BY <1>1 DEF LocalState
<1>5. handler' = [handler EXCEPT ![h] = r]
  BY DEF GetCallers
<1> HIDE DEF r
<1>6. handler \in [Handlers -> LocalState]
  BY DEF TypeOK
<1>7. QED
  BY <1>3, <1>4, <1>5, <1>6

LEMMA FindFacts ==
    ASSUME TypeOK, NEW h \in Handlers, FindCalls(h)
    PROVE  /\ handler' \in [Handlers -> LocalState]
           /\ handler'[h].pc = "insert"
           /\ handler'[h].call = handler[h].call
           /\ handler'[h].callers = handler[h].callers
           /\ handler'[h].calls = CallsInWindow(B(h), handler[h].end)
           /\ handler'[h].end = handler[h].end
           /\ \A g \in Handlers \ {h} : handler'[g] = handler[g]
<1> DEFINE r == [handler[h] EXCEPT !.pc = "insert", !.calls = CallsInWindow(B(h), handler[h].end)]
<1>1. handler[h] \in LocalState
  BY DEF TypeOK
<1>2. CallsInWindow(B(h), handler[h].end) \in SUBSET CallIds
  BY DEF TypeOK, CallsInWindow
<1>3. r \in LocalState
  BY <1>1, <1>2 DEF LocalState, Steps
<1>4. /\ r.pc = "insert"
      /\ r.calls = CallsInWindow(B(h), handler[h].end)
      /\ r.call = handler[h].call
      /\ r.count = handler[h].count
      /\ r.callers = handler[h].callers
      /\ r.end = handler[h].end
  BY <1>1 DEF LocalState
<1>5. handler' = [handler EXCEPT ![h] = r]
  BY DEF FindCalls
<1> HIDE DEF r
<1>6. handler \in [Handlers -> LocalState]
  BY DEF TypeOK
<1>7. QED
  BY <1>3, <1>4, <1>5, <1>6

----------------------------------------------------------------------------
(* What a write does to the stores, applied or not.                        *)

LEMMA WorkerFacts ==
    ASSUME TInv, NEW h \in Handlers, handler[h].pc # "idle"
    PROVE  /\ handler[h].call \in CallIds
           /\ call[handler[h].call] \in CallRow
           /\ A(h) \in ANumbers
           /\ B(h) \in BNumbers
           /\ window[B(h)] \in [members : SUBSET ANumbers, expires : Nat]
           /\ IsFiniteSet(window[B(h)].members)
           /\ DistinctCallers(B(h)) \in Nat
<1>1. /\ handler[h].call \in CallIds
      /\ call[handler[h].call] \in CallRow
  BY DEF TInv, HandlersOK
<1>2. A(h) \in ANumbers /\ B(h) \in BNumbers
  BY <1>1 DEF A, B, CallRow
<1>3. window[B(h)] \in [members : SUBSET ANumbers, expires : Nat]
  BY <1>2 DEF TInv, TypeOK
<1>4. IsFiniteSet(window[B(h)].members)
  BY <1>3, EngineAssumption, FS_Subset
<1>5. QED
  BY <1>1, <1>2, <1>3, <1>4, FS_CardinalityType DEF DistinctCallers

LEMMA WindowWritten ==
    ASSUME TInv, NEW h \in Handlers, handler[h].pc # "idle",
           AddMember(h) \/ Expire(h) \/ window' = window
    PROVE  window' \in [BNumbers -> [members : SUBSET ANumbers, expires : Nat]]
<1>1. A(h) \in ANumbers /\ B(h) \in BNumbers
  BY WorkerFacts
<1>2. now + Window \in Nat
  BY EngineAssumption DEF TInv, TypeOK
<1>3. QED
  BY <1>1, <1>2 DEF TInv, TypeOK, AddMember, Expire

LEMMA RowsWritten ==
    ASSUME TInv, NEW h \in Handlers, handler[h].pc # "idle",
           InsertCall(h) \/ FlagCalls(h) \/ UNCHANGED <<saved, flaggedBy>>
    PROVE  /\ saved' \in SUBSET CallIds
           /\ flaggedBy' \in [CallIds -> CallIds \cup {NoAlert}]
           /\ saved \subseteq saved'
           /\ saved' # saved => /\ saved' = saved \cup {handler[h].call}
                               /\ handler[h].pc = "save"
           /\ \A c \in CallIds : flaggedBy'[c] # NoAlert => c \in saved'
<1>1. handler[h].call \in CallIds
  BY WorkerFacts
<1>2. CASE InsertCall(h)
  BY <1>1, <1>2 DEF TInv, TypeOK, RowsOK, InsertCall, At
<1>3. CASE FlagCalls(h)
  BY <1>1, <1>3 DEF TInv, TypeOK, RowsOK, FlagCalls
<1>4. CASE UNCHANGED <<saved, flaggedBy>>
  BY <1>4 DEF TInv, TypeOK, RowsOK
<1>5. QED
  BY <1>2, <1>3, <1>4

LEMMA AlertsWritten ==
    ASSUME TInv, NEW h \in Handlers, handler[h].pc # "idle",
           InsertAlert(h) \/ alerts' = alerts
    PROVE  alerts' \in SUBSET AlertRow /\ alerts \subseteq alerts'
<1>1. handler[h].call \in CallIds /\ B(h) \in BNumbers
  BY WorkerFacts
<1>2. handler[h] \in LocalState
  BY DEF TInv, TypeOK
<1>3. CASE InsertAlert(h)
  BY <1>1, <1>2, <1>3 DEF TInv, TypeOK, InsertAlert, AlertOf, LocalState, AlertRow
<1>4. QED
  BY <1>3 DEF TInv, TypeOK

LEMMA CooldownWritten ==
    ASSUME TInv, NEW h \in Handlers, handler[h].pc # "idle",
           PutCooldown(h) \/ cooldown' = cooldown
    PROVE  cooldown' \in [BNumbers -> Nat]
<1>1. B(h) \in BNumbers
  BY WorkerFacts
<1>2. now + Cooldown \in Nat
  BY EngineAssumption DEF TInv, TypeOK
<1>3. QED
  BY <1>1, <1>2 DEF TInv, TypeOK, PutCooldown

\* A step of a handler that is already at work, from one await to the next.
Await(h) ==
    \/ AddCaller(h) \/ ExpireWindow(h) \/ CountCallers(h) \/ SaveCall(h)
    \/ CheckCooldown(h) \/ GetCallers(h) \/ FindCalls(h)
    \/ SaveAlert(h) \/ FlagAsFraud(h) \/ SetCooldown(h)

\* Whatever the await, at most one write is applied.
LEMMA AwaitWrites ==
    ASSUME NEW h \in Handlers, Await(h) \/ Fail(h)
    PROVE  /\ Write(h) \/ UNCHANGED <<cache, db>>
           /\ UNCHANGED <<now, call>>
           /\ handler[h].pc # "idle"
BY DEF Await, Fail, Write, AddCaller, ExpireWindow, CountCallers, SaveCall, CheckCooldown,
       GetCallers, FindCalls, SaveAlert, FlagAsFraud, SetCooldown, At,
       AddMember, Expire, InsertCall, InsertAlert, FlagCalls, PutCooldown

LEMMA WriteFacts ==
    ASSUME NEW h \in Handlers, Write(h) \/ UNCHANGED <<cache, db>>
    PROVE  /\ AddMember(h) \/ Expire(h) \/ window' = window
           /\ InsertCall(h) \/ FlagCalls(h) \/ UNCHANGED <<saved, flaggedBy>>
           /\ InsertAlert(h) \/ alerts' = alerts
           /\ PutCooldown(h) \/ cooldown' = cooldown
BY DEF Write, AddMember, Expire, InsertCall, InsertAlert, FlagCalls, PutCooldown, cache, db

----------------------------------------------------------------------------
(* TInv is inductive.                                                      *)

Early == {"sadd", "expire", "scard", "save"}   \* the call is not stored yet

LEMMA AwaitMoves ==
    ASSUME TInv, NEW h \in Handlers, Await(h) \/ Fail(h)
    PROVE  /\ handler' \in [Handlers -> LocalState]
           /\ \A g \in Handlers \ {h} : handler'[g] = handler[g]
           /\ handler'[h].pc # "idle" => handler'[h].call = handler[h].call
           /\ handler'[h].pc \in Early => handler[h].pc \in Early \ {"save"}
<1> USE DEF Early
<1>t. TypeOK
  BY DEF TInv
<1>w. handler[h].pc # "idle"
  BY AwaitWrites
<1>1. CASE AddCaller(h)
  BY <1>t, <1>1, GotoFacts DEF AddCaller, AddMember, At, Steps
<1>2. CASE ExpireWindow(h)
  BY <1>t, <1>2, GotoFacts DEF ExpireWindow, Expire, At, Steps
<1>3. CASE CountCallers(h)
  BY <1>t, <1>w, <1>3, CountFacts, WorkerFacts DEF CountCallers, At
<1>4. CASE SaveCall(h)
  BY <1>t, <1>4, GotoFacts, ReturnFacts DEF SaveCall, Steps
<1>5. CASE CheckCooldown(h)
  BY <1>t, <1>5, CheckFacts, ReturnFacts DEF CheckCooldown
<1>6. CASE GetCallers(h)
  BY <1>t, <1>w, <1>6, GetFacts, WorkerFacts
<1>7. CASE FindCalls(h)
  BY <1>t, <1>7, FindFacts
<1>8. CASE SaveAlert(h)
  BY <1>t, <1>8, GotoFacts DEF SaveAlert, Steps
<1>9. CASE FlagAsFraud(h)
  BY <1>t, <1>9, GotoFacts DEF FlagAsFraud, Steps
<1>10. CASE SetCooldown(h)
  BY <1>t, <1>10, ReturnFacts DEF SetCooldown
<1>11. CASE Fail(h)
  BY <1>t, <1>11, ReturnFacts DEF Fail
<1>12. QED
  BY <1>1, <1>2, <1>3, <1>4, <1>5, <1>6, <1>7, <1>8, <1>9, <1>10, <1>11 DEF Await

LEMMA LostFacts ==
    ASSUME TInv, NEW h \in Handlers, Await(h) \/ Fail(h)
    PROVE  lost' \in SUBSET BNumbers /\ lost \subseteq lost'
<1>1. B(h) \in BNumbers
  BY AwaitWrites, WorkerFacts
<1>2. lost' = lost \/ lost' = lost \cup {B(h)}
  BY DEF Await, Fail, AddCaller, ExpireWindow, CountCallers, SaveCall, CheckCooldown,
         GetCallers, FindCalls, SaveAlert, FlagAsFraud, SetCooldown
<1>3. QED
  BY <1>1, <1>2 DEF TInv, TypeOK

LEMMA AwaitTInv ==
    ASSUME TInv, NEW h \in Handlers, Await(h) \/ Fail(h)
    PROVE  TInv'
<1>1. /\ Write(h) \/ UNCHANGED <<cache, db>>
      /\ UNCHANGED <<now, call>>
      /\ handler[h].pc # "idle"
  BY AwaitWrites
<1>2. /\ window' \in [BNumbers -> [members : SUBSET ANumbers, expires : Nat]]
      /\ cooldown' \in [BNumbers -> Nat]
      /\ alerts' \in SUBSET AlertRow
  BY <1>1, WriteFacts, WindowWritten, CooldownWritten, AlertsWritten
<1>3. /\ saved' \in SUBSET CallIds
      /\ flaggedBy' \in [CallIds -> CallIds \cup {NoAlert}]
      /\ saved' # saved => /\ saved' = saved \cup {handler[h].call}
                          /\ handler[h].pc = "save"
      /\ \A c \in CallIds : flaggedBy'[c] # NoAlert => c \in saved'
  BY <1>1, WriteFacts, RowsWritten
<1>4. /\ handler' \in [Handlers -> LocalState]
      /\ \A g \in Handlers \ {h} : handler'[g] = handler[g]
      /\ handler'[h].pc # "idle" => handler'[h].call = handler[h].call
      /\ handler'[h].pc \in Early => handler[h].pc \in Early \ {"save"}
  BY AwaitMoves
<1>5. TypeOK'
  BY <1>1, <1>2, <1>3, <1>4, LostFacts DEF TInv, TypeOK
<1>6. HandlersOK'
  BY <1>1, <1>4 DEF TInv, HandlersOK
<1>7. RowsOK'
  <2>1. \A c \in saved' : call'[c] \in CallRow
    BY <1>1, <1>3 DEF TInv, RowsOK, HandlersOK
  <2>2. ASSUME NEW g \in Handlers, handler'[g].pc \in Early
        PROVE  handler'[g].call \notin saved'
    <3>1. CASE g = h
      BY <1>3, <1>4, <2>2, <3>1 DEF TInv, RowsOK, Early
    <3>2. CASE g # h
      BY <1>1, <1>3, <1>4, <2>2, <3>2 DEF TInv, RowsOK, HandlersOK, Early
    <3>3. QED
      BY <3>1, <3>2
  <2>3. QED
    BY <1>3, <2>1, <2>2 DEF RowsOK, Early
<1>8. QED
  BY <1>5, <1>6, <1>7 DEF TInv

LEMMA ReceiveTInv ==
    ASSUME TInv, NEW h \in Handlers, NEW c \in CallIds, NEW a \in ANumbers,
           NEW b \in BNumbers, Receive(h, c, a, b)
    PROVE  TInv'
<1>1. /\ handler' \in [Handlers -> LocalState]
      /\ handler'[h].pc = "sadd"
      /\ handler'[h].call = c
      /\ \A g \in Handlers \ {h} : handler'[g] = handler[g]
      /\ call' \in [CallIds -> CallRow \cup {NoCall}]
      /\ call'[c] \in CallRow
      /\ \A d \in CallIds \ {c} : call'[d] = call[d]
  BY ReceiveFacts DEF TInv
<1>2. /\ UNCHANGED <<now, window, cooldown, saved, flaggedBy, alerts, lost>>
      /\ call[c] \notin CallRow
  BY NoCallAssumption DEF Receive, cache, db
<1>3. TypeOK'
  BY <1>1, <1>2 DEF TInv, TypeOK
<1>4. HandlersOK'
  BY <1>1, <1>2 DEF TInv, HandlersOK
<1>5. RowsOK'
  BY <1>1, <1>2 DEF TInv, TypeOK, RowsOK
<1>6. QED
  BY <1>3, <1>4, <1>5 DEF TInv

LEMMA TickTInv == TInv /\ Tick => TInv'
<1> SUFFICES ASSUME TInv, Tick PROVE TInv'
  OBVIOUS
<1>1. /\ now' \in 0..MaxTime
      /\ UNCHANGED <<call, saved, flaggedBy, alerts, handler, lost>>
  BY EngineAssumption DEF TInv, TypeOK, Tick, db
<1>2. NoWindow \in [members : SUBSET ANumbers, expires : Nat]
  BY DEF NoWindow, Never
<1>3. /\ window' \in [BNumbers -> [members : SUBSET ANumbers, expires : Nat]]
      /\ cooldown' \in [BNumbers -> Nat]
  BY <1>2 DEF TInv, TypeOK, Tick
<1>4. QED
  BY <1>1, <1>3 DEF TInv, TypeOK, HandlersOK, RowsOK

LEMMA CleanupTInv ==
    ASSUME TInv, NEW before \in 0..now, CleanupOldCalls(before)
    PROVE  TInv'
BY DEF TInv, TypeOK, HandlersOK, RowsOK, CleanupOldCalls, cache

LEMMA InitTInv == Init => TInv
<1> SUFFICES ASSUME Init PROVE TInv
  OBVIOUS
<1>1. Idle \in LocalState /\ Idle.pc = "idle"
  BY DEF Idle, LocalState, Steps
<1>2. NoWindow \in [members : SUBSET ANumbers, expires : Nat]
  BY DEF NoWindow, Never
<1>3. TypeOK
  BY <1>1, <1>2, EngineAssumption DEF Init, TypeOK, Never
<1>4. QED
  BY <1>1, <1>3 DEF Init, TInv, HandlersOK, RowsOK

----------------------------------------------------------------------------
(* Steps, and what they keep of the handlers that stay at work.            *)

LEMMA NextCases ==
    ASSUME [Next]_vars
    PROVE  \/ \E h \in Handlers : Await(h) \/ Fail(h)
           \/ \E h \in Handlers, c \in CallIds, a \in ANumbers, b \in BNumbers :
                 Receive(h, c, a, b)
           \/ Tick
           \/ \E before \in 0..now : CleanupOldCalls(before)
           \/ UNCHANGED vars
BY DEF Next, Step, Await

LEMMA AwaitKeeps ==
    ASSUME TInv, NEW h \in Handlers, Await(h) \/ Fail(h),
           NEW g \in Handlers, handler'[g].pc # "idle"
    PROVE  /\ handler[g].pc # "idle"
           /\ handler'[g].call = handler[g].call
           /\ A(g)' = A(g)
           /\ B(g)' = B(g)
           /\ g # h => handler'[g] = handler[g]
BY AwaitMoves, AwaitWrites DEF A, B

LEMMA ReceiveKeeps ==
    ASSUME TInv, NEW h \in Handlers, NEW c \in CallIds, NEW a \in ANumbers,
           NEW b \in BNumbers, Receive(h, c, a, b),
           NEW g \in Handlers, g # h, handler[g].pc # "idle"
    PROVE  /\ handler'[g] = handler[g]
           /\ A(g)' = A(g)
           /\ B(g)' = B(g)
<1>1. handler[g].call # c
  BY NoCallAssumption DEF TInv, HandlersOK, Receive
<1>2. QED
  BY <1>1, ReceiveFacts DEF TInv, HandlersOK, A, B

\* A handler past its SADD took a step of its own or was left alone.
LEMMA HandlerCases ==
    ASSUME TInv, [Next]_vars, NEW g \in Handlers, handler'[g].pc \notin {"idle", "sadd"}
    PROVE  \/ Await(g) \/ Fail(g)
           \/ handler'[g] = handler[g] /\ B(g)' = B(g)
<1>1. ASSUME NEW h \in Handlers, Await(h) \/ Fail(h), g # h
      PROVE  handler'[g] = handler[g] /\ B(g)' = B(g)
  BY <1>1, AwaitKeeps
<1>2. ASSUME NEW h \in Handlers, NEW c \in CallIds, NEW a \in ANumbers,
             NEW d \in BNumbers, Receive(h, c, a, d)
      PROVE  handler'[g] = handler[g] /\ B(g)' = B(g)
  <2>1. g # h /\ handler'[g] = handler[g]
    BY <1>2, ReceiveFacts DEF TInv
  <2>2. QED
    BY <1>2, <2>1, ReceiveKeeps
<1>3. Tick \/ (\E before \in 0..now : CleanupOldCalls(before)) \/ UNCHANGED vars
        => handler'[g] = handler[g] /\ B(g)' = B(g)
  BY DEF Tick, CleanupOldCalls, vars, B
<1>4. QED
  BY <1>1, <1>2, <1>3, NextCases

LEMMA AwaitTargets ==
    ASSUME TInv, NEW h \in Handlers, Await(h) \/ Fail(h)
    PROVE  /\ AddCaller(h) => handler'[h].pc = "expire"
           /\ ExpireWindow(h) => handler'[h].pc = "scard"
           /\ CountCallers(h) => handler'[h].pc = "save"
           /\ SaveCall(h) => handler'[h].pc \in {"cooldown?", "idle"}
           /\ CheckCooldown(h) => handler'[h].pc \in {"smembers", "idle"}
           /\ GetCallers(h) => handler'[h].pc = "select"
           /\ FindCalls(h) => handler'[h].pc = "insert"
           /\ SaveAlert(h) => handler'[h].pc = "flag"
           /\ FlagAsFraud(h) => handler'[h].pc = "setcooldown"
           /\ SetCooldown(h) \/ Fail(h) => handler'[h].pc = "idle"
<1>t. TypeOK
  BY DEF TInv
<1>1. AddCaller(h) => handler'[h].pc = "expire"
  BY <1>t, GotoFacts DEF AddCaller, Steps
<1>2. ExpireWindow(h) => handler'[h].pc = "scard"
  BY <1>t, GotoFacts DEF ExpireWindow, Steps
<1>3. CountCallers(h) => handler'[h].pc = "save"
  BY <1>t, AwaitWrites, WorkerFacts, CountFacts
<1>4. SaveCall(h) => handler'[h].pc \in {"cooldown?", "idle"}
  BY <1>t, GotoFacts, ReturnFacts DEF SaveCall, Steps
<1>5. CheckCooldown(h) => handler'[h].pc \in {"smembers", "idle"}
  BY <1>t, CheckFacts, ReturnFacts DEF CheckCooldown
<1>6. GetCallers(h) => handler'[h].pc = "select"
  BY <1>t, AwaitWrites, WorkerFacts, GetFacts
<1>7. FindCalls(h) => handler'[h].pc = "insert"
  BY <1>t, FindFacts
<1>8. SaveAlert(h) => handler'[h].pc = "flag"
  BY <1>t, GotoFacts DEF SaveAlert, Steps
<1>9. FlagAsFraud(h) => handler'[h].pc = "setcooldown"
  BY <1>t, GotoFacts DEF FlagAsFraud, Steps
<1>10. SetCooldown(h) \/ Fail(h) => handler'[h].pc = "idle"
  BY <1>t, ReturnFacts DEF SetCooldown, Fail
<1>11. QED
  BY <1>1, <1>2, <1>3, <1>4, <1>5, <1>6, <1>7, <1>8, <1>9, <1>10

\* An aggregate, once created, does not change.
LEMMA CallsKept ==
    ASSUME TInv, [Next]_vars, NEW c \in CallIds, call[c] # NoCall
    PROVE  call'[c] = call[c]
<1>1. ASSUME NEW h \in Handlers, Await(h) \/ Fail(h) PROVE call' = call
  BY <1>1, AwaitWrites
<1>2. ASSUME NEW h \in Handlers, NEW d \in CallIds, NEW a \in ANumbers,
             NEW b \in BNumbers, Receive(h, d, a, b)
      PROVE  call'[c] = call[c]
  BY <1>2, ReceiveFacts DEF TInv, Receive
<1>3. Tick => call' = call
  BY DEF Tick
<1>4. ASSUME NEW before \in 0..now, CleanupOldCalls(before) PROVE call' = call
  BY <1>4 DEF CleanupOldCalls
<1>5. UNCHANGED vars => call' = call
  BY DEF vars
<1>6. QED
  BY <1>1, <1>2, <1>3, <1>4, <1>5, NextCases

\* No step of the code deletes an alert.
LEMMA AlertsKept ==
    ASSUME TInv, [Next]_vars
    PROVE  alerts \subseteq alerts'
<1>1. ASSUME NEW h \in Handlers, Await(h) \/ Fail(h) PROVE alerts \subseteq alerts'
  BY <1>1, AwaitWrites, WriteFacts, AlertsWritten
<1>2. ASSUME NEW h \in Handlers, NEW c \in CallIds, NEW a \in ANumbers,
             NEW b \in BNumbers, Receive(h, c, a, b)
      PROVE  alerts' = alerts
  BY <1>2 DEF Receive, db
<1>3. Tick => alerts' = alerts
  BY DEF Tick, db
<1>4. ASSUME NEW before \in 0..now, CleanupOldCalls(before) PROVE alerts' = alerts
  BY <1>4 DEF CleanupOldCalls
<1>5. UNCHANGED vars => alerts' = alerts
  BY DEF vars, db
<1>6. QED
  BY <1>1, <1>2, <1>3, <1>4, <1>5, NextCases

LEMMA StepTInv == TInv /\ [Next]_vars => TInv'
<1> SUFFICES ASSUME TInv, [Next]_vars PROVE TInv'
  OBVIOUS
<1>1. ASSUME UNCHANGED vars PROVE TInv'
  BY <1>1 DEF TInv, TypeOK, HandlersOK, RowsOK, vars, cache, db
<1>2. QED
  BY <1>1, NextCases, AwaitTInv, ReceiveTInv, TickTInv, CleanupTInv

----------------------------------------------------------------------------
(* A cooldown is set only after its alert is stored.                       *)

\* From the insert on, a handler's alert is a row of fraud_alerts.
AlertStored == \A h \in Handlers :
    handler[h].pc \in {"flag", "setcooldown"} => AlertOf(h) \in alerts

LEMMA SavedAlert ==
    ASSUME TInv, NEW h \in Handlers, Await(h) \/ Fail(h),
           handler'[h].pc \in {"flag", "setcooldown"}
    PROVE  /\ AlertOf(h)' = AlertOf(h)
           /\ \/ AlertOf(h) \in alerts'
              \/ handler[h].pc = "flag"
<1>t. TypeOK
  BY DEF TInv
<1>1. SaveAlert(h) \/ FlagAsFraud(h)
  BY AwaitTargets DEF Await
<1>2. /\ handler'[h].call = handler[h].call
      /\ handler'[h].callers = handler[h].callers
      /\ handler'[h].calls = handler[h].calls
      /\ handler'[h].end = handler[h].end
  BY <1>t, <1>1, GotoFacts DEF SaveAlert, FlagAsFraud, Steps
<1>3. AlertOf(h)' = AlertOf(h)
  BY <1>2, AwaitKeeps DEF AlertOf
<1>4. SaveAlert(h) => AlertOf(h) \in alerts'
  BY DEF SaveAlert, InsertAlert
<1>5. FlagAsFraud(h) => handler[h].pc = "flag"
  BY DEF FlagAsFraud, FlagCalls, At
<1>6. QED
  BY <1>1, <1>3, <1>4, <1>5

LEMMA AlertStoredStep == TInv /\ AlertStored /\ [Next]_vars => AlertStored'
<1> SUFFICES ASSUME TInv, AlertStored, [Next]_vars, NEW g \in Handlers,
                    handler'[g].pc \in {"flag", "setcooldown"}
             PROVE  AlertOf(g)' \in alerts'
  BY DEF AlertStored
<1>1. alerts \subseteq alerts'
  BY AlertsKept
<1>2. ASSUME NEW h \in Handlers, Await(h) \/ Fail(h)
      PROVE  AlertOf(g)' \in alerts'
  <2>1. CASE g = h
    BY <1>1, <1>2, <2>1, SavedAlert DEF AlertStored
  <2>2. CASE g # h
    BY <1>1, <1>2, <2>2, AwaitKeeps DEF AlertStored, AlertOf
  <2>3. QED
    BY <2>1, <2>2
<1>3. ASSUME NEW h \in Handlers, NEW c \in CallIds, NEW a \in ANumbers,
             NEW b \in BNumbers, Receive(h, c, a, b)
      PROVE  AlertOf(g)' \in alerts'
  <2>1. g # h /\ handler'[g] = handler[g]
    BY <1>3, ReceiveFacts DEF TInv
  <2>2. QED
    BY <1>1, <1>3, <2>1, ReceiveKeeps DEF AlertStored, AlertOf
<1>4. ASSUME Tick \/ (\E before \in 0..now : CleanupOldCalls(before)) \/ UNCHANGED vars
      PROVE  AlertOf(g)' \in alerts'
  <2>1. UNCHANGED <<call, handler>>
    BY <1>4 DEF Tick, CleanupOldCalls, vars
  <2>2. QED
    BY <1>1, <2>1 DEF AlertStored, AlertOf, B
<1>5. QED
  BY <1>2, <1>3, <1>4, NextCases

LEMMA SuppressedStep ==
    TInv /\ AlertStored /\ SuppressedOnlyAfterAlert /\ [Next]_vars
        => SuppressedOnlyAfterAlert'
<1> SUFFICES ASSUME TInv, AlertStored, SuppressedOnlyAfterAlert, [Next]_vars,
                    NEW b \in BNumbers, InCooldown(b)'
             PROVE  Alerted(b)'
  BY DEF SuppressedOnlyAfterAlert
<1>1. Alerted(b) => Alerted(b)'
  BY AlertsKept DEF Alerted
<1>2. ASSUME InCooldown(b) PROVE Alerted(b)'
  BY <1>1, <1>2 DEF SuppressedOnlyAfterAlert
<1>3. ASSUME NEW h \in Handlers, PutCooldown(h), B(h) = b PROVE Alerted(b)
  BY <1>3 DEF AlertStored, PutCooldown, At, AlertOf, Alerted
<1>4. ASSUME NEW h \in Handlers, Await(h) \/ Fail(h) PROVE Alerted(b)'
  <2>1. cooldown'[b] = cooldown[b] \/ (PutCooldown(h) /\ B(h) = b)
    BY <1>4, AwaitWrites, WriteFacts, WorkerFacts DEF PutCooldown, TInv, TypeOK
  <2>2. now' = now
    BY <1>4, AwaitWrites
  <2>3. QED
    BY <1>1, <1>2, <1>3, <2>1, <2>2 DEF InCooldown
<1>5. ASSUME Tick PROVE InCooldown(b)
  BY <1>5 DEF Tick, InCooldown, TInv, TypeOK
<1>6. ASSUME NEW h \in Handlers, NEW c \in CallIds, NEW a \in ANumbers,
             NEW d \in BNumbers, Receive(h, c, a, d)
      PROVE  InCooldown(b)
  BY <1>6 DEF Receive, InCooldown, cache
<1>7. ASSUME (\E before \in 0..now : CleanupOldCalls(before)) \/ UNCHANGED vars
      PROVE  InCooldown(b)
  BY <1>7 DEF CleanupOldCalls, InCooldown, vars, cache
<1>8. QED
  BY <1>2, <1>4, <1>5, <1>6, <1>7, NextCases

----------------------------------------------------------------------------
(* An alert needs Threshold distinct callers.                              *)

Enough(b) == Cardinality(CallersOf(b)) >= Threshold

\* From the check of the count on, Threshold numbers have called.
Justified ==
    /\ \A b \in BNumbers : window[b].members \subseteq CallersOf(b)
    /\ \A h \in Handlers :
          handler[h].pc = "save" => handler[h].count <= Cardinality(CallersOf(B(h)))
    /\ \A h \in Handlers :
          handler[h].pc \in {"cooldown?", "smembers", "select", "insert"} => Enough(B(h))
    /\ AlertJustified

LEMMA CallersFinite ==
    ASSUME NEW b PROVE IsFiniteSet(CallersOf(b)) /\ Cardinality(CallersOf(b)) \in Nat
BY EngineAssumption, FS_Subset, FS_CardinalityType DEF CallersOf

\* Numbers that called stay numbers that called.
LEMMA CallersGrow ==
    ASSUME TInv, [Next]_vars, NEW b
    PROVE  /\ CallersOf(b) \subseteq CallersOf(b)'
           /\ Cardinality(CallersOf(b)) <= Cardinality(CallersOf(b)')
           /\ Cardinality(CallersOf(b)) \in Nat
           /\ Cardinality(CallersOf(b)') \in Nat
<1>1. CallersOf(b) \subseteq CallersOf(b)'
  BY CallsKept, NoCallAssumption DEF CallersOf
<1>2. CallersOf(b)' \subseteq ANumbers
  BY DEF CallersOf
<1>3. IsFiniteSet(CallersOf(b)')
  BY <1>2, EngineAssumption, FS_Subset
<1>4. Cardinality(CallersOf(b)) <= Cardinality(CallersOf(b)')
  BY <1>1, <1>3, FS_Subset
<1>5. QED
  BY <1>1, <1>3, <1>4, CallersFinite, FS_CardinalityType

LEMMA EnoughKept ==
    ASSUME TInv, [Next]_vars, NEW b, Enough(b)
    PROVE  Enough(b)'
<1>1. /\ Cardinality(CallersOf(b)) <= Cardinality(CallersOf(b)')
      /\ Cardinality(CallersOf(b)) \in Nat
      /\ Cardinality(CallersOf(b)') \in Nat
  BY CallersGrow
<1>2. Cardinality(CallersOf(b))' >= Threshold
  BY <1>1, EngineAssumption DEF Enough
<1>3. QED
  BY <1>2 DEF Enough

LEMMA MembersCalled ==
    ASSUME TInv, Justified, [Next]_vars, NEW b \in BNumbers
    PROVE  window'[b].members \subseteq CallersOf(b)'
<1>1. /\ CallersOf(b) \subseteq CallersOf(b)'
      /\ window[b].members \subseteq CallersOf(b)
      /\ window \in [BNumbers -> [members : SUBSET ANumbers, expires : Nat]]
  BY CallersGrow DEF Justified, TInv, TypeOK
<1>2. ASSUME NEW h \in Handlers, Await(h) \/ Fail(h)
      PROVE  window'[b].members \subseteq CallersOf(b)'
  <2>1. A(h) \in CallersOf(B(h))
    BY <1>2, AwaitWrites, WorkerFacts, NoCallAssumption DEF CallersOf, A, B
  <2>2. AddMember(h) \/ Expire(h) \/ window' = window
    BY <1>2, AwaitWrites, WriteFacts
  <2>3. window'[b].members \subseteq window[b].members \cup {A(h)}
    BY <1>1, <2>2 DEF AddMember, Expire
  <2>4. b # B(h) => window'[b].members = window[b].members
    BY <1>1, <2>2 DEF AddMember, Expire
  <2>5. QED
    BY <1>1, <2>1, <2>3, <2>4
<1>3. ASSUME NEW h \in Handlers, NEW c \in CallIds, NEW a \in ANumbers,
             NEW d \in BNumbers, Receive(h, c, a, d)
      PROVE  window' = window
  BY <1>3 DEF Receive, cache
<1>4. Tick => window'[b].members \subseteq window[b].members
  BY DEF Tick, NoWindow
<1>5. (\E before \in 0..now : CleanupOldCalls(before)) \/ UNCHANGED vars => window' = window
  BY DEF CleanupOldCalls, cache, vars
<1>6. QED
  BY <1>1, <1>2, <1>3, <1>4, <1>5, NextCases

\* Where the handlers that are past the count stand.
LEMMA KeptJustified ==
    ASSUME TInv, Justified, [Next]_vars, NEW g \in Handlers,
           handler'[g] = handler[g], B(g)' = B(g)
    PROVE  /\ handler'[g].pc = "save" => handler'[g].count <= Cardinality(CallersOf(B(g)))'
           /\ handler'[g].pc \in {"cooldown?", "smembers", "select", "insert"}
                 => Enough(B(g))'
<1>1. PICK b : b = B(g)
  OBVIOUS
<1>2. b = B(g)'
  BY <1>1
<1>3. /\ Cardinality(CallersOf(b)) <= Cardinality(CallersOf(b)')
      /\ Cardinality(CallersOf(b)) \in Nat
      /\ Cardinality(CallersOf(b)') \in Nat
      /\ Enough(b) => Enough(b)'
  BY CallersGrow, EnoughKept
<1>4. handler[g].count \in Nat
  BY DEF TInv, TypeOK, LocalState
<1>5. handler[g].pc = "save" => handler[g].count <= Cardinality(CallersOf(b))
  BY <1>1 DEF Justified
<1>6. handler[g].pc = "save" => handler[g].count <= Cardinality(CallersOf(b))'
  BY <1>3, <1>4, <1>5
<1>7. handler[g].pc \in {"cooldown?", "smembers", "select", "insert"} => Enough(b)'
  BY <1>1, <1>3 DEF Justified
<1>8. QED
  BY <1>2, <1>6, <1>7 DEF Enough

LEMMA AwaitJustified ==
    ASSUME TInv, Justified, NEW h \in Handlers, Await(h) \/ Fail(h)
    PROVE  /\ handler'[h].pc = "save" => handler'[h].count <= Cardinality(CallersOf(B(h)))'
           /\ handler'[h].pc \in {"cooldown?", "smembers", "select", "insert"}
                 => Enough(B(h))'
<1>1. /\ handler'[h].pc # "idle" => B(h)' = B(h)
      /\ call' = call
  BY AwaitKeeps, AwaitWrites
<1>2. handler'[h].pc # "idle" => CallersOf(B(h))' = CallersOf(B(h))
  BY <1>1 DEF CallersOf
<1>3. CASE CountCallers(h)
  <2>1. /\ IsFiniteSet(CallersOf(B(h)))
        /\ window[B(h)].members \subseteq CallersOf(B(h))
    BY AwaitWrites, WorkerFacts, CallersFinite DEF Justified
  <2>2. DistinctCallers(B(h)) <= Cardinality(CallersOf(B(h)))
    BY <2>1, FS_Subset DEF DistinctCallers
  <2>3. handler'[h].count = DistinctCallers(B(h)) /\ handler'[h].pc = "save"
    BY <1>3, AwaitWrites, WorkerFacts, CountFacts DEF TInv
  <2>4. QED
    BY <1>2, <2>2, <2>3
<1>4. CASE SaveCall(h)
  <2>1. handler'[h].pc = "cooldown?" => ReachesThreshold(handler[h].count)
    BY <1>4, ReturnFacts DEF SaveCall, TInv
  <2>2. handler[h].count <= Cardinality(CallersOf(B(h)))
    BY <1>4 DEF SaveCall, InsertCall, At, Justified
  <2>3. handler[h].count \in Nat /\ Cardinality(CallersOf(B(h))) \in Nat
    BY CallersFinite DEF TInv, TypeOK, LocalState
  <2>4. handler'[h].pc = "cooldown?" => Cardinality(CallersOf(B(h))) >= Threshold
    BY <2>1, <2>2, <2>3, EngineAssumption DEF ReachesThreshold
  <2>5. handler'[h].pc \in {"cooldown?", "idle"}
    BY <1>4, AwaitTargets
  <2>6. QED
    BY <1>2, <2>4, <2>5 DEF Enough
<1>5. CASE CheckCooldown(h) \/ GetCallers(h) \/ FindCalls(h)
  <2>1. Enough(B(h))
    BY <1>5 DEF CheckCooldown, GetCallers, FindCalls, At, Justified
  <2>2. handler'[h].pc \in {"smembers", "select", "insert", "idle"}
    BY <1>5, AwaitTargets
  <2>3. QED
    BY <1>2, <2>1, <2>2 DEF Enough
<1>6. CASE ~(CountCallers(h) \/ SaveCall(h) \/ CheckCooldown(h) \/ GetCallers(h) \/ FindCalls(h))
  BY <1>6, AwaitTargets DEF Await
<1>7. QED
  BY <1>3, <1>4, <1>5, <1>6

LEMMA AlertsJustified ==
    ASSUME TInv, Justified, [Next]_vars PROVE AlertJustified'
<1> SUFFICES ASSUME NEW al \in alerts' PROVE Enough(al.b)'
  BY DEF AlertJustified, Enough
<1>1. PICK b : b = al.b
  OBVIOUS
<1>2. Enough(b) => Enough(b)'
  BY EnoughKept
<1>3. al \in alerts => Enough(b)
  BY <1>1 DEF Justified, AlertJustified, Enough
<1>4. ASSUME NEW h \in Handlers, Await(h) \/ Fail(h), al \notin alerts
      PROVE  Enough(b)
  <2>1. InsertAlert(h)
    BY <1>4, AwaitWrites, WriteFacts
  <2>2. al = AlertOf(h) /\ handler[h].pc = "insert"
    BY <1>4, <2>1 DEF InsertAlert, At
  <2>3. QED
    BY <1>1, <2>2 DEF AlertOf, Justified
<1>5. ASSUME NEW h \in Handlers, NEW c \in CallIds, NEW a \in ANumbers,
             NEW d \in BNumbers, Receive(h, c, a, d)
      PROVE  alerts' = alerts
  BY <1>5 DEF Receive, db
<1>6. Tick \/ (\E before \in 0..now : CleanupOldCalls(before)) \/ UNCHANGED vars
         => alerts' = alerts
  BY DEF Tick, CleanupOldCalls, vars, db
<1>7. Enough(b)
  BY <1>3, <1>4, <1>5, <1>6, NextCases
<1>8. QED
  BY <1>1, <1>2, <1>7

LEMMA JustifiedStep == TInv /\ Justified /\ [Next]_vars => Justified'
<1> SUFFICES ASSUME TInv, Justified, [Next]_vars PROVE Justified'
  OBVIOUS
<1>1. ASSUME NEW g \in Handlers
      PROVE  /\ handler'[g].pc = "save"
                   => handler'[g].count <= Cardinality(CallersOf(B(g)))'
             /\ handler'[g].pc \in {"cooldown?", "smembers", "select", "insert"}
                   => Enough(B(g))'
  <2>1. CASE handler'[g].pc \in {"idle", "sadd"}
    BY <2>1
  <2>2. CASE handler'[g] = handler[g] /\ B(g)' = B(g)
    BY <2>2, KeptJustified
  <2>3. CASE Await(g) \/ Fail(g)
    BY <2>3, AwaitJustified
  <2>4. QED
    BY <2>1, <2>2, <2>3, HandlerCases
<1>2. QED
  BY <1>1, MembersCalled, AlertsJustified DEF Justified

----------------------------------------------------------------------------
(* What an alert lists is evidence for it.                                 *)

\* The calls cs were made to b in the window that ends at end.
Covers(b, end, cs) == \A c \in cs :
    /\ call[c] \in CallRow
    /\ call[c].b = b
    /\ call[c].at <= end
    /\ end <= call[c].at + Window

Evidence ==
    /\ \A h \in Handlers : handler[h].pc = "insert" =>
          Covers(B(h), handler[h].end, handler[h].calls)
    /\ \A al \in alerts : Covers(al.b, al.end, al.calls)
    /\ \A c \in CallIds : flaggedBy[c] # NoAlert =>
          \E al \in alerts : al.id = flaggedBy[c] /\ c \in al.calls

LEMMA CoversKept ==
    ASSUME TInv, [Next]_vars, NEW b, NEW end, NEW cs \in SUBSET CallIds, Covers(b, end, cs)
    PROVE  Covers(b, end, cs)'
BY CallsKept, NoCallAssumption DEF Covers

LEMMA FoundCovers ==
    ASSUME TInv, NEW b, NEW end
    PROVE  Covers(b, end, CallsInWindow(b, end))
BY DEF TInv, RowsOK, Covers, CallsInWindow

\* A step writes at most the alert the handler read the evidence for.
LEMMA NewAlert ==
    ASSUME TInv, [Next]_vars, NEW al \in alerts' \ alerts
    PROVE  \E h \in Handlers : InsertAlert(h) /\ al = AlertOf(h) /\ handler[h].pc = "insert"
<1>1. ASSUME NEW h \in Handlers, Await(h) \/ Fail(h)
      PROVE  InsertAlert(h) /\ al = AlertOf(h) /\ handler[h].pc = "insert"
  BY <1>1, AwaitWrites, WriteFacts DEF InsertAlert, At
<1>2. ASSUME NEW h \in Handlers, NEW c \in CallIds, NEW a \in ANumbers,
             NEW d \in BNumbers, Receive(h, c, a, d)
      PROVE  alerts' = alerts
  BY <1>2 DEF Receive, db
<1>3. Tick \/ (\E before \in 0..now : CleanupOldCalls(before)) \/ UNCHANGED vars
         => alerts' = alerts
  BY DEF Tick, CleanupOldCalls, vars, db
<1>4. QED
  BY <1>1, <1>2, <1>3, NextCases

LEMMA HandlersCover ==
    ASSUME TInv, Evidence, [Next]_vars, NEW g \in Handlers, handler'[g].pc = "insert"
    PROVE  Covers(B(g), handler[g].end, handler[g].calls)'
<1>1. PICK b, end, cs : b = B(g)' /\ end = handler'[g].end /\ cs = handler'[g].calls
  OBVIOUS
<1>2. cs \in SUBSET CallIds
  BY <1>1, StepTInv DEF TInv, TypeOK, LocalState
<1>3. Covers(b, end, cs)
  <2>1. CASE handler'[g] = handler[g] /\ B(g)' = B(g)
    BY <1>1, <2>1 DEF Evidence
  <2>2. CASE Await(g) \/ Fail(g)
    <3>1. FindCalls(g)
      BY <2>2, AwaitTargets DEF Await
    <3>2. /\ handler'[g].calls = CallsInWindow(B(g), handler[g].end)
          /\ handler'[g].end = handler[g].end
      BY <3>1, FindFacts DEF TInv
    <3>3. B(g)' = B(g)
      BY <2>2, AwaitKeeps
    <3>4. QED
      BY <1>1, <3>2, <3>3, FoundCovers
  <2>3. QED
    BY <2>1, <2>2, HandlerCases
<1>4. Covers(b, end, cs)'
  BY <1>2, <1>3, CoversKept
<1>5. QED
  BY <1>1, <1>4 DEF Covers

LEMMA AlertsCover ==
    ASSUME TInv, Evidence, [Next]_vars, NEW al \in alerts'
    PROVE  Covers(al.b, al.end, al.calls)'
<1>1. PICK b, end, cs : b = al.b /\ end = al.end /\ cs = al.calls
  OBVIOUS
<1>2. cs \in SUBSET CallIds
  BY <1>1, StepTInv DEF TInv, TypeOK, AlertRow
<1>3. al \in alerts => Covers(b, end, cs)
  BY <1>1 DEF Evidence
<1>4. al \notin alerts => Covers(b, end, cs)
  BY <1>1, NewAlert DEF Evidence, AlertOf
<1>5. Covers(b, end, cs)'
  BY <1>2, <1>3, <1>4, CoversKept
<1>6. QED
  BY <1>1, <1>5 DEF Covers

LEMMA FlagsPoint ==
    ASSUME TInv, AlertStored, Evidence, [Next]_vars, NEW c \in CallIds,
           flaggedBy'[c] # NoAlert
    PROVE  \E al \in alerts' : al.id = flaggedBy'[c] /\ c \in al.calls
<1>1. alerts \subseteq alerts'
  BY AlertsKept
<1>2. CASE flaggedBy'[c] = flaggedBy[c]
  BY <1>1, <1>2 DEF Evidence
<1>3. CASE flaggedBy'[c] # flaggedBy[c]
  <2>1. ASSUME NEW h \in Handlers, Await(h) \/ Fail(h)
        PROVE  AlertOf(h) \in alerts /\ AlertOf(h).id = flaggedBy'[c] /\ c \in AlertOf(h).calls
    <3>1. FlagCalls(h)
      BY <1>3, <2>1, AwaitWrites, WriteFacts DEF InsertCall, TInv, TypeOK
    <3>2. c \in handler[h].calls /\ flaggedBy'[c] = handler[h].call
      BY <1>3, <3>1 DEF FlagCalls
    <3>3. QED
      BY <3>1, <3>2 DEF AlertStored, AlertOf, FlagCalls, At
  <2>2. ASSUME NEW h \in Handlers, NEW d \in CallIds, NEW a \in ANumbers,
               NEW b \in BNumbers, Receive(h, d, a, b)
        PROVE  FALSE
    BY <1>3, <2>2 DEF Receive, db
  <2>3. ~(Tick \/ (\E before \in 0..now : CleanupOldCalls(before)) \/ UNCHANGED vars)
    BY <1>3 DEF Tick, CleanupOldCalls, vars, db
  <2>4. QED
    BY <1>1, <2>1, <2>2, <2>3, NextCases
<1>4. QED
  BY <1>2, <1>3

LEMMA EvidenceStep == TInv /\ AlertStored /\ Evidence /\ [Next]_vars => Evidence'
BY HandlersCover, AlertsCover, FlagsPoint DEF Evidence

LEMMA EvidenceSound == TInv /\ Evidence => EvidenceIntegrity
BY DEF TInv, RowsOK, Evidence, EvidenceIntegrity, Covers

----------------------------------------------------------------------------
(* A cooldown that ends later than an alert's was set after its check.     *)

CheckedBefore == \A h \in Handlers :
    handler[h].pc \in {"smembers", "select", "insert"} =>
        /\ handler[h].end <= now
        /\ InCooldown(B(h)) => handler[h].end + Cooldown <= cooldown[B(h)]

\* A cooldown is renewed from the present, or runs out.
LEMMA CooldownCases ==
    ASSUME TInv, [Next]_vars, NEW b \in BNumbers, InCooldown(b)'
    PROVE  /\ now <= now'
           /\ \/ cooldown'[b] = cooldown[b] /\ InCooldown(b)
              \/ cooldown'[b] = now + Cooldown
<1>1. ASSUME NEW h \in Handlers, Await(h) \/ Fail(h)
      PROVE  /\ now' = now
             /\ \/ cooldown'[b] = cooldown[b] /\ InCooldown(b)
                \/ cooldown'[b] = now + Cooldown
  <2>1. now' = now /\ (PutCooldown(h) \/ cooldown' = cooldown)
    BY <1>1, AwaitWrites, WriteFacts
  <2>2. QED
    BY <2>1 DEF PutCooldown, InCooldown, TInv, TypeOK
<1>2. ASSUME NEW h \in Handlers, NEW c \in CallIds, NEW a \in ANumbers,
             NEW d \in BNumbers, Receive(h, c, a, d)
      PROVE  now' = now /\ cooldown' = cooldown
  BY <1>2 DEF Receive, cache
<1>3. ASSUME Tick PROVE now <= now' /\ cooldown'[b] = cooldown[b] /\ InCooldown(b)
  BY <1>3 DEF Tick, InCooldown, TInv, TypeOK
<1>4. (\E before \in 0..now : CleanupOldCalls(before)) \/ UNCHANGED vars
         => now' = now /\ cooldown' = cooldown
  BY DEF CleanupOldCalls, cache, vars
<1>5. now \in Nat
  BY DEF TInv, TypeOK
<1>6. QED
  BY <1>1, <1>2, <1>3, <1>4, <1>5, NextCases DEF InCooldown

LEMMA CheckedBeforeStep == TInv /\ CheckedBefore /\ [Next]_vars => CheckedBefore'
<1> SUFFICES ASSUME TInv, CheckedBefore, [Next]_vars, NEW g \in Handlers,
                    handler'[g].pc \in {"smembers", "select", "insert"}
             PROVE  /\ handler'[g].end <= now'
                    /\ InCooldown(B(g))' => handler'[g].end + Cooldown <= cooldown'[B(g)']
  BY DEF CheckedBefore
<1>1. PICK b : b = B(g)'
  OBVIOUS
<1>2. b \in BNumbers
  <2>1. TInv'
    BY StepTInv
  <2>2. B(g)' \in BNumbers
    BY <2>1 DEF TInv, HandlersOK, CallRow, B
  <2>3. QED
    BY <1>1, <2>2
<1>3. /\ handler'[g].end <= now
      /\ handler'[g].end \in Nat
      /\ InCooldown(b) => handler'[g].end + Cooldown <= cooldown[b]
  <2>1. CASE handler'[g] = handler[g] /\ B(g)' = B(g)
    BY <1>1, <2>1 DEF CheckedBefore, TInv, TypeOK, LocalState
  <2>2. CASE Await(g) \/ Fail(g)
    <3>1. B(g)' = B(g) /\ (CheckCooldown(g) \/ GetCallers(g) \/ FindCalls(g))
      BY <2>2, AwaitKeeps, AwaitTargets DEF Await
    <3>2. CASE CheckCooldown(g)
      <4>1. ~InCooldown(B(g))
        BY <3>2, ReturnFacts DEF CheckCooldown, TInv
      <4>2. handler'[g].end = now
        BY <3>2, <4>1, CheckFacts DEF TInv
      <4>3. QED
        BY <1>1, <3>1, <4>1, <4>2 DEF TInv, TypeOK
    <3>3. CASE GetCallers(g)
      BY <1>1, <2>2, <3>1, <3>3, AwaitWrites, WorkerFacts, GetFacts
      DEF CheckedBefore, GetCallers, At, TInv, TypeOK, LocalState
    <3>4. CASE FindCalls(g)
      BY <1>1, <3>1, <3>4, FindFacts
      DEF CheckedBefore, FindCalls, At, TInv, TypeOK, LocalState
    <3>5. QED
      BY <3>1, <3>2, <3>3, <3>4
  <2>3. QED
    BY <2>1, <2>2, HandlerCases
<1>4. now <= now'
  <2>1. now' = now \/ Tick
    <3>1. ASSUME NEW h \in Handlers, Await(h) \/ Fail(h) PROVE now' = now
      BY <3>1, AwaitWrites
    <3>2. QED
      BY <3>1, NextCases DEF Receive, CleanupOldCalls, vars
  <2>2. QED
    BY <2>1 DEF Tick, TInv, TypeOK
<1>5. now \in Nat /\ now' \in Nat /\ Cooldown \in Nat
  BY StepTInv, EngineAssumption DEF TInv, TypeOK
<1>6. InCooldown(b)' => handler'[g].end + Cooldown <= cooldown'[b]
  BY <1>2, <1>3, <1>5, CooldownCases
<1>7. QED
  BY <1>1, <1>3, <1>4, <1>5, <1>6 DEF InCooldown

\* The part of LateAlertIsRace a single step shows.
LEMMA LateStep ==
    ASSUME TInv, CheckedBefore, [Next]_vars, NEW al \in alerts' \ alerts, InCooldown(al.b)
    PROVE  al.end + Cooldown <= cooldown[al.b]
BY NewAlert DEF CheckedBefore, AlertOf

----------------------------------------------------------------------------
(* The window of a B-number dies with its traffic.                         *)

LEMMA WindowsExpireStep == TInv /\ WindowsExpire /\ [Next]_vars => WindowsExpire'
<1> DEFINE Fresh(b) == now < window[b].expires /\ window[b].expires <= now + Window
           Adding(b) == \E h \in Handlers : At(h, "expire") /\ Working(h, b)
<1> SUFFICES ASSUME TInv, WindowsExpire, [Next]_vars, NEW b \in BNumbers,
                    window'[b].members # {}
             PROVE  b \in lost' \/ Adding(b)' \/ Fresh(b)'
  BY DEF WindowsExpire
<1>1. window[b].members # {} => b \in lost \/ Adding(b) \/ Fresh(b)
  BY DEF WindowsExpire
<1>2. /\ now \in Nat /\ Window \in Nat \ {0} /\ window[b].expires \in Nat
      /\ window \in [BNumbers -> [members : SUBSET ANumbers, expires : Nat]]
  BY EngineAssumption DEF TInv, TypeOK
<1>3. ASSUME NEW h \in Handlers, Await(h) \/ Fail(h)
      PROVE  b \in lost' \/ Adding(b)' \/ Fresh(b)'
  <2>1. now' = now /\ lost \subseteq lost' /\ B(h) \in BNumbers
    BY <1>3, AwaitWrites, LostFacts, WorkerFacts
  <2>2. CASE Fail(h) /\ B(h) = b
    BY <2>2 DEF Fail
  <2>3. CASE AddCaller(h) /\ B(h) = b
    <3>1. handler'[h].pc = "expire" /\ B(h)' = B(h)
      BY <1>3, <2>3, AwaitTargets, AwaitKeeps
    <3>2. QED
      BY <2>3, <3>1 DEF At, Working
  <2>4. CASE ExpireWindow(h) /\ B(h) = b
    <3>1. window'[b].members = window[b].members
      BY <1>2, <2>4 DEF ExpireWindow, Expire
    <3>2. window'[b].expires = now + Window
      BY <1>2, <2>4, <3>1 DEF ExpireWindow, Expire
    <3>3. QED
      BY <1>2, <2>1, <3>2
  <2>5. CASE ~(Fail(h) \/ AddCaller(h) \/ ExpireWindow(h)) \/ B(h) # b
    <3>1. window'[b] = window[b]
      <4>1. CASE B(h) # b
        BY <1>2, <1>3, <4>1, AwaitWrites, WriteFacts DEF AddMember, Expire
      <4>2. CASE ~(Fail(h) \/ AddCaller(h) \/ ExpireWindow(h))
        BY <1>3, <4>2 DEF Await, CountCallers, SaveCall, InsertCall, CheckCooldown, GetCallers,
           FindCalls, SaveAlert, InsertAlert, FlagAsFraud, FlagCalls, SetCooldown, PutCooldown, cache
      <4>3. QED
        BY <2>5, <4>1, <4>2
    <3>2. Adding(b) => Adding(b)'
      <4>1. ASSUME NEW g \in Handlers, At(g, "expire"), Working(g, b)
            PROVE  handler'[g].pc = "expire" /\ B(g)' = b
        <5>1. g # h
          BY <1>3, <2>5, <4>1 DEF Await, At, Working, AddCaller, AddMember, CountCallers, SaveCall,
             InsertCall, CheckCooldown, GetCallers, FindCalls, SaveAlert, InsertAlert,
             FlagAsFraud, FlagCalls, SetCooldown, PutCooldown
        <5>2. handler'[g] = handler[g]
          BY <1>3, <5>1, AwaitMoves
        <5>3. QED
          BY <1>3, <4>1, <5>2, AwaitKeeps DEF At, Working
      <4>2. QED
        BY <4>1 DEF At, Working
    <3>3. QED
      BY <1>1, <2>1, <3>1, <3>2
  <2>6. QED
    BY <1>3, <2>2, <2>3, <2>4, <2>5
<1>4. ASSUME NEW h \in Handlers, NEW c \in CallIds, NEW a \in ANumbers,
             NEW d \in BNumbers, Receive(h, c, a, d)
      PROVE  b \in lost' \/ Adding(b)' \/ Fresh(b)'
  <2>1. UNCHANGED <<now, window, lost>>
    BY <1>4 DEF Receive, cache
  <2>2. ASSUME NEW g \in Handlers, At(g, "expire"), Working(g, b)
        PROVE  handler'[g].pc = "expire" /\ B(g)' = b
    <3>1. g # h /\ handler[g].pc # "idle"
      BY <1>4, <2>2 DEF Receive, At
    <3>2. QED
      BY <1>4, <2>2, <3>1, ReceiveKeeps DEF At, Working
  <2>3. Adding(b) => Adding(b)'
    BY <2>2 DEF At, Working
  <2>4. QED
    BY <1>1, <2>1, <2>3
<1>5. ASSUME Tick PROVE b \in lost' \/ Adding(b)' \/ Fresh(b)'
  <2>1. /\ UNCHANGED <<handler, call, lost>>
        /\ now' = now + 1
        /\ window'[b] = window[b]
        /\ window[b].expires = Never \/ window[b].expires > now'
    BY <1>2, <1>5 DEF Tick, NoWindow
  <2>2. Adding(b) => Adding(b)'
    BY <2>1 DEF At, Working, B
  <2>3. Fresh(b) => Fresh(b)'
    BY <1>2, <2>1 DEF Never
  <2>4. QED
    BY <1>1, <2>1, <2>2, <2>3
<1>6. ASSUME (\E before \in 0..now : CleanupOldCalls(before)) \/ UNCHANGED vars
      PROVE  b \in lost' \/ Adding(b)' \/ Fresh(b)'
  <2>1. UNCHANGED <<now, window, lost, handler, call>>
    BY <1>6 DEF CleanupOldCalls, vars, cache
  <2>2. Adding(b) => Adding(b)'
    BY <2>1 DEF At, Working, B
  <2>3. QED
    BY <1>1, <2>1, <2>2
<1>7. QED
  BY <1>3, <1>4, <1>5, <1>6, NextCases

----------------------------------------------------------------------------
(* A full window has a handler on its way to an alert or a cooldown.       *)

\* No key outlives the TTL it is given.
TTLsBounded == \A b \in BNumbers :
    /\ window[b].expires <= now + Window
    /\ cooldown[b] <= now + Cooldown

LEMMA TTLsBoundedStep == TInv /\ TTLsBounded /\ [Next]_vars => TTLsBounded'
<1> SUFFICES ASSUME TInv, TTLsBounded, [Next]_vars, NEW b \in BNumbers
             PROVE  window'[b].expires <= now' + Window /\ cooldown'[b] <= now' + Cooldown
  BY DEF TTLsBounded
<1>1. /\ now \in Nat /\ Window \in Nat /\ Cooldown \in Nat
      /\ window \in [BNumbers -> [members : SUBSET ANumbers, expires : Nat]]
      /\ cooldown \in [BNumbers -> Nat]
      /\ window[b].expires <= now + Window /\ cooldown[b] <= now + Cooldown
  BY EngineAssumption DEF TInv, TypeOK, TTLsBounded
<1>2. ASSUME NEW h \in Handlers, Await(h) \/ Fail(h)
      PROVE  window'[b].expires <= now' + Window /\ cooldown'[b] <= now' + Cooldown
  <2>1. now' = now
    BY <1>2, AwaitWrites
  <2>2. window'[b].expires \in {window[b].expires, now + Window}
    BY <1>1, <1>2, AwaitWrites, WriteFacts DEF AddMember, Expire
  <2>3. cooldown'[b] \in {cooldown[b], now + Cooldown}
    BY <1>1, <1>2, AwaitWrites, WriteFacts DEF PutCooldown
  <2>4. QED
    BY <1>1, <2>1, <2>2, <2>3
<1>3. Tick => window'[b].expires <= now' + Window /\ cooldown'[b] <= now' + Cooldown
  BY <1>1 DEF Tick, NoWindow, Never
<1>4. QED
  BY <1>1, <1>2, <1>3, NextCases DEF Receive, CleanupOldCalls, vars, cache

\* A handler that has still to count the window, or that has counted enough
\* callers and has neither found nor set a cooldown since.
Pending(h, b) ==
    /\ Working(h, b)
    /\ \/ handler[h].pc \in {"expire", "scard", "cooldown?", "smembers", "select",
                             "insert", "flag", "setcooldown"}
       \/ handler[h].pc = "save" /\ ReachesThreshold(handler[h].count)

\* There was an alert, and its cooldown was in force when the set was renewed.
Covered(b) == Alerted(b) /\ window[b].expires < cooldown[b] + Window

AttackCovered ==
    \A b \in BNumbers : ReachesThreshold(DistinctCallers(b)) =>
        b \in lost \/ Covered(b) \/ \E h \in Handlers : Pending(h, b)

LEMMA AttackCoveredSound == AttackCovered => NoMissedAttack
BY DEF AttackCovered, NoMissedAttack, Pending, Covered

\* A renewal of the set is the only step that can end it, and leaves a handler
\* that will count the set.
LEMMA CoveredKept ==
    ASSUME TInv, TTLsBounded, [Next]_vars, NEW b \in BNumbers, Covered(b),
           window'[b].members # {}
    PROVE  b \in lost' \/ Covered(b)' \/ \E h \in Handlers : Pending(h, b)'
<1>1. /\ now \in Nat /\ Window \in Nat /\ Cooldown \in Nat
      /\ window \in [BNumbers -> [members : SUBSET ANumbers, expires : Nat]]
      /\ cooldown \in [BNumbers -> Nat]
      /\ cooldown[b] <= now + Cooldown
      /\ window[b].expires < cooldown[b] + Window
  BY EngineAssumption DEF TInv, TypeOK, TTLsBounded, Covered
<1>2. Alerted(b)'
  BY AlertsKept DEF Covered, Alerted
<1>3. ASSUME NEW h \in Handlers, Await(h) \/ Fail(h)
      PROVE  b \in lost' \/ Covered(b)' \/ Pending(h, b)'
  <2>1. cooldown'[b] \in {cooldown[b], now + Cooldown}
    BY <1>1, <1>3, AwaitWrites, WriteFacts DEF PutCooldown
  <2>2. CASE window'[b].expires = window[b].expires
    <3>1. window'[b].expires < cooldown'[b] + Window
      BY <1>1, <2>1, <2>2
    <3>2. QED
      BY <1>2, <3>1 DEF Covered
  <2>3. CASE window'[b].expires # window[b].expires
    <3>1. B(h) = b /\ (ExpireWindow(h) \/ Fail(h))
      <4>1. Expire(h) /\ B(h) = b
        BY <1>1, <1>3, <2>3, AwaitWrites, WriteFacts DEF AddMember, Expire
      <4>2. QED
        BY <1>3, <4>1 DEF Await, Expire, At, AddCaller, AddMember, CountCallers, SaveCall,
           InsertCall, CheckCooldown, GetCallers, FindCalls, SaveAlert, InsertAlert,
           FlagAsFraud, FlagCalls, SetCooldown, PutCooldown
    <3>2. CASE ExpireWindow(h)
      <4>1. handler'[h].pc = "scard" /\ B(h)' = b
        BY <1>3, <3>1, <3>2, AwaitTargets, AwaitKeeps
      <4>2. QED
        BY <4>1 DEF Pending, Working
    <3>3. CASE Fail(h)
      BY <3>1, <3>3 DEF Fail
    <3>4. QED
      BY <3>1, <3>2, <3>3
  <2>4. QED
    BY <2>2, <2>3
<1>4. ASSUME UNCHANGED cooldown, window'[b] = window[b] PROVE Covered(b)'
  BY <1>1, <1>2, <1>4 DEF Covered
<1>5. Tick => UNCHANGED cooldown /\ window'[b] = window[b]
  BY <1>1 DEF Tick, NoWindow
<1>6. QED
  BY <1>3, <1>4, <1>5, NextCases DEF Receive, CleanupOldCalls, vars, cache

\* One await of a handler that is on its way keeps it there, or ends it.
LEMMA PendingAwait ==
    ASSUME TInv, AlertStored, TTLsBounded, SuppressedOnlyAfterAlert,
           NEW h \in Handlers, Await(h) \/ Fail(h),
           NEW b \in BNumbers, Pending(h, b), ReachesThreshold(DistinctCallers(b))
    PROVE  b \in lost' \/ Covered(b)' \/ Pending(h, b)'
<1>w. B(h) = b /\ handler[h].pc # "idle"
  BY DEF Pending, Working
<1>b. handler'[h].pc # "idle" => B(h)' = b
  BY <1>w, AwaitKeeps
<1>t. /\ now \in Nat /\ Window \in Nat /\ Cooldown \in Nat \ {0}
      /\ window[b].expires \in Nat /\ window[b].expires <= now + Window
      /\ cooldown \in [BNumbers -> Nat]
  BY EngineAssumption DEF TInv, TypeOK, TTLsBounded
<1>1. CASE Fail(h)
  BY <1>1, <1>w DEF Fail
<1>2. CASE AddCaller(h)
  BY <1>2 DEF Pending, AddCaller, AddMember, At
<1>3. CASE ExpireWindow(h) \/ SaveAlert(h) \/ FlagAsFraud(h)
  BY <1>3, <1>b, AwaitTargets DEF Pending, Working
<1>4. CASE CountCallers(h)
  <2>1. handler'[h].count = DistinctCallers(b) /\ handler'[h].pc = "save"
    BY <1>4, <1>w, WorkerFacts, CountFacts DEF TInv
  <2>2. QED
    BY <1>b, <2>1 DEF Pending, Working, ReachesThreshold
<1>5. CASE SaveCall(h)
  <2>1. ReachesThreshold(handler[h].count)
    BY <1>5 DEF Pending, SaveCall, InsertCall, At
  <2>2. handler'[h].pc = "cooldown?"
    BY <1>5, <2>1, GotoFacts DEF SaveCall, Steps, TInv
  <2>3. QED
    BY <1>b, <2>2 DEF Pending, Working
<1>6. CASE CheckCooldown(h)
  <2>1. CASE InCooldown(b)
    <3>1. UNCHANGED <<window, cooldown, alerts>>
      BY <1>6 DEF CheckCooldown, cache, db
    <3>2. Covered(b)
      BY <1>t, <2>1 DEF SuppressedOnlyAfterAlert, InCooldown, Covered
    <3>3. QED
      BY <3>1, <3>2 DEF Covered, Alerted
  <2>2. CASE ~InCooldown(b)
    <3>1. handler'[h].pc = "smembers"
      BY <1>6, <1>w, <2>2, CheckFacts DEF TInv
    <3>2. QED
      BY <1>b, <3>1 DEF Pending, Working
  <2>3. QED
    BY <2>1, <2>2
<1>7. CASE GetCallers(h) \/ FindCalls(h)
  BY <1>7, <1>b, AwaitTargets DEF Pending, Working
<1>8. CASE SetCooldown(h)
  <2>1. UNCHANGED <<window, alerts>> /\ cooldown'[b] = now + Cooldown
    BY <1>8, <1>w, <1>t DEF SetCooldown, PutCooldown, db
  <2>2. Alerted(b)
    BY <1>8, <1>w DEF SetCooldown, PutCooldown, At, AlertStored, AlertOf, Alerted
  <2>3. QED
    BY <1>t, <2>1, <2>2 DEF Covered, Alerted
<1>9. QED
  BY <1>1, <1>2, <1>3, <1>4, <1>5, <1>6, <1>7, <1>8 DEF Await

\* A window fills up only through a handler that has then to count it.
LEMMA WindowFills ==
    ASSUME TInv, [Next]_vars, NEW b \in BNumbers, ReachesThreshold(DistinctCallers(b))'
    PROVE  \/ ReachesThreshold(DistinctCallers(b))
           \/ b \in lost'
           \/ \E h \in Handlers : Pending(h, b)'
<1>1. ASSUME NEW h \in Handlers, Await(h) \/ Fail(h)
      PROVE  \/ window'[b].members = window[b].members
             \/ b \in lost'
             \/ Pending(h, b)'
  <2>1. window \in [BNumbers -> [members : SUBSET ANumbers, expires : Nat]]
    BY DEF TInv, TypeOK
  <2>2. CASE AddMember(h) /\ B(h) = b
    <3>1. AddCaller(h) \/ Fail(h)
      BY <1>1, <2>2 DEF Await, AddMember, At, ExpireWindow, Expire, CountCallers, SaveCall,
         InsertCall, CheckCooldown, GetCallers, FindCalls, SaveAlert, InsertAlert,
         FlagAsFraud, FlagCalls, SetCooldown, PutCooldown
    <3>2. CASE AddCaller(h)
      <4>1. handler'[h].pc = "expire" /\ B(h)' = b
        BY <1>1, <2>2, <3>2, AwaitTargets, AwaitKeeps
      <4>2. QED
        BY <4>1 DEF Pending, Working
    <3>3. CASE Fail(h)
      BY <2>2, <3>3 DEF Fail
    <3>4. QED
      BY <3>1, <3>2, <3>3
  <2>3. CASE ~(AddMember(h) /\ B(h) = b)
    BY <1>1, <2>1, <2>3, AwaitWrites, WriteFacts DEF AddMember, Expire
  <2>4. QED
    BY <2>2, <2>3
<1>2. ASSUME NEW h \in Handlers, NEW c \in CallIds, NEW a \in ANumbers,
             NEW d \in BNumbers, Receive(h, c, a, d)
      PROVE  window' = window
  BY <1>2 DEF Receive, cache
<1>3. Tick => window'[b].members = window[b].members
  <2>1. Cardinality({}) = 0
    BY FS_EmptySet
  <2>2. Cardinality(window'[b].members) >= Threshold
    BY DEF ReachesThreshold, DistinctCallers
  <2>3. window'[b].members # {}
    BY <2>1, <2>2, EngineAssumption
  <2>4. QED
    BY <2>3 DEF Tick, NoWindow
<1>4. (\E before \in 0..now : CleanupOldCalls(before)) \/ UNCHANGED vars => window' = window
  BY DEF CleanupOldCalls, cache, vars
<1>5. window'[b].members = window[b].members => ReachesThreshold(DistinctCallers(b))
  BY DEF ReachesThreshold, DistinctCallers
<1>6. QED
  BY <1>1, <1>2, <1>3, <1>4, <1>5, NextCases

LEMMA PendingKept ==
    ASSUME TInv, [Next]_vars, NEW g \in Handlers, NEW b \in BNumbers, Pending(g, b),
           ~(Await(g) \/ Fail(g))
    PROVE  Pending(g, b)'
<1>0. handler[g].pc # "idle" /\ B(g) = b
  BY DEF Pending, Working
<1>1. handler'[g] = handler[g] /\ B(g)' = b
  <2>1. ASSUME NEW h \in Handlers, Await(h) \/ Fail(h)
        PROVE  handler'[g] = handler[g] /\ B(g)' = b
    <3>1. handler'[g] = handler[g]
      BY <2>1, AwaitMoves
    <3>2. QED
      BY <1>0, <2>1, <3>1, AwaitKeeps
  <2>2. ASSUME NEW h \in Handlers, NEW c \in CallIds, NEW a \in ANumbers,
               NEW d \in BNumbers, Receive(h, c, a, d)
        PROVE  handler'[g] = handler[g] /\ B(g)' = b
    BY <1>0, <2>2, ReceiveKeeps DEF Receive, At
  <2>3. Tick \/ (\E before \in 0..now : CleanupOldCalls(before)) \/ UNCHANGED vars
          => handler'[g] = handler[g] /\ B(g)' = b
    BY <1>0 DEF Tick, CleanupOldCalls, vars, B
  <2>4. QED
    BY <2>1, <2>2, <2>3, NextCases
<1>2. QED
  BY <1>1 DEF Pending, Working, ReachesThreshold

LEMMA AttackCoveredStep ==
    TInv /\ AlertStored /\ TTLsBounded /\ SuppressedOnlyAfterAlert /\ AttackCovered
        /\ [Next]_vars => AttackCovered'
<1> SUFFICES ASSUME TInv, AlertStored, TTLsBounded, SuppressedOnlyAfterAlert, AttackCovered,
                    [Next]_vars, NEW b \in BNumbers, ReachesThreshold(DistinctCallers(b))'
             PROVE  b \in lost' \/ Covered(b)' \/ \E h \in Handlers : Pending(h, b)'
  BY DEF AttackCovered
<1>1. window'[b].members # {}
  BY FS_EmptySet, EngineAssumption DEF ReachesThreshold, DistinctCallers
<1>2. b \in lost => b \in lost'
  <2>1. ASSUME NEW h \in Handlers, Await(h) \/ Fail(h) PROVE lost \subseteq lost'
    BY <2>1, LostFacts
  <2>2. QED
    BY <2>1, NextCases DEF Receive, Tick, CleanupOldCalls, vars
<1>3. CASE ~ReachesThreshold(DistinctCallers(b))
  BY <1>3, WindowFills
<1>4. CASE ReachesThreshold(DistinctCallers(b))
  <2>1. CASE b \in lost
    BY <1>2, <2>1
  <2>2. CASE Covered(b)
    BY <1>1, <2>2, CoveredKept
  <2>3. ASSUME NEW h \in Handlers, Pending(h, b)
        PROVE  b \in lost' \/ Covered(b)' \/ Pending(h, b)'
    BY <1>4, <2>3, PendingAwait, PendingKept
  <2>4. QED
    BY <1>4, <2>1, <2>2, <2>3 DEF AttackCovered
<1>5. QED
  BY <1>3, <1>4

----------------------------------------------------------------------------
(* Evidence is retained.                                                   *)

LEMMA RetainedStep ==
    ASSUME TInv, [Next]_vars, NEW c \in CallIds, flaggedBy[c] # NoAlert
    PROVE  c \in saved' /\ flaggedBy'[c] # NoAlert
<1>0. c \in saved
  BY DEF TInv, RowsOK
<1>1. ASSUME NEW h \in Handlers, Await(h) \/ Fail(h)
      PROVE  c \in saved' /\ flaggedBy'[c] # NoAlert
  <2>1. /\ handler[h].call \in CallIds
        /\ InsertCall(h) \/ FlagCalls(h) \/ UNCHANGED <<saved, flaggedBy>>
        /\ saved \subseteq saved'
    BY <1>1, AwaitWrites, WriteFacts, WorkerFacts, RowsWritten
  <2>2. InsertCall(h) => c # handler[h].call
    BY <1>0 DEF InsertCall, At, TInv, RowsOK
  <2>3. InsertCall(h) => flaggedBy'[c] # NoAlert
    BY <2>2 DEF InsertCall, TInv, TypeOK
  <2>4. FlagCalls(h) => flaggedBy'[c] # NoAlert
    BY <2>1, EngineAssumption DEF FlagCalls
  <2>5. QED
    BY <1>0, <2>1, <2>3, <2>4
<1>2. ASSUME NEW h \in Handlers, NEW d \in CallIds, NEW a \in ANumbers,
             NEW b \in BNumbers, Receive(h, d, a, b)
      PROVE  UNCHANGED <<saved, flaggedBy>>
  BY <1>2 DEF Receive, db
<1>3. Tick \/ UNCHANGED vars => UNCHANGED <<saved, flaggedBy>>
  BY DEF Tick, vars, db
<1>4. ASSUME NEW before \in 0..now, CleanupOldCalls(before)
      PROVE  c \in saved' /\ flaggedBy'[c] # NoAlert
  BY <1>0, <1>4 DEF CleanupOldCalls
<1>5. QED
  BY <1>0, <1>1, <1>2, <1>3, <1>4, NextCases

----------------------------------------------------------------------------
(* Alerts in turn are a cooldown apart.                                    *)

Reading(h) == handler[h].pc \in {"smembers", "select", "insert"}
Closing(h) == handler[h].pc \in {"flag", "setcooldown"}

LEMMA TimeGrows ==
    ASSUME TInv, [Next]_vars
    PROVE  now \in Nat /\ now' \in Nat /\ now <= now'
<1>1. ASSUME NEW h \in Handlers, Await(h) \/ Fail(h) PROVE now' = now
  BY <1>1, AwaitWrites
<1>2. now' = now \/ Tick
  BY <1>1, NextCases DEF Receive, CleanupOldCalls, vars
<1>3. QED
  BY <1>2 DEF Tick, TInv, TypeOK

\* A handler at work took a step of its own or was left alone.
LEMMA WorkerCases ==
    ASSUME TInv, [Next]_vars, NEW g \in Handlers, handler[g].pc # "idle"
    PROVE  \/ Await(g) \/ Fail(g)
           \/ handler'[g] = handler[g] /\ B(g)' = B(g)
<1>1. ASSUME NEW h \in Handlers, Await(h) \/ Fail(h), g # h
      PROVE  handler'[g] = handler[g] /\ B(g)' = B(g)
  BY <1>1, AwaitMoves, AwaitKeeps
<1>2. ASSUME NEW h \in Handlers, NEW c \in CallIds, NEW a \in ANumbers,
             NEW d \in BNumbers, Receive(h, c, a, d)
      PROVE  handler'[g] = handler[g] /\ B(g)' = B(g)
  BY <1>2, ReceiveKeeps DEF Receive, At
<1>3. Tick \/ (\E before \in 0..now : CleanupOldCalls(before)) \/ UNCHANGED vars
        => handler'[g] = handler[g] /\ B(g)' = B(g)
  BY DEF Tick, CleanupOldCalls, vars, B
<1>4. QED
  BY <1>1, <1>2, <1>3, NextCases

\* An alert is stored by a handler that goes on to flag its calls, or fails.
LEMMA NewAlertStep ==
    ASSUME TInv, [Next]_vars, NEW al \in alerts' \ alerts
    PROVE  \E h \in Handlers :
              /\ SaveAlert(h) \/ Fail(h)
              /\ handler[h].pc = "insert" /\ al = AlertOf(h)
              /\ alerts' = alerts \cup {AlertOf(h)}
<1>1. ASSUME NEW h \in Handlers, Await(h) \/ Fail(h)
      PROVE  /\ SaveAlert(h) \/ Fail(h)
             /\ handler[h].pc = "insert" /\ al = AlertOf(h)
             /\ alerts' = alerts \cup {AlertOf(h)}
  <2>1. InsertAlert(h)
    BY <1>1, AwaitWrites, WriteFacts
  <2>2. handler[h].pc = "insert" /\ al = AlertOf(h) /\ alerts' = alerts \cup {AlertOf(h)}
    BY <2>1 DEF InsertAlert, At
  <2>3. SaveAlert(h) \/ Fail(h)
    BY <1>1, <2>2 DEF Await, AddCaller, AddMember, ExpireWindow, Expire, CountCallers,
       SaveCall, InsertCall, CheckCooldown, GetCallers, FindCalls, FlagAsFraud, FlagCalls,
       SetCooldown, PutCooldown, At
  <2>4. QED
    BY <2>2, <2>3
<1>2. ASSUME NEW h \in Handlers, NEW c \in CallIds, NEW a \in ANumbers,
             NEW d \in BNumbers, Receive(h, c, a, d)
      PROVE  alerts' = alerts
  BY <1>2 DEF Receive, db
<1>3. Tick \/ (\E before \in 0..now : CleanupOldCalls(before)) \/ UNCHANGED vars
         => alerts' = alerts
  BY DEF Tick, CleanupOldCalls, vars, db
<1>4. QED
  BY <1>1, <1>2, <1>3, NextCases

\* No alert ends in the future.
EndsPast == \A al \in alerts : al.end <= now

LEMMA EndsPastStep == TInv /\ CheckedBefore /\ EndsPast /\ [Next]_vars => EndsPast'
<1> SUFFICES ASSUME TInv, CheckedBefore, EndsPast, [Next]_vars, NEW al \in alerts'
             PROVE  al.end <= now'
  BY DEF EndsPast
<1>1. al.end \in Nat
  BY StepTInv DEF TInv, TypeOK, AlertRow
<1>2. al \in alerts => al.end <= now
  BY DEF EndsPast
<1>3. al \notin alerts => al.end <= now
  BY NewAlert DEF CheckedBefore, AlertOf
<1>4. QED
  BY <1>1, <1>2, <1>3, TimeGrows

\* Two alerts for b are a cooldown apart.
Apart(b) ==
    \A x, y \in alerts :
        x.b = b /\ y.b = b /\ x.id # y.id =>
            x.end + Cooldown <= y.end \/ y.end + Cooldown <= x.end

\* What an alert for b is followed by: its cooldown, which its handler may be on the
\* way to write.
Cooled(b) ==
    \A al \in alerts : al.b = b =>
        \/ al.end + Cooldown <= cooldown[b]
        \/ \E h \in Handlers : Closing(h) /\ B(h) = b

\* A handler that collects the next alert for b began after all cooldowns so far.
ReadAfter(b) ==
    \A h \in Handlers, al \in alerts :
        Reading(h) /\ B(h) = b /\ al.b = b => al.end + Cooldown <= handler[h].end

Spaced == \A b \in BNumbers \ lost : Apart(b) /\ Cooled(b) /\ ReadAfter(b)

LEMMA FailLoses ==
    ASSUME TInv, NEW h \in Handlers, Fail(h) PROVE B(h) \in lost'
BY DEF Fail

\* The cooldown of b stays or is renewed from the present.
LEMMA CooldownMoves ==
    ASSUME TInv, [Next]_vars, NEW b \in BNumbers
    PROVE  cooldown'[b] = cooldown[b] \/ cooldown'[b] = now + Cooldown
<1>1. ASSUME NEW h \in Handlers, Await(h) \/ Fail(h)
      PROVE  cooldown'[b] = cooldown[b] \/ cooldown'[b] = now + Cooldown
  BY <1>1, AwaitWrites, WriteFacts DEF PutCooldown, TInv, TypeOK
<1>2. ASSUME NEW h \in Handlers, NEW c \in CallIds, NEW a \in ANumbers,
             NEW d \in BNumbers, Receive(h, c, a, d)
      PROVE  cooldown' = cooldown
  BY <1>2 DEF Receive, cache
<1>3. Tick \/ (\E before \in 0..now : CleanupOldCalls(before)) \/ UNCHANGED vars
         => cooldown' = cooldown
  BY DEF Tick, CleanupOldCalls, cache, vars
<1>4. QED
  BY <1>1, <1>2, <1>3, NextCases

LEMMA ApartStep ==
    ASSUME TInv, [Next]_vars, NEW b \in BNumbers, Apart(b), ReadAfter(b)
    PROVE  Apart(b)'
<1> SUFFICES ASSUME NEW x \in alerts', NEW y \in alerts', x.b = b, y.b = b, x.id # y.id
             PROVE  x.end + Cooldown <= y.end \/ y.end + Cooldown <= x.end
  BY DEF Apart
<1>1. ASSUME NEW old \in alerts, NEW new \in alerts' \ alerts, old.b = b, new.b = b
      PROVE  old.end + Cooldown <= new.end
  BY <1>1, NewAlertStep DEF ReadAfter, Reading, AlertOf
<1>2. ASSUME x \notin alerts, y \notin alerts PROVE x = y
  BY <1>2, NewAlertStep
<1>3. QED
  BY <1>1, <1>2 DEF Apart

LEMMA CooledStep ==
    ASSUME TInv, EndsPast, [Next]_vars, NEW b \in BNumbers, b \notin lost', Cooled(b)
    PROVE  Cooled(b)'
<1> SUFFICES ASSUME NEW al \in alerts', al.b = b
             PROVE  \/ al.end + Cooldown <= cooldown'[b]
                    \/ \E h \in Handlers : Closing(h)' /\ B(h)' = b
  BY DEF Cooled
<1>1. CASE al \notin alerts
  <2>1. PICK h \in Handlers : /\ SaveAlert(h) \/ Fail(h)
                              /\ handler[h].pc = "insert" /\ al = AlertOf(h)
    BY <1>1, NewAlertStep
  <2>2. B(h) = b
    BY <2>1 DEF AlertOf
  <2>3. SaveAlert(h)
    BY <2>1, <2>2, FailLoses
  <2>4. handler'[h].pc = "flag" /\ B(h)' = B(h)
    BY <2>3, AwaitTargets, AwaitKeeps DEF Await
  <2>5. QED
    BY <2>2, <2>4 DEF Closing
<1>2. CASE al \in alerts
  <2>1. /\ al.end \in Nat /\ al.end <= now /\ now \in Nat
        /\ cooldown[b] \in Nat /\ cooldown'[b] \in Nat /\ Cooldown \in Nat
    BY <1>2, StepTInv, EngineAssumption DEF EndsPast, TInv, TypeOK, AlertRow
  <2>2. CASE al.end + Cooldown <= cooldown[b]
    BY <2>1, <2>2, CooldownMoves
  <2>3. ASSUME NEW h \in Handlers, Closing(h), B(h) = b
        PROVE  \/ al.end + Cooldown <= cooldown'[b]
               \/ Closing(h)' /\ B(h)' = b
    <3>1. CASE handler'[h] = handler[h] /\ B(h)' = B(h)
      BY <2>3, <3>1 DEF Closing
    <3>2. CASE FlagAsFraud(h)
      BY <2>3, <3>2, AwaitTargets, AwaitKeeps DEF Await, Closing
    <3>3. CASE SetCooldown(h)
      <4>1. cooldown'[b] = now + Cooldown
        BY <2>3, <3>3 DEF SetCooldown, PutCooldown, TInv, TypeOK
      <4>2. QED
        BY <2>1, <4>1
    <3>4. CASE Fail(h)
      BY <2>3, <3>4, FailLoses
    <3>5. Await(h) => FlagAsFraud(h) \/ SetCooldown(h)
      BY <2>3 DEF Closing, Await, AddCaller, AddMember, ExpireWindow, Expire, CountCallers,
         SaveCall, InsertCall, CheckCooldown, GetCallers, FindCalls, SaveAlert, InsertAlert, At
    <3>6. QED
      BY <2>3, <3>1, <3>2, <3>3, <3>4, <3>5, WorkerCases DEF Closing
  <2>4. QED
    BY <1>2, <2>2, <2>3 DEF Cooled
<1>3. QED
  BY <1>1, <1>2

LEMMA ReadAfterStep ==
    ASSUME TInv, [Next]_vars, AlertsInTurn', NEW b \in BNumbers, b \notin lost',
           Cooled(b), ReadAfter(b)
    PROVE  ReadAfter(b)'
<1> SUFFICES ASSUME NEW g \in Handlers, NEW al \in alerts', Reading(g)', B(g)' = b, al.b = b
             PROVE  al.end + Cooldown <= handler'[g].end
  BY DEF ReadAfter
<1>a. Alerting(g, b)'
  BY DEF Reading, Alerting, Working
<1>1. CASE al \notin alerts
  <2>1. PICK h \in Handlers : /\ SaveAlert(h) \/ Fail(h)
                              /\ handler[h].pc = "insert" /\ al = AlertOf(h)
    BY <1>1, NewAlertStep
  <2>2. B(h) = b
    BY <2>1 DEF AlertOf
  <2>3. SaveAlert(h)
    BY <2>1, <2>2, FailLoses
  <2>4. handler'[h].pc = "flag" /\ B(h)' = b
    BY <2>2, <2>3, AwaitTargets, AwaitKeeps DEF Await
  <2>5. Alerting(h, b)' /\ g # h
    BY <2>4 DEF Alerting, Working, Reading
  <2>6. QED
    BY <1>a, <2>5 DEF AlertsInTurn
<1>2. CASE al \in alerts
  <2>1. CASE handler'[g] = handler[g] /\ B(g)' = B(g)
    BY <1>2, <2>1 DEF ReadAfter, Reading
  <2>2. CASE Await(g) \/ Fail(g)
    <3>1. B(g) = b /\ (CheckCooldown(g) \/ GetCallers(g) \/ FindCalls(g))
      BY <2>2, AwaitKeeps, AwaitTargets DEF Await, Reading
    <3>2. CASE CheckCooldown(g)
      <4>1. ~InCooldown(b) /\ handler'[g].end = now
        BY <3>1, <3>2, CheckFacts, ReturnFacts DEF CheckCooldown, TInv, Reading
      <4>2. al.end + Cooldown <= cooldown[b]
        <5>1. ASSUME NEW h \in Handlers, Closing(h), B(h) = b PROVE FALSE
          <6>1. g # h
            BY <3>2, <5>1 DEF CheckCooldown, Closing, At
          <6>2. handler'[h] = handler[h] /\ B(h)' = b
            BY <2>2, <5>1, <6>1, AwaitMoves, AwaitKeeps DEF Closing
          <6>3. Alerting(h, b)'
            BY <5>1, <6>2 DEF Alerting, Working, Closing
          <6>4. QED
            BY <1>a, <6>1, <6>3 DEF AlertsInTurn
        <5>2. QED
          BY <1>2, <5>1 DEF Cooled
      <4>3. al.end \in Nat /\ cooldown[b] \in Nat /\ now \in Nat
        BY <1>2 DEF TInv, TypeOK, AlertRow
      <4>4. QED
        BY <4>1, <4>2, <4>3, EngineAssumption DEF InCooldown
    <3>3. CASE GetCallers(g)
      <4>1. handler'[g].end = handler[g].end
        BY <2>2, <3>3, AwaitWrites, WorkerFacts, GetFacts DEF TInv
      <4>2. QED
        BY <1>2, <3>1, <3>3, <4>1 DEF ReadAfter, Reading, GetCallers, At
    <3>4. CASE FindCalls(g)
      <4>1. handler'[g].end = handler[g].end
        BY <3>4, FindFacts DEF TInv
      <4>2. QED
        BY <1>2, <3>1, <3>4, <4>1 DEF ReadAfter, Reading, FindCalls, At
    <3>5. QED
      BY <3>1, <3>2, <3>3, <3>4
  <2>3. QED
    BY <2>1, <2>2, HandlerCases DEF Reading
<1>3. QED
  BY <1>1, <1>2

LEMMA LostGrows ==
    ASSUME TInv, [Next]_vars PROVE lost \subseteq lost'
<1>1. ASSUME NEW h \in Handlers, Await(h) \/ Fail(h) PROVE lost \subseteq lost'
  BY <1>1, LostFacts
<1>2. QED
  BY <1>1, NextCases DEF Receive, Tick, CleanupOldCalls, vars

LEMMA SpacedStep ==
    TInv /\ EndsPast /\ Spaced /\ [Next]_vars /\ AlertsInTurn' => Spaced'
<1> SUFFICES ASSUME TInv, EndsPast, Spaced, [Next]_vars, AlertsInTurn',
                    NEW b \in BNumbers, b \notin lost'
             PROVE  Apart(b)' /\ Cooled(b)' /\ ReadAfter(b)'
  BY DEF Spaced
<1>1. Apart(b) /\ Cooled(b) /\ ReadAfter(b)
  BY LostGrows DEF Spaced
<1>2. QED
  BY <1>1, ApartStep, CooledStep, ReadAfterStep

LEMMA SpacedSound == TInv /\ Spaced => NoAlertSpam
BY DEF TInv, TypeOK, AlertRow, Spaced, Apart, NoAlertSpam

----------------------------------------------------------------------------
(* What EvidenceLedger needs to know of the handlers.                      *)

\* The row of a call is settled: its handler has written it, or will not.
SettledCall(c) ==
    call[c] # NoCall /\ \A h \in Handlers : handler[h].call = c => handler[h].pc \notin Early

CallsPast == \A c \in CallIds : call[c] # NoCall => call[c].at <= now

\* A call raises its alert once, after its row was settled.
RaisedOnce ==
    /\ \A al \in alerts : SettledCall(al.id)
    /\ \A h \in Handlers, al \in alerts :
          handler[h].pc \notin {"idle", "flag", "setcooldown"} => al.id # handler[h].call

\* What a handler has collected for its alert.
Collected ==
    \A h \in Handlers :
        /\ Reading(h) => call[handler[h].call].at <= handler[h].end
        /\ handler[h].pc \in {"select", "insert"} => handler[h].callers \subseteq CallersOf(B(h))
        /\ handler[h].pc = "insert" => \A c \in handler[h].calls : SettledCall(c)

\* A settled row stays settled.
LEMMA SettledKept ==
    ASSUME TInv, [Next]_vars, NEW c \in CallIds, SettledCall(c)
    PROVE  SettledCall(c)'
<1>1. call'[c] # NoCall
  BY CallsKept DEF SettledCall
<1>2. ASSUME NEW g \in Handlers, handler'[g].call = c, handler'[g].pc \in Early PROVE FALSE
  <2>1. ASSUME NEW h \in Handlers, Await(h) \/ Fail(h) PROVE FALSE
    <3>1. handler[g].call = c /\ handler[g].pc \in Early
      BY <1>2, <2>1, AwaitKeeps, AwaitMoves DEF Early
    <3>2. QED
      BY <3>1 DEF SettledCall
  <2>2. ASSUME NEW h \in Handlers, NEW d \in CallIds, NEW a \in ANumbers,
               NEW b \in BNumbers, Receive(h, d, a, b)
        PROVE  FALSE
    <3>1. g # h => handler'[g] = handler[g]
      BY <2>2, ReceiveFacts DEF TInv
    <3>2. g = h => c = d
      BY <1>2, <2>2, ReceiveFacts DEF TInv
    <3>3. QED
      BY <1>2, <2>2, <3>1, <3>2 DEF SettledCall, Receive
  <2>3. ASSUME Tick \/ (\E before \in 0..now : CleanupOldCalls(before)) \/ UNCHANGED vars
        PROVE  FALSE
    <3>1. handler' = handler
      BY <2>3 DEF Tick, CleanupOldCalls, vars
    <3>2. QED
      BY <1>2, <3>1 DEF SettledCall
  <2>4. QED
    BY <2>1, <2>2, <2>3, NextCases
<1>3. QED
  BY <1>1, <1>2 DEF SettledCall

\* The call of a handler that is past its save is settled, and so is a stored one.
LEMMA SettledLate ==
    ASSUME TInv, NEW h \in Handlers, handler[h].pc \notin Early \cup {"idle"}
    PROVE  SettledCall(handler[h].call)
<1>1. handler[h].call \in CallIds /\ call[handler[h].call] # NoCall
  BY NoCallAssumption DEF TInv, HandlersOK
<1>2. ASSUME NEW g \in Handlers, handler[g].call = handler[h].call, handler[g].pc \in Early
      PROVE  FALSE
  <2>1. g # h /\ handler[g].pc # "idle"
    BY <1>2 DEF Early
  <2>2. QED
    BY <1>2, <2>1 DEF TInv, HandlersOK
<1>3. QED
  BY <1>1, <1>2 DEF SettledCall

LEMMA SettledSaved ==
    ASSUME TInv, NEW c \in saved PROVE SettledCall(c)
BY NoCallAssumption DEF TInv, RowsOK, SettledCall, Early

LEMMA CallsPastStep == TInv /\ CallsPast /\ [Next]_vars => CallsPast'
<1> SUFFICES ASSUME TInv, CallsPast, [Next]_vars, NEW c \in CallIds, call'[c] # NoCall
             PROVE  call'[c].at <= now'
  BY DEF CallsPast
<1>1. now \in Nat /\ now' \in Nat /\ now <= now'
  BY TimeGrows
<1>2. CASE call[c] # NoCall
  <2>1. call'[c] = call[c] /\ call[c].at \in Nat /\ call[c].at <= now
    BY <1>2, CallsKept DEF CallsPast, TInv, TypeOK, CallRow
  <2>2. QED
    BY <1>1, <2>1
<1>3. CASE call[c] = NoCall
  <2>1. ASSUME NEW h \in Handlers, Await(h) \/ Fail(h) PROVE FALSE
    BY <1>3, <2>1, AwaitWrites
  <2>2. ASSUME NEW h \in Handlers, NEW d \in CallIds, NEW a \in ANumbers,
               NEW b \in BNumbers, Receive(h, d, a, b)
        PROVE  call'[c].at = now
    <3>1. call' = [call EXCEPT ![d] = [a |-> a, b |-> b, at |-> now]]
      BY <2>2 DEF Receive
    <3>2. QED
      BY <1>3, <3>1 DEF TInv, TypeOK
  <2>3. ~(Tick \/ (\E before \in 0..now : CleanupOldCalls(before)) \/ UNCHANGED vars)
    BY <1>3 DEF Tick, CleanupOldCalls, vars
  <2>4. QED
    BY <1>1, <2>1, <2>2, <2>3, NextCases
<1>4. QED
  BY <1>2, <1>3

LEMMA RaisedOnceStep == TInv /\ RaisedOnce /\ [Next]_vars => RaisedOnce'
<1> SUFFICES ASSUME TInv, RaisedOnce, [Next]_vars, NEW al \in alerts'
             PROVE  /\ SettledCall(al.id)'
                    /\ \A g \in Handlers :
                          handler'[g].pc \notin {"idle", "flag", "setcooldown"}
                             => al.id # handler'[g].call
  BY DEF RaisedOnce
<1>0. al.id \in CallIds
  BY StepTInv DEF TInv, TypeOK, AlertRow
<1>1. SettledCall(al.id)
  <2>1. CASE al \in alerts
    BY <2>1 DEF RaisedOnce
  <2>2. CASE al \notin alerts
    BY <2>2, NewAlertStep, SettledLate DEF AlertOf, Early
  <2>3. QED
    BY <2>1, <2>2
<1>2. SettledCall(al.id)'
  BY <1>0, <1>1, SettledKept
<1>3. ASSUME NEW g \in Handlers, handler'[g].pc \notin {"idle", "flag", "setcooldown"},
             al.id = handler'[g].call
      PROVE  FALSE
  <2>0. handler'[g].pc # "sadd"
    BY <1>2, <1>3 DEF SettledCall, Early
  <2>1. handler[g].call = handler'[g].call /\ handler[g].pc # "idle"
    BY <1>3, <2>0, HandlerCases, AwaitKeeps
  <2>2. CASE al \in alerts
    <3>1. handler[g].pc \in {"flag", "setcooldown"}
      BY <1>3, <2>1, <2>2 DEF RaisedOnce
    <3>2. handler'[g].pc \in {"flag", "setcooldown", "idle"}
      BY <3>1, WorkerCases, AwaitTargets
      DEF Await, AddCaller, AddMember, ExpireWindow, Expire, CountCallers, SaveCall, InsertCall,
          CheckCooldown, GetCallers, FindCalls, SaveAlert, InsertAlert, At
    <3>3. QED
      BY <1>3, <3>2
  <2>3. CASE al \notin alerts
    <3>1. PICK h \in Handlers : /\ SaveAlert(h) \/ Fail(h)
                                /\ handler[h].pc = "insert" /\ al = AlertOf(h)
      BY <2>3, NewAlertStep
    <3>2. g = h
      BY <1>3, <2>1, <3>1 DEF AlertOf, TInv, HandlersOK
    <3>3. handler'[g].pc \in {"flag", "idle"}
      BY <3>1, <3>2, AwaitTargets DEF Await
    <3>4. QED
      BY <1>3, <3>3
  <2>4. QED
    BY <2>2, <2>3
<1>4. QED
  BY <1>2, <1>3

LEMMA CollectedStep == TInv /\ Justified /\ CallsPast /\ Collected /\ [Next]_vars => Collected'
<1> SUFFICES ASSUME TInv, Justified, CallsPast, Collected, [Next]_vars,
                    NEW g \in Handlers, Reading(g)'
             PROVE  /\ call'[handler'[g].call].at <= handler'[g].end
                    /\ handler'[g].pc \in {"select", "insert"} =>
                          handler'[g].callers \subseteq CallersOf(B(g))'
                    /\ handler'[g].pc = "insert" =>
                          \A c \in handler'[g].calls : SettledCall(c)'
  BY DEF Collected, Reading
<1>0. /\ handler[g].pc # "idle" /\ handler[g].call \in CallIds
      /\ handler'[g].call = handler[g].call /\ B(g)' = B(g)
      /\ call'[handler[g].call] = call[handler[g].call]
      /\ call[handler[g].call] \in CallRow
  <2>1. handler[g].pc # "idle" /\ handler'[g].call = handler[g].call /\ B(g)' = B(g)
    BY HandlerCases, AwaitKeeps DEF Reading
  <2>2. handler[g].call \in CallIds /\ call[handler[g].call] \in CallRow
    BY <2>1 DEF TInv, HandlersOK
  <2>3. QED
    BY <2>1, <2>2, CallsKept, NoCallAssumption
<1>1. PICK b, callers, calls : b = B(g) /\ callers = handler'[g].callers /\ calls = handler'[g].calls
  OBVIOUS
<1>2. calls \subseteq CallIds
  BY <1>1, StepTInv DEF TInv, TypeOK, LocalState
<1>3. /\ call[handler[g].call].at <= handler'[g].end
      /\ handler'[g].pc \in {"select", "insert"} => callers \subseteq CallersOf(b)
      /\ handler'[g].pc = "insert" => \A c \in calls : SettledCall(c)
  <2>1. CASE handler'[g] = handler[g]
    BY <1>1, <2>1 DEF Collected, Reading
  <2>2. CASE Await(g) \/ Fail(g)
    <3>1. CheckCooldown(g) \/ GetCallers(g) \/ FindCalls(g)
      BY <2>2, AwaitTargets DEF Await, Reading
    <3>2. CASE CheckCooldown(g)
      <4>1. handler'[g].end = now /\ handler'[g].pc = "smembers"
        BY <3>2, CheckFacts, ReturnFacts DEF CheckCooldown, TInv, Reading
      <4>2. call[handler[g].call].at <= now
        BY <1>0, NoCallAssumption DEF CallsPast
      <4>3. QED
        BY <4>1, <4>2
    <3>3. CASE GetCallers(g)
      <4>1. /\ handler'[g].pc = "select" /\ handler'[g].end = handler[g].end
            /\ handler'[g].callers = window[B(g)].members
        BY <2>2, <3>3, AwaitWrites, WorkerFacts, GetFacts DEF TInv
      <4>2. handler[g].pc = "smembers"
        BY <3>3 DEF GetCallers, At
      <4>3. QED
        BY <1>1, <4>1, <4>2, WorkerFacts DEF Justified, Collected, Reading
    <3>4. CASE FindCalls(g)
      <4>1. /\ handler'[g].end = handler[g].end
            /\ handler'[g].callers = handler[g].callers
            /\ handler'[g].calls = CallsInWindow(B(g), handler[g].end)
        BY <3>4, FindFacts DEF TInv
      <4>2. handler[g].pc = "select"
        BY <3>4 DEF FindCalls, At
      <4>3. \A c \in calls : SettledCall(c)
        BY <1>1, <4>1, SettledSaved DEF CallsInWindow
      <4>4. QED
        BY <1>1, <4>1, <4>2, <4>3 DEF Collected, Reading
    <3>5. QED
      BY <3>1, <3>2, <3>3, <3>4
  <2>3. QED
    BY <2>1, <2>2, HandlerCases DEF Reading
<1>4. /\ handler'[g].pc \in {"select", "insert"} => callers \subseteq CallersOf(b)'
      /\ handler'[g].pc = "insert" => \A c \in calls : SettledCall(c)'
  BY <1>2, <1>3, CallersGrow, SettledKept
<1>5. CallersOf(b)' = CallersOf(B(g))'
  BY <1>0, <1>1 DEF CallersOf
<1>6. QED
  BY <1>0, <1>1, <1>3, <1>4, <1>5

----------------------------------------------------------------------------
(* The inductive invariant.                                                *)

\* The inductive invariant: the types, where each handler stands with its call,
\* its alert and its reading of the cooldown, and the properties these carry.
IInv ==
    /\ TInv
    /\ AlertStored
    /\ SuppressedOnlyAfterAlert
    /\ Justified
    /\ Evidence
    /\ CheckedBefore
    /\ WindowsExpire
    /\ TTLsBounded
    /\ AttackCovered

LEMMA InitIInv == Init => IInv
<1> SUFFICES ASSUME Init PROVE IInv
  OBVIOUS
<1>1. TInv
  BY InitTInv
<1>2. \A h \in Handlers : handler[h].pc = "idle"
  BY DEF Init, Idle
<1>3. \A b \in BNumbers : window[b].members = {} /\ DistinctCallers(b) = 0 /\ ~InCooldown(b)
  BY FS_EmptySet DEF Init, NoWindow, DistinctCallers, InCooldown, Never
<1>4. AlertStored /\ SuppressedOnlyAfterAlert /\ CheckedBefore
  BY <1>2, <1>3 DEF AlertStored, SuppressedOnlyAfterAlert, CheckedBefore
<1>5. Justified
  BY <1>2, <1>3 DEF Init, Justified, AlertJustified
<1>6. Evidence
  BY <1>2 DEF Init, Evidence
<1>7. WindowsExpire
  BY <1>3 DEF WindowsExpire
<1>8. AttackCovered
  BY <1>3, EngineAssumption DEF AttackCovered, ReachesThreshold
<1>9. TTLsBounded
  BY EngineAssumption DEF Init, TTLsBounded, NoWindow, Never
<1>10. QED
  BY <1>1, <1>4, <1>5, <1>6, <1>7, <1>8, <1>9 DEF IInv

LEMMA StepIInv == IInv /\ [Next]_vars => IInv'
<1> SUFFICES ASSUME IInv, [Next]_vars PROVE IInv'
  OBVIOUS
<1>1. TInv' /\ AlertStored' /\ SuppressedOnlyAfterAlert'
  BY StepTInv, AlertStoredStep, SuppressedStep DEF IInv
<1>2. Justified' /\ Evidence' /\ CheckedBefore'
  BY JustifiedStep, EvidenceStep, CheckedBeforeStep DEF IInv
<1>3. WindowsExpire' /\ TTLsBounded' /\ AttackCovered'
  BY WindowsExpireStep, TTLsBoundedStep, AttackCoveredStep DEF IInv
<1>4. QED
  BY <1>1, <1>2, <1>3 DEF IInv

\* The same with what the refinement of EvidenceLedger needs.
LedgerInv == IInv /\ EndsPast /\ CallsPast /\ RaisedOnce /\ Collected

LEMMA InitLedgerInv == Init => LedgerInv
<1>1. Init => EndsPast /\ CallsPast /\ RaisedOnce /\ Collected
  BY DEF Init, Idle, EndsPast, CallsPast, RaisedOnce, Collected, Reading
<1>2. QED
  BY <1>1, InitIInv DEF LedgerInv

LEMMA StepLedgerInv == LedgerInv /\ [Next]_vars => LedgerInv'
BY StepIInv, EndsPastStep, CallsPastStep, RaisedOnceStep, CollectedStep DEF LedgerInv, IInv

----------------------------------------------------------------------------
(* Every step of the engine is a step of EvidenceLedger, or changes nothing *)
(* the ledger shows.                                                       *)

Due(c) == \E h \in Handlers : handler[h].call = c /\ handler[h].pc \in Early

RowsAre == \A c \in CallIds :
    RowOf(c) = IF call[c] = NoCall THEN "none"
               ELSE IF c \in saved THEN "stored"
               ELSE IF Due(c) THEN "due" ELSE "gone"

Claiming == {handler[h].call : h \in {g \in Handlers : At(g, "flag")}}

LEMMA RowsAreSo == TInv => RowsAre
<1> SUFFICES ASSUME TInv, NEW c \in CallIds
             PROVE  RowOf(c) = IF call[c] = NoCall THEN "none"
                               ELSE IF c \in saved THEN "stored"
                               ELSE IF Due(c) THEN "due" ELSE "gone"
  BY DEF RowsAre
<1>1. c \in saved => call[c] # NoCall /\ ~Due(c)
  BY NoCallAssumption DEF TInv, RowsOK, Due, Early
<1>2. Due(c) => call[c] # NoCall
  BY NoCallAssumption DEF TInv, HandlersOK, Due, Early
<1>3. QED
  BY <1>1, <1>2 DEF RowOf, Due, Early

LEMMA RowsStaySo == TInv /\ [Next]_vars => RowsAre'
BY RowsAreSo, StepTInv, PTL

LEMMA SettledRows ==
    ASSUME TInv, NEW c \in CallIds
    PROVE  SettledCall(c) <=> RowOf(c) \in {"stored", "gone"}
<1>1. SettledCall(c) <=> call[c] # NoCall /\ ~Due(c)
  BY DEF SettledCall, Due
<1>2. c \in saved => ~Due(c)
  BY DEF TInv, RowsOK, Due, Early
<1>3. QED
  BY <1>1, <1>2, RowsAreSo DEF RowsAre

LEMMA LedgerCallers ==
    ASSUME TInv, NEW b PROVE Ledger!Callers(b) = CallersOf(b)
BY RowsAreSo DEF RowsAre, Ledger!Callers, CallersOf

\* What a handler's step changes of Due and of Claiming is about its own call.
LEMMA OwnCall ==
    ASSUME TInv, NEW h \in Handlers, Await(h) \/ Fail(h), NEW d, d = handler[h].call
    PROVE  /\ d \in CallIds /\ call[d] # NoCall
           /\ Due(d) <=> handler[h].pc \in Early
           /\ Due(d)' <=> handler'[h].pc \in Early
           /\ d \in Claiming <=> handler[h].pc = "flag"
           /\ d \in Claiming' <=> handler'[h].pc = "flag"
           /\ \A c \in CallIds : c # d => (Due(c)' <=> Due(c))
           /\ Claiming' \ {d} = Claiming \ {d}
<1>1. handler[h].pc # "idle" /\ d \in CallIds /\ call[d] \in CallRow
  BY AwaitWrites, WorkerFacts
<1>2. \A g \in Handlers : handler[g].pc # "idle" /\ handler[g].call = d => g = h
  BY <1>1 DEF TInv, HandlersOK
<1>3. /\ \A g \in Handlers \ {h} : handler'[g] = handler[g]
      /\ handler'[h].pc # "idle" => handler'[h].call = d
  BY AwaitMoves
<1>4. Due(d) <=> handler[h].pc \in Early
  BY <1>2 DEF Due, Early
<1>5. Due(d)' <=> handler'[h].pc \in Early
  BY <1>2, <1>3 DEF Due, Early
<1>6. d \in Claiming <=> handler[h].pc = "flag"
  BY <1>2 DEF Claiming, At
<1>7. d \in Claiming' <=> handler'[h].pc = "flag"
  BY <1>2, <1>3 DEF Claiming, At
<1>8. \A c \in CallIds : c # d => (Due(c)' <=> Due(c))
  BY <1>3 DEF Due, Early
<1>9. Claiming' \ {d} = Claiming \ {d}
  BY <1>3 DEF Claiming, At
<1>10. QED
  BY <1>1, <1>4, <1>5, <1>6, <1>7, <1>8, <1>9, NoCallAssumption

\* A step between two awaits that writes no row of the database.
LEMMA QuietStep ==
    ASSUME TInv, [Next]_vars, NEW h \in Handlers, Await(h) \/ Fail(h), UNCHANGED db,
           handler[h].pc \in Early <=> handler'[h].pc \in Early,
           handler[h].pc = "flag" <=> handler'[h].pc = "flag"
    PROVE  UNCHANGED Ledger!vars
<1>1. PICK d : d = handler[h].call
  OBVIOUS
<1>2. \A c \in CallIds : Due(c)' <=> Due(c)
  BY <1>1, OwnCall
<1>3. Claiming' = Claiming
  BY <1>1, OwnCall
<1>4. UNCHANGED <<now, call, saved, flaggedBy, alerts>>
  BY AwaitWrites DEF db
<1>5. \A c \in CallIds : RowOf(c)' = RowOf(c)
  BY <1>2, <1>4, RowsAreSo, RowsStaySo DEF RowsAre
<1>6. QED
  BY <1>3, <1>4, <1>5 DEF Ledger!vars, Claiming

\* The row of the handler's call is written, or its handler is gone.
LEMMA SettleStep ==
    ASSUME TInv, [Next]_vars, NEW h \in Handlers, Await(h) \/ Fail(h),
           handler[h].pc \in Early, handler'[h].pc \notin Early \cup {"flag"},
           InsertCall(h) \/ UNCHANGED db
    PROVE  \E c \in CallIds : Ledger!Settle(c)
<1>1. PICK d : d = handler[h].call
  OBVIOUS
<1>2. d \in CallIds /\ call[d] # NoCall /\ Due(d) /\ ~Due(d)' /\ d \notin saved
  BY <1>1, OwnCall DEF TInv, RowsOK, Early
<1>3. \A c \in CallIds : c # d => (Due(c)' <=> Due(c))
  BY <1>1, OwnCall
<1>4. Claiming' = Claiming
  BY <1>1, OwnCall DEF Early
<1>5. UNCHANGED <<now, call, flaggedBy, alerts>> /\ (saved' = saved \cup {d} \/ saved' = saved)
  BY <1>1, <1>2, AwaitWrites DEF InsertCall, db, TInv, TypeOK, RowsOK
<1>6. RowOf(d) = "due" /\ RowOf(d)' \in {"stored", "gone"}
  BY <1>2, <1>5, RowsAreSo, RowsStaySo DEF RowsAre
<1>7. \A c \in CallIds : c # d => RowOf(c)' = RowOf(c)
  BY <1>3, <1>5, RowsAreSo, RowsStaySo DEF RowsAre
<1>8. PICK to : to = RowOf(d)'
  OBVIOUS
<1>9. [c \in CallIds |-> RowOf(c)]' = [[c \in CallIds |-> RowOf(c)] EXCEPT ![d] = to]
  BY <1>2, <1>7, <1>8
<1>10. Ledger!Settle(d)
  BY <1>2, <1>4, <1>5, <1>6, <1>8, <1>9 DEF Ledger!Settle, Claiming
<1>11. QED
  BY <1>2, <1>10

LEMMA RaiseStep ==
    ASSUME LedgerInv, [Next]_vars, NEW h \in Handlers, SaveAlert(h) \/ Fail(h), InsertAlert(h)
    PROVE  \E al \in alerts' \ alerts : Ledger!Raise(al)
<1> DEFINE d == handler[h].call
           al == AlertOf(h)
<1>0. TInv /\ (Await(h) \/ Fail(h))
  BY DEF LedgerInv, IInv, Await
<1>1. handler[h].pc = "insert" /\ d \in CallIds /\ call[d] \in CallRow /\ B(h) \in BNumbers
  BY <1>0, WorkerFacts DEF InsertAlert, At, LedgerInv, IInv
<1>2. Ledger!Founded(al)
  <2>1. SettledCall(d) /\ Ledger!Settled(d)
    BY <1>1, SettledLate, SettledRows DEF Early, LedgerInv, IInv, Ledger!Settled
  <2>2. \A other \in alerts : other.id # d
    BY <1>1 DEF LedgerInv, RaisedOnce
  <2>3. handler[h].end \in call[d].at..now
    <3>1. call[d].at <= handler[h].end /\ handler[h].end <= now
      BY <1>1 DEF LedgerInv, IInv, Collected, Reading, CheckedBefore
    <3>2. call[d].at \in Nat /\ handler[h].end \in Nat /\ now \in Nat
      BY <1>1 DEF CallRow, LedgerInv, IInv, TInv, TypeOK, LocalState
    <3>3. QED
      BY <3>1, <3>2
  <2>4. Ledger!Cardinality(Ledger!Callers(B(h))) >= Threshold
    BY <1>1, LedgerCallers DEF LedgerInv, IInv, Justified, Enough, Cardinality, Ledger!Cardinality
  <2>5. handler[h].callers \subseteq Ledger!Callers(B(h))
    BY <1>1, LedgerCallers DEF LedgerInv, IInv, Collected
  <2>6. handler[h].calls \subseteq Ledger!Listable(B(h), handler[h].end)
    <3>1. handler[h].calls \subseteq CallIds
      BY DEF LedgerInv, IInv, TInv, TypeOK, LocalState
    <3>2. \A c \in handler[h].calls : Ledger!Settled(c)
      BY <1>1, <3>1, SettledRows DEF LedgerInv, IInv, Collected, Ledger!Settled
    <3>3. Covers(B(h), handler[h].end, handler[h].calls)
      BY <1>1 DEF LedgerInv, IInv, Evidence
    <3>4. QED
      BY <3>1, <3>2, <3>3 DEF Covers, Ledger!Listable
  <2>7. B(h) = call[d].b
    BY DEF B
  <2>8. QED
    BY <2>1, <2>2, <2>3, <2>4, <2>5, <2>6, <2>7 DEF AlertOf, Ledger!Founded
<1>3. al \in alerts' \ alerts /\ alerts' = alerts \cup {al}
  BY <1>1 DEF InsertAlert, LedgerInv, RaisedOnce, AlertOf
<1>4. UNCHANGED <<now, call, saved, flaggedBy>>
  BY <1>0, AwaitWrites DEF InsertAlert
<1>5. PICK e : e = handler[h].call
  OBVIOUS
<1>6. \A c \in CallIds : RowOf(c)' = RowOf(c)
  <2>1. handler'[h].pc \notin Early
    BY <1>0, <1>1, AwaitMoves DEF Early, LedgerInv, IInv
  <2>2. \A c \in CallIds : Due(c)' <=> Due(c)
    BY <1>0, <1>1, <1>5, <2>1, OwnCall DEF Early, LedgerInv, IInv
  <2>3. QED
    BY <1>4, <2>2, RowsAreSo, RowsStaySo DEF RowsAre, LedgerInv, IInv
<1>7. Claiming' \in {Claiming, Claiming \cup {al.id}}
  <2>1. e \notin Claiming /\ Claiming' \ {e} = Claiming \ {e}
    BY <1>0, <1>1, <1>5, OwnCall DEF LedgerInv, IInv
  <2>2. al.id = e
    BY <1>5 DEF AlertOf
  <2>3. QED
    BY <2>1, <2>2
<1>8. PICK x : x = al
  OBVIOUS
<1>9. Ledger!Raise(x)
  BY <1>2, <1>3, <1>4, <1>6, <1>7, <1>8 DEF Ledger!Raise, Claiming
<1>10. QED
  BY <1>3, <1>8, <1>9

LEMMA ClaimStep ==
    ASSUME LedgerInv, [Next]_vars, NEW h \in Handlers, FlagAsFraud(h) \/ Fail(h),
           handler[h].pc = "flag", FlagCalls(h) \/ UNCHANGED db
    PROVE  \/ \E al \in alerts : Ledger!Claim(al)
           \/ \E id \in Claiming : Ledger!GiveUp(id)
<1>0. TInv /\ (Await(h) \/ Fail(h))
  BY DEF LedgerInv, IInv, Await
<1>1. PICK d : d = handler[h].call
  OBVIOUS
<1>2. PICK al : al = AlertOf(h)
  OBVIOUS
<1>3. handler'[h].pc \notin Early \cup {"flag"}
  <2>1. handler'[h].pc \in {"setcooldown", "idle"}
    BY <1>0, AwaitTargets
  <2>2. QED
    BY <2>1 DEF Early
<1>4. d \in Claiming /\ d \notin Claiming' /\ Claiming' = Claiming \ {d}
  BY <1>0, <1>1, <1>3, OwnCall
<1>5. UNCHANGED <<now, call, saved, alerts>>
  BY <1>0, AwaitWrites DEF FlagCalls, db
<1>6. \A c \in CallIds : RowOf(c)' = RowOf(c)
  <2>1. \A c \in CallIds : Due(c)' <=> Due(c)
    BY <1>0, <1>1, <1>3, OwnCall DEF Early
  <2>2. QED
    BY <1>0, <1>5, <2>1, RowsAreSo, RowsStaySo DEF RowsAre
<1>7. CASE FlagCalls(h)
  <2>1. al \in alerts /\ al.id = d /\ al.calls = handler[h].calls
    BY <1>1, <1>2 DEF AlertOf, LedgerInv, IInv, AlertStored
  <2>2. flaggedBy' = [c \in CallIds |-> IF c \in al.calls /\ RowOf(c) = "stored"
                                        THEN al.id ELSE flaggedBy[c]]
    <3>1. \A c \in CallIds : c \in saved <=> RowOf(c) = "stored"
      BY <1>0, RowsAreSo, NoCallAssumption DEF RowsAre, TInv, TypeOK, RowsOK
    <3>2. QED
      BY <1>1, <1>7, <2>1, <3>1 DEF FlagCalls
  <2>3. Ledger!Claim(al)
    BY <1>4, <1>5, <1>6, <2>1, <2>2 DEF Ledger!Claim, Claiming
  <2>4. QED
    BY <2>1, <2>3
<1>8. CASE UNCHANGED db
  <2>1. Ledger!GiveUp(d)
    BY <1>4, <1>5, <1>6, <1>8 DEF Ledger!GiveUp, Claiming, db
  <2>2. QED
    BY <1>4, <2>1
<1>9. QED
  BY <1>7, <1>8

LEMMA ReceiveStep ==
    ASSUME TInv, [Next]_vars, NEW h \in Handlers, NEW c \in CallIds, NEW a \in ANumbers,
           NEW b \in BNumbers, Receive(h, c, a, b)
    PROVE  Ledger!Receive(c)
<1>1. /\ handler[h].pc = "idle" /\ handler'[h].pc = "sadd" /\ handler'[h].call = c
      /\ \A g \in Handlers \ {h} : handler'[g] = handler[g]
  BY ReceiveFacts DEF TInv, Receive, At
<1>2. \A d \in CallIds : d # c => (Due(d)' <=> Due(d))
  BY <1>1 DEF Due, Early
<1>3. Due(c)' /\ Claiming' = Claiming
  BY <1>1 DEF Due, Early, Claiming, At
<1>4. call[c] = NoCall /\ c \notin saved /\ call'[c] # NoCall
  BY ReceiveFacts, NoCallAssumption DEF TInv, RowsOK, Receive
<1>5. \A d \in CallIds : d # c => call'[d] = call[d]
  BY ReceiveFacts DEF TInv
<1>6. UNCHANGED <<now, saved, flaggedBy, alerts>>
      /\ call' = [call EXCEPT ![c] = [a |-> a, b |-> b, at |-> now]]
  BY DEF Receive, db
<1>7. \A d \in CallIds : d # c => RowOf(d)' = RowOf(d)
  BY <1>2, <1>5, <1>6, RowsAreSo, RowsStaySo DEF RowsAre
<1>8. RowOf(c) = "none" /\ RowOf(c)' = "due"
  BY <1>3, <1>4, <1>6, RowsAreSo, RowsStaySo DEF RowsAre
<1>9. QED
  BY <1>3, <1>6, <1>7, <1>8 DEF Ledger!Receive, Claiming

LEMMA RemoveStep ==
    ASSUME TInv, [Next]_vars, NEW before \in 0..now, CleanupOldCalls(before)
    PROVE  (\E old \in SUBSET Ledger!Removable : Ledger!Remove(old)) \/ UNCHANGED Ledger!vars
<1>1. UNCHANGED <<now, call, flaggedBy, alerts, handler>>
  BY DEF CleanupOldCalls
<1>2. Claiming' = Claiming /\ \A c \in CallIds : Due(c)' <=> Due(c)
  BY <1>1 DEF Claiming, Due, At
<1>3. PICK old : old = saved \ saved'
  OBVIOUS
<1>4. /\ old \in SUBSET CallIds
      /\ \A c \in old : /\ c \in saved /\ c \notin saved' /\ flaggedBy[c] = NoAlert
                        /\ call[c].at < now /\ call[c] # NoCall /\ ~Due(c)
  <2>1. old \in SUBSET CallIds /\ saved \subseteq CallIds
    BY <1>3 DEF TInv, TypeOK
  <2>2. ASSUME NEW c \in old PROVE flaggedBy[c] = NoAlert /\ call[c].at < before
    <3>1. c \in saved /\ call[c].at \in Nat /\ before \in Nat
      BY <1>3 DEF TInv, TypeOK, RowsOK, CallRow
    <3>2. QED
      BY <1>3, <3>1 DEF CleanupOldCalls
  <2>3. ASSUME NEW c \in old PROVE call[c].at \in Nat /\ call[c] # NoCall /\ ~Due(c)
    BY <1>3, NoCallAssumption DEF TInv, RowsOK, CallRow, Due, Early
  <2>4. now \in Nat
    BY DEF TInv, TypeOK
  <2>5. QED
    BY <1>3, <2>1, <2>2, <2>3, <2>4
<1>5. \A c \in CallIds : c \notin old => (c \in saved' <=> c \in saved)
  BY <1>3 DEF CleanupOldCalls
<1>6. \A c \in CallIds : RowOf(c)' = IF c \in old THEN "gone" ELSE RowOf(c)
  BY <1>1, <1>2, <1>4, <1>5, RowsAreSo, RowsStaySo DEF RowsAre
<1>7. CASE old = {}
  BY <1>1, <1>2, <1>6, <1>7 DEF Ledger!vars, Claiming
<1>8. CASE old # {}
  <2>1. \A c \in old : RowOf(c) = "stored"
    BY <1>4, RowsAreSo DEF RowsAre
  <2>2. old \subseteq Ledger!Removable
    BY <1>4, <2>1 DEF Ledger!Removable
  <2>3. Ledger!Remove(old)
    BY <1>1, <1>2, <1>6, <1>8 DEF Ledger!Remove, Claiming
  <2>4. QED
    BY <2>2, <2>3
<1>9. QED
  BY <1>7, <1>8

LEMMA TickStep ==
    ASSUME Tick PROVE Ledger!Tick
<1>1. UNCHANGED <<call, saved, flaggedBy, alerts, handler>> /\ now < MaxTime /\ now' = now + 1
  BY DEF Tick, db
<1>2. \A c \in CallIds : RowOf(c)' = RowOf(c)
  BY <1>1 DEF RowOf
<1>3. Claiming' = Claiming
  BY <1>1 DEF Claiming, At
<1>4. QED
  BY <1>1, <1>2, <1>3 DEF Ledger!Tick, Claiming

\* The step of a handler, by where it stands.
LEMMA HandlerStep ==
    ASSUME LedgerInv, [Next]_vars, NEW h \in Handlers, Await(h) \/ Fail(h)
    PROVE  [Ledger!Next]_(Ledger!vars)
<1>0. TInv
  BY DEF LedgerInv, IInv
<1>1. handler[h].pc \in Steps \ {"idle"}
  BY <1>0, AwaitWrites DEF TInv, TypeOK, LocalState
<1>2. Write(h) \/ UNCHANGED <<cache, db>>
  BY AwaitWrites
<1>3. CASE handler[h].pc \in Early
  <2>1. InsertCall(h) \/ UNCHANGED db
    BY <1>2, <1>3 DEF Write, Early, AddMember, Expire, InsertAlert, FlagCalls, PutCooldown, At, db
  <2>2. handler'[h].pc \in Early => UNCHANGED db
    BY <1>0, <2>1, AwaitMoves DEF InsertCall, At
  <2>3. handler'[h].pc # "flag"
    <3>1. AddCaller(h) \/ ExpireWindow(h) \/ CountCallers(h) \/ SaveCall(h) \/ Fail(h)
      BY <1>3 DEF Await, Early, CheckCooldown, GetCallers, FindCalls, SaveAlert, InsertAlert,
                  FlagAsFraud, FlagCalls, SetCooldown, PutCooldown, At
    <3>2. QED
      BY <1>0, <3>1, AwaitTargets
  <2>4. CASE handler'[h].pc \in Early
    BY <1>0, <1>3, <2>2, <2>3, <2>4, QuietStep DEF Early
  <2>5. CASE handler'[h].pc \notin Early
    BY <1>0, <1>3, <2>1, <2>3, <2>5, SettleStep DEF Ledger!Next
  <2>6. QED
    BY <2>4, <2>5
<1>4. CASE handler[h].pc = "insert" /\ InsertAlert(h)
  <2>1. SaveAlert(h) \/ Fail(h)
    BY <1>4 DEF Await, AddCaller, AddMember, ExpireWindow, Expire, CountCallers,
       SaveCall, InsertCall, CheckCooldown, GetCallers, FindCalls, FlagAsFraud, FlagCalls,
       SetCooldown, PutCooldown, At
  <2>2. QED
    BY <1>4, <2>1, RaiseStep DEF Ledger!Next
<1>5. CASE handler[h].pc = "flag"
  <2>1. FlagCalls(h) \/ UNCHANGED db
    BY <1>2, <1>5 DEF Write, AddMember, Expire, InsertCall, InsertAlert, PutCooldown, At, db
  <2>2. FlagAsFraud(h) \/ Fail(h)
    BY <1>5 DEF Await, AddCaller, AddMember, ExpireWindow, Expire, CountCallers,
       SaveCall, InsertCall, CheckCooldown, GetCallers, FindCalls, SaveAlert, InsertAlert,
       SetCooldown, PutCooldown, At
  <2>3. (\E al \in alerts : Ledger!Claim(al)) \/ (\E id \in Claiming : Ledger!GiveUp(id))
    BY <1>5, <2>1, <2>2, ClaimStep
  <2>4. QED
    BY <2>3 DEF Ledger!Next, Claiming
<1>6. CASE handler[h].pc \notin Early \cup {"flag"} /\ ~InsertAlert(h)
  <2>1. UNCHANGED db
    BY <1>2, <1>6 DEF Write, Early, AddMember, Expire, InsertCall, FlagCalls, PutCooldown, At, db
  <2>2. handler'[h].pc \notin Early
    BY <1>0, <1>6, AwaitMoves
  <2>3. handler'[h].pc # "flag"
    BY <1>0, <1>6, AwaitTargets DEF Await, SaveAlert, Early
  <2>4. QED
    BY <1>0, <1>6, <2>1, <2>2, <2>3, QuietStep
<1>7. QED
  BY <1>1, <1>3, <1>4, <1>5, <1>6 DEF InsertAlert, At

LEMMA LedgerStep == LedgerInv /\ [Next]_vars => [Ledger!Next]_(Ledger!vars)
<1> SUFFICES ASSUME LedgerInv, [Next]_vars PROVE [Ledger!Next]_(Ledger!vars)
  OBVIOUS
<1>0. TInv
  BY DEF LedgerInv, IInv
<1>1. ASSUME NEW h \in Handlers, NEW c \in CallIds, NEW a \in ANumbers, NEW b \in BNumbers,
             Receive(h, c, a, b)
      PROVE  Ledger!Next
  BY <1>0, <1>1, ReceiveStep DEF Ledger!Next
<1>2. Tick => Ledger!Next
  BY TickStep DEF Ledger!Next
<1>3. ASSUME NEW before \in 0..now, CleanupOldCalls(before)
      PROVE  [Ledger!Next]_(Ledger!vars)
  BY <1>0, <1>3, RemoveStep DEF Ledger!Next
<1>4. UNCHANGED vars => UNCHANGED Ledger!vars
  <2> SUFFICES ASSUME UNCHANGED vars PROVE UNCHANGED Ledger!vars
    OBVIOUS
  <2>1. UNCHANGED <<now, call, saved, flaggedBy, alerts, handler>>
    BY DEF vars
  <2>2. Claiming' = Claiming /\ \A c \in CallIds : RowOf(c)' = RowOf(c)
    BY <2>1 DEF Claiming, RowOf, At
  <2>3. QED
    BY <2>1, <2>2 DEF Ledger!vars, Claiming
<1>5. QED
  BY <1>1, <1>2, <1>3, <1>4, NextCases, HandlerStep

LEMMA LedgerInit == Init => Ledger!Init
<1> SUFFICES ASSUME Init PROVE Ledger!Init
  OBVIOUS
<1>1. \A c \in CallIds : RowOf(c) = "none"
  BY InitTInv, RowsAreSo DEF Init, RowsAre
<1>2. Claiming = {}
  BY DEF Init, Claiming, Idle, At
<1>3. QED
  BY <1>1, <1>2 DEF Init, Ledger!Init, Claiming

----------------------------------------------------------------------------
(* The theorems.                                                           *)

\* The inductive invariant holds of every behaviour of the detection engine.
THEOREM Invariance == Spec => []IInv
BY InitIInv, StepIInv, PTL DEF Spec

\* Type correctness, whatever the number of handlers, calls and numbers.
THEOREM TypeCorrect == Spec => []TypeOK
<1>1. IInv => TypeOK
  BY DEF IInv, TInv
<1>2. QED
  BY <1>1, Invariance, PTL

\* No interleaving of register_call hides an attack whose calls were all handled.
THEOREM AttacksAreNotMissed == Spec => []NoMissedAttack
<1>1. IInv => NoMissedAttack
  BY AttackCoveredSound DEF IInv
<1>2. QED
  BY <1>1, Invariance, PTL

\* Every alert has Threshold distinct callers behind it.
THEOREM AlertsAreJustified == Spec => []AlertJustified
<1>1. IInv => AlertJustified
  BY DEF IInv, Justified
<1>2. QED
  BY <1>1, Invariance, PTL

\* A B-number is in cooldown only once an alert for it is stored.
THEOREM CooldownFollowsAlert == Spec => []SuppressedOnlyAfterAlert
<1>1. IInv => SuppressedOnlyAfterAlert
  BY DEF IInv
<1>2. QED
  BY <1>1, Invariance, PTL

\* A flagged call and the alert it points to agree.
THEOREM EvidenceIsSound == Spec => []EvidenceIntegrity
<1>1. IInv => EvidenceIntegrity
  BY EvidenceSound DEF IInv
<1>2. QED
  BY <1>1, Invariance, PTL

\* A set of callers outlives its traffic by at most Window.
THEOREM WindowsDie == Spec => []WindowsExpire
<1>1. IInv => WindowsExpire
  BY DEF IInv
<1>2. QED
  BY <1>1, Invariance, PTL

\* A second alert in a cooldown passed its check before the cooldown was set.
THEOREM LateAlertsAreRaces == Spec => LateAlertIsRace
<1>1. IInv /\ [Next]_vars =>
        [\A al \in alerts' \ alerts :
            InCooldown(al.b) => al.end + Cooldown <= cooldown[al.b]]_vars
  BY LateStep DEF IInv
<1>2. QED
  BY <1>1, Invariance, PTL DEF Spec, LateAlertIsRace

\* Flagged calls are neither deleted nor unflagged.
THEOREM EvidenceIsRetained == Spec => EvidenceRetained
<1>1. IInv /\ [Next]_vars =>
        [\A c \in CallIds : flaggedBy[c] # NoAlert =>
            c \in saved' /\ flaggedBy'[c] # NoAlert]_vars
  BY RetainedStep DEF IInv
<1>2. QED
  BY <1>1, Invariance, PTL DEF Spec, EvidenceRetained

\* The race of LateAlertIsRace is the only way to alert spam: if, per B-number, one
\* handler at a time goes from its check to the write of the cooldown, two alerts are
\* a cooldown apart.
THEOREM AlertsInTurnAreSpaced == InTurnSpec => []NoAlertSpam
<1> DEFINE SInv == IInv /\ EndsPast /\ AlertsInTurn /\ Spaced
<1>1. Init => SInv
  <2>1. Init => IInv
    BY InitIInv
  <2>2. Init => EndsPast /\ AlertsInTurn /\ Spaced
    BY DEF Init, Idle, EndsPast, AlertsInTurn, Alerting, Working, Spaced, Apart, Cooled, ReadAfter
  <2>3. QED
    BY <2>1, <2>2
<1>2. SInv /\ [Next /\ AlertsInTurn']_vars => SInv'
  <2> SUFFICES ASSUME SInv, [Next /\ AlertsInTurn']_vars PROVE SInv'
    OBVIOUS
  <2>1. [Next]_vars
    OBVIOUS
  <2>2. AlertsInTurn'
    BY DEF vars, AlertsInTurn, Alerting, Working, B
  <2>3. IInv' /\ EndsPast' /\ Spaced'
    BY <2>1, <2>2, StepIInv, EndsPastStep, SpacedStep DEF IInv
  <2>4. QED
    BY <2>2, <2>3
<1>3. SInv => NoAlertSpam
  BY SpacedSound DEF IInv
<1>4. QED
  BY <1>1, <1>2, <1>3, PTL DEF InTurnSpec

\* To whoever reads the tables calls and fraud_alerts, the engine keeps the ledger that
\* EvidenceLedger describes: register_call, create_alert and cleanup_old_calls refine it,
\* for any number of handlers in flight.
THEOREM LedgerIsKept == Spec => KeepsTheLedger
<1>1. Init => LedgerInv /\ Ledger!Init
  BY InitLedgerInv, LedgerInit
<1>2. LedgerInv /\ [Next]_vars => LedgerInv'
  BY StepLedgerInv
<1>3. LedgerInv /\ [Next]_vars => [Ledger!Next]_(Ledger!vars)
  BY LedgerStep
<1>4. QED
  BY <1>1, <1>2, <1>3, PTL DEF Spec, KeepsTheLedger, Ledger!Spec
============================================================================
