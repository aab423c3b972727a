------------------------- MODULE DetectionEngine -------------------------
(***************************************************************************)
(* DetectionService::register_call of services/detection-engine, with the  *)
(* DragonflyDB keys and the YugabyteDB rows it reads and writes.           *)
(*                                                                         *)
(* Every `.await` of register_call and create_alert is a step of its own:  *)
(* handlers of concurrent calls interleave there, keys may expire there,   *)
(* and there the handler may end with an error, before or after the store  *)
(* applied the write.                                                      *)
(***************************************************************************)
EXTENDS Naturals, FiniteSets

CONSTANTS
    Handlers,   \* register_call invocations that can be in flight at once
    CallIds,    \* ids Call::new can generate (a bound on the calls received)
    ANumbers,   \* calling MSISDNs
    BNumbers,   \* called MSISDNs
    Threshold,  \* DetectionThreshold.distinct_callers
    Window,     \* DetectionWindow.seconds, in clock ticks
    Cooldown,   \* DetectionConfig.cooldown_seconds, in clock ticks
    MaxTime,    \* bound on the clock
    NoCall,     \* no Call aggregate, no call id
    NoAlert     \* NULL in the column calls.alert_id

\* DetectionThreshold::new and DetectionWindow::new reject zero; SETEX rejects a
\* zero TTL, so a cooldown of zero cannot be stored.
ASSUME EngineAssumption ==
    /\ IsFiniteSet(ANumbers)
    /\ Threshold \in Nat \ {0}
    /\ Window \in Nat \ {0}
    /\ Cooldown \in Nat \ {0}
    /\ MaxTime \in Nat
    /\ NoAlert \notin CallIds

VARIABLES
    now,        \* the clock: Utc::now() and the TTLs of DragonflyDB
    window,     \* key window:{b}: a set of A-numbers and when it expires
    cooldown,   \* key cooldown:{b}: when it expires, or did
    call,       \* the Call aggregates the handlers created
    saved,      \* ids of the rows in table calls
    flaggedBy,  \* column alert_id of those rows
    alerts,     \* rows of table fraud_alerts
    handler,    \* the handlers' local state
    lost        \* history: B-numbers a handler of which ended with an error

vars == <<now, window, cooldown, call, saved, flaggedBy, alerts, handler, lost>>
cache == <<window, cooldown>>
db == <<saved, flaggedBy, alerts>>

Never == 0   \* no TTL: the key is absent or was never given one

Steps == {"idle", "sadd", "expire", "scard", "save", "cooldown?",
          "smembers", "select", "insert", "flag", "setcooldown"}

CallRow == [a : ANumbers, b : BNumbers, at : Nat]

AlertRow == [id : CallIds, b : BNumbers, callers : SUBSET ANumbers,
             calls : SUBSET CallIds, end : Nat]

LocalState == [pc : Steps, call : CallIds \cup {NoCall}, count : Nat,
               callers : SUBSET ANumbers, calls : SUBSET CallIds, end : Nat]

Idle == [pc |-> "idle", call |-> NoCall, count |-> 0,
         callers |-> {}, calls |-> {}, end |-> 0]

Received(c) == [pc |-> "sadd", call |-> c, count |-> 0,
                callers |-> {}, calls |-> {}, end |-> 0]

NoWindow == [members |-> {}, expires |-> Never]

ASSUME NoCallAssumption == NoCall \notin CallIds \cup CallRow

----------------------------------------------------------------------------
(* What a handler works on, and what the stores answer.                    *)

A(h) == call[handler[h].call].a
B(h) == call[handler[h].call].b

At(h, step) == handler[h].pc = step
Goto(h, step) == handler' = [handler EXCEPT ![h].pc = step]

\* Variant: the handler stays in a state no step starts from.
ReturnStuck(h) == handler' = [handler EXCEPT ![h].pc = "done"]
Return(h) == handler' = [handler EXCEPT ![h] = Idle]

Working(h, b) == handler[h].pc # "idle" /\ B(h) = b

DistinctCallers(b) == Cardinality(window[b].members)

\* Variant: the key is stored without its TTL.
CooldownWithoutTTL(b) == cooldown[b] # Never
InCooldown(b) == now < cooldown[b]

\* Variant: one caller too few already counts as an attack.
AlmostThreshold(n) == n + 1 >= Threshold
ReachesThreshold(n) == n >= Threshold

\* find_calls_in_window(b, end - Window, end): unflagged rows only.
CallsInWindow(b, end) ==
    {c \in saved : /\ call[c].b = b
                   /\ call[c].at + Window >= end
                   /\ call[c].at <= end
                   /\ flaggedBy[c] = NoAlert}

Init ==
    /\ now = 0
    /\ window = [b \in BNumbers |-> NoWindow]
    /\ cooldown = [b \in BNumbers |-> Never]
    /\ call = [c \in CallIds |-> NoCall]
    /\ saved = {}
    /\ flaggedBy = [c \in CallIds |-> NoAlert]
    /\ alerts = {}
    /\ handler = [h \in Handlers |-> Idle]
    /\ lost = {}

----------------------------------------------------------------------------
(* The writes. An error can reach the handler before the store applies one *)
(* (the step then has no effect) or after it (the reply was lost).         *)

\* SADD, the first command of add_caller_to_window's pipeline.
AddMember(h) ==
    /\ At(h, "sadd")
    /\ window' = [window EXCEPT ![B(h)].members = @ \cup {A(h)}]
    /\ UNCHANGED <<cooldown, db>>

\* Variant: only the member that created the set gives it a TTL.
ExpireNewSetOnly(h) ==
    /\ At(h, "expire")
    /\ window' = [window EXCEPT ![B(h)].expires =
                      IF window[B(h)].members # {A(h)} THEN @ ELSE now + Window]
    /\ UNCHANGED <<cooldown, db>>

\* EXPIRE, its second command: the pipeline is not a MULTI, and EXPIRE does
\* nothing to a key that is gone. It moves the expiry of the whole set.
Expire(h) ==
    /\ At(h, "expire")
    /\ window' = [window EXCEPT ![B(h)].expires =
                      IF window[B(h)].members = {} THEN @ ELSE now + Window]
    /\ UNCHANGED <<cooldown, db>>

\* INSERT ... ON CONFLICT of the aggregate as created: never flagged.
InsertCall(h) ==
    /\ At(h, "save")
    /\ saved' = saved \cup {handler[h].call}
    /\ flaggedBy' = [flaggedBy EXCEPT ![handler[h].call] = NoAlert]
    /\ UNCHANGED <<cache, alerts>>

\* The alert carries the callers and calls read before, under an id of its own;
\* a handler raises at most one, so its call's id names it.
AlertOf(h) == [id |-> handler[h].call, b |-> B(h), callers |-> handler[h].callers,
               calls |-> handler[h].calls, end |-> handler[h].end]

InsertAlert(h) ==
    /\ At(h, "insert")
    /\ alerts' = alerts \cup {AlertOf(h)}
    /\ UNCHANGED <<cache, saved, flaggedBy>>

\* Variant: flags the calls that are in the window by now, not those of the alert.
FlagCurrentCalls(h) ==
    /\ At(h, "flag")
    /\ flaggedBy' = [c \in CallIds |-> IF c \in CallsInWindow(B(h), now)
                                       THEN handler[h].call ELSE flaggedBy[c]]
    /\ UNCHANGED <<cache, saved, alerts>>

\* UPDATE calls SET alert_id WHERE id = ANY(call_ids): flagged or not before.
FlagCalls(h) ==
    /\ At(h, "flag")
    /\ flaggedBy' = [c \in CallIds |-> IF c \in handler[h].calls \cap saved
                                       THEN handler[h].call ELSE flaggedBy[c]]
    /\ UNCHANGED <<cache, saved, alerts>>

PutCooldown(h) ==
    /\ At(h, "setcooldown")
    /\ cooldown' = [cooldown EXCEPT ![B(h)] = now + Cooldown]
    /\ UNCHANGED <<window, db>>

Write(h) ==
    \/ AddMember(h) \/ Expire(h)
    \/ InsertCall(h) \/ InsertAlert(h) \/ FlagCalls(h)
    \/ PutCooldown(h)

----------------------------------------------------------------------------
(* register_call and create_alert, one await per action.                   *)

\* The command parses, its source IP is not blacklisted, Call::new runs. (An
\* unparsable command and a blacklisted source return with nothing changed.)
Receive(h, c, a, b) ==
    /\ At(h, "idle")
    /\ call[c] = NoCall
    /\ call' = [call EXCEPT ![c] = [a |-> a, b |-> b, at |-> now]]
    /\ handler' = [handler EXCEPT ![h] = Received(c)]
    /\ UNCHANGED <<now, cache, db, lost>>

AddCaller(h) == AddMember(h) /\ Goto(h, "expire") /\ UNCHANGED <<now, call, lost>>

ExpireWindow(h) == Expire(h) /\ Goto(h, "scard") /\ UNCHANGED <<now, call, lost>>

CountCallers(h) ==
    /\ At(h, "scard")
    /\ handler' = [handler EXCEPT ![h] = [@ EXCEPT !.pc = "save",
                                                   !.count = DistinctCallers(B(h))]]
    /\ UNCHANGED <<now, cache, call, db, lost>>

\* The call is stored whatever the count; a failed ingest_call is only logged.
SaveCall(h) ==
    /\ InsertCall(h)
    /\ IF ReachesThreshold(handler[h].count) THEN Goto(h, "cooldown?") ELSE Return(h)
    /\ UNCHANGED <<now, call, lost>>

\* Variant: the cooldown is taken when it is found free, before there is an alert.
TakeCooldownEarly(h) ==
    /\ At(h, "cooldown?")
    /\ \/ InCooldown(B(h)) /\ Return(h) /\ UNCHANGED cooldown
       \/ /\ ~InCooldown(B(h))
          /\ cooldown' = [cooldown EXCEPT ![B(h)] = now + Cooldown]
          /\ handler' = [handler EXCEPT ![h] = [@ EXCEPT !.pc = "smembers", !.end = now]]
    /\ UNCHANGED <<now, window, call, db, lost>>

\* Variant: create_alert without the cooldown check.
IgnoreCooldown(h) ==
    /\ At(h, "cooldown?")
    /\ handler' = [handler EXCEPT ![h] = [@ EXCEPT !.pc = "smembers", !.end = now]]
    /\ UNCHANGED <<now, cache, call, db, lost>>

\* In cooldown the handler returns; otherwise create_alert starts, and its
\* `now` becomes the alert's window_end.
CheckCooldown(h) ==
    /\ At(h, "cooldown?")
    /\ \/ InCooldown(B(h)) /\ Return(h)
       \/ /\ ~InCooldown(B(h))
          /\ handler' = [handler EXCEPT ![h] = [@ EXCEPT !.pc = "smembers", !.end = now]]
    /\ UNCHANGED <<now, cache, call, db, lost>>

GetCallers(h) ==
    /\ At(h, "smembers")
    /\ handler' = [handler EXCEPT ![h] = [@ EXCEPT !.pc = "select",
                                                   !.callers = window[B(h)].members]]
    /\ UNCHANGED <<now, cache, call, db, lost>>

FindCalls(h) ==
    /\ At(h, "select")
    /\ handler' = [handler EXCEPT ![h] =
                      [@ EXCEPT !.pc = "insert",
                                !.calls = CallsInWindow(B(h), handler[h].end)]]
    /\ UNCHANGED <<now, cache, call, db, lost>>

SaveAlert(h) == InsertAlert(h) /\ Goto(h, "flag") /\ UNCHANGED <<now, call, lost>>

FlagAsFraud(h) == FlagCalls(h) /\ Goto(h, "setcooldown") /\ UNCHANGED <<now, call, lost>>

SetCooldown(h) == PutCooldown(h) /\ Return(h) /\ UNCHANGED <<now, call, lost>>

\* `?` on an await, or the process dying: the handler is gone. What it already
\* wrote stays, and the write in progress may or may not have been applied.
Fail(h) ==
    /\ handler[h].pc # "idle"
    /\ lost' = lost \cup {B(h)}
    /\ Return(h)
    /\ Write(h) \/ UNCHANGED <<cache, db>>
    /\ UNCHANGED <<now, call>>

----------------------------------------------------------------------------
(* The stores' own steps.                                                  *)

\* Time passes, and DragonflyDB drops the sets whose TTL is over (EXISTS finds
\* no cooldown from its expiry on: InCooldown).
Tick ==
    /\ now < MaxTime
    /\ now' = now + 1
    /\ window' = [b \in BNumbers |->
                     IF window[b].expires # Never /\ window[b].expires <= now'
                     THEN NoWindow ELSE window[b]]
    /\ UNCHANGED <<cooldown, call, db, handler, lost>>

\* Variant: the cleanup forgets `AND is_flagged = FALSE`.
CleanupEvidenceToo(before) ==
    /\ saved' = {c \in saved : call[c].at >= before}
    /\ UNCHANGED <<now, cache, call, flaggedBy, alerts, handler, lost>>

\* cleanup_old_calls(before): old rows that are not evidence.
CleanupOldCalls(before) ==
    /\ saved' = {c \in saved : call[c].at >= before \/ flaggedBy[c] # NoAlert}
    /\ UNCHANGED <<now, cache, call, flaggedBy, alerts, handler, lost>>

Step(h) ==
    \/ \E c \in CallIds, a \in ANumbers, b \in BNumbers : Receive(h, c, a, b)
    \/ AddCaller(h) \/ ExpireWindow(h) \/ CountCallers(h) \/ SaveCall(h)
    \/ CheckCooldown(h) \/ GetCallers(h) \/ FindCalls(h)
    \/ SaveAlert(h) \/ FlagAsFraud(h) \/ SetCooldown(h)
    \/ Fail(h)

Next ==
    \/ \E h \in Handlers : Step(h)
    \/ Tick
    \/ \E before \in 0..now : CleanupOldCalls(before)

Spec == Init /\ [][Next]_vars

\* The same, where every call is handled to its end before time passes.
PromptNext == Next /\ (now' # now => \A h \in Handlers : At(h, "idle"))

PromptSpec == Init /\ [][PromptNext]_vars

\* The same, where no handler starts an alert for a B-number while another one is at
\* it: as with a lock held from the cooldown check to the write of the cooldown.
Alerting(h, b) ==
    Working(h, b) /\ handler[h].pc \in {"smembers", "select", "insert", "flag", "setcooldown"}

AlertsInTurn ==
    \A b \in BNumbers, g, h \in Handlers : Alerting(g, b) /\ Alerting(h, b) => g = h

InTurnSpec == Init /\ [][Next /\ AlertsInTurn']_vars
----------------------------------------------------------------------------
(* Properties.                                                             *)

\* Every variable has the shape the code gives it.
TypeOK ==
    /\ now \in 0..MaxTime
    /\ window \in [BNumbers -> [members : SUBSET ANumbers, expires : Nat]]
    /\ cooldown \in [BNumbers -> Nat]
    /\ call \in [CallIds -> CallRow \cup {NoCall}]
    /\ saved \in SUBSET CallIds
    /\ flaggedBy \in [CallIds -> CallIds \cup {NoAlert}]
    /\ alerts \in SUBSET AlertRow
    /\ handler \in [Handlers -> LocalState]
    /\ lost \in SUBSET BNumbers

Alerted(b) == \E al \in alerts : al.b = b

CallersOf(b) == {a \in ANumbers : \E c \in CallIds :
                    call[c] # NoCall /\ call[c].a = a /\ call[c].b = b}

\* However concurrent calls interleave, a masking attack is not missed: once the
\* window of a B-number holds Threshold callers and register_call has returned
\* for all its calls, none with an error, there is an alert for it, whose
\* cooldown was still in force when the last of these callers was added. So an
\* attack that goes on after a cooldown is reported again.
NoMissedAttack ==
    \A b \in BNumbers :
        /\ ReachesThreshold(DistinctCallers(b))
        /\ b \notin lost
        /\ \A h \in Handlers : ~Working(h, b)
        => Alerted(b) /\ window[b].expires < cooldown[b] + Window

\* No alert is raised without Threshold distinct numbers having called the
\* B-number, whatever keys expire or handlers die between the steps.
AlertJustified ==
    \A al \in alerts : Cardinality(CallersOf(al.b)) >= Threshold

\* Alerts are only ever suppressed for a B-number that has a stored alert: a
\* handler that dies half way never leaves a cooldown that hides an attack.
SuppressedOnlyAfterAlert ==
    \A b \in BNumbers : InCooldown(b) => Alerted(b)

\* A flagged call is a row that still exists, and the alert it points to is
\* stored, is about the same B-number, lists the call and covers its time.
EvidenceIntegrity ==
    \A c \in CallIds : flaggedBy[c] # NoAlert =>
        /\ c \in saved
        /\ \E al \in alerts : /\ al.id = flaggedBy[c]
                              /\ c \in al.calls
                              /\ al.b = call[c].b
                              /\ call[c].at <= al.end
                              /\ al.end <= call[c].at + Window

\* The window of a B-number dies with its traffic: unless a handler stands
\* between SADD and EXPIRE, or died there, a set of callers has a TTL of at
\* most Window, so an old set is never counted against a later call.
WindowsExpire ==
    \A b \in BNumbers : window[b].members # {} =>
        \/ b \in lost
        \/ \E h \in Handlers : At(h, "expire") /\ Working(h, b)
        \/ now < window[b].expires /\ window[b].expires <= now + Window

\* A second alert during a cooldown can only come from a handler that had
\* passed its cooldown check before the cooldown was set.
LateAlertIsRace ==
    [][\A al \in alerts' \ alerts :
          InCooldown(al.b) => al.end + Cooldown <= cooldown[al.b]]_vars

\* A call once flagged as evidence is never deleted nor unflagged.
EvidenceRetained ==
    [][\A c \in CallIds : flaggedBy[c] # NoAlert =>
          c \in saved' /\ flaggedBy'[c] # NoAlert]_vars

\* Where a row of table calls stands: its handler is still to write it, or it is
\* there, or it is not, and will not be.
RowOf(c) ==
    CASE call[c] = NoCall -> "none"
      [] c \in saved      -> "stored"
      [] \E h \in Handlers : handler[h].call = c
            /\ handler[h].pc \in {"sadd", "expire", "scard", "save"} -> "due"
      [] OTHER            -> "gone"

Ledger == INSTANCE EvidenceLedger WITH
              row <- [c \in CallIds |-> RowOf(c)],
              claiming <- {handler[h].call : h \in {g \in Handlers : At(g, "flag")}}

\* The engine implements EvidenceLedger: whatever interleaves, expires or fails, a
\* step writes one row, raises one founded alert, claims the rows of one alert or
\* removes rows nobody claimed, and never takes anything back.
KeepsTheLedger == Ledger!Spec

\* "Check cooldown to prevent alert spam": two stored alerts for a B-number
\* are at least a cooldown apart, when no handler failed.
NoAlertSpam ==
    \A x, y \in alerts :
        x.b = y.b /\ x.id # y.id /\ x.b \notin lost => \/ x.end + Cooldown <= y.end
                                   \/ y.end + Cooldown <= x.end

\* "distinct A-numbers calling same B-number within 5 seconds": when an alert
\* is stored and no handler failed, Threshold numbers called in the Window
\* before it.
SlidingWindow ==
    \A al \in alerts :
        al.b \in lost \/ Cardinality({a \in ANumbers : \E c \in CallIds :
            /\ call[c] # NoCall
            /\ call[c].a = a /\ call[c].b = al.b
            /\ call[c].at <= al.end /\ al.end <= call[c].at + Window}) >= Threshold
============================================================================
