--------------------------- MODULE EvidenceLedger ---------------------------
(***************************************************************************)
(* What an investigator who reads the tables calls and fraud_alerts may    *)
(* rely on, whatever handlers, caches and clean-ups do behind them.        *)
(*                                                                         *)
(* A received call gets its row once or never. A call raises one alert at  *)
(* most, after its row was written; the alert is founded on calls that     *)
(* were made, and stands as it was raised. It claims the rows it lists at  *)
(* one moment or never. A row that is claimed stays, and stays claimed;    *)
(* one that is not may be removed, for good.                               *)
(***************************************************************************)
EXTENDS Naturals, FiniteSets

CONSTANTS
    CallIds, ANumbers, BNumbers,
    Threshold,  \* distinct callers that make an attack
    Window,     \* how long before its end an alert may reach
    MaxTime,    \* bound on the clock
    NoCall, NoAlert

VARIABLES
    now,
    call,       \* call id -> the call as received, or NoCall
    row,        \* call id -> Rows
    flaggedBy,  \* call id -> the alert that claims its row, or NoAlert
    alerts,     \* the alerts raised
    claiming    \* ids of alerts that are yet to claim their rows

Rows == {"none", "due", "stored", "gone"}

vars == <<now, call, row, flaggedBy, alerts, claiming>>

Init ==
    /\ now = 0
    /\ call = [c \in CallIds |-> NoCall]
    /\ row = [c \in CallIds |-> "none"]
    /\ flaggedBy = [c \in CallIds |-> NoAlert]
    /\ alerts = {} /\ claiming = {}

Tick == now < MaxTime /\ now' = now + 1 /\ UNCHANGED <<call, row, flaggedBy, alerts, claiming>>

Receive(c) ==
    /\ row[c] = "none"
    /\ row' = [row EXCEPT ![c] = "due"]
    /\ \E a \in ANumbers, b \in BNumbers :
          call' = [call EXCEPT ![c] = [a |-> a, b |-> b, at |-> now]]
    /\ UNCHANGED <<now, flaggedBy, alerts, claiming>>

\* The row that is due is written, or never will be.
Settle(c) ==
    /\ row[c] = "due"
    /\ \E to \in {"stored", "gone"} : row' = [row EXCEPT ![c] = to]
    /\ UNCHANGED <<now, call, flaggedBy, alerts, claiming>>

Settled(c) == row[c] \in {"stored", "gone"}

Callers(b) == {a \in ANumbers : \E c \in CallIds : row[c] # "none" /\ call[c].a = a /\ call[c].b = b}

\* The calls an alert about b that ends at `end` may list.
Listable(b, end) ==
    {c \in CallIds :
        Settled(c) /\ call[c].b = b /\ call[c].at <= end /\ end <= call[c].at + Window}

Founded(al) ==
    /\ Settled(al.id) /\ \A other \in alerts : other.id # al.id
    /\ al.b = call[al.id].b /\ al.end \in call[al.id].at..now
    /\ Cardinality(Callers(al.b)) >= Threshold
    /\ al.callers \subseteq Callers(al.b)
    /\ al.calls \subseteq Listable(al.b, al.end)

\* Whoever raised it will claim its rows next, unless it fails.
Raise(al) ==
    /\ Founded(al)
    /\ alerts' = alerts \cup {al}
    /\ claiming' \in {claiming, claiming \cup {al.id}}
    /\ UNCHANGED <<now, call, row, flaggedBy>>

Claim(al) ==
    /\ al.id \in claiming
    /\ claiming' = claiming \ {al.id}
    /\ flaggedBy' = [c \in CallIds |-> IF c \in al.calls /\ row[c] = "stored"
                                       THEN al.id ELSE flaggedBy[c]]
    /\ UNCHANGED <<now, call, row, alerts>>

GiveUp(id) ==
    /\ id \in claiming
    /\ claiming' = claiming \ {id}
    /\ UNCHANGED <<now, call, row, flaggedBy, alerts>>

Removable == {c \in CallIds : row[c] = "stored" /\ flaggedBy[c] = NoAlert /\ call[c].at < now}

\* Rows of earlier calls that nobody claimed are removed, any number at once.
Remove(old) ==
    /\ old # {}
    /\ row' = [c \in CallIds |-> IF c \in old THEN "gone" ELSE row[c]]
    /\ UNCHANGED <<now, call, flaggedBy, alerts, claiming>>

Next ==
    \/ Tick
    \/ \E c \in CallIds : Receive(c) \/ Settle(c)
    \/ \E al \in alerts' \ alerts : Raise(al)
    \/ \E al \in alerts : Claim(al)
    \/ \E id \in claiming : GiveUp(id)
    \/ \E old \in SUBSET Removable : Remove(old)

Spec == Init /\ [][Next]_vars
=============================================================================
