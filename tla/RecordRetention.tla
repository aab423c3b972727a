--------------------------- MODULE RecordRetention ---------------------------
(***************************************************************************)
(* What the archival service promises about a database record: from the    *)
(* day it is written it is in its table or kept in a complete archive, it  *)
(* can move between the two, and it is gone only once its retention period *)
(* is over. Two things bound the promise: records the service has swept    *)
(* out of their table without having looked at them, and records somebody  *)
(* had in hands when they went, who may still put them back.               *)
(***************************************************************************)
EXTENDS Integers

CONSTANTS
    Rows,       \* records
    Retention,  \* cold_retention_years
    MaxTime     \* bound on the clock

VARIABLES
    now,
    born,   \* [Rows -> Int]: the date of the record
    place,  \* [Rows -> Places]
    hands,  \* records that a thread or its transaction holds
    swept   \* records taken out of their table unlooked at

Places == {"unborn", "table", "kept", "gone"}

vars == <<now, born, place, hands, swept>>

Init ==
    /\ now = 0 /\ born = [r \in Rows |-> 0]
    /\ place = [r \in Rows |-> "unborn"]
    /\ hands = {} /\ swept = {}

Tick == now < MaxTime /\ now' = now + 1 /\ UNCHANGED <<born, place, hands, swept>>

Write(r) ==
    /\ place[r] = "unborn"
    /\ place' = [place EXCEPT ![r] = "table"]
    /\ \E date \in 0..now : born' = [born EXCEPT ![r] = date]
    /\ UNCHANGED <<now, hands, swept>>

\* Where a record may go to. What is in nobody's hands does not come back.
MayGo(r, from, to) ==
    \/ from = to
    \/ from = "table" /\ to = "kept"
    \/ from = "kept" /\ to = "table"
    \/ from \in {"table", "kept"} /\ to = "gone" /\ (now > born[r] + Retention \/ r \in swept')
    \/ from = "gone" /\ to \in {"table", "kept"} /\ r \in hands

\* Records move, all at once. They are taken from a table or an archive, and swept
\* from a table only; one that is in its table is not swept away.
Move ==
    /\ place' \in [Rows -> Places]
    /\ \A r \in Rows : MayGo(r, place[r], place'[r])
    /\ \A r \in hands' \ hands : place[r] \in {"table", "kept"}
    /\ \A r \in swept' \ swept : place[r] = "table"
    /\ \A r \in swept \ swept' : place'[r] = "table"
    /\ UNCHANGED <<now, born>>

Next == Tick \/ (\E r \in Rows : Write(r)) \/ Move

Spec == Init /\ [][Next]_vars
=============================================================================
