----------------------------- MODULE MCSentinel -----------------------------
EXTENDS Sentinel, TLC

CONSTANTS c1, c2, u1, u2, d1, x1, x2, y1

\* One caller; two short calls put it over the threshold, a third and long
\* one takes it back.
ThreeRecords == {x1, x2, y1}
OneCaller == [r \in ThreeRecords |-> "s"]
OwnCallee == [r \in ThreeRecords |-> r]
TwoShortOneLong == (x1 :> 1) @@ (x2 :> 1) @@ (y1 :> 9)

\* A file that repeats a record, one with the long call and a bad row, one with
\* a bad row only; each can be sent twice. A short call comes as an event too.
ThreeFiles == {<<x1, x2, x1>>, <<y1, BadRow>>, <<BadRow>>}
OneEvent == {x1}

OneDetector == {d1}
TwoClients == {c1, c2}
TwoUploads == {u1, u2}
Two == {d1, Heart}

\* Three short calls are critical, two of one second high, others medium.
ThreeOfOne == [many |-> 3, average |-> 2]
TwoOfOne == [many |-> 2, average |-> 1]
FourOrNone == [many |-> 4, average |-> 0]

Symmetry == Permutations(Clients) \cup Permutations(Uploads) \cup Permutations(Detectors)
=============================================================================
