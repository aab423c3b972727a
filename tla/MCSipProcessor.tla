--------------------------- MODULE MCSipProcessor ---------------------------
EXTENDS SipProcessor, TLC

CONSTANTS a1, a2, c1, t1, t2, r1, r2

TwoCallers == {a1, a2}
OneCall == {c1}
TwoTasks == {t1, t2}
TwoRequests == {r1, r2}

\* Callers, coroutines and requests are interchangeable, and nothing temporal is checked.
Symmetry == Permutations(Callers) \cup Permutations(Tasks) \cup Permutations(Requests)
=============================================================================
