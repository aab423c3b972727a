--------------------------- MODULE MCModelServing ---------------------------
EXTENDS ModelServing, TLC
CONSTANTS m1, m2, o1, r1, r2, f1, f2, f3, f4, f5
TwoModels == {m1, m2}
OneOperator == {o1}
FiveVectors == {f1, f2, f3, f4, f5}
FourVectors == FiveVectors \ {f5}
TwoRequests == {r1, r2}
============================================================================
