--------------------------- MODULE MCModelRollout ---------------------------
(* One operator process at a time beside the rollout, two models. *)
EXTENDS ModelRollout, TLC
CONSTANTS m1, m2, o1, mgr
TwoModels == {m1, m2}
FourSteps == <<5, 10, 20, 50>>
OneOperator == {o1}
AllSessions == {o1, mgr}
=============================================================================
