----------------------------- MODULE Retraining -----------------------------
(***************************************************************************)
(* services/ml-pipeline/retraining_orchestrator.py and data_collector.py:  *)
(* runs of the retraining, as far as they get.                             *)
(*                                                                         *)
(* A run connects, extracts calls and labels, joins, cleans and balances   *)
(* them, and calls train with arguments it does not take: each run fails   *)
(* there at the latest, and none reaches the evaluation or the registry.   *)
(* A step ends where the coroutine awaits.                                 *)
(***************************************************************************)
EXTENDS Integers, FiniteSets

CONSTANTS
    Features,       \* the feature vectors of calls to one number
    Valid,          \* those _validate_and_clean lets pass
    LastTime,       \* bound: time stamps, in units of the join's tolerance (5 s)
    MinSamples      \* min_samples_required: 1000

ASSUME RetrainingAssumption ==
    /\ Valid \subseteq Features
    /\ LastTime \in Nat /\ MinSamples \in Nat

VARIABLES
    runs,           \* stage -> how many run_retraining are in it
    is_running,
    connected       \* the collector has its connections

retraining == <<runs, is_running, connected>>

Stages == {"connect", "extract", "train"}

----------------------------------------------------------------------------
(* What a collection makes of the calls and labels it extracted.           *)

Times == 0..LastTime
NotCalled == LastTime + 1
Classes == {"fraud", "clean"}

\* merge_asof(direction="nearest"): the label next in time, within the tolerance;
\* the earlier of two as near.
Distance(t, u) == IF t < u THEN u - t ELSE t - u
Near(t, labels) == {u \in Times : labels[u] \in Classes /\ Distance(t, u) <= 1}
Nearest(t, labels) ==
    CHOOSE u \in Near(t, labels) :
        \A v \in Near(t, labels) \ {u} :
            \/ Distance(t, u) < Distance(t, v)
            \/ Distance(t, u) = Distance(t, v) /\ u < v

\* A call without a label is dropped; of the columns, the features stay.
Labelled(calls, labels) ==
    {[features |-> f, is_fraud |-> labels[Nearest(calls[f], labels)]] :
        f \in {g \in Features : calls[g] \in Times /\ Near(calls[g], labels) # {}}}

\* _validate_and_clean (drop_duplicates: what is left is a set).
Cleaned(rows) == {r \in rows : r.features \in Valid}

Count(rows, class) == Cardinality({r \in rows : r.is_fraud = class})

\* _balance_dataset: int(clean * 0.3 / 0.7) rows of fraud, drawn with repetition
\* where there are fewer. There must be one to draw.
Target(rows) == (3 * Count(rows, "clean")) \div 7
CanBalance(rows) == Count(rows, "fraud") > 0 \/ Target(rows) = 0
Balanced(rows) ==
    Count(rows, "clean")
    + IF Count(rows, "fraud") < Target(rows) THEN Target(rows) ELSE Count(rows, "fraud")

Trainable(rows) == CanBalance(rows) /\ Balanced(rows) >= MinSamples

Collections ==
    {Cleaned(Labelled(calls, labels)) :
        calls \in [Features -> Times \cup {NotCalled}],
        labels \in [Times -> Classes \cup {"none"}]}
Sufficient == {rows \in Collections : Trainable(rows)}

----------------------------------------------------------------------------
(* A run.                                                                  *)

InitRetraining ==
    /\ runs = [stage \in Stages |-> 0]
    /\ is_running = FALSE
    /\ connected = FALSE

Advance(stage, next) ==
    /\ runs[stage] > 0
    /\ runs' = [runs EXCEPT ![stage] = @ - 1, ![next] = @ + 1]

\* run_retraining: "skipped" while another run is in progress.
RunRetraining ==
    /\ ~is_running
    /\ is_running' = TRUE
    /\ runs' = [runs EXCEPT !["connect"] = @ + 1]
    /\ UNCHANGED connected

Connect ==
    /\ Advance("connect", "extract")
    /\ connected' = TRUE
    /\ UNCHANGED is_running

\* Mutant: is_running is reset at the end of a run that succeeded only.
EndStillRunning(stage) ==
    /\ runs[stage] > 0
    /\ runs' = [runs EXCEPT ![stage] = @ - 1]
    /\ connected' = (connected /\ stage # "extract")
    /\ UNCHANGED is_running

\* An exception, or the cancellation of the task: the collector closes its
\* connections, and finally is_running is reset.
End(stage) ==
    /\ runs[stage] > 0
    /\ runs' = [runs EXCEPT ![stage] = @ - 1]
    /\ connected' = (connected /\ stage # "extract")
    /\ is_running' = FALSE

\* Both queries answered (nothing happens between them), all the rest of the
\* collection, and the training begins.
TrainOn ==
    /\ Advance("extract", "train")
    /\ Sufficient # {}
    /\ connected' = FALSE
    /\ UNCHANGED is_running

\* A run ends where there is no fraud to draw from, or too few samples; where train
\* refuses the data frame it is given for a matrix; or anywhere, cancelled.
Ends == \E stage \in Stages : End(stage)

\* start_scheduler starts a run every night, whatever became of the last one.
RetrainingStep == RunRetraining \/ Connect \/ TrainOn \/ Ends

----------------------------------------------------------------------------

\* is_running is set exactly while one run is in progress, and the connections are
\* open only while it collects.
TypeOKRetraining ==
    /\ runs \in [Stages -> 0..1]
    /\ is_running \in BOOLEAN /\ connected \in BOOLEAN
    /\ runs["connect"] + runs["extract"] + runs["train"] = IF is_running THEN 1 ELSE 0
    /\ connected = (runs["extract"] = 1)
=============================================================================
