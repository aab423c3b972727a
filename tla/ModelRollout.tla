---------------------------- MODULE ModelRollout ----------------------------
(***************************************************************************)
(* services/ml-pipeline: the processes around the model registry.          *)
(*                                                                         *)
(* Operators register, promote, archive and delete models, each in a short *)
(* process of its own. A deployment manager (ab_testing) brings one        *)
(* challenger into production step by step; its registry session is as old *)
(* as the rollout, days.                                                   *)
(*                                                                         *)
(* The manager calls set_traffic_split of a TrafficSplitter and            *)
(* set_challenger of a ModelRegistry. Neither class has such a method: the *)
(* call raises, the manager catches it and returns False, and the rollout  *)
(* ignores what its steps return. The model says so by the methods the     *)
(* classes have.                                                           *)
(***************************************************************************)
EXTENDS ModelRegistry, Sequences

CONSTANTS
    Operators,      \* sessions of operators
    Manager,        \* the session of the deployment manager
    Challenger,     \* config.challenger_model_id
    Shares          \* percent of the traffic in the pilot and in each step of the
                    \* ramp-up (the code: 5, 10, 20, 50)

ASSUME RolloutAssumption ==
    /\ Sessions = Operators \cup {Manager} /\ Manager \notin Operators
    /\ Challenger \in Models
    /\ Shares \in Seq(1..99) /\ Shares # << >>

VARIABLES
    rollout     \* the manager: [pc, step, phase, share, reported, verdict]

vars == <<registry, rollout>>

\* The methods of the two classes.
RegistryMethods ==
    {"register_model", "get_model_path", "get_metadata", "update_metadata",
     "promote_to_champion", "get_champion", "list_models", "compare_models",
     "archive_model", "delete_model"}
SplitterMethods ==
    {"should_use_model_b", "get_model_assignment", "update_traffic_split",
     "get_traffic_stats", "reset_counters"}

\* The splitter is made with the pilot's share before the pilot begins.
NoRollout == [pc |-> "off", step |-> 1, phase |-> "inactive", share |-> Shares[1],
              reported |-> 0, verdict |-> "continue"]

Init ==
    /\ InitRegistry
    /\ rollout = NoRollout

At_(pc) == rollout.pc = pc

----------------------------------------------------------------------------
(* The rollout.                                                            *)

\* set_traffic_split, and the state the caller sets after it; or an exception.
Split(roll, share, phase) ==
    IF "set_traffic_split" \in SplitterMethods
    THEN [roll EXCEPT !.share = share, !.reported = share, !.phase = phase]
    ELSE roll

\* start_pilot names the challenger in the registry first.
Deploy(roll) ==
    IF roll.step > 1 THEN Split(roll, Shares[roll.step], "ramp_up")
    ELSE IF "set_challenger" \in RegistryMethods THEN Split(roll, Shares[1], "pilot")
    ELSE roll

\* What the predictions record_prediction was told of amount to.
Observations == [slow : BOOLEAN, failing : BOOLEAN, significant : BOOLEAN]

\* _generate_recommendation: the AUCs are constants (0.88 and 0.90), so only the
\* latency, the errors and the significance decide.
Recommend(seen) ==
    IF seen.slow \/ seen.failing THEN "rollback"
    ELSE IF seen.significant THEN "promote"
    ELSE "continue"

StartRollout ==
    /\ At_("off")
    /\ Open(Manager)
    /\ rollout' = [rollout EXCEPT !.pc = "deploy"]

\* start_pilot or ramp_up, then 24 hours of sleep whatever it returned.
DeployStep ==
    /\ At_("deploy")
    /\ rollout' = [Deploy(rollout) EXCEPT !.pc = "watch"]
    /\ UNCHANGED registry

\* A rollout that promotes unless the last verdict is "rollback".
AfterUnlessBad(verdict) ==
    LET judged == [rollout EXCEPT !.verdict = verdict]
    IN  IF verdict = "rollback"
        THEN [Split(judged, 0, "rollback") EXCEPT !.pc = "done"]
        ELSE IF rollout.step < Len(Shares)
        THEN [rollout EXCEPT !.step = @ + 1, !.pc = "deploy"]
        ELSE [judged EXCEPT !.pc = "promote"]

\* After the sleep: a verdict of "rollback" ends the rollout, any other goes on.
After(verdict) ==
    LET judged == [rollout EXCEPT !.verdict = verdict]
    IN  IF verdict = "rollback"
        THEN [Split(judged, 0, "rollback") EXCEPT !.pc = "done"]
        ELSE IF rollout.step < Len(Shares)
        THEN [rollout EXCEPT !.step = @ + 1, !.pc = "deploy"]
        ELSE [judged EXCEPT !.pc = IF verdict = "promote" THEN "promote" ELSE "done"]

Evaluate ==
    /\ At_("watch")
    /\ \E seen \in Observations : rollout' = After(Recommend(seen))
    /\ UNCHANGED registry

\* promote_to_champion asks the registry, whose answer it ignores; the split that
\* should follow raises.
StartPromotion ==
    /\ At_("promote")
    /\ IF Known(Manager, Challenger)
       THEN Promote(Manager, Challenger)
       ELSE UNCHANGED registry
    /\ rollout' = [rollout EXCEPT !.pc = "promoting"]

EndPromotion ==
    /\ At_("promoting") /\ At(Manager, "ready")
    /\ rollout' = [Split(rollout, 100, "full_rollout") EXCEPT !.pc = "done"]
    /\ UNCHANGED registry

\* The process of the manager ends with the rollout.
EndRollout == At_("done") /\ Close(Manager) /\ UNCHANGED rollout

----------------------------------------------------------------------------
OperatorStep(s) ==
    /\ \/ Open(s) \/ Close(s) \/ OperationStep(s)
       \/ \E m \in Models : Register(s, m) \/ Promote(s, m) \/ Archive(s, m) \/ Delete(s, m)
    /\ UNCHANGED rollout

ManagerStep ==
    \/ StartRollout \/ DeployStep \/ Evaluate \/ StartPromotion \/ EndPromotion \/ EndRollout
    \/ OperationStep(Manager) /\ UNCHANGED rollout

CrashStep ==
    \E s \in Sessions :
        /\ Crash(s)
        /\ rollout' = IF s = Manager THEN [rollout EXCEPT !.pc = "done"] ELSE rollout
    
Next ==
    \/ \E s \in Operators : OperatorStep(s)
    \/ ManagerStep
    \/ CrashStep

Spec == Init /\ [][Next]_vars

----------------------------------------------------------------------------
(* Properties.                                                             *)

\* Whoever reads the index finds the challenger as champion only if an operator
\* promoted it, or the rollout did after its last step and on the verdict
\* "promote" of that step.
PromotedByVerdict ==
    [][disk.champion # Challenger /\ disk'.champion = Challenger =>
         \/ \E s \in Operators : Busy(s)
         \/ rollout.step = Len(Shares) /\ rollout.verdict = "promote"]_vars
=============================================================================
