------------------------ MODULE MCDetectionEngine ------------------------
(* Finite instances of DetectionEngine. Handlers, call ids and numbers are *)
(* interchangeable, and the properties checked are safety properties.      *)
EXTENDS DetectionEngine, TLC

Symmetry == Permutations(Handlers) \cup Permutations(CallIds)
            \cup Permutations(ANumbers) \cup Permutations(BNumbers)
===========================================================================
