----------------------- MODULE CircuitBreakerProofs -----------------------
(***************************************************************************)
(* The safety properties of CircuitBreaker, for any number of concurrent   *)
(* calls and any thresholds.                                               *)
(*                                                                         *)
(* IInv is inductive: the bound on the half-open slots needs that the      *)
(* history variable probes holds only running calls, and the early return  *)
(* of CheckOpen needs OpenCanRecover.                                      *)
(***************************************************************************)
EXTENDS CircuitBreaker, FiniteSetTheorems, TLAPS

IInv == TypeOK /\ CountersInBounds /\ OpenCanRecover /\ NoLockout

Fields == [state : States, failures : Nat, successes : Nat, halfOpen : Int]

----------------------------------------------------------------------------
(* What the methods do to the breaker's fields.                            *)

\* The part of IInv that is about the fields alone.
Sound(b) ==
    /\ b \in Fields
    /\ b.state = "closed" => b.failures < FailureThreshold
    /\ b.state = "half_open" => b.successes < SuccessThreshold
    /\ b.halfOpen <= HalfOpenMaxCalls

\* A new breaker is closed, with every counter at zero.
LEMMA NewBreakerSound == Sound(NewBreaker) /\ NewBreaker.state = "closed"
BY BreakerAssumption DEF Sound, Fields, NewBreaker, States

\* _check_and_transition_from_open gives a sound breaker, which is as it was or
\* newly half-open, with no slot taken and from a breaker whose Timeout is over.
LEMMA CheckOpenSound ==
    ASSUME NEW b, Sound(b), sinceFailure \in NoFailure..Timeout
    PROVE  /\ Sound(CheckOpen(b))
           /\ \/ CheckOpen(b) = b
              \/ /\ b.state = "open" /\ sinceFailure = Timeout
                 /\ CheckOpen(b).state = "half_open"
                 /\ CheckOpen(b).halfOpen = 0
<1>1. CASE b.state = "open" /\ sinceFailure # NoFailure /\ sinceFailure >= Timeout
  <2>1. CheckOpen(b) = [b EXCEPT !.state = "half_open", !.successes = 0, !.halfOpen = 0]
    BY <1>1 DEF CheckOpen, TransitionTo
  <2>2. sinceFailure = Timeout
    BY <1>1, BreakerAssumption DEF NoFailure
  <2>. DEFINE c == [b EXCEPT !.state = "half_open"]
             d == [c EXCEPT !.successes = 0]
  <2>3. c \in Fields /\ c.state = "half_open"
    BY DEF Sound, Fields, States
  <2>4. d \in Fields /\ d.state = "half_open" /\ d.successes = 0
    BY <2>3 DEF Fields
  <2>5. /\ CheckOpen(b) \in Fields
        /\ CheckOpen(b).state = "half_open"
        /\ CheckOpen(b).successes = 0
        /\ CheckOpen(b).halfOpen = 0
    <3>1. CheckOpen(b) = [d EXCEPT !.halfOpen = 0]
      BY <2>1
    <3> HIDE DEF d
    <3>2. QED
      BY <3>1, <2>4 DEF Fields
  <2>6. Sound(CheckOpen(b))
    BY <2>5, BreakerAssumption DEF Sound
  <2>7. QED
    BY <1>1, <2>2, <2>5, <2>6
<1>2. CASE ~(b.state = "open" /\ sinceFailure # NoFailure /\ sinceFailure >= Timeout)
  BY <1>2 DEF CheckOpen
<1>3. QED
  BY <1>1, <1>2

\* _on_success keeps the counters below their thresholds, keeps the slots of a
\* breaker that stays half-open and never opens or half-opens one.
LEMMA OnSuccessSound ==
    ASSUME NEW b, Sound(b)
    PROVE  /\ Sound(OnSuccess(b))
           /\ OnSuccess(b).state = "open" => b.state = "open"
           /\ OnSuccess(b).state = "half_open" =>
                 b.state = "half_open" /\ OnSuccess(b).halfOpen = b.halfOpen
BY NewBreakerSound, BreakerAssumption
   DEF Sound, Fields, States, OnSuccess, TransitionTo, NewBreaker

\* _on_failure keeps the counters below their thresholds and leaves no breaker
\* half-open.
LEMMA OnFailureSound ==
    ASSUME NEW b, Sound(b)
    PROVE  /\ Sound(OnFailure(b))
           /\ OnFailure(b).state # "half_open"
<1>1. CASE b.state = "half_open"
  <2>1. OnFailure(b) = [b EXCEPT !.state = "open"]
    BY <1>1 DEF OnFailure, TransitionTo
  <2>2. QED
    BY <1>1, <2>1 DEF Sound, Fields, States
<1>2. CASE b.state = "closed"
  <2> DEFINE counted == [b EXCEPT !.failures = @ + 1]
  <2>1. /\ counted \in Fields
        /\ counted.state = "closed"
        /\ counted.halfOpen = b.halfOpen
    BY <1>2 DEF Sound, Fields
  <2>2. CASE counted.failures >= FailureThreshold
    <3>1. OnFailure(b) = [counted EXCEPT !.state = "open"]
      BY <1>2, <2>1, <2>2 DEF OnFailure, TransitionTo
    <3> HIDE DEF counted
    <3>2. QED
      BY <2>1, <3>1 DEF Sound, Fields, States
  <2>3. CASE ~(counted.failures >= FailureThreshold)
    <3>1. OnFailure(b) = counted
      BY <1>2, <2>3 DEF OnFailure
    <3> HIDE DEF counted
    <3>2. QED
      BY <2>1, <2>3, <3>1, BreakerAssumption DEF Sound, Fields
  <2>4. QED
    BY <2>2, <2>3
<1>3. CASE b.state = "open"
  BY <1>3 DEF OnFailure, Sound
<1>4. QED
  BY <1>1, <1>2, <1>3 DEF Sound, Fields, States

\* The finally clause gives one slot back, in the half-open state only.
LEMMA ReleaseSlotSound ==
    ASSUME NEW b, Sound(b)
    PROVE  /\ Sound(ReleaseSlot(b))
           /\ ReleaseSlot(b).state = b.state
           /\ b.state = "half_open" => ReleaseSlot(b).halfOpen = b.halfOpen - 1
BY BreakerAssumption DEF Sound, Fields, States, ReleaseSlot

LEMMA IInvSound == IInv => Sound(breaker)
BY DEF IInv, TypeOK, CountersInBounds, Sound, Fields

----------------------------------------------------------------------------
(* The invariant.                                                          *)

LEMMA InitIInv == Init => IInv
<1> SUFFICES ASSUME Init PROVE IInv
  OBVIOUS
<1>1. TypeOK
  BY BreakerAssumption DEF Init, TypeOK, NewBreaker, States, NoFailure
<1>2. QED
  BY <1>1, BreakerAssumption
     DEF Init, IInv, CountersInBounds, OpenCanRecover, NoLockout, NewBreaker

\* An admission takes at most the slot it counts: the call admitted in half-open
\* is a new probe.
LEMMA AdmitIInv ==
    ASSUME NEW k \in Calls, IInv, Admit(k)
    PROVE  IInv'
<1> DEFINE b == CheckOpen(breaker)
<1>1. /\ Sound(b)
      /\ \/ b = breaker
         \/ b.state = "half_open" /\ b.halfOpen = 0
  BY IInvSound, CheckOpenSound DEF IInv, TypeOK
<1>2. /\ b.state # "open"
      /\ b.state = "half_open" => b.halfOpen < HalfOpenMaxCalls
      /\ breaker' = IF b.state = "half_open" THEN [b EXCEPT !.halfOpen = @ + 1] ELSE b
      /\ running' = running \cup {k}
      /\ probes' = IF b.state = "half_open" THEN probes \cup {k} ELSE {}
      /\ k \notin running
      /\ sinceFailure' = sinceFailure /\ late' = late /\ up' = up
  BY DEF Admit
<1>3. /\ IsFiniteSet(probes) /\ Cardinality(probes) \in Nat
      /\ k \notin probes
      /\ Cardinality(probes \cup {k}) = Cardinality(probes) + 1
  BY <1>2, FS_Subset, FS_CardinalityType, FS_AddElement, BreakerAssumption DEF IInv, TypeOK
<1>4. breaker.halfOpen <= Cardinality(probes) \/ breaker.state # "half_open"
  BY DEF IInv, NoLockout
<1>5. b \in Fields /\ breaker \in Fields
  BY <1>1 DEF Sound, IInv, TypeOK, Fields
<1> HIDE DEF b
<1>6. CASE b.state = "half_open"
  <2>1. /\ breaker' \in Fields
        /\ breaker'.state = "half_open"
        /\ breaker'.successes = b.successes
        /\ breaker'.halfOpen = b.halfOpen + 1
    BY <1>2, <1>5, <1>6 DEF Fields
  <2>2. b.halfOpen <= Cardinality(probes)
    BY <1>1, <1>3, <1>4, <1>6
  <2>3. TypeOK'
    BY <1>2, <1>6, <2>1 DEF IInv, TypeOK, Fields
  <2>4. CountersInBounds'
    BY <1>1, <1>2, <1>5, <1>6, <2>1, BreakerAssumption DEF Sound, CountersInBounds, Fields
  <2>5. OpenCanRecover'
    BY <2>1 DEF OpenCanRecover
  <2>6. NoLockout'
    BY <1>2, <1>3, <1>5, <1>6, <2>1, <2>2 DEF NoLockout, Fields
  <2>7. QED
    BY <2>3, <2>4, <2>5, <2>6 DEF IInv
<1>7. CASE b.state # "half_open"
  <2>1. breaker' = b /\ probes' = {} /\ b.state = "closed"
    BY <1>2, <1>5, <1>7 DEF Fields, States
  <2>2. TypeOK'
    BY <1>2, <1>5, <2>1 DEF IInv, TypeOK, Fields
  <2>3. QED
    BY <1>1, <2>1, <2>2 DEF Sound, IInv, CountersInBounds, OpenCanRecover, NoLockout
<1>8. QED
  BY <1>6, <1>7

\* A completion gives back at most the slot of the probe it removes: a call of
\* an earlier period gives back a slot and removes no probe.
LEMMA CompleteIInv ==
    ASSUME NEW k \in Calls, NEW b, IInv, Complete(k, b), Sound(b),
           b.state = "half_open" =>
              breaker.state = "half_open" /\ b.halfOpen = breaker.halfOpen,
           sinceFailure' \in NoFailure..Timeout,
           b.state = "open" => sinceFailure' # NoFailure
    PROVE  IInv'
<1>1. /\ Sound(ReleaseSlot(b))
      /\ ReleaseSlot(b).state = b.state
      /\ b.state = "half_open" => ReleaseSlot(b).halfOpen = b.halfOpen - 1
  BY ReleaseSlotSound
<1>2. /\ k \in running
      /\ breaker' = ReleaseSlot(b)
      /\ running' = running \ {k}
      /\ probes' = IF b.state = "half_open" THEN probes \ {k} ELSE {}
      /\ late' = IF b.state # "half_open" THEN 0 ELSE IF k \in probes THEN late ELSE late + 1
      /\ up' = up
  BY DEF Complete
<1>3. /\ Cardinality(probes) \in Nat
      /\ Cardinality(probes \ {k}) \in Nat
      /\ Cardinality(probes) - 1 <= Cardinality(probes \ {k})
  <2>1. IsFiniteSet(probes)
    BY FS_Subset, BreakerAssumption DEF IInv, TypeOK
  <2>2. /\ IsFiniteSet(probes \ {k})
        /\ Cardinality(probes \ {k}) =
              IF k \in probes THEN Cardinality(probes) - 1 ELSE Cardinality(probes)
    BY <2>1, FS_RemoveElement
  <2>3. Cardinality(probes) \in Nat /\ Cardinality(probes \ {k}) \in Nat
    BY <2>1, <2>2, FS_CardinalityType
  <2>4. QED
    BY <2>2, <2>3
<1>4. breaker' \in Fields
  BY <1>1, <1>2 DEF Sound
<1>5. TypeOK'
  BY <1>2, <1>4 DEF IInv, TypeOK, Fields
<1>6. CountersInBounds' /\ OpenCanRecover'
  BY <1>1, <1>2 DEF Sound, CountersInBounds, OpenCanRecover
<1>7. NoLockout'
  <2>1. CASE b.state = "half_open"
    <3>1. breaker.halfOpen \in Int /\ breaker.halfOpen <= Cardinality(probes)
      BY <2>1 DEF IInv, TypeOK, NoLockout
    <3>2. breaker'.halfOpen = breaker.halfOpen - 1 /\ probes' = probes \ {k}
      BY <1>1, <1>2, <2>1
    <3>3. QED
      BY <1>3, <3>1, <3>2 DEF NoLockout
  <2>2. CASE b.state # "half_open"
    BY <1>1, <1>2, <2>2 DEF NoLockout
  <2>3. QED
    BY <2>1, <2>2
<1>8. QED
  BY <1>5, <1>6, <1>7 DEF IInv

LEMMA StepIInv == IInv /\ [Next]_vars => IInv'
<1> SUFFICES ASSUME IInv, [Next]_vars PROVE IInv'
  OBVIOUS
<1>1. Sound(breaker) /\ sinceFailure \in NoFailure..Timeout
  BY IInvSound DEF IInv, TypeOK
<1>2. ASSUME NEW k \in Calls, Admit(k) PROVE IInv'
  BY <1>2, AdmitIInv
<1>3. ASSUME NEW k \in Calls, Succeed(k) PROVE IInv'
  <2>1. /\ Sound(OnSuccess(breaker))
        /\ OnSuccess(breaker).state = "open" => breaker.state = "open"
        /\ OnSuccess(breaker).state = "half_open" =>
              /\ breaker.state = "half_open"
              /\ OnSuccess(breaker).halfOpen = breaker.halfOpen
    BY <1>1, OnSuccessSound
  <2>2. Complete(k, OnSuccess(breaker)) /\ sinceFailure' = sinceFailure
    BY <1>3 DEF Succeed
  <2>3. breaker.state = "open" => sinceFailure # NoFailure
    BY DEF IInv, OpenCanRecover
  <2>4. QED
    BY <1>1, <2>1, <2>2, <2>3, CompleteIInv
<1>4. ASSUME NEW k \in Calls, FailExpected(k) PROVE IInv'
  <2>1. Sound(OnFailure(breaker)) /\ OnFailure(breaker).state # "half_open"
    BY <1>1, OnFailureSound
  <2>2. Complete(k, OnFailure(breaker)) /\ sinceFailure' = 0
    BY <1>4 DEF FailExpected
  <2>3. sinceFailure' \in NoFailure..Timeout /\ sinceFailure' # NoFailure
    BY <2>2, BreakerAssumption DEF NoFailure
  <2>4. QED
    BY <2>1, <2>2, <2>3, CompleteIInv
<1>5. ASSUME NEW k \in Calls, Abandon(k) PROVE IInv'
  <2>1. Complete(k, breaker) /\ sinceFailure' = sinceFailure
    BY <1>5 DEF Abandon
  <2>2. breaker.state = "open" => sinceFailure # NoFailure
    BY DEF IInv, OpenCanRecover
  <2>3. QED
    BY <1>1, <2>1, <2>2, CompleteIInv
<1>6. CASE Reset
  <2>1. TypeOK'
    BY <1>6, BreakerAssumption DEF Reset, IInv, TypeOK, NewBreaker, States, NoFailure
  <2>2. QED
    BY <1>6, <2>1, BreakerAssumption
       DEF Reset, IInv, CountersInBounds, OpenCanRecover, NoLockout, NewBreaker
<1>7. CASE Tick
  BY <1>7, BreakerAssumption
     DEF Tick, IInv, TypeOK, CountersInBounds, OpenCanRecover, NoLockout, NoFailure
<1>8. CASE ServiceChanges
  BY <1>8 DEF ServiceChanges, IInv, TypeOK, CountersInBounds, OpenCanRecover, NoLockout
<1>9. CASE UNCHANGED vars
  BY <1>9 DEF vars, IInv, TypeOK, CountersInBounds, OpenCanRecover, NoLockout
<1>10. QED
  BY <1>2, <1>3, <1>4, <1>5, <1>6, <1>7, <1>8, <1>9 DEF Next, Finish

\* IInv holds in every reachable state.
THEOREM Invariance == Spec => []IInv
BY InitIInv, StepIInv, PTL DEF Spec

\* The fields and the history variables keep their types.
THEOREM TypeCorrect == Spec => []TypeOK
BY Invariance, PTL DEF IInv

\* No counter sits at a threshold it should have acted on.
THEOREM CountersStayInBounds == Spec => []CountersInBounds
BY Invariance, PTL DEF IInv

\* An open breaker always has the failure time that lets it recover.
THEOREM OpenBreakersCanRecover == Spec => []OpenCanRecover
BY Invariance, PTL DEF IInv

\* A half-open breaker never counts more calls than are in flight, so it cannot
\* lock itself out.
THEOREM NeverLockedOut == Spec => []NoLockout
BY Invariance, PTL DEF IInv

\* No call reaches the service while the breaker is open and its timeout runs.
THEOREM FailsFast == Spec => FailFast
<1> DEFINE P == \A k \in running' \ running :
                   breaker.state = "open" => sinceFailure = Timeout
<1>1. IInv /\ [Next]_vars => [P]_vars
  <2> SUFFICES ASSUME IInv, Next, NEW k \in running' \ running,
                      breaker.state = "open"
               PROVE  sinceFailure = Timeout
    OBVIOUS
  <2>1. PICK j \in Calls : Admit(j)
    BY DEF Next, Finish, Succeed, FailExpected, Abandon, Complete, Reset, Tick, ServiceChanges
  <2>2. CheckOpen(breaker).state # "open"
    BY <2>1 DEF Admit
  <2>3. QED
    BY <2>2, IInvSound, CheckOpenSound DEF IInv, TypeOK
<1>2. QED
  BY <1>1, Invariance, PTL DEF Spec, FailFast

----------------------------------------------------------------------------
(* The half-open limit: the slots taken are the probes in flight, less one *)
(* for each call of an earlier period that ended in this one.              *)

Tally ==
    IF breaker.state = "half_open" THEN breaker.halfOpen = Cardinality(probes) - late
                                   ELSE probes = {} /\ late = 0

LEMMA AdmitTally ==
    ASSUME NEW k \in Calls, IInv, Tally, Admit(k)
    PROVE  Tally'
<1> DEFINE b == CheckOpen(breaker)
<1>1. /\ b \in Fields
      /\ \/ b = breaker
         \/ breaker.state = "open" /\ b.state = "half_open" /\ b.halfOpen = 0
  BY IInvSound, CheckOpenSound DEF IInv, TypeOK, Sound
<1>2. /\ breaker' = IF b.state = "half_open" THEN [b EXCEPT !.halfOpen = @ + 1] ELSE b
      /\ probes' = IF b.state = "half_open" THEN probes \cup {k} ELSE {}
      /\ late' = late /\ late \in Nat
      /\ k \notin running
  BY DEF Admit, IInv, TypeOK
<1> HIDE DEF b
<1>3. CASE b.state # "half_open"
  BY <1>1, <1>2, <1>3 DEF Tally
<1>4. CASE b.state = "half_open"
  <2>1. IsFiniteSet(probes) /\ k \notin probes
    BY <1>2, FS_Subset, BreakerAssumption DEF IInv, TypeOK
  <2>2. Cardinality(probes \cup {k}) = Cardinality(probes) + 1 /\ Cardinality(probes) \in Nat
    BY <2>1, FS_AddElement, FS_CardinalityType
  <2>3. b.halfOpen = Cardinality(probes) - late
    <3>1. CASE b = breaker
      BY <1>4, <3>1 DEF Tally
    <3>2. CASE breaker.state = "open" /\ b.halfOpen = 0
      <4>1. probes = {} /\ late = 0
        BY <3>2 DEF Tally
      <4>2. Cardinality(probes) = 0
        BY <4>1, FS_EmptySet
      <4>3. QED
        BY <3>2, <4>1, <4>2
    <3>3. QED
      BY <1>1, <3>1, <3>2
  <2>4. breaker'.state = "half_open" /\ breaker'.halfOpen = b.halfOpen + 1
    BY <1>1, <1>2, <1>4 DEF Fields
  <2>5. QED
    BY <1>2, <1>4, <2>2, <2>3, <2>4 DEF Tally
<1>5. QED
  BY <1>3, <1>4

LEMMA CompleteTally ==
    ASSUME NEW k \in Calls, NEW b, IInv, Tally, Complete(k, b), Sound(b),
           b.state = "half_open" =>
              breaker.state = "half_open" /\ b.halfOpen = breaker.halfOpen
    PROVE  Tally'
<1>1. /\ ReleaseSlot(b).state = b.state
      /\ b.state = "half_open" => ReleaseSlot(b).halfOpen = b.halfOpen - 1
  BY ReleaseSlotSound
<1>2. /\ k \in running /\ breaker' = ReleaseSlot(b) /\ late \in Nat
      /\ probes' = IF b.state = "half_open" THEN probes \ {k} ELSE {}
      /\ late' = IF b.state # "half_open" THEN 0 ELSE IF k \in probes THEN late ELSE late + 1
  BY DEF Complete, IInv, TypeOK
<1>3. CASE b.state # "half_open"
  BY <1>1, <1>2, <1>3 DEF Tally
<1>4. CASE b.state = "half_open"
  <2>1. IsFiniteSet(probes)
    BY FS_Subset, BreakerAssumption DEF IInv, TypeOK
  <2>2. /\ Cardinality(probes) \in Nat
        /\ Cardinality(probes \ {k}) =
              IF k \in probes THEN Cardinality(probes) - 1 ELSE Cardinality(probes)
    BY <2>1, FS_RemoveElement, FS_CardinalityType
  <2>3. breaker'.state = "half_open" /\ breaker'.halfOpen = Cardinality(probes) - late - 1
    BY <1>1, <1>2, <1>4 DEF Tally
  <2>4. QED
    BY <1>2, <1>4, <2>2, <2>3 DEF Tally
<1>5. QED
  BY <1>3, <1>4

LEMMA StepTally == IInv /\ Tally /\ [Next]_vars => Tally'
<1> SUFFICES ASSUME IInv, Tally, [Next]_vars PROVE Tally'
  OBVIOUS
<1>1. Sound(breaker)
  BY IInvSound
<1>2. ASSUME NEW k \in Calls, Admit(k) PROVE Tally'
  BY <1>2, AdmitTally
<1>3. ASSUME NEW k \in Calls, Finish(k) PROVE Tally'
  <2>1. CASE Succeed(k)
    BY <1>1, <2>1, OnSuccessSound, CompleteTally DEF Succeed
  <2>2. CASE FailExpected(k)
    BY <1>1, <2>2, OnFailureSound, CompleteTally DEF FailExpected
  <2>3. CASE Abandon(k)
    BY <1>1, <2>3, CompleteTally DEF Abandon
  <2>4. QED
    BY <1>3, <2>1, <2>2, <2>3 DEF Finish
<1>4. CASE Reset
  BY <1>4, NewBreakerSound DEF Reset, Tally
<1>5. CASE Tick \/ ServiceChanges \/ UNCHANGED vars
  BY <1>5 DEF Tick, ServiceChanges, vars, Tally
<1>6. QED
  BY <1>2, <1>3, <1>4, <1>5 DEF Next

LEMMA InitTally == Init => Tally
BY DEF Init, NewBreaker, Tally

\* The slots taken are the probes in flight, less the late calls.
THEOREM SlotsAreAccounted == Spec => []SlotsAccounted
<1>1. IInv /\ Tally => SlotsAccounted
  BY DEF Tally, SlotsAccounted
<1>2. QED
  BY <1>1, InitIInv, StepIInv, InitTally, StepTally, PTL DEF Spec

\* Calls that end in a half-open period which did not admit them are the only way past
\* the limit on concurrent probes, and by one each.
THEOREM ExcessIsAlwaysLate == Spec => []ExcessIsLate
<1>1. IInv /\ Tally => ExcessIsLate
  <2> SUFFICES ASSUME IInv, Tally PROVE ExcessIsLate
    OBVIOUS
  <2>1. Cardinality(probes) \in Nat
    BY FS_Subset, FS_CardinalityType, BreakerAssumption DEF IInv, TypeOK
  <2>2. QED
    BY <2>1, FS_EmptySet, BreakerAssumption
       DEF IInv, TypeOK, CountersInBounds, Tally, ExcessIsLate
<1>2. QED
  BY <1>1, InitIInv, StepIInv, InitTally, StepTally, PTL DEF Spec
=============================================================================
