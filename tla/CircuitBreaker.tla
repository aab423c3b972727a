-------------------------- MODULE CircuitBreaker --------------------------
(***************************************************************************)
(* The circuit breaker of services/voice-switch/circuit_breaker.py.        *)
(*                                                                         *)
(* The coroutines of one event loop share a breaker. Nothing awaited under *)
(* self._lock suspends, so call() runs in two atomic segments: the         *)
(* admission, up to `await func(...)`, and the completion, from its result *)
(* to the end of `finally`. Any number of other segments, the clock and    *)
(* reset() come between the two, so a call can end in another state of the *)
(* breaker than the one that admitted it. The lock is modelled by that     *)
(* atomicity; metrics and fallbacks change nothing the breaker decides on. *)
(***************************************************************************)
EXTENDS Integers, FiniteSets

CONSTANTS
    Calls,              \* coroutines that can be inside call() at once
    FailureThreshold,   \* config.failure_threshold
    SuccessThreshold,   \* config.success_threshold
    Timeout,            \* config.timeout, in clock ticks
    HalfOpenMaxCalls    \* config.half_open_max_calls

\* CircuitBreakerConfig does not check its fields; with a zero here the breaker
\* would admit nothing once half open, or open and close without a reason.
ASSUME BreakerAssumption ==
    /\ IsFiniteSet(Calls)
    /\ FailureThreshold \in Nat \ {0}
    /\ SuccessThreshold \in Nat \ {0}
    /\ Timeout \in Nat \ {0}
    /\ HalfOpenMaxCalls \in Nat \ {0}

VARIABLES
    breaker,       \* the fields _state, _failure_count, _success_count, _half_open_calls
    sinceFailure,  \* time.time() - _last_failure_time, up to Timeout
    running,       \* calls between their admission and their completion
    probes,        \* history: those of them the present half-open period admitted
    late,          \* history: how many calls it saw end that it had not admitted
    up             \* environment: whether calls come back with a result, and not
                   \* with an exception or cancelled; it may change between any two

vars == <<breaker, sinceFailure, running, probes, late, up>>

NoFailure == -1    \* _last_failure_time is None

States == {"closed", "open", "half_open"}

NewBreaker == [state |-> "closed", failures |-> 0, successes |-> 0, halfOpen |-> 0]

Init ==
    /\ breaker = NewBreaker
    /\ sinceFailure = NoFailure
    /\ running = {}
    /\ probes = {} /\ late = 0
    /\ up = TRUE

----------------------------------------------------------------------------
(* The methods, as functions of the breaker's fields.                      *)

\* Variant: entering half-open keeps the slots of an earlier attempt taken.
TransitionKeepingSlots(b, new) ==
    CASE b.state = new       -> b
      [] new = "closed"      -> NewBreaker
      [] new = "half_open"   -> [b EXCEPT !.state = new, !.successes = 0]
      [] OTHER               -> [b EXCEPT !.state = new]

\* _transition_to: the counters it resets depend on the new state.
TransitionTo(b, new) ==
    CASE b.state = new       -> b
      [] new = "closed"      -> NewBreaker
      [] new = "half_open"   -> [b EXCEPT !.state = new, !.successes = 0, !.halfOpen = 0]
      [] OTHER               -> [b EXCEPT !.state = new]

\* Variant: the half-open transition does not wait for the timeout.
CheckOpenAtOnce(b) ==
    IF b.state = "open" THEN TransitionTo(b, "half_open") ELSE b

\* _check_and_transition_from_open; nothing happens without a failure time.
CheckOpen(b) ==
    IF b.state = "open" /\ sinceFailure # NoFailure /\ sinceFailure >= Timeout
    THEN TransitionTo(b, "half_open") ELSE b

\* Variant: opens one failure late.
OnFailurePastThreshold(b) ==
    CASE b.state = "half_open" -> TransitionTo(b, "open")
      [] b.state = "closed" ->
           LET counted == [b EXCEPT !.failures = @ + 1]
           IN IF counted.failures > FailureThreshold
              THEN TransitionTo(counted, "open") ELSE counted
      [] OTHER -> b

OnFailure(b) ==
    CASE b.state = "half_open" -> TransitionTo(b, "open")
      [] b.state = "closed" ->
           LET counted == [b EXCEPT !.failures = @ + 1]
           IN IF counted.failures >= FailureThreshold
              THEN TransitionTo(counted, "open") ELSE counted
      [] OTHER -> b

OnSuccess(b) ==
    CASE b.state = "half_open" ->
           LET counted == [b EXCEPT !.successes = @ + 1]
           IN IF counted.successes >= SuccessThreshold
              THEN TransitionTo(counted, "closed") ELSE counted
      [] b.state = "closed" -> [b EXCEPT !.failures = 0]
      [] OTHER -> b

\* Variant: no `finally`, the slot is never given back.
KeepSlot(b) == b

\* The `finally` clause: whoever ends in half-open gives a slot back.
ReleaseSlot(b) ==
    IF b.state = "half_open" THEN [b EXCEPT !.halfOpen = @ - 1] ELSE b

----------------------------------------------------------------------------

\* call(), up to the await. A rejected call (open, or half-open and full)
\* changes no field, so only admission is a step.
Admit(k) ==
    LET b == CheckOpen(breaker) IN
    /\ k \notin running
    /\ b.state # "open"
    /\ b.state = "half_open" => b.halfOpen < HalfOpenMaxCalls
    /\ breaker' = IF b.state = "half_open" THEN [b EXCEPT !.halfOpen = @ + 1] ELSE b
    /\ running' = running \cup {k}
    /\ probes' = IF b.state = "half_open" THEN probes \cup {k} ELSE {}
    /\ UNCHANGED <<sinceFailure, late, up>>

Complete(k, b) ==
    /\ k \in running
    /\ breaker' = ReleaseSlot(b)
    /\ running' = running \ {k}
    /\ probes' = IF b.state = "half_open" THEN probes \ {k} ELSE {}
    /\ late' = IF b.state # "half_open" THEN 0 ELSE IF k \in probes THEN late ELSE late + 1
    /\ UNCHANGED up

Succeed(k) ==
    /\ up
    /\ Complete(k, OnSuccess(breaker))
    /\ UNCHANGED sinceFailure

\* expected_exception: the failure time moves in every state.
FailExpected(k) ==
    /\ ~up
    /\ Complete(k, OnFailure(breaker))
    /\ sinceFailure' = 0

\* Another exception, or the task is cancelled: only `finally` runs.
Abandon(k) ==
    /\ ~up
    /\ Complete(k, breaker)
    /\ UNCHANGED sinceFailure

\* Variant: reset() forgets the failure time but not the state.
ResetKeepingState ==
    /\ breaker' = [breaker EXCEPT !.failures = 0, !.successes = 0, !.halfOpen = 0]
    /\ sinceFailure' = NoFailure
    /\ UNCHANGED <<running, probes, late, up>>

\* reset(), by an operator, at any time.
Reset ==
    /\ breaker' = NewBreaker
    /\ sinceFailure' = NoFailure
    /\ probes' = {} /\ late' = 0
    /\ UNCHANGED <<running, up>>

Tick ==
    /\ sinceFailure \in 0..(Timeout - 1)
    /\ sinceFailure' = sinceFailure + 1
    /\ UNCHANGED <<breaker, running, probes, late, up>>

ServiceChanges ==
    /\ up' = ~up
    /\ UNCHANGED <<breaker, sinceFailure, running, probes, late>>

Finish(k) == Succeed(k) \/ FailExpected(k) \/ Abandon(k)

Next ==
    \/ \E k \in Calls : Admit(k) \/ Finish(k)
    \/ Reset
    \/ Tick
    \/ ServiceChanges

\* Time passes, traffic goes on, and a call that runs comes to an end.
Fairness ==
    /\ WF_vars(Tick)
    /\ WF_vars(\E k \in Calls : Admit(k))
    /\ \A k \in Calls : WF_vars(Finish(k))

Spec == Init /\ [][Next]_vars

FairSpec == Spec /\ Fairness

----------------------------------------------------------------------------
(* Properties.                                                             *)

\* Every variable has the shape the code gives it. _half_open_calls is a plain
\* int that the code lets go below zero.
TypeOK ==
    /\ breaker \in [state : States, failures : Nat, successes : Nat, halfOpen : Int]
    /\ sinceFailure \in NoFailure..Timeout
    /\ running \in SUBSET Calls
    /\ probes \in SUBSET running
    /\ late \in Nat
    /\ up \in BOOLEAN

\* The counters never sit at a threshold they should have acted on, even when
\* calls end in another state than the one that admitted them.
CountersInBounds ==
    /\ breaker.state = "closed" => breaker.failures < FailureThreshold
    /\ breaker.state = "half_open" => breaker.successes < SuccessThreshold
    /\ breaker.halfOpen <= HalfOpenMaxCalls

\* An open breaker has a failure time: without one
\* _check_and_transition_from_open returns early and it would stay open forever.
OpenCanRecover == breaker.state = "open" => sinceFailure # NoFailure

\* _half_open_calls is the number of probes in flight, less one for every call of
\* an earlier period that ended in this one and gave back, in `finally`, a slot it
\* never took; no transition, failure or cancellation leaves any other difference.
SlotsAccounted ==
    breaker.state = "half_open" => breaker.halfOpen = Cardinality(probes) - late

\* So the limit counts no more calls than are in flight: with none in flight the
\* breaker never rejects for being full.
NoLockout ==
    breaker.state = "half_open" => breaker.halfOpen <= Cardinality(probes)

\* And the limit is passed by those late calls only, by one each.
ExcessIsLate == Cardinality(probes) <= HalfOpenMaxCalls + late

\* While the breaker is open, and until Timeout after the latest failure, even
\* a late one, no call reaches the service.
FailFast ==
    [][\A k \in running' \ running :
          breaker.state = "open" => sinceFailure = Timeout]_vars

\* If the service is back for good and traffic goes on, the breaker closes and
\* stays closed.
Recovery == <>[]up => <>[](breaker.state = "closed")

\* "Max concurrent calls in half-open state".
ProbesBounded == Cardinality(probes) <= HalfOpenMaxCalls
============================================================================
