--------------------------- MODULE CircuitBreaker ---------------------------
(***************************************************************************)
(* The three-state circuit breaker of utils/circuit_breaker.py.  Half-open *)
(* is not stored: it is what an open breaker reads as once ResetTimeout    *)
(* ticks have passed since it opened.  Only RecordSuccess and              *)
(* RecordFailure write the breaker; reads are pure.                        *)
(***************************************************************************)
EXTENDS Naturals

CONSTANTS MaxFailures,   \* max_failures of the constructor
          ResetTimeout   \* reset_timeout, in ticks of the clock

ASSUME BreakerAssumption == MaxFailures \in Nat \ {0} /\ ResetTimeout \in Nat \ {0}

VARIABLE breaker  \* failures saturates at MaxFailures, age at ResetTimeout:
                  \* the code compares each with that bound only

Breakers == [failures: 0..MaxFailures, open: BOOLEAN, age: 0..ResetTimeout]

Closed == [failures |-> 0, open |-> FALSE, age |-> 0]

Init == breaker = Closed

HalfOpen == breaker.open /\ breaker.age = ResetTimeout

(* A bug: is_open reads the latch and never turns half-open.               *)
IsOpenLatched == breaker.open

IsOpen == breaker.open /\ breaker.age < ResetTimeout

(* A bug: the count grows past the threshold.                              *)
BumpedUnbounded == breaker.failures + 1

Bumped == IF breaker.failures < MaxFailures THEN breaker.failures + 1 ELSE MaxFailures

RecordSuccess == breaker' = Closed

(* A bug: any failure at the threshold restarts the window.                *)
RecordFailureRestarts ==
  LET trips == HalfOpen \/ Bumped >= MaxFailures
  IN  breaker' = [failures |-> Bumped,
                  open     |-> breaker.open \/ trips,
                  age      |-> IF trips THEN 0 ELSE breaker.age]

(* A failed probe restarts the window; a failure of a breaker that is      *)
(* already open is only counted.                                           *)
RecordFailure ==
  LET trips == HalfOpen \/ (Bumped >= MaxFailures /\ ~breaker.open)
  IN  breaker' = [failures |-> Bumped,
                  open     |-> breaker.open \/ trips,
                  age      |-> IF trips THEN 0 ELSE breaker.age]

Tick ==
  /\ breaker.open /\ breaker.age < ResetTimeout
  /\ breaker' = [breaker EXCEPT !.age = @ + 1]

(* Whatever calls share the breaker and however they overlap.              *)
BreakerSpec == Init /\ [][RecordSuccess \/ RecordFailure \/ Tick]_breaker
-----------------------------------------------------------------------------
(* A closed breaker has seen fewer consecutive failures than the threshold.*)
ClosedBelowThreshold == breaker \in Breakers /\ (~breaker.open => breaker.failures < MaxFailures)

(* "The first failure re-opens with a fresh window and the rest only       *)
(* increment an already-open breaker": the outcomes of calls that were     *)
(* already running never extend an outage, only a failed probe does.       *)
OutageNotExtended ==
  [][breaker.open /\ breaker'.open /\ breaker'.age < breaker.age => HalfOpen]_breaker

(* Every outage ends: an open breaker becomes eligible for a probe.        *)
OutageEnds == IsOpen ~> ~IsOpen
=============================================================================
