--------------------------- MODULE HealthTracker ---------------------------
(***************************************************************************)
(* HealthTracker of the smart router: one circuit per endpoint.  Each      *)
(* operation holds the map's lock throughout, so each is one action.       *)
(*                                                                         *)
(* `opened` is circuit_opened as the ticks elapsed since, saturating at    *)
(* the recovery timeout, and `consecutive` saturates at the threshold:     *)
(* neither is compared with anything else.  `failed` says whether a        *)
(* failure was counted: the success rate is below one.                     *)
(***************************************************************************)
EXTENDS Integers

CONSTANTS
    Endpoints,
    FailureThreshold,
    RecoveryTimeout     \* in ticks

ASSUME HealthAssumption ==
    /\ FailureThreshold \in Nat \ {0}
    /\ RecoveryTimeout \in Nat

VARIABLE health

None == -1
Health == [state : {"healthy", "unhealthy", "half_open"},
           consecutive : 0 .. FailureThreshold,
           opened : None .. RecoveryTimeout,
           failed : BOOLEAN]

HealthTypeOK == health \in [Endpoints -> Health]

Default == [state |-> "healthy", consecutive |-> 0, opened |-> None,
            failed |-> FALSE]

\* register_endpoint for every endpoint of every pool.
HealthInit == health = [e \in Endpoints |-> Default]

-----------------------------------------------------------------------------
\* is_healthy
IsHealthy(e) ==
    \/ health[e].state # "unhealthy"
    \/ health[e].opened # None /\ health[e].opened >= RecoveryTimeout

\* record_success: any success closes the circuit, half-open or not.
RecordSuccess(e) ==
    health' = [health EXCEPT ![e] = [Default EXCEPT !.failed = health[e].failed]]

\* Mutant of Opens: one failure too late.
OpensLate(e) ==
    \/ health[e].state # "healthy"
    \/ health[e].consecutive >= FailureThreshold

\* A failure opens a healthy circuit at the threshold, a half-open one at
\* once, and re-dates one that is open.
Opens(e) ==
    \/ health[e].state # "healthy"
    \/ health[e].consecutive + 1 >= FailureThreshold

\* record_failure
RecordFailure(e) ==
    health' = [health EXCEPT ![e] =
                [state |-> IF Opens(e) THEN "unhealthy" ELSE @.state,
                 consecutive |-> IF @.consecutive < FailureThreshold
                                 THEN @.consecutive + 1 ELSE @.consecutive,
                 opened |-> IF Opens(e) THEN 0 ELSE @.opened,
                 failed |-> TRUE]]

\* mark_healthy keeps the counts of successes and failures, reset does not.
MarkHealthy(e) ==
    health' = [health EXCEPT ![e] = [Default EXCEPT !.failed = health[e].failed]]

Reset(e) == health' = [health EXCEPT ![e] = Default]

\* Mutant of MarkUnhealthy: the circuit has no opening time.
MarkUnhealthyUndated(e) == health' = [health EXCEPT ![e].state = "unhealthy"]

MarkUnhealthy(e) ==
    health' = [health EXCEPT ![e].state = "unhealthy", ![e].opened = 0]

\* Instant::now() moves on.
Elapse ==
    health' = [e \in Endpoints |->
                [health[e] EXCEPT !.opened =
                    IF @ = None \/ @ >= RecoveryTimeout THEN @ ELSE @ + 1]]
=============================================================================
