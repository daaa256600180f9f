---------------------------- MODULE ModelBreaker ----------------------------
(***************************************************************************)
(* AppState::model_breaker: the per-model circuit breaker that the auto    *)
(* router's eligibility oracle consults.  Every operation takes one mutex, *)
(* so each is one action; what interleaves is who calls them and when.     *)
(*                                                                         *)
(* `failures[m]` is BreakerState::failures: the instants of the failures   *)
(* still remembered, each with the request whose call failed (two calls    *)
(* may fail at the same instant; a request calls a model at most once).    *)
(* `openUntil[m] = 0` is `open_until: None`.                               *)
(***************************************************************************)
EXTENDS Integers, FiniteSets

CONSTANTS
    Models,
    Requests,       \* the requests whose provider calls may fail
    Threshold,      \* breaker_failures.max(1)
    Window,         \* breaker_window_secs.max(1), in ticks
    Cooldown,       \* breaker_cooldown_secs.max(1), in ticks
    MaxClock        \* bound on time

ASSUME BreakerAssumption ==
    /\ Threshold \in Nat \ {0}
    /\ Window \in Nat \ {0}
    /\ Cooldown \in Nat \ {0}
    /\ MaxClock \in Nat

VARIABLES
    clock,
    failures,
    openUntil

breakerVars == <<clock, failures, openUntil>>

Failure == [call : Requests, at : Nat]

BreakerTypeOK ==
    /\ clock \in Nat
    /\ failures \in [Models -> SUBSET Failure]
    /\ openUntil \in [Models -> Nat]

BreakerInit ==
    /\ clock = 0
    /\ failures = [m \in Models |-> {}]
    /\ openUntil = [m \in Models |-> 0]

-----------------------------------------------------------------------------
\* is_model_breaker_open
IsOpen(m) == openUntil[m] > clock

\* Mutant of Retained: failures never leave the window.
RetainedForever(m) == failures[m]

\* `failures.retain(|t| now.duration_since(*t) < window)`
Retained(m) == {f \in failures[m] : clock - f.at < Window}

\* record_model_failure: forget what left the window, add this failure, and
\* open the breaker (again) when the threshold is reached.
RecordFailure(m, r) ==
    LET counted == Retained(m) \cup {[call |-> r, at |-> clock]}
        trips == Cardinality(counted) >= Threshold
    IN  /\ failures' = [failures EXCEPT ![m] = IF trips THEN {} ELSE counted]
        /\ openUntil' = IF trips
                        THEN [openUntil EXCEPT ![m] = clock + Cooldown]
                        ELSE openUntil
        /\ UNCHANGED clock

\* Mutant of RecordSuccess: closes by back-dating, which underflows at boot.
RecordSuccessBackdated(m) ==
    /\ failures' = [failures EXCEPT ![m] = {}]
    /\ openUntil' = [openUntil EXCEPT ![m] = clock - Cooldown]
    /\ UNCHANGED clock

\* record_model_success: `map.remove(model)`, an open breaker included.
RecordSuccess(m) ==
    /\ failures' = [failures EXCEPT ![m] = {}]
    /\ openUntil' = [openUntil EXCEPT ![m] = 0]
    /\ UNCHANGED clock

\* Instant::now() moves on.
Tick ==
    /\ clock < MaxClock
    /\ clock' = clock + 1
    /\ UNCHANGED <<failures, openUntil>>
=============================================================================
