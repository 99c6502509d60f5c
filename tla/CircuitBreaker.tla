-------------------------- MODULE CircuitBreaker --------------------------
(***************************************************************************)
(* One CircuitBreaker (core/circuit_breaker.py) shared by concurrent       *)
(* callers.  The lock is held only while the state is looked up and while  *)
(* an outcome is booked, never during the call itself, so outcomes arrive  *)
(* in any order and in a state that is not the one their call was let      *)
(* through in.                                                             *)
(***************************************************************************)
EXTENDS Integers

CONSTANTS Callers,
          FailureThreshold, RecoveryTimeout,
          MaxFailures     \* bound: failure_count saturates here

ASSUME BreakerAssumption ==
    /\ FailureThreshold \in Nat \ {0} /\ RecoveryTimeout \in Nat \ {0}
    /\ MaxFailures \in Nat /\ MaxFailures >= FailureThreshold

VARIABLES state,          \* "closed", "open" or "half_open"
          failure_count,
          elapsed,        \* time since last_failure_time, as far as it matters
          calling,        \* callers inside the protected function
          service         \* external: whether the remote service is "up" or "down"

breakerVars == <<state, failure_count, elapsed, calling, service>>

\* last_failure_time is None: _should_attempt_reset holds, as after the timeout.
BreakerInit == /\ state = "closed" /\ failure_count = 0
        /\ elapsed = RecoveryTimeout
        /\ calling = {}
        /\ service = "up"

ShouldAttemptReset == elapsed >= RecoveryTimeout

Tick == /\ elapsed < RecoveryTimeout
        /\ elapsed' = elapsed + 1
        /\ UNCHANGED <<state, failure_count, calling, service>>

ServiceChanges == /\ service' = IF service = "up" THEN "down" ELSE "up"
                  /\ UNCHANGED <<state, failure_count, elapsed, calling>>

\* call, up to the await of the function; HALF_OPEN lets every caller through.
Admit(c) ==
    /\ c \notin calling
    /\ state = "open" => ShouldAttemptReset
    /\ state' = IF state = "open" THEN "half_open" ELSE state
    /\ calling' = calling \cup {c}
    /\ UNCHANGED <<failure_count, elapsed, service>>

\* Slip: a rejected call counts as a failure of the service.
RejectAsFailure(c) ==
    /\ c \notin calling
    /\ state = "open" /\ ~ShouldAttemptReset
    /\ elapsed' = 0
    /\ UNCHANGED <<state, failure_count, calling, service>>

\* CircuitBreakerOpenError is raised before the try: nothing is booked.
Reject(c) ==
    /\ c \notin calling
    /\ state = "open" /\ ~ShouldAttemptReset
    /\ UNCHANGED breakerVars

\* Slip: closing the breaker keeps the old failures.
OnSuccessKeepCount ==
    /\ state' = IF state = "half_open" THEN "closed" ELSE state
    /\ failure_count' = IF state = "closed" THEN 0 ELSE failure_count
    /\ UNCHANGED elapsed

OnSuccess ==
    CASE state = "half_open" -> /\ state' = "closed" /\ failure_count' = 0
                                /\ elapsed' = RecoveryTimeout
      [] state = "closed"    -> failure_count' = 0 /\ UNCHANGED <<state, elapsed>>
      [] state = "open"      -> UNCHANGED <<state, failure_count, elapsed>>

\* The count saturates: past the threshold it is only ever set back to 0.
OnFailure ==
    /\ failure_count' = IF failure_count < MaxFailures THEN failure_count + 1 ELSE failure_count
    /\ elapsed' = 0
    /\ state' = IF \/ state = "half_open"
                   \/ state = "closed" /\ failure_count' >= FailureThreshold
                THEN "open" ELSE state

Succeed(c) ==
    /\ c \in calling /\ service = "up"
    /\ OnSuccess
    /\ calling' = calling \ {c}
    /\ UNCHANGED service

Fail(c) ==
    /\ c \in calling /\ service = "down"
    /\ OnFailure
    /\ calling' = calling \ {c}
    /\ UNCHANGED service

\* asyncio.CancelledError is no Exception: the outcome is not booked.
Cancel(c) ==
    /\ c \in calling
    /\ calling' = calling \ {c}
    /\ UNCHANGED <<state, failure_count, elapsed, service>>

BreakerNext == \/ Tick \/ ServiceChanges
        \/ \E c \in Callers :
              Admit(c) \/ Reject(c) \/ Succeed(c) \/ Fail(c) \/ Cancel(c)

BreakerSpec == BreakerInit /\ [][BreakerNext]_breakerVars

\* Time passes, callers keep calling, and a call that is tried again and again
\* is not cancelled every time.
BreakerFairness == /\ WF_breakerVars(Tick)
            /\ \A c \in Callers : WF_breakerVars(Admit(c)) /\ SF_breakerVars(Succeed(c) \/ Fail(c))

BreakerFairSpec == BreakerSpec /\ BreakerFairness

-----------------------------------------------------------------------------
(* Properties *)

\* Types of all variables.
BreakerTypeOK == /\ state \in {"closed", "open", "half_open"}
          /\ failure_count \in 0..MaxFailures
          /\ elapsed \in 0..RecoveryTimeout
          /\ calling \subseteq Callers
          /\ service \in {"up", "down"}

\* call, _on_success and _on_failure, whatever the order in which the outcomes
\* of concurrent calls arrive: calls are let through freely exactly while fewer
\* than failure_threshold failures have been booked.
TripsAtThreshold == state = "closed" <=> failure_count < FailureThreshold

\* _on_failure: an open breaker whose service is down for good is tested again
\* for ever; late failures and rejected callers cannot keep it open.
KeepsTesting == []<>(state # "open")

\* _on_success: once the service stays up the breaker closes for good, with the
\* failures of earlier calls still coming in.
ClosesWhenUp == <>[](service = "up") => <>[](state = "closed")

\* The breaker follows the service (core/circuit_breaker.py).
BreakerRecovers == KeepsTesting /\ ClosesWhenUp
=============================================================================
