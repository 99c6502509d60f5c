--------------------------- MODULE MCValidationRun ---------------------------
\* A validation run, the escalation of its failure to a human, and a circuit breaker
\* around the calls its steps make share no variable: one behaviour follows one of them.
EXTENDS ValidationRun, HumanEscalations, CircuitBreaker

VARIABLE focus

MCVars == <<vars, ladderVars, breakerVars, focus>>

MCInit == Init /\ LadderInit /\ BreakerInit /\ focus \in {"run", "ladder", "breaker"}

MCNext == /\ \/ focus = "run" /\ Next /\ UNCHANGED <<ladderVars, breakerVars>>
             \/ focus = "ladder" /\ LadderNext /\ UNCHANGED <<vars, breakerVars>>
             \/ focus = "breaker" /\ BreakerNext /\ UNCHANGED <<vars, ladderVars>>
          /\ UNCHANGED focus

\* The fairness of the three; the callers of the breaker are not initially idle.
MCFairness ==
    /\ Fairness /\ LadderFairness
    /\ WF_breakerVars(Tick)
    /\ \A c \in Callers : /\ WF_breakerVars(focus = "breaker" /\ Admit(c))
                          /\ SF_breakerVars(Succeed(c) \/ Fail(c))

MCSpec == MCInit /\ [][MCNext]_MCVars /\ MCFairness

\* execute_validation_run, check_stalled_escalations: where a worker serves the queue
\* "validation", a run whose workers do not die comes to an end, and an escalation to a
\* human is answered or given up for good.
RunsConclude == RunEnds /\ EscalationIsAnswered
=============================================================================
