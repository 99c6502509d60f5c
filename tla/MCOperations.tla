---------------------------- MODULE MCOperations ----------------------------
\* Escalations, remediation and the leader election of beat share no state: one
\* behaviour follows one of them.  The targets of remediation fail the same rule, and
\* processes overlap while only one target has failed.
EXTENDS Escalation, Remediation, BeatLeader

VARIABLE focus

MCInit == /\ EscInit /\ RemInit /\ BeatInit
          /\ focus \in {"escalations", "remediation", "beat"}
          /\ \A t, u \in Targets : Strategy[t] = Strategy[u] /\ fixable[t] = fixable[u]
          /\ \A t \in Targets :
                /\ Strategy[t] \notin Computed => ~fixable[t]
                /\ focus # "remediation" => Strategy[t] = CHOOSE s \in RuleStrategies : s \notin Computed

OneTargetOrOneProcess == \/ \A t, u \in Targets : started[t] > 0 /\ started[u] > 0 => t = u
                         \/ \A r, q \in Rounds : round[r] # NoRound /\ round[q] # NoRound => r = q

\* Processes are alike, and so are targets: the spare ones start after the others, and
\* the spare target fails no rule that retries, of which FailedNotForgotten says nothing.
SpareRound == CHOOSE r \in Rounds : TRUE
SpareTarget == CHOOSE t \in Targets : TRUE
SparesWait == /\ round[SpareRound] = NoRound /\ round'[SpareRound] # NoRound =>
                    \E r \in Rounds \ {SpareRound} : round[r] # NoRound
              /\ started'[SpareTarget] > 0 =>
                    /\ Strategy[SpareTarget] \notin Retrying
                    /\ \E t \in Targets \ {SpareTarget} : started[t] > 0

MCNext == /\ \/ focus = "escalations" /\ EscNext /\ UNCHANGED <<remVars, beatVars>>
             \/ focus = "remediation" /\ RemNext /\ OneTargetOrOneProcess' /\ SparesWait
                /\ UNCHANGED <<escVars, beatVars>>
             \/ focus = "beat" /\ BeatNext /\ UNCHANGED <<escVars, remVars>>
          /\ UNCHANGED focus

MCSpec == /\ MCInit /\ [][MCNext]_<<escVars, remVars, beatVars, focus>>
          /\ EscFairness /\ RemFairness
=============================================================================
