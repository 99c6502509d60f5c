-------------------------- MODULE HumanEscalations --------------------------
(***************************************************************************)
(* One human_escalations row (validation_engine/models.py): raised by a    *)
(* failed step, a failed run or the recovery, acknowledged and resolved by *)
(* operators (api/validation_engine.py), and taken up the levels by        *)
(* check_stalled_escalations (validation_engine/tasks.py) when nobody      *)
(* answers in time.  Requests and the sweep read the row before they write *)
(* it, and a session writes a column only when it changes what it has read.*)
(***************************************************************************)
EXTENDS Integers

CONSTANTS Operators,       \* requests in progress
          MaxOperatorCalls \* bound: requests made

VARIABLES answer,      \* [status, level, assigned]: the row; levels count from 1 to 4
          slaPassed,   \* sla_deadline < now
          operator,    \* [at, status, assigned]: each request, and what it has read
          sweep,       \* [on, level, assigned]: what the sweep has read
          operatorCalls

ladderVars == <<answer, slaPassed, operator, sweep, operatorCalls>>

Executive == 4
Answered == {"resolved", "timed_out"}
NoCall == [at |-> "none", status |-> "none", assigned |-> FALSE]
NoSweep == [on |-> FALSE, level |-> 0, assigned |-> FALSE]

LadderInit ==
    /\ answer = [status |-> "none", level |-> 1, assigned |-> FALSE]
    /\ slaPassed = FALSE /\ sweep = NoSweep
    /\ operator = [o \in Operators |-> NoCall] /\ operatorCalls = 0

\* l1_operator or l2_engineer, as severe as the failure was.
RaiseEscalation ==
    /\ answer.status = "none"
    /\ \E level \in {1, 2} : answer' = [answer EXCEPT !.status = "pending", !.level = level]
    /\ UNCHANGED <<slaPassed, operator, sweep, operatorCalls>>

Changed(read, new, row) == IF read = new THEN row ELSE new

Asks(o, statuses, verb) ==
    /\ operator[o].at = "none" /\ operatorCalls < MaxOperatorCalls
    /\ answer.status \in statuses
    /\ operator' = [operator EXCEPT ![o] = [at |-> verb, status |-> answer.status, assigned |-> answer.assigned]]
    /\ operatorCalls' = operatorCalls + 1
    /\ UNCHANGED <<answer, slaPassed, sweep>>

AcknowledgeEscalation(o) == Asks(o, {"pending"}, "acknowledge")
ResolveEscalation(o) == Asks(o, {"pending", "acknowledged"}, "resolve")

\* The assignee is the operator who asked; the decision itself is only stored.
CommitAcknowledged(o) ==
    /\ operator[o].at = "acknowledge"
    /\ answer' = [answer EXCEPT !.status = "acknowledged", !.assigned = TRUE]
    /\ operator' = [operator EXCEPT ![o] = NoCall]
    /\ UNCHANGED <<slaPassed, sweep, operatorCalls>>

CommitResolved(o) ==
    /\ operator[o].at = "resolve"
    /\ answer' = [answer EXCEPT !.status = "resolved"]
    /\ operator' = [operator EXCEPT ![o] = NoCall]
    /\ UNCHANGED <<slaPassed, sweep, operatorCalls>>

OperatorGone(o) ==
    /\ operator[o].at # "none"
    /\ operator' = [operator EXCEPT ![o] = NoCall]
    /\ UNCHANGED <<answer, slaPassed, sweep, operatorCalls>>

SlaPasses == /\ ~slaPassed /\ answer.status # "none" /\ slaPassed' = TRUE
             /\ UNCHANGED <<answer, operator, sweep, operatorCalls>>

\* Slip: only escalations nobody has looked at are taken up.
UnseenOnly == answer.status = "pending" /\ slaPassed

Stalled == answer.status \in {"pending", "acknowledged"} /\ slaPassed

CheckStalled ==
    /\ ~sweep.on /\ Stalled
    /\ sweep' = [on |-> TRUE, level |-> answer.level, assigned |-> answer.assigned]
    /\ UNCHANGED <<answer, slaPassed, operator, operatorCalls>>

\* One level up with four more hours, without an assignee; at the top it is timed out.
Climb ==
    /\ sweep.on /\ sweep' = NoSweep
    /\ IF sweep.level < Executive
       THEN /\ answer' = [answer EXCEPT !.level = sweep.level + 1,
                                        !.assigned = Changed(sweep.assigned, FALSE, @)]
            /\ slaPassed' = FALSE
       ELSE answer' = [answer EXCEPT !.status = "timed_out"] /\ UNCHANGED slaPassed
    /\ UNCHANGED <<operator, operatorCalls>>

LadderNext == \/ \E o \in Operators :
                    \/ AcknowledgeEscalation(o) \/ ResolveEscalation(o)
                    \/ CommitAcknowledged(o) \/ CommitResolved(o) \/ OperatorGone(o)
              \/ RaiseEscalation \/ SlaPasses \/ CheckStalled \/ Climb

\* Time passes, a sweep that has begun proceeds, and a request that has read the row
\* commits or dies.
LadderFairness ==
    /\ WF_ladderVars(SlaPasses) /\ WF_ladderVars(Climb)
    /\ \A o \in Operators : WF_ladderVars(CommitAcknowledged(o) \/ CommitResolved(o) \/ OperatorGone(o))

\* What a worker that serves the queue "validation" brings about, to which beat sends the
\* sweep every 15 minutes: no escalation stays stalled without a sweep that looks at it.
StalledAreSwept == []<>(~Stalled \/ sweep.on)

\* Where that is so, an escalation is answered or given up for good, although a late
\* acknowledgement can take a decision back, and although operators may never answer
\* (validation_engine/tasks.py:259).
EscalationIsAnswered == StalledAreSwept => <>[](answer.status \in Answered \cup {"none"})
=============================================================================
