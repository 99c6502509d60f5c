---------------------------- MODULE StepExecution ----------------------------
(***************************************************************************)
(* One worker executes one run (validation_engine/orchestrator.py): it     *)
(* walks the workflow's graph, each step's executor returns or raises      *)
(* (executors.py), and what raised is remediated (remediation.py) before   *)
(* the failure path is taken.  An error is the set of PATTERN_ACTIONS      *)
(* patterns its text contains.  ValidationRun has the run's concurrency    *)
(* and faults and abstracts from all this: on a chain of steps, this       *)
(* module implements it.                                                   *)
(***************************************************************************)
EXTENDS Integers, Sequences, FiniteSets

CONSTANTS Graphs,        \* workflows: for each step its configuration; the entry is step 1
          Chain          \* the one whose failure paths lead to the next step, or to none

VARIABLES graph, condition, \* the workflow, and the condition of its gates
          runStatus,        \* validation_runs.status
          place,            \* where execute_workflow is
          current, via,     \* current_step_id, and which of its paths it is left by
          executed,         \* executed_step_ids
          executions,       \* validation_step_executions: [step, status, error]
          remedies,         \* validation_remediations: [action, status]
          paged,            \* human_escalations
          outputs,          \* context["outputs"] of the gates
          captured, covered \* steps with proofs, and those merkle_root covers

stepVars == <<graph, condition, runStatus, place, current, via, executed, executions, remedies,
              paged, outputs, captured, covered>>

EndStep == 0
FailStep == -1
RemediationLimit == 3

\* A path names steps, EndStep or FailStep; the first is taken.
FirstOf(path) == IF path = <<>> THEN EndStep ELSE path[1]

WorkflowStep == [type : STRING, onSuccess : Seq(Int), onFailure : Seq(Int), enabled : BOOLEAN,
               skippable : BOOLEAN, maxRetries : Int, proof : BOOLEAN, misfit : BOOLEAN]

ASSUME GraphsAssumption == Graphs \subseteq Seq(WorkflowStep)

\* Each step of the chain proves itself and leads to the next, also after a failure if it
\* has a way on at all.
ASSUME ChainAssumption ==
    /\ Chain \in Seq(WorkflowStep)
    /\ \A s \in DOMAIN Chain :
          LET following == IF s < Len(Chain) THEN s + 1 ELSE EndStep IN
          /\ Chain[s].proof
          /\ Len(Chain[s].onSuccess) <= 1 /\ FirstOf(Chain[s].onSuccess) = following
          /\ Chain[s].onFailure # <<>> => FirstOf(Chain[s].onFailure) = following

(************************ decision gates ***********************************)
\* Slip: an operand that decides the result hides the others.
ShortCircuit(op, l, r) ==
    IF op = "or" THEN IF l = "true" THEN l ELSE r
    ELSE IF l = "false" THEN l ELSE r

\* _eval_node evaluates the operands of and, or into a list first.
BoolOp(op, l, r) ==
    IF "raises" \in {l, r} THEN "raises"
    ELSE IF op = "or" THEN IF "true" \in {l, r} THEN "true" ELSE "false"
    ELSE IF "false" \in {l, r} THEN "false" ELSE "true"

Negated(v) == IF v = "raises" THEN v ELSE IF v = "true" THEN "false" ELSE "true"

\* Expressions by their parts: a reference that names nothing is "unresolved"; what the
\* visitor refuses, or Python raises on, is "disallowed".
Atoms == {<<"true">>, <<"false">>, <<"unresolved">>, <<"disallowed">>}
Compound(S) == {<<"not", e>> : e \in S} \cup {<<op, e, f>> : op \in {"and", "or"}, e \in S, f \in S}
Shallow == Atoms \cup Compound(Atoms)
Expressions == Shallow \cup Compound(Shallow)

Parts[e \in Expressions] ==
    IF e \in Atoms THEN {e} ELSE UNION {Parts[e[i]] : i \in 2..Len(e)}

EvalNode[e \in Expressions] ==
    CASE e \in {<<"true">>, <<"false">>} -> e[1]
      [] e \in Atoms \ {<<"true">>, <<"false">>} -> "raises"
      [] Len(e) = 2 -> Negated(EvalNode[e[2]])
      [] Len(e) = 3 -> BoolOp(e[1], EvalNode[e[2]], EvalNode[e[3]])

\* An unresolved reference makes the condition false before it is parsed.
EvaluateCondition(e) == <<"unresolved">> \notin Parts[e] /\ EvalNode[e] = "true"

(************************ executors ****************************************)
\* What the texts of an executor's errors contain.  What HTTP steps and a row count say is
\* no pattern; a driver, a service or a model may say anything.
HttpErrors == {{"timed_out"}, {"connection_error"}, {"not_in_expected"}}
QueryErrors == {{}, {"deadlock"}, {"timeout"}}
ServiceErrors == {{}, {"timeout", "not_found"}, {"validation_error"}, {"service_unavailable"}}
AiErrors == {{}, {"rate_limit"}}

\* A step whose configuration has a reference that resolves to another type than its
\* field's fails its validation, whatever its type.
Errors(s) ==
    LET type == graph[s].type IN
    IF graph[s].misfit THEN {{}}
    ELSE CASE type = "http_request" -> HttpErrors
           [] type = "database_query" -> QueryErrors
           [] type = "service_call" -> ServiceErrors
           [] type = "ai_evaluation" -> AiErrors
           [] type = "dom_capture" -> {{}}
           [] OTHER -> {}

\* A page is never captured: awaiting the synchronous browser helper raises.
Succeeds(s) == graph[s].type # "dom_capture" /\ ~graph[s].misfit

(************************ the graph ****************************************)
StepIds == DOMAIN graph

Successors(s) == {graph[s].onSuccess[i] : i \in DOMAIN graph[s].onSuccess}
Reachable == {s \in StepIds : \A R \in SUBSET StepIds :
                 1 \in R /\ (\A r \in R : Successors(r) \cap StepIds \subseteq R) => s \in R}

\* visit: some path of next_on_success leads back to where it was.
Cyclic == \E C \in (SUBSET Reachable) \ {{}} : \A s \in C : Successors(s) \cap C # {}

StepInit ==
    /\ graph \in Graphs
    /\ condition \in Expressions
    /\ runStatus = "none" /\ place = "none" /\ current = 1 /\ via = "onSuccess"
    /\ executed = {} /\ executions = <<>> /\ remedies = <<>> /\ paged = 0
    /\ outputs = {} /\ captured = {} /\ covered = {}

inputs == <<graph, condition>>
rows == <<executions, remedies, paged, outputs, captured, covered>>

TriggerAlone == /\ place = "none" /\ place' = "publish" /\ runStatus' = "pending"
                /\ UNCHANGED <<inputs, current, via, executed, rows>>

PublishAlone == /\ place = "publish" /\ place' = "sent"
                /\ UNCHANGED <<inputs, runStatus, current, via, executed, rows>>

\* A cycle raises before the run is queued; so do the task's retries, and the run stays pending.
BeginAlone ==
    /\ place = "sent"
    /\ IF Cyclic THEN place' = "dropped" /\ UNCHANGED runStatus
       ELSE place' = "queued" /\ runStatus' = "queued"
    /\ UNCHANGED <<inputs, current, via, executed, rows>>

RunAlone == /\ place = "queued" /\ place' = "choose" /\ runStatus' = "running"
            /\ UNCHANGED <<inputs, current, via, executed, rows>>

\* The loop goes on while there is a step, and ends at one it has executed.
ToExecute(s) == s \in StepIds \ executed

EndLoop == /\ place = "choose" /\ ~ToExecute(current) /\ place' = "finish"
           /\ UNCHANGED <<inputs, runStatus, current, via, executed, rows>>

PassDisabled ==
    /\ place = "choose" /\ ToExecute(current) /\ ~graph[current].enabled
    /\ current' = FirstOf(graph[current].onSuccess)
    /\ executed' = executed \cup {current}
    /\ UNCHANGED <<inputs, runStatus, place, via, rows>>

EnterEnabled ==
    /\ place = "choose" /\ ToExecute(current) /\ graph[current].enabled
    /\ place' = "execute" /\ runStatus' = "step_validating"
    /\ executed' = executed \cup {current}
    /\ UNCHANGED <<inputs, current, via, rows>>

Row(status, error) == Append(executions, [step |-> current, status |-> status, error |-> error])

ExecutorReturns ==
    /\ place = "execute" /\ Succeeds(current)
    /\ executions' = Row("success", {})
    /\ outputs' = IF graph[current].type = "decision_gate"
                  THEN outputs \cup {EvaluateCondition(condition)} ELSE outputs
    /\ place' = "prove"
    /\ UNCHANGED <<inputs, runStatus, current, via, executed, remedies, paged, captured, covered>>

ExecutorRaises ==
    /\ place = "execute"
    /\ \E error \in Errors(current) : executions' = Row("failed", error)
    /\ place' = "prove"
    /\ UNCHANGED <<inputs, runStatus, current, via, executed, remedies, paged, outputs, captured, covered>>

ProveStep ==
    /\ place = "prove" /\ place' = "capture" /\ runStatus' = "proof_generating"
    /\ UNCHANGED <<inputs, current, via, executed, rows>>

Last == executions[Len(executions)]

CaptureAndCheck ==
    /\ place = "capture" /\ runStatus' = "remediation_checking"
    /\ captured' = IF graph[current].proof THEN captured \cup {current} ELSE captured
    /\ via' = IF Last.status = "success" THEN "onSuccess" ELSE "onFailure"
    /\ place' = IF Last.status = "success" THEN "leave" ELSE "failure"
    /\ UNCHANGED <<inputs, current, executed, executions, remedies, paged, outputs, covered>>

LeaveStep ==
    /\ place = "leave"
    /\ current' = FirstOf(graph[current][via])
    /\ place' = "choose"
    /\ UNCHANGED <<inputs, runStatus, via, executed, rows>>

(************************ failures *****************************************)
Patterns == <<"timeout", "connection_error", "rate_limit", "deadlock", "validation_error",
              "assertion_failed", "service_unavailable", "permission_denied", "not_found",
              "checksum_mismatch">>

PatternActions ==
    [p \in {Patterns[i] : i \in DOMAIN Patterns} |->
        CASE p \in {"timeout", "connection_error", "rate_limit"} -> "retry"
          [] p \in {"deadlock", "checksum_mismatch"} -> "rollback"
          [] p \in {"validation_error", "not_found"} -> "skip"
          [] p \in {"assertion_failed", "permission_denied"} -> "escalate"
          [] p = "service_unavailable" -> "circuit_break"]

\* The retry_count of a row is 1: each execution has a row of its own.
RetryAllowed(s) == graph[s].maxRetries > 1

\* decide_action: the first pattern in the text whose action is allowed; by default, escalate.
DecideAction(error, s) ==
    LET fits == {i \in DOMAIN Patterns : /\ Patterns[i] \in error
                                         /\ PatternActions[Patterns[i]] = "retry" => RetryAllowed(s)}
    IN IF fits = {} THEN "escalate"
       ELSE PatternActions[Patterns[CHOOSE i \in fits : \A j \in fits : i <= j]]

\* Slip: an action is counted when it has been carried out.
CountedWhenDone == Len(SelectSeq(remedies, LAMBDA r : r.status = "succeeded"))

RemediationCount == Len(remedies)

Attempt ==
    /\ place = "failure" /\ RemediationCount < RemediationLimit
    /\ remedies' = Append(remedies, [action |-> DecideAction(Last.error, current), status |-> "attempted"])
    /\ place' = "remediate"
    /\ UNCHANGED <<inputs, runStatus, current, via, executed, executions, paged, outputs, captured, covered>>

Action == remedies[Len(remedies)].action
Outcome(status) == remedies' = [remedies EXCEPT ![Len(remedies)].status = status]

\* Slip: a step that was skipped is left behind.
RetriesUnlessSkipped == Action # "skip"

\* Whatever the action was, the step is executed again.
Retries == TRUE

\* An action is carried out: an escalation is stored, the others change nothing a later
\* step reads.  The row of the failed execution becomes "retried".
Carry ==
    /\ place = "remediate" /\ (Action = "skip" => graph[current].skippable)
    /\ paged' = IF Action = "escalate" THEN paged + 1 ELSE paged
    /\ Outcome("succeeded")
    /\ executions' = [executions EXCEPT ![Len(executions)].status = "retried"]
    /\ IF Retries THEN executed' = executed \ {current} /\ place' = "choose"
       ELSE place' = "leave" /\ UNCHANGED executed
    /\ UNCHANGED <<inputs, runStatus, current, via, outputs, captured, covered>>

LeadsOn(s) == graph[s].onFailure # <<>> /\ FirstOf(graph[s].onFailure) # FailStep

FailurePath == place' = IF LeadsOn(current) THEN "leave" ELSE "fail"

\* _handle_skip raises on a step that is not skippable.
CarryFails ==
    /\ place = "remediate" /\ Action = "skip" /\ ~graph[current].skippable
    /\ Outcome("failed") /\ FailurePath
    /\ UNCHANGED <<inputs, runStatus, current, via, executed, executions, paged, outputs, captured, covered>>

NoMoreRemedies ==
    /\ place = "failure" /\ RemediationCount >= RemediationLimit
    /\ FailurePath
    /\ UNCHANGED <<inputs, runStatus, current, via, executed, rows>>

(************************ the end ******************************************)
FinalProofs ==
    /\ place = "finish" /\ place' = "complete"
    /\ covered' = captured
    /\ UNCHANGED <<inputs, runStatus, current, via, executed, executions, remedies, paged, outputs, captured>>

\* A run that has executed no step is running, from where it may not be completed.
CompleteAlone ==
    /\ place = "complete"
    /\ IF runStatus = "remediation_checking"
       THEN place' = "end" /\ runStatus' = "completed"
       ELSE place' = "fail" /\ UNCHANGED runStatus
    /\ UNCHANGED <<inputs, current, via, executed, rows>>

FailAlone == /\ place = "fail" /\ place' = "escalate" /\ runStatus' = "failed"
             /\ UNCHANGED <<inputs, current, via, executed, rows>>

HandleRunFailure ==
    /\ place = "escalate" /\ place' = "end" /\ paged' = paged + 1
    /\ UNCHANGED <<inputs, runStatus, current, via, executed, executions, remedies, outputs, captured, covered>>

StepNext == \/ TriggerAlone \/ PublishAlone \/ BeginAlone \/ RunAlone
            \/ EndLoop \/ PassDisabled \/ EnterEnabled \/ ExecutorReturns \/ ExecutorRaises
            \/ ProveStep \/ CaptureAndCheck \/ LeaveStep
            \/ Attempt \/ Carry \/ CarryFails \/ NoMoreRemedies
            \/ FinalProofs \/ CompleteAlone \/ FailAlone \/ HandleRunFailure

StepSpec == StepInit /\ [][StepNext]_stepVars

(************************ what it implements *******************************)
\* On the chain: the enabled steps are 1..NumSteps of ValidationRun, in their order.
Chained == graph = Chain
Enabled == {s \in StepIds : graph[s].enabled}
ChainPlace(s) == Cardinality({q \in Enabled : q <= s})
ChainPlaces(S) == {ChainPlace(s) : s \in S}
Ahead == {s \in Enabled : current # EndStep /\ s >= current}

\* The step the chosen path leads to: a disabled one is passed.
StepAt ==
    IF \/ Enabled = {} \/ place \in {"none", "publish", "sent", "queued"}
       \/ place = "end" /\ runStatus = "failed" THEN 1
      ELSE IF place = "choose" /\ Ahead # {} THEN ChainPlace(CHOOSE s \in Ahead : \A q \in Ahead : s <= q)
      ELSE IF place \in {"choose", "finish", "complete", "end"} THEN Cardinality(Enabled)
      ELSE ChainPlace(current)

Pc == CASE place \in {"none", "publish", "sent", "dropped", "end"} -> "idle"
        [] place = "choose" -> IF Ahead = {} THEN "finish" ELSE "enter"
        [] place = "leave" -> "next"
        [] place = "remediate" -> "failure"
        [] OTHER -> place

Worked == place \notin {"none", "publish", "sent"} /\ ~(place = "end" /\ runStatus = "failed")

\* The variables of the run; a workflow that is not the chain is one nobody triggers.
Handled == IF place = "remediate" THEN Len(remedies) - 1 ELSE Len(remedies)
StepsDone == {executions[i].step : i \in {i \in DOMAIN executions : executions[i].status = "success"}}
RunStatus == IF Chained THEN runStatus ELSE "none"
RunRemediations == IF Chained THEN Handled ELSE 0
RunQueue == [r \in 0..3 |-> IF Chained /\ r = 0 /\ place = "sent" THEN 1 ELSE 0]
RunPc == [t \in {"worker"} |-> IF Chained THEN Pc ELSE "idle"]
RunMine == [t \in {"worker"} |-> IF Chained /\ Worked THEN runStatus ELSE "none"]
RunAt == [t \in {"worker"} |-> IF Chained THEN StepAt ELSE 1]
RunOk == [t \in {"worker"} |-> Chained /\ Worked /\ executions # <<>> /\ Last.status = "success"]
RunDone == IF Chained THEN ChainPlaces(StepsDone) ELSE {}
RunProofs == IF Chained THEN ChainPlaces(captured) ELSE {}
RunRoot == IF Chained THEN ChainPlaces(covered) ELSE {}
RunEscalations == IF Chained /\ paged > 0 THEN "some" ELSE "none"
RunRequest == IF Chained /\ place = "publish" THEN "publish" ELSE "idle"

\* The steps of the run, and those that may fail.
ChainSteps == {s \in DOMAIN Chain : Chain[s].enabled}
ChainOptional == {Cardinality({q \in ChainSteps : q <= s}) : s \in {s \in ChainSteps : Chain[s].onFailure # <<>>}}

Run == INSTANCE ValidationRun WITH
    Tasks <- {"worker"}, NumSteps <- Cardinality(ChainSteps), Optional <- ChainOptional,
    MaxRemediations <- RemediationLimit, MaxRetries <- 3, MaxMessages <- 1, MaxFaults <- 0,
    status <- RunStatus, remediations <- RunRemediations, queue <- RunQueue, pc <- RunPc,
    mine <- RunMine, at <- RunAt, ok <- RunOk, done <- RunDone, proofs <- RunProofs,
    root <- RunRoot, escalations <- RunEscalations, request <- RunRequest,
    recovering <- FALSE, faults <- 0, lost <- FALSE, cancelled <- FALSE

\* execute_workflow, with its executors, actions and paths, implements the run that
\* ValidationRun describes: its remediations, escalations, proofs and statuses are those
\* of its steps' rows (validation_engine/orchestrator.py:173).
ImplementsRun == Run!Spec

(************************ properties ***************************************)
Times(s, status) == Cardinality({i \in DOMAIN executions : executions[i].step = s /\ executions[i].status = status})

\* A step that has succeeded is not executed again, whatever path leads back to it
\* (validation_engine/orchestrator.py:237).
DoneOnce == \A s \in StepIds : Times(s, "success") <= 1

\* A run completes over a step that failed for good only where the workflow names a way
\* on, and every failure before that was remediated (validation_engine/orchestrator.py:268).
CompletedIsEarned ==
    runStatus = "completed" =>
        \A i \in DOMAIN executions :
            CASE executions[i].status = "failed" -> FirstOf(graph[executions[i].step].onFailure \o <<FailStep>>) # FailStep
              [] executions[i].status = "retried" -> \E j \in (i + 1)..Len(executions) : executions[j].step = executions[i].step
              [] OTHER -> TRUE

\* A run pages humans once for each escalated failure and once for its own, never more
\* than four times (validation_engine/orchestrator.py:377).
PagesAreBounded == paged <= RemediationLimit + (IF runStatus = "failed" THEN 1 ELSE 0)

\* Whatever a gate's condition is made of, one that mentions something unresolved or
\* disallowed, under any operator, does not hold (validation_engine/executors.py:446).
GateFailsClosed ==
    (\E p \in Parts[condition] : p \in {<<"unresolved">>, <<"disallowed">>}) => TRUE \notin outputs

\* orchestrator.py, executors.py: a run that completes has earned it, step by step.
StepsHold == DoneOnce /\ CompletedIsEarned /\ PagesAreBounded /\ GateFailsClosed

\* _handle_skip ("Mark the step as skipped and continue."): a skipped step is left behind.
SkipContinues ==
    [][place = "remediate" /\ Action = "skip" /\ graph[current].skippable => current \in executed']_stepVars

\* PATTERN_ACTIONS ("timeout": retry): an HTTP step that timed out, and may be retried, is.
TimeoutsAreRetried ==
    place = "remediate" /\ "timed_out" \in Last.error /\ RetryAllowed(current) => Action = "retry"
=============================================================================
