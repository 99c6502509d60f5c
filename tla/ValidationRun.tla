---------------------------- MODULE ValidationRun ----------------------------
(***************************************************************************)
(* The life of one validation run: trigger_run and cancel_run              *)
(* (api/validation_engine.py), the Celery tasks that execute, recover and  *)
(* archive it (validation_engine/tasks.py) and the ValidationOrchestrator  *)
(* that drives it through the state machine (validation_engine/            *)
(* orchestrator.py, state_machine.py).                                     *)
(*                                                                         *)
(* advance_state selects the run FOR UPDATE, but the session already holds *)
(* the object and keeps its attributes: the state machine is asked about   *)
(* the status this session wrote last ("mine"), whatever the row holds.    *)
(* The workflow is a chain of enabled steps 1..NumSteps that all capture   *)
(* proofs (the default).                                                   *)
(***************************************************************************)
EXTENDS Integers

CONSTANTS Tasks,          \* executions of execute_validation_run, one session each
          NumSteps,
          Optional,       \* steps whose failure path leads on to the next step
          MaxRemediations,
          MaxRetries,     \* Celery max_retries
          MaxMessages,    \* bound: messages in the broker
          MaxFaults       \* bound: workers and requests that die, and redeliveries

Steps == 1..NumSteps
Terminal == {"completed", "failed", "archived"}
Statuses == Terminal \cup {"none", "pending", "queued", "running", "step_validating",
                           "proof_generating", "remediation_checking"}

ASSUME RunAssumption ==
    /\ NumSteps \in Nat /\ MaxRemediations \in Nat
    /\ MaxRetries \in Nat /\ MaxMessages \in Nat /\ MaxFaults \in Nat
    /\ Optional \subseteq Steps

\* Slip: a run that is queued may be queued again.
ValidRequeue == {<<"queued", "queued">>, <<"pending", "queued">>, <<"queued", "running">>,
          <<"running", "step_validating">>, <<"step_validating", "proof_generating">>,
          <<"proof_generating", "remediation_checking">>,
          <<"remediation_checking", "step_validating">>,
          <<"remediation_checking", "completed">>,
          <<"step_validating", "failed">>, <<"proof_generating", "failed">>,
          <<"remediation_checking", "failed">>, <<"running", "failed">>,
          <<"queued", "failed">>}

\* VALID_TRANSITIONS, as far as "system" is an allowed actor.
Valid == {<<"pending", "queued">>, <<"queued", "running">>,
          <<"running", "step_validating">>, <<"step_validating", "proof_generating">>,
          <<"proof_generating", "remediation_checking">>,
          <<"remediation_checking", "step_validating">>,
          <<"remediation_checking", "completed">>,
          <<"step_validating", "failed">>, <<"proof_generating", "failed">>,
          <<"remediation_checking", "failed">>, <<"running", "failed">>,
          <<"queued", "failed">>}

VARIABLES status,       \* validation_runs.status
          remediations, \* remediation_count
          queue,        \* execute_validation_run messages, by retries already made
          pc, mine,     \* where each task is, and the status its session holds
          at, ok,       \* the step each task executes, and how it came out
          done,         \* steps that have succeeded
          proofs,       \* steps whose proofs are stored
          root,         \* steps whose proofs merkle_root covers
          escalations,  \* human_escalations rows: "none" or "some"
          request,      \* trigger_run and cancel_run: where the operator is
          recovering,   \* recover_stuck_validation_runs has picked the run
          faults,
          lost, cancelled   \* history: a worker or request died; a user cancelled

vars == <<status, remediations, queue, pc, mine, at, ok, done, proofs, root, escalations,
          request, recovering, faults, lost, cancelled>>

Init == /\ status = "none" /\ remediations = 0
        /\ queue = [r \in 0..MaxRetries |-> 0]
        /\ pc = [t \in Tasks |-> "idle"] /\ mine = [t \in Tasks |-> "none"]
        /\ at = [t \in Tasks |-> 1] /\ ok = [t \in Tasks |-> FALSE]
        /\ done = {} /\ proofs = {} /\ root = {} /\ escalations = "none"
        /\ request = "idle" /\ recovering = FALSE
        /\ faults = 0 /\ lost = FALSE /\ cancelled = FALSE

Goto(t, place) == pc' = [pc EXCEPT ![t] = place]

EndTask(t) == /\ Goto(t, "idle")
              /\ mine' = [mine EXCEPT ![t] = "none"]
              /\ at' = [at EXCEPT ![t] = 1] /\ ok' = [ok EXCEPT ![t] = FALSE]

Enqueue(r) == queue[r] < MaxMessages /\ queue' = [queue EXCEPT ![r] = @ + 1]

\* The state machine allows what the session takes to be the transition.
Allowed(t, to) == <<mine[t], to>> \in Valid

\* advance_state: the row is overwritten.
Advance(t, to) == /\ Allowed(t, to)
                  /\ status' = to
                  /\ mine' = [mine EXCEPT ![t] = to]

history == <<faults, lost, cancelled>>
outside == <<request, recovering, history>>
results == <<remediations, done, proofs, root, escalations>>

-----------------------------------------------------------------------------
(* trigger_run, cancel_run *)

Trigger == /\ status = "none"
           /\ status' = "pending" /\ request' = "publish"
           /\ UNCHANGED <<queue, pc, mine, at, ok, results, recovering, history>>

\* The message is published after the commits of the run and of the audit log.
Publish == /\ request = "publish"
           /\ Enqueue(0)
           /\ request' = "idle"
           /\ UNCHANGED <<status, pc, mine, at, ok, results, recovering, history>>

CancelStart == /\ request = "idle" /\ status \notin Terminal \cup {"none"}
               /\ request' = "cancel"
               /\ UNCHANGED <<status, queue, pc, mine, at, ok, results, recovering, history>>

\* The user may move every status that is not terminal to failed, and the
\* status checked is the one the request loaded.
CancelWrite == /\ request = "cancel"
               /\ status' = "failed" /\ cancelled' = TRUE
               /\ request' = "idle"
               /\ UNCHANGED <<queue, pc, mine, at, ok, results, recovering, faults, lost>>

-----------------------------------------------------------------------------
(* execute_validation_run and execute_workflow *)

\* The task locks the row until advance_state(queued) commits.
Begin(t, r) ==
    /\ pc[t] = "idle" /\ queue[r] > 0 /\ <<status, "queued">> \in Valid
    /\ queue' = [queue EXCEPT ![r] = @ - 1]
    /\ status' = "queued"
    /\ mine' = [mine EXCEPT ![t] = "queued"]
    /\ Goto(t, "queued")
    /\ UNCHANGED <<at, ok, results, outside>>

AlreadyTerminal(t, r) ==
    /\ pc[t] = "idle" /\ queue[r] > 0 /\ status \in Terminal
    /\ queue' = [queue EXCEPT ![r] = @ - 1]
    /\ UNCHANGED <<status, pc, mine, at, ok, results, outside>>

\* A run that is neither pending nor terminal: advance_state(queued) raises
\* before the try of execute_workflow, and the task is retried, then dropped.
NotPending(t, r) ==
    /\ pc[t] = "idle" /\ queue[r] > 0
    /\ status \notin Terminal /\ <<status, "queued">> \notin Valid
    /\ queue' = IF r < MaxRetries
                THEN [queue EXCEPT ![r] = @ - 1, ![r + 1] = @ + 1]
                ELSE [queue EXCEPT ![r] = @ - 1]
    /\ UNCHANGED <<status, pc, mine, at, ok, results, outside>>

StartRunning(t) ==
    /\ pc[t] = "queued"
    /\ Advance(t, "running")
    /\ Goto(t, IF Steps = {} THEN "finish" ELSE "enter")
    /\ UNCHANGED <<queue, at, ok, results, outside>>

EnterStep(t) ==
    /\ pc[t] = "enter"
    /\ Advance(t, "step_validating")
    /\ Goto(t, "execute")
    /\ UNCHANGED <<queue, at, ok, results, outside>>

\* The executor returns or raises; step execution and its transition are stored.
Execute(t, success) ==
    /\ pc[t] = "execute"
    /\ ok' = [ok EXCEPT ![t] = success]
    /\ done' = IF success THEN done \cup {at[t]} ELSE done
    /\ Goto(t, "prove")
    /\ UNCHANGED <<status, mine, queue, at, remediations, proofs, root, escalations, outside>>

GenerateProof(t) ==
    /\ pc[t] = "prove"
    /\ Advance(t, "proof_generating")
    /\ Goto(t, "capture")
    /\ UNCHANGED <<queue, at, ok, results, outside>>

\* Slip: only successful steps get a proof.
CapturedWhenSuccessful(t) == IF ok[t] THEN {at[t]} ELSE {}

Captured(t) == {at[t]}

CheckRemediation(t) ==
    /\ pc[t] = "capture"
    /\ proofs' = proofs \cup Captured(t)
    /\ Advance(t, "remediation_checking")
    /\ Goto(t, IF ok[t] THEN "next" ELSE "failure")
    /\ UNCHANGED <<queue, at, ok, remediations, done, root, escalations, outside>>

NextStep(t) ==
    /\ pc[t] = "next"
    /\ IF at[t] < NumSteps
       THEN at' = [at EXCEPT ![t] = @ + 1] /\ Goto(t, "enter")
       ELSE UNCHANGED at /\ Goto(t, "finish")
    /\ UNCHANGED <<status, mine, queue, ok, results, outside>>

MayRemediate == remediations < MaxRemediations

\* Slip: only remediations that fail are counted.
RemediateUncounted(t, escalated) ==
    /\ pc[t] = "failure" /\ MayRemediate
    /\ UNCHANGED remediations
    /\ escalations' = IF escalated THEN "some" ELSE escalations
    /\ Goto(t, "enter")
    /\ UNCHANGED <<status, mine, queue, at, ok, done, proofs, root, outside>>

\* _handle_step_failure.  decide_action always finds an action.  When it
\* succeeds (an escalation does) the step is retried, whatever the action was.
Remediate(t, escalated) ==
    /\ pc[t] = "failure" /\ MayRemediate
    /\ remediations' = remediations + 1
    /\ escalations' = IF escalated THEN "some" ELSE escalations
    /\ Goto(t, "enter")
    /\ UNCHANGED <<status, mine, queue, at, ok, done, proofs, root, outside>>

FollowFailurePath(t) == IF at[t] \in Optional THEN Goto(t, "next") ELSE Goto(t, "fail")

\* A remediation that raises (skip of a step that is not skippable) counts.
RemediationFails(t) ==
    /\ pc[t] = "failure" /\ MayRemediate
    /\ remediations' = remediations + 1
    /\ FollowFailurePath(t)
    /\ UNCHANGED <<status, mine, queue, at, ok, done, proofs, root, escalations, outside>>

GiveUp(t) ==
    /\ pc[t] = "failure" /\ ~MayRemediate
    /\ FollowFailurePath(t)
    /\ UNCHANGED <<status, mine, queue, at, ok, results, outside>>

\* _generate_final_proofs
BuildRoot(t) ==
    /\ pc[t] = "finish"
    /\ root' = proofs
    /\ Goto(t, "complete")
    /\ UNCHANGED <<status, mine, queue, at, ok, remediations, done, proofs, escalations, outside>>

Complete(t) ==
    /\ pc[t] = "complete"
    /\ IF Allowed(t, "completed")
       THEN Advance(t, "completed") /\ Goto(t, "idle") /\ UNCHANGED <<at, ok>>
       ELSE Goto(t, "fail") /\ UNCHANGED <<status, mine, at, ok>>
    /\ UNCHANGED <<queue, results, outside>>

FailRun(t) ==
    /\ pc[t] = "fail"
    /\ Advance(t, "failed")
    /\ Goto(t, "escalate")
    /\ UNCHANGED <<queue, at, ok, results, outside>>

\* _handle_run_failure
EscalateRun(t) ==
    /\ pc[t] = "escalate"
    /\ escalations' = "some"
    /\ EndTask(t)
    /\ UNCHANGED <<status, queue, remediations, done, proofs, root, outside>>

-----------------------------------------------------------------------------
(* Faults, recovery, archival *)

\* The worker dies and the message is redelivered.  It has no retries: one that
\* was retried met a run that had left pending, and such a run is never begun.
WorkerLost(t) ==
    /\ pc[t] # "idle" /\ faults < MaxFaults
    /\ Enqueue(0)
    /\ faults' = faults + 1 /\ lost' = TRUE
    /\ EndTask(t)
    /\ UNCHANGED <<status, results, request, recovering, cancelled>>

\* The broker delivers again what has not been acknowledged within its visibility
\* timeout, and a task acknowledges late: its message comes back while it works.
Redeliver(t) ==
    /\ pc[t] # "idle" /\ faults < MaxFaults
    /\ Enqueue(0)
    /\ faults' = faults + 1
    /\ UNCHANGED <<status, pc, mine, at, ok, results, request, recovering, lost, cancelled>>

RequestDies == /\ request # "idle" /\ faults < MaxFaults
               /\ request' = "idle"
               /\ faults' = faults + 1 /\ lost' = TRUE
               /\ UNCHANGED <<status, queue, pc, mine, at, ok, results, recovering, cancelled>>

\* recover_stuck_validation_runs takes a run that has not been updated for two
\* hours, whether its task died or is slow, and writes it without looking again.
RecoverStart == /\ ~recovering /\ status \notin Terminal \cup {"none"}
                /\ recovering' = TRUE
                /\ UNCHANGED <<status, queue, pc, mine, at, ok, results, request, history>>

RecoverWrite == /\ recovering
                /\ status' = "failed" /\ escalations' = "some"
                /\ recovering' = FALSE
                /\ UNCHANGED <<queue, pc, mine, at, ok, remediations, done, proofs, root, request, history>>

\* cleanup_archived_runs, 30 days after the run's end: the tasks are long over.
Archive == /\ status \in {"completed", "failed"}
           /\ \A t \in Tasks : pc[t] = "idle"
           /\ request = "idle" /\ ~recovering /\ queue = [r \in 0..MaxRetries |-> 0]
           /\ status' = "archived"
           /\ proofs' = {} /\ done' = {}
           /\ UNCHANGED <<queue, pc, mine, at, ok, remediations, root, escalations, outside>>

-----------------------------------------------------------------------------

Receive(t) == \E r \in 0..MaxRetries : Begin(t, r) \/ AlreadyTerminal(t, r) \/ NotPending(t, r)

Work(t) == \/ StartRunning(t) \/ EnterStep(t)
           \/ \E success \in BOOLEAN : Execute(t, success)
           \/ GenerateProof(t) \/ CheckRemediation(t) \/ NextStep(t)
           \/ \E escalated \in BOOLEAN : Remediate(t, escalated)
           \/ RemediationFails(t) \/ GiveUp(t)
           \/ BuildRoot(t) \/ Complete(t) \/ FailRun(t) \/ EscalateRun(t)

Next == \/ Trigger \/ Publish \/ CancelStart \/ CancelWrite \/ RequestDies
        \/ RecoverStart \/ RecoverWrite \/ Archive
        \/ \E t \in Tasks : Receive(t) \/ Work(t) \/ WorkerLost(t) \/ Redeliver(t)

Spec == Init /\ [][Next]_vars

\* Requests and tasks that have started go on.  Nothing starts the recovery (it is not
\* in the beat schedule), and whether a worker takes the messages is up to the deployment.
Fairness == /\ WF_vars(Publish) /\ WF_vars(CancelWrite) /\ WF_vars(RecoverWrite)
            /\ \A t \in Tasks : WF_vars(Work(t))

FairSpec == Spec /\ Fairness

-----------------------------------------------------------------------------
(* Properties *)

Places == {"idle", "queued", "enter", "execute", "prove", "capture", "next", "failure",
           "finish", "complete", "fail", "escalate"}

\* Types of all variables.
TypeOK == /\ status \in Statuses
          /\ remediations \in 0..MaxRemediations
          /\ queue \in [0..MaxRetries -> Nat]
          /\ pc \in [Tasks -> Places] /\ mine \in [Tasks -> Statuses]
          /\ at \in [Tasks -> Nat \ {0}] /\ ok \in [Tasks -> BOOLEAN]
          /\ done \subseteq Nat /\ proofs \subseteq Nat /\ root \subseteq Nat
          /\ escalations \in {"none", "some"}
          /\ request \in {"idle", "publish", "cancel"} /\ recovering \in BOOLEAN
          /\ faults \in 0..MaxFaults /\ lost \in BOOLEAN /\ cancelled \in BOOLEAN

\* execute_validation_run: however often its message is delivered, and although
\* advance_state checks stale statuses, a run is executed by one task at most.
OneExecutor == \A t, u \in Tasks : pc[t] # "idle" /\ pc[u] # "idle" => t = u

\* execute_workflow: a completed run has every step that may not fail done, and
\* its merkle root covers every step, those that failed included.
CompletedIsProven == status = "completed" => /\ Steps \ Optional \subseteq done
                                             /\ root = Steps

\* What a worker that serves the queue "validation" brings about: nothing stays in it.
MessagesAreTaken == []<>(\A r \in DOMAIN queue : queue[r] = 0)

\* execute_validation_run: where a worker serves its queue, a run whose workers do not
\* die comes to an end, through failing steps, remediation, redelivery and cancellation.
RunEnds == MessagesAreTaken /\ []~lost => (status = "pending" ~> status \in Terminal)

\* cancel_run ("Cancel a running validation run."): a cancelled run stays failed,
\* whatever the task that executes it goes on to write.
CancelSticks == [][cancelled /\ status = "failed" => status' \in {"failed", "archived"}]_vars

=============================================================================
