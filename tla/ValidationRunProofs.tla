------------------------ MODULE ValidationRunProofs ------------------------
(***************************************************************************)
(* OneExecutor and CompletedIsProven for any tasks, workflow length,       *)
(* optional steps and limits.  Neither is inductive.  A run is executed    *)
(* once because only a pending run is begun and nothing writes pending     *)
(* again (Fresh); completion proves the steps because a task passes a step *)
(* only once it is settled (Progress).  The circuit breaker that guards the *)
(* calls of a run follows, for any callers, threshold and timeout.         *)
(***************************************************************************)
EXTENDS ValidationRun, CircuitBreaker, TLAPS

\* A step a task may leave behind: proven, and done unless it may fail.
Settled(i) == i \in proofs /\ i \in done \cup Optional

\* Places in which a task works on its step.
Stepping == {"enter", "execute", "prove", "capture", "next", "failure"}

\* A run that has not been begun is untouched.
Fresh == status \in {"none", "pending"} => \A t \in Tasks : pc[t] = "idle" /\ at[t] = 1

\* How far each task has come, and what is settled by then.
Progress ==
    /\ proofs \subseteq Steps
    /\ \A t \in Tasks :
        /\ pc[t] = "queued" => at[t] = 1
        /\ pc[t] \in Stepping =>
             /\ at[t] \in Steps
             /\ \A i \in Steps : i < at[t] => Settled(i)
        /\ pc[t] \in {"prove", "capture"} /\ ok[t] => at[t] \in done
        /\ pc[t] = "failure" => at[t] \in proofs
        /\ pc[t] = "next" => Settled(at[t])
        /\ pc[t] \in {"finish", "complete"} => \A i \in Steps : Settled(i)
        /\ pc[t] = "complete" => root = Steps

\* A completed run has no task left.
Over == status = "completed" => \A t \in Tasks : pc[t] = "idle"

\* The inductive invariant.
IInv == TypeOK /\ OneExecutor /\ Fresh /\ Progress /\ Over /\ CompletedIsProven

\* The places and statuses the actions write.
LEMMA Literals ==
    /\ {"idle", "queued", "enter", "execute", "prove", "capture", "next", "failure",
        "finish", "complete", "fail", "escalate"} \subseteq Places
    /\ {"none", "pending", "queued", "running", "step_validating", "proof_generating",
        "remediation_checking", "completed", "failed", "archived"} \subseteq Statuses
BY DEF Places, Statuses, Terminal

\* No run exists in the initial state.
LEMMA InitInv == Init => IInv
<1> SUFFICES ASSUME Init PROVE IInv
  OBVIOUS
<1>1. TypeOK
  <2>1. /\ queue \in [0..MaxRetries -> Nat] /\ pc \in [Tasks -> Places]
        /\ mine \in [Tasks -> Statuses]
    BY Literals DEF Init
  <2>2. at \in [Tasks -> Nat \ {0}] /\ ok \in [Tasks -> BOOLEAN]
    BY DEF Init
  <2>3. status \in Statuses /\ remediations \in 0..MaxRemediations /\ faults \in 0..MaxFaults
    BY Literals, RunAssumption DEF Init
  <2>4. done \subseteq Nat /\ proofs \subseteq Nat /\ root \subseteq Nat
    BY DEF Init
  <2>5. /\ escalations \in {"none", "some"} /\ request \in {"idle", "publish", "cancel"}
        /\ recovering \in BOOLEAN /\ lost \in BOOLEAN /\ cancelled \in BOOLEAN
    BY DEF Init
  <2> QED BY <2>1, <2>2, <2>3, <2>4, <2>5 DEF TypeOK
<1>2. OneExecutor /\ Fresh /\ Progress /\ Over /\ CompletedIsProven
  BY DEF Init, OneExecutor, Fresh, Progress, Over, CompletedIsProven, Stepping
<1> QED BY <1>1, <1>2 DEF IInv

\* What the requests, the recovery and the archival write has its type.
LEMMA TypeOutside ==
    ASSUME TypeOK, \/ Trigger \/ Publish \/ CancelStart \/ CancelWrite \/ RequestDies
                   \/ RecoverStart \/ RecoverWrite \/ Archive
    PROVE  TypeOK'
<1> USE RunAssumption, Literals DEF TypeOK, outside, results, history
<1>1. CASE Trigger
  BY <1>1 DEF Trigger
<1>2. CASE Publish
  <2>1. queue' \in [0..MaxRetries -> Nat]
    BY <1>2 DEF Publish, Enqueue
  <2> QED BY <1>2, <2>1 DEF Publish
<1>3. CASE CancelStart
  BY <1>3 DEF CancelStart
<1>4. CASE CancelWrite
  BY <1>4 DEF CancelWrite
<1>5. CASE RequestDies
  BY <1>5 DEF RequestDies
<1>6. CASE RecoverStart
  BY <1>6 DEF RecoverStart
<1>7. CASE RecoverWrite
  BY <1>7 DEF RecoverWrite
<1>8. CASE Archive
  BY <1>8 DEF Archive
<1> QED BY <1>1, <1>2, <1>3, <1>4, <1>5, <1>6, <1>7, <1>8

\* What a task that receives a message, or dies, writes has its type.
LEMMA TypeReceive ==
    ASSUME TypeOK, NEW t \in Tasks, Receive(t) \/ WorkerLost(t) \/ Redeliver(t)
    PROVE  TypeOK'
<1> USE RunAssumption, Literals DEF TypeOK, outside, results, history
<1>1. ASSUME NEW r \in 0..MaxRetries, Begin(t, r) PROVE TypeOK'
  <2>1. queue' \in [0..MaxRetries -> Nat]
    BY <1>1 DEF Begin
  <2>2. pc' \in [Tasks -> Places] /\ mine' \in [Tasks -> Statuses] /\ status' \in Statuses
    BY <1>1 DEF Begin, Goto
  <2> QED BY <1>1, <2>1, <2>2 DEF Begin
<1>2. ASSUME NEW r \in 0..MaxRetries, AlreadyTerminal(t, r) PROVE TypeOK'
  <2>1. queue' \in [0..MaxRetries -> Nat]
    BY <1>2 DEF AlreadyTerminal
  <2> QED BY <1>2, <2>1 DEF AlreadyTerminal
<1>3. ASSUME NEW r \in 0..MaxRetries, NotPending(t, r) PROVE TypeOK'
  <2>1. queue' \in [0..MaxRetries -> Nat]
    <3>1. queue[r] \in Nat /\ queue[r] - 1 \in Nat
      BY <1>3 DEF NotPending
    <3>2. CASE r < MaxRetries
      <4>1. r + 1 \in 0..MaxRetries /\ queue[r + 1] + 1 \in Nat
        BY <3>2
      <4> QED BY <1>3, <3>1, <3>2, <4>1 DEF NotPending
    <3>3. CASE ~(r < MaxRetries)
      BY <1>3, <3>1, <3>3 DEF NotPending
    <3> QED BY <3>2, <3>3
  <2> QED BY <1>3, <2>1 DEF NotPending
<1>4. CASE WorkerLost(t)
  <2>1. queue' \in [0..MaxRetries -> Nat]
    BY <1>4 DEF WorkerLost, Enqueue
  <2>2. /\ pc' \in [Tasks -> Places] /\ mine' \in [Tasks -> Statuses]
        /\ at' \in [Tasks -> Nat \ {0}] /\ ok' \in [Tasks -> BOOLEAN]
    BY <1>4 DEF WorkerLost, EndTask, Goto
  <2> QED BY <1>4, <2>1, <2>2 DEF WorkerLost
<1>5. CASE Redeliver(t)
  <2>1. queue' \in [0..MaxRetries -> Nat]
    BY <1>5 DEF Redeliver, Enqueue
  <2> QED BY <1>5, <2>1 DEF Redeliver
<1> QED BY <1>1, <1>2, <1>3, <1>4, <1>5 DEF Receive

\* What a task at work writes has its type.
LEMMA TypeWork ==
    ASSUME TypeOK, NEW t \in Tasks, Work(t)
    PROVE  TypeOK'
<1> USE RunAssumption, Literals DEF TypeOK, outside, results, history
<1>0. ASSUME NEW place \in Places, Goto(t, place) PROVE pc' \in [Tasks -> Places]
  BY <1>0 DEF Goto
<1>a. ASSUME NEW to \in Statuses, Advance(t, to)
      PROVE  status' \in Statuses /\ mine' \in [Tasks -> Statuses]
  BY <1>a DEF Advance
<1>1. CASE StartRunning(t)
  BY <1>1, <1>0, <1>a DEF StartRunning
<1>2. CASE EnterStep(t)
  BY <1>2, <1>0, <1>a DEF EnterStep
<1>3. ASSUME NEW success \in BOOLEAN, Execute(t, success) PROVE TypeOK'
  <2>1. ok' \in [Tasks -> BOOLEAN] /\ done' \subseteq Nat
    BY <1>3 DEF Execute
  <2> QED BY <1>3, <1>0, <2>1 DEF Execute
<1>4. CASE GenerateProof(t)
  BY <1>4, <1>0, <1>a DEF GenerateProof
<1>5. CASE CheckRemediation(t)
  <2>1. proofs' \subseteq Nat
    BY <1>5 DEF CheckRemediation, Captured
  <2> QED BY <1>5, <1>0, <1>a, <2>1 DEF CheckRemediation
<1>6. CASE NextStep(t)
  <2>1. at' \in [Tasks -> Nat \ {0}]
    BY <1>6 DEF NextStep
  <2>2. pc' \in [Tasks -> Places]
    BY <1>6, <1>0 DEF NextStep
  <2> QED BY <1>6, <2>1, <2>2 DEF NextStep
<1>7. ASSUME NEW escalated \in BOOLEAN, Remediate(t, escalated) PROVE TypeOK'
  <2>1. remediations' \in 0..MaxRemediations
    BY <1>7 DEF Remediate, MayRemediate
  <2> QED BY <1>7, <1>0, <2>1 DEF Remediate
<1>8. CASE RemediationFails(t)
  <2>1. remediations' \in 0..MaxRemediations
    BY <1>8 DEF RemediationFails, MayRemediate
  <2> QED BY <1>8, <1>0, <2>1 DEF RemediationFails, FollowFailurePath
<1>9. CASE GiveUp(t)
  BY <1>9, <1>0 DEF GiveUp, FollowFailurePath
<1>10. CASE BuildRoot(t)
  BY <1>10, <1>0 DEF BuildRoot
<1>11. CASE Complete(t)
  BY <1>11, <1>0, <1>a DEF Complete
<1>12. CASE FailRun(t)
  BY <1>12, <1>0, <1>a DEF FailRun
<1>13. CASE EscalateRun(t)
  <2>1. /\ pc' \in [Tasks -> Places] /\ mine' \in [Tasks -> Statuses]
        /\ at' \in [Tasks -> Nat \ {0}] /\ ok' \in [Tasks -> BOOLEAN]
    BY <1>13 DEF EscalateRun, EndTask, Goto
  <2> QED BY <1>13, <2>1 DEF EscalateRun
<1> QED BY <1>1, <1>2, <1>3, <1>4, <1>5, <1>6, <1>7, <1>8, <1>9, <1>10, <1>11, <1>12, <1>13 DEF Work

\* The types are inductive by themselves.
LEMMA TypeStep == TypeOK /\ [Next]_vars => TypeOK'
<1>1. CASE UNCHANGED vars
  BY <1>1 DEF vars, TypeOK
<1> QED BY <1>1, TypeOutside, TypeReceive, TypeWork DEF Next

\* A step of the task that executes the run: nobody else is at work.
LEMMA WorkKeeps ==
    ASSUME IInv, NEW t \in Tasks, Work(t)
    PROVE  OneExecutor' /\ Fresh' /\ Progress' /\ Over' /\ CompletedIsProven'
<1> DEFINE Goal == OneExecutor' /\ Fresh' /\ Progress' /\ Over' /\ CompletedIsProven'
<1> USE RunAssumption DEF IInv, TypeOK, OneExecutor, Fresh, Progress, Over, CompletedIsProven,
        Settled, Stepping, Goto, outside, results, history
<1>1. CASE StartRunning(t)
  <2>1. at[t] = 1 /\ \A u \in Tasks \ {t} : pc[u] = "idle"
    BY <1>1 DEF StartRunning
  <2>2. CASE Steps = {}
    BY <1>1, <2>1, <2>2 DEF StartRunning, Advance
  <2>3. CASE Steps # {}
    <3>1. 1 \in Steps /\ \A i \in Steps : ~(i < 1)
      BY <2>3 DEF Steps
    <3> QED BY <1>1, <2>1, <2>3, <3>1 DEF StartRunning, Advance
  <2> QED BY <2>2, <2>3
<1>2. CASE EnterStep(t)
  BY <1>2 DEF EnterStep, Advance
<1>3. ASSUME NEW success \in BOOLEAN, Execute(t, success) PROVE Goal
  BY <1>3 DEF Execute
<1>4. CASE GenerateProof(t)
  BY <1>4 DEF GenerateProof, Advance
<1>5. CASE CheckRemediation(t)
  BY <1>5 DEF CheckRemediation, Captured, Advance
<1>6. CASE NextStep(t)
  <2>1. /\ at[t] \in Steps /\ Settled(at[t])
        /\ \A i \in Steps : i < at[t] => Settled(i)
        /\ \A u \in Tasks \ {t} : pc[u] = "idle"
    BY <1>6 DEF NextStep
  <2>2. \A i \in Steps : i \in Int /\ i <= NumSteps
    BY DEF Steps
  <2>3. CASE at[t] < NumSteps
    <3>1. at[t] + 1 \in Steps
      BY <2>1, <2>3 DEF Steps
    <3>2. \A i \in Steps : i < at[t] + 1 => Settled(i)
      BY <2>1, <2>2
    <3> QED BY <1>6, <2>1, <2>3, <3>1, <3>2 DEF NextStep
  <2>4. CASE ~(at[t] < NumSteps)
    <3>1. \A i \in Steps : Settled(i)
      BY <2>1, <2>2, <2>4
    <3> QED BY <1>6, <2>1, <2>4, <3>1 DEF NextStep
  <2> QED BY <2>3, <2>4
<1>7. ASSUME NEW escalated \in BOOLEAN, Remediate(t, escalated) PROVE Goal
  BY <1>7 DEF Remediate
<1>8. CASE RemediationFails(t) \/ GiveUp(t)
  BY <1>8 DEF RemediationFails, GiveUp, FollowFailurePath
<1>9. CASE BuildRoot(t)
  BY <1>9 DEF BuildRoot
<1>10. CASE Complete(t)
  <2>1. /\ root = Steps /\ Steps \ Optional \subseteq done
        /\ \A u \in Tasks \ {t} : pc[u] = "idle"
    BY <1>10 DEF Complete
  <2>2. CASE Allowed(t, "completed")
    <3>1. status' = "completed" /\ \A u \in Tasks : pc'[u] = "idle"
      BY <1>10, <2>1, <2>2 DEF Complete, Advance
    <3> QED BY <1>10, <2>1, <3>1 DEF Complete
  <2>3. CASE ~Allowed(t, "completed")
    BY <1>10, <2>1, <2>3 DEF Complete
  <2> QED BY <2>2, <2>3
<1>11. CASE FailRun(t)
  BY <1>11 DEF FailRun, Advance
<1>12. CASE EscalateRun(t)
  BY <1>12 DEF EscalateRun, EndTask
<1> QED BY <1>1, <1>2, <1>3, <1>4, <1>5, <1>6, <1>7, <1>8, <1>9, <1>10, <1>11, <1>12 DEF Work

\* Every step keeps the invariant.
LEMMA NextInv == IInv /\ [Next]_vars => IInv'
<1> SUFFICES ASSUME IInv, [Next]_vars PROVE IInv'
  OBVIOUS
<1>0. TypeOK'
  BY TypeStep DEF IInv
<1> DEFINE Rest == OneExecutor' /\ Fresh' /\ Progress' /\ Over' /\ CompletedIsProven'
<1> SUFFICES Rest
  BY <1>0 DEF IInv
<1>1. ASSUME NEW t \in Tasks, Work(t) PROVE Rest
  BY <1>1, WorkKeeps
<1> USE RunAssumption DEF IInv, TypeOK, OneExecutor, Fresh, Progress, Over, CompletedIsProven,
        Settled, Stepping, Goto, outside, results, history
<1>2. CASE Trigger
  BY <1>2 DEF Trigger
<1>3. CASE Publish \/ CancelStart \/ CancelWrite \/ RequestDies
  BY <1>3 DEF Publish, CancelStart, CancelWrite, RequestDies
<1>4. CASE RecoverStart \/ RecoverWrite
  BY <1>4 DEF RecoverStart, RecoverWrite
<1>5. CASE Archive
  BY <1>5 DEF Archive
<1>6. ASSUME NEW t \in Tasks, Receive(t) PROVE Rest
  <2>1. ASSUME NEW r \in 0..MaxRetries, Begin(t, r) PROVE Rest
    <3>1. status = "pending"
      BY <2>1 DEF Begin, Valid
    <3> QED BY <2>1, <3>1 DEF Begin
  <2>2. ASSUME NEW r \in 0..MaxRetries, AlreadyTerminal(t, r) \/ NotPending(t, r) PROVE Rest
    BY <2>2 DEF AlreadyTerminal, NotPending
  <2> QED BY <1>6, <2>1, <2>2 DEF Receive
<1>7. ASSUME NEW t \in Tasks, WorkerLost(t) PROVE Rest
  BY <1>7 DEF WorkerLost, EndTask
<1>8. ASSUME NEW t \in Tasks, Redeliver(t) PROVE Rest
  BY <1>8 DEF Redeliver
<1>9. CASE UNCHANGED vars
  BY <1>9 DEF vars
<1> QED BY <1>1, <1>2, <1>3, <1>4, <1>5, <1>6, <1>7, <1>8, <1>9 DEF Next

\* The invariant holds in every reachable state.
LEMMA Invariance == Spec => []IInv
BY InitInv, NextInv, PTL DEF Spec

\* The variables of a run always have their types, so remediation_count never
\* passes its limit.
THEOREM RunTypes == Spec => []TypeOK
<1>1. IInv => TypeOK BY DEF IInv
<1> QED BY <1>1, Invariance, PTL

\* execute_validation_run: a run is executed by one task at most, however often
\* its message is delivered and whatever statuses the tasks go by.
THEOREM ExecutedByOne == Spec => []OneExecutor
<1>1. IInv => OneExecutor BY DEF IInv
<1> QED BY <1>1, Invariance, PTL

\* execute_workflow: completion means that every step that may not fail has
\* succeeded and that the merkle root covers every step.
THEOREM CompletionIsProven == Spec => []CompletedIsProven
<1>1. IInv => CompletedIsProven BY DEF IInv
<1> QED BY <1>1, Invariance, PTL

-----------------------------------------------------------------------------
(* The circuit breaker: an outcome moves the state and the count in one critical *)
(* section, so that BreakerTypeOK and TripsAtThreshold are inductive together.    *)

\* The inductive invariant: the types, and the count that goes with each state.
BreakerInv == BreakerTypeOK /\ TripsAtThreshold

\* The breaker starts closed with no failure.
LEMMA BreakerInitInv == BreakerInit => BreakerInv
BY BreakerAssumption DEF BreakerInit, BreakerInv, BreakerTypeOK, TripsAtThreshold

\* Booking a success keeps the invariant's conjuncts about the breaker itself.
LEMMA SuccessKeeps ==
    ASSUME BreakerInv, OnSuccess
    PROVE  /\ state' \in {"closed", "open", "half_open"}
           /\ failure_count' \in 0..MaxFailures /\ elapsed' \in 0..RecoveryTimeout
           /\ TripsAtThreshold'
<1>1. CASE state = "half_open"
  BY <1>1, BreakerAssumption DEF BreakerInv, BreakerTypeOK, TripsAtThreshold, OnSuccess
<1>2. CASE state = "closed"
  BY <1>2, BreakerAssumption DEF BreakerInv, BreakerTypeOK, TripsAtThreshold, OnSuccess
<1>3. CASE state = "open"
  BY <1>3, BreakerAssumption DEF BreakerInv, BreakerTypeOK, TripsAtThreshold, OnSuccess
<1> QED BY <1>1, <1>2, <1>3 DEF BreakerInv, BreakerTypeOK

\* Booking a failure does too: the breaker opens with the failure that reaches
\* the threshold, and a half-open breaker has already passed it.
LEMMA FailureKeeps ==
    ASSUME BreakerInv, OnFailure
    PROVE  /\ state' \in {"closed", "open", "half_open"}
           /\ failure_count' \in 0..MaxFailures /\ elapsed' \in 0..RecoveryTimeout
           /\ TripsAtThreshold'
BY BreakerAssumption DEF BreakerInv, BreakerTypeOK, TripsAtThreshold, OnFailure

\* Every step keeps the invariant.
LEMMA BreakerNextInv == BreakerInv /\ [BreakerNext]_breakerVars => BreakerInv'
<1> SUFFICES ASSUME BreakerInv, [BreakerNext]_breakerVars PROVE BreakerInv'
  OBVIOUS
<1> USE BreakerAssumption DEF BreakerInv, BreakerTypeOK
<1>1. CASE Tick
  BY <1>1 DEF Tick, TripsAtThreshold
<1>2. CASE ServiceChanges
  BY <1>2 DEF ServiceChanges, TripsAtThreshold
<1>3. ASSUME NEW c \in Callers, Admit(c) PROVE BreakerInv'
  BY <1>3 DEF Admit, TripsAtThreshold
<1>4. ASSUME NEW c \in Callers, Reject(c) PROVE BreakerInv'
  BY <1>4 DEF Reject, breakerVars, TripsAtThreshold
<1>5. ASSUME NEW c \in Callers, Succeed(c) PROVE BreakerInv'
  BY <1>5, SuccessKeeps DEF Succeed
<1>6. ASSUME NEW c \in Callers, Fail(c) PROVE BreakerInv'
  BY <1>6, FailureKeeps DEF Fail
<1>7. ASSUME NEW c \in Callers, Cancel(c) PROVE BreakerInv'
  BY <1>7 DEF Cancel, TripsAtThreshold
<1>8. CASE UNCHANGED breakerVars
  BY <1>8 DEF breakerVars, TripsAtThreshold
<1> QED BY <1>1, <1>2, <1>3, <1>4, <1>5, <1>6, <1>7, <1>8 DEF BreakerNext

\* The variables of the breaker always have their types.
THEOREM BreakerTypes == BreakerSpec => []BreakerTypeOK
<1>1. BreakerInv => BreakerTypeOK BY DEF BreakerInv
<1> QED BY <1>1, BreakerInitInv, BreakerNextInv, PTL DEF BreakerSpec

\* In every order of outcomes the breaker is closed exactly while fewer than
\* failure_threshold failures have been booked (call, _on_success, _on_failure).
THEOREM ClosedBelowThreshold == BreakerSpec => []TripsAtThreshold
<1>1. BreakerInv => TripsAtThreshold BY DEF BreakerInv
<1> QED BY <1>1, BreakerInitInv, BreakerNextInv, PTL DEF BreakerSpec

=============================================================================
