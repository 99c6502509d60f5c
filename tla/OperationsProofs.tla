------------------------------ MODULE OperationsProofs ------------------------------
(***************************************************************************)
(* What runs the pipeline: the scheduler's leaders, the execution of a     *)
(* run's steps and what it implements.  For each module the invariant its  *)
(* property needs and the proof that every step keeps it, for any values   *)
(* of the constants.                                                       *)
(***************************************************************************)
EXTENDS BeatLeader, StepExecution, TokenLedger, Escalation, Reports,
        SetLemmas, SequenceTheorems

-----------------------------------------------------------------------------
(* BeatLeader.  LeadersTickAlone is not inductive: it says nothing of a pod that has read *)
(* the key and has not yet prolonged it.  Until the key expires under a living owner,     *)
(* whoever believes to hold it is its owner.                                              *)

\* The variables the argument is about.
BeatTypes ==
    /\ beat \in [Schedulers -> {"idle", "mine", "ticking", "down"}]
    /\ lockKey \in Schedulers \cup {"none", "stale"}
    /\ keyLapsed \in BOOLEAN

\* A pod between GET and the end of its tick owns the key.
BelieversOwn == ~keyLapsed => \A s \in Schedulers :
    beat[s] \in {"mine", "ticking"} => lockKey = s

BeatInv == BeatTypes /\ BelieversOwn

\* At first there is no key and every pod is idle.
LEMMA BeatBegins == BeatInit => BeatInv
BY DEF BeatInit, BeatInv, BeatTypes, BelieversOwn

\* A pod takes the key when there is none, or finds it its own.
LEMMA AcquireKeeps == ASSUME BeatInv, NEW s \in Schedulers, AcquireOrGet(s) PROVE BeatInv'
<1> USE BeatAssumption DEF BeatInv, BeatTypes, BelieversOwn, AcquireOrGet, Leads, Waits
<1>1. CASE lockKey = "none"
  BY <1>1
<1>2. CASE lockKey = s
  BY <1>2
<1>3. CASE lockKey \notin {"none", s}
  BY <1>3
<1> QED BY <1>1, <1>2, <1>3

\* Every step of one pod keeps the invariant.
LEMMA PodKeeps ==
    ASSUME BeatInv, NEW s \in Schedulers,
           Extend(s) \/ Tick(s) \/ LockError(s) \/ Close(s) \/ PodDies(s) \/ PodStarts(s)
    PROVE  BeatInv'
<1> USE BeatAssumption DEF BeatInv, BeatTypes, BelieversOwn
<1>1. CASE Extend(s)
  BY <1>1 DEF Extend, Leads
<1>2. CASE Tick(s)
  BY <1>2 DEF Tick
<1>3. CASE LockError(s)
  BY <1>3 DEF LockError, Waits
<1>4. CASE Close(s)
  BY <1>4 DEF Close
<1>5. CASE PodDies(s)
  BY <1>5 DEF PodDies
<1>6. CASE PodStarts(s)
  BY <1>6 DEF PodStarts
<1> QED BY <1>1, <1>2, <1>3, <1>4, <1>5, <1>6

\* A key that expires under a living pod is what keyLapsed remembers; one that
\* expires under a dead pod takes nothing from anybody.
LEMMA ExpiryKeeps == ASSUME BeatInv, KeyExpires PROVE BeatInv'
BY BeatAssumption DEF BeatInv, BeatTypes, BelieversOwn, KeyExpires

LEMMA BeatInvKept == BeatInv /\ [BeatNext]_beatVars => BeatInv'
<1> SUFFICES ASSUME BeatInv, [BeatNext]_beatVars PROVE BeatInv'
  OBVIOUS
<1>1. ASSUME NEW s \in Schedulers, Election(s) PROVE BeatInv'
  BY <1>1, AcquireKeeps, PodKeeps DEF Election
<1>2. ASSUME NEW s \in Schedulers, LockError(s) \/ Close(s) \/ PodDies(s) \/ PodStarts(s)
      PROVE BeatInv'
  BY <1>2, PodKeeps
<1>3. CASE KeyExpires
  BY <1>3, ExpiryKeeps
<1>4. CASE RedisFails \/ RedisReturns \/ NextPeriod \/ UNCHANGED beatVars
  BY <1>4 DEF RedisFails, RedisReturns, NextPeriod, beatVars, BeatInv, BeatTypes, BelieversOwn
<1> QED BY <1>1, <1>2, <1>3, <1>4 DEF BeatNext

\* Where every ticking pod owns the one key, at most one pod ticks.
LEMMA OneTicks == BeatInv => LeadersTickAlone
<1> SUFFICES ASSUME BeatInv, ~keyLapsed
             PROVE  ~(Cardinality({s \in Schedulers : beat[s] = "ticking"}) > 1)
  BY DEF LeadersTickAlone
<1> DEFINE ticking == {s \in Schedulers : beat[s] = "ticking"}
<1>1. \A s \in ticking : s = lockKey
  BY DEF BeatInv, BelieversOwn
<1>2. ticking = {} \/ ticking = {lockKey}
  BY <1>1
<1>3. Cardinality(ticking) \in {0, 1}
  BY <1>2, FS_EmptySet, FS_Singleton
<1> QED BY <1>3

\* _acquire_or_refresh_lock: two pods tick at the same time only after the key
\* expired under the pod that believed to hold it.
THEOREM OnlyOneTicks == BeatSpec => []LeadersTickAlone
<1> QED BY BeatBegins, BeatInvKept, OneTicks, PTL DEF BeatSpec

-----------------------------------------------------------------------------
(* StepExecution *)

StepPlaces == {"none", "publish", "sent", "dropped", "queued", "choose", "execute", "prove",
           "capture", "leave", "failure", "remediate", "finish", "complete", "fail",
           "escalate", "end"}
Texts == {"timed_out", "connection_error", "not_in_expected", "deadlock", "timeout", "not_found",
          "validation_error", "service_unavailable", "rate_limit"}
Execution == [step : StepIds, status : {"success", "failed", "retried"}, error : SUBSET Texts]
Remedy == [action : {"retry", "rollback", "skip", "escalate", "circuit_break"},
           status : {"attempted", "succeeded", "failed"}]

StepTypes ==
    /\ graph \in Graphs /\ condition \in Expressions
    /\ place \in StepPlaces /\ current \in Int /\ via \in {"onSuccess", "onFailure"}
    /\ executed \subseteq StepIds
    /\ executions \in Seq(Execution) /\ remedies \in Seq(Remedy) /\ paged \in Nat
    /\ outputs \subseteq BOOLEAN /\ captured \subseteq StepIds /\ covered \subseteq StepIds

\* The status of the run where execute_workflow is.
StatusFits ==
    /\ place = "none" <=> runStatus = "none"
    /\ place \in {"publish", "sent", "dropped"} => runStatus = "pending"
    /\ place = "queued" => runStatus = "queued"
    /\ place \in {"choose", "finish", "complete", "fail"} => runStatus \in {"running", "remediation_checking"}
    /\ place \in {"execute", "prove"} => runStatus = "step_validating"
    /\ place = "capture" => runStatus = "proof_generating"
    /\ place \in {"leave", "failure", "remediate"} => runStatus = "remediation_checking"
    /\ place = "escalate" => runStatus = "failed"
    /\ place = "end" => runStatus \in {"completed", "failed"}

\* The step that is executed, its row, and how it is left.
Standing ==
    /\ place \in {"execute", "prove", "capture", "leave", "failure", "remediate"} =>
          current \in executed /\ graph[current].enabled
    /\ place \in {"prove", "capture", "leave", "failure", "remediate"} =>
          executions # <<>> /\ Last.step = current /\ Last.status # "retried"
    /\ place \in {"failure", "remediate"} => Last.status = "failed" /\ via = "onFailure"
    /\ place = "leave" =>
          \/ Last.status = "success" /\ via = "onSuccess"
          \/ Last.status = "failed" /\ via = "onFailure" /\ LeadsOn(current)
    /\ place = "remediate" => remedies # <<>>

\* A step has succeeded once, was executed then, and is not executed now.
Once ==
    /\ \A i, j \in DOMAIN executions :
          /\ executions[i].status = "success" /\ executions[j].status = "success"
          /\ executions[i].step = executions[j].step
          => i = j
    /\ \A i \in DOMAIN executions :
          executions[i].status = "success" =>
              /\ executions[i].step \in executed
              /\ \/ place = "execute"
                 \/ place \in {"prove", "capture", "failure", "remediate"} /\ Last.status = "failed"
                 => executions[i].step # current

\* A failure that was remediated is followed by another execution, or will be; one for
\* good has a way on, or the run fails for it.
Remedied ==
    \A i \in DOMAIN executions :
        /\ graph[executions[i].step].enabled
        /\ executions[i].status = "retried" =>
              \/ \E j \in (i + 1)..Len(executions) : executions[j].step = executions[i].step
              \/ executions[i].step = current /\ place = "choose" /\ current \notin executed
              \/ executions[i].step = current /\ place = "execute"
        /\ executions[i].status = "failed" =>
              \/ LeadsOn(executions[i].step)
              \/ i = Len(executions) /\ place \in {"prove", "capture", "failure", "remediate"}
              \/ place \in {"fail", "escalate"} \/ runStatus = "failed"

\* Each page stands for a remedy that was tried, or for the failure of the run.
Paged ==
    /\ paged <= Handled + (IF place = "end" /\ runStatus = "failed" THEN 1 ELSE 0)
    /\ Len(remedies) <= RemediationLimit

\* A gate is open when its condition holds.
GatesHold == TRUE \in outputs => EvaluateCondition(condition)

StepInv == StepTypes /\ StatusFits /\ Standing /\ Once /\ Remedied /\ Paged /\ GatesHold

\* What the constants and the types say of the workflow and its rows.
LEMMA StepFacts ==
    ASSUME StepTypes
    PROVE  /\ graph \in Seq(WorkflowStep) /\ Len(graph) \in Nat /\ StepIds = 1..Len(graph)
           /\ \A s \in StepIds : /\ graph[s] \in WorkflowStep
                                 /\ graph[s].onSuccess \in Seq(Int) /\ graph[s].onFailure \in Seq(Int)
                                 /\ graph[s].enabled \in BOOLEAN
           /\ Len(executions) \in Nat /\ DOMAIN executions = 1..Len(executions)
           /\ \A i \in 1..Len(executions) : executions[i] \in Execution
           /\ Len(remedies) \in Nat /\ \A i \in 1..Len(remedies) : remedies[i] \in Remedy
<1>1. graph \in Seq(WorkflowStep)
  BY GraphsAssumption DEF StepTypes
<1>2. Len(graph) \in Nat /\ StepIds = 1..Len(graph) /\ \A s \in 1..Len(graph) : graph[s] \in WorkflowStep
  BY <1>1, LenProperties, ElementOfSeq DEF StepIds
<1>3. \A s \in StepIds : graph[s].onSuccess \in Seq(Int) /\ graph[s].onFailure \in Seq(Int) /\ graph[s].enabled \in BOOLEAN
  BY <1>2 DEF WorkflowStep
<1>4. Len(executions) \in Nat /\ DOMAIN executions = 1..Len(executions)
      /\ \A i \in 1..Len(executions) : executions[i] \in Execution
  BY LenProperties, ElementOfSeq DEF StepTypes
<1>5. Len(remedies) \in Nat /\ \A i \in 1..Len(remedies) : remedies[i] \in Remedy
  BY LenProperties, ElementOfSeq DEF StepTypes
<1> QED BY <1>1, <1>2, <1>3, <1>4, <1>5

\* The first of a path is a number.
LEMMA FirstIsInt == ASSUME NEW path \in Seq(Int) PROVE FirstOf(path) \in Int
<1>1. path # <<>> => 1 \in 1..Len(path)
  BY LenProperties, EmptySeq
<1> QED BY <1>1, ElementOfSeq DEF FirstOf, EndStep

\* An empty path with a failure at its end fails.
LEMMA FirstOrFail ==
    ASSUME NEW path \in Seq(Int)
    PROVE  FirstOf(path \o <<FailStep>>) # FailStep <=> path # <<>> /\ FirstOf(path) # FailStep
<1>1. <<FailStep>> \in Seq(Int) /\ Len(<<FailStep>>) = 1
  BY DEF FailStep
<1>2. Len(path) \in Nat /\ path # <<>> => Len(path) \in Nat \ {0}
  BY LenProperties, EmptySeq
<1>3. CASE path = <<>>
  <2>1. path \o <<FailStep>> = <<FailStep>>
    BY <1>1, <1>3, ConcatEmptySeq
  <2> QED BY <2>1, <1>3 DEF FirstOf
<1>4. CASE path # <<>>
  <2>1. Len(path) \in Nat \ {0} BY <1>4, EmptySeq
  <2>2. Len(path \o <<FailStep>>) = Len(path) + 1 /\ (path \o <<FailStep>>)[1] = path[1]
    BY <1>1, <2>1, ConcatProperties
  <2>3. path \o <<FailStep>> # <<>>
    BY <2>1, <2>2, EmptySeq
  <2> QED BY <1>4, <2>2, <2>3 DEF FirstOf
<1> QED BY <1>3, <1>4

\* decide_action names one of the actions.
LEMMA DecisionIsAction ==
    ASSUME NEW error, NEW s
    PROVE  DecideAction(error, s) \in {"retry", "rollback", "skip", "escalate", "circuit_break"}
<1> DEFINE fits == {i \in DOMAIN Patterns : /\ Patterns[i] \in error
                                            /\ PatternActions[Patterns[i]] = "retry" => RetryAllowed(s)}
<1>1. DOMAIN Patterns = 1..10
  BY DEF Patterns
<1>2. ASSUME fits # {}
      PROVE  (CHOOSE i \in fits : \A j \in fits : i <= j) \in fits
  <2>1. fits \in SUBSET Nat BY <1>1
  <2>2. \E i \in fits : \A j \in fits : i <= j
    <3> HIDE DEF fits
    <3> QED BY <1>2, <2>1, LeastOf
  <2> HIDE DEF fits
  <2> QED BY <2>2
<1>3. \A i \in DOMAIN Patterns :
         PatternActions[Patterns[i]] \in {"retry", "rollback", "skip", "escalate", "circuit_break"}
  BY DEF PatternActions, Patterns
<1>4. fits # {} => (CHOOSE i \in fits : \A j \in fits : i <= j) \in DOMAIN Patterns
  <2>1. fits \subseteq DOMAIN Patterns OBVIOUS
  <2> HIDE DEF fits
  <2> QED BY <1>2, <2>1
<1>5. DecideAction(error, s) = IF fits = {} THEN "escalate"
                              ELSE PatternActions[Patterns[CHOOSE i \in fits : \A j \in fits : i <= j]]
  BY DEF DecideAction
<1> HIDE DEF fits
<1> QED BY <1>3, <1>4, <1>5

\* What an executor may raise is a set of patterns.
LEMMA ErrorsAreTexts == ASSUME NEW s PROVE Errors(s) \subseteq SUBSET Texts
<1>1. /\ HttpErrors \subseteq SUBSET Texts /\ QueryErrors \subseteq SUBSET Texts
      /\ ServiceErrors \subseteq SUBSET Texts /\ AiErrors \subseteq SUBSET Texts
      /\ {{}} \subseteq SUBSET Texts /\ {} \subseteq SUBSET Texts
  <2>1. HttpErrors \subseteq SUBSET Texts BY DEF HttpErrors, Texts
  <2>2. QueryErrors \subseteq SUBSET Texts BY DEF QueryErrors, Texts
  <2>3. ServiceErrors \subseteq SUBSET Texts BY DEF ServiceErrors, Texts
  <2>4. AiErrors \subseteq SUBSET Texts BY DEF AiErrors, Texts
  <2> QED BY <2>1, <2>2, <2>3, <2>4
<1>2. Errors(s) \in {{{}}, HttpErrors, QueryErrors, ServiceErrors, AiErrors, {}}
  BY DEF Errors
<1> QED BY <1>1, <1>2

\* The row that is written last, and its change.
LEMMA RowAdded ==
    ASSUME StepTypes, NEW st \in {"success", "failed", "retried"}, NEW e \in SUBSET Texts,
           current \in StepIds, executions' = Row(st, e), UNCHANGED graph
    PROVE  /\ executions' \in Seq(Execution) /\ executions' \in Seq(Execution')
           /\ Len(executions') = Len(executions) + 1
           /\ DOMAIN executions' = 1..(Len(executions) + 1)
           /\ \A i \in 1..Len(executions) : executions'[i] = executions[i]
           /\ executions'[Len(executions) + 1] = [step |-> current, status |-> st, error |-> e]
           /\ Last' = [step |-> current, status |-> st, error |-> e] /\ executions' # <<>>
<1> DEFINE row == [step |-> current, status |-> st, error |-> e]
<1>1. row \in Execution /\ Execution' = Execution
  BY DEF Execution, StepIds
<1>2. executions \in Seq(Execution) /\ executions' = Append(executions, row)
  BY DEF Row, StepTypes
<1>3. Len(executions) \in Nat
  BY <1>2, LenProperties
<1> HIDE DEF row
<1>4. /\ Append(executions, row) \in Seq(Execution) /\ Append(executions, row) # <<>>
      /\ Len(Append(executions, row)) = Len(executions) + 1
      /\ \A i \in 1..Len(executions) : Append(executions, row)[i] = executions[i]
      /\ Append(executions, row)[Len(executions) + 1] = row
  BY <1>1, <1>2, AppendProperties
<1>5. DOMAIN executions' = 1..(Len(executions) + 1)
  BY <1>2, <1>4, LenProperties
<1>6. Last' = row
  BY <1>2, <1>4 DEF Last
<1> QED BY <1>1, <1>2, <1>4, <1>5, <1>6 DEF row

LEMMA RowRetried ==
    ASSUME StepTypes, executions # <<>>, UNCHANGED graph,
           executions' = [executions EXCEPT ![Len(executions)].status = "retried"]
    PROVE  /\ executions' \in Seq(Execution) /\ executions' \in Seq(Execution')
           /\ Len(executions') = Len(executions) /\ Len(executions) \in Nat \ {0}
           /\ DOMAIN executions' = 1..Len(executions) /\ DOMAIN executions = 1..Len(executions)
           /\ \A i \in 1..(Len(executions) - 1) : executions'[i] = executions[i]
           /\ \A i \in 1..Len(executions) : executions'[i].step = executions[i].step
           /\ executions'[Len(executions)].status = "retried" /\ Last'.status = "retried"
           /\ Last = executions[Len(executions)] /\ executions' # <<>>
<1>1. executions \in Seq(Execution) /\ Execution' = Execution
  BY DEF StepTypes, Execution, StepIds
<1>2. Len(executions) \in Nat \ {0} /\ DOMAIN executions = 1..Len(executions)
  BY <1>1, EmptySeq, LenProperties
<1>3. executions[Len(executions)] \in Execution
  BY <1>1, <1>2, ElementOfSeq
<1>4. PICK old \in Execution : old = executions[Len(executions)]
  BY <1>3
<1> DEFINE new == [old EXCEPT !.status = "retried"]
<1>5. new \in Execution /\ new.step = old.step /\ new.status = "retried"
  BY DEF Execution
<1>6. executions' = [executions EXCEPT ![Len(executions)] = new]
  BY <1>4
<1> HIDE DEF new
<1>7. /\ [executions EXCEPT ![Len(executions)] = new] \in Seq(Execution)
      /\ Len([executions EXCEPT ![Len(executions)] = new]) = Len(executions)
      /\ \A i \in 1..Len(executions) :
            [executions EXCEPT ![Len(executions)] = new][i] = IF i = Len(executions) THEN new ELSE executions[i]
  BY <1>1, <1>2, <1>5, ExceptSeq
<1>8. /\ executions' \in Seq(Execution) /\ Len(executions') = Len(executions)
      /\ \A i \in 1..Len(executions) : executions'[i] = IF i = Len(executions) THEN new ELSE executions[i]
  BY <1>6, <1>7
<1>9. DOMAIN executions' = 1..Len(executions) /\ executions' # <<>>
  BY <1>2, <1>8, LenProperties, EmptySeq
<1>10. Last'.status = "retried"
  BY <1>2, <1>5, <1>8 DEF Last
<1> QED BY <1>1, <1>2, <1>4, <1>5, <1>8, <1>9, <1>10 DEF Last

\* A remedy that is begun, and one that is over.
LEMMA RemedyAdded ==
    ASSUME StepTypes, NEW a \in {"retry", "rollback", "skip", "escalate", "circuit_break"},
           remedies' = Append(remedies, [action |-> a, status |-> "attempted"])
    PROVE  remedies' \in Seq(Remedy) /\ Len(remedies') = Len(remedies) + 1 /\ remedies' # <<>>
<1>1. [action |-> a, status |-> "attempted"] \in Remedy
  BY DEF Remedy
<1> QED BY <1>1, AppendProperties DEF StepTypes

LEMMA RemedyOver ==
    ASSUME StepTypes, remedies # <<>>, NEW st \in {"succeeded", "failed"}, Outcome(st)
    PROVE  remedies' \in Seq(Remedy) /\ Len(remedies') = Len(remedies)
<1>1. remedies \in Seq(Remedy) /\ Len(remedies) \in Nat \ {0}
  BY EmptySeq DEF StepTypes
<1>2. PICK old \in Remedy : old = remedies[Len(remedies)]
  BY <1>1, ElementOfSeq
<1> DEFINE new == [old EXCEPT !.status = st]
<1>3. new \in Remedy
  BY DEF Remedy
<1>4. remedies' = [remedies EXCEPT ![Len(remedies)] = new]
  BY <1>2 DEF Outcome
<1> HIDE DEF new
<1> QED BY <1>1, <1>3, <1>4, ExceptSeq

\* Every step keeps the types.
LEMMA TypesKept == ASSUME StepInv, StepNext PROVE StepTypes'
<1>1. /\ StepTypes /\ Standing /\ StatusFits
  BY DEF StepInv
<1>2. /\ graph' = graph /\ condition' = condition
      /\ StepIds' = StepIds
  BY DEF StepNext, TriggerAlone, PublishAlone, BeginAlone, RunAlone, EndLoop, PassDisabled, EnterEnabled,
         ExecutorReturns, ExecutorRaises, ProveStep, CaptureAndCheck, LeaveStep, Attempt, Carry, CarryFails,
         NoMoreRemedies, FinalProofs, CompleteAlone, FailAlone, HandleRunFailure, inputs, StepIds
<1>3. Execution' = Execution
  BY <1>2 DEF Execution
<1> USE DEF StepPlaces, inputs, rows
<1>4. CASE TriggerAlone \/ PublishAlone \/ BeginAlone \/ RunAlone \/ EndLoop \/ ProveStep \/ CompleteAlone \/ FailAlone
  BY <1>1, <1>2, <1>3, <1>4 DEF StepTypes, TriggerAlone, PublishAlone, BeginAlone, RunAlone, EndLoop, ProveStep,
     CompleteAlone, FailAlone
<1>5. CASE PassDisabled
  <2>1. current \in StepIds
    BY <1>5 DEF PassDisabled, ToExecute
  <2>2. FirstOf(graph[current].onSuccess) \in Int
    BY <1>1, <2>1, StepFacts, FirstIsInt
  <2> QED BY <1>1, <1>2, <1>3, <1>5, <2>1, <2>2 DEF StepTypes, PassDisabled
<1>6. CASE EnterEnabled
  <2>1. current \in StepIds
    BY <1>6 DEF EnterEnabled, ToExecute
  <2> QED BY <1>1, <1>2, <1>3, <1>6, <2>1 DEF StepTypes, EnterEnabled
<1>7. CASE ExecutorReturns
  <2>1. current \in StepIds /\ {} \in SUBSET Texts /\ executions' = Row("success", {})
    BY <1>1, <1>7 DEF ExecutorReturns, Standing, StepTypes
  <2>2. executions' \in Seq(Execution')
    BY <1>1, <1>2, <2>1, RowAdded
  <2>3. EvaluateCondition(condition) \in BOOLEAN
    BY DEF EvaluateCondition
  <2>4. outputs' \subseteq BOOLEAN
    BY <1>1, <1>7, <2>3 DEF StepTypes, ExecutorReturns
  <2> QED BY <1>1, <1>2, <1>7, <2>2, <2>4 DEF StepTypes, ExecutorReturns
<1>8. CASE ExecutorRaises
  <2>1. PICK e \in Errors(current) : executions' = Row("failed", e)
    BY <1>8 DEF ExecutorRaises
  <2>2. current \in StepIds /\ e \in SUBSET Texts
    BY <1>1, <1>8, ErrorsAreTexts DEF ExecutorRaises, Standing, StepTypes
  <2>3. executions' \in Seq(Execution')
    BY <1>1, <1>2, <2>1, <2>2, RowAdded
  <2> QED BY <1>1, <1>2, <1>8, <2>3 DEF StepTypes, ExecutorRaises
<1>9. CASE CaptureAndCheck
  <2>1. current \in StepIds
    BY <1>1, <1>9 DEF CaptureAndCheck, Standing, StepTypes
  <2> QED BY <1>1, <1>2, <1>3, <1>9, <2>1 DEF StepTypes, CaptureAndCheck
<1>10. CASE LeaveStep
  <2>1. current \in StepIds
    BY <1>1, <1>10 DEF LeaveStep, Standing, StepTypes
  <2>2. graph[current][via] \in Seq(Int)
    BY <1>1, <2>1, StepFacts DEF StepTypes
  <2>3. current' \in Int
    BY <1>10, <2>2, FirstIsInt DEF LeaveStep
  <2> QED BY <1>1, <1>2, <1>3, <1>10, <2>3 DEF StepTypes, LeaveStep
<1>11. CASE Attempt
  <2>1. remedies' \in Seq(Remedy)
    BY <1>1, <1>11, DecisionIsAction, RemedyAdded DEF Attempt
  <2> QED BY <1>1, <1>2, <1>3, <1>11, <2>1 DEF StepTypes, Attempt
<1>12. CASE Carry
  <2>1. remedies # <<>> /\ executions # <<>>
    BY <1>1, <1>12 DEF Carry, Standing
  <2>2. remedies' \in Seq(Remedy)
    BY <1>1, <1>12, <2>1, RemedyOver DEF Carry
  <2>3. executions' \in Seq(Execution')
    BY <1>1, <1>2, <1>12, <2>1, RowRetried DEF Carry
  <2> QED BY <1>1, <1>2, <1>12, <2>2, <2>3 DEF StepTypes, Carry
<1>13. CASE CarryFails
  <2>1. remedies # <<>>
    BY <1>1, <1>13 DEF CarryFails, Standing
  <2>2. remedies' \in Seq(Remedy)
    BY <1>1, <1>13, <2>1, RemedyOver DEF CarryFails
  <2> QED BY <1>1, <1>2, <1>3, <1>13, <2>2 DEF StepTypes, CarryFails, FailurePath
<1>14. CASE NoMoreRemedies
  BY <1>1, <1>2, <1>3, <1>14 DEF StepTypes, NoMoreRemedies, FailurePath
<1>15. CASE FinalProofs \/ HandleRunFailure
  BY <1>1, <1>2, <1>3, <1>15 DEF StepTypes, FinalProofs, HandleRunFailure
<1> QED BY <1>4, <1>5, <1>6, <1>7, <1>8, <1>9, <1>10, <1>11, <1>12, <1>13, <1>14, <1>15 DEF StepNext

\* Every step leaves the run where its status fits.
LEMMA StatusKept == ASSUME StepInv, StepNext PROVE StatusFits'
<1>1. StatusFits /\ place \in StepPlaces
  BY DEF StepInv, StepTypes, StatusFits
<1> USE DEF StepPlaces, StatusFits, rows, inputs
<1>2. CASE TriggerAlone \/ PublishAlone \/ BeginAlone \/ RunAlone \/ EndLoop \/ PassDisabled \/ EnterEnabled
  BY <1>1, <1>2 DEF TriggerAlone, PublishAlone, BeginAlone, RunAlone, EndLoop, PassDisabled, EnterEnabled
<1>3. CASE ExecutorReturns \/ ExecutorRaises \/ ProveStep \/ CaptureAndCheck \/ LeaveStep \/ Attempt
  BY <1>1, <1>3 DEF ExecutorReturns, ExecutorRaises, ProveStep, CaptureAndCheck, LeaveStep, Attempt
<1>4. CASE Carry \/ CarryFails \/ NoMoreRemedies
  BY <1>1, <1>4 DEF Carry, CarryFails, NoMoreRemedies, FailurePath
<1>5. CASE FinalProofs \/ CompleteAlone \/ FailAlone \/ HandleRunFailure
  BY <1>1, <1>5 DEF FinalProofs, CompleteAlone, FailAlone, HandleRunFailure
<1> QED BY <1>2, <1>3, <1>4, <1>5 DEF StepNext

\* What a step that writes no row leaves as it is.
LEMMA StandingKept == ASSUME StepInv, StepNext PROVE Standing'
<1>1. StepTypes /\ StatusFits /\ Standing /\ graph' = graph /\ executed \subseteq StepIds
  BY DEF StepInv, StepTypes, StepNext, TriggerAlone, PublishAlone, BeginAlone, RunAlone, EndLoop, PassDisabled,
         EnterEnabled, ExecutorReturns, ExecutorRaises, ProveStep, CaptureAndCheck, LeaveStep, Attempt, Carry,
         CarryFails, NoMoreRemedies, FinalProofs, CompleteAlone, FailAlone, HandleRunFailure, inputs
<1>2. \A s : LeadsOn(s)' <=> LeadsOn(s)
  BY <1>1 DEF LeadsOn
<1> USE DEF rows, inputs
<1>3. CASE TriggerAlone \/ PublishAlone \/ BeginAlone \/ RunAlone \/ EndLoop \/ PassDisabled \/ EnterEnabled
  BY <1>1, <1>3 DEF Standing, TriggerAlone, PublishAlone, BeginAlone, RunAlone, EndLoop, PassDisabled, EnterEnabled
<1>4. CASE ExecutorReturns
  <2>1. current \in StepIds /\ {} \in SUBSET Texts /\ executions' = Row("success", {})
    BY <1>1, <1>4 DEF ExecutorReturns, Standing
  <2>2. Last' = [step |-> current, status |-> "success", error |-> {}] /\ executions' # <<>>
    BY <1>1, <2>1, RowAdded
  <2> QED BY <1>1, <1>4, <2>2 DEF Standing, ExecutorReturns
<1>5. CASE ExecutorRaises
  <2>1. PICK e \in Errors(current) : executions' = Row("failed", e)
    BY <1>5 DEF ExecutorRaises
  <2>2. current \in StepIds /\ e \in SUBSET Texts
    BY <1>1, <1>5, ErrorsAreTexts DEF ExecutorRaises, Standing
  <2>3. Last' = [step |-> current, status |-> "failed", error |-> e] /\ executions' # <<>>
    BY <1>1, <2>1, <2>2, RowAdded
  <2> QED BY <1>1, <1>5, <2>3 DEF Standing, ExecutorRaises
<1>6. CASE ProveStep
  BY <1>1, <1>6 DEF Standing, ProveStep, Last
<1>7. CASE CaptureAndCheck
  <2>1. executions # <<>> /\ Last.step = current /\ Last.status # "retried" /\ Last' = Last
    BY <1>1, <1>7 DEF Standing, CaptureAndCheck, Last
  <2>2. Last.status \in {"success", "failed"}
    <3>1. Len(executions) \in 1..Len(executions)
      BY <1>1, <2>1, EmptySeq DEF StepTypes
    <3>2. Last \in Execution
      BY <1>1, <3>1, StepFacts DEF Last
    <3> QED BY <2>1, <3>2 DEF Execution
  <2> QED BY <1>1, <1>7, <2>1, <2>2 DEF Standing, CaptureAndCheck
<1>8. CASE LeaveStep
  BY <1>1, <1>8 DEF Standing, LeaveStep
<1>9. CASE Attempt
  <2>1. remedies' # <<>>
    BY <1>1, <1>9, DecisionIsAction, RemedyAdded DEF Attempt
  <2> QED BY <1>1, <1>9, <2>1 DEF Standing, Attempt, Last
<1>10. CASE Carry
  <2>1. place' = "choose"
    BY <1>10 DEF Carry, Retries
  <2> QED BY <2>1 DEF Standing
<1>11. CASE CarryFails
  BY <1>1, <1>2, <1>11 DEF Standing, CarryFails, FailurePath, Last
<1>12. CASE NoMoreRemedies
  BY <1>1, <1>2, <1>12 DEF Standing, NoMoreRemedies, FailurePath, Last
<1>13. CASE FinalProofs \/ CompleteAlone \/ FailAlone \/ HandleRunFailure
  BY <1>1, <1>13 DEF Standing, FinalProofs, CompleteAlone, FailAlone, HandleRunFailure
<1> QED BY <1>3, <1>4, <1>5, <1>6, <1>7, <1>8, <1>9, <1>10, <1>11, <1>12, <1>13 DEF StepNext

\* No step makes a step succeed twice.
LEMMA OnceKept == ASSUME StepInv, StepNext PROVE Once'
<1>1. StepTypes /\ StatusFits /\ Standing /\ Once /\ executed \subseteq StepIds /\ graph' = graph
  BY DEF StepInv, StepTypes, StepNext, TriggerAlone, PublishAlone, BeginAlone, RunAlone, EndLoop, PassDisabled,
         EnterEnabled, ExecutorReturns, ExecutorRaises, ProveStep, CaptureAndCheck, LeaveStep, Attempt, Carry,
         CarryFails, NoMoreRemedies, FinalProofs, CompleteAlone, FailAlone, HandleRunFailure, inputs
<1>2. Len(executions) \in Nat /\ DOMAIN executions = 1..Len(executions)
      /\ \A i \in 1..Len(executions) : executions[i] \in Execution
  BY <1>1, StepFacts
<1> USE DEF rows, inputs
<1>3. CASE TriggerAlone \/ PublishAlone \/ BeginAlone \/ RunAlone \/ EndLoop \/ LeaveStep
           \/ FinalProofs \/ CompleteAlone \/ FailAlone \/ HandleRunFailure
  BY <1>1, <1>3 DEF Once, TriggerAlone, PublishAlone, BeginAlone, RunAlone, EndLoop, LeaveStep, FinalProofs,
     CompleteAlone, FailAlone, HandleRunFailure
<1>4. CASE PassDisabled \/ EnterEnabled
  BY <1>1, <1>4 DEF Once, PassDisabled, EnterEnabled, ToExecute
<1>5. CASE ExecutorReturns
  <2>1. current \in StepIds /\ {} \in SUBSET Texts /\ executions' = Row("success", {}) /\ place = "execute"
        /\ current \in executed /\ UNCHANGED <<current, executed>> /\ place' = "prove"
    BY <1>1, <1>5 DEF ExecutorReturns, Standing
  <2>2. /\ DOMAIN executions' = 1..(Len(executions) + 1)
        /\ \A i \in 1..Len(executions) : executions'[i] = executions[i]
        /\ executions'[Len(executions) + 1] = [step |-> current, status |-> "success", error |-> {}]
        /\ Last' = [step |-> current, status |-> "success", error |-> {}]
    BY <1>1, <2>1, RowAdded
  <2>3. \A i \in DOMAIN executions' : i \in 1..Len(executions) \/ i = Len(executions) + 1
    BY <1>2, <2>2
  <2>4. \A i \in 1..Len(executions) : executions[i].status = "success" =>
            executions[i].step \in executed /\ executions[i].step # current
    BY <1>1, <1>2, <2>1 DEF Once
  <2>5. ASSUME NEW i \in DOMAIN executions', NEW j \in DOMAIN executions',
               executions'[i].status = "success", executions'[j].status = "success",
               executions'[i].step = executions'[j].step
        PROVE  i = j
    BY <1>1, <1>2, <2>2, <2>3, <2>4, <2>5 DEF Once
  <2>6. ASSUME NEW i \in DOMAIN executions', executions'[i].status = "success"
        PROVE  executions'[i].step \in executed'
    BY <2>1, <2>2, <2>3, <2>4, <2>6
  <2> QED BY <2>1, <2>2, <2>5, <2>6 DEF Once
<1>6. CASE ExecutorRaises
  <2>1. PICK e \in Errors(current) : executions' = Row("failed", e)
    BY <1>6 DEF ExecutorRaises
  <2>2. current \in StepIds /\ e \in SUBSET Texts /\ place = "execute" /\ UNCHANGED <<current, executed>>
    BY <1>1, <1>6, ErrorsAreTexts DEF ExecutorRaises, Standing
  <2>3. /\ DOMAIN executions' = 1..(Len(executions) + 1)
        /\ \A i \in 1..Len(executions) : executions'[i] = executions[i]
        /\ executions'[Len(executions) + 1] = [step |-> current, status |-> "failed", error |-> e]
    BY <1>1, <2>1, <2>2, RowAdded
  <2>4. \A i \in DOMAIN executions' : executions'[i].status = "success" =>
            i \in DOMAIN executions /\ executions'[i] = executions[i]
    BY <1>2, <2>3
  <2>5. \A i \in DOMAIN executions : executions[i].status = "success" =>
            executions[i].step \in executed /\ executions[i].step # current
    BY <1>1, <2>2 DEF Once
  <2> QED BY <1>1, <2>2, <2>4, <2>5 DEF Once
<1>7. CASE ProveStep \/ CaptureAndCheck \/ Attempt \/ CarryFails \/ NoMoreRemedies
  <2>1. UNCHANGED <<executions, executed, current>> /\ Last' = Last /\ place' # "execute"
    BY <1>7 DEF ProveStep, CaptureAndCheck, Attempt, CarryFails, NoMoreRemedies, FailurePath, Last
  <2>2. place \in {"prove", "capture", "failure", "remediate"}
    BY <1>7 DEF ProveStep, CaptureAndCheck, Attempt, CarryFails, NoMoreRemedies
  <2>3. \A i \in DOMAIN executions : executions[i].status = "success" =>
            executions[i].step \in executed /\ (Last.status = "failed" => executions[i].step # current)
    BY <1>1, <2>2 DEF Once
  <2> QED BY <1>1, <2>1, <2>3 DEF Once
<1>8. CASE Carry
  <2>1. /\ place' = "choose" /\ executed' = executed \ {current} /\ place = "remediate"
        /\ executions' = [executions EXCEPT ![Len(executions)].status = "retried"]
    BY <1>8 DEF Carry, Retries
  <2>2. executions # <<>> /\ Last.status = "failed"
    BY <1>1, <2>1 DEF Standing
  <2>3. /\ DOMAIN executions' = 1..Len(executions) /\ DOMAIN executions = 1..Len(executions)
        /\ Len(executions) \in Nat \ {0}
        /\ \A i \in 1..(Len(executions) - 1) : executions'[i] = executions[i]
        /\ executions'[Len(executions)].status = "retried"
    BY <1>1, <2>1, <2>2, RowRetried
  <2>4. \A i \in DOMAIN executions' : executions'[i].status = "success" =>
            i \in DOMAIN executions /\ executions'[i] = executions[i]
    BY <2>3
  <2>5. \A i \in DOMAIN executions : executions[i].status = "success" =>
            executions[i].step \in executed \ {current}
    BY <1>1, <2>1, <2>2 DEF Once
  <2> QED BY <1>1, <2>1, <2>4, <2>5 DEF Once
<1> QED BY <1>3, <1>4, <1>5, <1>6, <1>7, <1>8 DEF StepNext

\* Every failure is remediated, led on from, or the run's.
LEMMA RemediedKept == ASSUME StepInv, StepNext PROVE Remedied'
<1>1. StepTypes /\ StatusFits /\ Standing /\ Remedied /\ executed \subseteq StepIds /\ graph' = graph
      /\ StepIds' = StepIds
  BY DEF StepInv, StepTypes, StepNext, TriggerAlone, PublishAlone, BeginAlone, RunAlone, EndLoop, PassDisabled,
         EnterEnabled, ExecutorReturns, ExecutorRaises, ProveStep, CaptureAndCheck, LeaveStep, Attempt, Carry,
         CarryFails, NoMoreRemedies, FinalProofs, CompleteAlone, FailAlone, HandleRunFailure, inputs, StepIds
<1>2. /\ Len(executions) \in Nat /\ DOMAIN executions = 1..Len(executions)
      /\ \A i \in 1..Len(executions) : executions[i] \in Execution /\ executions[i].step \in StepIds
  BY <1>1, StepFacts DEF Execution
<1>3. \A s : LeadsOn(s)' <=> LeadsOn(s)
  BY <1>1 DEF LeadsOn
<1> USE DEF rows, inputs
<1>4. CASE TriggerAlone \/ PublishAlone \/ BeginAlone \/ RunAlone \/ LeaveStep \/ FinalProofs \/ CompleteAlone
           \/ FailAlone \/ HandleRunFailure
  <2>1. /\ UNCHANGED executions /\ place \notin {"choose", "execute", "prove", "capture", "failure", "remediate"}
        /\ place \in {"fail", "escalate"} \/ runStatus = "failed" => place' \in {"fail", "escalate"} \/ runStatus' = "failed"
    BY <1>1, <1>4 DEF StatusFits, TriggerAlone, PublishAlone, BeginAlone, RunAlone, LeaveStep, FinalProofs,
       CompleteAlone, FailAlone, HandleRunFailure
  <2> QED BY <1>1, <1>3, <2>1 DEF Remedied
<1>5. CASE EndLoop
  <2>1. /\ UNCHANGED <<executions, runStatus>> /\ place = "choose"
        /\ \A i \in 1..Len(executions) : executions[i].step = current => current \in executed
    BY <1>2, <1>5 DEF EndLoop, ToExecute
  <2> QED BY <1>1, <1>2, <1>3, <2>1 DEF Remedied
<1>6. CASE PassDisabled
  <2>1. /\ UNCHANGED <<executions, runStatus>> /\ place = "choose" /\ ~graph[current].enabled
    BY <1>6 DEF PassDisabled
  <2> QED BY <1>1, <1>2, <1>3, <2>1 DEF Remedied
<1>7. CASE EnterEnabled
  <2>1. /\ UNCHANGED <<executions, current>> /\ place = "choose" /\ place' = "execute" /\ runStatus # "failed"
    BY <1>1, <1>7 DEF EnterEnabled, StatusFits
  <2> QED BY <1>1, <1>2, <1>3, <2>1 DEF Remedied
<1>8. CASE ExecutorReturns \/ ExecutorRaises
  <2>1. PICK st \in {"success", "failed"}, e \in SUBSET Texts : executions' = Row(st, e)
    BY <1>8, ErrorsAreTexts DEF ExecutorReturns, ExecutorRaises
  <2>2. place = "execute" /\ place' = "prove" /\ current \in StepIds /\ graph[current].enabled /\ runStatus # "failed"
        /\ current' = current
    BY <1>1, <1>8 DEF ExecutorReturns, ExecutorRaises, Standing, StatusFits
  <2>3. /\ DOMAIN executions' = 1..(Len(executions) + 1) /\ Len(executions') = Len(executions) + 1
        /\ \A i \in 1..Len(executions) : executions'[i] = executions[i]
        /\ executions'[Len(executions) + 1] = [step |-> current, status |-> st, error |-> e]
    BY <1>1, <2>1, <2>2, RowAdded
  <2>4. ASSUME NEW i \in 1..Len(executions)
        PROVE  /\ graph'[executions'[i].step].enabled
               /\ executions'[i].status = "retried" =>
                     \E j \in (i + 1)..Len(executions') : executions'[j].step = executions'[i].step
               /\ executions'[i].status = "failed" => LeadsOn(executions[i].step)'
    <3>1. executions'[i] = executions[i] /\ graph[executions[i].step].enabled
      BY <1>1, <1>2, <2>3 DEF Remedied
    <3>2. ASSUME executions[i].status = "retried"
          PROVE  \E j \in (i + 1)..Len(executions') : executions'[j].step = executions'[i].step
      <4>1. CASE \E j \in (i + 1)..Len(executions) : executions[j].step = executions[i].step
        BY <1>2, <2>3, <3>1, <4>1
      <4>2. CASE executions[i].step = current
        BY <1>2, <2>3, <3>1, <4>2
      <4> QED BY <1>1, <1>2, <2>2, <3>2, <4>1, <4>2 DEF Remedied
    <3>3. executions[i].status = "failed" => LeadsOn(executions[i].step)
      BY <1>1, <1>2, <2>2 DEF Remedied
    <3> QED BY <1>1, <1>3, <3>1, <3>2, <3>3
  <2>5. \A i \in DOMAIN executions' : i \in 1..Len(executions) \/ i = Len(executions')
    BY <1>2, <2>3
  <2> QED BY <1>1, <2>2, <2>3, <2>4, <2>5 DEF Remedied
<1>9. CASE ProveStep \/ Attempt
  <2>1. UNCHANGED <<executions>> /\ place \in {"prove", "failure"} /\ place' \in {"capture", "remediate"}
        /\ runStatus # "failed"
    BY <1>1, <1>9 DEF ProveStep, Attempt, StatusFits
  <2> QED BY <1>1, <1>2, <1>3, <2>1 DEF Remedied
<1>10. CASE CaptureAndCheck
  <2>1. /\ UNCHANGED <<executions>> /\ place = "capture" /\ runStatus # "failed"
        /\ place' = "failure" \/ executions[Len(executions)].status = "success"
    BY <1>1, <1>10 DEF CaptureAndCheck, StatusFits, Last
  <2> QED BY <1>1, <1>2, <1>3, <2>1 DEF Remedied
<1>11. CASE CarryFails \/ NoMoreRemedies
  <2>1. /\ UNCHANGED <<executions>> /\ place \in {"failure", "remediate"} /\ runStatus # "failed"
        /\ IF LeadsOn(current) THEN place' = "leave" ELSE place' = "fail"
    BY <1>1, <1>11 DEF CarryFails, NoMoreRemedies, FailurePath, StatusFits
  <2>2. executions[Len(executions)].step = current
    BY <1>1, <2>1 DEF Standing, Last
  <2> QED BY <1>1, <1>2, <1>3, <2>1, <2>2 DEF Remedied
<1>12. CASE Carry
  <2>1. /\ place' = "choose" /\ executed' = executed \ {current} /\ place = "remediate" /\ current' = current
        /\ executions' = [executions EXCEPT ![Len(executions)].status = "retried"] /\ runStatus # "failed"
    BY <1>1, <1>12 DEF Carry, Retries, StatusFits
  <2>2. executions # <<>> /\ Last.step = current
    BY <1>1, <2>1 DEF Standing
  <2>3. /\ DOMAIN executions' = 1..Len(executions) /\ Len(executions') = Len(executions)
        /\ Len(executions) \in Nat \ {0} /\ executions[Len(executions)] = Last
        /\ \A i \in 1..(Len(executions) - 1) : executions'[i] = executions[i]
        /\ \A i \in 1..Len(executions) : executions'[i].step = executions[i].step
        /\ executions'[Len(executions)].status = "retried"
    BY <1>1, <2>1, <2>2, RowRetried
  <2>4. ASSUME NEW i \in 1..(Len(executions) - 1)
        PROVE  /\ executions'[i].status = "retried" =>
                     \E j \in (i + 1)..Len(executions') : executions'[j].step = executions'[i].step
               /\ executions'[i].status = "failed" => LeadsOn(executions[i].step)'
    <3>1. i \in DOMAIN executions /\ executions'[i] = executions[i]
      BY <1>2, <2>3
    <3>2. executions[i].status = "retried" =>
             \E j \in (i + 1)..Len(executions) : executions[j].step = executions[i].step
      BY <1>1, <2>1, <3>1 DEF Remedied
    <3>3. \A j \in (i + 1)..Len(executions) : j \in 1..Len(executions)
      BY <2>3
    <3>4. executions[i].status = "failed" => LeadsOn(executions[i].step)
      BY <1>1, <1>2, <2>1, <2>3, <3>1 DEF Remedied
    <3> QED BY <1>3, <2>3, <3>1, <3>2, <3>3, <3>4
  <2>5. \A i \in DOMAIN executions' : i \in 1..(Len(executions) - 1) \/ i = Len(executions)
    BY <2>3
  <2>6. \A i \in DOMAIN executions' : graph'[executions'[i].step].enabled
    BY <1>1, <1>2, <2>3 DEF Remedied
  <2>7. executions'[Len(executions)].step = current'
    BY <2>1, <2>2, <2>3
  <2>8. current \notin executed'
    BY <2>1
  <2> QED BY <2>1, <2>3, <2>4, <2>5, <2>6, <2>7, <2>8 DEF Remedied
<1> QED BY <1>4, <1>5, <1>6, <1>7, <1>8, <1>9, <1>10, <1>11, <1>12 DEF StepNext

\* A page is a remedy's or the failure's.
LEMMA PagedKept == ASSUME StepInv, StepNext PROVE Paged'
<1>1. StepTypes /\ StatusFits /\ Standing /\ Paged /\ paged \in Nat
  BY DEF StepInv, StepTypes
<1>2. Len(remedies) \in Nat
  BY <1>1, StepFacts
<1> USE DEF rows, inputs, Paged, Handled, RemediationLimit
<1>3. CASE TriggerAlone \/ PublishAlone \/ BeginAlone \/ RunAlone \/ EndLoop \/ PassDisabled \/ EnterEnabled
           \/ ExecutorReturns \/ ExecutorRaises \/ ProveStep \/ CaptureAndCheck \/ LeaveStep \/ NoMoreRemedies
           \/ FinalProofs \/ CompleteAlone \/ FailAlone
  <2>1. UNCHANGED <<remedies, paged>> /\ place # "remediate" /\ place' # "remediate" /\ place # "end"
    BY <1>3 DEF TriggerAlone, PublishAlone, BeginAlone, RunAlone, EndLoop, PassDisabled, EnterEnabled,
       ExecutorReturns, ExecutorRaises, ProveStep, CaptureAndCheck, LeaveStep, NoMoreRemedies, FailurePath,
       FinalProofs, CompleteAlone, FailAlone
  <2> QED BY <1>1, <1>2, <2>1
<1>4. CASE Attempt
  <2>1. Len(remedies') = Len(remedies) + 1
    BY <1>1, <1>4, DecisionIsAction, RemedyAdded DEF Attempt
  <2> QED BY <1>1, <1>2, <1>4, <2>1 DEF Attempt, RemediationCount
<1>5. CASE Carry
  <2>1. Len(remedies') = Len(remedies)
    BY <1>1, <1>5, RemedyOver DEF Carry, Standing
  <2> QED BY <1>1, <1>2, <1>5, <2>1 DEF Carry, Retries
<1>6. CASE CarryFails
  <2>1. Len(remedies') = Len(remedies)
    BY <1>1, <1>6, RemedyOver DEF CarryFails, Standing
  <2> QED BY <1>1, <1>2, <1>6, <2>1 DEF CarryFails, FailurePath
<1>7. CASE HandleRunFailure
  BY <1>1, <1>2, <1>7 DEF HandleRunFailure, StatusFits
<1> QED BY <1>3, <1>4, <1>5, <1>6, <1>7 DEF StepNext

\* A gate opens when its condition holds, and the condition stays.
LEMMA GatesKept == ASSUME StepInv, StepNext PROVE GatesHold'
<1>1. StepTypes /\ GatesHold
  BY DEF StepInv
<1>2. condition' = condition
  BY DEF StepNext, TriggerAlone, PublishAlone, BeginAlone, RunAlone, EndLoop, PassDisabled, EnterEnabled,
         ExecutorReturns, ExecutorRaises, ProveStep, CaptureAndCheck, LeaveStep, Attempt, Carry, CarryFails,
         NoMoreRemedies, FinalProofs, CompleteAlone, FailAlone, HandleRunFailure, inputs
<1>3. outputs' \subseteq outputs \cup {EvaluateCondition(condition)}
  BY DEF StepNext, TriggerAlone, PublishAlone, BeginAlone, RunAlone, EndLoop, PassDisabled, EnterEnabled,
         ExecutorReturns, ExecutorRaises, ProveStep, CaptureAndCheck, LeaveStep, Attempt, Carry, CarryFails,
         NoMoreRemedies, FinalProofs, CompleteAlone, FailAlone, HandleRunFailure, rows
<1>4. EvaluateCondition(condition') = EvaluateCondition(condition)
  BY <1>2
<1>5. TRUE \in outputs' => EvaluateCondition(condition)
  BY <1>1, <1>3 DEF GatesHold, EvaluateCondition
<1> QED BY <1>4, <1>5 DEF GatesHold

\* StepAt first nothing has run.
LEMMA StepsBegin == ASSUME StepInit PROVE StepInv
<1>1. StepTypes
  BY EmptySeq DEF StepInit, StepTypes, StepPlaces
<1> QED BY <1>1, EmptySeq DEF StepInit, StepInv, StatusFits, Standing, Once, Remedied, Paged, Handled,
        RemediationLimit, GatesHold

\* A compound expression is made of simpler ones.
LEMMA CompoundShape ==
    ASSUME NEW S, NEW e \in Compound(S)
    PROVE  /\ e \notin Atoms
           /\ \/ \E f \in S : e = <<"not", f>> /\ Len(e) = 2 /\ e[2] = f /\ 2..Len(e) = {2}
              \/ \E op \in {"and", "or"}, f \in S, g \in S :
                    e = <<op, f, g>> /\ Len(e) = 3 /\ e[1] = op /\ e[2] = f /\ e[3] = g /\ 2..Len(e) = {2, 3}
<1>1. CASE \E f \in S : e = <<"not", f>>
  <2>1. PICK f \in S : e = <<"not", f>> BY <1>1
  <2>2. Len(e) = 2 /\ e[2] = f BY <2>1
  <2>3. \A a \in Atoms : Len(a) = 1 BY DEF Atoms
  <2> QED BY <2>1, <2>2, <2>3
<1>2. CASE \E op \in {"and", "or"}, f \in S, g \in S : e = <<op, f, g>>
  <2>1. PICK op \in {"and", "or"}, f \in S, g \in S : e = <<op, f, g>> BY <1>2
  <2>2. Len(e) = 3 /\ e[1] = op /\ e[2] = f /\ e[3] = g BY <2>1
  <2>3. \A a \in Atoms : Len(a) = 1 BY DEF Atoms
  <2>4. 2..Len(e) = {2, 3} BY <2>2
  <2> QED BY <2>1, <2>2, <2>3, <2>4
<1> QED BY <1>1, <1>2 DEF Compound

LEMMA OperandsAreSimpler ==
    /\ Atoms \subseteq Shallow /\ Shallow \subseteq Expressions
    /\ \A e \in Expressions : e \in Atoms \/ \A i \in 2..Len(e) : e[i] \in Shallow
    /\ \A e \in Shallow : e \in Atoms \/ \A i \in 2..Len(e) : e[i] \in Atoms
<1>1. Atoms \subseteq Shallow /\ Shallow \subseteq Expressions
  BY DEF Shallow, Expressions
<1>2. ASSUME NEW S, NEW e \in Compound(S) PROVE \A i \in 2..Len(e) : e[i] \in S
  BY CompoundShape
<1>3. \A e \in Expressions : e \in Atoms \/ e \in Compound(Atoms) \/ e \in Compound(Shallow)
  BY DEF Shallow, Expressions
<1>4. \A e \in Shallow : e \in Atoms \/ e \in Compound(Atoms)
  BY DEF Shallow
<1>5. \A e \in Expressions : e \in Atoms \/ \A i \in 2..Len(e) : e[i] \in Shallow
  BY <1>1, <1>2, <1>3
<1> QED BY <1>1, <1>2, <1>4, <1>5

\* Expressions are nested twice at most, so unfolding a definition by cases three times
\* gives the function it defines.
LEMMA PartsIs ==
    Parts = [e \in Expressions |-> IF e \in Atoms THEN {e} ELSE UNION {Parts[e[i]] : i \in 2..Len(e)}]
<1> DEFINE Unfold(p) == [e \in Expressions |-> IF e \in Atoms THEN {e} ELSE UNION {p[e[i]] : i \in 2..Len(e)}]
           p0 == [e \in Expressions |-> {e}]
           p1 == Unfold(p0)
           p2 == Unfold(p1)
           p3 == Unfold(p2)
<1>1. \A e \in Atoms : p1[e] = {e} /\ p2[e] = {e}
  BY OperandsAreSimpler
<1>2. ASSUME NEW e \in Shallow PROVE p2[e] = p3[e]
  <2>1. CASE e \in Atoms BY <2>1, OperandsAreSimpler
  <2>2. CASE e \notin Atoms
    <3>1. \A i \in 2..Len(e) : p1[e[i]] = p2[e[i]]
      BY <1>1, <2>2, OperandsAreSimpler
    <3> HIDE DEF p1, p2
    <3>2. {p1[e[i]] : i \in 2..Len(e)} = {p2[e[i]] : i \in 2..Len(e)}
      BY <3>1
    <3>3. e \in Expressions BY OperandsAreSimpler
    <3> USE DEF p2
    <3> HIDE DEF p1
    <3>4. p2[e] = UNION {p1[e[i]] : i \in 2..Len(e)} BY <2>2, <3>3
    <3> HIDE DEF p2
    <3>5. p3[e] = UNION {p2[e[i]] : i \in 2..Len(e)} BY <2>2, <3>3
    <3> QED BY <3>2, <3>4, <3>5
  <2> QED BY <2>1, <2>2
<1>3. \A e \in Expressions : Unfold(p3)[e] = p3[e]
  <2> SUFFICES ASSUME NEW e \in Expressions PROVE Unfold(p3)[e] = p3[e] OBVIOUS
  <2>1. CASE e \in Atoms BY <2>1
  <2>2. CASE e \notin Atoms
    <3>1. \A i \in 2..Len(e) : p2[e[i]] = p3[e[i]]
      BY <1>2, <2>2, OperandsAreSimpler
    <3> HIDE DEF p2
    <3>2. p3[e] = UNION {p2[e[i]] : i \in 2..Len(e)} BY <2>2
    <3> HIDE DEF p3
    <3>3. {p2[e[i]] : i \in 2..Len(e)} = {p3[e[i]] : i \in 2..Len(e)}
      BY <3>1
    <3>4. Unfold(p3)[e] = UNION {p3[e[i]] : i \in 2..Len(e)} BY <2>2
    <3> QED BY <3>2, <3>3, <3>4
  <2> QED BY <2>1, <2>2
<1>4. p3 = Unfold(p3)
  <2>1. p3 = [e \in Expressions |-> p3[e]] OBVIOUS
  <2> HIDE DEF p3
  <2>2. Unfold(p3) = [e \in Expressions |-> Unfold(p3)[e]] OBVIOUS
  <2> HIDE DEF Unfold
  <2> QED BY <1>3, <2>1, <2>2
<1>5. \E p : p = [e \in Expressions |-> IF e \in Atoms THEN {e} ELSE UNION {p[e[i]] : i \in 2..Len(e)}]
  <2> HIDE DEF p3
  <2> QED BY <1>4
<1> QED BY <1>5 DEF Parts

LEMMA EvalNodeIs ==
    EvalNode = [e \in Expressions |->
        CASE e \in {<<"true">>, <<"false">>} -> e[1]
          [] e \in Atoms \ {<<"true">>, <<"false">>} -> "raises"
          [] Len(e) = 2 -> Negated(EvalNode[e[2]])
          [] Len(e) = 3 -> BoolOp(e[1], EvalNode[e[2]], EvalNode[e[3]])]
<1> DEFINE v(p, e) == CASE e \in {<<"true">>, <<"false">>} -> e[1]
                        [] e \in Atoms \ {<<"true">>, <<"false">>} -> "raises"
                        [] Len(e) = 2 -> Negated(p[e[2]])
                        [] Len(e) = 3 -> BoolOp(e[1], p[e[2]], p[e[3]])
           Unfold(p) == [e \in Expressions |-> v(p, e)]
           p0 == [e \in Expressions |-> "raises"]
           p1 == Unfold(p0)
           p2 == Unfold(p1)
           p3 == Unfold(p2)
\* Two functions that agree on the operands give the same value.
<1>1. ASSUME NEW p, NEW q, NEW e \in Expressions,
             e \in Atoms \/ \A i \in 2..Len(e) : p[e[i]] = q[e[i]]
      PROVE  Unfold(p)[e] = Unfold(q)[e]
  <2>1. CASE e \in Atoms
    <3>1. e \in {<<"true">>, <<"false">>} \/ e \in Atoms \ {<<"true">>, <<"false">>} BY <2>1
    <3>2. CASE e \in {<<"true">>, <<"false">>} BY <3>2
    <3>3. CASE e \in Atoms \ {<<"true">>, <<"false">>} BY <3>3
    <3> QED BY <3>1, <3>2, <3>3
  <2>2. CASE e \notin Atoms
    <3>1. e \in Compound(Shallow)
      <4>1. Compound(Atoms) \subseteq Compound(Shallow) BY OperandsAreSimpler DEF Compound
      <4> QED BY <2>2, <4>1 DEF Expressions, Shallow
    <3>2. e \notin {<<"true">>, <<"false">>} /\ \A i \in 2..Len(e) : p[e[i]] = q[e[i]]
      BY <1>1, <2>2 DEF Atoms
    <3>3. CASE Len(e) = 2
      BY <2>2, <3>2, <3>3
    <3>4. CASE Len(e) = 3
      BY <2>2, <3>2, <3>4
    <3>5. Len(e) = 2 \/ Len(e) = 3
      BY <3>1, CompoundShape
    <3> QED BY <3>3, <3>4, <3>5
  <2> QED BY <2>1, <2>2
<1> HIDE DEF Unfold
<1>2. \A e \in Atoms : p1[e] = p2[e]
  BY <1>1, OperandsAreSimpler
<1>3. \A e \in Shallow : p2[e] = p3[e]
  <2> SUFFICES ASSUME NEW e \in Shallow PROVE p2[e] = p3[e] OBVIOUS
  <2>1. e \in Expressions /\ (e \in Atoms \/ \A i \in 2..Len(e) : p1[e[i]] = p2[e[i]])
    <3> HIDE DEF p1, p2
    <3> QED BY <1>2, OperandsAreSimpler
  <2>2. Unfold(p1)[e] = Unfold(p2)[e]
    <3> HIDE DEF p1, p2
    <3> QED BY <1>1, <2>1
  <2> QED BY <2>2
<1>4. \A e \in Expressions : p3[e] = Unfold(p3)[e]
  <2> SUFFICES ASSUME NEW e \in Expressions PROVE p3[e] = Unfold(p3)[e] OBVIOUS
  <2>1. e \in Atoms \/ \A i \in 2..Len(e) : p2[e[i]] = p3[e[i]]
    <3> HIDE DEF p2, p3
    <3> QED BY <1>3, OperandsAreSimpler
  <2>2. Unfold(p2)[e] = Unfold(p3)[e]
    <3> HIDE DEF p2, p3
    <3> QED BY <1>1, <2>1
  <2> QED BY <2>2
<1>5. p3 = Unfold(p3)
  <2>1. ASSUME NEW p PROVE Unfold(p) = [e \in Expressions |-> Unfold(p)[e]]
    <3> HIDE DEF v
    <3> QED BY DEF Unfold
  <2>2. p3 = [e \in Expressions |-> p3[e]]
    <3> HIDE DEF p2
    <3> QED BY <2>1
  <2> HIDE DEF p3
  <2>3. Unfold(p3) = [e \in Expressions |-> Unfold(p3)[e]] BY <2>1
  <2> QED BY <1>4, <2>2, <2>3
<1>6. \E p : p = Unfold(p)
  <2> HIDE DEF p3
  <2> QED BY <1>5
<1> QED BY <1>6 DEF EvalNode, Unfold

LEMMA EvalNodeAt ==
    ASSUME NEW e \in Expressions
    PROVE  /\ e \in Atoms \ {<<"true">>, <<"false">>} => EvalNode[e] = "raises"
           /\ e \notin Atoms /\ Len(e) = 2 => EvalNode[e] = Negated(EvalNode[e[2]])
           /\ e \notin Atoms /\ Len(e) = 3 => EvalNode[e] = BoolOp(e[1], EvalNode[e[2]], EvalNode[e[3]])
<1>1. EvalNode[e] = CASE e \in {<<"true">>, <<"false">>} -> e[1]
                      [] e \in Atoms \ {<<"true">>, <<"false">>} -> "raises"
                      [] Len(e) = 2 -> Negated(EvalNode[e[2]])
                      [] Len(e) = 3 -> BoolOp(e[1], EvalNode[e[2]], EvalNode[e[3]])
  <2> DEFINE v(x) == CASE x \in {<<"true">>, <<"false">>} -> x[1]
                       [] x \in Atoms \ {<<"true">>, <<"false">>} -> "raises"
                       [] Len(x) = 2 -> Negated(EvalNode[x[2]])
                       [] Len(x) = 3 -> BoolOp(x[1], EvalNode[x[2]], EvalNode[x[3]])
  <2>1. EvalNode = [x \in Expressions |-> v(x)]
    BY EvalNodeIs
  <2> HIDE DEF v
  <2>2. EvalNode[e] = v(e) BY <2>1
  <2> QED BY <2>2 DEF v
<1>2. e \notin Atoms => e \notin {<<"true">>, <<"false">>}
  BY DEF Atoms
<1>3. CASE e \in Atoms \ {<<"true">>, <<"false">>}
  <2> DEFINE raised == e \in Atoms \ {<<"true">>, <<"false">>}
             plain == e \in {<<"true">>, <<"false">>}
  <2>a. raised /\ ~plain /\ Len(e) = 1 BY <1>3 DEF Atoms
  <2>b. EvalNode[e] = CASE plain -> e[1] [] raised -> "raises"
                        [] Len(e) = 2 -> Negated(EvalNode[e[2]])
                        [] Len(e) = 3 -> BoolOp(e[1], EvalNode[e[2]], EvalNode[e[3]])
    BY <1>1
  <2> HIDE DEF raised, plain
  <2>1. EvalNode[e] = "raises" BY <2>a, <2>b
  <2> QED BY <1>3, <2>1
<1>4. CASE e \notin Atoms /\ Len(e) = 2
  <2>1. EvalNode[e] = Negated(EvalNode[e[2]]) BY <1>1, <1>2, <1>4
  <2> QED BY <1>4, <2>1
<1>5. CASE e \notin Atoms /\ Len(e) = 3
  <2>1. EvalNode[e] = BoolOp(e[1], EvalNode[e[2]], EvalNode[e[3]]) BY <1>1, <1>2, <1>5
  <2> QED BY <1>5, <2>1
<1> QED BY <1>3, <1>4, <1>5

\* What is unresolved or disallowed makes the condition raise, wherever it is.
RaisesIn(e) ==
    (\E p \in Parts[e] : p \in {<<"unresolved">>, <<"disallowed">>}) => EvalNode[e] = "raises"

LEMMA CompoundRaises ==
    ASSUME NEW S, S \subseteq Expressions, Compound(S) \subseteq Expressions, \A f \in S : RaisesIn(f),
           NEW e \in Compound(S)
    PROVE  RaisesIn(e)
<1>1. e \in Expressions /\ e \notin Atoms
  BY CompoundShape
<1>2. Parts[e] = UNION {Parts[e[i]] : i \in 2..Len(e)}
  BY <1>1, PartsIs
<1>3. e \notin {<<"true">>, <<"false">>}
  BY <1>1 DEF Atoms
<1>4. CASE \E f \in S : Len(e) = 2 /\ e[2] = f /\ 2..Len(e) = {2}
  <2>1. PICK f \in S : Len(e) = 2 /\ e[2] = f /\ 2..Len(e) = {2} BY <1>4
  <2>2. Parts[e] = Parts[f] BY <1>2, <2>1
  <2>3. EvalNode[e] = Negated(EvalNode[f]) BY <1>1, <2>1, EvalNodeAt
  <2> QED BY <2>1, <2>2, <2>3 DEF RaisesIn, Negated
<1>5. CASE \E f \in S, g \in S : Len(e) = 3 /\ e[2] = f /\ e[3] = g /\ 2..Len(e) = {2, 3}
  <2>1. PICK f \in S, g \in S : Len(e) = 3 /\ e[2] = f /\ e[3] = g /\ 2..Len(e) = {2, 3} BY <1>5
  <2>2. Parts[e] = Parts[f] \cup Parts[g] BY <1>2, <2>1
  <2>3. EvalNode[e] = BoolOp(e[1], EvalNode[f], EvalNode[g]) BY <1>1, <2>1, EvalNodeAt
  <2>4. RaisesIn(f) /\ RaisesIn(g) BY <2>1
  <2> QED BY <2>2, <2>3, <2>4 DEF RaisesIn, BoolOp
<1> QED BY <1>4, <1>5, CompoundShape

LEMMA ConditionRaises == ASSUME NEW e \in Expressions PROVE RaisesIn(e)
<1>1. ASSUME NEW a \in Atoms PROVE RaisesIn(a)
  <2>1. a \in Expressions /\ Parts[a] = {a}
    BY PartsIs, OperandsAreSimpler
  <2>2. a \in {<<"unresolved">>, <<"disallowed">>} => a \in Atoms \ {<<"true">>, <<"false">>}
    BY DEF Atoms
  <2>3. a \in Atoms \ {<<"true">>, <<"false">>} => EvalNode[a] = "raises"
    BY <2>1, EvalNodeAt
  <2> QED BY <2>1, <2>2, <2>3 DEF RaisesIn
<1>2. Compound(Atoms) \subseteq Expressions /\ Atoms \subseteq Expressions /\ Shallow \subseteq Expressions
      /\ Compound(Shallow) \subseteq Expressions
  BY DEF Expressions, Shallow
<1>3. ASSUME NEW s \in Shallow PROVE RaisesIn(s)
  BY <1>1, <1>2, CompoundRaises DEF Shallow
<1> QED BY <1>2, <1>3, CompoundRaises DEF Expressions

\* Every step, and every other change, keeps the invariant.
LEMMA StepInvKept == ASSUME StepInv, [StepNext]_stepVars PROVE StepInv'
<1>1. CASE StepNext
  BY <1>1, TypesKept, StatusKept, StandingKept, OnceKept, RemediedKept, PagedKept, GatesKept DEF StepInv
<1>2. CASE UNCHANGED stepVars
  <2>1. StepTypes' /\ StatusFits' /\ GatesHold'
    BY <1>2 DEF stepVars, StepInv, StepTypes, StatusFits, GatesHold, Execution, StepIds, EvaluateCondition
  <2>2. Standing' /\ Once'
    BY <1>2 DEF stepVars, StepInv, Standing, Once, LeadsOn, Last
  <2>3. Remedied' /\ Paged'
    BY <1>2 DEF stepVars, StepInv, Remedied, Paged, Handled, LeadsOn
  <2> QED BY <2>1, <2>2, <2>3 DEF StepInv
<1> QED BY <1>1, <1>2

LEMMA StepInvHolds == StepSpec => []StepInv
<1>1. StepInit => StepInv BY StepsBegin
<1>2. StepInv /\ [StepNext]_stepVars => StepInv' BY StepInvKept
<1> QED BY <1>1, <1>2, PTL DEF StepSpec

\* orchestrator.py, executors.py: on every workflow no step succeeds twice, a completed run
\* has remediated its failures or was led on, a run pages four times at most, and a
\* condition with something unresolved or disallowed in it opens no gate.
THEOREM StepsAreEarned == StepSpec => []StepsHold
<1>1. ASSUME StepInv PROVE StepsHold
  <2>1. /\ StepTypes /\ StatusFits /\ Standing /\ Once /\ Remedied /\ Paged /\ GatesHold
    BY <1>1 DEF StepInv
  <2>2. /\ Len(executions) \in Nat /\ DOMAIN executions = 1..Len(executions)
        /\ \A i \in 1..Len(executions) : executions[i] \in Execution
        /\ \A s \in StepIds : graph[s].onFailure \in Seq(Int)
    BY <2>1, StepFacts
  <2>3. DoneOnce
    <3>1. ASSUME NEW s \in StepIds PROVE Times(s, "success") <= 1
      <4> DEFINE hits == {i \in DOMAIN executions : executions[i].step = s /\ executions[i].status = "success"}
      <4>1. \A i, j \in hits : i = j
        BY <2>1 DEF Once
      <4> HIDE DEF hits
      <4>2. Cardinality(hits) <= 1 BY <4>1, AtMostOne
      <4> QED BY <4>2 DEF hits, Times
    <3> QED BY <3>1 DEF DoneOnce
  <2>4. CompletedIsEarned
    <3>1. ASSUME runStatus = "completed", NEW i \in DOMAIN executions
          PROVE  CASE executions[i].status = "failed" -> FirstOf(graph[executions[i].step].onFailure \o <<FailStep>>) # FailStep
                   [] executions[i].status = "retried" -> \E j \in (i + 1)..Len(executions) : executions[j].step = executions[i].step
                   [] OTHER -> TRUE
      <4>1. place \notin {"choose", "execute", "prove", "capture", "failure", "remediate", "fail", "escalate"}
        BY <2>1, <3>1 DEF StatusFits
      <4>2. executions[i].status = "failed" => LeadsOn(executions[i].step)
        BY <2>1, <3>1, <4>1 DEF Remedied
      <4>3. executions[i].status = "retried" => \E j \in (i + 1)..Len(executions) : executions[j].step = executions[i].step
        BY <2>1, <3>1, <4>1 DEF Remedied
      <4>4. executions[i].step \in StepIds
        BY <2>2 DEF Execution
      <4>5. LeadsOn(executions[i].step) => FirstOf(graph[executions[i].step].onFailure \o <<FailStep>>) # FailStep
        BY <2>2, <4>4, FirstOrFail DEF LeadsOn
      <4> QED BY <4>2, <4>3, <4>5
    <3> QED BY <3>1 DEF CompletedIsEarned
  <2>5. PagesAreBounded
    <3>1. paged \in Nat /\ Len(remedies) \in Nat
      BY <2>1, StepFacts DEF StepTypes
    <3>2. Handled \in Int /\ Handled <= 3
      BY <2>1, <3>1 DEF Paged, Handled, RemediationLimit
    <3>3. CASE runStatus = "failed"
      BY <2>1, <3>1, <3>2, <3>3 DEF Paged, PagesAreBounded, RemediationLimit
    <3>4. CASE runStatus # "failed"
      BY <2>1, <3>1, <3>2, <3>4 DEF Paged, PagesAreBounded, RemediationLimit
    <3> QED BY <3>3, <3>4
  <2>6. GateFailsClosed
    BY <2>1, ConditionRaises DEF StepTypes, GatesHold, GateFailsClosed, RaisesIn, EvaluateCondition
  <2> QED BY <2>3, <2>4, <2>5, <2>6 DEF StepsHold
<1>2. StepSpec => []StepInv BY StepInvHolds
<1> QED BY <1>1, <1>2, PTL

-----------------------------------------------------------------------------
(* StepExecution implements ValidationRun *)

\* The enabled steps up to one of them are counted, so their places are 1, 2, ... in order.
LEMMA PlacesInOrder ==
    ASSUME StepTypes
    PROVE  /\ IsFiniteSet(Enabled) /\ Cardinality(Enabled) \in Nat /\ Enabled \subseteq StepIds
           /\ Enabled = {} <=> Cardinality(Enabled) = 0
           /\ \A s \in Enabled : ChainPlace(s) \in 1..Cardinality(Enabled)
           /\ \A s \in Enabled : (\A q \in Enabled : s <= q) => ChainPlace(s) = 1
           /\ \A s \in Enabled : (\A q \in Enabled : q <= s) => ChainPlace(s) = Cardinality(Enabled)
           /\ \A s, t \in Enabled : s < t /\ (\A q \in Enabled : q <= s \/ t <= q) => ChainPlace(t) = ChainPlace(s) + 1
           /\ \A s, t \in Enabled : s < t => ChainPlace(s) < ChainPlace(t)
<1> DEFINE Upto(s) == {q \in Enabled : q <= s}
<1>1. Len(graph) \in Nat /\ StepIds = 1..Len(graph) /\ Enabled \subseteq StepIds
  BY StepFacts DEF Enabled
<1>2. IsFiniteSet(Enabled) /\ Enabled \subseteq Int /\ Enabled \subseteq Nat
  <2>1. IsFiniteSet(1..Len(graph)) BY <1>1, FS_Interval
  <2>2. IsFiniteSet(Enabled) BY <1>1, <2>1, FS_Subset
  <2> QED BY <1>1, <2>2
<1>3. Cardinality(Enabled) \in Nat /\ (Enabled = {} <=> Cardinality(Enabled) = 0)
  BY <1>2, FS_CardinalityType, FS_EmptySet
<1> HIDE DEF Enabled
<1>4. ASSUME NEW s \in Enabled
      PROVE  /\ IsFiniteSet(Upto(s)) /\ ChainPlace(s) = Cardinality(Upto(s)) /\ Cardinality(Upto(s)) \in Nat
             /\ Cardinality(Upto(s)) <= Cardinality(Enabled) /\ s \in Upto(s) /\ Cardinality(Upto(s)) # 0
  <2>1. Upto(s) \subseteq Enabled /\ s \in Upto(s) BY <1>2
  <2>2. ChainPlace(s) = Cardinality(Upto(s)) BY DEF ChainPlace
  <2> HIDE DEF Upto
  <2>3. IsFiniteSet(Upto(s)) /\ Cardinality(Upto(s)) <= Cardinality(Enabled) BY <1>2, <2>1, FS_Subset
  <2>4. Cardinality(Upto(s)) \in Nat /\ Cardinality(Upto(s)) # 0 BY <2>1, <2>3, FS_CardinalityType, FS_EmptySet
  <2> QED BY <2>1, <2>2, <2>3, <2>4
<1>5. \A s \in Enabled : ChainPlace(s) \in 1..Cardinality(Enabled)
  <2> HIDE DEF Upto
  <2> QED BY <1>3, <1>4
<1>6. ASSUME NEW s \in Enabled, \A q \in Enabled : s <= q PROVE ChainPlace(s) = 1
  <2>1. Upto(s) = {s}
    <3>1. s \in Int /\ \A q \in Enabled : q \in Int /\ (q <= s <=> q = s) BY <1>2, <1>6
    <3> QED BY <3>1
  <2>2. Cardinality({s}) = 1 BY FS_Singleton
  <2> HIDE DEF Upto
  <2> QED BY <1>4, <2>1, <2>2
<1>7. ASSUME NEW s \in Enabled, \A q \in Enabled : q <= s PROVE ChainPlace(s) = Cardinality(Enabled)
  <2>1. Upto(s) = Enabled BY <1>7
  <2> HIDE DEF Upto
  <2> QED BY <1>4, <2>1
<1>8. ASSUME NEW s \in Enabled, NEW t \in Enabled, s < t, \A q \in Enabled : q <= s \/ t <= q
      PROVE  ChainPlace(t) = ChainPlace(s) + 1
  <2>1. Upto(t) = Upto(s) \cup {t} /\ t \notin Upto(s)
    <3>1. \A q \in Enabled : q \in Int BY <1>2
    <3>2. \A q \in Enabled : q <= t <=> q <= s \/ q = t BY <3>1, <1>8
    <3>3. ~(t <= s) /\ t <= t BY <3>1, <1>8
    <3> QED BY <3>2, <3>3
  <2> HIDE DEF Upto
  <2>2. Cardinality(Upto(s) \cup {t}) = Cardinality(Upto(s)) + 1
    BY <1>4, <2>1, FS_AddElement
  <2> QED BY <1>4, <2>1, <2>2
<1>9. ASSUME NEW s \in Enabled, NEW t \in Enabled, s < t PROVE ChainPlace(s) < ChainPlace(t)
  <2>1. Upto(s) \cup {t} \subseteq Upto(t) /\ t \notin Upto(s)
    <3>1. \A q \in Enabled : q \in Int BY <1>2
    <3>2. ~(t <= s) /\ t <= t /\ \A q \in Enabled : q <= s => q <= t BY <3>1, <1>9
    <3> QED BY <3>2
  <2> HIDE DEF Upto
  <2>2. Cardinality(Upto(s) \cup {t}) = Cardinality(Upto(s)) + 1
    BY <1>4, <2>1, FS_AddElement
  <2>3. Cardinality(Upto(s) \cup {t}) <= Cardinality(Upto(t))
    BY <1>4, <2>1, FS_Subset
  <2> QED BY <1>4, <2>2, <2>3
<1> QED BY <1>1, <1>2, <1>3, <1>5, <1>6, <1>7, <1>8, <1>9

\* What the assumption says of a step of the chain.
LEMMA ChainStep ==
    ASSUME StepTypes, Chained, NEW s \in StepIds
    PROVE  LET following == IF s < Len(graph) THEN s + 1 ELSE EndStep IN
           /\ graph[s].proof /\ FirstOf(graph[s].onSuccess) = following
           /\ Successors(s) \subseteq {following}
           /\ graph[s].onFailure # <<>> => FirstOf(graph[s].onFailure) = following
           /\ LeadsOn(s) <=> graph[s].onFailure # <<>>
<1> DEFINE following == IF s < Len(graph) THEN s + 1 ELSE EndStep
<1>1. graph = Chain /\ s \in DOMAIN Chain
  BY DEF Chained, StepIds
<1>2. /\ graph[s].proof /\ FirstOf(graph[s].onSuccess) = following /\ Len(graph[s].onSuccess) <= 1
      /\ graph[s].onFailure # <<>> => FirstOf(graph[s].onFailure) = following
  BY <1>1, ChainAssumption
<1>3. following # FailStep
  BY StepFacts DEF EndStep, FailStep
<1>4. LeadsOn(s) <=> graph[s].onFailure # <<>>
  BY <1>2, <1>3 DEF LeadsOn
<1>5. Successors(s) \subseteq {following}
  <2>1. graph[s].onSuccess \in Seq(Int)
    BY StepFacts
  <2>2. DOMAIN graph[s].onSuccess \subseteq {1} /\ (graph[s].onSuccess = <<>> => DOMAIN graph[s].onSuccess = {})
    BY <1>2, <2>1, LenProperties, EmptySeq
  <2> QED BY <1>2, <2>2 DEF Successors, FirstOf
<1> QED BY <1>2, <1>4, <1>5

\* A chain leads forward.
LEMMA ChainIsAcyclic == ASSUME StepTypes, Chained PROVE ~Cyclic
<1> SUFFICES ASSUME NEW C \in SUBSET Reachable, C # {}, \A s \in C : Successors(s) \cap C # {} PROVE FALSE
  <2>1. Cyclic <=> \E C \in (SUBSET Reachable) \ {{}} : \A s \in C : Successors(s) \cap C # {} BY DEF Cyclic
  <2> QED BY <2>1
<1>1. C \in SUBSET Nat /\ C \subseteq StepIds /\ Len(graph) \in Nat /\ \A s \in C : s <= Len(graph)
  BY StepFacts DEF Reachable
<1>2. PICK m \in C : \A s \in C : s <= m
  BY <1>1, LargestOf
<1>3. m \in StepIds /\ m \in Nat /\ EndStep \notin C
  BY <1>1, StepFacts DEF EndStep
<1>4. Successors(m) \subseteq {m + 1, EndStep}
  BY <1>3, ChainStep
<1>5. m + 1 \notin C
  BY <1>2, <1>3
<1> QED BY <1>2, <1>3, <1>4, <1>5

\* Where the run is on the chain: what is executed lies behind it.
Behind ==
    /\ place # "dropped"
    /\ current = EndStep \/ current \in StepIds \/ StepIds = {}
    /\ current # EndStep => \A s \in executed : s <= current
    /\ place = "choose" => current \notin executed

\* Before it runs, nothing has happened.
Fresh ==
    place \in {"none", "publish", "sent", "queued"} =>
        /\ current = 1 /\ executed = {} /\ executions = <<>> /\ remedies = <<>> /\ paged = 0
        /\ captured = {} /\ covered = {}

\* StepAt the end nothing is ahead; a run that has entered no step has all ahead.
Forward ==
    /\ place \in {"finish", "complete"} => Ahead = {}
    /\ place \in {"choose", "finish", "complete"} /\ runStatus = "running" => Enabled \subseteq Ahead

ChainInv == Chained => Behind /\ Fresh /\ Forward

\* No step changes the workflow.
LEMMA GraphStays ==
    ASSUME StepNext
    PROVE  graph' = graph /\ (Chained' <=> Chained) /\ StepIds' = StepIds /\ Enabled' = Enabled
           /\ \A s : ChainPlace(s)' = ChainPlace(s)
<1>1. graph' = graph
  BY DEF StepNext, TriggerAlone, PublishAlone, BeginAlone, RunAlone, EndLoop, PassDisabled,
         EnterEnabled, ExecutorReturns, ExecutorRaises, ProveStep, CaptureAndCheck, LeaveStep, Attempt, Carry,
         CarryFails, NoMoreRemedies, FinalProofs, CompleteAlone, FailAlone, HandleRunFailure, inputs
<1> QED BY <1>1 DEF Chained, StepIds, Enabled, ChainPlace

\* Leaving a step, all that was ahead but the step is ahead.
LEMMA AheadMoves ==
    ASSUME StepTypes, Chained, Enabled' = Enabled, current \in StepIds,
           current' = IF current < Len(graph) THEN current + 1 ELSE EndStep
    PROVE  Ahead' = Ahead \ {current}
<1>1. Len(graph) \in Nat /\ StepIds = 1..Len(graph) /\ Enabled \subseteq StepIds /\ current \in Nat
  BY StepFacts DEF Enabled
<1>2. current # EndStep
  BY <1>1 DEF EndStep
<1> HIDE DEF Enabled
<1>3. \A s \in Enabled : s \in Nat /\ s >= 1 /\ s <= Len(graph) BY <1>1
<1>4. CASE current < Len(graph)
  <2>1. current' = current + 1 /\ current' # EndStep
    BY <1>1, <1>4 DEF EndStep
  <2>2. \A s \in Enabled : s >= current + 1 <=> s >= current /\ s # current
    BY <1>1, <1>3
  <2>3. Ahead' = {s \in Enabled : s >= current + 1}
    BY <2>1 DEF Ahead
  <2> QED BY <1>2, <2>2, <2>3 DEF Ahead
<1>5. CASE ~(current < Len(graph))
  <2>1. \A s \in Enabled : s >= current => s = current
    BY <1>1, <1>3, <1>5
  <2>2. Ahead' = {}
    BY <1>5 DEF Ahead
  <2> QED BY <2>1, <2>2 DEF Ahead
<1> QED BY <1>4, <1>5

\* Where a step that is left leads, by either path.
LEMMA LeavingLeads ==
    ASSUME StepInv, Chained, LeaveStep
    PROVE  current' = IF current < Len(graph) THEN current + 1 ELSE EndStep
<1>1. StepTypes /\ Standing BY DEF StepInv
<1>2. current \in StepIds
  BY <1>1 DEF Standing, LeaveStep, StepTypes
<1>3. \/ via = "onSuccess"
      \/ via = "onFailure" /\ LeadsOn(current)
  BY <1>1 DEF Standing, LeaveStep
<1>4. CASE via = "onSuccess"
  <2>1. graph[current][via] = graph[current].onSuccess BY <1>4
  <2> QED BY <1>1, <1>2, <2>1, ChainStep DEF LeaveStep
<1>5. CASE via = "onFailure" /\ LeadsOn(current)
  <2>1. graph[current][via] = graph[current].onFailure BY <1>5
  <2> QED BY <1>1, <1>2, <1>5, <2>1, ChainStep DEF LeaveStep
<1> QED BY <1>3, <1>4, <1>5

LEMMA ChainInvKept == ASSUME StepInv, ChainInv, StepNext PROVE ChainInv'
<1> SUFFICES ASSUME Chained PROVE Behind' /\ Fresh' /\ Forward'
  BY GraphStays DEF ChainInv
<1>1. /\ StepTypes /\ StatusFits /\ Standing /\ Behind /\ Fresh /\ Forward
      /\ executed \subseteq StepIds /\ place \in StepPlaces
  BY DEF StepInv, ChainInv, StepTypes
<1>2. StepIds' = StepIds /\ Enabled' = Enabled /\ Enabled \subseteq StepIds
  BY GraphStays DEF Enabled
<1>3. Len(graph) \in Nat /\ StepIds = 1..Len(graph) /\ current \in Int
  BY <1>1, StepFacts DEF StepTypes
<1>4. current' = current => Ahead' = Ahead
  BY <1>2 DEF Ahead
<1> USE DEF rows, inputs
<1>5. CASE TriggerAlone \/ PublishAlone \/ RunAlone
  <2>1. Behind' /\ Fresh'
    BY <1>1, <1>2, <1>5 DEF Behind, Fresh, TriggerAlone, PublishAlone, RunAlone
  <2>2. current' = current /\ current = 1
    BY <1>1, <1>5 DEF Fresh, TriggerAlone, PublishAlone, RunAlone
  <2>3. Enabled \subseteq Ahead
    <3>1. \A s \in Enabled : s >= 1 BY <1>2, <1>3
    <3> QED BY <2>2, <3>1 DEF Ahead, EndStep
  <2> QED BY <1>2, <1>4, <1>5, <2>1, <2>2, <2>3 DEF Forward, TriggerAlone, PublishAlone, RunAlone
<1>6. CASE BeginAlone
  <2>1. ~Cyclic BY <1>1, ChainIsAcyclic
  <2> QED BY <1>1, <1>2, <1>6, <2>1 DEF BeginAlone, Behind, Fresh, Forward
<1>7. CASE EndLoop
  <2>1. current \notin StepIds
    BY <1>1, <1>7 DEF EndLoop, ToExecute, Behind
  <2>2. Ahead = {}
    BY <1>1, <1>2, <2>1 DEF Behind, Ahead
  <2>3. Behind' /\ Fresh'
    BY <1>1, <1>2, <1>7 DEF EndLoop, Behind, Fresh
  <2>4. Forward'
    BY <1>1, <1>2, <1>4, <1>7, <2>2 DEF EndLoop, Forward
  <2> QED BY <2>3, <2>4
<1>8. CASE PassDisabled
  <2>1. current \in StepIds /\ current \notin executed /\ ~graph[current].enabled /\ place' = "choose"
    BY <1>8 DEF PassDisabled, ToExecute
  <2>2. current' = IF current < Len(graph) THEN current + 1 ELSE EndStep
    BY <1>1, <1>8, <2>1, ChainStep DEF PassDisabled
  <2>3. Ahead' = Ahead
    <3>1. current \notin Ahead BY <2>1 DEF Ahead, Enabled
    <3> QED BY <1>1, <1>2, <2>1, <2>2, <3>1, AheadMoves
  <2>4. executed' = executed \cup {current}
    BY <1>8 DEF PassDisabled
  <2>5. current # EndStep /\ \A s \in executed : s <= current
    BY <1>1, <1>3, <2>1 DEF Behind, EndStep
  <2>6. Behind'
    <3>1. current' = EndStep \/ (current' = current + 1 /\ current' \in StepIds)
      <4>1. current < Len(graph) => current + 1 \in StepIds BY <1>3, <2>1
      <4> QED BY <2>2, <4>1
    <3>2. EndStep \notin StepIds BY <1>3 DEF EndStep
    <3>3. \A s \in executed' : s \in StepIds /\ s <= current
      BY <1>1, <1>3, <2>1, <2>4, <2>5
    <3>4. current' # EndStep => \A s \in executed' : s <= current'
      BY <1>3, <3>1, <3>3
    <3>5. current' \notin executed'
      BY <1>3, <3>1, <3>2, <3>3
    <3> QED BY <1>2, <2>1, <3>1, <3>4, <3>5 DEF Behind
  <2> QED BY <1>1, <1>2, <1>8, <2>1, <2>3, <2>6 DEF Fresh, Forward, PassDisabled
<1>9. CASE EnterEnabled
  <2>1. current \in StepIds /\ current # EndStep
    BY <1>3, <1>9 DEF EnterEnabled, ToExecute, EndStep
  <2>2. Behind'
    BY <1>1, <1>2, <1>3, <1>9, <2>1 DEF Behind, EnterEnabled
  <2> QED BY <1>1, <1>9, <2>2 DEF EnterEnabled, Fresh, Forward
<1>10. CASE ExecutorReturns \/ ExecutorRaises \/ ProveStep \/ CaptureAndCheck \/ Attempt \/ CarryFails \/ NoMoreRemedies
  BY <1>1, <1>2, <1>10 DEF Behind, Fresh, Forward, FailurePath,
     ExecutorReturns, ExecutorRaises, ProveStep, CaptureAndCheck, Attempt, CarryFails, NoMoreRemedies
<1>11. CASE LeaveStep
  <2>1. current \in StepIds
    BY <1>1, <1>11 DEF Standing, LeaveStep
  <2>2. current' = IF current < Len(graph) THEN current + 1 ELSE EndStep
    BY <1>11, LeavingLeads
  <2>3. current # EndStep /\ EndStep \notin StepIds
    BY <1>3, <2>1 DEF EndStep
  <2>4. \A s \in executed : s <= current
    BY <1>1, <2>3 DEF Behind
  <2>5. current' = EndStep \/ (current' = current + 1 /\ current' \in StepIds)
    <3>1. current < Len(graph) => current + 1 \in StepIds BY <1>3, <2>1
    <3> QED BY <2>2, <3>1
  <2>6. executed' = executed /\ place' = "choose" /\ runStatus' = "remediation_checking"
    BY <1>1, <1>11 DEF LeaveStep, StatusFits
  <2>7. current' # EndStep => \A s \in executed : s <= current'
    BY <1>1, <1>3, <2>4, <2>5
  <2>8. current' \notin executed
    <3>1. \A s \in executed : s \in StepIds /\ s # current + 1 BY <1>1, <1>3, <2>4
    <3> QED BY <2>3, <2>5, <3>1
  <2> QED BY <1>2, <2>5, <2>6, <2>7, <2>8 DEF Behind, Fresh, Forward
<1>12. CASE Carry
  <2>1. /\ place' = "choose" /\ executed' = executed \ {current} /\ current' = current
        /\ runStatus' = "remediation_checking"
    BY <1>1, <1>12 DEF Carry, Retries, StatusFits
  <2> QED BY <1>1, <1>2, <2>1 DEF Behind, Fresh, Forward
<1>13. CASE FinalProofs \/ CompleteAlone \/ FailAlone \/ HandleRunFailure
  BY <1>1, <1>2, <1>4, <1>13 DEF Behind, Fresh, Forward, FinalProofs, CompleteAlone, FailAlone, HandleRunFailure
<1> QED BY <1>5, <1>6, <1>7, <1>8, <1>9, <1>10, <1>11, <1>12, <1>13 DEF StepNext

LEMMA ChainInvHolds == StepSpec => [](StepInv /\ ChainInv)
<1>1. StepInit => ChainInv
  <2> SUFFICES ASSUME StepInit, Chained PROVE Behind /\ Fresh /\ Forward BY DEF ChainInv
  <2>1. StepInv BY StepsBegin
  <2>2. Len(graph) \in Nat /\ StepIds = 1..Len(graph)
    BY <2>1, StepFacts DEF StepInv
  <2>3. current = EndStep \/ current \in StepIds \/ StepIds = {}
    BY <2>2 DEF StepInit
  <2> QED BY <2>3 DEF StepInit, Behind, Fresh, Forward
<1>2. StepInv /\ ChainInv /\ [StepNext]_stepVars => ChainInv'
  <2> SUFFICES ASSUME StepInv, ChainInv, UNCHANGED stepVars PROVE ChainInv'
    BY ChainInvKept
  <2> QED BY DEF stepVars, ChainInv, Chained, Behind, Fresh, Forward, Ahead, Enabled, StepIds
<1>3. StepSpec => []StepInv BY StepInvHolds
<1> QED BY <1>1, <1>2, <1>3, PTL DEF StepSpec

\* The variables of the run's one worker, and its queue.
One(x) == [t \in {"worker"} |-> x]
Sent(n) == [r \in 0..3 |-> IF r = 0 THEN n ELSE 0]

LEMMA OneChanges ==
    /\ \A x : One(x)["worker"] = x
    /\ \A x, y : [One(x) EXCEPT !["worker"] = y] = One(y)
BY DEF One

LEMMA SentChanges ==
    /\ Sent(0)[0] = 0 /\ Sent(1)[0] = 1
    /\ [Sent(0) EXCEPT ![0] = @ + 1] = Sent(1) /\ [Sent(1) EXCEPT ![0] = @ - 1] = Sent(0)
<1>1. \A n : Sent(n)[0] = n BY DEF Sent
<1>2. \A n, m : [Sent(n) EXCEPT ![0] = m] = Sent(m) BY DEF Sent
<1>3. Sent(0)[0] + 1 = 1 /\ Sent(1)[0] - 1 = 0 BY <1>1
<1> QED BY <1>1, <1>2, <1>3

Messages == IF place = "sent" THEN 1 ELSE 0
Holds == IF Worked THEN runStatus ELSE "none"
Succeeded == Worked /\ executions # <<>> /\ Last.status = "success"
Paging == IF paged > 0 THEN "some" ELSE "none"
Asking == IF place = "publish" THEN "publish" ELSE "idle"

\* What the run is on the chain.
Viewed ==
    /\ RunStatus = runStatus /\ RunRemediations = Handled
    /\ RunQueue = Sent(Messages) /\ RunPc = One(Pc) /\ RunMine = One(Holds)
    /\ RunAt = One(StepAt) /\ RunOk = One(Succeeded)
    /\ RunDone = ChainPlaces(StepsDone) /\ RunProofs = ChainPlaces(captured) /\ RunRoot = ChainPlaces(covered)
    /\ RunEscalations = Paging /\ RunRequest = Asking

LEMMA ViewIs == Chained => Viewed
BY DEF Viewed, One, Sent, Messages, Holds, Succeeded, Paging, Asking,
   RunStatus, RunRemediations, RunQueue, RunPc, RunMine, RunAt, RunOk, RunDone, RunProofs, RunRoot,
   RunEscalations, RunRequest

\* The step the run is at, place by place.
AtFacts ==
    /\ Enabled = {} \/ place \in {"none", "publish", "sent", "queued"} \/ (place = "end" /\ runStatus = "failed")
          => StepAt = 1
    /\ Enabled # {} =>
          /\ place = "choose" =>
                /\ Ahead = {} => StepAt = Cardinality(Enabled)
                /\ \A m \in Ahead : (\A q \in Ahead : m <= q) /\ Ahead \subseteq Int => StepAt = ChainPlace(m)
          /\ place \in {"finish", "complete"} \/ (place = "end" /\ runStatus # "failed") => StepAt = Cardinality(Enabled)
          /\ place \in {"execute", "prove", "capture", "leave", "failure", "remediate", "fail", "escalate"} =>
                StepAt = ChainPlace(current)

LEMMA AtIs == AtFacts
<1>1. ASSUME Enabled # {}, place = "choose", NEW m \in Ahead, \A q \in Ahead : m <= q, Ahead \subseteq Int
      PROVE  StepAt = ChainPlace(m)
  <2>1. (CHOOSE s \in Ahead : \A q \in Ahead : s <= q) = m
    <3> DEFINE c == CHOOSE s \in Ahead : \A q \in Ahead : s <= q
    <3>1. c \in Ahead /\ \A q \in Ahead : c <= q BY <1>1
    <3>2. c <= m /\ m <= c /\ c \in Int /\ m \in Int BY <1>1, <3>1
    <3> QED BY <3>2
  <2> QED BY <1>1, <2>1 DEF StepAt
<1>2. Enabled = {} \/ place \in {"none", "publish", "sent", "queued"} \/ (place = "end" /\ runStatus = "failed")
          => StepAt = 1
  BY DEF StepAt
<1>3. Enabled # {} /\ place = "choose" /\ Ahead = {} => StepAt = Cardinality(Enabled)
  BY DEF StepAt
<1>4. Enabled # {} /\ (place \in {"finish", "complete"} \/ (place = "end" /\ runStatus # "failed")) => StepAt = Cardinality(Enabled)
  BY DEF StepAt
<1>5. Enabled # {} /\ place \in {"execute", "prove", "capture", "leave", "failure", "remediate", "fail", "escalate"} =>
                StepAt = ChainPlace(current)
  BY DEF StepAt
<1> QED BY <1>1, <1>2, <1>3, <1>4, <1>5 DEF AtFacts

\* What results from a step stays, unless a step writes it.
Results == <<Handled, ChainPlaces(StepsDone), ChainPlaces(captured), ChainPlaces(covered), Paging>>

LEMMA ResultsStay ==
    ASSUME StepNext
    PROVE  /\ executions' = executions => StepsDone' = StepsDone
           /\ StepsDone' = StepsDone => ChainPlaces(StepsDone)' = ChainPlaces(StepsDone)
           /\ captured' = captured => ChainPlaces(captured)' = ChainPlaces(captured)
           /\ covered' = covered => ChainPlaces(covered)' = ChainPlaces(covered)
           /\ StepsDone' = StepsDone \cup {current} =>
                 ChainPlaces(StepsDone)' = ChainPlaces(StepsDone) \cup {ChainPlace(current)}
           /\ captured' = captured \cup {current} =>
                 ChainPlaces(captured)' = ChainPlaces(captured) \cup {ChainPlace(current)}
           /\ covered' = captured => ChainPlaces(covered)' = ChainPlaces(captured)
           /\ UNCHANGED rows /\ "remediate" \notin {place, place'} => Results' = Results
<1>1. \A s : ChainPlace(s)' = ChainPlace(s) BY GraphStays
<1>2. executions' = executions => StepsDone' = StepsDone BY DEF StepsDone
<1>3. StepsDone' = StepsDone => ChainPlaces(StepsDone)' = ChainPlaces(StepsDone)
  BY <1>1 DEF ChainPlaces
<1>4. /\ captured' = captured => ChainPlaces(captured)' = ChainPlaces(captured)
      /\ covered' = covered => ChainPlaces(covered)' = ChainPlaces(covered)
      /\ covered' = captured => ChainPlaces(covered)' = ChainPlaces(captured)
  BY <1>1 DEF ChainPlaces
<1>5. StepsDone' = StepsDone \cup {current} =>
          ChainPlaces(StepsDone)' = ChainPlaces(StepsDone) \cup {ChainPlace(current)}
  BY <1>1 DEF ChainPlaces
<1>6. captured' = captured \cup {current} =>
          ChainPlaces(captured)' = ChainPlaces(captured) \cup {ChainPlace(current)}
  BY <1>1 DEF ChainPlaces
<1>7. UNCHANGED rows /\ "remediate" \notin {place, place'} => Handled' = Handled /\ Paging' = Paging
  BY DEF Handled, Paging, rows
<1> QED BY <1>2, <1>3, <1>4, <1>5, <1>6, <1>7 DEF Results, rows

\* The steps of the run, and which of them may fail.
LEMMA StepsAre ==
    ASSUME StepTypes, Chained
    PROVE  /\ ChainSteps = Enabled
           /\ \A s \in Enabled : ChainPlace(s) \in ChainOptional <=> LeadsOn(s)
<1>1. ChainSteps = Enabled
  BY DEF ChainSteps, Enabled, StepIds, Chained
<1>2. ChainOptional = {ChainPlace(s) : s \in {s \in Enabled : Chain[s].onFailure # <<>>}}
  BY <1>1 DEF ChainOptional, ChainPlace
<1>3. \A s \in Enabled : Chain[s].onFailure # <<>> <=> LeadsOn(s)
  BY ChainStep DEF Chained, Enabled
<1>4. \A s, t \in Enabled : ChainPlace(s) = ChainPlace(t) => s = t
  <2>1. \A s \in Enabled : s \in Int
    BY StepFacts DEF Enabled
  <2>2. \A s \in Enabled : ChainPlace(s) \in Int
    BY PlacesInOrder
  <2>3. \A s, t \in Enabled : s < t => ChainPlace(s) < ChainPlace(t)
    BY PlacesInOrder
  <2> QED BY <2>1, <2>2, <2>3
<1> QED BY <1>1, <1>2, <1>3, <1>4

\* What both sides of a step of the chain's run look like.
BothSides ==
    /\ Chained /\ StepTypes /\ StatusFits /\ Standing /\ Behind /\ Fresh /\ Forward
    /\ Viewed /\ Viewed' /\ AtFacts /\ AtFacts'
    /\ Enabled' = Enabled /\ \A s : ChainPlace(s)' = ChainPlace(s)

LEMMA SidesAre == ASSUME StepInv, ChainInv, Chained, StepNext PROVE BothSides
<1>1. Chained' BY GraphStays
<1>2. AtFacts' BY AtIs, PTL
<1>3. Viewed' 
  <2>1. Chained' => Viewed' BY ViewIs, PTL
  <2> QED BY <1>1, <2>1
<1> QED BY <1>2, <1>3, ViewIs, AtIs, GraphStays DEF BothSides, StepInv, ChainInv

\* The step the run is at is the first ahead.
LEMMA CurrentIsFirst ==
    ASSUME StepTypes, current \in Enabled
    PROVE  current \in Ahead /\ (\A q \in Ahead : current <= q) /\ Ahead \subseteq Int /\ Enabled # {}
<1>1. \A s \in Enabled : s \in Int /\ s # EndStep
  BY StepFacts DEF Enabled, EndStep
<1> HIDE DEF Enabled
<1> QED BY <1>1 DEF Ahead

\* Until the run is running.
LEMMA RunStarts ==
    ASSUME BothSides, StepNext, TriggerAlone \/ PublishAlone \/ BeginAlone \/ RunAlone
    PROVE  Run!Next
<1>1. /\ Viewed /\ Viewed' /\ AtFacts /\ AtFacts' /\ StatusFits /\ Fresh
      /\ Behind /\ StepTypes /\ Chained /\ Enabled' = Enabled
  BY DEF BothSides
<1>2. /\ current = 1 /\ executions = <<>> /\ UNCHANGED rows /\ current' = current
      /\ place \in {"none", "publish", "sent", "queued"} /\ place' \in {"publish", "sent", "dropped", "queued", "choose"}
  BY <1>1 DEF TriggerAlone, PublishAlone, BeginAlone, RunAlone, Fresh
<1>3. Results' = Results /\ StepAt = 1 /\ Succeeded' = Succeeded
  <2>1. Succeeded = FALSE /\ Succeeded' = FALSE
    BY <1>2 DEF Succeeded, rows
  <2> QED BY <1>1, <1>2, <2>1, ResultsStay DEF AtFacts
<1>4. CASE TriggerAlone
  <2>1. /\ runStatus = "none" /\ runStatus' = "pending" /\ Messages' = Messages /\ Asking' = "publish"
        /\ Pc' = Pc /\ Holds' = Holds /\ StepAt' = StepAt
    BY <1>1, <1>3, <1>4 DEF TriggerAlone, StatusFits, Messages, Asking, Pc, Holds, Worked, AtFacts
  <2>2. Run!Trigger
    BY <1>1, <1>3, <2>1 DEF Viewed, Results, Run!Trigger, Run!results, Run!history
  <2> QED BY <2>2 DEF Run!Next
<1>5. CASE PublishAlone
  <2>1. /\ runStatus' = runStatus /\ Messages = 0 /\ Messages' = 1 /\ Asking = "publish" /\ Asking' = "idle"
        /\ Pc' = Pc /\ Holds' = Holds /\ StepAt' = StepAt
    BY <1>1, <1>3, <1>5 DEF PublishAlone, Messages, Asking, Pc, Holds, Worked, AtFacts
  <2>2. Run!Publish
    BY <1>1, <1>3, <2>1, SentChanges DEF Viewed, Results, Run!Publish, Run!Enqueue, Run!results, Run!history
  <2> QED BY <2>2 DEF Run!Next
<1>6. CASE BeginAlone
  <2>1. ~Cyclic BY <1>1, ChainIsAcyclic
  <2>2. /\ runStatus = "pending" /\ runStatus' = "queued" /\ Messages = 1 /\ Messages' = 0 /\ Asking' = Asking
        /\ Pc = "idle" /\ Pc' = "queued" /\ Holds' = "queued" /\ StepAt' = StepAt
    BY <1>1, <1>3, <1>6, <2>1 DEF BeginAlone, StatusFits, Messages, Asking, Pc, Holds, Worked, AtFacts
  <2>3. Run!Begin("worker", 0)
    BY <1>1, <1>3, <2>2, SentChanges, OneChanges
    DEF Viewed, Results, Run!Begin, Run!Goto, Run!Valid, Run!results, Run!outside, Run!history
  <2> QED BY <2>3 DEF Run!Next, Run!Receive
<1>7. CASE RunAlone
  <2>1. Ahead' = Enabled
    <3>1. \A s \in Enabled : s >= 1 BY <1>1, StepFacts DEF Enabled
    <3>2. current' # EndStep BY <1>2 DEF EndStep
    <3> HIDE DEF Enabled
    <3> QED BY <1>1, <1>2, <3>1, <3>2 DEF Ahead
  <2>2. Pc' = IF Enabled = {} THEN "finish" ELSE "enter"
    BY <1>7, <2>1 DEF RunAlone, Pc
  <2>3. StepAt' = 1
    <3>1. CASE Enabled = {}
      BY <1>1, <3>1 DEF AtFacts
    <3>2. CASE Enabled # {}
      <4>1. Enabled \in SUBSET Nat
        BY <1>1, StepFacts DEF Enabled
      <4>2. PICK m \in Enabled : \A q \in Enabled : m <= q
        BY <3>2, <4>1, LeastOf
      <4>3. ChainPlace(m) = 1
        BY <1>1, <4>2, PlacesInOrder
      <4>4. StepAt' = ChainPlace(m)'
        <5>1. place' = "choose" BY <1>7 DEF RunAlone
        <5>2. Ahead' \subseteq Int BY <2>1, <4>1
        <5> HIDE DEF Ahead, Enabled
        <5> QED BY <1>1, <2>1, <3>2, <4>2, <5>1, <5>2 DEF AtFacts
      <4> QED BY <4>3, <4>4, GraphStays
    <3> QED BY <3>1, <3>2
  <2>4. /\ runStatus = "queued" /\ runStatus' = "running" /\ Messages' = Messages /\ Asking' = Asking
        /\ Pc = "queued" /\ Holds = runStatus /\ Holds' = runStatus'
    BY <1>1, <1>7 DEF RunAlone, StatusFits, Messages, Asking, Pc, Holds, Worked
  <2>5. Run!Steps = {} <=> Enabled = {}
    <3>1. Cardinality(Enabled) \in Nat /\ (Enabled = {} <=> Cardinality(Enabled) = 0)
      BY <1>1, PlacesInOrder
    <3>2. Run!Steps = 1..Cardinality(Enabled)
      BY <1>1, StepsAre DEF Run!Steps
    <3> QED BY <3>1, <3>2
  <2>6. Run!StartRunning("worker")
    BY <1>1, <1>3, <2>2, <2>3, <2>4, <2>5, OneChanges
    DEF Viewed, Results, Run!StartRunning, Run!Advance, Run!Allowed, Run!Goto, Run!Valid, Run!results, Run!outside, Run!history
  <2> QED BY <2>6 DEF Run!Next, Run!Work
<1> QED BY <1>4, <1>5, <1>6, <1>7

\* What the run does not see: the end of the loop, a disabled step, a remedy begun.
LEMMA RunWaits ==
    ASSUME BothSides, StepInv, ChainInv', StepNext, EndLoop \/ PassDisabled \/ Attempt
    PROVE  UNCHANGED Run!vars
<1>1. /\ Viewed /\ Viewed' /\ AtFacts /\ AtFacts' /\ StatusFits /\ Behind /\ StepTypes /\ Chained
      /\ Enabled' = Enabled /\ \A s : ChainPlace(s)' = ChainPlace(s)
  BY DEF BothSides
<1>2. SUFFICES /\ runStatus' = runStatus /\ Results' = Results /\ Messages' = Messages /\ Asking' = Asking
               /\ Pc' = Pc /\ Holds' = Holds /\ StepAt' = StepAt /\ Succeeded' = Succeeded
  BY <1>1 DEF Viewed, Results, Run!vars
<1>3. CASE EndLoop
  <2>1. Ahead = {} /\ Ahead' = {}
    <3>1. current \notin StepIds BY <1>1, <1>3 DEF EndLoop, ToExecute, Behind
    <3>2. current' = current BY <1>3 DEF EndLoop
    <3> QED BY <1>1, <3>1, <3>2 DEF Ahead, Behind, Enabled
  <2>2. Results' = Results
    BY <1>3, ResultsStay DEF EndLoop
  <2>3. StepAt' = StepAt
    BY <1>1, <1>3, <2>1 DEF EndLoop, AtFacts
  <2>4. Pc' = Pc /\ Holds' = Holds /\ Succeeded' = Succeeded /\ Messages' = Messages /\ Asking' = Asking
    BY <1>3, <2>1 DEF EndLoop, Pc, Holds, Worked, Succeeded, Last, Messages, Asking, rows
  <2> QED BY <1>3, <2>2, <2>3, <2>4 DEF EndLoop
<1>4. CASE PassDisabled
  <2>1. current \in StepIds /\ ~graph[current].enabled /\ place = "choose" /\ place' = "choose"
    BY <1>4 DEF PassDisabled, ToExecute
  <2>2. Ahead' = Ahead
    <3>1. current' = IF current < Len(graph) THEN current + 1 ELSE EndStep
      BY <1>1, <1>4, <2>1, ChainStep DEF PassDisabled
    <3>2. current \notin Ahead BY <2>1 DEF Ahead, Enabled
    <3> QED BY <1>1, <2>1, <3>1, <3>2, AheadMoves
  <2>3. Results' = Results
    BY <1>4, <2>1, ResultsStay DEF PassDisabled
  <2>4. StepAt' = StepAt
    BY <1>1, <2>1, <2>2 DEF StepAt
  <2>5. Pc' = Pc /\ Holds' = Holds /\ Succeeded' = Succeeded /\ Messages' = Messages /\ Asking' = Asking
    BY <1>4, <2>1, <2>2 DEF PassDisabled, Pc, Holds, Worked, Succeeded, Last, Messages, Asking, rows
  <2> QED BY <1>4, <2>3, <2>4, <2>5 DEF PassDisabled
<1>5. CASE Attempt
  <2>1. /\ place = "failure" /\ place' = "remediate" /\ runStatus' = runStatus /\ current' = current
        /\ executions' = executions /\ captured' = captured /\ covered' = covered /\ paged' = paged
    BY <1>5 DEF Attempt
  <2>2. Handled' = Handled
    <3>1. Len(remedies') = Len(remedies) + 1 /\ Len(remedies) \in Nat
      BY <1>1, <1>5, DecisionIsAction, RemedyAdded, StepFacts DEF Attempt
    <3> QED BY <2>1, <3>1 DEF Handled
  <2>3. Results' = Results
    BY <2>1, <2>2, ResultsStay DEF Results, Paging
  <2>4. StepAt' = StepAt
    BY <1>1, <2>1 DEF AtFacts
  <2>5. Pc' = Pc /\ Holds' = Holds /\ Succeeded' = Succeeded /\ Messages' = Messages /\ Asking' = Asking
    BY <2>1 DEF Pc, Holds, Worked, Succeeded, Last, Messages, Asking
  <2> QED BY <2>1, <2>3, <2>4, <2>5
<1> QED BY <1>3, <1>4, <1>5

\* A step is entered, executed, proved, checked and left.
LEMMA RunSteps ==
    ASSUME BothSides, StepInv, StepNext,
           EnterEnabled \/ ExecutorReturns \/ ExecutorRaises \/ ProveStep \/ CaptureAndCheck \/ LeaveStep
    PROVE  Run!Next
<1>1. /\ Viewed /\ Viewed' /\ AtFacts /\ AtFacts' /\ StatusFits /\ Behind /\ StepTypes /\ Chained /\ Standing
      /\ Enabled' = Enabled /\ \A s : ChainPlace(s)' = ChainPlace(s)
  BY DEF BothSides
<1>2. current \in Enabled
  BY <1>1 DEF EnterEnabled, ExecutorReturns, ExecutorRaises, ProveStep, CaptureAndCheck, LeaveStep,
     ToExecute, Standing, Enabled, StepTypes
<1>3. /\ current \in Ahead /\ (\A q \in Ahead : current <= q) /\ Ahead \subseteq Int /\ Enabled # {}
      /\ current \in StepIds
  BY <1>1, <1>2, CurrentIsFirst DEF Enabled
<1>4. StepAt = ChainPlace(current)
  BY <1>1, <1>3 DEF AtFacts, EnterEnabled, ExecutorReturns, ExecutorRaises, ProveStep, CaptureAndCheck, LeaveStep
<1>5. ~LeaveStep => StepAt' = StepAt
  <2>1. /\ ~LeaveStep => current' = current /\ place' \in {"execute", "prove", "capture", "leave", "failure"}
    BY DEF EnterEnabled, ExecutorReturns, ExecutorRaises, ProveStep, CaptureAndCheck
  <2> QED BY <1>1, <1>3, <1>4, <2>1 DEF AtFacts
<1>6. Messages' = Messages /\ Asking' = Asking
  BY DEF Messages, Asking, EnterEnabled, ExecutorReturns, ExecutorRaises, ProveStep, CaptureAndCheck, LeaveStep
<1>7. CASE EnterEnabled
  <2>1. Results' = Results
    BY <1>7, ResultsStay DEF EnterEnabled
  <2>2. /\ runStatus \in {"running", "remediation_checking"} /\ runStatus' = "step_validating"
        /\ Holds = runStatus /\ Holds' = runStatus' /\ Succeeded' = Succeeded
    BY <1>1, <1>7 DEF EnterEnabled, StatusFits, Holds, Worked, Succeeded, Last, rows
  <2>3. Pc = "enter" /\ Pc' = "execute"
    BY <1>3, <1>7 DEF EnterEnabled, Pc
  <2>4. Run!EnterStep("worker")
    BY <1>1, <1>5, <1>6, <1>7, <2>1, <2>2, <2>3, OneChanges
    DEF EnterEnabled, LeaveStep, Viewed, Results, Run!EnterStep, Run!Advance, Run!Allowed, Run!Goto, Run!Valid,
        Run!results, Run!outside, Run!history
  <2> QED BY <2>4 DEF Run!Next, Run!Work
<1>8. ASSUME NEW st \in {"success", "failed"}, NEW e \in SUBSET Texts, executions' = Row(st, e)
      PROVE  /\ StepsDone' = IF st = "success" THEN StepsDone \cup {current} ELSE StepsDone
             /\ executions' # <<>> /\ Last'.status = st
  <2>1. graph' = graph BY GraphStays
  <2>2. /\ DOMAIN executions' = 1..(Len(executions) + 1) /\ DOMAIN executions = 1..Len(executions) /\ Len(executions) \in Nat
        /\ \A i \in 1..Len(executions) : executions'[i] = executions[i]
        /\ executions'[Len(executions) + 1] = [step |-> current, status |-> st, error |-> e]
        /\ Last' = [step |-> current, status |-> st, error |-> e] /\ executions' # <<>>
    BY <1>1, <1>3, <1>8, <2>1, RowAdded, StepFacts
  <2>3. ASSUME NEW s PROVE s \in StepsDone' <=> s \in StepsDone \/ (st = "success" /\ s = current)
    <3>1. s \in StepsDone' <=> \E i \in 1..(Len(executions) + 1) : executions'[i].status = "success" /\ executions'[i].step = s
      BY <2>2 DEF StepsDone
    <3>2. s \in StepsDone <=> \E i \in 1..Len(executions) : executions[i].status = "success" /\ executions[i].step = s
      BY <2>2 DEF StepsDone
    <3>3. \A i \in 1..(Len(executions) + 1) : i \in 1..Len(executions) \/ i = Len(executions) + 1
      BY <2>2
    <3>4. \A i \in 1..Len(executions) : i \in 1..(Len(executions) + 1)
      BY <2>2
    <3>5. Len(executions) + 1 \in 1..(Len(executions) + 1)
      BY <2>2
    <3> QED BY <2>2, <3>1, <3>2, <3>3, <3>4, <3>5
  <2> QED BY <2>2, <2>3
<1>9. CASE ExecutorReturns
  <2>1. /\ StepsDone' = StepsDone \cup {current} /\ executions' # <<>> /\ Last'.status = "success"
    BY <1>8, <1>9 DEF ExecutorReturns
  <2>2. /\ ChainPlaces(StepsDone)' = ChainPlaces(StepsDone) \cup {StepAt} /\ Handled' = Handled /\ Paging' = Paging
        /\ ChainPlaces(captured)' = ChainPlaces(captured) /\ ChainPlaces(covered)' = ChainPlaces(covered)
    BY <1>4, <1>9, <2>1, ResultsStay DEF ExecutorReturns, Handled, Paging
  <2>3. /\ Pc = "execute" /\ Pc' = "prove" /\ runStatus' = runStatus /\ Holds' = Holds /\ Succeeded' = TRUE
    BY <1>9, <2>1 DEF ExecutorReturns, Pc, Holds, Worked, Succeeded
  <2>4. Run!Execute("worker", TRUE)
    BY <1>1, <1>5, <1>6, <1>9, <2>2, <2>3, OneChanges
    DEF ExecutorReturns, LeaveStep, Viewed, Run!Execute, Run!Goto, Run!outside, Run!history
  <2> QED BY <2>4 DEF Run!Next, Run!Work
<1>10. CASE ExecutorRaises
  <2>1. /\ StepsDone' = StepsDone /\ executions' # <<>> /\ Last'.status = "failed"
    <3>1. PICK e \in Errors(current) : executions' = Row("failed", e)
      BY <1>10 DEF ExecutorRaises
    <3>2. e \in SUBSET Texts BY ErrorsAreTexts
    <3> QED BY <1>8, <3>1, <3>2
  <2>2. /\ ChainPlaces(StepsDone)' = ChainPlaces(StepsDone) /\ Handled' = Handled /\ Paging' = Paging
        /\ ChainPlaces(captured)' = ChainPlaces(captured) /\ ChainPlaces(covered)' = ChainPlaces(covered)
    BY <1>4, <1>10, <2>1, ResultsStay DEF ExecutorRaises, Handled, Paging
  <2>3. /\ Pc = "execute" /\ Pc' = "prove" /\ runStatus' = runStatus /\ Holds' = Holds /\ Succeeded' = FALSE
    BY <1>10, <2>1 DEF ExecutorRaises, Pc, Holds, Worked, Succeeded
  <2>4. Run!Execute("worker", FALSE)
    BY <1>1, <1>5, <1>6, <1>10, <2>2, <2>3, OneChanges
    DEF ExecutorRaises, LeaveStep, Viewed, Run!Execute, Run!Goto, Run!outside, Run!history
  <2> QED BY <2>4 DEF Run!Next, Run!Work
<1>11. CASE ProveStep
  <2>1. Results' = Results
    BY <1>11, ResultsStay DEF ProveStep
  <2>2. /\ runStatus = "step_validating" /\ runStatus' = "proof_generating"
        /\ Holds = runStatus /\ Holds' = runStatus' /\ Succeeded' = Succeeded
        /\ Pc = "prove" /\ Pc' = "capture"
    BY <1>1, <1>11 DEF ProveStep, StatusFits, Holds, Worked, Succeeded, Last, Pc, rows
  <2>3. Run!GenerateProof("worker")
    BY <1>1, <1>5, <1>6, <1>11, <2>1, <2>2, OneChanges
    DEF ProveStep, LeaveStep, Viewed, Results, Run!GenerateProof, Run!Advance, Run!Allowed, Run!Goto, Run!Valid,
        Run!results, Run!outside, Run!history
  <2> QED BY <2>3 DEF Run!Next, Run!Work
<1>12. CASE CaptureAndCheck
  <2>1. captured' = captured \cup {current}
    BY <1>1, <1>3, <1>12, ChainStep DEF CaptureAndCheck
  <2>2. /\ ChainPlaces(captured)' = ChainPlaces(captured) \cup {StepAt} /\ Handled' = Handled /\ Paging' = Paging
        /\ ChainPlaces(StepsDone)' = ChainPlaces(StepsDone) /\ ChainPlaces(covered)' = ChainPlaces(covered)
    BY <1>4, <1>12, <2>1, ResultsStay DEF CaptureAndCheck, Handled, Paging
  <2>3. /\ runStatus = "proof_generating" /\ runStatus' = "remediation_checking"
        /\ Holds = runStatus /\ Holds' = runStatus' /\ Succeeded' = Succeeded
    BY <1>1, <1>12 DEF CaptureAndCheck, StatusFits, Holds, Worked, Succeeded, Last
  <2>4. Succeeded <=> Last.status = "success"
    BY <1>1, <1>12 DEF CaptureAndCheck, Standing, Succeeded, Worked
  <2>5. Pc = "capture" /\ Pc' = IF Succeeded THEN "next" ELSE "failure"
    BY <1>12, <2>4 DEF CaptureAndCheck, Pc
  <2>6. Run!CheckRemediation("worker")
    BY <1>1, <1>5, <1>6, <1>12, <2>2, <2>3, <2>5, OneChanges
    DEF CaptureAndCheck, LeaveStep, Viewed, Run!CheckRemediation, Run!Captured, Run!Advance, Run!Allowed, Run!Goto,
        Run!Valid, Run!outside, Run!history
  <2> QED BY <2>6 DEF Run!Next, Run!Work
<1>13. CASE LeaveStep
  <2>1. Results' = Results
    BY <1>13, ResultsStay DEF LeaveStep
  <2>2. /\ runStatus' = runStatus /\ Holds' = Holds /\ Succeeded' = Succeeded /\ place' = "choose" /\ Pc = "next"
    BY <1>1, <1>13 DEF LeaveStep, Holds, Worked, Succeeded, Last, Pc, rows
  <2>3. Ahead' = Ahead \ {current}
    BY <1>1, <1>3, <1>13, LeavingLeads, AheadMoves
  <2>4. ChainSteps = Enabled
    BY <1>1, StepsAre
  <2>5. \A s \in Enabled : s \in Nat /\ s # EndStep
    BY <1>1, StepFacts DEF Enabled, EndStep
  <2>6. \A s \in Enabled : s > current <=> s \in Ahead'
    BY <1>2, <2>3, <2>5 DEF Ahead
  <2>7. Ahead' \subseteq Enabled
    BY <2>3 DEF Ahead
  <2>8. ChainPlace(current) \in Nat /\ Cardinality(Enabled) \in Nat
    BY <1>1, <1>2, PlacesInOrder
  <2>9. CASE Ahead' = {}
    <3>1. \A q \in Enabled : q <= current
      BY <1>2, <2>5, <2>6, <2>9
    <3>2. ChainPlace(current) = Cardinality(Enabled)
      BY <1>1, <1>2, <3>1, PlacesInOrder
    <3>3. StepAt' = Cardinality(Enabled) /\ Pc' = "finish"
      BY <1>1, <1>3, <2>2, <2>9 DEF AtFacts, Pc
    <3>4. Run!NextStep("worker")
      BY <1>1, <1>4, <1>6, <2>1, <2>2, <2>4, <2>8, <3>2, <3>3, OneChanges
      DEF Viewed, Results, Run!NextStep, Run!Goto, Run!results, Run!outside, Run!history
    <3> QED BY <3>4 DEF Run!Next, Run!Work
  <2>10. CASE Ahead' # {}
    <3>1. Ahead' \in SUBSET Nat
      BY <2>5, <2>7
    <3>2. PICK m \in Ahead' : \A q \in Ahead' : m <= q
      BY <2>10, <3>1, LeastOf
    <3>3. m \in Enabled /\ current < m /\ \A q \in Enabled : q <= current \/ m <= q
      BY <1>2, <2>5, <2>6, <2>7, <3>2
    <3>4. ChainPlace(m) = ChainPlace(current) + 1
      BY <1>1, <1>2, <3>3, PlacesInOrder
    <3>5. ChainPlace(m) \in 1..Cardinality(Enabled)
      BY <1>1, <3>3, PlacesInOrder
    <3>6. StepAt' = ChainPlace(m) /\ Pc' = "enter"
      <4>1. Ahead' \subseteq Int BY <3>1
      <4>2. StepAt' = ChainPlace(m)' BY <1>1, <1>3, <2>2, <3>2, <4>1 DEF AtFacts
      <4> QED BY <1>1, <2>2, <2>10, <4>2 DEF Pc
    <3>7. Run!NextStep("worker")
      BY <1>1, <1>4, <1>6, <2>1, <2>2, <2>4, <2>8, <3>4, <3>5, <3>6, OneChanges
      DEF Viewed, Results, Run!NextStep, Run!Goto, Run!results, Run!outside, Run!history
    <3> QED BY <3>7 DEF Run!Next, Run!Work
  <2> QED BY <2>9, <2>10
<1> QED BY <1>7, <1>9, <1>10, <1>11, <1>12, <1>13

\* A failure is remediated, or taken for good.
LEMMA RunRemedies ==
    ASSUME BothSides, StepInv, StepNext, Carry \/ CarryFails \/ NoMoreRemedies
    PROVE  Run!Next
<1>1. /\ Viewed /\ Viewed' /\ AtFacts /\ AtFacts' /\ StatusFits /\ Behind /\ StepTypes /\ Chained /\ Standing
      /\ Enabled' = Enabled /\ \A s : ChainPlace(s)' = ChainPlace(s)
  BY DEF BothSides
<1>2. current \in Enabled
  BY <1>1 DEF Carry, CarryFails, NoMoreRemedies, Standing, Enabled, StepTypes
<1>3. /\ current \in Ahead /\ (\A q \in Ahead : current <= q) /\ Ahead \subseteq Int /\ Enabled # {}
      /\ current \in StepIds
  BY <1>1, <1>2, CurrentIsFirst DEF Enabled
<1>4. /\ place \in {"failure", "remediate"} /\ current' = current /\ place' \in {"choose", "leave", "fail"}
      /\ captured' = captured /\ covered' = covered /\ runStatus' = runStatus
  BY DEF Carry, CarryFails, NoMoreRemedies, FailurePath, Retries, rows
<1>5. Ahead' = Ahead
  BY <1>1, <1>4 DEF Ahead
<1>6. StepAt = ChainPlace(current) /\ StepAt' = StepAt
  <2>1. StepAt = ChainPlace(current)
    BY <1>1, <1>3, <1>4 DEF AtFacts
  <2>2. CASE place' = "choose"
    <3>1. PICK m \in Ahead : m = current BY <1>3
    <3>2. StepAt' = ChainPlace(m)'
      BY <1>1, <1>3, <1>5, <2>2, <3>1 DEF AtFacts
    <3> QED BY <1>1, <2>1, <3>1, <3>2
  <2>3. CASE place' \in {"leave", "fail"}
    BY <1>1, <1>3, <1>4, <2>1, <2>3 DEF AtFacts
  <2> QED BY <1>4, <2>1, <2>2, <2>3
<1>7. /\ Messages' = Messages /\ Asking' = Asking /\ Holds' = Holds /\ Pc = "failure"
      /\ runStatus = "remediation_checking"
      /\ ChainPlaces(captured)' = ChainPlaces(captured) /\ ChainPlaces(covered)' = ChainPlaces(covered)
  BY <1>1, <1>4, ResultsStay DEF Messages, Asking, Holds, Worked, Pc, StatusFits
<1>8. Last.status = "failed" /\ executions # <<>> /\ Succeeded = FALSE
  BY <1>1, <1>4 DEF Standing, Succeeded
<1>9. Len(remedies) \in Nat /\ Len(remedies) <= 3 /\ paged \in Nat
  BY <1>1, StepFacts DEF StepInv, Paged, StepTypes, RemediationLimit
<1>10. LeadsOn(current) <=> ChainPlace(current) \in ChainOptional
  BY <1>1, <1>2, StepsAre
<1>11. CASE Carry
  <2>1. /\ place = "remediate" /\ place' = "choose" /\ remedies # <<>> /\ Outcome("succeeded")
        /\ executions' = [executions EXCEPT ![Len(executions)].status = "retried"]
        /\ paged' = IF Action = "escalate" THEN paged + 1 ELSE paged
    BY <1>1, <1>11 DEF Carry, Retries, Standing
  <2>2. Len(remedies') = Len(remedies) /\ Len(remedies) # 0
    BY <1>1, <1>9, <2>1, RemedyOver, EmptySeq DEF StepTypes
  <2>3. Handled < 3 /\ Handled' = Handled + 1
    BY <1>9, <2>1, <2>2 DEF Handled
  <2>4. /\ DOMAIN executions' = 1..Len(executions) /\ DOMAIN executions = 1..Len(executions) /\ Len(executions) \in Nat \ {0}
        /\ \A i \in 1..(Len(executions) - 1) : executions'[i] = executions[i]
        /\ executions'[Len(executions)].status = "retried" /\ Last'.status = "retried"
        /\ executions[Len(executions)].status = "failed"
    BY <1>1, <1>8, <2>1, GraphStays, RowRetried DEF Last
  <2>5. ChainPlaces(StepsDone)' = ChainPlaces(StepsDone)
    <3>1. \A i \in 1..Len(executions) :
              /\ executions'[i].status = "success" <=> executions[i].status = "success"
              /\ executions[i].status = "success" => executions'[i].step = executions[i].step
      <4>1. Len(executions) \in Nat BY <2>4
      <4>2. \A i \in 1..Len(executions) : i \in 1..(Len(executions) - 1) \/ i = Len(executions)
        BY <4>1
      <4> QED BY <2>4, <4>2
    <3>2. \A s : s \in StepsDone' <=> s \in StepsDone
      BY <2>4, <3>1 DEF StepsDone
    <3> QED BY <3>2, ResultsStay
  <2>6. Succeeded' = FALSE
    BY <2>4 DEF Succeeded
  <2>7. Pc' = "enter"
    BY <1>3, <1>5, <2>1 DEF Pc
  <2>8. CASE Action = "escalate"
    <3>1. Paging' = "some" BY <1>9, <2>1, <2>8 DEF Paging
    <3>2. Run!Remediate("worker", TRUE)
      BY <1>1, <1>4, <1>6, <1>7, <1>8, <2>3, <2>5, <2>6, <2>7, <3>1, OneChanges
      DEF Viewed, Run!Remediate, Run!MayRemediate, Run!Goto, Run!outside, Run!history, RemediationLimit
    <3> QED BY <3>2 DEF Run!Next, Run!Work
  <2>9. CASE Action # "escalate"
    <3>1. Paging' = Paging BY <2>1, <2>9 DEF Paging
    <3>2. Run!Remediate("worker", FALSE)
      BY <1>1, <1>4, <1>6, <1>7, <1>8, <2>3, <2>5, <2>6, <2>7, <3>1, OneChanges
      DEF Viewed, Run!Remediate, Run!MayRemediate, Run!Goto, Run!outside, Run!history, RemediationLimit
    <3> QED BY <3>2 DEF Run!Next, Run!Work
  <2> QED BY <2>8, <2>9
<1>12. CASE CarryFails
  <2>1. /\ place = "remediate" /\ remedies # <<>> /\ Outcome("failed") /\ paged' = paged /\ executions' = executions
        /\ place' = IF LeadsOn(current) THEN "leave" ELSE "fail"
    BY <1>1, <1>12 DEF CarryFails, FailurePath, Standing
  <2>2. Len(remedies') = Len(remedies) /\ Len(remedies) # 0
    BY <1>1, <1>9, <2>1, RemedyOver, EmptySeq DEF StepTypes
  <2>3. Handled < 3 /\ Handled' = Handled + 1
    BY <1>9, <2>1, <2>2 DEF Handled
  <2>4. Succeeded' = FALSE /\ Paging' = Paging /\ ChainPlaces(StepsDone)' = ChainPlaces(StepsDone)
    BY <1>8, <2>1, ResultsStay DEF Succeeded, Last, Paging
  <2>5. Pc' = IF StepAt \in ChainOptional THEN "next" ELSE "fail"
    BY <1>6, <1>10, <2>1 DEF Pc
  <2>6. Run!FollowFailurePath("worker")
    BY <1>1, <1>7, <2>5, OneChanges DEF Viewed, Run!FollowFailurePath, Run!Goto
  <2>7. Run!RemediationFails("worker")
    BY <1>1, <1>4, <1>6, <1>7, <1>8, <2>3, <2>4, <2>6, OneChanges
    DEF Viewed, Run!RemediationFails, Run!MayRemediate, Run!outside, Run!history, RemediationLimit
  <2> QED BY <2>7 DEF Run!Next, Run!Work
<1>13. CASE NoMoreRemedies
  <2>1. /\ place = "failure" /\ UNCHANGED rows /\ Len(remedies) >= 3
        /\ place' = IF LeadsOn(current) THEN "leave" ELSE "fail"
    BY <1>13 DEF NoMoreRemedies, FailurePath, RemediationCount, RemediationLimit
  <2>2. Results' = Results /\ Handled = Len(remedies)
    BY <1>4, <2>1, ResultsStay DEF Handled
  <2>3. Succeeded' = FALSE
    BY <1>8, <2>1 DEF Succeeded, Last, rows
  <2>4. Pc' = IF StepAt \in ChainOptional THEN "next" ELSE "fail"
    BY <1>6, <1>10, <2>1 DEF Pc
  <2>5. ~(Handled < 3)
    BY <1>9, <2>1, <2>2
  <2>6. Run!FollowFailurePath("worker")
    BY <1>1, <1>7, <2>4, OneChanges DEF Viewed, Run!FollowFailurePath, Run!Goto
  <2>7. Run!GiveUp("worker")
    BY <1>1, <1>4, <1>6, <1>7, <1>8, <2>2, <2>3, <2>5, <2>6, OneChanges
    DEF Viewed, Results, Run!GiveUp, Run!MayRemediate, Run!results, Run!outside, Run!history, RemediationLimit
  <2> QED BY <2>7 DEF Run!Next, Run!Work
<1> QED BY <1>11, <1>12, <1>13

\* The root is built, and the run completes or fails.
LEMMA RunCloses ==
    ASSUME BothSides, StepInv, StepNext, FinalProofs \/ CompleteAlone \/ FailAlone \/ HandleRunFailure
    PROVE  Run!Next
<1>1. /\ Viewed /\ Viewed' /\ AtFacts /\ AtFacts' /\ StatusFits /\ Forward /\ StepTypes /\ Chained
      /\ Enabled' = Enabled /\ \A s : ChainPlace(s)' = ChainPlace(s)
  BY DEF BothSides
<1>2. /\ current' = current /\ executions' = executions /\ remedies' = remedies /\ captured' = captured
      /\ place \in {"finish", "complete", "fail", "escalate"} /\ place' \in {"complete", "fail", "escalate", "end"}
  BY DEF FinalProofs, CompleteAlone, FailAlone, HandleRunFailure, rows
<1>3. /\ Messages' = Messages /\ Asking' = Asking /\ Handled' = Handled
      /\ ChainPlaces(captured)' = ChainPlaces(captured) /\ ChainPlaces(StepsDone)' = ChainPlaces(StepsDone)
  BY <1>2, ResultsStay DEF Messages, Asking, Handled
<1>4. CASE FinalProofs
  <2>1. /\ ChainPlaces(covered)' = ChainPlaces(captured) /\ Paging' = Paging
    BY <1>4, ResultsStay DEF FinalProofs, Paging
  <2>2. /\ runStatus' = runStatus /\ Holds' = Holds /\ Succeeded' = Succeeded /\ Pc = "finish" /\ Pc' = "complete"
    BY <1>4 DEF FinalProofs, Holds, Worked, Succeeded, Last, Pc
  <2>3. StepAt' = StepAt
    BY <1>1, <1>4 DEF FinalProofs, AtFacts
  <2>4. Run!BuildRoot("worker")
    BY <1>1, <1>3, <2>1, <2>2, <2>3, OneChanges
    DEF Viewed, Run!BuildRoot, Run!Goto, Run!outside, Run!history
  <2> QED BY <2>4 DEF Run!Next, Run!Work
<1>5. CASE CompleteAlone
  <2>1. Results' = Results
    BY <1>2, <1>5, ResultsStay DEF CompleteAlone
  <2>2. place = "complete" /\ runStatus \in {"running", "remediation_checking"} /\ Holds = runStatus /\ Pc = "complete"
    BY <1>1, <1>5 DEF CompleteAlone, StatusFits, Holds, Worked, Pc
  <2>3. CASE runStatus = "remediation_checking"
    <3>1. place' = "end" /\ runStatus' = "completed" /\ executions' = executions
      BY <1>2, <1>5, <2>3 DEF CompleteAlone
    <3>2. Holds' = "completed" /\ Pc' = "idle" /\ Succeeded' = Succeeded
      BY <2>2, <3>1 DEF Holds, Worked, Pc, Succeeded, Last
    <3>3. StepAt' = StepAt
      BY <1>1, <2>2, <3>1 DEF AtFacts
    <3>4. Run!Complete("worker")
      BY <1>1, <1>3, <2>1, <2>2, <2>3, <3>1, <3>2, <3>3, OneChanges
      DEF Viewed, Results, Run!Complete, Run!Advance, Run!Allowed, Run!Valid, Run!Goto, Run!results, Run!outside, Run!history
    <3> QED BY <3>4 DEF Run!Next, Run!Work
  <2>4. CASE runStatus = "running"
    <3>1. place' = "fail" /\ runStatus' = runStatus /\ executions' = executions
      BY <1>2, <1>5, <2>4 DEF CompleteAlone
    <3>2. Holds' = Holds /\ Pc' = "fail" /\ Succeeded' = Succeeded
      BY <2>2, <3>1 DEF Holds, Worked, Pc, Succeeded, Last
    <3>3. Enabled = {}
      BY <1>1, <2>2, <2>4 DEF Forward
    <3>4. StepAt' = StepAt
      BY <1>1, <3>3 DEF AtFacts
    <3>5. Run!Complete("worker")
      BY <1>1, <1>3, <2>1, <2>2, <2>4, <3>1, <3>2, <3>4, OneChanges
      DEF Viewed, Results, Run!Complete, Run!Advance, Run!Allowed, Run!Valid, Run!Goto, Run!results, Run!outside, Run!history
    <3> QED BY <3>5 DEF Run!Next, Run!Work
  <2> QED BY <2>2, <2>3, <2>4
<1>6. CASE FailAlone
  <2>1. Results' = Results
    BY <1>2, <1>6, ResultsStay DEF FailAlone
  <2>2. /\ runStatus \in {"running", "remediation_checking"} /\ runStatus' = "failed"
        /\ Holds = runStatus /\ Holds' = runStatus' /\ Pc = "fail" /\ Pc' = "escalate"
    BY <1>1, <1>6 DEF FailAlone, StatusFits, Holds, Worked, Pc
  <2>3. StepAt' = StepAt /\ Succeeded' = Succeeded
    BY <1>1, <1>2, <1>6 DEF FailAlone, AtFacts, Succeeded, Worked, Last
  <2>4. Run!FailRun("worker")
    BY <1>1, <1>3, <2>1, <2>2, <2>3, OneChanges
    DEF Viewed, Results, Run!FailRun, Run!Advance, Run!Allowed, Run!Valid, Run!Goto, Run!results, Run!outside, Run!history
  <2> QED BY <2>4 DEF Run!Next, Run!Work
<1>7. CASE HandleRunFailure
  <2>1. /\ ChainPlaces(covered)' = ChainPlaces(covered) /\ Paging' = "some"
    <3>1. paged \in Nat /\ paged' = paged + 1 BY <1>1, <1>7 DEF HandleRunFailure, StepTypes
    <3>2. covered' = covered BY <1>7 DEF HandleRunFailure
    <3> QED BY <3>1, <3>2, ResultsStay DEF Paging
  <2>2. /\ runStatus' = runStatus /\ runStatus = "failed" /\ place' = "end"
    BY <1>1, <1>7 DEF HandleRunFailure, StatusFits
  <2>3. Pc = "escalate" /\ Pc' = "idle" /\ Holds' = "none" /\ Succeeded' = FALSE /\ StepAt' = 1
    BY <1>1, <1>7, <2>2 DEF HandleRunFailure, Holds, Worked, Succeeded, Pc, AtFacts
  <2>4. Run!EscalateRun("worker")
    BY <1>1, <1>3, <2>1, <2>2, <2>3, OneChanges
    DEF Viewed, Run!EscalateRun, Run!EndTask, Run!Goto, Run!outside, Run!history
  <2> QED BY <2>4 DEF Run!Next, Run!Work
<1> QED BY <1>4, <1>5, <1>6, <1>7

\* On another workflow the run is one that nobody triggers.
LEMMA OtherRunsStay == ASSUME StepNext, ~Chained PROVE UNCHANGED Run!vars
<1>1. ~Chained' BY GraphStays
<1> QED BY <1>1 DEF Run!vars, RunStatus, RunRemediations, RunQueue, RunPc, RunMine, RunAt, RunOk, RunDone, RunProofs,
     RunRoot, RunEscalations, RunRequest

\* A run that begins.
LEMMA RunBegins == ASSUME StepInit PROVE Run!Init
<1>1. CASE Chained
  <2>1. Viewed BY <1>1, ViewIs
  <2>2. /\ runStatus = "none" /\ Messages = 0 /\ Pc = "idle" /\ Holds = "none" /\ Succeeded = FALSE
        /\ StepAt = 1 /\ Paging = "none" /\ Asking = "idle"
    BY AtIs DEF StepInit, Messages, Pc, Holds, Worked, Succeeded, AtFacts, Paging, Asking
  <2>3. Handled = 0 /\ ChainPlaces(captured) = {} /\ ChainPlaces(covered) = {}
    BY EmptySeq DEF StepInit, Handled, ChainPlaces
  <2>4. ChainPlaces(StepsDone) = {}
    <3>1. DOMAIN executions = {} BY EmptySeq DEF StepInit
    <3> QED BY <3>1 DEF StepsDone, ChainPlaces
  <2> QED BY <2>1, <2>2, <2>3, <2>4 DEF Viewed, One, Sent, Run!Init
<1>2. CASE ~Chained
  BY <1>2 DEF Run!Init, RunStatus, RunRemediations, RunQueue, RunPc, RunMine, RunAt, RunOk, RunDone, RunProofs,
     RunRoot, RunEscalations, RunRequest
<1> QED BY <1>1, <1>2

\* execute_workflow, with its executors, actions and paths, takes on a chain of steps only
\* the steps of the run that ValidationRun describes: each of its steps is one of the run's,
\* or one the run does not see.
THEOREM StepsImplementRun == StepSpec => ImplementsRun
<1>1. StepInit => Run!Init BY RunBegins
<1>2. ASSUME StepInv, ChainInv, ChainInv', [StepNext]_stepVars PROVE [Run!Next]_(Run!vars)
  <2>1. CASE UNCHANGED stepVars
    <3>1. graph' = graph /\ (Chained' <=> Chained) /\ StepIds' = StepIds
      BY <2>1 DEF stepVars, Chained, StepIds
    <3>2. Enabled' = Enabled /\ \A s : ChainPlace(s)' = ChainPlace(s)
      BY <3>1 DEF Enabled, ChainPlace
    <3>3. Ahead' = Ahead /\ StepsDone' = StepsDone /\ Last' = Last
      BY <2>1, <3>2 DEF stepVars, Ahead, StepsDone, Last
    <3>4. /\ ChainPlaces(StepsDone)' = ChainPlaces(StepsDone) /\ ChainPlaces(captured)' = ChainPlaces(captured)
          /\ ChainPlaces(covered)' = ChainPlaces(covered)
      BY <2>1, <3>2, <3>3 DEF stepVars, ChainPlaces
    <3>5. StepAt' = StepAt /\ Pc' = Pc /\ Handled' = Handled /\ (Worked' <=> Worked)
      BY <2>1, <3>2, <3>3 DEF stepVars, StepAt, Pc, Handled, Worked
    <3>6. RunOk' = RunOk /\ RunMine' = RunMine /\ RunPc' = RunPc /\ RunAt' = RunAt
      BY <2>1, <3>1, <3>3, <3>5 DEF stepVars, RunOk, RunMine, RunPc, RunAt
    <3>7. RunQueue' = RunQueue /\ RunStatus' = RunStatus /\ RunRemediations' = RunRemediations
          /\ RunEscalations' = RunEscalations /\ RunRequest' = RunRequest
      BY <2>1, <3>1, <3>5 DEF stepVars, RunQueue, RunStatus, RunRemediations, RunEscalations, RunRequest
    <3>8. RunDone' = RunDone /\ RunProofs' = RunProofs /\ RunRoot' = RunRoot
      BY <3>1, <3>4 DEF RunDone, RunProofs, RunRoot
    <3> QED BY <3>6, <3>7, <3>8 DEF Run!vars
  <2>2. CASE StepNext /\ ~Chained
    BY <2>2, OtherRunsStay
  <2>3. CASE StepNext /\ Chained
    <3>1. BothSides BY <1>2, <2>3, SidesAre
    <3> QED BY <1>2, <2>3, <3>1, RunStarts, RunWaits, RunSteps, RunRemedies, RunCloses DEF StepNext
  <2> QED BY <1>2, <2>1, <2>2, <2>3
<1>3. StepSpec => [](StepInv /\ ChainInv) BY ChainInvHolds
<1> QED BY <1>1, <1>2, <1>3, PTL DEF StepSpec, ImplementsRun, Run!Spec

-----------------------------------------------------------------------------
(* TokenLedger *)

TokenRequest ==
    {NoRequest}
    \cup [op : {"divide"}, token : Tokens]
    \cup [op : {"list"}, token : Tokens, n : 1..Tonnes]
    \cup [op : {"buy"}, listing : Listings, n : 1..Tonnes, amount : 0..Tonnes, status : TokenStatus]
    \cup [op : {"retire"}, token : Tokens, status : TokenStatus, burn : {"pending", "done", "failed"}]

TokenTypes ==
    /\ token \in [Tokens -> CarbonCreditToken \cup {NoRow}]
    /\ listing \in [Listings -> TokenListing \cup {NoRow}]
    /\ retirements \in [Tokens -> [burnt : Nat, unburnt : Nat]]
    /\ anchored \in [Tokens -> Nat] /\ unseenBurns \in [Tokens -> Nat]
    /\ bought \in [Listings -> Nat] /\ offered \in [Listings -> Nat]
    /\ treq \in [Requests -> TokenRequest] /\ contended \subseteq Listings

\* Rows are never deleted: what a request or a listing refers to exists.
RowsExist ==
    /\ \A r \in Requests : /\ treq[r].op \in {"divide", "list", "retire"} => token[treq[r].token] # NoRow
                           /\ treq[r].op = "buy" => listing[treq[r].listing] # NoRow
    /\ \A l \in Listings : listing[l] # NoRow => token[listing[l].token] # NoRow
    /\ \A k \in Tokens : token[k] # NoRow /\ token[k].parent # "none" => token[token[k].parent] # NoRow

\* While no two purchases overlap on a listing, the one that is open has its amount.
PurchasesFit ==
    /\ \A l \in Listings :
          /\ listing[l] # NoRow /\ l \notin contended =>
                /\ bought[l] + listing[l].amount = offered[l]
                /\ listing[l].status = "sold" <=> listing[l].amount = 0
          /\ listing[l] = NoRow => bought[l] = 0
    /\ \A r \in Requests : treq[r].op = "buy" =>
          /\ treq[r].n <= treq[r].amount
          /\ treq[r].listing \notin contended =>
                /\ treq[r].amount = listing[treq[r].listing].amount
                /\ \A q \in Requests : treq[q].op = "buy" /\ treq[q].listing = treq[r].listing => q = r

Fractions(k) == {c \in Tokens : token[c] # NoRow /\ token[c].parent = k}
Burning(k) == {r \in Requests : treq[r].op = "retire" /\ treq[r].token = k /\ treq[r].burn = "done"}

LedgerInv == TokenTypes /\ RowsExist /\ PurchasesFit /\ FractionsAreWhole /\ BurnsAreRecorded

\* The kinds of rows and requests.
LEMMA RowKinds ==
    /\ NoRow \notin CarbonCreditToken /\ NoRow \notin TokenListing
    /\ \A x \in CarbonCreditToken : x.status \in TokenStatus /\ x.tonnes \in 1..Tonnes /\ x.parent \in Tokens \cup {"none"}
    /\ \A x \in TokenListing : x.token \in Tokens /\ x.amount \in 0..Tonnes /\ x.status \in {"active", "sold"}
    /\ NoRow.status = "none" /\ NoRequest.op = "none"
<1>1. \A x \in CarbonCreditToken : x.status # "none"
  BY DEF CarbonCreditToken, TokenStatus
<1>2. \A x \in TokenListing : x.status # "none"
  BY DEF TokenListing
<1>3. NoRow.status = "none" /\ NoRequest.op = "none"
  BY DEF NoRow, NoRequest
<1> QED BY <1>1, <1>2, <1>3 DEF CarbonCreditToken, TokenListing

LEMMA RequestKinds ==
    ASSUME NEW x \in TokenRequest
    PROVE  /\ x.op \in {"none", "divide", "list", "buy", "retire"}
           /\ x.op = "none" <=> x = NoRequest
           /\ x.op \in {"divide", "list", "retire"} => x.token \in Tokens
           /\ x.op = "list" => x.n \in 1..Tonnes
           /\ x.op = "buy" => /\ x.listing \in Listings /\ x.n \in 1..Tonnes /\ x.amount \in 0..Tonnes
                              /\ x.status \in TokenStatus
           /\ x.op = "retire" => x.status \in TokenStatus /\ x.burn \in {"pending", "done", "failed"}
BY DEF TokenRequest, NoRequest

\* A token's status is written: no row comes or goes, and none changes its tonnes or parent.
LEMMA StatusWritten ==
    ASSUME TokenTypes, NEW k \in Tokens, token[k] # NoRow, NEW st \in TokenStatus,
           token' = [token EXCEPT ![k].status = st]
    PROVE  /\ token' \in [Tokens -> CarbonCreditToken \cup {NoRow}]
           /\ \A c \in Tokens : /\ token'[c] = NoRow <=> token[c] = NoRow
                                /\ token[c] # NoRow => token'[c].tonnes = token[c].tonnes /\ token'[c].parent = token[c].parent
                                /\ c # k => token'[c] = token[c]
           /\ token'[k].status = st
<1>1. token \in [Tokens -> CarbonCreditToken \cup {NoRow}]
  BY DEF TokenTypes
<1>2. PICK old \in CarbonCreditToken : old = token[k]
  BY <1>1
<1> DEFINE new == [old EXCEPT !.status = st]
<1>3. new \in CarbonCreditToken /\ new.status = st /\ new.tonnes = old.tonnes /\ new.parent = old.parent
  BY DEF CarbonCreditToken
<1>4. token' = [token EXCEPT ![k] = new]
  BY <1>2
<1> HIDE DEF new
<1>5. token'[k] = new /\ \A c \in Tokens : c # k => token'[c] = token[c]
  BY <1>1, <1>4
<1>6. token' \in [Tokens -> CarbonCreditToken \cup {NoRow}]
  BY <1>1, <1>3, <1>4
<1> QED BY <1>2, <1>3, <1>5, <1>6, RowKinds

\* Where rows keep their parents and tonnes, divisions stay whole.
LEMMA FractionsStay ==
    ASSUME FractionsAreWhole, TokenTypes,
           \A c \in Tokens : /\ token'[c] = NoRow <=> token[c] = NoRow
                             /\ token[c] # NoRow => token'[c].tonnes = token[c].tonnes /\ token'[c].parent = token[c].parent
    PROVE  FractionsAreWhole'
<1>1. ASSUME NEW k \in Tokens PROVE Fractions(k)' = Fractions(k)
  BY DEF Fractions
<1>2. FractionsAreWhole <=> \A k \in Tokens : token[k] # NoRow => Cardinality(Fractions(k)) % token[k].tonnes = 0
  BY DEF FractionsAreWhole, Fractions
<1>3. FractionsAreWhole' <=> \A k \in Tokens : token'[k] # NoRow => Cardinality(Fractions(k)') % token'[k].tonnes = 0
  BY DEF FractionsAreWhole, Fractions
<1> QED BY <1>1, <1>2, <1>3

\* A request changes: which of a token's burns are under way.
LEMMA BurningIs ==
    ASSUME TokenTypes, NEW r \in Requests, NEW x, treq' = [treq EXCEPT ![r] = x], NEW k
    PROVE  /\ IsFiniteSet(Burning(k)) /\ Cardinality(Burning(k)) \in Nat
           /\ r \in Burning(k) <=> treq[r].op = "retire" /\ treq[r].token = k /\ treq[r].burn = "done"
           /\ r \in Burning(k)' <=> x.op = "retire" /\ x.token = k /\ x.burn = "done"
           /\ (r \in Burning(k) <=> r \in Burning(k)') => Cardinality(Burning(k)') = Cardinality(Burning(k))
           /\ r \in Burning(k) /\ r \notin Burning(k)' => Cardinality(Burning(k)') = Cardinality(Burning(k)) - 1
           /\ r \notin Burning(k) /\ r \in Burning(k)' => Cardinality(Burning(k)') = Cardinality(Burning(k)) + 1
<1>1. IsFiniteSet(Burning(k)) /\ Cardinality(Burning(k)) \in Nat
  BY LedgerAssumption, FS_Subset, FS_CardinalityType DEF Burning
<1>2. DOMAIN treq = Requests
  BY DEF TokenTypes
<1>3. \A q \in Requests : treq'[q] = IF q = r THEN x ELSE treq[q]
  BY <1>2
<1>4. \A q \in Requests : q # r => (q \in Burning(k)' <=> q \in Burning(k))
  BY <1>3 DEF Burning
<1>5. /\ r \in Burning(k) <=> treq[r].op = "retire" /\ treq[r].token = k /\ treq[r].burn = "done"
      /\ r \in Burning(k)' <=> x.op = "retire" /\ x.token = k /\ x.burn = "done"
  BY <1>3 DEF Burning
<1>6. Burning(k) \subseteq Requests /\ Burning(k)' \subseteq Requests
  BY DEF Burning
<1>7. (r \in Burning(k) <=> r \in Burning(k)') => Burning(k)' = Burning(k)
  BY <1>4, <1>6
<1>8. r \in Burning(k) /\ r \notin Burning(k)' => Burning(k)' = Burning(k) \ {r}
  BY <1>4, <1>6
<1>9. r \notin Burning(k) /\ r \in Burning(k)' => Burning(k)' = Burning(k) \cup {r}
  BY <1>4, <1>6
<1> QED BY <1>1, <1>5, <1>7, <1>8, <1>9, FS_AddElement, FS_RemoveElement

\* A division makes fresh rows, one for each tonne of the parent.
LEMMA DivisionMakes ==
    ASSUME TokenTypes, NEW k \in Tokens, token[k] # NoRow, Divided(k, token[k].tonnes)
    PROVE  \E fractions \in SUBSET Unused :
              /\ Cardinality(fractions) = token[k].tonnes /\ k \notin fractions
              /\ token' \in [Tokens -> CarbonCreditToken \cup {NoRow}]
              /\ \A c \in fractions : token'[c].tonnes = 1 /\ token'[c].parent = k /\ token'[c].status = "minted" /\ token'[c] # NoRow
              /\ \A c \in Tokens \ fractions :
                    /\ token'[c] = NoRow <=> token[c] = NoRow
                    /\ token[c] # NoRow => token'[c].tonnes = token[c].tonnes /\ token'[c].parent = token[c].parent
              /\ \A c \in Tokens : token'[c].status = "retired" => token[c].status = "retired"
<1>1. token \in [Tokens -> CarbonCreditToken \cup {NoRow}]
  BY DEF TokenTypes
<1>2. PICK old \in CarbonCreditToken : old = token[k]
  BY <1>1
<1>3. PICK n \in 1..Tonnes : n = token[k].tonnes
  BY <1>2, RowKinds
<1> DEFINE ks == CHOOSE ks \in kSubset(n, Unused) : TRUE
<1>4. IsFiniteSet(Unused) /\ Unused \subseteq Tokens
  BY LedgerAssumption, FS_Subset DEF Unused
<1>5. ks \in SUBSET Unused /\ Cardinality(ks) = n
  <2>1. n \in Nat /\ n <= Cardinality(Unused)
    BY <1>3, LedgerAssumption DEF Divided
  <2>2. \E T \in SUBSET Unused : Cardinality(T) = n
    BY <1>4, <2>1, SubsetOfSize
  <2>3. kSubset(n, Unused) # {}
    BY <2>2 DEF kSubset
  <2> QED BY <2>3 DEF kSubset
<1> DEFINE fresh == [status |-> "minted", tonnes |-> 1, parent |-> k]
           split == [old EXCEPT !.status = "fractional"]
<1>6. token' = [c \in Tokens |-> CASE c \in ks -> fresh [] c = k -> split [] OTHER -> token[c]]
  BY <1>2, <1>3 DEF Divided
<1> HIDE DEF ks
<1>7. k \notin ks
  BY <1>5 DEF Unused
<1>8. fresh \in CarbonCreditToken /\ fresh.tonnes = 1 /\ fresh.parent = k /\ fresh.status = "minted"
  BY LedgerAssumption DEF CarbonCreditToken, TokenStatus
<1>9. split \in CarbonCreditToken /\ split.tonnes = old.tonnes /\ split.parent = old.parent /\ split.status = "fractional"
  BY DEF CarbonCreditToken, TokenStatus
<1> HIDE DEF fresh, split
<1>10. \A c \in Tokens : token'[c] = IF c \in ks THEN fresh ELSE IF c = k THEN split ELSE token[c]
  BY <1>6, <1>7
<1>11. token' \in [Tokens -> CarbonCreditToken \cup {NoRow}]
  BY <1>1, <1>6, <1>8, <1>9
<1>12. \A c \in Tokens : token'[c].status = "retired" => token[c].status = "retired"
  BY <1>8, <1>9, <1>10
<1>13. \A c \in ks : token'[c].tonnes = 1 /\ token'[c].parent = k /\ token'[c].status = "minted" /\ token'[c] # NoRow
  BY <1>4, <1>5, <1>8, <1>10, RowKinds
<1>14. \A c \in Tokens \ ks :
          /\ token'[c] = NoRow <=> token[c] = NoRow
          /\ token[c] # NoRow => token'[c].tonnes = token[c].tonnes /\ token'[c].parent = token[c].parent
  BY <1>2, <1>9, <1>10, RowKinds
<1> QED BY <1>3, <1>5, <1>7, <1>11, <1>12, <1>13, <1>14

\* The operations that write a token's row.
LEMMA WritersOfTokens ==
    ASSUME LedgerInv, TokenNext
    PROVE  \/ token' = token
           \/ \E k \in Tokens : MintToken(k)
           \/ \E r \in Requests : FractionalizeToken(r)
           \/ \E k \in Tokens, st \in TokenStatus : token[k] # NoRow /\ token' = [token EXCEPT ![k].status = st]
<1>1. /\ TokenTypes /\ RowsExist
      /\ token \in [Tokens -> CarbonCreditToken \cup {NoRow}] /\ treq \in [Requests -> TokenRequest]
      /\ listing \in [Listings -> TokenListing \cup {NoRow}]
  BY DEF LedgerInv, TokenTypes
<1>2. ASSUME NEW r \in Requests, NEW l \in Listings, ListToken(r, l)
      PROVE  \E k \in Tokens : token[k] # NoRow /\ token' = [token EXCEPT ![k].status = "listed"]
  <2>1. treq[r].token \in Tokens /\ token[treq[r].token] # NoRow
    BY <1>1, <1>2, RequestKinds DEF ListToken, RowsExist
  <2> QED BY <1>2, <2>1 DEF ListToken
<1>3. ASSUME NEW r \in Requests, BuyToken(r)
      PROVE  token' = token \/ \E k \in Tokens : token[k] # NoRow /\ token' = [token EXCEPT ![k].status = "sold"]
  <2>1. treq[r].listing \in Listings /\ listing[treq[r].listing] # NoRow
    BY <1>1, <1>3, RequestKinds DEF BuyToken, RowsExist
  <2>2. PICK k \in Tokens : k = listing[treq[r].listing].token /\ token[k] # NoRow
    BY <1>1, <2>1, RowKinds DEF RowsExist
  <2>3. token' = token \/ token' = [token EXCEPT ![k].status = "sold"]
    BY <1>3, <2>2 DEF BuyToken
  <2> QED BY <2>2, <2>3
<1>4. ASSUME NEW r \in Requests, RetireToken(r)
      PROVE  token' = token \/ \E k \in Tokens : token[k] # NoRow /\ token' = [token EXCEPT ![k].status = "retired"]
  <2>1. PICK k \in Tokens : k = treq[r].token /\ token[k] # NoRow
    BY <1>1, <1>4, RequestKinds DEF RetireToken, RowsExist
  <2>2. token' = token \/ token' = [token EXCEPT ![k].status = "retired"]
    BY <1>4, <2>1 DEF RetireToken
  <2> QED BY <2>1, <2>2
<1>5. ASSUME NEW r \in Requests, NEW k \in Tokens,
             LoadParent(r, k) \/ LoadForRetirement(r, k) \/ \E n \in 1..Tonnes : LoadForListing(r, k, n)
      PROVE  token' = token
  BY <1>5 DEF LoadParent, LoadForRetirement, LoadForListing, Loads
<1>6. ASSUME NEW r \in Requests,
             \/ TokenRequestDies(r) \/ \E o \in {"done", "failed", "unanswered"} : AnchorBurn(r, o)
             \/ \E l \in Listings, n \in 1..Tonnes : LoadListing(r, l, n)
      PROVE  token' = token
  BY <1>6 DEF TokenRequestDies, AnchorBurn, LoadListing, LoadsListing
<1>7. {"listed", "sold", "retired"} \subseteq TokenStatus
  BY DEF TokenStatus
<1> QED BY <1>2, <1>3, <1>4, <1>5, <1>6, <1>7 DEF TokenNext

\* What the operations that write a token do to the rows.
LEMMA RowsStay ==
    ASSUME LedgerInv, TokenNext
    PROVE  /\ token' \in [Tokens -> CarbonCreditToken \cup {NoRow}]
           /\ \A c \in Tokens : token[c] # NoRow => token'[c] # NoRow /\ token'[c].tonnes = token[c].tonnes /\ token'[c].parent = token[c].parent
           /\ FractionsAreWhole'
<1>1. /\ TokenTypes /\ RowsExist /\ FractionsAreWhole
      /\ token \in [Tokens -> CarbonCreditToken \cup {NoRow}] /\ treq \in [Requests -> TokenRequest]
      /\ listing \in [Listings -> TokenListing \cup {NoRow}]
  BY DEF LedgerInv, TokenTypes
<1>2. CASE token' = token
  BY <1>1, <1>2, FractionsStay
<1>3. ASSUME NEW k \in Tokens, token[k] # NoRow, NEW st \in TokenStatus, token' = [token EXCEPT ![k].status = st]
      PROVE  /\ token' \in [Tokens -> CarbonCreditToken \cup {NoRow}]
             /\ \A c \in Tokens : token[c] # NoRow => token'[c] # NoRow /\ token'[c].tonnes = token[c].tonnes /\ token'[c].parent = token[c].parent
             /\ FractionsAreWhole'
  BY <1>1, <1>3, StatusWritten, FractionsStay
<1>4. ASSUME NEW k \in Tokens, MintToken(k)
      PROVE  /\ token' \in [Tokens -> CarbonCreditToken \cup {NoRow}]
             /\ \A c \in Tokens : token[c] # NoRow => token'[c] # NoRow /\ token'[c].tonnes = token[c].tonnes /\ token'[c].parent = token[c].parent
             /\ FractionsAreWhole'
  <2> DEFINE new == [status |-> "minted", tonnes |-> Tonnes, parent |-> "none"]
  <2>1. new \in CarbonCreditToken /\ new.tonnes = Tonnes /\ new.parent = "none"
    BY LedgerAssumption DEF CarbonCreditToken, TokenStatus
  <2>2. token[k] = NoRow /\ token' = [token EXCEPT ![k] = new]
    BY <1>4 DEF MintToken
  <2> HIDE DEF new
  <2>3. \A c \in Tokens : token'[c] = IF c = k THEN new ELSE token[c]
    BY <1>1, <2>2
  <2>4. new # NoRow BY <2>1, RowKinds
  <2>5. token' \in [Tokens -> CarbonCreditToken \cup {NoRow}]
    BY <1>1, <2>1, <2>2
  <2>6. \A c \in Tokens : Fractions(c)' = Fractions(c)
    BY <2>1, <2>2, <2>3, <2>4, LedgerAssumption DEF Fractions
  <2>7. Fractions(k) = {}
    BY <1>1, <2>2, LedgerAssumption DEF Fractions, RowsExist
  <2>8. FractionsAreWhole'
    <3>1. FractionsAreWhole <=> \A c \in Tokens : token[c] # NoRow => Cardinality(Fractions(c)) % token[c].tonnes = 0
      BY DEF FractionsAreWhole, Fractions
    <3>2. FractionsAreWhole' <=> \A c \in Tokens : token'[c] # NoRow => Cardinality(Fractions(c)') % token'[c].tonnes = 0
      BY DEF FractionsAreWhole, Fractions
    <3>3. Cardinality(Fractions(k)) % Tonnes = 0
      BY <2>7, FS_EmptySet, LedgerAssumption
    <3> QED BY <1>1, <2>1, <2>3, <2>6, <3>1, <3>2, <3>3
  <2> QED BY <2>2, <2>3, <2>5, <2>8
<1>5. ASSUME NEW r \in Requests, FractionalizeToken(r)
      PROVE  /\ token' \in [Tokens -> CarbonCreditToken \cup {NoRow}]
             /\ \A c \in Tokens : token[c] # NoRow => token'[c] # NoRow /\ token'[c].tonnes = token[c].tonnes /\ token'[c].parent = token[c].parent
             /\ FractionsAreWhole'
  <2>1. PICK k \in Tokens : k = treq[r].token /\ token[k] # NoRow
    BY <1>1, <1>5, RequestKinds DEF FractionalizeToken, RowsExist
  <2>2. PICK fractions \in SUBSET Unused :
              /\ Cardinality(fractions) = token[k].tonnes /\ k \notin fractions
              /\ token' \in [Tokens -> CarbonCreditToken \cup {NoRow}]
              /\ \A c \in fractions : token'[c].tonnes = 1 /\ token'[c].parent = k /\ token'[c].status = "minted" /\ token'[c] # NoRow
              /\ \A c \in Tokens \ fractions :
                    /\ token'[c] = NoRow <=> token[c] = NoRow
                    /\ token[c] # NoRow => token'[c].tonnes = token[c].tonnes /\ token'[c].parent = token[c].parent
    <3>1. Divided(k, token[k].tonnes) BY <1>5, <2>1 DEF FractionalizeToken
    <3> QED BY <1>1, <2>1, <3>1, DivisionMakes
  <2>3. \A c \in fractions : c \in Tokens /\ token[c] = NoRow
    BY DEF Unused
  <2>4. IsFiniteSet(fractions) /\ IsFiniteSet(Fractions(k))
    <3>1. fractions \subseteq Tokens /\ Fractions(k) \subseteq Tokens BY <2>3 DEF Fractions
    <3> QED BY <3>1, LedgerAssumption, FS_Subset
  <2>5. \A c \in Tokens : c # k => Fractions(c)' = Fractions(c)
    BY <2>2, <2>3 DEF Fractions
  <2>6. Fractions(k)' = Fractions(k) \cup fractions /\ Fractions(k) \cap fractions = {}
    <3>1. ASSUME NEW c \in Tokens
          PROVE  /\ token'[c] # NoRow /\ token'[c].parent = k <=> (token[c] # NoRow /\ token[c].parent = k) \/ c \in fractions
                 /\ c \in fractions => ~(token[c] # NoRow /\ token[c].parent = k)
      BY <2>2, <2>3
    <3>2. fractions \subseteq Tokens BY <2>3
    <3> QED BY <3>1, <3>2 DEF Fractions
  <2>7. Cardinality(Fractions(k)') = Cardinality(Fractions(k)) + token[k].tonnes
    <3> DEFINE old == Fractions(k)
               new == Fractions(k)'
               n == token[k].tonnes
    <3>1. IsFiniteSet(old) /\ IsFiniteSet(fractions) /\ new = old \cup fractions /\ old \cap fractions = {}
          /\ Cardinality(fractions) = n
      BY <2>2, <2>4, <2>6
    <3>2. n \in Nat BY <1>1, <2>1, RowKinds
    <3> HIDE DEF old, new, n
    <3>3. Cardinality(old) \in Nat /\ Cardinality({}) = 0
      BY <3>1, FS_CardinalityType, FS_EmptySet
    <3>4. Cardinality(old \cup fractions) = Cardinality(old) + Cardinality(fractions) - Cardinality(old \cap fractions)
      BY <3>1, FS_Union
    <3>5. Cardinality(old \cap fractions) = 0 BY <3>1, <3>3
    <3>6. Cardinality(new) = Cardinality(old \cup fractions) BY <3>1
    <3>7. Cardinality(new) = Cardinality(old) + n
      <4>1. PICK a \in Nat : a = Cardinality(old) BY <3>3
      <4>2. Cardinality(old \cup fractions) = a + n - 0 BY <3>1, <3>4, <3>5, <4>1
      <4> QED BY <3>2, <3>6, <4>1, <4>2
    <3> QED BY <3>7 DEF old, new, n
  <2>8. FractionsAreWhole'
    <3>1. FractionsAreWhole <=> \A c \in Tokens : token[c] # NoRow => Cardinality(Fractions(c)) % token[c].tonnes = 0
      BY DEF FractionsAreWhole, Fractions
    <3>2. FractionsAreWhole' <=> \A c \in Tokens : token'[c] # NoRow => Cardinality(Fractions(c)') % token'[c].tonnes = 0
      BY DEF FractionsAreWhole, Fractions
    <3>3. ASSUME NEW c \in Tokens, token'[c] # NoRow PROVE Cardinality(Fractions(c)') % token'[c].tonnes = 0
      <4>1. CASE c = k
        <5>1. PICK t \in Nat \ {0} : t = token[k].tonnes
          BY <1>1, <2>1, RowKinds
        <5>2. PICK m \in Nat : m = Cardinality(Fractions(k))
          BY <2>4, FS_CardinalityType
        <5>3. m % t = 0
          BY <1>1, <2>1, <3>1, <5>1, <5>2
        <5>4. (m + t) % t = 0
          BY <5>3, SumDivides
        <5>5. token'[k].tonnes = t
          BY <2>1, <2>2, <5>1
        <5> QED BY <2>7, <4>1, <5>1, <5>2, <5>4, <5>5
      <4>2. CASE c \in fractions
        <5>1. Cardinality(Fractions(c)') \in Nat
          <6>1. Fractions(c)' \subseteq Tokens BY DEF Fractions
          <6> QED BY <6>1, LedgerAssumption, FS_Subset, FS_CardinalityType
        <5> QED BY <2>2, <4>2, <5>1
      <4>3. CASE c # k /\ c \notin fractions
        BY <1>1, <2>2, <2>5, <3>1, <3>3, <4>3
      <4> QED BY <4>1, <4>2, <4>3
    <3> QED BY <3>2, <3>3
  <2> QED BY <2>2, <2>3, <2>8
<1> QED BY <1>2, <1>3, <1>4, <1>5, WritersOfTokens

\* The parent of every row exists after a step, too.
LEMMA ParentsExist ==
    ASSUME LedgerInv, TokenNext
    PROVE  \A c \in Tokens : token'[c] # NoRow /\ token'[c].parent # "none" => token'[token'[c].parent] # NoRow
<1>1. /\ TokenTypes /\ RowsExist
      /\ token \in [Tokens -> CarbonCreditToken \cup {NoRow}] /\ treq \in [Requests -> TokenRequest]
  BY DEF LedgerInv, TokenTypes
<1>2. \A c \in Tokens : token[c] # NoRow =>
         /\ token'[c] # NoRow /\ token'[c].parent = token[c].parent
         /\ token[c].parent \in Tokens \cup {"none"}
  BY <1>1, RowsStay, RowKinds
<1>3. CASE \A c \in Tokens : token'[c] # NoRow => token[c] # NoRow
  BY <1>1, <1>2, <1>3 DEF RowsExist
<1>4. CASE \E k \in Tokens : MintToken(k)
  <2>1. PICK k \in Tokens : token' = [token EXCEPT ![k] = [status |-> "minted", tonnes |-> Tonnes, parent |-> "none"]]
    BY <1>4 DEF MintToken
  <2>2. token'[k].parent = "none" /\ \A c \in Tokens : c # k => token'[c] = token[c]
    BY <1>1, <2>1
  <2> QED BY <1>1, <1>2, <2>2 DEF RowsExist
<1>5. CASE \E r \in Requests : FractionalizeToken(r)
  <2>1. PICK r \in Requests : FractionalizeToken(r) BY <1>5
  <2>2. PICK k \in Tokens : k = treq[r].token /\ token[k] # NoRow
    BY <1>1, <2>1, RequestKinds DEF FractionalizeToken, RowsExist
  <2>3. Divided(k, token[k].tonnes) BY <2>1, <2>2 DEF FractionalizeToken
  <2>4. \A c \in Tokens : token'[c] # NoRow => token[c] # NoRow \/ token'[c].parent = k
    BY <1>1, <2>2, <2>3, DivisionMakes
  <2> QED BY <1>1, <1>2, <2>2, <2>4 DEF RowsExist
<1>6. ASSUME NEW k \in Tokens, token[k] # NoRow, NEW st \in TokenStatus, token' = [token EXCEPT ![k].status = st]
      PROVE  \A c \in Tokens : token'[c] # NoRow => token[c] # NoRow
  BY <1>1, <1>6, StatusWritten
<1>7. \/ token' = token
      \/ \E k \in Tokens : MintToken(k)
      \/ \E r \in Requests : FractionalizeToken(r)
      \/ \E k \in Tokens, st \in TokenStatus : token[k] # NoRow /\ token' = [token EXCEPT ![k].status = st]
  BY WritersOfTokens
<1> QED BY <1>3, <1>4, <1>5, <1>6, <1>7

\* A request that is no purchase leaves the purchases alone.
LEMMA OtherRequests ==
    ASSUME LedgerInv, TokenNext, NEW r \in Requests, NEW x \in TokenRequest, x.op # "buy",
           treq' = [treq EXCEPT ![r] = x], x.op # "none" => token'[x.token] # NoRow,
           UNCHANGED <<listing, bought, offered, contended>>
    PROVE  treq' \in [Requests -> TokenRequest] /\ RowsExist' /\ PurchasesFit'
<1>1. /\ treq \in [Requests -> TokenRequest] /\ RowsExist /\ PurchasesFit
      /\ listing \in [Listings -> TokenListing \cup {NoRow}]
  BY DEF LedgerInv, TokenTypes
<1>2. treq' \in [Requests -> TokenRequest] BY <1>1
<1>3. \A q \in Requests : treq'[q] = IF q = r THEN x ELSE treq[q] BY <1>1
<1>4. \A c \in Tokens : token[c] # NoRow => token'[c] # NoRow BY RowsStay
<1>5. \A q \in Requests : treq'[q].op \in {"divide", "list", "retire"} => token'[treq'[q].token] # NoRow
  BY <1>1, <1>3, <1>4, RequestKinds DEF RowsExist
<1>6. \A l \in Listings : listing'[l] # NoRow => token'[listing'[l].token] # NoRow
  BY <1>1, <1>4, RowKinds DEF RowsExist
<1>7. RowsExist'
  <2>1. \A q \in Requests : treq'[q].op = "buy" => listing'[treq'[q].listing] # NoRow
    BY <1>1, <1>3 DEF RowsExist
  <2> QED BY <1>5, <1>6, <2>1, ParentsExist DEF RowsExist
<1>8. PurchasesFit'
  <2>1. \A q \in Requests : treq'[q].op = "buy" => q # r /\ treq'[q] = treq[q] BY <1>3
  <2> HIDE DEF TokenRequest
  <2>2. \A q \in Requests : treq[q].op = "buy" => treq[q].listing \in Listings BY <1>1, RequestKinds
  <2> QED BY <1>1, <2>1, <2>2 DEF PurchasesFit
<1> QED BY <1>2, <1>7, <1>8

\* The request of each step.
LEMMA NoRequestFits == NoRequest \in TokenRequest /\ NoRequest.op = "none"
BY DEF TokenRequest, NoRequest

LEMMA OtherStepsFit ==
    ASSUME LedgerInv, TokenNext, NEW r \in Requests,
           \/ FractionalizeToken(r) \/ RetireToken(r) \/ TokenRequestDies(r)
           \/ \E o \in {"done", "failed", "unanswered"} : AnchorBurn(r, o)
           \/ \E k \in Tokens : LoadParent(r, k) \/ LoadForRetirement(r, k) \/ \E n \in 1..Tonnes : LoadForListing(r, k, n)
    PROVE  /\ treq' \in [Requests -> TokenRequest] /\ RowsExist' /\ PurchasesFit'
           /\ UNCHANGED <<listing, bought, offered, contended>>
<1>1. /\ treq \in [Requests -> TokenRequest] /\ RowsExist
      /\ token \in [Tokens -> CarbonCreditToken \cup {NoRow}]
  BY DEF LedgerInv, TokenTypes
<1>2. CASE FractionalizeToken(r) \/ RetireToken(r) \/ TokenRequestDies(r)
  <2>1. treq' = [treq EXCEPT ![r] = NoRequest] /\ UNCHANGED <<listing, bought, offered, contended>>
    BY <1>2 DEF FractionalizeToken, RetireToken, TokenRequestDies, Done
  <2> QED BY <2>1, OtherRequests, NoRequestFits
<1>3. CASE \E o \in {"done", "failed", "unanswered"} : AnchorBurn(r, o)
  <2>1. PICK o \in {"done", "failed", "unanswered"} : AnchorBurn(r, o) BY <1>3
  <2>2. PICK b \in {"done", "failed"} : treq' = [treq EXCEPT ![r].burn = b]
    BY <2>1 DEF AnchorBurn
  <2>3. treq[r].op = "retire" /\ UNCHANGED <<token, listing, bought, offered, contended>>
    BY <2>1 DEF AnchorBurn
  <2>4. PICK old \in [op : {"retire"}, token : Tokens, status : TokenStatus, burn : {"pending", "done", "failed"}] : old = treq[r]
    <3>1. treq[r] \in TokenRequest BY <1>1
    <3> QED BY <2>3, <3>1 DEF TokenRequest, NoRequest
  <2> DEFINE x == [old EXCEPT !.burn = b]
  <2>5. x \in TokenRequest /\ x.op = "retire" /\ x.token = old.token
    BY DEF TokenRequest
  <2>6. treq' = [treq EXCEPT ![r] = x] BY <2>2, <2>4
  <2>7. token'[x.token] # NoRow BY <1>1, <2>3, <2>4, <2>5 DEF RowsExist
  <2> HIDE DEF x
  <2> QED BY <2>3, <2>5, <2>6, <2>7, OtherRequests
<1>4. ASSUME NEW k \in Tokens, LoadParent(r, k)
      PROVE  \E x \in TokenRequest : x.op \notin {"buy", "none"} /\ x.token = k /\ token[k] # NoRow /\ Loads(r, x)
  <2> DEFINE x == [op |-> "divide", token |-> k]
  <2>1. x \in TokenRequest /\ x.op = "divide" /\ x.token = k BY DEF TokenRequest
  <2>2. Loads(r, x) /\ token[k] # NoRow BY <1>4, RowKinds DEF LoadParent
  <2> QED BY <2>1, <2>2
<1>5. ASSUME NEW k \in Tokens, LoadForRetirement(r, k)
      PROVE  \E x \in TokenRequest : x.op \notin {"buy", "none"} /\ x.token = k /\ token[k] # NoRow /\ Loads(r, x)
  <2> DEFINE x == [op |-> "retire", token |-> k, status |-> token[k].status, burn |-> "pending"]
  <2>1. Loads(r, x) /\ token[k] # NoRow BY <1>5 DEF LoadForRetirement
  <2>2. token[k].status \in TokenStatus BY <1>1, <2>1, RowKinds
  <2>3. x \in TokenRequest /\ x.op = "retire" /\ x.token = k BY <2>2 DEF TokenRequest
  <2> QED BY <2>1, <2>3
<1>6. ASSUME NEW k \in Tokens, NEW n \in 1..Tonnes, LoadForListing(r, k, n)
      PROVE  \E x \in TokenRequest : x.op \notin {"buy", "none"} /\ x.token = k /\ token[k] # NoRow /\ Loads(r, x)
  <2> DEFINE x == [op |-> "list", token |-> k, n |-> n]
  <2>1. x \in TokenRequest /\ x.op = "list" /\ x.token = k BY DEF TokenRequest
  <2>2. Loads(r, x) /\ token[k] # NoRow BY <1>6, RowKinds DEF LoadForListing
  <2> QED BY <2>1, <2>2
<1>7. ASSUME NEW k \in Tokens, NEW x \in TokenRequest, x.op \notin {"buy", "none"}, x.token = k, token[k] # NoRow, Loads(r, x)
      PROVE  /\ treq' \in [Requests -> TokenRequest] /\ RowsExist' /\ PurchasesFit'
             /\ UNCHANGED <<listing, bought, offered, contended>>
  <2>1. treq' = [treq EXCEPT ![r] = x] /\ UNCHANGED <<token, listing, bought, offered, contended>>
    BY <1>7 DEF Loads
  <2> QED BY <1>7, <2>1, OtherRequests
<1> QED BY <1>2, <1>3, <1>4, <1>5, <1>6, <1>7

MarketTypes ==
    /\ treq \in [Requests -> TokenRequest] /\ listing \in [Listings -> TokenListing \cup {NoRow}]
    /\ bought \in [Listings -> Nat] /\ offered \in [Listings -> Nat] /\ contended \subseteq Listings

\* A listing is created with what it offers.
LEMMA ListingFits ==
    ASSUME LedgerInv, TokenNext, NEW r \in Requests, NEW l \in Listings, ListToken(r, l)
    PROVE  MarketTypes' /\ RowsExist' /\ PurchasesFit'
<1>1. MarketTypes /\ RowsExist /\ PurchasesFit
  BY DEF LedgerInv, TokenTypes, MarketTypes
<1>2. treq[r] \in TokenRequest BY <1>1 DEF MarketTypes
<1>3. PICK n \in 1..Tonnes : n = treq[r].n
  BY <1>2, RequestKinds DEF ListToken
<1>4. PICK k \in Tokens : k = treq[r].token /\ token[k] # NoRow
  BY <1>1, <1>2, RequestKinds DEF ListToken, RowsExist
<1> DEFINE new == [token |-> k, amount |-> n, status |-> "active"]
<1>5. new \in TokenListing /\ new.token = k /\ new.amount = n /\ new.status = "active"
  BY LedgerAssumption DEF TokenListing
<1>6. /\ listing' = [listing EXCEPT ![l] = new] /\ listing[l] = NoRow
      /\ offered' = [offered EXCEPT ![l] = n] /\ bought' = bought /\ contended' = contended
      /\ treq' = [treq EXCEPT ![r] = NoRequest]
  BY <1>3, <1>4 DEF ListToken, Done
<1> HIDE DEF new
<1>7. new # NoRow BY <1>5, RowKinds
<1>8. MarketTypes' BY <1>1, <1>5, <1>6, NoRequestFits, LedgerAssumption DEF MarketTypes
<1>9. /\ \A q \in Requests : treq'[q] = IF q = r THEN NoRequest ELSE treq[q]
      /\ \A m \in Listings : listing'[m] = IF m = l THEN new ELSE listing[m]
      /\ \A m \in Listings : offered'[m] = IF m = l THEN n ELSE offered[m]
  BY <1>1, <1>6 DEF MarketTypes
<1>10. \A c \in Tokens : token[c] # NoRow => token'[c] # NoRow BY RowsStay
<1>11. RowsExist'
  <2>1. \A q \in Requests : treq'[q].op \in {"divide", "list", "retire"} => token'[treq'[q].token] # NoRow
    BY <1>1, <1>9, <1>10, RequestKinds, NoRequestFits DEF RowsExist, MarketTypes
  <2>2. \A q \in Requests : treq'[q].op = "buy" => listing'[treq'[q].listing] # NoRow
    BY <1>1, <1>7, <1>9, RequestKinds, NoRequestFits DEF RowsExist, MarketTypes
  <2>3. \A m \in Listings : listing'[m] # NoRow => token'[listing'[m].token] # NoRow
    BY <1>1, <1>4, <1>5, <1>9, <1>10, RowKinds DEF RowsExist, MarketTypes
  <2> QED BY <2>1, <2>2, <2>3, ParentsExist DEF RowsExist
<1>12. PurchasesFit'
  <2>1. \A q \in Requests : treq'[q].op = "buy" => q # r /\ treq'[q] = treq[q] /\ treq[q].listing \in Listings /\ treq[q].listing # l
    BY <1>1, <1>6, <1>9, RequestKinds, NoRequestFits DEF MarketTypes, RowsExist
  <2>2. ASSUME NEW m \in Listings
        PROVE  /\ listing'[m] # NoRow /\ m \notin contended' =>
                   /\ bought'[m] + listing'[m].amount = offered'[m]
                   /\ listing'[m].status = "sold" <=> listing'[m].amount = 0
               /\ listing'[m] = NoRow => bought'[m] = 0
    <3>1. CASE m = l
      BY <1>1, <1>5, <1>6, <1>7, <1>9, <3>1, LedgerAssumption DEF PurchasesFit
    <3>2. CASE m # l
      BY <1>1, <1>6, <1>9, <3>2 DEF PurchasesFit
    <3> QED BY <3>1, <3>2
  <2>3. ASSUME NEW q \in Requests, treq'[q].op = "buy"
        PROVE  /\ treq'[q].n <= treq'[q].amount
               /\ treq'[q].listing \notin contended' =>
                     /\ treq'[q].amount = listing'[treq'[q].listing].amount
                     /\ \A p \in Requests : treq'[p].op = "buy" /\ treq'[p].listing = treq'[q].listing => p = q
    BY <1>1, <1>6, <1>9, <2>1, <2>3 DEF PurchasesFit
  <2> QED BY <2>2, <2>3 DEF PurchasesFit
<1> QED BY <1>8, <1>11, <1>12

\* A purchase that is not alone marks its listing.
LEMMA LoadingFits ==
    ASSUME LedgerInv, TokenNext, NEW r \in Requests, NEW l \in Listings, NEW n \in 1..Tonnes, LoadListing(r, l, n)
    PROVE  MarketTypes' /\ RowsExist' /\ PurchasesFit'
<1>1. MarketTypes /\ RowsExist /\ PurchasesFit /\ token \in [Tokens -> CarbonCreditToken \cup {NoRow}]
  BY DEF LedgerInv, TokenTypes, MarketTypes
<1>2. listing[l] # NoRow /\ treq[r] = NoRequest
  BY RowKinds DEF LoadListing, LoadsListing
<1>3. listing[l] \in TokenListing BY <1>1, <1>2 DEF MarketTypes
<1>4. PICK a \in 0..Tonnes : a = listing[l].amount BY <1>3, RowKinds
<1>5. PICK st \in TokenStatus : st = token[listing[l].token].status
  BY <1>1, <1>2, <1>3, RowKinds DEF RowsExist
<1> DEFINE x == [op |-> "buy", listing |-> l, n |-> n, amount |-> a, status |-> st]
<1>6. x \in TokenRequest /\ x.op = "buy" /\ x.listing = l /\ x.n = n /\ x.amount = a
  BY DEF TokenRequest
<1>7. /\ treq' = [treq EXCEPT ![r] = x] /\ UNCHANGED <<token, listing, bought, offered>>
      /\ contended' = IF \E q \in Requests : treq[q].op = "buy" /\ treq[q].listing = l
                      THEN contended \cup {l} ELSE contended
      /\ n <= a
  BY <1>4, <1>5 DEF LoadListing, LoadsListing
<1> HIDE DEF x
<1>8. MarketTypes' BY <1>1, <1>6, <1>7 DEF MarketTypes
<1>9. \A q \in Requests : treq'[q] = IF q = r THEN x ELSE treq[q]
  BY <1>1, <1>7 DEF MarketTypes
<1>10. RowsExist'
  <2>1. \A q \in Requests : treq'[q].op \in {"divide", "list", "retire"} => token'[treq'[q].token] # NoRow
    BY <1>1, <1>6, <1>7, <1>9 DEF RowsExist
  <2>2. \A q \in Requests : treq'[q].op = "buy" => listing'[treq'[q].listing] # NoRow
    BY <1>1, <1>2, <1>6, <1>7, <1>9 DEF RowsExist
  <2> QED BY <1>1, <1>7, <2>1, <2>2 DEF RowsExist
<1>11. contended \subseteq contended' /\ \A m \in Listings : m # l /\ m \in contended' => m \in contended
  BY <1>7
<1>12. PurchasesFit'
  <2>1. \A m \in Listings :
          /\ listing'[m] # NoRow /\ m \notin contended' =>
                /\ bought'[m] + listing'[m].amount = offered'[m]
                /\ listing'[m].status = "sold" <=> listing'[m].amount = 0
          /\ listing'[m] = NoRow => bought'[m] = 0
    BY <1>1, <1>7, <1>11 DEF PurchasesFit
  <2>2. ASSUME NEW q \in Requests, treq'[q].op = "buy"
        PROVE  /\ treq'[q].n <= treq'[q].amount
               /\ treq'[q].listing \notin contended' =>
                     /\ treq'[q].amount = listing'[treq'[q].listing].amount
                     /\ \A p \in Requests : treq'[p].op = "buy" /\ treq'[p].listing = treq'[q].listing => p = q
    <3>1. CASE q = r
      <4>1. treq'[q] = x BY <1>9, <3>1
      <4>2. l \notin contended' => \A p \in Requests : ~(treq[p].op = "buy" /\ treq[p].listing = l)
        BY <1>7
      <4> QED BY <1>4, <1>6, <1>7, <1>9, <3>1, <4>1, <4>2
    <3>2. CASE q # r
      <4>1. treq'[q] = treq[q] /\ treq[q].op = "buy" BY <1>9, <2>2, <3>2
      <4>2. treq[q].listing = l => l \in contended' BY <1>7, <4>1
      <4>3. treq[q].listing \notin contended' => treq[q].listing \notin contended BY <1>11
      <4> QED BY <1>1, <1>6, <1>7, <1>9, <4>1, <4>2, <4>3 DEF PurchasesFit
    <3> QED BY <3>1, <3>2
  <2> QED BY <2>1, <2>2 DEF PurchasesFit
<1> QED BY <1>8, <1>10, <1>12

\* A purchase that was alone sells from what it loaded.
LEMMA BuyingFits ==
    ASSUME LedgerInv, TokenNext, NEW r \in Requests, BuyToken(r)
    PROVE  MarketTypes' /\ RowsExist' /\ PurchasesFit'
<1>1. MarketTypes /\ RowsExist /\ PurchasesFit
  BY DEF LedgerInv, TokenTypes, MarketTypes
<1>2. treq[r] \in TokenRequest /\ treq[r].op = "buy" BY <1>1 DEF MarketTypes, BuyToken
<1>3. PICK l \in Listings : l = treq[r].listing /\ listing[l] # NoRow
  BY <1>1, <1>2, RequestKinds DEF RowsExist
<1>4. PICK n \in 1..Tonnes, a \in 0..Tonnes : n = treq[r].n /\ a = treq[r].amount /\ n <= a
  BY <1>1, <1>2, RequestKinds DEF PurchasesFit
<1>5. PICK old \in TokenListing : old = listing[l] BY <1>1, <1>3 DEF MarketTypes
<1> DEFINE left == a - n
           new == [old EXCEPT !.amount = left, !.status = IF left = 0 THEN "sold" ELSE @]
<1>6. left \in 0..Tonnes BY <1>4, LedgerAssumption
<1>7. /\ listing' = [listing EXCEPT ![l] = new] /\ bought' = [bought EXCEPT ![l] = @ + n]
      /\ treq' = [treq EXCEPT ![r] = NoRequest] /\ offered' = offered /\ contended' = contended
  <2>1. /\ listing' = [listing EXCEPT ![l].amount = left, ![l].status = IF left = 0 THEN "sold" ELSE @]
        /\ bought' = [bought EXCEPT ![l] = @ + n]
        /\ treq' = [treq EXCEPT ![r] = NoRequest] /\ offered' = offered /\ contended' = contended
    BY <1>3, <1>4 DEF BuyToken, Done
  <2> QED BY <1>1, <1>5, <2>1 DEF MarketTypes
<1> HIDE DEF left
<1>8. /\ new \in TokenListing /\ new.token = old.token /\ new.amount = left
      /\ new.status = IF left = 0 THEN "sold" ELSE old.status
  BY <1>6 DEF TokenListing
<1> HIDE DEF new
<1>9. new # NoRow BY <1>8, RowKinds
<1>10. MarketTypes'
  <2>1. bought' \in [Listings -> Nat] BY <1>1, <1>4, <1>7 DEF MarketTypes
  <2> QED BY <1>1, <1>7, <1>8, <2>1, NoRequestFits DEF MarketTypes
<1>11. /\ \A q \in Requests : treq'[q] = IF q = r THEN NoRequest ELSE treq[q]
       /\ \A m \in Listings : listing'[m] = IF m = l THEN new ELSE listing[m]
       /\ \A m \in Listings : bought'[m] = IF m = l THEN bought[l] + n ELSE bought[m]
  BY <1>1, <1>7 DEF MarketTypes
<1>12. \A c \in Tokens : token[c] # NoRow => token'[c] # NoRow BY RowsStay
<1>13. RowsExist'
  <2>1. \A q \in Requests : treq'[q].op \in {"divide", "list", "retire"} => token'[treq'[q].token] # NoRow
    BY <1>1, <1>11, <1>12, RequestKinds, NoRequestFits DEF RowsExist, MarketTypes
  <2>2. \A q \in Requests : treq'[q].op = "buy" => listing'[treq'[q].listing] # NoRow
    BY <1>1, <1>9, <1>11, RequestKinds, NoRequestFits DEF RowsExist, MarketTypes
  <2>3. \A m \in Listings : listing'[m] # NoRow => token'[listing'[m].token] # NoRow
    BY <1>1, <1>3, <1>5, <1>8, <1>11, <1>12, RowKinds DEF RowsExist, MarketTypes
  <2> QED BY <2>1, <2>2, <2>3, ParentsExist DEF RowsExist
<1>14. PurchasesFit'
  <2>1. \A q \in Requests : treq'[q].op = "buy" =>
           /\ q # r /\ treq'[q] = treq[q] /\ treq[q].listing \in Listings
           /\ treq[q].listing = l => l \in contended
    BY <1>1, <1>2, <1>3, <1>11, RequestKinds, NoRequestFits DEF MarketTypes, PurchasesFit
  <2>2. ASSUME NEW m \in Listings
        PROVE  /\ listing'[m] # NoRow /\ m \notin contended' =>
                   /\ bought'[m] + listing'[m].amount = offered'[m]
                   /\ listing'[m].status = "sold" <=> listing'[m].amount = 0
               /\ listing'[m] = NoRow => bought'[m] = 0
    <3>1. CASE m = l
      <4>1. bought[l] \in Nat /\ offered[l] \in Nat BY <1>1 DEF MarketTypes
      <4>2. ASSUME l \notin contended
            PROVE  a = old.amount /\ bought[l] + a = offered[l] /\ (old.status = "sold" <=> a = 0)
        BY <1>1, <1>2, <1>3, <1>4, <1>5, <4>2 DEF PurchasesFit
      <4>3. left = a - n /\ (left = 0 \/ a # 0) BY <1>4 DEF left
      <4>4. l \notin contended => bought[l] + n + left = offered[l] BY <1>4, <4>1, <4>2, <4>3
      <4>5. l \notin contended => (new.status = "sold" <=> left = 0) BY <1>8, <4>2, <4>3
      <4> QED BY <1>7, <1>8, <1>9, <1>11, <3>1, <4>4, <4>5
    <3>2. CASE m # l
      BY <1>1, <1>7, <1>11, <3>2 DEF PurchasesFit
    <3> QED BY <3>1, <3>2
  <2>3. ASSUME NEW q \in Requests, treq'[q].op = "buy"
        PROVE  /\ treq'[q].n <= treq'[q].amount
               /\ treq'[q].listing \notin contended' =>
                     /\ treq'[q].amount = listing'[treq'[q].listing].amount
                     /\ \A p \in Requests : treq'[p].op = "buy" /\ treq'[p].listing = treq'[q].listing => p = q
    BY <1>1, <1>7, <1>11, <2>1, <2>3 DEF PurchasesFit
  <2> QED BY <2>2, <2>3 DEF PurchasesFit
<1> QED BY <1>10, <1>13, <1>14

LedgerCounts ==
    /\ retirements \in [Tokens -> [burnt : Nat, unburnt : Nat]]
    /\ anchored \in [Tokens -> Nat] /\ unseenBurns \in [Tokens -> Nat]

\* The burns under way, as far as one request is concerned.
BurnOf(r, k) == IF r \in Burning(k) THEN 1 ELSE 0

\* What a step must do for the burns to stay recorded.
LEMMA BurnsStay ==
    ASSUME LedgerInv, LedgerCounts', NEW r \in Requests, NEW x, treq' = [treq EXCEPT ![r] = x],
           \A k \in Tokens :
              /\ token'[k].status = "retired" => retirements'[k].burnt + retirements'[k].unburnt > 0
              /\ anchored'[k] - retirements'[k].burnt - unseenBurns'[k] - BurnOf(r, k)'
                   = anchored[k] - retirements[k].burnt - unseenBurns[k] - BurnOf(r, k)
    PROVE  BurnsAreRecorded'
<1>1. TokenTypes /\ LedgerCounts /\ BurnsAreRecorded BY DEF LedgerInv, TokenTypes, LedgerCounts
<1>2. BurnsAreRecorded <=> \A k \in Tokens :
         /\ token[k].status = "retired" => retirements[k].burnt + retirements[k].unburnt > 0
         /\ anchored[k] = retirements[k].burnt + unseenBurns[k] + Cardinality(Burning(k))
  BY DEF BurnsAreRecorded, Burning
<1>3. BurnsAreRecorded' <=> \A k \in Tokens :
         /\ token'[k].status = "retired" => retirements'[k].burnt + retirements'[k].unburnt > 0
         /\ anchored'[k] = retirements'[k].burnt + unseenBurns'[k] + Cardinality(Burning(k)')
  BY DEF BurnsAreRecorded, Burning
<1>4. ASSUME NEW k \in Tokens
      PROVE  anchored'[k] = retirements'[k].burnt + unseenBurns'[k] + Cardinality(Burning(k)')
  <2>1. PICK c \in Nat : c = Cardinality(Burning(k)) BY <1>1, BurningIs
  <2>2. Cardinality(Burning(k)') = c + BurnOf(r, k)' - BurnOf(r, k)
    <3> DEFINE was == r \in Burning(k)
               is == r \in Burning(k)'
    <3>1. /\ (was <=> is) => Cardinality(Burning(k)') = c
          /\ was /\ ~is => Cardinality(Burning(k)') = c - 1
          /\ ~was /\ is => Cardinality(Burning(k)') = c + 1
      BY <1>1, <2>1, BurningIs
    <3>2. BurnOf(r, k) = (IF was THEN 1 ELSE 0) /\ BurnOf(r, k)' = (IF is THEN 1 ELSE 0)
      BY DEF BurnOf
    <3> HIDE DEF was, is
    <3> QED BY <3>1, <3>2
  <2>3. /\ anchored[k] \in Nat /\ unseenBurns[k] \in Nat /\ retirements[k].burnt \in Nat
        /\ anchored'[k] \in Nat /\ unseenBurns'[k] \in Nat /\ retirements'[k].burnt \in Nat
    BY <1>1 DEF LedgerCounts
  <2>4. BurnOf(r, k) \in Nat /\ BurnOf(r, k)' \in Nat BY DEF BurnOf
  <2>5. anchored[k] = retirements[k].burnt + unseenBurns[k] + c BY <1>1, <1>2, <2>1
  <2>6. anchored'[k] - retirements'[k].burnt - unseenBurns'[k] - BurnOf(r, k)'
                   = anchored[k] - retirements[k].burnt - unseenBurns[k] - BurnOf(r, k)
    OBVIOUS
  <2>7. anchored'[k] - retirements'[k].burnt - unseenBurns'[k] - BurnOf(r, k)' = c - BurnOf(r, k)
    <3> HIDE DEF BurnOf
    <3> QED BY <2>3, <2>4, <2>5, <2>6
  <2> HIDE DEF BurnOf
  <2> QED BY <2>1, <2>2, <2>3, <2>4, <2>7
<1> QED BY <1>3, <1>4

\* A token is retired by nothing but a retirement.
LEMMA RetiredBy ==
    ASSUME LedgerInv, TokenNext
    PROVE  \A k \in Tokens : token'[k].status = "retired" =>
              token[k].status = "retired" \/ \E r \in Requests : RetireToken(r) /\ treq[r].token = k
<1>1. /\ TokenTypes /\ RowsExist
      /\ token \in [Tokens -> CarbonCreditToken \cup {NoRow}] /\ treq \in [Requests -> TokenRequest]
      /\ listing \in [Listings -> TokenListing \cup {NoRow}]
  BY DEF LedgerInv, TokenTypes
<1>2. CASE \E k \in Tokens : MintToken(k)
  BY <1>1, <1>2 DEF MintToken
<1>3. ASSUME NEW r \in Requests, FractionalizeToken(r)
      PROVE  \A k \in Tokens : token'[k].status = "retired" => token[k].status = "retired"
  <2>1. PICK k \in Tokens : k = treq[r].token /\ token[k] # NoRow
    BY <1>1, <1>3, RequestKinds DEF FractionalizeToken, RowsExist
  <2>2. Divided(k, token[k].tonnes) BY <1>3, <2>1 DEF FractionalizeToken
  <2> QED BY <1>1, <2>1, <2>2, DivisionMakes
<1>4. ASSUME NEW k \in Tokens, token[k] # NoRow, NEW st \in TokenStatus, st # "retired", token' = [token EXCEPT ![k].status = st]
      PROVE  \A c \in Tokens : token'[c].status = "retired" => token[c].status = "retired"
  BY <1>1, <1>4, StatusWritten
<1>5. ASSUME NEW r \in Requests, NEW l \in Listings, ListToken(r, l)
      PROVE  \E k \in Tokens : token[k] # NoRow /\ token' = [token EXCEPT ![k].status = "listed"]
  <2>1. treq[r].token \in Tokens /\ token[treq[r].token] # NoRow
    BY <1>1, <1>5, RequestKinds DEF ListToken, RowsExist
  <2> QED BY <1>5, <2>1 DEF ListToken
<1>6. ASSUME NEW r \in Requests, BuyToken(r)
      PROVE  token' = token \/ \E k \in Tokens : token[k] # NoRow /\ token' = [token EXCEPT ![k].status = "sold"]
  <2>1. treq[r].listing \in Listings /\ listing[treq[r].listing] # NoRow
    BY <1>1, <1>6, RequestKinds DEF BuyToken, RowsExist
  <2>2. PICK k \in Tokens : k = listing[treq[r].listing].token /\ token[k] # NoRow
    BY <1>1, <2>1, RowKinds DEF RowsExist
  <2>3. token' = token \/ token' = [token EXCEPT ![k].status = "sold"]
    BY <1>6, <2>2 DEF BuyToken
  <2> QED BY <2>2, <2>3
<1>7. ASSUME NEW r \in Requests, RetireToken(r)
      PROVE  \A k \in Tokens : token'[k].status = "retired" => token[k].status = "retired" \/ treq[r].token = k
  <2>1. PICK k \in Tokens : k = treq[r].token /\ token[k] # NoRow
    BY <1>1, <1>7, RequestKinds DEF RetireToken, RowsExist
  <2>2. token' = token \/ token' = [token EXCEPT ![k].status = "retired"]
    BY <1>7, <2>1 DEF RetireToken
  <2>3. "retired" \in TokenStatus BY DEF TokenStatus
  <2> QED BY <1>1, <2>1, <2>2, <2>3, StatusWritten
<1>8. ASSUME NEW r \in Requests,
             \/ TokenRequestDies(r) \/ \E o \in {"done", "failed", "unanswered"} : AnchorBurn(r, o)
             \/ \E l \in Listings, n \in 1..Tonnes : LoadListing(r, l, n)
             \/ \E k \in Tokens : LoadParent(r, k) \/ LoadForRetirement(r, k) \/ \E n \in 1..Tonnes : LoadForListing(r, k, n)
      PROVE  token' = token
  BY <1>8 DEF TokenRequestDies, AnchorBurn, LoadListing, LoadsListing, LoadParent, LoadForRetirement, LoadForListing, Loads
<1>9. "listed" \in TokenStatus /\ "sold" \in TokenStatus BY DEF TokenStatus
<1> QED BY <1>2, <1>3, <1>4, <1>5, <1>6, <1>7, <1>8, <1>9 DEF TokenNext

LEMMA BurnsKept ==
    ASSUME LedgerInv, TokenNext
    PROVE  LedgerCounts' /\ BurnsAreRecorded'
<1>1. /\ TokenTypes /\ LedgerCounts /\ BurnsAreRecorded /\ RowsExist /\ treq \in [Requests -> TokenRequest]
      /\ \A k \in Tokens : token[k].status = "retired" => retirements[k].burnt + retirements[k].unburnt > 0
  BY DEF LedgerInv, TokenTypes, LedgerCounts, BurnsAreRecorded
<1>2. ASSUME NEW r \in Requests, NEW x, treq' = [treq EXCEPT ![r] = x], UNCHANGED <<retirements, anchored, unseenBurns>>,
             \A k \in Tokens : BurnOf(r, k)' = BurnOf(r, k), \A q \in Requests : ~RetireToken(q)
      PROVE  LedgerCounts' /\ BurnsAreRecorded'
  <2>1. LedgerCounts' BY <1>1, <1>2 DEF LedgerCounts
  <2>2. \A k \in Tokens : token'[k].status = "retired" => retirements'[k].burnt + retirements'[k].unburnt > 0
    BY <1>1, <1>2, RetiredBy
  <2> HIDE DEF BurnOf
  <2>3. \A k \in Tokens : anchored'[k] - retirements'[k].burnt - unseenBurns'[k] - BurnOf(r, k)'
                   = anchored[k] - retirements[k].burnt - unseenBurns[k] - BurnOf(r, k)
    BY <1>2
  <2> QED BY <1>2, <2>1, <2>2, <2>3, BurnsStay
<1>3. ASSUME NEW r \in Requests, RetireToken(r) PROVE LedgerCounts' /\ BurnsAreRecorded'
  <2>1. /\ treq[r].op = "retire" /\ treq[r].burn \in {"done", "failed"} /\ treq[r].token \in Tokens
        /\ treq' = [treq EXCEPT ![r] = NoRequest] /\ UNCHANGED <<anchored, unseenBurns>>
    BY <1>1, <1>3, RequestKinds DEF RetireToken, Done
  <2>2. PICK k \in Tokens : k = treq[r].token BY <2>1
  <2>3. PICK old \in [burnt : Nat, unburnt : Nat] : old = retirements[k] BY <1>1 DEF LedgerCounts
  <2> DEFINE new == IF treq[r].burn = "done" THEN [old EXCEPT !.burnt = @ + 1] ELSE [old EXCEPT !.unburnt = @ + 1]
  <2>4. /\ new \in [burnt : Nat, unburnt : Nat] /\ new.burnt + new.unburnt > 0
        /\ new.burnt = old.burnt + IF treq[r].burn = "done" THEN 1 ELSE 0
    OBVIOUS
  <2>5. retirements' = [retirements EXCEPT ![k] = new]
    BY <1>3, <2>2, <2>3 DEF RetireToken
  <2> HIDE DEF new
  <2>6. \A c \in Tokens : retirements'[c] = IF c = k THEN new ELSE retirements[c]
    BY <1>1, <2>5 DEF LedgerCounts
  <2>7. LedgerCounts' BY <1>1, <2>1, <2>4, <2>5 DEF LedgerCounts
  <2>8. \A c \in Tokens : token'[c].status = "retired" => token[c].status = "retired" \/ c = k
    <3>1. \A q \in Requests : RetireToken(q) => q = r
      BY <1>1, <2>1, NoRequestFits DEF RetireToken, Done
    <3> QED BY <2>2, <3>1, RetiredBy
  <2>9. \A c \in Tokens : /\ BurnOf(r, c)' = 0
                          /\ BurnOf(r, c) = IF c = k /\ treq[r].burn = "done" THEN 1 ELSE 0
    BY <1>1, <2>1, <2>2, BurningIs, NoRequestFits DEF BurnOf
  <2>10. \A c \in Tokens : anchored'[c] - retirements'[c].burnt - unseenBurns'[c] - BurnOf(r, c)'
                   = anchored[c] - retirements[c].burnt - unseenBurns[c] - BurnOf(r, c)
    <3>1. TAKE c \in Tokens
    <3>2. anchored[c] \in Nat /\ unseenBurns[c] \in Nat /\ retirements[c].burnt \in Nat BY <1>1 DEF LedgerCounts
    <3> HIDE DEF BurnOf
    <3>3. CASE c = k
      <4>1. new.burnt \in Nat /\ retirements'[c].burnt = new.burnt /\ retirements[c].burnt = old.burnt
        BY <2>3, <2>4, <2>6, <3>3
      <4>2. BurnOf(r, c)' = 0 /\ new.burnt = old.burnt + BurnOf(r, c) BY <2>4, <2>9, <3>3
      <4>3. anchored'[c] = anchored[c] /\ unseenBurns'[c] = unseenBurns[c] BY <2>1
      <4>4. BurnOf(r, c) \in Nat BY <2>9
      <4> QED BY <3>2, <4>1, <4>2, <4>3, <4>4
    <3>4. CASE c # k BY <2>1, <2>6, <2>9, <3>2, <3>4
    <3> QED BY <3>3, <3>4
  <2>11. \A c \in Tokens : token'[c].status = "retired" => retirements'[c].burnt + retirements'[c].unburnt > 0
    BY <1>1, <2>4, <2>6, <2>8
  <2> QED BY <2>1, <2>7, <2>10, <2>11, BurnsStay
<1>4. ASSUME NEW r \in Requests, TokenRequestDies(r) PROVE LedgerCounts' /\ BurnsAreRecorded'
  <2>1. treq' = [treq EXCEPT ![r] = NoRequest] /\ UNCHANGED <<token, anchored, retirements>>
    BY <1>4 DEF TokenRequestDies, Done
  <2> DEFINE lost == treq[r].op = "retire" /\ treq[r].burn = "done"
  <2>2. lost => treq[r].token \in Tokens BY <1>1, RequestKinds
  <2>3. unseenBurns' = IF lost THEN [unseenBurns EXCEPT ![treq[r].token] = @ + 1] ELSE unseenBurns
    BY <1>4 DEF TokenRequestDies
  <2>4. \A c \in Tokens : unseenBurns'[c] = unseenBurns[c] + IF lost /\ c = treq[r].token THEN 1 ELSE 0
    BY <1>1, <2>2, <2>3 DEF LedgerCounts
  <2>5. LedgerCounts' BY <1>1, <2>1, <2>2, <2>3 DEF LedgerCounts
  <2>6. \A c \in Tokens : BurnOf(r, c)' = 0 /\ BurnOf(r, c) = IF lost /\ c = treq[r].token THEN 1 ELSE 0
    BY <1>1, <2>1, BurningIs, NoRequestFits DEF BurnOf
  <2> HIDE DEF lost
  <2>7. \A c \in Tokens : anchored'[c] - retirements'[c].burnt - unseenBurns'[c] - BurnOf(r, c)'
                   = anchored[c] - retirements[c].burnt - unseenBurns[c] - BurnOf(r, c)
    <3>1. TAKE c \in Tokens
    <3>2. anchored[c] \in Nat /\ unseenBurns[c] \in Nat /\ retirements[c].burnt \in Nat BY <1>1 DEF LedgerCounts
    <3> HIDE DEF BurnOf
    <3> QED BY <2>1, <2>4, <2>6, <3>2
  <2> QED BY <1>1, <2>1, <2>5, <2>7, BurnsStay
<1>5. ASSUME NEW r \in Requests, NEW o \in {"done", "failed", "unanswered"}, AnchorBurn(r, o)
      PROVE  LedgerCounts' /\ BurnsAreRecorded'
  <2>1. PICK old \in [op : {"retire"}, token : Tokens, status : TokenStatus, burn : {"pending", "done", "failed"}] :
            old = treq[r] /\ old.burn = "pending"
    <3>1. treq[r] \in TokenRequest /\ treq[r].op = "retire" /\ treq[r].burn = "pending"
      BY <1>1, <1>5 DEF AnchorBurn
    <3> QED BY <3>1 DEF TokenRequest, NoRequest
  <2>2. PICK k \in Tokens : k = old.token OBVIOUS
  <2> DEFINE b == IF o = "done" THEN "done" ELSE "failed"
             x == [old EXCEPT !.burn = b]
  <2>3. x.op = "retire" /\ x.token = k /\ x.burn = b BY <2>2
  <2>4. /\ treq' = [treq EXCEPT ![r] = x] /\ UNCHANGED <<token, retirements>>
        /\ anchored' = IF o # "failed" THEN [anchored EXCEPT ![k] = @ + 1] ELSE anchored
        /\ unseenBurns' = IF o = "unanswered" THEN [unseenBurns EXCEPT ![k] = @ + 1] ELSE unseenBurns
    BY <1>5, <2>1, <2>2 DEF AnchorBurn
  <2> HIDE DEF x
  <2>5. LedgerCounts' BY <1>1, <2>4 DEF LedgerCounts
  <2>6. \A c \in Tokens : /\ anchored'[c] = anchored[c] + IF c = k /\ o # "failed" THEN 1 ELSE 0
                          /\ unseenBurns'[c] = unseenBurns[c] + IF c = k /\ o = "unanswered" THEN 1 ELSE 0
    BY <1>1, <2>4 DEF LedgerCounts
  <2>7. \A c \in Tokens : BurnOf(r, c) = 0 /\ BurnOf(r, c)' = IF c = k /\ o = "done" THEN 1 ELSE 0
    <3>1. TAKE c \in Tokens
    <3>2. /\ r \in Burning(c) <=> treq[r].op = "retire" /\ treq[r].token = c /\ treq[r].burn = "done"
          /\ r \in Burning(c)' <=> x.op = "retire" /\ x.token = c /\ x.burn = "done"
      BY <1>1, <2>4, BurningIs
    <3>3. r \notin Burning(c) BY <2>1, <3>2
    <3>4. r \in Burning(c)' <=> c = k /\ o = "done" BY <2>3, <3>2
    <3> QED BY <3>3, <3>4 DEF BurnOf
  <2>8. \A c \in Tokens : anchored'[c] - retirements'[c].burnt - unseenBurns'[c] - BurnOf(r, c)'
                   = anchored[c] - retirements[c].burnt - unseenBurns[c] - BurnOf(r, c)
    <3>1. TAKE c \in Tokens
    <3>2. anchored[c] \in Nat /\ unseenBurns[c] \in Nat /\ retirements[c].burnt \in Nat BY <1>1 DEF LedgerCounts
    <3> HIDE DEF BurnOf
    <3> QED BY <2>4, <2>6, <2>7, <3>2
  <2> QED BY <1>1, <2>4, <2>5, <2>8, BurnsStay
<1>6. ASSUME NEW r \in Requests, NEW x, treq[r].op # "retire", x.op # "retire" \/ x.burn # "done",
             treq' = [treq EXCEPT ![r] = x]
      PROVE  \A k \in Tokens : BurnOf(r, k)' = BurnOf(r, k)
  BY <1>1, <1>6, BurningIs DEF BurnOf
<1>7. ASSUME NEW r \in Requests, NEW x, treq[r].op # "retire", x.op # "retire" \/ x.burn # "done",
             treq' = [treq EXCEPT ![r] = x], UNCHANGED <<retirements, anchored, unseenBurns>>
      PROVE  LedgerCounts' /\ BurnsAreRecorded'
  <2>1. CASE \E q \in Requests : RetireToken(q) BY <1>3, <2>1
  <2>2. CASE \A q \in Requests : ~RetireToken(q) BY <1>2, <1>6, <1>7, <2>2
  <2> QED BY <2>1, <2>2
<1>8. ASSUME NEW r \in Requests,
             FractionalizeToken(r) \/ BuyToken(r) \/ \E l \in Listings : ListToken(r, l)
      PROVE  LedgerCounts' /\ BurnsAreRecorded'
  <2>1. /\ treq[r].op # "retire" /\ treq' = [treq EXCEPT ![r] = NoRequest]
        /\ UNCHANGED <<retirements, anchored, unseenBurns>>
    BY <1>8 DEF FractionalizeToken, BuyToken, ListToken, Done
  <2> QED BY <1>7, <2>1, NoRequestFits
<1>9. ASSUME NEW r \in Requests,
             \/ \E l \in Listings, n \in 1..Tonnes : LoadListing(r, l, n)
             \/ \E k \in Tokens : LoadParent(r, k) \/ LoadForRetirement(r, k) \/ \E n \in 1..Tonnes : LoadForListing(r, k, n)
      PROVE  LedgerCounts' /\ BurnsAreRecorded'
  <2>1. /\ treq[r] = NoRequest /\ UNCHANGED <<retirements, anchored, unseenBurns>>
        /\ \E x : treq' = [treq EXCEPT ![r] = x] /\ (x.op # "retire" \/ x.burn # "done")
    <3>1. CASE \E l \in Listings, n \in 1..Tonnes : LoadListing(r, l, n)
      <4>1. PICK l \in Listings, n \in 1..Tonnes : LoadListing(r, l, n) BY <3>1
      <4> DEFINE x == [op |-> "buy", listing |-> l, n |-> n, amount |-> listing[l].amount,
                       status |-> token[listing[l].token].status]
      <4>2. treq[r] = NoRequest /\ treq' = [treq EXCEPT ![r] = x] /\ UNCHANGED <<retirements, anchored, unseenBurns>>
        BY <4>1 DEF LoadListing, LoadsListing
      <4>3. x.op # "retire" OBVIOUS
      <4> HIDE DEF x
      <4> QED BY <4>2, <4>3
    <3>2. ASSUME NEW k \in Tokens, LoadParent(r, k) PROVE \E x : x.op = "divide" /\ Loads(r, x)
      BY <3>2 DEF LoadParent
    <3>3. ASSUME NEW k \in Tokens, LoadForRetirement(r, k) PROVE \E x : x.burn = "pending" /\ Loads(r, x)
      BY <3>3 DEF LoadForRetirement
    <3>4. ASSUME NEW k \in Tokens, NEW n \in 1..Tonnes, LoadForListing(r, k, n) PROVE \E x : x.op = "list" /\ Loads(r, x)
      BY <3>4 DEF LoadForListing
    <3>5. ASSUME NEW x, Loads(r, x)
          PROVE  treq[r] = NoRequest /\ treq' = [treq EXCEPT ![r] = x] /\ UNCHANGED <<retirements, anchored, unseenBurns>>
      BY <3>5 DEF Loads
    <3> QED BY <1>9, <3>1, <3>2, <3>3, <3>4, <3>5
  <2> QED BY <1>7, <2>1, NoRequestFits
<1>10. ASSUME NEW k \in Tokens, MintToken(k) PROVE LedgerCounts' /\ BurnsAreRecorded'
  <2>1. UNCHANGED <<retirements, anchored, unseenBurns, treq>> BY <1>10 DEF MintToken
  <2>2. token' = [token EXCEPT ![k] = [status |-> "minted", tonnes |-> Tonnes, parent |-> "none"]]
    BY <1>10 DEF MintToken
  <2>3. \A c \in Tokens : token'[c].status = "retired" => token[c].status = "retired"
    BY <1>1, <2>2 DEF TokenTypes
  <2>4. LedgerCounts' BY <1>1, <2>1 DEF LedgerCounts
  <2> QED BY <1>1, <2>1, <2>3, <2>4 DEF BurnsAreRecorded
<1> QED BY <1>3, <1>4, <1>5, <1>8, <1>9, <1>10 DEF TokenNext

LEMMA LedgerKept ==
    ASSUME LedgerInv, TokenNext
    PROVE  LedgerInv'
<1>1. MarketTypes /\ RowsExist /\ PurchasesFit /\ TokenTypes /\ treq \in [Requests -> TokenRequest]
  BY DEF LedgerInv, TokenTypes, MarketTypes
<1>2. ASSUME NEW k \in Tokens, MintToken(k) PROVE MarketTypes' /\ RowsExist' /\ PurchasesFit'
  <2>1. UNCHANGED <<listing, treq, bought, offered, contended>> BY <1>2 DEF MintToken
  <2>2. MarketTypes' BY <1>1, <2>1 DEF MarketTypes
  <2>3. PurchasesFit' BY <1>1, <2>1 DEF PurchasesFit
  <2>4. \A c \in Tokens : token[c] # NoRow => token'[c] # NoRow BY RowsStay
  <2>5. \A l \in Listings : listing[l] # NoRow => listing[l].token \in Tokens
    BY <1>1, RowKinds DEF MarketTypes
  <2>6. RowsExist' BY <1>1, <2>1, <2>4, <2>5, RequestKinds, ParentsExist DEF RowsExist
  <2> QED BY <2>2, <2>3, <2>6
<1>3. ASSUME NEW r \in Requests,
             \/ FractionalizeToken(r) \/ RetireToken(r) \/ TokenRequestDies(r)
             \/ \E o \in {"done", "failed", "unanswered"} : AnchorBurn(r, o)
             \/ \E k \in Tokens : LoadParent(r, k) \/ LoadForRetirement(r, k) \/ \E n \in 1..Tonnes : LoadForListing(r, k, n)
      PROVE  MarketTypes' /\ RowsExist' /\ PurchasesFit'
  BY <1>1, <1>3, OtherStepsFit DEF MarketTypes
<1>4. MarketTypes' /\ RowsExist' /\ PurchasesFit'
  BY <1>2, <1>3, ListingFits, LoadingFits, BuyingFits DEF TokenNext
<1>5. /\ token' \in [Tokens -> CarbonCreditToken \cup {NoRow}] /\ FractionsAreWhole'
      /\ LedgerCounts' /\ BurnsAreRecorded'
  BY RowsStay, BurnsKept
<1>6. TokenTypes' BY <1>4, <1>5 DEF TokenTypes, MarketTypes, LedgerCounts
<1> QED BY <1>4, <1>5, <1>6 DEF LedgerInv

\* token_service.py: no tonne is lost by a division, an uncontended listing sells
\* what it offers, and every burn on the ledger is accounted for.
THEOREM LedgerIsSound == LedgerSpec => []LedgerIsExact
<1>1. TokenInit => LedgerInv
  <2>1. ASSUME TokenInit PROVE TokenTypes /\ RowsExist /\ PurchasesFit /\ FractionsAreWhole /\ BurnsAreRecorded
    <3>1. TokenTypes BY <2>1, NoRequestFits DEF TokenInit, TokenTypes
    <3>2. RowsExist BY <2>1, NoRequestFits DEF TokenInit, RowsExist
    <3>3. PurchasesFit BY <2>1, NoRequestFits DEF TokenInit, PurchasesFit
    <3>4. FractionsAreWhole BY <2>1 DEF TokenInit, FractionsAreWhole
    <3>5. \A k \in Tokens : Burning(k) = {} BY <2>1, NoRequestFits DEF TokenInit, Burning
    <3>6. \A k \in Tokens : Cardinality(Burning(k)) = 0 BY <3>5, FS_EmptySet
    <3>7. BurnsAreRecorded BY <2>1, <3>6, RowKinds DEF TokenInit, BurnsAreRecorded, Burning
    <3> QED BY <3>1, <3>2, <3>3, <3>4, <3>7
  <2> QED BY <2>1 DEF LedgerInv
<1>2. LedgerInv /\ [TokenNext]_tokenVars => LedgerInv'
  <2>1. ASSUME LedgerInv, UNCHANGED tokenVars PROVE LedgerInv'
    BY <2>1 DEF tokenVars, LedgerInv, TokenTypes, RowsExist, PurchasesFit, FractionsAreWhole, BurnsAreRecorded
  <2> QED BY <2>1, LedgerKept
<1>3. LedgerInv => LedgerIsExact
  <2>1. ASSUME LedgerInv PROVE UncontendedListingIsExact
    <3>1. ASSUME NEW l \in Listings, listing[l] # NoRow, l \notin contended
          PROVE  /\ bought[l] + listing[l].amount = offered[l] /\ bought[l] <= offered[l]
                 /\ listing[l].status = "sold" <=> listing[l].amount = 0
      <4>1. bought[l] + listing[l].amount = offered[l] /\ (listing[l].status = "sold" <=> listing[l].amount = 0)
        BY <2>1, <3>1 DEF LedgerInv, PurchasesFit
      <4>2. bought[l] \in Nat /\ offered[l] \in Nat BY <2>1 DEF LedgerInv, TokenTypes
      <4>3. listing[l].amount \in Nat BY <2>1, <3>1, RowKinds, LedgerAssumption DEF LedgerInv, TokenTypes
      <4> QED BY <4>1, <4>2, <4>3
    <3> QED BY <3>1 DEF UncontendedListingIsExact
  <2> QED BY <2>1 DEF LedgerIsExact, LedgerInv
<1> QED BY <1>1, <1>2, <1>3, PTL DEF LedgerSpec

-----------------------------------------------------------------------------
(* Escalation.  A dispatcher writes the copies it loaded and nothing else of a row; an operator *)
(* whose change is committed has still to record it.                                            *)

Raised == {e \in Events : esc[e] # NoEvent}
SentTo == [Channels -> SendRecord]
Hands == {Unloaded} \cup [act : {"acknowledge", "resolve"}, event : Events,
                          status : {"open", "acknowledged"}, at : {"loaded", "committed"}]

\* The copies of an idle or working dispatcher are of rows that exist.
Copies(j, existing) ==
    \/ j = Idle
    \/ /\ j = [task |-> j.task, at |-> j.at, todo |-> j.todo, sent |-> j.sent]
       /\ j.at \in DOMAIN j.sent /\ DOMAIN j.sent \subseteq existing
       /\ j.sent \in [DOMAIN j.sent -> SentTo]

EscTypes ==
    /\ esc \in [Events -> EscalationEvent \cup {NoEvent}]
    /\ created_at \in [Events -> Nat]
    /\ hand \in [Operators -> Hands]
    /\ \A o \in Operators : hand[o] # Unloaded => hand[o].event \in Raised
    /\ job = [d \in Dispatchers |-> job[d]]

EscInv == EscTypes /\ (\A d \in Dispatchers : Copies(job[d], Raised)) /\ HandlingIsAudited

LEMMA EventKinds ==
    /\ NoEvent \notin EscalationEvent /\ NoEvent.status = "none"
    /\ \A x \in EscalationEvent : /\ x.status \in EscalationStatus /\ x.priority \in 0..2
                                  /\ x.channels_sent \in SentTo /\ x.resolved_by \in BOOLEAN
    /\ \A h \in Hands : h # Unloaded => /\ h.act \in {"acknowledge", "resolve"} /\ h.event \in Events
                                        /\ h.status \in {"open", "acknowledged"}
                                        /\ h.at \in {"loaded", "committed"}
    /\ \A h \in Hands : h.act = "none" <=> h = Unloaded
<1>1. NoEvent.status = "none" /\ NoEvent.status \notin EscalationStatus
  BY DEF NoEvent, EscalationStatus
<1>2. \A x \in EscalationEvent : /\ x.status \in EscalationStatus /\ x.priority \in 0..2
                                 /\ x.channels_sent \in SentTo
  BY DEF EscalationEvent, SentTo
<1>3. \A x \in EscalationEvent : x.resolved_by \in BOOLEAN
  BY DEF EscalationEvent
<1>4. \A h \in Hands : h # Unloaded => /\ h.act \in {"acknowledge", "resolve"} /\ h.event \in Events
                                       /\ h.status \in {"open", "acknowledged"}
                                       /\ h.at \in {"loaded", "committed"}
  BY DEF Hands
<1>5. Unloaded.act = "none" BY DEF Unloaded
<1> QED BY <1>1, <1>2, <1>3, <1>4, <1>5

LEMMA OldestIs ==
    ASSUME EscTypes, NEW S \in SUBSET Events, S # {}
    PROVE  Oldest(S) \in S
<1> DEFINE T == {created_at[e] : e \in S}
<1>1. T \in SUBSET Nat /\ T # {} BY DEF EscTypes
<1>2. PICK n \in T : \A m \in T : n <= m BY <1>1, LeastOf
<1>3. \E e \in S : \A f \in S : created_at[e] <= created_at[f] BY <1>2
<1> QED BY <1>3 DEF Oldest

LEMMA WorkFits ==
    ASSUME EscTypes, NEW t, NEW S \in SUBSET Raised, NEW shown, \A e \in S : shown[e] \in SentTo
    PROVE  Copies(Work(t, S, shown), Raised)
<1>1. CASE S = {} BY <1>1 DEF Work, Copies
<1>2. CASE S # {}
  <2>1. Oldest(S) \in S BY <1>2, OldestIs DEF Raised
  <2> DEFINE c == [e \in S |-> shown[e]]
             todo == ChannelsOf(esc[Oldest(S)].priority)
             j == [task |-> t, at |-> Oldest(S), todo |-> todo, sent |-> c]
  <2>2. c \in [S -> SentTo] /\ DOMAIN c = S OBVIOUS
  <2>3. Work(t, S, shown) = j BY <1>2 DEF Work
  <2> HIDE DEF c, todo
  <2>4. j = [task |-> j.task, at |-> j.at, todo |-> j.todo, sent |-> j.sent] OBVIOUS
  <2>5. j.sent = c /\ j.at = Oldest(S) OBVIOUS
  <2> HIDE DEF j
  <2>6. Copies(j, Raised) BY <2>1, <2>2, <2>4, <2>5 DEF Copies
  <2> QED BY <2>3, <2>6
<1> QED BY <1>1, <1>2

\* Copies fit as long as their rows exist.
LEMMA JobWritten ==
    ASSUME EscInv, NEW d \in Dispatchers, NEW j, Copies(j, Raised'), job' = [job EXCEPT ![d] = j],
           Raised \subseteq Raised'
    PROVE  job' = [c \in Dispatchers |-> job'[c]] /\ \A c \in Dispatchers : Copies(job'[c], Raised')
<1>1. job = [c \in Dispatchers |-> job[c]] BY DEF EscInv, EscTypes
<1>2. \A c \in Dispatchers : job'[c] = IF c = d THEN j ELSE job[c] BY <1>1
<1>3. job' = [c \in Dispatchers |-> job'[c]] BY <1>1
<1>4. ASSUME NEW c \in Dispatchers, c # d PROVE Copies(job'[c], Raised')
  <2>1. Copies(job[c], Raised) BY DEF EscInv
  <2> QED BY <1>2, <1>4, <2>1 DEF Copies
<1> QED BY <1>2, <1>3, <1>4

\* The rows' fields that the dispatchers write, as the invariant sees them.
SameHandling ==
    \A e \in Events : /\ esc'[e] = NoEvent <=> esc[e] = NoEvent
                      /\ esc[e] # NoEvent => esc'[e].status = esc[e].status /\ esc'[e].resolved_by = esc[e].resolved_by

LEMMA SentWritten ==
    ASSUME EscTypes, NEW e \in Raised, NEW shown \in SentTo, esc' = [esc EXCEPT ![e].channels_sent = shown]
    PROVE  esc' \in [Events -> EscalationEvent \cup {NoEvent}] /\ SameHandling
<1>1. esc \in [Events -> EscalationEvent \cup {NoEvent}] BY DEF EscTypes
<1>2. PICK old \in EscalationEvent : old = esc[e] /\ e \in Events BY <1>1 DEF Raised
<1> DEFINE new == [old EXCEPT !.channels_sent = shown]
<1>3. new \in EscalationEvent /\ new.status = old.status BY DEF EscalationEvent, SentTo
<1>4. new.resolved_by = old.resolved_by BY DEF EscalationEvent
<1>5. esc' = [esc EXCEPT ![e] = new] BY <1>2
<1> HIDE DEF new
<1>6. \A f \in Events : esc'[f] = IF f = e THEN new ELSE esc[f] BY <1>1, <1>5
<1>7. esc' \in [Events -> EscalationEvent \cup {NoEvent}] BY <1>1, <1>3, <1>5
<1>8. SameHandling
  <2>1. old # NoEvent /\ new # NoEvent BY <1>3, EventKinds
  <2> QED BY <1>2, <1>3, <1>4, <1>6, <2>1 DEF SameHandling
<1> QED BY <1>7, <1>8

\* Where no handling changes and no decision is lost, the handling stays explained.
LEMMA SameExplained ==
    ASSUME HandlingIsAudited, SameHandling, UNCHANGED <<hand, decided, unexplained>>
    PROVE  HandlingIsAudited' /\ Raised' = Raised
<1>1. \A e \in Events, act \in {"acknowledge", "resolve"} :
         (HandlingShown(e, act)' => HandlingShown(e, act)) /\ (HandlingExplained(e, act) => HandlingExplained(e, act)')
  BY DEF HandlingShown, HandlingExplained, SameHandling
<1> QED BY <1>1 DEF HandlingIsAudited, SameHandling, Raised

LEMMA RowsSame == ASSUME EscTypes, esc' = esc PROVE SameHandling
BY DEF SameHandling

LEMMA DispatchFits ==
    ASSUME EscInv, NEW d \in Dispatchers, NEW task, NEW due \in SUBSET Raised,
           job' = [job EXCEPT ![d] = Loaded(task, due)], UNCHANGED <<esc, created_at, hand, decided, unexplained>>
    PROVE  EscInv'
<1>1. EscTypes /\ HandlingIsAudited BY DEF EscInv
<1>2. \A e \in due : [f \in due |-> esc[f].channels_sent][e] \in SentTo
  BY <1>1, EventKinds DEF EscTypes, Raised
<1>3. Copies(Loaded(task, due), Raised) BY <1>1, <1>2, WorkFits DEF Loaded
<1>4. HandlingIsAudited' /\ Raised' = Raised BY <1>1, RowsSame, SameExplained
<1>5. job' = [c \in Dispatchers |-> job'[c]] /\ \A c \in Dispatchers : Copies(job'[c], Raised')
  BY <1>3, <1>4, JobWritten
<1> QED BY <1>1, <1>4, <1>5 DEF EscInv, EscTypes

LEMMA RaiseFits ==
    ASSUME EscInv, NEW d \in Dispatchers, NEW e \in Events, NEW p \in 0..2, RaiseEscalation(d, e, p)
    PROVE  EscInv'
<1>1. /\ EscTypes /\ HandlingIsAudited /\ esc \in [Events -> EscalationEvent \cup {NoEvent}]
  BY DEF EscInv, EscTypes
<1> DEFINE none == [c \in Channels |-> "none"]
           new == [status |-> "open", priority |-> p, acknowledged_by |-> FALSE,
                   resolved_by |-> FALSE, channels_sent |-> none]
           todo == ChannelsOf(p)
           shown == [f \in {e} |-> none]
           j == [task |-> "raise", at |-> e, todo |-> todo, sent |-> shown]
<1>2. none \in SentTo BY DEF SentTo, SendRecord
<1>3. /\ esc' = [esc EXCEPT ![e] = new] /\ job' = [job EXCEPT ![d] = j] /\ esc[e] = NoEvent
      /\ created_at' = [created_at EXCEPT ![e] = Cardinality(Raised) + 1]
      /\ UNCHANGED <<hand, decided, unexplained>>
  BY DEF RaiseEscalation, Raised
<1>4. new \in EscalationEvent /\ new.status = "open"
  BY <1>2 DEF EscalationEvent, EscalationStatus, SentTo
<1>5. new.resolved_by = FALSE OBVIOUS
<1> HIDE DEF new, todo
<1>6. \A f \in Events : esc'[f] = IF f = e THEN new ELSE esc[f] BY <1>1, <1>3
<1>7. esc' \in [Events -> EscalationEvent \cup {NoEvent}] BY <1>1, <1>3, <1>4
<1>8. Raised' = Raised \cup {e} BY <1>4, <1>6, EventKinds DEF Raised
<1>9. created_at' \in [Events -> Nat]
  <2>1. Cardinality(Raised) \in Nat
    BY EscalationAssumption, FS_Subset, FS_CardinalityType DEF Raised
  <2> QED BY <1>1, <1>3, <2>1 DEF EscTypes
<1>10. Copies(j, Raised')
  <2>1. shown \in [{e} -> SentTo] /\ DOMAIN shown = {e} BY <1>2
  <2> HIDE DEF shown
  <2>2. j = [task |-> j.task, at |-> j.at, todo |-> j.todo, sent |-> j.sent] OBVIOUS
  <2>3. j.sent = shown /\ j.at = e OBVIOUS
  <2> HIDE DEF j
  <2> QED BY <1>8, <2>1, <2>2, <2>3 DEF Copies
<1> HIDE DEF j
<1>11. job' = [c \in Dispatchers |-> job'[c]] /\ \A c \in Dispatchers : Copies(job'[c], Raised')
  BY <1>3, <1>8, <1>10, JobWritten
<1>12. HandlingIsAudited'
  <2>1. ASSUME NEW f \in Events, NEW act \in {"acknowledge", "resolve"}, HandlingShown(f, act)'
        PROVE  HandlingExplained(f, act)'
    <3>1. f # e BY <1>4, <1>5, <1>6, <2>1 DEF HandlingShown
    <3>2. esc'[f] = esc[f] BY <1>6, <3>1
    <3>3. HandlingShown(f, act) BY <2>1, <3>2 DEF HandlingShown
    <3>4. HandlingExplained(f, act) BY <1>1, <3>3 DEF HandlingIsAudited
    <3> QED BY <1>3, <3>4 DEF HandlingExplained
  <2> QED BY <2>1 DEF HandlingIsAudited
<1>13. \A o \in Operators : hand'[o] # Unloaded => hand'[o].event \in Raised'
  BY <1>1, <1>3, <1>8 DEF EscTypes
<1> QED BY <1>1, <1>3, <1>7, <1>9, <1>11, <1>12, <1>13 DEF EscInv, EscTypes

LEMMA StoreFits ==
    ASSUME EscInv, NEW d \in Dispatchers, StoreSent(d)
    PROVE  EscInv'
<1>1. /\ EscTypes /\ HandlingIsAudited /\ Copies(job[d], Raised) /\ esc \in [Events -> EscalationEvent \cup {NoEvent}]
  BY DEF EscInv, EscTypes
<1>2. PICK e, shown, t : /\ e = job[d].at /\ shown = job[d].sent /\ t = job[d].task
                        /\ e \in DOMAIN shown /\ DOMAIN shown \subseteq Raised
                        /\ shown \in [DOMAIN shown -> SentTo]
  BY <1>1 DEF StoreSent, Copies
<1>3. /\ esc' = esc \/ esc' = [esc EXCEPT ![e].channels_sent = shown[e]]
      /\ job' = [job EXCEPT ![d] = Work(t, DOMAIN shown \ {e}, shown)]
      /\ UNCHANGED <<created_at, hand, decided, unexplained>>
  BY <1>2 DEF StoreSent
<1>4. esc' \in [Events -> EscalationEvent \cup {NoEvent}] /\ SameHandling
  BY <1>1, <1>2, <1>3, SentWritten, RowsSame
<1>5. HandlingIsAudited' /\ Raised' = Raised BY <1>1, <1>3, <1>4, SameExplained
<1>6. Copies(Work(t, DOMAIN shown \ {e}, shown), Raised)
  <2>1. DOMAIN shown \ {e} \in SUBSET Raised /\ \A f \in DOMAIN shown \ {e} : shown[f] \in SentTo BY <1>2
  <2> QED BY <1>1, <2>1, WorkFits
<1>7. job' = [c \in Dispatchers |-> job'[c]] /\ \A c \in Dispatchers : Copies(job'[c], Raised')
  BY <1>3, <1>5, <1>6, JobWritten
<1> QED BY <1>1, <1>3, <1>4, <1>5, <1>7 DEF EscInv, EscTypes

LEMMA SendFits ==
    ASSUME EscInv, NEW d \in Dispatchers, NEW outcome \in {"fresh", "failed"}, SendTo(d, outcome)
    PROVE  EscInv'
<1>1. EscTypes /\ HandlingIsAudited /\ Copies(job[d], Raised) BY DEF EscInv
<1>2. PICK e, shown, t, todo :
         /\ job[d] = [task |-> t, at |-> e, todo |-> todo, sent |-> shown]
         /\ e \in DOMAIN shown /\ DOMAIN shown \subseteq Raised /\ shown \in [DOMAIN shown -> SentTo]
  <2>1. job[d] # Idle BY DEF SendTo
  <2> QED BY <1>1, <2>1 DEF Copies
<1> DEFINE ch == Head(todo)
           rest == Tail(todo)
           now == [shown EXCEPT ![e][ch] = outcome]
           j == [task |-> t, at |-> e, todo |-> rest, sent |-> now]
<1>3. job[d].todo = todo /\ job[d].at = e BY <1>2
<1>4. /\ job' = [job EXCEPT ![d].todo = rest, ![d].sent[e][ch] = outcome]
      /\ UNCHANGED <<esc, created_at, hand, decided, unexplained>>
  BY <1>3 DEF SendTo
<1> HIDE DEF ch, rest
<1>5. job' = [job EXCEPT ![d] = j]
  <2>1. job = [c \in Dispatchers |-> job[c]] BY <1>1 DEF EscTypes
  <2>2. DOMAIN job = Dispatchers BY <2>1
  <2>3. [job[d] EXCEPT !.todo = rest, !.sent[e][ch] = outcome] = j
    <3> DEFINE r == [task |-> t, at |-> e, todo |-> todo, sent |-> shown]
    <3>1. [job[d] EXCEPT !.todo = rest, !.sent[e][ch] = outcome] = [r EXCEPT !.todo = rest, !.sent[e][ch] = outcome]
      BY <1>2
    <3>2. [r EXCEPT !.todo = rest] = [task |-> t, at |-> e, todo |-> rest, sent |-> shown] OBVIOUS
    <3>3. [[task |-> t, at |-> e, todo |-> rest, sent |-> shown] EXCEPT !.sent[e][ch] = outcome] = j OBVIOUS
    <3>4. [r EXCEPT !.todo = rest, !.sent[e][ch] = outcome] = [[r EXCEPT !.todo = rest] EXCEPT !.sent[e][ch] = outcome]
      OBVIOUS
    <3> QED BY <3>1, <3>2, <3>3, <3>4
  <2> HIDE DEF j
  <2>4. job' = [job EXCEPT ![d] = [job[d] EXCEPT !.todo = rest, !.sent[e][ch] = outcome]] BY <1>4, <2>2
  <2> QED BY <2>3, <2>4
<1>6. now \in [DOMAIN shown -> SentTo]
  <2>1. shown[e] \in [Channels -> SendRecord] BY <1>2 DEF SentTo
  <2>2. [shown[e] EXCEPT ![ch] = outcome] \in [Channels -> SendRecord] BY <2>1 DEF SendRecord
  <2> QED BY <1>2, <2>2 DEF SentTo
<1>7. Copies(j, Raised)
  <2>1. DOMAIN now = DOMAIN shown OBVIOUS
  <2> HIDE DEF now
  <2>2. j = [task |-> j.task, at |-> j.at, todo |-> j.todo, sent |-> j.sent] OBVIOUS
  <2>3. j.sent = now /\ j.at = e OBVIOUS
  <2> HIDE DEF j
  <2> QED BY <1>2, <1>6, <2>1, <2>2, <2>3 DEF Copies
<1> HIDE DEF j
<1>8. HandlingIsAudited' /\ Raised' = Raised BY <1>1, <1>4, RowsSame, SameExplained
<1>9. job' = [c \in Dispatchers |-> job'[c]] /\ \A c \in Dispatchers : Copies(job'[c], Raised')
  BY <1>5, <1>7, <1>8, JobWritten
<1> QED BY <1>1, <1>4, <1>8, <1>9 DEF EscInv, EscTypes

LEMMA AgedFits == ASSUME NEW s \in SentTo PROVE Aged(s) \in SentTo
BY DEF SentTo, SendRecord, Aged

LEMMA MinuteFits ==
    ASSUME EscInv, Minute
    PROVE  EscInv'
<1>1. /\ EscTypes /\ HandlingIsAudited /\ esc \in [Events -> EscalationEvent \cup {NoEvent}]
      /\ job = [c \in Dispatchers |-> job[c]] /\ \A d \in Dispatchers : Copies(job[d], Raised)
  BY DEF EscInv, EscTypes
<1>2. /\ esc' = [e \in Events |-> IF esc[e] = NoEvent THEN NoEvent ELSE [esc[e] EXCEPT !.channels_sent = Aged(@)]]
      /\ job' = [d \in Dispatchers |-> IF job[d] = Idle THEN Idle
                   ELSE [job[d] EXCEPT !.sent = [e \in DOMAIN @ |-> Aged(@[e])]]]
      /\ UNCHANGED <<created_at, hand, decided, unexplained>>
  BY DEF Minute
<1>3. ASSUME NEW e \in Events, esc[e] # NoEvent
      PROVE  esc'[e] \in EscalationEvent /\ esc'[e].status = esc[e].status /\ esc'[e].resolved_by = esc[e].resolved_by
  <2>1. PICK old \in EscalationEvent : old = esc[e] BY <1>1, <1>3
  <2>2. PICK s \in SentTo : s = Aged(old.channels_sent) BY AgedFits, EventKinds
  <2>3. esc'[e] = [old EXCEPT !.channels_sent = s] BY <1>2, <1>3, <2>1, <2>2
  <2>4. [old EXCEPT !.channels_sent = s] \in EscalationEvent BY DEF EscalationEvent, SentTo
  <2>5. [old EXCEPT !.channels_sent = s].status = old.status BY DEF EscalationEvent
  <2>6. [old EXCEPT !.channels_sent = s].resolved_by = old.resolved_by BY DEF EscalationEvent
  <2> QED BY <2>1, <2>3, <2>4, <2>5, <2>6
<1>4. \A e \in Events : esc[e] = NoEvent => esc'[e] = NoEvent BY <1>2
<1>5. SameHandling BY <1>3, <1>4, EventKinds DEF SameHandling
<1>6. esc' \in [Events -> EscalationEvent \cup {NoEvent}]
  <2>1. \A e \in Events : esc'[e] \in EscalationEvent \cup {NoEvent} BY <1>3, <1>4
  <2> QED BY <1>2, <2>1
<1>7. HandlingIsAudited' /\ Raised' = Raised BY <1>1, <1>2, <1>5, SameExplained
<1>8. ASSUME NEW d \in Dispatchers PROVE Copies(job'[d], Raised)
  <2>1. CASE job[d] = Idle BY <1>2, <2>1 DEF Copies
  <2>2. CASE job[d] # Idle
    <3>1. PICK e, shown, t, todo :
             /\ job[d] = [task |-> t, at |-> e, todo |-> todo, sent |-> shown]
             /\ e \in DOMAIN shown /\ DOMAIN shown \subseteq Raised /\ shown \in [DOMAIN shown -> SentTo]
      BY <1>1, <2>2 DEF Copies
    <3> DEFINE now == [f \in DOMAIN shown |-> Aged(shown[f])]
               j == [task |-> t, at |-> e, todo |-> todo, sent |-> now]
    <3>2. job'[d] = j BY <1>2, <2>2, <3>1
    <3>3. now \in [DOMAIN shown -> SentTo] /\ DOMAIN now = DOMAIN shown BY <3>1, AgedFits
    <3> HIDE DEF now
    <3>4. j = [task |-> j.task, at |-> j.at, todo |-> j.todo, sent |-> j.sent] OBVIOUS
    <3>5. j.sent = now /\ j.at = e OBVIOUS
    <3> HIDE DEF j
    <3>6. Copies(j, Raised) BY <3>1, <3>3, <3>4, <3>5 DEF Copies
    <3> QED BY <3>2, <3>6
  <2> QED BY <2>1, <2>2
<1>9. job' = [d \in Dispatchers |-> job'[d]] BY <1>2
<1> QED BY <1>1, <1>2, <1>6, <1>7, <1>8, <1>9 DEF EscInv, EscTypes

\* The requests of operators: the dispatchers' part stands while rows stay.
LEMMA OperatorFits ==
    ASSUME EscInv, esc' \in [Events -> EscalationEvent \cup {NoEvent}], Raised' = Raised,
           hand' \in [Operators -> Hands], \A o \in Operators : hand'[o] # Unloaded => hand'[o].event \in Raised,
           UNCHANGED <<created_at, job>>, HandlingIsAudited'
    PROVE  EscInv'
BY DEF EscInv, EscTypes

LEMMA LoadFits ==
    ASSUME EscInv, NEW o \in Operators, NEW e \in Events, NEW act \in {"acknowledge", "resolve"}, Load(o, e, act)
    PROVE  EscInv'
<1>1. /\ EscTypes /\ HandlingIsAudited /\ esc \in [Events -> EscalationEvent \cup {NoEvent}]
      /\ hand \in [Operators -> Hands] /\ \A q \in Operators : hand[q] # Unloaded => hand[q].event \in Raised
  BY DEF EscInv, EscTypes
<1>2. PICK st \in {"open", "acknowledged"} : st = esc[e].status
  BY <1>1, EventKinds DEF Load, EscalationStatus
<1> DEFINE h == [act |-> act, event |-> e, status |-> st, at |-> "loaded"]
<1>3. h \in Hands /\ h.event = e /\ h.at = "loaded" BY DEF Hands
<1>4. /\ hand' = [hand EXCEPT ![o] = h] /\ hand[o] = Unloaded /\ e \in Raised
      /\ UNCHANGED <<esc, created_at, job, decided, unexplained>>
  BY <1>2 DEF Load, Raised
<1> HIDE DEF h
<1>5. \A q \in Operators : hand'[q] = IF q = o THEN h ELSE hand[q] BY <1>1, <1>4
<1>6. HandlingIsAudited'
  <2>1. \A f \in Events, a \in {"acknowledge", "resolve"} :
           (HandlingShown(f, a)' => HandlingShown(f, a)) /\ (HandlingExplained(f, a) => HandlingExplained(f, a)')
    BY <1>4, <1>5 DEF HandlingShown, HandlingExplained
  <2> QED BY <1>1, <2>1 DEF HandlingIsAudited
<1>7. hand' \in [Operators -> Hands] BY <1>1, <1>3, <1>4
<1>8. Raised' = Raised BY <1>4 DEF Raised
<1> QED BY <1>1, <1>3, <1>4, <1>5, <1>6, <1>7, <1>8, OperatorFits

LEMMA DecideFits ==
    ASSUME EscInv, NEW o \in Operators, Record(o) \/ RequestDies(o)
    PROVE  EscInv'
<1>1. /\ EscTypes /\ HandlingIsAudited /\ hand \in [Operators -> Hands] /\ esc \in [Events -> EscalationEvent \cup {NoEvent}]
      /\ \A q \in Operators : hand[q] # Unloaded => hand[q].event \in Raised
  BY DEF EscInv, EscTypes
<1>2. /\ hand' = [hand EXCEPT ![o] = Unloaded] /\ UNCHANGED <<esc, created_at, job>>
      /\ hand[o].at = "committed" => <<hand[o].event, hand[o].act>> \in decided' \cup unexplained'
      /\ decided \subseteq decided' /\ unexplained \subseteq unexplained'
  BY DEF Record, RequestDies
<1>3. \A q \in Operators : hand'[q] = IF q = o THEN Unloaded ELSE hand[q] BY <1>1, <1>2
<1>4. HandlingIsAudited'
  <2>1. \A f \in Events, a \in {"acknowledge", "resolve"} : HandlingShown(f, a)' => HandlingShown(f, a)
    BY <1>2 DEF HandlingShown
  <2>2. ASSUME NEW f \in Events, NEW a \in {"acknowledge", "resolve"}, HandlingExplained(f, a) PROVE HandlingExplained(f, a)'
    <3>1. CASE <<f, a>> \in decided \cup unexplained BY <1>2, <3>1 DEF HandlingExplained
    <3>2. CASE hand[o].event = f /\ hand[o].act = a /\ hand[o].at = "committed" BY <1>2, <3>2 DEF HandlingExplained
    <3>3. CASE \E q \in Operators : q # o /\ hand[q] # Unloaded /\ hand[q].event = f /\ hand[q].act = a /\ hand[q].at = "committed"
      BY <1>3, <3>3 DEF HandlingExplained
    <3> QED BY <2>2, <3>1, <3>2, <3>3 DEF HandlingExplained
  <2> QED BY <1>1, <2>1, <2>2 DEF HandlingIsAudited
<1>5. hand' \in [Operators -> Hands] BY <1>1, <1>2 DEF Hands
<1>6. Raised' = Raised BY <1>2 DEF Raised
<1> QED BY <1>1, <1>2, <1>3, <1>4, <1>5, <1>6, OperatorFits

LEMMA CommitFits ==
    ASSUME EscInv, NEW o \in Operators, Acknowledge(o) \/ Resolve(o)
    PROVE  EscInv'
<1>1. /\ EscTypes /\ HandlingIsAudited /\ hand \in [Operators -> Hands] /\ esc \in [Events -> EscalationEvent \cup {NoEvent}]
      /\ \A q \in Operators : hand[q] # Unloaded => hand[q].event \in Raised
  BY DEF EscInv, EscTypes
<1>2. hand[o].act \in {"acknowledge", "resolve"} /\ hand[o].at = "loaded" /\ hand[o] # Unloaded
  BY <1>1, EventKinds DEF Acknowledge, Resolve
<1>3. PICK h \in [act : {"acknowledge", "resolve"}, event : Events, status : {"open", "acknowledged"}, at : {"loaded", "committed"}] :
         h = hand[o] /\ h.at = "loaded" /\ h.event \in Raised
  BY <1>1, <1>2 DEF Hands
<1> DEFINE c == [h EXCEPT !.at = "committed"]
<1>4. c \in Hands /\ c.event = h.event /\ c.act = h.act /\ c.at = "committed" BY DEF Hands
<1>5. c # Unloaded BY <1>4, EventKinds DEF Unloaded
<1>6. /\ hand' = [hand EXCEPT ![o] = c] /\ UNCHANGED <<created_at, job, decided, unexplained>>
  BY <1>3 DEF Acknowledge, Resolve, Committed
<1> HIDE DEF c
<1>7. \A q \in Operators : hand'[q] = IF q = o THEN c ELSE hand[q] BY <1>1, <1>6
<1>8. PICK old \in EscalationEvent : old = esc[h.event] BY <1>1, <1>3 DEF Raised
<1>9. PICK new \in EscalationEvent :
         /\ esc' = [esc EXCEPT ![h.event] = new]
         /\ h.act = "acknowledge" => new.resolved_by = old.resolved_by
         /\ h.act = "resolve" => new.status = "resolved"
  <2>1. CASE Acknowledge(o)
    <3> DEFINE st == IF h.status = "open" THEN "acknowledged" ELSE old.status
               new == [old EXCEPT !.acknowledged_by = TRUE, !.status = st]
    <3>1. st \in EscalationStatus BY EventKinds DEF EscalationStatus
    <3>2. esc' = [esc EXCEPT ![h.event].acknowledged_by = TRUE,
                             ![h.event].status = IF h.status = "open" THEN "acknowledged" ELSE @]
      BY <1>3, <2>1 DEF Acknowledge
    <3>3. esc' = [esc EXCEPT ![h.event] = new] BY <1>1, <1>8, <3>2
    <3>4. new \in EscalationEvent BY <3>1 DEF EscalationEvent
    <3>5. new.resolved_by = old.resolved_by BY DEF EscalationEvent
    <3>6. h.act = "acknowledge" BY <1>3, <2>1 DEF Acknowledge
    <3> QED BY <3>3, <3>4, <3>5, <3>6
  <2>2. CASE Resolve(o)
    <3> DEFINE new == [old EXCEPT !.status = "resolved", !.resolved_by = TRUE, !.acknowledged_by = TRUE]
    <3>1. esc' = [esc EXCEPT ![h.event].status = "resolved", ![h.event].resolved_by = TRUE,
                             ![h.event].acknowledged_by = TRUE]
      BY <1>3, <2>2 DEF Resolve
    <3>2. esc' = [esc EXCEPT ![h.event] = new] BY <1>1, <1>8, <3>1
    <3>3. new \in EscalationEvent /\ new.status = "resolved" BY DEF EscalationEvent, EscalationStatus
    <3>4. h.act = "resolve" BY <1>3, <2>2 DEF Resolve
    <3> QED BY <3>2, <3>3, <3>4
  <2> QED BY <2>1, <2>2
<1>10. \A f \in Events : esc'[f] = IF f = h.event THEN new ELSE esc[f] BY <1>1, <1>9
<1>11. esc' \in [Events -> EscalationEvent \cup {NoEvent}] BY <1>1, <1>9
<1>12. Raised' = Raised BY <1>3, <1>10, EventKinds DEF Raised
<1>13. HandlingIsAudited'
  <2>1. ASSUME NEW f \in Events, NEW act \in {"acknowledge", "resolve"}, HandlingShown(f, act)'
        PROVE  HandlingExplained(f, act)'
    <3>1. CASE f = h.event /\ act = h.act BY <1>4, <1>5, <1>7, <3>1 DEF HandlingExplained
    <3>2. CASE ~(f = h.event /\ act = h.act)
      <4>1. HandlingShown(f, act)
        <5>1. CASE f # h.event BY <1>10, <2>1, <5>1 DEF HandlingShown
        <5>2. CASE f = h.event
          <6>1. esc'[f] = new /\ esc[f] = old BY <1>8, <1>10, <5>2
          <6>2. esc[f] # NoEvent BY <1>3, <5>2 DEF Raised
          <6>3. CASE act = "resolve"
            <7>1. h.act = "acknowledge" BY <3>2, <5>2, <6>3
            <7>2. new.resolved_by BY <2>1, <6>1, <6>3 DEF HandlingShown
            <7> QED BY <1>9, <6>1, <6>2, <6>3, <7>1, <7>2 DEF HandlingShown
          <6>4. CASE act = "acknowledge"
            <7>1. h.act = "resolve" BY <3>2, <5>2, <6>4
            <7>2. new.status = "acknowledged" BY <2>1, <6>1, <6>4 DEF HandlingShown
            <7> QED BY <1>9, <7>1, <7>2
          <6> QED BY <6>3, <6>4
        <5> QED BY <5>1, <5>2
      <4>2. HandlingExplained(f, act) BY <1>1, <4>1 DEF HandlingIsAudited
      <4>3. CASE <<f, act>> \in decided \cup unexplained BY <1>6, <4>3 DEF HandlingExplained
      <4>4. CASE \E q \in Operators : hand[q] # Unloaded /\ hand[q].event = f /\ hand[q].act = act /\ hand[q].at = "committed"
        <5>1. PICK q \in Operators : hand[q] # Unloaded /\ hand[q].event = f /\ hand[q].act = act /\ hand[q].at = "committed"
          BY <4>4
        <5>2. q # o BY <1>2, <5>1
        <5>3. hand'[q] = hand[q] BY <1>7, <5>2
        <5> QED BY <5>1, <5>3 DEF HandlingExplained
      <4> QED BY <4>2, <4>3, <4>4 DEF HandlingExplained
    <3> QED BY <3>1, <3>2
  <2> QED BY <2>1 DEF HandlingIsAudited
<1>14. hand' \in [Operators -> Hands] BY <1>1, <1>4, <1>6
<1> QED BY <1>1, <1>3, <1>4, <1>6, <1>7, <1>11, <1>12, <1>13, <1>14, OperatorFits

LEMMA EscKept ==
    ASSUME EscInv, EscNext
    PROVE  EscInv'
<1>1. /\ EscTypes /\ HandlingIsAudited /\ Open(0) \in SUBSET Raised /\ Open(1) \in SUBSET Raised
  BY EventKinds DEF EscInv, Open, Raised
<1>2. CASE \E d \in Raisers, e \in Events, p \in 0..2 : RaiseEscalation(d, e, p)
  BY <1>2, RaiseFits DEF Dispatchers
<1>3. ASSUME NEW d \in Workers, DispatchP0(d) \/ SendP1Beat(d)
      PROVE  EscInv'
  <2>1. PICK task \in {"p0", "p1"}, due \in SUBSET Raised : job' = [job EXCEPT ![d] = Loaded(task, due)]
    <3>1. Batch(Open(0), P0_BATCH_LIMIT) \cap Quiet(0) \in SUBSET Raised
      BY <1>1 DEF Quiet
    <3>2. Batch(Open(1), P1_BATCH_LIMIT) \cap Unsent(1) \in SUBSET Raised
      BY <1>1 DEF Unsent
    <3> QED BY <1>3, <3>1, <3>2 DEF DispatchP0, SendP1Beat
  <2>2. UNCHANGED <<esc, created_at, hand, decided, unexplained>> BY <1>3 DEF DispatchP0, SendP1Beat
  <2> QED BY <2>1, <2>2, DispatchFits DEF Dispatchers
<1>4. ASSUME UNCHANGED <<esc, created_at, hand, decided, unexplained, job>> PROVE EscInv'
  BY <1>1, <1>4 DEF EscInv, EscTypes, Raised, HandlingIsAudited, HandlingShown, HandlingExplained
<1>5. ASSUME NEW d \in Workers, NEW e \in Events, SendP1Sla(d, e) PROVE EscInv'
  <2>1. UNCHANGED <<esc, created_at, hand, decided, unexplained>> BY <1>5 DEF SendP1Sla
  <2>2. CASE UNCHANGED job BY <1>4, <2>1, <2>2
  <2>3. CASE esc[e].status = "open" /\ job' = [job EXCEPT ![d] = Loaded("p1_sla", {e})]
    <3>1. {e} \in SUBSET Raised BY <2>3, EventKinds DEF Raised
    <3> QED BY <2>1, <2>3, <3>1, DispatchFits DEF Dispatchers
  <2> QED BY <1>5, <2>2, <2>3 DEF SendP1Sla
<1>6. ASSUME NEW d \in Dispatchers, DispatcherDies(d) PROVE EscInv'
  <2>1. job' = [job EXCEPT ![d] = Idle] /\ UNCHANGED <<esc, created_at, hand, decided, unexplained>>
    BY <1>6 DEF DispatcherDies
  <2>2. HandlingIsAudited' /\ Raised' = Raised BY <1>1, <2>1, RowsSame, SameExplained
  <2>3. job' = [c \in Dispatchers |-> job'[c]] /\ \A c \in Dispatchers : Copies(job'[c], Raised')
    BY <2>1, <2>2, JobWritten DEF Copies
  <2> QED BY <1>1, <2>1, <2>2, <2>3 DEF EscInv, EscTypes
<1> QED BY <1>2, <1>3, <1>5, <1>6, StoreFits, SendFits, MinuteFits, LoadFits, CommitFits, DecideFits DEF EscNext

\* api/escalations.py health_score: one open event costs more than rounding gives back.
LEMMA OpenCosts ==
    ASSUME EscTypes
    PROVE  /\ OpenScore \in 0..1000
           /\ \A e \in Events : esc[e].status = "open" => OpenScore <= 980
<1>1. \A p \in 0..2 : OpenCount(p) \in Nat /\ (Open(p) # {} => OpenCount(p) >= 1)
  <2>1. TAKE p \in 0..2
  <2>2. IsFiniteSet(Open(p)) BY EscalationAssumption, FS_Subset DEF Open
  <2>3. Cardinality(Open(p)) \in Nat /\ (Cardinality(Open(p)) = 0 => Open(p) = {}) BY <2>2, FS_CardinalityType, FS_EmptySet
  <2> QED BY <2>3 DEF OpenCount
<1>2. PICK a \in Nat, b \in Nat, c \in Nat : a = OpenCount(0) /\ b = OpenCount(1) /\ c = OpenCount(2) BY <1>1
<1>3. OpenScore = IF 1000 - 250 * a - 100 * b - 20 * c < 0 THEN 0 ELSE 1000 - 250 * a - 100 * b - 20 * c
  BY <1>2 DEF OpenScore
<1>4. ASSUME NEW e \in Events, esc[e].status = "open" PROVE OpenScore <= 980
  <2>1. PICK p \in 0..2 : e \in Open(p)
    <3>1. esc[e] \in EscalationEvent BY <1>4, EventKinds DEF EscTypes
    <3> QED BY <1>4, <3>1, EventKinds DEF Open
  <2>2. a >= 1 \/ b >= 1 \/ c >= 1
    <3>1. OpenCount(p) >= 1 BY <1>1, <2>1
    <3>2. p = 0 \/ p = 1 \/ p = 2 OBVIOUS
    <3> QED BY <1>2, <3>1, <3>2
  <2>3. 250 * a + 100 * b + 20 * c >= 20 BY <2>2
  <2> QED BY <1>3, <2>3
<1>5. OpenScore \in 0..1000
  <2>1. 250 * a + 100 * b + 20 * c \in Nat OBVIOUS
  <2> QED BY <1>3, <2>1
<1> QED BY <1>4, <1>5

LEMMA RoundedFull ==
    ASSUME NEW n \in Nat, NEW d \in {500, 600, 700, 800, 900, 1000}, RoundHalfEven(n, d) = 100
    PROVE  2 * n >= 199 * d
<1>1. PICK q \in Nat, r \in 0..(d - 1) : n = q * d + r /\ q = n \div d /\ r = n % d
  OBVIOUS
<1>2. q = 100 \/ (q + 1 = 100 /\ 2 * r >= d)
  BY <1>1 DEF RoundHalfEven
<1> QED BY <1>1, <1>2

LEMMA FullIsQuiet ==
    ASSUME EscTypes
    PROVE  FullScoreMeansQuiet
<1>1. PICK o \in 0..1000 : o = OpenScore /\ \A e \in Events : esc[e].status = "open" => o <= 980
  BY OpenCosts
<1>2. ASSUME NEW conf \in {NoData, 1000}, NEW depth \in 0..1, NEW rate \in {NoData, 1000}, NEW runs \in {NoData, 1000},
             HealthScore(conf, depth, rate, runs) = 100
      PROVE  depth = 0 /\ \A e \in Events : esc[e].status # "open"
  <2> DEFINE w(x, v) == IF v = NoData THEN 0 ELSE x
             weights == w(30, conf) + 50 + w(10, rate) + w(10, runs)
             points == w(30, conf) * conf + 30 * o + 20 * DepthScore(depth) + w(10, rate) * rate + w(10, runs) * runs
  <2>1. RoundHalfEven(points, 10 * weights) = 100 BY <1>1, <1>2 DEF HealthScore
  <2>2. DepthScore(depth) = 1000 - 50 * depth BY DEF DepthScore
  <2>3. PICK a \in {0, 30}, b \in {0, 10}, c \in {0, 10} :
           /\ w(30, conf) = a /\ w(30, conf) * conf = 1000 * a
           /\ w(10, rate) = b /\ w(10, rate) * rate = 1000 * b
           /\ w(10, runs) = c /\ w(10, runs) * runs = 1000 * c
    BY DEF NoData
  <2>4. /\ weights = a + 50 + b + c
        /\ points = 1000 * a + 30 * o + 20 * (1000 - 50 * depth) + 1000 * b + 1000 * c
    BY <2>2, <2>3
  <2> HIDE DEF weights, points
  <2>5. 10 * weights \in {500, 600, 700, 800, 900, 1000} /\ points \in Nat BY <2>4
  <2>6. 2 * points >= 199 * (10 * weights) BY <2>1, <2>5, RoundedFull
  <2>7. 60 * o + 40 * (1000 - 50 * depth) >= 1990 * 50 - 10 * (a + b + c) BY <2>4, <2>6
  <2>8. o > 980 /\ depth = 0 BY <2>7
  <2> QED BY <1>1, <2>8
<1> QED BY <1>2 DEF FullScoreMeansQuiet

\* escalations/service.py: whoever handled an event is on record or about to be, whatever
\* is sent, stored, lost or handled at the same time, and a full score is a quiet system.
THEOREM EscalationsAreHandled == EscSpec => []EscalationsHold
<1>1. EscInit => EscInv
  <2>1. ASSUME EscInit PROVE EscTypes /\ (\A d \in Dispatchers : Copies(job[d], Raised)) /\ HandlingIsAudited
    <3>1. EscTypes BY <2>1 DEF EscInit, EscTypes, Hands
    <3>2. \A d \in Dispatchers : Copies(job[d], Raised) BY <2>1 DEF EscInit, Copies
    <3>3. HandlingIsAudited BY <2>1 DEF EscInit, HandlingIsAudited, HandlingShown
    <3> QED BY <3>1, <3>2, <3>3
  <2> QED BY <2>1 DEF EscInv
<1>2. EscInv /\ [EscNext]_escVars => EscInv'
  <2>1. ASSUME EscInv, UNCHANGED escVars PROVE EscInv'
    BY <2>1 DEF escVars, EscInv, EscTypes, Raised, HandlingIsAudited, HandlingShown, HandlingExplained
  <2> QED BY <2>1, EscKept
<1>3. EscInv => EscalationsHold
  <2>1. ASSUME EscInv PROVE \A e \in Events : esc[e] = NoEvent \/ esc[e] \in EscalationEvent
    BY <2>1 DEF EscInv, EscTypes
  <2> QED BY <2>1, FullIsQuiet DEF EscalationsHold, EscInv
<1> QED BY <1>1, <1>2, <1>3, PTL DEF EscSpec

-----------------------------------------------------------------------------
(* Reports.  A request that will write "submitted" has the registry's answer, or an operator's *)
(* word; while the lock never lapsed, a running poll is alone and holds it.                    *)

EditorRequest ==
    {NoRequestOf}
    \cup [op : {"patch"}, report : ReportIds, from : ReportStatus, to : ReportStatus]
    \cup [op : {"submit"}, report : ReportIds, draft : Drafts, answer : {"none", "success", "error"}]

RunningJob == [phase : {"running"}, report : ReportIds, tries : Nat, status : ReportStatus, draft : Drafts]
QueuedJob == [phase : {"queued"}, report : ReportIds, tries : Nat]
RunningPoll == [phase : {"running"}, holds : BOOLEAN, reports : SUBSET ReportIds]

RepTypes ==
    /\ report \in [ReportIds -> Report \cup {NoReport, Deleted}]
    /\ editor \in [Editors -> EditorRequest]
    /\ repJob \in [Jobs -> {NoJob} \cup QueuedJob \cup RunningJob]
    /\ poll \in [Polls -> {NoPoll} \cup RunningPoll]
    /\ copies \in [ReportIds -> Nat] /\ pollLock \in BOOLEAN /\ lapsed \in BOOLEAN

AnswersAreHeld == \A e \in Editors :
    editor[e].op = "submit" /\ editor[e].answer = "success" => copies[editor[e].report] > 0

LockFits == ~lapsed => \A p, q \in Polls :
    poll[p].phase = "running" =>
        /\ pollLock /\ poll[p].holds
        /\ poll[q].phase = "running" => p = q

RepInv == RepTypes /\ AnswersAreHeld /\ LockFits /\ SubmittedIsHeld

LEMMA ReportKinds ==
    /\ \A x \in Report : x \notin {NoReport, Deleted} /\ x.status \in ReportStatus /\ x.draft \in Drafts
    /\ NoReport.status = "absent" /\ Deleted.status = "deleted"
    /\ "absent" \notin ReportStatus /\ "deleted" \notin ReportStatus
<1>1. NoReport.status = "absent" /\ Deleted.status = "deleted" /\ "absent" \notin ReportStatus /\ "deleted" \notin ReportStatus
  BY DEF NoReport, Deleted, ReportStatus
<1>2. \A x \in Report : x.status \in ReportStatus /\ x.draft \in Drafts BY DEF Report
<1> QED BY <1>1, <1>2

LEMMA RequestsOf ==
    ASSUME NEW x \in EditorRequest
    PROVE  /\ x.op \in {"none", "patch", "submit"}
           /\ x.op # "none" => x.report \in ReportIds
           /\ x.op = "patch" => x.from \in ReportStatus /\ x.to \in ReportStatus
           /\ x.op = "submit" => x.draft \in Drafts /\ x.answer \in {"none", "success", "error"}
BY DEF EditorRequest, NoRequestOf

\* A status other than "submitted" may be written by anybody.
LEMMA UpdatedFits ==
    ASSUME RepTypes, NEW r \in ReportIds, NEW status \in ReportStatus \cup {Unwritten},
           NEW draft \in Drafts \cup {Unwritten}, report' = Updated(r, status, draft)
    PROVE  /\ report' \in [ReportIds -> Report \cup {NoReport, Deleted}]
           /\ \A q \in ReportIds : report'[q].status = "submitted" =>
                 report[q].status = "submitted" \/ (q = r /\ status = "submitted")
<1>1. report \in [ReportIds -> Report \cup {NoReport, Deleted}] BY DEF RepTypes
<1>2. CASE ~Exists(r) BY <1>1, <1>2 DEF Updated
<1>3. CASE Exists(r)
  <2>1. PICK old \in Report : old = report[r] BY <1>1, <1>3 DEF Exists
  <2> DEFINE st == IF status = Unwritten THEN old.status ELSE status
             dr == IF draft = Unwritten THEN old.draft ELSE draft
             new == [status |-> st, draft |-> dr]
  <2>2. st \in ReportStatus /\ dr \in Drafts BY ReportKinds
  <2>3. st = "submitted" => old.status = "submitted" \/ status = "submitted" OBVIOUS
  <2>4. report' = [report EXCEPT ![r] = new] BY <1>1, <1>3, <2>1 DEF Updated
  <2> HIDE DEF st, dr
  <2>5. new \in Report /\ new.status = st BY <2>2 DEF Report
  <2> HIDE DEF new
  <2>6. \A q \in ReportIds : report'[q] = IF q = r THEN new ELSE report[q] BY <1>1, <2>4
  <2> QED BY <1>1, <2>1, <2>3, <2>4, <2>5, <2>6
<1> QED BY <1>2, <1>3

\* What an operator, a generation or a poll writes to the reports and leaves of the rest.
LEMMA HeldStays ==
    ASSUME RepInv, report' \in [ReportIds -> Report \cup {NoReport, Deleted}],
           \A q \in ReportIds : report'[q].status = "submitted" =>
               report[q].status = "submitted" \/ copies'[q] > 0 \/ q \in patchedIn',
           \A q \in ReportIds : copies'[q] >= copies[q], patchedIn \subseteq patchedIn',
           copies' \in [ReportIds -> Nat]
    PROVE  SubmittedIsHeld'
<1>1. \A q \in ReportIds : copies[q] \in Nat /\ copies'[q] \in Nat BY DEF RepInv, RepTypes
<1> QED BY <1>1 DEF RepInv, SubmittedIsHeld

\* The polls' part does not depend on the reports.
LEMMA PollsStay ==
    ASSUME RepInv, UNCHANGED <<poll, pollLock, lapsed>>
    PROVE  LockFits'
BY DEF RepInv, LockFits

LEMMA AnswersStay ==
    ASSUME RepInv, UNCHANGED <<editor, copies>>
    PROVE  AnswersAreHeld'
BY DEF RepInv, AnswersAreHeld

LEMMA RequestEnds ==
    ASSUME RepInv, NEW e \in Editors, NEW x \in EditorRequest, editor' = [editor EXCEPT ![e] = x],
           x.op = "submit" => x.answer # "success", UNCHANGED copies
    PROVE  editor' \in [Editors -> EditorRequest] /\ AnswersAreHeld'
<1>1. editor \in [Editors -> EditorRequest] /\ AnswersAreHeld BY DEF RepInv, RepTypes
<1>2. \A d \in Editors : editor'[d] = IF d = e THEN x ELSE editor[d] BY <1>1
<1> QED BY <1>1, <1>2 DEF AnswersAreHeld

LEMMA NoRequestIs == NoRequestOf \in EditorRequest /\ NoRequestOf.op = "none"
BY DEF EditorRequest, NoRequestOf

\* A step that writes no report, no registry and no poll.
LEMMA OnlyRequest ==
    ASSUME RepInv, NEW e \in Editors, NEW x \in EditorRequest, editor' = [editor EXCEPT ![e] = x],
           x.op = "submit" => x.answer # "success",
           UNCHANGED <<report, repJob, copies, patchedIn, poll, pollLock, lapsed>>
    PROVE  RepInv'
<1>1. editor' \in [Editors -> EditorRequest] /\ AnswersAreHeld' BY RequestEnds
<1>2. LockFits' BY PollsStay
<1>3. SubmittedIsHeld' BY DEF RepInv, SubmittedIsHeld
<1> QED BY <1>1, <1>2, <1>3 DEF RepInv, RepTypes

\* A step that writes one report and ends one request.
LEMMA WriteFits ==
    ASSUME RepInv, NEW e \in Editors, editor' = [editor EXCEPT ![e] = NoRequestOf],
           NEW r \in ReportIds, NEW status \in ReportStatus \cup {Unwritten},
           NEW draft \in Drafts \cup {Unwritten}, report' = Updated(r, status, draft),
           status = "submitted" => copies[r] > 0 \/ r \in patchedIn', patchedIn \subseteq patchedIn',
           UNCHANGED <<repJob, copies, poll, pollLock, lapsed>>
    PROVE  RepInv'
<1>1. RepTypes BY DEF RepInv
<1>2. /\ report' \in [ReportIds -> Report \cup {NoReport, Deleted}]
      /\ \A q \in ReportIds : report'[q].status = "submitted" =>
            report[q].status = "submitted" \/ (q = r /\ status = "submitted")
  BY <1>1, UpdatedFits
<1>3. \A q \in ReportIds : copies'[q] >= copies[q] BY <1>1 DEF RepTypes
<1>4. copies' \in [ReportIds -> Nat] BY <1>1 DEF RepTypes
<1>5. SubmittedIsHeld' BY <1>2, <1>3, <1>4, HeldStays
<1>6. editor' \in [Editors -> EditorRequest] /\ AnswersAreHeld' BY RequestEnds, NoRequestIs
<1>7. LockFits' BY PollsStay
<1> QED BY <1>1, <1>2, <1>4, <1>5, <1>6, <1>7 DEF RepInv, RepTypes

LEMMA OperatorSteps ==
    ASSUME RepInv, OperatorNext
    PROVE  RepInv'
<1>1. /\ RepTypes /\ AnswersAreHeld /\ SubmittedIsHeld
      /\ report \in [ReportIds -> Report \cup {NoReport, Deleted}] /\ editor \in [Editors -> EditorRequest]
  BY DEF RepInv, RepTypes
<1>2. ASSUME NEW r \in ReportIds, NEW s \in {"draft", "approved", "submitted"}, NEW d \in {"none", "edited"}, CreateReport(r, s, d)
      PROVE  RepInv'
  <2> DEFINE new == [status |-> s, draft |-> d]
  <2>1. new \in Report /\ new.status = s BY DEF Report, ReportStatus, Drafts
  <2>2. /\ report' = [report EXCEPT ![r] = new] /\ patchedIn \subseteq patchedIn' /\ (s = "submitted" => r \in patchedIn')
        /\ UNCHANGED <<editor, repJob, copies, poll, pollLock, lapsed>>
    BY <1>2 DEF CreateReport, jobVars, registryVars, pollVars
  <2> HIDE DEF new
  <2>3. \A q \in ReportIds : report'[q] = IF q = r THEN new ELSE report[q] BY <1>1, <2>2
  <2>4. report' \in [ReportIds -> Report \cup {NoReport, Deleted}] BY <1>1, <2>1, <2>2
  <2>5. SubmittedIsHeld' BY <1>1, <2>1, <2>2, <2>3 DEF SubmittedIsHeld
  <2> QED BY <1>1, <2>2, <2>4, <2>5, PollsStay, AnswersStay DEF RepInv, RepTypes
<1>3. ASSUME NEW r \in ReportIds, DeleteReport(r) PROVE RepInv'
  <2>1. report' = [report EXCEPT ![r] = Deleted] /\ UNCHANGED <<editor, repJob, copies, patchedIn, poll, pollLock, lapsed>>
    BY <1>3 DEF DeleteReport, jobVars, registryVars, pollVars
  <2>2. \A q \in ReportIds : report'[q] = IF q = r THEN Deleted ELSE report[q] BY <1>1, <2>1
  <2>3. SubmittedIsHeld' BY <1>1, <2>1, <2>2, ReportKinds DEF SubmittedIsHeld
  <2>4. report' \in [ReportIds -> Report \cup {NoReport, Deleted}] BY <1>1, <2>1
  <2> QED BY <1>1, <2>1, <2>3, <2>4, PollsStay, AnswersStay DEF RepInv, RepTypes
<1>4. ASSUME NEW r \in ReportIds, NEW v, RegistryDecides(r, v) PROVE RepInv'
  <2>1. UNCHANGED <<report, editor, repJob, copies, patchedIn, poll, pollLock, lapsed>>
    BY <1>4 DEF RegistryDecides, rowVars, jobVars, pollVars
  <2> QED BY <1>1, <2>1, PollsStay, AnswersStay DEF RepInv, RepTypes, SubmittedIsHeld
<1>5. ASSUME CalculationRejected PROVE RepInv'
  <2>1. UNCHANGED <<report, editor, repJob, copies, patchedIn, poll, pollLock, lapsed>>
    BY <1>5 DEF CalculationRejected, rowVars, jobVars, registryVars, pollVars
  <2> QED BY <1>1, <2>1, PollsStay, AnswersStay DEF RepInv, RepTypes, SubmittedIsHeld
<1>6. ASSUME NEW e \in Editors, NEW r \in ReportIds, LoadForSubmission(e, r) PROVE RepInv'
  <2>0. PICK d \in Drafts : d = report[r].draft
    <3>1. report[r] \in Report BY <1>1, <1>6, ReportKinds DEF LoadForSubmission
    <3> QED BY <3>1, ReportKinds
  <2> DEFINE x == [op |-> "submit", report |-> r, draft |-> d, answer |-> "none"]
  <2>1. x \in EditorRequest /\ x.answer # "success" BY DEF EditorRequest
  <2>2. editor' = [editor EXCEPT ![e] = x] /\ UNCHANGED <<report, repJob, copies, patchedIn, poll, pollLock, lapsed>>
    BY <1>6, <2>0 DEF LoadForSubmission, rowVars, jobVars, registryVars, pollVars
  <2> HIDE DEF x
  <2> QED BY <2>1, <2>2, OnlyRequest
<1>7. ASSUME NEW e \in Editors, NEW r \in ReportIds, NEW to \in ReportStatus, LoadForPatch(e, r, to) PROVE RepInv'
  <2>1. PICK from \in ReportStatus : from = report[r].status
    BY <1>1, <1>7, ReportKinds DEF LoadForPatch, Exists
  <2> DEFINE x == [op |-> "patch", report |-> r, from |-> from, to |-> to]
  <2>2. x \in EditorRequest /\ x.op = "patch" BY DEF EditorRequest
  <2>3. editor' = [editor EXCEPT ![e] = x] /\ UNCHANGED <<report, repJob, copies, patchedIn, poll, pollLock, lapsed>>
    BY <1>7, <2>1 DEF LoadForPatch, rowVars, jobVars, registryVars, pollVars
  <2> HIDE DEF x
  <2> QED BY <2>2, <2>3, OnlyRequest
<1>8. ASSUME NEW e \in Editors, NEW dr \in {"none", "edited", Unwritten}, UpdateReport(e, dr) PROVE RepInv'
  <2>1. PICK q \in EditorRequest : q = editor[e] /\ q.op = "patch" BY <1>1, <1>8 DEF UpdateReport
  <2>2. q.report \in ReportIds /\ q.from \in ReportStatus /\ q.to \in ReportStatus BY <2>1, RequestsOf
  <2> DEFINE st == IF q.to # q.from THEN q.to ELSE Unwritten
  <2>3. /\ report' = Updated(q.report, st, dr) /\ editor' = [editor EXCEPT ![e] = NoRequestOf]
        /\ patchedIn' = IF q.to # q.from /\ q.to = "submitted" THEN patchedIn \cup {q.report} ELSE patchedIn
        /\ UNCHANGED <<repJob, copies, poll, pollLock, lapsed>>
    BY <1>8, <2>1 DEF UpdateReport, jobVars, registryVars, pollVars
  <2>4. st \in ReportStatus \cup {Unwritten} /\ dr \in Drafts \cup {Unwritten} BY <2>2 DEF Drafts
  <2>5. patchedIn \subseteq patchedIn' /\ (st = "submitted" => q.report \in patchedIn')
    BY <2>3 DEF Unwritten
  <2> HIDE DEF st
  <2> QED BY <2>2, <2>3, <2>4, <2>5, WriteFits
<1>9. ASSUME NEW e \in Editors, NEW n \in 0..MaxCopies, NEW answer \in {"success", "error"}, PostToRegistry(e, n, answer)
      PROVE  RepInv'
  <2>1. PICK q \in [op : {"submit"}, report : ReportIds, draft : Drafts, answer : {"none", "success", "error"}] : q = editor[e]
    <3>1. editor[e] \in EditorRequest /\ editor[e].op = "submit" BY <1>1, <1>9 DEF PostToRegistry
    <3> QED BY <3>1 DEF EditorRequest, NoRequestOf
  <2> DEFINE x == [q EXCEPT !.answer = answer]
  <2>2. x \in EditorRequest /\ x.report = q.report /\ x.answer = answer BY DEF EditorRequest
  <2>3. /\ editor' = [editor EXCEPT ![e] = x] /\ copies' = [copies EXCEPT ![q.report] = @ + n]
        /\ answer = "success" => n > 0
        /\ UNCHANGED <<report, repJob, patchedIn, poll, pollLock, lapsed>>
    BY <1>9, <2>1 DEF PostToRegistry, rowVars, jobVars, pollVars
  <2> HIDE DEF x
  <2>4. n \in Nat OBVIOUS
  <2>5. \A r \in ReportIds : copies[r] \in Nat /\ copies'[r] = IF r = q.report THEN copies[r] + n ELSE copies[r]
    BY <1>1, <2>3 DEF RepTypes
  <2>6. copies' \in [ReportIds -> Nat] BY <1>1, <2>3, <2>4 DEF RepTypes
  <2>7. \A r \in ReportIds : copies'[r] >= copies[r] BY <2>4, <2>5
  <2>8. SubmittedIsHeld' BY <1>1, <2>3, <2>6, <2>7, HeldStays
  <2>9. \A d \in Editors : editor'[d] = IF d = e THEN x ELSE editor[d] BY <1>1, <2>3
  <2>10. AnswersAreHeld'
    <3>1. ASSUME NEW d \in Editors, editor'[d].op = "submit", editor'[d].answer = "success"
          PROVE  copies'[editor'[d].report] > 0
      <4>1. CASE d = e BY <2>2, <2>3, <2>4, <2>5, <2>9, <3>1, <4>1
      <4>2. CASE d # e
        <5>1. editor'[d] = editor[d] /\ editor[d].report \in ReportIds BY <1>1, <2>9, <3>1, <4>2, RequestsOf
        <5>2. copies[editor[d].report] > 0 BY <1>1, <3>1, <5>1 DEF AnswersAreHeld
        <5> QED BY <2>4, <2>5, <5>1, <5>2
      <4> QED BY <4>1, <4>2
    <3> QED BY <3>1 DEF AnswersAreHeld
  <2>11. editor' \in [Editors -> EditorRequest] BY <1>1, <2>2, <2>3
  <2>12. LockFits' BY <2>3, PollsStay
  <2> QED BY <1>1, <2>3, <2>6, <2>8, <2>10, <2>11, <2>12 DEF RepInv, RepTypes
<1>10. ASSUME NEW e \in Editors, SubmitReportToRegistry(e) PROVE RepInv'
  <2>1. PICK q \in EditorRequest : q = editor[e] /\ q.op = "submit" BY <1>1, <1>10 DEF SubmitReportToRegistry
  <2>2. q.report \in ReportIds BY <2>1, RequestsOf
  <2> DEFINE st == IF q.answer = "success" THEN "submitted" ELSE "draft"
             dr == IF q.answer # "success" /\ q.draft = "none" THEN "error" ELSE Unwritten
  <2>3. /\ report' = Updated(q.report, st, dr) /\ editor' = [editor EXCEPT ![e] = NoRequestOf]
        /\ UNCHANGED <<repJob, copies, patchedIn, poll, pollLock, lapsed>>
    BY <1>10, <2>1 DEF SubmitReportToRegistry, jobVars, registryVars, pollVars
  <2>4. st \in ReportStatus /\ (st = "submitted" => copies[q.report] > 0)
    BY <1>1, <2>1 DEF ReportStatus, AnswersAreHeld
  <2>5. dr \in Drafts \cup {Unwritten} BY DEF Drafts
  <2> HIDE DEF st, dr
  <2> QED BY <2>2, <2>3, <2>4, <2>5, WriteFits
<1> QED BY <1>2, <1>3, <1>4, <1>5, <1>6, <1>7, <1>8, <1>9, <1>10 DEF OperatorNext

LEMMA GenerationSteps ==
    ASSUME RepInv, GenerationNext
    PROVE  RepInv'
<1>1. /\ RepTypes /\ SubmittedIsHeld /\ report \in [ReportIds -> Report \cup {NoReport, Deleted}]
      /\ repJob \in [Jobs -> {NoJob} \cup QueuedJob \cup RunningJob]
  BY DEF RepInv, RepTypes
<1>2. PICK j \in Jobs : \/ \E r \in ReportIds : GenerateReportEndpoint(j, r)
                        \/ RunJob(j) \/ GenerationFails(j) \/ GenerationRedelivered(j)
  BY DEF GenerationNext
<1>3. ASSUME NEW x \in {NoJob} \cup QueuedJob \cup RunningJob, repJob' = [repJob EXCEPT ![j] = x],
             UNCHANGED <<report, editor, copies, patchedIn, poll, pollLock, lapsed>>
      PROVE  RepInv'
  <2>1. repJob' \in [Jobs -> {NoJob} \cup QueuedJob \cup RunningJob] BY <1>1, <1>3
  <2> QED BY <1>1, <1>3, <2>1, PollsStay, AnswersStay DEF RepInv, RepTypes, SubmittedIsHeld
<1>4. ASSUME repJob[j].phase \in {"queued", "running"}
      PROVE  repJob[j] \in QueuedJob \cup RunningJob /\ repJob[j].report \in ReportIds /\ repJob[j].tries \in Nat
  <2>1. repJob[j] \in QueuedJob \cup RunningJob BY <1>1, <1>4 DEF NoJob
  <2> QED BY <2>1 DEF QueuedJob, RunningJob
<1>5. ASSUME repJob[j].phase \in {"queued", "running"} PROVE Retried(j) \in {NoJob} \cup QueuedJob
  <2>1. PICK r \in ReportIds, n \in Nat : r = repJob[j].report /\ n = repJob[j].tries BY <1>4, <1>5
  <2>2. [phase |-> "queued", report |-> r, tries |-> n + 1] \in QueuedJob BY DEF QueuedJob
  <2> QED BY <2>1, <2>2 DEF Retried
<1>6. ASSUME NEW r \in ReportIds, GenerateReportEndpoint(j, r) PROVE RepInv'
  <2> DEFINE x == [phase |-> "queued", report |-> r, tries |-> 0]
  <2>1. x \in QueuedJob BY DEF QueuedJob
  <2>2. repJob' = [repJob EXCEPT ![j] = x] /\ UNCHANGED <<report, editor, copies, patchedIn, poll, pollLock, lapsed>>
    BY <1>6 DEF GenerateReportEndpoint, rowVars, registryVars, pollVars
  <2> HIDE DEF x
  <2> QED BY <1>3, <2>1, <2>2
<1>7. ASSUME StartGeneration(j) PROVE RepInv'
  <2>1. PICK r \in ReportIds, n \in Nat : r = repJob[j].report /\ n = repJob[j].tries BY <1>4, <1>7 DEF StartGeneration
  <2>2. UNCHANGED <<report, editor, copies, patchedIn, poll, pollLock, lapsed>>
    BY <1>7 DEF StartGeneration, rowVars, registryVars, pollVars
  <2>3. CASE Exists(r)
    <3>1. PICK row \in Report : row = report[r] BY <1>1, <2>3 DEF Exists
    <3> DEFINE x == [phase |-> "running", report |-> r, tries |-> n, status |-> row.status, draft |-> row.draft]
    <3>2. x \in RunningJob BY ReportKinds DEF RunningJob
    <3>3. repJob' = [repJob EXCEPT ![j] = x] BY <1>7, <2>1, <2>3, <3>1 DEF StartGeneration
    <3> HIDE DEF x
    <3> QED BY <1>3, <2>2, <3>2, <3>3
  <2>4. CASE ~Exists(r)
    <3>1. repJob' = [repJob EXCEPT ![j] = NoJob] BY <1>7, <2>1, <2>4 DEF StartGeneration
    <3> QED BY <1>3, <2>2, <3>1
  <2> QED BY <2>3, <2>4
<1>8. ASSUME NEW gates \in {"passed", "failed"}, FinishGeneration(j, gates) PROVE RepInv'
  <2>1. PICK q \in RunningJob : q = repJob[j]
    <3>1. repJob[j] \in QueuedJob \cup RunningJob /\ repJob[j].phase = "running" BY <1>4, <1>8 DEF FinishGeneration
    <3> QED BY <3>1 DEF QueuedJob
  <2>2. q.report \in ReportIds BY DEF RunningJob
  <2> DEFINE verdict == IF gates = "passed" THEN "approved" ELSE "human_review"
             st == IF verdict # q.status THEN verdict ELSE Unwritten
             dr == IF q.draft = "none" THEN gates ELSE Unwritten
  <2>3. /\ report' = Updated(q.report, st, dr) /\ repJob' = [repJob EXCEPT ![j] = Retried(j)]
        /\ UNCHANGED <<editor, copies, patchedIn, poll, pollLock, lapsed>>
    BY <1>8, <2>1 DEF FinishGeneration, registryVars, pollVars
  <2>4. st \in ReportStatus \cup {Unwritten} /\ st # "submitted" /\ dr \in Drafts \cup {Unwritten}
    BY DEF ReportStatus, Drafts, Html, Unwritten
  <2> HIDE DEF st, dr
  <2>5. /\ report' \in [ReportIds -> Report \cup {NoReport, Deleted}]
        /\ \A p \in ReportIds : report'[p].status = "submitted" => report[p].status = "submitted"
    BY <1>1, <2>2, <2>3, <2>4, UpdatedFits
  <2>6. SubmittedIsHeld' BY <1>1, <2>3, <2>5 DEF SubmittedIsHeld
  <2>7. repJob' \in [Jobs -> {NoJob} \cup QueuedJob \cup RunningJob]
    <3>1. Retried(j) \in {NoJob} \cup QueuedJob BY <1>5, <1>8 DEF FinishGeneration
    <3> QED BY <1>1, <2>3, <3>1
  <2> QED BY <1>1, <2>3, <2>5, <2>6, <2>7, PollsStay, AnswersStay DEF RepInv, RepTypes
<1>9. ASSUME GenerationFails(j) PROVE RepInv'
  <2>1. /\ repJob[j].phase = "running" /\ repJob' = [repJob EXCEPT ![j] = Retried(j)]
        /\ UNCHANGED <<report, editor, copies, patchedIn, poll, pollLock, lapsed>>
    BY <1>9 DEF GenerationFails, rowVars, registryVars, pollVars
  <2>2. Retried(j) \in {NoJob} \cup QueuedJob BY <1>5, <2>1
  <2> QED BY <1>3, <2>1, <2>2
<1>10. ASSUME GenerationRedelivered(j) PROVE RepInv'
  <2>1. PICK r \in ReportIds, n \in Nat : r = repJob[j].report /\ n = repJob[j].tries BY <1>4, <1>10 DEF GenerationRedelivered
  <2> DEFINE x == [phase |-> "queued", report |-> r, tries |-> n]
  <2>2. x \in QueuedJob BY DEF QueuedJob
  <2>3. repJob' = [repJob EXCEPT ![j] = x] /\ UNCHANGED <<report, editor, copies, patchedIn, poll, pollLock, lapsed>>
    BY <1>10, <2>1 DEF GenerationRedelivered, rowVars, registryVars, pollVars
  <2> HIDE DEF x
  <2> QED BY <1>3, <2>2, <2>3
<1> QED BY <1>2, <1>6, <1>7, <1>8, <1>9, <1>10 DEF RunJob, QualityGates

\* The polls never write a report: what the clients return has no "status_changed".
LEMMA NothingChanged == ASSUME NEW r PROVE ~StatusChanged(ProjectStatus(r))
BY DEF StatusChanged, ProjectStatus

LEMMA PollSteps ==
    ASSUME RepInv, PollNext
    PROVE  RepInv'
<1>1. /\ RepTypes /\ SubmittedIsHeld /\ LockFits /\ poll \in [Polls -> {NoPoll} \cup RunningPoll]
      /\ pollLock \in BOOLEAN /\ lapsed \in BOOLEAN
  BY DEF RepInv, RepTypes
<1>2. NoPoll.phase = "idle" /\ \A x \in RunningPoll : x.phase = "running" /\ x.holds \in BOOLEAN
  BY DEF NoPoll, RunningPoll
<1>3. ASSUME UNCHANGED <<report, editor, repJob, copies, patchedIn>>, pollLock' \in BOOLEAN, lapsed' \in BOOLEAN,
             poll' \in [Polls -> {NoPoll} \cup RunningPoll], LockFits'
      PROVE  RepInv'
  BY <1>1, <1>3, AnswersStay DEF RepInv, RepTypes, SubmittedIsHeld
<1>4. ASSUME NEW p \in Polls, NEW up \in BOOLEAN, StartPoll(p, up) PROVE RepInv'
  <2> DEFINE x == [phase |-> "running", holds |-> up, reports |-> {r \in ReportIds : report[r].status = "submitted"}]
  <2>1. x \in RunningPoll /\ x.holds = up BY DEF RunningPoll
  <2>2. /\ poll' = [poll EXCEPT ![p] = x] /\ (up => ~pollLock) /\ pollLock' = (pollLock \/ up) /\ lapsed' = (lapsed \/ ~up)
        /\ UNCHANGED <<report, editor, repJob, copies, patchedIn>>
    BY <1>4 DEF StartPoll, Acquired, rowVars, jobVars, registryVars
  <2> HIDE DEF x
  <2>3. \A q \in Polls : poll'[q] = IF q = p THEN x ELSE poll[q] BY <1>1, <2>2
  <2>4. LockFits'
    <3>1. ASSUME ~lapsed' PROVE \A q \in Polls : q # p => poll'[q].phase # "running"
      BY <1>1, <2>2, <2>3, <3>1 DEF LockFits
    <3> QED BY <2>1, <2>2, <2>3, <3>1 DEF LockFits
  <2> QED BY <1>1, <1>3, <2>1, <2>2, <2>4
<1>5. ASSUME NEW p \in Polls, NEW r \in ReportIds, PollProject(p, r) \/ PollFails(p, r) PROVE RepInv'
  <2>1. PICK old \in RunningPoll : old = poll[p] BY <1>1, <1>2, <1>5 DEF PollProject, PollFails
  <2> DEFINE left == old.reports \ {r}
             x == [old EXCEPT !.reports = left]
  <2>2. x \in RunningPoll /\ x.holds = old.holds /\ x.phase = "running" BY DEF RunningPoll
  <2>3. /\ poll' = [poll EXCEPT ![p] = x] /\ UNCHANGED <<pollLock, lapsed, report, editor, repJob, copies, patchedIn>>
    BY <1>5, <2>1, NothingChanged DEF PollProject, PollFails, rowVars, jobVars, registryVars
  <2> HIDE DEF x
  <2>4. \A q \in Polls : poll'[q].phase = poll[q].phase /\ poll'[q].holds = poll[q].holds
    BY <1>1, <1>2, <2>1, <2>2, <2>3
  <2>5. LockFits' BY <1>1, <2>3, <2>4 DEF LockFits
  <2> QED BY <1>1, <1>3, <2>2, <2>3, <2>5
<1>6. ASSUME NEW p \in Polls, EndPoll(p) \/ PollDies(p) PROVE RepInv'
  <2>1. /\ poll' = [poll EXCEPT ![p] = NoPoll] /\ poll[p].phase = "running" /\ pollLock' \in BOOLEAN /\ lapsed' = lapsed
        /\ UNCHANGED <<report, editor, repJob, copies, patchedIn>>
    BY <1>1, <1>6 DEF EndPoll, PollDies, rowVars, jobVars, registryVars
  <2>2. \A q \in Polls : poll'[q] = IF q = p THEN NoPoll ELSE poll[q] BY <1>1, <2>1
  <2>3. LockFits'
    <3>1. ASSUME ~lapsed' PROVE \A q \in Polls : poll'[q].phase # "running"
      BY <1>1, <1>2, <2>1, <2>2, <3>1 DEF LockFits
    <3> QED BY <3>1 DEF LockFits
  <2> QED BY <1>1, <1>3, <2>1, <2>3
<1>7. ASSUME PollLockExpires PROVE RepInv'
  <2>1. /\ pollLock' = FALSE /\ poll' = poll /\ UNCHANGED <<report, editor, repJob, copies, patchedIn>>
        /\ lapsed' = (lapsed \/ \E p \in Polls : poll[p].phase = "running" /\ poll[p].holds)
    BY <1>7 DEF PollLockExpires, rowVars, jobVars, registryVars
  <2>2. LockFits' BY <1>1, <2>1 DEF LockFits
  <2>3. lapsed' \in BOOLEAN BY <2>1
  <2> QED BY <1>1, <1>3, <2>1, <2>2, <2>3
<1> QED BY <1>4, <1>5, <1>6, <1>7 DEF PollNext

LEMMA PollsApart == ASSUME RepInv PROVE PollsExclusive
<1> DEFINE running == {p \in Polls : poll[p].phase = "running"}
<1>1. CASE running = {} BY <1>1, FS_EmptySet DEF PollsExclusive
<1>2. CASE running # {}
  <2>1. PICK p \in running : TRUE BY <1>2
  <2>2. ~lapsed => running = {p} BY <2>1 DEF RepInv, LockFits
  <2> HIDE DEF running
  <2>3. ~lapsed => Cardinality(running) = 1 BY <2>2, FS_Singleton
  <2> QED BY <2>3 DEF PollsExclusive, running
<1> QED BY <1>1, <1>2

\* tasks/report_jobs.py, api/reports.py: whatever generations, patches, submissions and
\* polls overlap, a submitted report is held by the registry or was set so by an operator,
\* and two polls run at once only after the lock lapsed.
THEOREM ReportsAreTrue == ReportsSpec => []ReportsHold
<1>1. RepInit => RepInv
  <2>1. ASSUME RepInit PROVE RepTypes /\ AnswersAreHeld /\ LockFits /\ SubmittedIsHeld
    <3>1. RepTypes BY <2>1, NoRequestIs DEF RepInit, RepTypes
    <3>2. AnswersAreHeld BY <2>1, NoRequestIs DEF RepInit, AnswersAreHeld
    <3>3. LockFits BY <2>1 DEF RepInit, LockFits, NoPoll
    <3>4. SubmittedIsHeld BY <2>1, ReportKinds DEF RepInit, SubmittedIsHeld
    <3> QED BY <3>1, <3>2, <3>3, <3>4
  <2> QED BY <2>1 DEF RepInv
<1>2. RepInv /\ [RepNext]_repVars => RepInv'
  <2>1. ASSUME RepInv, UNCHANGED repVars PROVE RepInv'
    BY <2>1 DEF repVars, RepInv, RepTypes, AnswersAreHeld, LockFits, SubmittedIsHeld
  <2> QED BY <2>1, OperatorSteps, GenerationSteps, PollSteps DEF RepNext
<1>3. RepInv => ReportsHold
  <2>1. ASSUME RepInv PROVE \A r \in ReportIds : report[r] \in Report \cup {NoReport, Deleted}
    BY <2>1 DEF RepInv, RepTypes
  <2> QED BY <2>1, PollsApart DEF ReportsHold, RepInv
<1> QED BY <1>1, <1>2, <1>3, PTL DEF ReportsSpec
=============================================================================
