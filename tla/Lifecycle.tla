------------------------------ MODULE Lifecycle ------------------------------
(***************************************************************************)
(* The life of one project: KimiClawOrchestrator.advance_project and       *)
(* process_project (orchestrator/orchestrator.py), the Celery jobs that    *)
(* drive them (tasks/lifecycle_jobs.py) and the operator requests that     *)
(* edit the same row (PATCH /projects, POST .../trigger, .../run).         *)
(*                                                                         *)
(* Every session loads the project once: database.py sets                  *)
(* expire_on_commit=False, so a later SELECT in the same session returns   *)
(* the loaded object with its old attributes, and a write is a plain       *)
(* UPDATE of the row, whatever the row holds by then.  Confidence is in    *)
(* percent; an agent_runs row without a confidence counts as 0.            *)
(***************************************************************************)
EXTENDS Integers, Sequences, FiniteSets

CONSTANTS Sessions,     \* database sessions: Celery workers and API requests
          Scores,       \* confidences the agents may return
          Bars,         \* auto-advance thresholds the learning loop may set
          Learners,     \* agents whose threshold the learning loop moves
          InitStates,   \* statuses the project may start in
          Patches,      \* statuses operators set with PATCH /projects/{id}
          Triggers,     \* triggers operators send
          ManualRuns,   \* agents operators run by hand
          Verdicts,     \* decisions reviewers take on queued items
          MaxSteps,     \* advance_project's max_steps
          MaxRetries,   \* Celery max_retries of advance_project_task
          MaxQueue,     \* bound: advance tasks in the broker
          MaxFaults     \* bound: failed or lost task executions

Pipeline == [onboarding |-> "data_collection", data_collection |-> "calculation",
             calculation |-> "review", review |-> "submitted",
             submitted |-> "verified", verified |-> "monitoring",
             monitoring |-> "data_collection"]

\* STATE_TRANSITIONS: the agents of each state, in dispatch order.
RequiredAgents ==
    [onboarding |-> <<"ingestion", "client_success">>,
     data_collection |-> <<"validation", "ingestion">>,
     calculation |-> <<"calculation", "quality_control">>,
     review |-> <<"reporting">>, submitted |-> <<"vvb_liaison">>,
     verified |-> <<"client_success", "quality_control">>,
     monitoring |-> <<"ingestion", "client_success">>, rejected |-> <<>>]

TriggerStates ==
    [data_complete |-> "data_collection", validation_passed |-> "calculation",
     calculation_complete |-> "review", report_approved |-> "submitted",
     registry_approved |-> "verified", monitoring_period_complete |-> "monitoring"]

States == DOMAIN RequiredAgents
Agents == UNION {{RequiredAgents[st][i] : i \in DOMAIN RequiredAgents[st]} : st \in States}

SteadyStates == {"verified", "monitoring", "rejected"}
DriveStates == States \ {"verified", "monitoring", "rejected"}

ASSUME LifecycleAssumption ==
    /\ InitStates \subseteq States /\ Patches \subseteq States
    /\ Triggers \subseteq DOMAIN TriggerStates \cup {"unknown"}
    /\ ManualRuns \subseteq Agents /\ Learners \subseteq Agents
    /\ Verdicts \subseteq {"approve", "reject", "escalate"}
    /\ Scores \subseteq 0..100
    /\ Bars # {} /\ Bars \subseteq 95..99   \* bounds of get_effective_threshold
    /\ {MaxSteps, MaxRetries, MaxQueue, MaxFaults} \subseteq Nat

VARIABLES status,   \* projects.status
          fresh,    \* created_at is within the scan's seven days
          queue,    \* advance tasks in the broker, by retries already made
          runs,     \* agent_runs: the confidences stored for each agent
          bar,      \* auto-advance threshold of each agent
          items,    \* human review items the agents' results have queued
          pc,       \* where each session is
          call,     \* what each session has loaded and collected
          faults,   \* failed or lost executions so far
          reached,  \* history: statuses the project has had
          cleared,  \* history: states left with every agent at 95 or more
          edited    \* history: statuses written by operators

vars == <<status, fresh, queue, runs, bar, items, pc, call, faults, reached, cleared, edited>>

NoCall == [kind |-> "none", retries |-> 0, seen |-> "onboarding", goal |-> "onboarding",
           todo |-> <<>>, scores |-> <<>>, queued |-> {}, steps |-> 0, visited |-> {}]

Init == /\ status \in InitStates
        /\ fresh = TRUE
        /\ queue = [r \in 0..MaxRetries |-> 0]
        /\ runs = [a \in Agents |-> {}]
        /\ bar \in [Agents -> {CHOOSE b \in Bars : \A c \in Bars : b <= c}]
        /\ items = {}
        /\ pc = [s \in Sessions |-> "idle"]
        /\ call = [s \in Sessions |-> NoCall]
        /\ faults = 0
        /\ reached = {status} /\ cleared = {} /\ edited = {}

history == <<reached, cleared, edited>>

QueueLength == LET Sum[r \in 0..MaxRetries] ==
                       queue[r] + (IF r = 0 THEN 0 ELSE Sum[r - 1])
               IN  Sum[MaxRetries]

Enqueue(r) == queue' = [queue EXCEPT ![r] = @ + 1]

EndCall(s) == /\ pc' = [pc EXCEPT ![s] = "idle"]
              /\ call' = [call EXCEPT ![s] = NoCall]

-----------------------------------------------------------------------------
(* lifecycle_scan *)

InProgress(a) == \E s \in Sessions : pc[s] = "agent" /\ Head(call[s].todo) = a

\* The confidences the scan may read as "most recent": all the runs of one
\* process carry the same created_at (models.py:572), so any may come first.
LatestRuns(a) == runs[a] \cup (IF InProgress(a) THEN {0} ELSE {})

AgentsOf(st) == {RequiredAgents[st][i] : i \in DOMAIN RequiredAgents[st]}

NeverRan == \E a \in AgentsOf(status) : LatestRuns(a) = {}
AllHigh  == \A a \in AgentsOf(status) : \E c \in LatestRuns(a) : c >= 95

Scan == /\ QueueLength < MaxQueue
        /\ status \in DriveStates /\ fresh
        /\ NeverRan \/ AllHigh
        /\ Enqueue(0)
        /\ UNCHANGED <<status, fresh, runs, bar, items, pc, call, faults, history>>

\* The scan can only conclude that the project is ready.
ScanSurely == /\ NeverRan \/ \A a \in AgentsOf(status) : \A c \in LatestRuns(a) : c >= 95
              /\ Scan

-----------------------------------------------------------------------------
(* advance_project_task and advance_project *)

\* A worker takes a message and loads the project.
Take(s, r) ==
    /\ pc[s] = "idle" /\ queue[r] > 0
    /\ queue' = [queue EXCEPT ![r] = @ - 1]
    /\ pc' = [pc EXCEPT ![s] = "enter"]
    /\ call' = [call EXCEPT ![s] = [NoCall EXCEPT !.kind = "advance", !.retries = r,
                                                  !.seen = status, !.steps = MaxSteps]]
    /\ UNCHANGED <<status, fresh, runs, bar, items, faults, history>>

\* steady_state, loop_guard, max_steps.
MayAdvance(c) == c.seen \notin SteadyStates /\ c.seen \notin c.visited /\ c.steps > 0

Enter(s) ==
    /\ pc[s] = "enter" /\ MayAdvance(call[s])
    /\ pc' = [pc EXCEPT ![s] = "dispatch"]
    /\ call' = [call EXCEPT ![s].goal = Pipeline[call[s].seen],
                            ![s].todo = RequiredAgents[call[s].seen],
                            ![s].scores = <<>>,
                            ![s].queued = {},
                            ![s].visited = @ \cup {call[s].seen}]
    /\ UNCHANGED <<status, fresh, queue, runs, bar, items, faults, history>>

Stop(s) ==
    /\ pc[s] = "enter" /\ ~MayAdvance(call[s])
    /\ EndCall(s)
    /\ UNCHANGED <<status, fresh, queue, runs, bar, items, faults, history>>

\* dispatch_agent: the agent_runs row is committed before the agent runs ...
StartAgent(s) ==
    /\ pc[s] = "dispatch" /\ call[s].todo # <<>>
    /\ pc' = [pc EXCEPT ![s] = "agent"]
    /\ UNCHANGED <<status, fresh, queue, runs, bar, items, call, faults, history>>

\* ... its confidence when the agent returns (0 when the agent raised) ...
AgentReturns(s, c) ==
    /\ pc[s] = "agent"
    /\ runs' = [runs EXCEPT ![Head(call[s].todo)] = @ \cup {c}]
    /\ call' = [call EXCEPT ![s].scores = Append(@, c)]
    /\ pc' = [pc EXCEPT ![s] = "route"]
    /\ UNCHANGED <<status, fresh, queue, bar, items, faults, history>>

BelowBar(c, a) == c < bar[a]

\* ... and _handle_confidence_result reads the threshold after that.
Route(s) ==
    LET a == Head(call[s].todo)
        low == BelowBar(call[s].scores[Len(call[s].scores)], a)
    IN  /\ pc[s] = "route"
        /\ items' = IF low THEN items \cup {[agent |-> a, verdict |-> "pending"]} ELSE items
        /\ call' = [call EXCEPT ![s].todo = Tail(@),
                                ![s].queued = IF low THEN @ \cup {a} ELSE @]
        /\ pc' = [pc EXCEPT ![s] = "dispatch"]
        /\ UNCHANGED <<status, fresh, queue, runs, bar, faults, history>>

\* Slip: an agent that did not fail has cleared.
NoneFailed(s) == \A i \in DOMAIN call[s].scores : call[s].scores[i] > 0

\* All results clear the thresholds, which are looked up again.
AllClear(s) == LET c == call[s] IN
    \A i \in DOMAIN c.scores : c.scores[i] >= bar[RequiredAgents[c.seen][i]]

Transition(s) ==
    LET c == call[s] IN
    /\ pc[s] = "dispatch" /\ c.kind = "advance" /\ c.todo = <<>>
    /\ AllClear(s)
    /\ status' = c.goal
    /\ call' = [call EXCEPT ![s].seen = c.goal, ![s].steps = @ - 1]
    /\ pc' = [pc EXCEPT ![s] = "enter"]
    /\ reached' = reached \cup {c.goal}
    /\ cleared' = IF \A i \in DOMAIN c.scores : c.scores[i] >= 95
                  THEN cleared \cup {c.seen} ELSE cleared
    /\ UNCHANGED <<fresh, queue, runs, bar, items, faults, edited>>

\* insufficient_confidence; also the end of process_project and of a manual run.
Finish(s) ==
    /\ pc[s] = "dispatch" /\ call[s].todo = <<>>
    /\ call[s].kind = "advance" => ~AllClear(s)
    /\ EndCall(s)
    /\ UNCHANGED <<status, fresh, queue, runs, bar, items, faults, history>>

\* What an interrupted execution leaves in agent_runs: a row with no confidence.
Abandon(s) == runs' = IF pc[s] = "agent"
                      THEN [runs EXCEPT ![Head(call[s].todo)] = @ \cup {0}] ELSE runs

\* The task raises: retried with a countdown, dropped after max_retries.
TaskFails(s) ==
    /\ faults < MaxFaults /\ call[s].kind = "advance"
    /\ IF call[s].retries < MaxRetries
       THEN QueueLength < MaxQueue /\ Enqueue(call[s].retries + 1)
       ELSE UNCHANGED queue
    /\ Abandon(s) /\ EndCall(s)
    /\ faults' = faults + 1
    /\ UNCHANGED <<status, fresh, bar, items, history>>

\* Slip: the message is acknowledged before the task runs.
WorkerLostAfterAck(s) ==
    /\ faults < MaxFaults /\ call[s].kind = "advance"
    /\ Abandon(s) /\ EndCall(s)
    /\ faults' = faults + 1
    /\ UNCHANGED <<status, fresh, queue, bar, items, history>>

\* The worker process dies: acks_late and reject_on_worker_lost redeliver.
WorkerLost(s) ==
    /\ faults < MaxFaults /\ call[s].kind = "advance"
    /\ QueueLength < MaxQueue /\ Enqueue(call[s].retries)
    /\ Abandon(s) /\ EndCall(s)
    /\ faults' = faults + 1
    /\ UNCHANGED <<status, fresh, bar, items, history>>

-----------------------------------------------------------------------------
(* Operators *)

StartEdit(s, kind, goal) ==
    /\ pc[s] = "idle"
    /\ pc' = [pc EXCEPT ![s] = "write"]
    /\ call' = [call EXCEPT ![s] = [NoCall EXCEPT !.kind = kind, !.seen = status,
                                                  !.goal = goal]]
    /\ UNCHANGED <<status, fresh, queue, runs, bar, items, faults, history>>

\* validate_status_transition with VALID_PROJECT_TRANSITIONS.
ValidPatch(from, to) == \/ to \in {from, "rejected"}
                        \/ from \notin {"monitoring", "rejected"} /\ Pipeline[from] = to

Patch(s, to) == ValidPatch(status, to) /\ StartEdit(s, "patch", to)

\* process_project takes the target from the trigger alone.
Trigger(s, t) == StartEdit(s, "trigger", IF t \in DOMAIN TriggerStates
                                         THEN TriggerStates[t] ELSE status)

\* The ORM writes the column only when the attribute changed.
WriteEdit(s) ==
    LET c == call[s] IN
    /\ pc[s] = "write"
    /\ status' = IF c.goal = c.seen THEN status ELSE c.goal
    /\ reached' = reached \cup {status'}
    /\ edited' = edited \cup {status'}
    /\ IF c.kind = "patch"
       THEN EndCall(s)
       ELSE /\ pc' = [pc EXCEPT ![s] = "dispatch"]
            /\ call' = [call EXCEPT ![s].todo = RequiredAgents[c.goal]]
    /\ UNCHANGED <<fresh, queue, runs, bar, items, faults, cleared>>

\* POST /projects/{id}/agents/{agent_type}/run
RunAgent(s, a) ==
    /\ pc[s] = "idle"
    /\ pc' = [pc EXCEPT ![s] = "dispatch"]
    /\ call' = [call EXCEPT ![s] = [NoCall EXCEPT !.kind = "manual", !.todo = <<a>>]]
    /\ UNCHANGED <<status, fresh, queue, runs, bar, items, faults, history>>

\* resolve_human_review and sla_auto_approve: the item is closed and a message
\* is published; no task is enqueued.
Resolve(i, verdict) ==
    /\ i \in items /\ i.verdict = "pending"
    /\ items' = (items \ {i}) \cup {[i EXCEPT !.verdict = verdict]}
    /\ UNCHANGED <<status, fresh, queue, runs, bar, pc, call, faults, history>>

\* What the learning loop makes of the resolutions (learning/service.py).
MoveBar(a, b) ==
    /\ bar[a] # b
    /\ bar' = [bar EXCEPT ![a] = b]
    /\ UNCHANGED <<status, fresh, queue, runs, items, pc, call, faults, history>>

AgeOut == /\ fresh
          /\ fresh' = FALSE
          /\ UNCHANGED <<status, queue, runs, bar, items, pc, call, faults, history>>

-----------------------------------------------------------------------------

Step(s) == \/ \E r \in 0..MaxRetries : Take(s, r)
           \/ Enter(s) \/ Stop(s) \/ StartAgent(s)
           \/ \E c \in Scores : AgentReturns(s, c)
           \/ Route(s) \/ Transition(s) \/ Finish(s) \/ WriteEdit(s)

Next == \/ Scan \/ AgeOut
        \/ \E s \in Sessions :
              \/ Step(s) \/ TaskFails(s) \/ WorkerLost(s)
              \/ \E to \in Patches : Patch(s, to)
              \/ \E t \in Triggers : Trigger(s, t)
              \/ \E a \in ManualRuns : RunAgent(s, a)
        \/ \E i \in items, v \in Verdicts : Resolve(i, v)
        \/ \E a \in Learners, b \in Bars : MoveBar(a, b)

Spec == Init /\ [][Next]_vars

\* Beat runs the scan for ever; a worker takes what is queued and its task runs
\* on.  Nothing forces people to act, workers to fail or the project to age.
Fairness == WF_vars(ScanSurely) /\ \A s \in Sessions : WF_vars(Step(s))

FairSpec == Spec /\ Fairness

-----------------------------------------------------------------------------
(* Properties *)

\* advance_project: however many tasks run at once on stale copies, and
\* whatever fails, a status that no operator wrote was earned: the project was
\* before in the state that precedes it, and one task saw every agent of that
\* state return at least 95 percent.
ReachedIsEarned ==
    \A st \in reached \ (InitStates \cup edited) :
        \E prior \in reached \cap cleared : Pipeline[prior] = st

\* dispatch_agent and advance_project agree, when thresholds do not move: a
\* task about to decide has queued a review item for exactly the agents whose
\* result keeps the project from advancing.
RoutingMatchesDecision ==
    \A s \in Sessions :
        LET c == call[s] IN
        pc[s] = "dispatch" /\ c.kind = "advance" =>
            c.queued = {RequiredAgents[c.seen][i] :
                          i \in {j \in DOMAIN c.scores :
                                    c.scores[j] < bar[RequiredAgents[c.seen][j]]}}

\* advance_project and dispatch_agent: what has been reached was earned, and what
\* was not earned waits for a person.
AdvancesAreEarned == ReachedIsEarned /\ RoutingMatchesDecision

\* lifecycle_scan and advance_project: a project inside the scan window whose
\* agents always clear the bar reaches a steady state untouched, although
\* workers die and tasks raise (no more often than Celery retries).
ReachesSteady == []fresh => <>(status \in SteadyStates)

\* docs/AUTONOMOUS_PLATFORM.md:37: approving an item fires the next lifecycle
\* step of the project.
ApprovalAdvances ==
    []fresh => \A st \in DriveStates :
        (status = st /\ \E i \in items : i.agent \in AgentsOf(st) /\ i.verdict = "approve")
            ~> status # st

=============================================================================
