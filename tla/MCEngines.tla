------------------------------ MODULE MCEngines ------------------------------
\* The two engines that move a project: the orchestrator, with one session that drives a
\* project to its end, and the execution of one workflow.  They share no row: one behaviour
\* follows one of them.
EXTENDS Lifecycle, StepExecution

VARIABLE focus

\* A step that is neither disabled, nor skippable, nor misconfigured.
Node(type, onSuccess, onFailure) ==
    [type |-> type, onSuccess |-> onSuccess, onFailure |-> onFailure, enabled |-> TRUE,
     skippable |-> FALSE, maxRetries |-> 3, proof |-> TRUE, misfit |-> FALSE]

MCChain == <<Node("http_request", <<2>>, <<>>), [Node("wait", <<3>>, <<>>) EXCEPT !.enabled = FALSE],
             Node("service_call", <<4>>, <<4>>), Node("database_query", <<>>, <<>>)>>
MCGates == <<Node("decision_gate", <<2>>, <<>>), Node("notification", <<EndStep>>, <<>>)>>

\* Besides: a failure path that leads back, one that ends the workflow over a step that
\* may be skipped or not, a cycle, a step that fails for its configuration, no step at all.
MCGraphs ==
    {MCChain, MCGates,
     <<Node("service_call", <<2>>, <<>>), [Node("dom_capture", <<EndStep>>, <<1>>) EXCEPT !.proof = FALSE]>>,
     <<[Node("service_call", <<2>>, <<EndStep>>) EXCEPT !.skippable = TRUE, !.maxRetries = 1],
       Node("ai_evaluation", <<>>, <<EndStep>>)>>,
     <<Node("wait", <<2>>, <<>>), Node("wait", <<1>>, <<>>)>>,
     <<[Node("notification", <<>>, <<FailStep>>) EXCEPT !.misfit = TRUE]>>,
     <<[Node("wait", <<>>, <<>>) EXCEPT !.enabled = FALSE]>>}

\* The conditions matter to the graph with a gate.
MCInit == /\ Init /\ StepInit /\ (graph # MCGates => condition = <<"true">>)
          /\ focus \in {"lifecycle", "workflow"}
          /\ focus = "workflow" => status = CHOOSE s \in InitStates : TRUE
          /\ focus = "lifecycle" => graph = MCChain

MCNext == /\ \/ focus = "lifecycle" /\ Next /\ UNCHANGED stepVars
             \/ focus = "workflow" /\ StepNext /\ UNCHANGED vars
          /\ UNCHANGED focus

\* What is fair about the lifecycle is asked of the behaviours that follow it.
MCSpec == MCInit /\ [][MCNext]_<<vars, stepVars, focus>> /\ Fairness
=============================================================================
