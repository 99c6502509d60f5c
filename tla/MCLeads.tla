------------------------------ MODULE MCLeads ------------------------------
\* One behaviour follows the lead through its tasks, or the scores its row is given.
EXTENDS LeadPipeline

VARIABLE focus

\* A person holds back a lead of a high score.
MCRatings == {[score |-> 9000, priority |-> "low"]}

MCVars == <<leadVars, focus>>

MCInit == /\ LeadInit
          /\ focus \in {"leads", "scores"}
          /\ focus = "scores" => offered = {}

MCNext == /\ \/ focus = "leads" /\ PipelineNext
             \/ focus = "scores" /\ ScoringNext
          /\ UNCHANGED focus

MCFairness ==
    /\ \A w \in LeadWorkers : WF_leadVars(focus = "leads" /\ WorkStep(w))
    /\ WF_leadVars(focus = "leads" /\ FetchAllPendingDocuments)
    /\ WF_leadVars(focus = "leads" /\ CooldownPasses)
    /\ WF_leadVars(focus = "leads" /\ RunPreAuditPipeline)

MCSpec == MCInit /\ [][MCNext]_MCVars /\ MCFairness
=============================================================================
