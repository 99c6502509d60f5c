----------------------------- MODULE MCServices -----------------------------
\* The services around the pipeline.  They share no row here: one behaviour follows
\* one of them.
EXTENDS Accounts, Sessions, Portal, Journeys, MerkleTree,
        Learning, Knowledge, Registers, Matching, Agents, Calculations

VARIABLE focus

MCJourneyOrder == <<"synthetic_developer_journey">>

\* What a pair may have in common: viable by one point, by none, and not.
MCFits == {{"methodology", "price"}, {"timeline", "location"}, {"methodology", "timeline"},
           {"price", "timeline", "location"}}

MCInit == /\ AccountsInit /\ AuthInit /\ PortalInit /\ JourneysInit /\ MerkleInit /\ SyncInit
          /\ LearningInit /\ KnowledgeInit /\ RegistersInit /\ MatchingInit /\ AgentsInit
          /\ CalculationsInit
          /\ focus \in {"accounts", "sessions", "portal", "journeys", "proofs", "sync", "learning",
                        "knowledge", "consents", "conflicts", "tickets", "matching", "intake",
                        "figures", "filing", "calculations"}
          /\ focus # "accounts" => \A u \in Rows : users[u] = NoUser
          /\ focus # "sync" => offline = [n \in {1} |-> CHOOSE h \in Captured : TRUE]
          /\ focus # "matching" => /\ active = {} /\ willing = {}
                                   /\ \A p \in Pairs : fits[p] = CHOOSE f \in Fits : TRUE
          /\ focus # "calculations" => validSource

\* What an operator records: sound, short of compliance, beyond it, and odd figures.
MCFigures == {[compliance |-> 100, odd |-> o] : o \in {"no", "doubtful", "negative_leakage"}}
             \cup {[compliance |-> c, odd |-> "no"] : c \in {50, 200}}

\* A behaviour of the agents has files and sources, sources and figures, or figures and reports.
AgentsPart ==
    \/ focus = "intake" /\ calcs' = <<>>
    \/ focus = "figures" /\ upload' = "none" /\ reports' = <<>>
    \/ focus = "filing" /\ upload' = "none" /\ SourceCount' = 0
                         /\ \/ Len(calcs') < 2
                            \/ /\ Len(reports') < 2
                               /\ \A i \in DOMAIN reports' : reports'[i].status = "draft"

\* Every other service stays as it is.
Only(f) ==
    /\ IF f = "accounts" THEN TRUE ELSE UNCHANGED accountVars
    /\ IF f = "sessions" THEN TRUE ELSE UNCHANGED authVars
    /\ IF f = "portal" THEN TRUE ELSE UNCHANGED portalVars
    /\ IF f = "journeys" THEN TRUE ELSE UNCHANGED journeyVars
    /\ IF f = "proofs" THEN TRUE ELSE UNCHANGED merkleVars
    /\ IF f = "sync" THEN TRUE ELSE UNCHANGED syncVars
    /\ IF f = "learning" THEN TRUE ELSE UNCHANGED learningVars
    /\ IF f = "knowledge" THEN TRUE ELSE UNCHANGED knowledgeVars
    /\ IF f = "registers" THEN TRUE ELSE UNCHANGED registerVars
    /\ IF f = "matching" THEN TRUE ELSE UNCHANGED matchingVars
    /\ IF f = "agents" THEN TRUE ELSE UNCHANGED agentsVars
    /\ IF f = "calculations" THEN TRUE ELSE UNCHANGED calculationsVars

MCNext == /\ \/ focus = "accounts" /\ AccountsNext /\ Only("accounts")
             \/ focus = "sessions" /\ AuthNext /\ Only("sessions")
             \/ focus = "portal" /\ PortalNext /\ Only("portal")
             \/ focus = "journeys" /\ JourneysNext /\ Only("journeys")
             \/ focus = "proofs" /\ MerkleNext /\ Only("proofs")
             \/ focus = "sync" /\ SyncNext /\ Only("sync")
             \/ focus = "learning" /\ LearningNext /\ Only("learning")
             \/ focus = "knowledge" /\ KnowledgeNext /\ Only("knowledge")
             \/ focus = "consents" /\ ConsentsNext /\ Only("registers")
             \/ focus = "conflicts" /\ (ConflictsNext \/ VersionsNext) /\ Only("registers")
             \/ focus = "tickets" /\ TicketsNext /\ Only("registers")
             \/ focus = "matching" /\ MatchingNext /\ Only("matching")
             \/ focus \in {"intake", "figures", "filing"} /\ AgentsNext /\ AgentsPart /\ Only("agents")
             \/ focus = "calculations" /\ CalculationsNext /\ Only("calculations")
          /\ UNCHANGED focus

MCVars == <<accountVars, authVars, portalVars, journeyVars, merkleVars, syncVars, learningVars,
            knowledgeVars, registerVars, matchingVars, agentsVars, calculationsVars, focus>>

MCSpec == MCInit /\ [][MCNext]_MCVars
=============================================================================
