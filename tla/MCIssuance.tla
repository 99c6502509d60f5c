----------------------------- MODULE MCIssuance -----------------------------
\* Tokens and reports share no row: one behaviour follows the tokens, the
\* generation of reports or the registry polls.
EXTENDS TokenLedger, Reports

VARIABLE focus

MCInit == /\ TokenInit /\ RepInit
          /\ focus \in {"tokens", "generation", "polls"}
          /\ focus = "tokens" => calcApproved
          /\ focus # "tokens" => calculations

MCNext == /\ \/ focus = "tokens" /\ TokenNext /\ UNCHANGED repVars
             \/ focus # "tokens" /\ OperatorNext /\ UNCHANGED tokenVars
             \/ focus = "generation" /\ GenerationNext /\ UNCHANGED tokenVars
             \/ focus = "polls" /\ PollNext /\ UNCHANGED tokenVars
          /\ UNCHANGED focus

MCSpec == /\ MCInit /\ [][MCNext]_<<tokenVars, repVars, focus>>
          /\ GenerationFairness
=============================================================================
