---------------------------- MODULE Remediation ----------------------------
(***************************************************************************)
(* The remediation engine (remediation/engine.py) with its strategies      *)
(* (remediation/rules.py).  Rounds for one target are started by the       *)
(* project orchestrator after an agent run, by the recovery journey, by    *)
(* the sweep of lifecycle_jobs.py and by an operator; they share the       *)
(* attempt table and nothing locks a target.                               *)
(***************************************************************************)
EXTENDS Integers, Sequences, FiniteSets, SequencesExt

CONSTANTS Targets,
          RuleStrategies,    \* strategies a rule may have
          Rounds,            \* processes that run rounds
          DEFAULT_MAX_ATTEMPTS,
          REMEDIATION_SWEEP_BATCH,   \* failed rows that one sweep reads
          MaxRounds,         \* bound: rounds started for one target
          MaxLost            \* bound: processes that die

Retrying == {"backoff_retry", "jitter_retry"}
Computed == {"auto_correct", "conservative_fallback", "interpolate_or_exclude"}
STRATEGIES == Retrying \cup Computed \cup {"kb_draft_response"}

ASSUME RemediationAssumption ==
    /\ RuleStrategies \subseteq STRATEGIES
    /\ {DEFAULT_MAX_ATTEMPTS, REMEDIATION_SWEEP_BATCH} \subseteq Nat \ {0} /\ MaxRounds \in Nat /\ MaxLost \in Nat

VARIABLES rules,        \* targets whose category has an enabled rule row
          Strategy,     \* strategy of that rule
          attempts,     \* rows of each target, in commit order; at: in that of all targets
          fixable,      \* whether the failing state holds what a computed strategy needs
          round,        \* what each process is doing
          items,        \* review items of each target: [escalated, linked, flagged]
          started, lost

remVars == <<rules, Strategy, attempts, fixable, round, items, started, lost>>

NoRound == [at |-> "idle"]

RemInit == /\ rules = {} /\ attempts = [t \in Targets |-> <<>>]
           /\ fixable \in [Targets -> BOOLEAN]
           /\ Strategy \in [Targets -> RuleStrategies]
           /\ round = [r \in Rounds |-> NoRound]
           /\ items = [t \in Targets |-> [escalated |-> 0, linked |-> 0, flagged |-> 0]]
           /\ started = [t \in Targets |-> 0] /\ lost = 0

\* Rules already there are left alone.
SeedDefaultRules == /\ rules' = Targets
                    /\ UNCHANGED <<Strategy, attempts, fixable, round, items, started, lost>>

-----------------------------------------------------------------------------
(* Strategies: what one attempt may find *)

\* _retry_success: only the journey injects an attempt_fn; without one, and
\* without a signal in the failing state, there is nothing to go by.
RetrySuccess(attempt_fn) == IF attempt_fn THEN {"resolved", "failed"} ELSE {"escalated"}

\* While the breaker of the service is open (it may be, at any attempt): a
\* deferral, "escalated" and queued for retry.
BackoffRetry(attempt_fn) == {"escalated"} \cup RetrySuccess(attempt_fn)
JitterRetry(attempt_fn) == RetrySuccess(attempt_fn)

\* A pure function of the failing state: some failing field has a default.
AutoCorrect(t) == IF fixable[t] THEN {"resolved"} ELSE {"failed"}

\* There is a lower bound to fall back to.
ConservativeFallback(t) == IF fixable[t] THEN {"resolved"} ELSE {"failed"}

\* A draft from the knowledge base or from Kimi, or none.
KbDraftResponse == {"resolved", "failed"}

\* Exclusion is a success too: only a series without gaps fails.
InterpolateOrExclude(t) == IF fixable[t] THEN {"resolved"} ELSE {"failed"}

Verdicts(t, attempt_fn) ==
    CASE Strategy[t] = "backoff_retry" -> BackoffRetry(attempt_fn)
      [] Strategy[t] = "jitter_retry" -> JitterRetry(attempt_fn)
      [] Strategy[t] = "auto_correct" -> AutoCorrect(t)
      [] Strategy[t] = "conservative_fallback" -> ConservativeFallback(t)
      [] Strategy[t] = "interpolate_or_exclude" -> InterpolateOrExclude(t)
      [] Strategy[t] = "kb_draft_response" -> KbDraftResponse

-----------------------------------------------------------------------------
(* A round: read the number, try, log; escalate when the budget is spent *)

Opened(attempt_fn, t, rest) ==
    [at |-> "try", attempt_fn |-> attempt_fn, target |-> t, left |-> DEFAULT_MAX_ATTEMPTS, rest |-> rest]

\* The journey, with an attempt_fn; the orchestrator or the API, without.  Without a rule
\* nothing is written.
Remediate(r, attempt_fn, t) ==
    /\ round[r] = NoRound /\ t \in rules /\ started[t] < MaxRounds
    /\ round' = [round EXCEPT ![r] = Opened(attempt_fn, t, {})]
    /\ started' = [started EXCEPT ![t] = @ + 1]
    /\ UNCHANGED <<Strategy, rules, attempts, fixable, items, lost>>

\* retry_attempt: any row of the target, whatever its status, can be re-run.
RetryAttempt(r, t) == attempts[t] # <<>> /\ Remediate(r, FALSE, t)

RowsWith(status) == {<<t, i>> \in Targets \X (1..Max({Len(attempts[t]) : t \in Targets})) :
                        i \in DOMAIN attempts[t] /\ attempts[t][i].status = status}
RowAt(p) == attempts[p[1]][p[2]]
Newer(rows, p) == {q \in rows : RowAt(q).at > RowAt(p).at}

\* Slip: the sweep looks for the deferred rows.
StaleDeferred == {p \in RowsWith("escalated") : RowAt(p).stale}

StaleFailed == {p \in RowsWith("failed") : RowAt(p).stale}

\* remediation_sweep: the newest rows that failed more than an hour ago, whatever came
\* after them, each of their targets once.
RemediationSweep(r) ==
    /\ round[r] = NoRound
    /\ LET rows == {p \in StaleFailed : Cardinality(Newer(StaleFailed, p)) < REMEDIATION_SWEEP_BATCH}
           due == {t \in {p[1] : p \in rows} \cap rules : started[t] < MaxRounds} IN
       /\ due # {}
       /\ \E t \in due : round' = [round EXCEPT ![r] = Opened(FALSE, t, due \ {t})]
       /\ started' = [t \in Targets |-> IF t \in due THEN started[t] + 1 ELSE started[t]]
    /\ UNCHANGED <<Strategy, rules, attempts, fixable, items, lost>>

NextAttemptNumber(t) ==
    IF attempts[t] = <<>> THEN 1
    ELSE Max({attempts[t][i].n : i \in DOMAIN attempts[t]}) + 1

\* The number is read before the strategy is awaited.
Attempt(r) ==
    /\ round[r].at = "try"
    /\ \E v \in Verdicts(round[r].target, round[r].attempt_fn) :
          round' = [round EXCEPT ![r] = [@ EXCEPT !.at = "log"]
                                        @@ [n |-> NextAttemptNumber(round[r].target), verdict |-> v]]
    /\ UNCHANGED <<Strategy, rules, attempts, fixable, items, started, lost>>

\* The process is done with its target: the sweep goes on to the next.
Closed(q) == IF q.rest = {} THEN {NoRound} ELSE {Opened(q.attempt_fn, t, q.rest \ {t}) : t \in q.rest}

Again(q) == [at |-> "try", attempt_fn |-> q.attempt_fn, target |-> q.target, left |-> q.left - 1, rest |-> q.rest]

AfterLog(q) ==
    IF q.verdict \in {"resolved", "escalated"} THEN Closed(q)
    ELSE IF q.left > 1 THEN {Again(q)}
    ELSE {[q EXCEPT !.at = "escalate"]}

RowsLogged == FoldFunction(LAMBDA rows, k : Len(rows) + k, 0, attempts)

LogAttempt(r) ==
    /\ round[r].at = "log"
    /\ LET q == round[r] IN
       /\ attempts' = [attempts EXCEPT ![q.target] =
                         Append(@, [n |-> q.n, status |-> q.verdict, stale |-> FALSE, at |-> RowsLogged + 1])]
       /\ items' = IF Strategy[q.target] = "conservative_fallback" /\ q.verdict = "resolved"
                   THEN [items EXCEPT ![q.target].flagged = @ + 1] ELSE items
       /\ \E next \in AfterLog(q) : round' = [round EXCEPT ![r] = next]
    /\ UNCHANGED <<Strategy, rules, fixable, started, lost>>

\* The review item is committed with its decision (record_decision commits)...
Escalate(r) ==
    /\ round[r].at = "escalate"
    /\ items' = [items EXCEPT ![round[r].target].escalated = @ + 1]
    /\ round' = [round EXCEPT ![r].at = "link"]
    /\ UNCHANGED <<Strategy, rules, attempts, fixable, started, lost>>

\* ... and learns the decision's id in a commit of its own.
LinkDecision(r) ==
    /\ round[r].at = "link"
    /\ items' = [items EXCEPT ![round[r].target].linked = @ + 1]
    /\ \E next \in Closed(round[r]) : round' = [round EXCEPT ![r] = next]
    /\ UNCHANGED <<Strategy, rules, attempts, fixable, started, lost>>

RoundDies(r) ==
    /\ round[r] # NoRound /\ lost < MaxLost
    /\ round' = [round EXCEPT ![r] = NoRound] /\ lost' = lost + 1
    /\ UNCHANGED <<Strategy, rules, attempts, fixable, items, started>>

HourPasses ==
    /\ \E t \in Targets : \E i \in DOMAIN attempts[t] : ~attempts[t][i].stale
    /\ attempts' = [t \in Targets |-> [i \in DOMAIN attempts[t] |-> [attempts[t][i] EXCEPT !.stale = TRUE]]]
    /\ UNCHANGED <<Strategy, rules, fixable, round, items, started, lost>>

-----------------------------------------------------------------------------
RemNext ==
    \/ SeedDefaultRules
    \/ \E r \in Rounds, t \in Targets :
          Remediate(r, FALSE, t) \/ Remediate(r, TRUE, t) \/ RetryAttempt(r, t)
    \/ \E r \in Rounds :
          \/ RemediationSweep(r) \/ Attempt(r) \/ LogAttempt(r)
          \/ Escalate(r) \/ LinkDecision(r) \/ RoundDies(r)
    \/ HourPasses

\* Rounds go on, rows grow old, and the beat runs the sweep every 15 minutes.
RemFairness ==
    /\ WF_remVars(HourPasses) /\ SF_remVars(\E r \in Rounds : RemediationSweep(r))
    /\ \A r \in Rounds : WF_remVars(Attempt(r) \/ LogAttempt(r) \/ Escalate(r) \/ LinkDecision(r))

-----------------------------------------------------------------------------
(* Properties *)

FailedRows(t) == {p \in RowsWith("failed") : p[1] = t}

\* As many failed rows as a sweep reads are newer than all of those of t: a target that
\* fails again and again, which is swept every time, comes to that alone.
Crowded(t) == \A p \in FailedRows(t) : Cardinality(Newer(RowsWith("failed"), p)) >= REMEDIATION_SWEEP_BATCH

\* engine.py and the sweep: a target with a failed attempt is resolved or put
\* before a person in the end, also when the round that failed died before it
\* could escalate, unless it is crowded out of the sweeps.  Rounds of a retrying
\* strategy are the exception: the sweep has no attempt function, so they are deferred
\* and nobody hears of them.
FailedNotForgotten ==
    \A t \in Targets : Strategy[t] \notin Retrying =>
        (FailedRows(t) # {} ~> \/ items[t].escalated > 0
                               \/ \E i \in DOMAIN attempts[t] : attempts[t][i].status = "resolved"
                               \/ Crowded(t))

=============================================================================
