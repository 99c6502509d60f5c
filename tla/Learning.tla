------------------------------ MODULE Learning ------------------------------
(***************************************************************************)
(* The learning loop (learning/service.py) between the routing of agent    *)
(* results (orchestrator.py, advance_project and _handle_confidence_result)*)
(* and the reviewers.  A threshold is learned from agent_decisions and     *)
(* read twice by one advance, in statements of their own: decisions of     *)
(* others are committed in between.  One agent type: thresholds of two     *)
(* agent types have no row in common.  Confidence is in percent.           *)
(***************************************************************************)
EXTENDS Integers, Sequences, FiniteSets

CONSTANTS Projects,
          Advancers,     \* sessions that advance a project
          Reviewers,     \* requests that resolve a review item
          Confidences,   \* confidences the agent may return
          Verdicts,      \* what reviewers decide
          MaxDecisions,  \* bound: rows of agent_decisions
          MaxEdits,      \* bound: items patched or deleted
          MaxWeeklies    \* bound: weekly reports

DefaultThreshold == 95
ThresholdMin == 85
ThresholdMax == 99

OverrideActions == {"human_rejected", "human_escalated"}
HumanActions == OverrideActions \cup {"human_approved"}
RoutingActions == {"auto_advance", "queued_for_review", "escalated"}

ASSUME LearningAssumption ==
    /\ Verdicts \subseteq HumanActions
    /\ Confidences \subseteq 0..100 /\ {MaxDecisions, MaxEdits, MaxWeeklies} \subseteq Nat

VARIABLES decisions,     \* agent_decisions of the agent, oldest first
          reviews,       \* review items: the project, the status and the stored verdict
          advancing,     \* what each advance has computed
          resolving,     \* what each resolving request has read
          advances,      \* history: confidences transitions were committed with
          judged,        \* history: items a resolution was committed for
          edits,         \* items patched or deleted so far
          weekly         \* the last stored weekly report

learningVars == <<decisions, reviews, advancing, resolving, advances, judged, edits, weekly>>

\* Slip: whatever the agent was routed to counts, not only what it advanced.
AnyReversed ==
    {i \in DOMAIN decisions :
        /\ decisions[i].action \in RoutingActions
        /\ \E j \in DOMAIN decisions : /\ j > i
                                       /\ decisions[j].action \in OverrideActions
                                       /\ decisions[j].project = decisions[i].project}

\* An auto-advance is reversed by any later override of the same project.
ReversedAdvances ==
    {i \in DOMAIN decisions :
        /\ decisions[i].action = "auto_advance"
        /\ \E j \in DOMAIN decisions : /\ j > i
                                       /\ decisions[j].action \in OverrideActions
                                       /\ decisions[j].project = decisions[i].project}

Lowest(scores) == CHOOSE s \in scores : \A t \in scores : s <= t

Clamped(s) == IF s < ThresholdMin THEN ThresholdMin
              ELSE IF s > ThresholdMax THEN ThresholdMax ELSE s

ReversedScores == {decisions[i].score : i \in ReversedAdvances}

\* suggested_threshold, 0 for none.
SuggestedThreshold == IF ReversedScores = {} THEN 0 ELSE Clamped(Lowest(ReversedScores))

\* get_effective_threshold falls back to the default when the lookup fails.
EffectiveThresholds ==
    {DefaultThreshold, IF SuggestedThreshold = 0 THEN DefaultThreshold ELSE SuggestedThreshold}

IdleAdvance == [at |-> "idle", project |-> CHOOSE p \in Projects : TRUE, score |-> 0,
                tier |-> "none", item |-> 0]
NoReview == [item |-> 0, verdict |-> "none", stored |-> FALSE]
NoReport == [paired |-> 0, overridden |-> 0, reasons |-> 0, noted |-> 0]

LearningInit ==
    /\ decisions = <<>> /\ reviews = <<>> /\ advances = {} /\ judged = {} /\ edits = 0
    /\ advancing = [a \in Advancers |-> IdleAdvance]
    /\ resolving = [r \in Reviewers |-> NoReview]
    /\ weekly = [made |-> 0, report |-> NoReport]

Decision(action, project, score, item) ==
    [action |-> action, project |-> project, score |-> score, item |-> item]

\* The decisions under way are bounded with those that are stored.
Room == Len(decisions) + Cardinality({a \in Advancers : advancing[a].at \in {"routed", "linked"}})
            + Cardinality({r \in Reviewers : resolving[r] # NoReview}) < MaxDecisions

\* dispatch_agent: the agent has answered, the threshold is read and the tier chosen.
Route(a) ==
    /\ advancing[a].at = "idle" /\ Room
    /\ \E p \in Projects, s \in Confidences, bar \in EffectiveThresholds :
          advancing' = [advancing EXCEPT ![a] =
              [at |-> "routed", project |-> p, score |-> s, item |-> 0,
               tier |-> IF s >= bar THEN "auto_advance"
                        ELSE IF s >= ThresholdMin THEN "queued_for_review" ELSE "escalated"]]
    /\ UNCHANGED <<decisions, reviews, resolving, advances, judged, edits, weekly>>

RecordAutoAdvance(a) ==
    /\ advancing[a].at = "routed" /\ advancing[a].tier = "auto_advance"
    /\ decisions' = Append(decisions, Decision("auto_advance", advancing[a].project,
                                               advancing[a].score, 0))
    /\ advancing' = [advancing EXCEPT ![a].at = "decided"]
    /\ UNCHANGED <<reviews, resolving, advances, judged, edits, weekly>>

\* The item is committed before the decision that links to it.
QueueReview(a) ==
    /\ advancing[a].at = "routed" /\ advancing[a].tier # "auto_advance"
    /\ reviews' = Append(reviews, [project |-> advancing[a].project, status |-> "pending", feedback |-> "none"])
    /\ advancing' = [advancing EXCEPT ![a].at = "linked", ![a].item = Len(reviews) + 1]
    /\ UNCHANGED <<decisions, resolving, advances, judged, edits, weekly>>

RecordQueued(a) ==
    /\ advancing[a].at = "linked" /\ reviews[advancing[a].item].status # "deleted"
    /\ decisions' = Append(decisions, Decision(advancing[a].tier, advancing[a].project,
                                               advancing[a].score, advancing[a].item))
    /\ advancing' = [advancing EXCEPT ![a].at = "decided"]
    /\ UNCHANGED <<reviews, resolving, advances, judged, edits, weekly>>

\* advance_project reads the threshold again before it commits the transition.
CheckAdvance(a) ==
    /\ advancing[a].at = "decided"
    /\ \E bar \in EffectiveThresholds :
          IF advancing[a].score >= bar
          THEN /\ advances' = advances \cup {advancing[a].score}
               /\ advancing' = [advancing EXCEPT ![a] = IdleAdvance]
          ELSE /\ advancing' = [advancing EXCEPT ![a].at = "held"]
               /\ UNCHANGED advances
    /\ UNCHANGED <<decisions, reviews, resolving, judged, edits, weekly>>

\* The advance returns; or its item was deleted and the decision cannot refer to it.
LeaveAdvance(a) ==
    /\ \/ advancing[a].at = "held"
       \/ advancing[a].at = "linked" /\ reviews[advancing[a].item].status = "deleted"
    /\ advancing' = [advancing EXCEPT ![a] = IdleAdvance]
    /\ UNCHANGED <<decisions, reviews, resolving, advances, judged, edits, weekly>>

\* The endpoint refuses an item that is no longer pending when it reads it.
ReadReview(r) ==
    /\ resolving[r] = NoReview /\ Room
    /\ \E i \in DOMAIN reviews : /\ reviews[i].status = "pending"
                                /\ resolving' = [resolving EXCEPT ![r] = [NoReview EXCEPT !.item = i]]
    /\ UNCHANGED <<decisions, reviews, advancing, advances, judged, edits, weekly>>

\* The verdict as learning_feedback stores it.
Feedback(verdict) == CASE verdict = "human_rejected" -> "reject"
                       [] verdict = "human_escalated" -> "escalate"
                       [] OTHER -> "approve"

\* _apply_human_review_resolution: the item with its feedback, in a commit of its own.
ResolveItem(r, verdict) ==
    LET i == resolving[r].item
    IN /\ i # 0 /\ ~resolving[r].stored /\ reviews[i].status # "deleted"
       /\ reviews' = [reviews EXCEPT ![i].status = "closed", ![i].feedback = Feedback(verdict)]
       /\ judged' = judged \cup {i}
       /\ resolving' = [resolving EXCEPT ![r].stored = TRUE, ![r].verdict = verdict]
       /\ UNCHANGED <<decisions, advancing, advances, edits, weekly>>

\* resolve_human_review: then the decision.
RecordVerdict(r) ==
    LET i == resolving[r].item
    IN /\ resolving[r].stored /\ reviews[i].status # "deleted"
       /\ decisions' = Append(decisions, Decision(resolving[r].verdict, reviews[i].project, 0, i))
       /\ resolving' = [resolving EXCEPT ![r] = NoReview]
       /\ UNCHANGED <<reviews, advancing, advances, judged, edits, weekly>>

\* The item was deleted before the next commit.  A process that dies takes no further step.
ReviewerStops(r) ==
    /\ resolving[r] # NoReview /\ reviews[resolving[r].item].status = "deleted"
    /\ resolving' = [resolving EXCEPT ![r] = NoReview]
    /\ UNCHANGED <<decisions, reviews, advancing, advances, judged, edits, weekly>>

\* update_queue_item: any status, also that of a decided item, without a decision.  The
\* sweep of overdue items too closes one without a decision of a human.
PatchItem(i, status) ==
    /\ edits < MaxEdits /\ edits' = edits + 1
    /\ reviews[i].status \notin {"deleted", status}
    /\ reviews' = [reviews EXCEPT ![i].status = status]
    /\ UNCHANGED <<decisions, advancing, resolving, advances, judged, weekly>>

\* delete_queue_item: the decisions on it stay, without their link.
DeleteItem(i) ==
    /\ edits < MaxEdits /\ edits' = edits + 1
    /\ reviews[i].status # "deleted"
    /\ reviews' = [reviews EXCEPT ![i].status = "deleted", ![i].feedback = "none"]
    /\ decisions' = [j \in DOMAIN decisions |->
                       [decisions[j] EXCEPT !.item = IF decisions[j].item = i THEN 0 ELSE @]]
    /\ UNCHANGED <<advancing, resolving, advances, judged, weekly>>

\* _pair_review_decisions: the first routing of an item and the first human decision after it.
FirstOf(is) == CHOOSE i \in is : \A j \in is : i <= j
RoutingsOf(k, from) == {i \in from..Len(decisions) :
                          decisions[i].item = k /\ decisions[i].action \in RoutingActions}
VerdictsOn(k, from) ==
    {i \in from..Len(decisions) :
        /\ decisions[i].item = k /\ decisions[i].action \in HumanActions
        /\ RoutingsOf(k, from) # {} /\ i > FirstOf(RoutingsOf(k, from))}

PairedVerdicts(from) ==
    {FirstOf(VerdictsOn(k, from)) : k \in {k \in DOMAIN reviews : VerdictsOn(k, from) # {}}}

\* _top_override_reasons looks for the names of decisions where the verdict is stored.
TopReasons == {i \in DOMAIN reviews : reviews[i].feedback \in OverrideActions}
Overridden == {i \in DOMAIN reviews : reviews[i].feedback \in {"reject", "escalate"}}

\* compute_calibration and weekly_retraining_report over the decisions from a date on.
WeeklyReport ==
    /\ weekly.made < MaxWeeklies
    /\ \E from \in 1..(Len(decisions) + 1) :
          LET verdicts == PairedVerdicts(from)
          IN weekly' = [made |-> weekly.made + 1,
                        report |-> [paired |-> Cardinality(verdicts),
                                    overridden |-> Cardinality({i \in verdicts :
                                                       decisions[i].action \in OverrideActions}),
                                    reasons |-> Cardinality(TopReasons),
                                    noted |-> Cardinality(Overridden)]]
    /\ UNCHANGED <<decisions, reviews, advancing, resolving, advances, judged, edits>>

LearningNext ==
    \/ \E a \in Advancers : \/ Route(a) \/ RecordAutoAdvance(a) \/ QueueReview(a)
                            \/ RecordQueued(a) \/ CheckAdvance(a) \/ LeaveAdvance(a)
    \/ \E r \in Reviewers : \/ ReadReview(r) \/ RecordVerdict(r) \/ ReviewerStops(r)
                            \/ \E v \in Verdicts : ResolveItem(r, v)
    \/ \E i \in DOMAIN reviews : \/ \E status \in {"pending", "closed"} : PatchItem(i, status)
                                \/ DeleteItem(i)
    \/ WeeklyReport

LearningSpec == LearningInit /\ [][LearningNext]_learningVars

\* The learning loop can raise the bar of an agent and never loosens it: whatever humans
\* reverse, and whenever the threshold is read, no transition is committed below the
\* default of 0.95, although the clamp itself would go down to 0.85
\* (learning/service.py:242, orchestrator/orchestrator.py:247).
GateNeverLoosened ==
    /\ EffectiveThresholds \subseteq DefaultThreshold..ThresholdMax
    /\ \A s \in advances : s >= DefaultThreshold

\* However often an item is decided, by two reviewers at once, again after an operator has
\* set it back to pending, or with a crash between its two commits, the rates of a report
\* count one review for it and none for an item that no reviewer decided, so no rate exceeds
\* one (learning/service.py:90, api/review_queue.py:79).
ReviewsCountOnce ==
    /\ weekly.report.overridden <= weekly.report.paired
    /\ weekly.report.paired <= Cardinality(judged)

\* What is learned from the reviewers neither loosens the gate nor counts one of them
\* twice (learning/service.py).
LearningHolds == GateNeverLoosened /\ ReviewsCountOnce

\* An advance that is held has a review item queued (the comment at
\* orchestrator/orchestrator.py:278); a bar that rises between the two readings breaks it.
HeldIsQueued == \A a \in Advancers : advancing[a].at = "held" => advancing[a].item # 0

\* A report names the justification of an override that was stored with its item
\* (learning/service.py:324).
ReasonsAreReported == weekly.report.noted > 0 => weekly.report.reasons > 0
=============================================================================
