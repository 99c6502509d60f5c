------------------------------- MODULE Agents -------------------------------
(***************************************************************************)
(* The seven agents of the orchestrator (agents/*.py): what each of them   *)
(* reads of a project, the confidence its engines compute, what the reply  *)
(* of the model does to it, and which rows it leaves.  Parts of a score    *)
(* are percentages; the score of the engines is in units of 1/10000 and a  *)
(* confidence in units of 1/100000, so that every weight is exact.         *)
(*                                                                         *)
(* "last" is the result the orchestrator is about to route, with the facts *)
(* of its evidence that the properties are about ("cited"), as the agent   *)
(* has read them: what happens to the project while the model is asked     *)
(* does not change a result any more.                                      *)
(*                                                                         *)
(* created_at of a calculation and of a report is the time at which the    *)
(* process that stored it imported the models ("born"): the rows of one    *)
(* process are equally new, and those of a process that started later are  *)
(* newer, whenever they were stored.                                       *)
(***************************************************************************)
EXTENDS Integers, Sequences, FiniteSets, FiniteSetsExt

CONSTANTS MaxSources,    \* bound: data sources of the project
          MaxCalcs,      \* bound: calculation runs
          MaxReports,    \* bound: reports
          Compliances,   \* methodology compliance the engine computes, in percent
          Figures,       \* what an operator may record: [compliance, odd]
          Births,        \* the times at which processes started
          Marks,         \* marks the model gives, in percent
          NoModel        \* the model cannot be reached, or its reply is of no use

ASSUME AgentsAssumption ==
    /\ {MaxSources, MaxCalcs, MaxReports} \subseteq Nat
    /\ Compliances \subseteq 0..100 /\ Marks \subseteq 0..100 /\ Births \subseteq Nat
    /\ Figures \subseteq [compliance : Int, odd : {"no", "doubtful", "negative_leakage"}]

VARIABLES upload,        \* the latest file: "none", "processing", "completed", "failed"
          sources,       \* how many data sources have each validation_status
          calcs,         \* calculation runs, oldest first
          reports,       \* reports, oldest first
          last           \* the result to be routed

agentsVars == <<upload, sources, calcs, reports, last>>

Percent == 0..100

NoResult == [agent |-> "none", status |-> "none", confidence |-> 0, engines |-> 0, cited |-> {}]

Result(agent, status, confidence, engines, cited) ==
    [agent |-> agent, status |-> status, confidence |-> confidence,
     engines |-> engines, cited |-> cited]

NoData(agent) == Result(agent, "completed", 60000, 6000, {})

Capped(x, most) == Min({x, most})
Floored(x, least) == Max({x, least})

\* Slip: the model and the engines are asked for the better of the two scores.
BetterOfBoth(engines, mark) ==
    IF mark = NoModel THEN 10 * engines ELSE Floored(10 * engines, 1000 * mark)

\* blend_confidence: 0.4 of the engines, brought between 0 and 1, and 0.6 of the model.
Blend(engines, mark) ==
    LET heuristic == Capped(Floored(engines, 0), 10000)
    IN IF mark = NoModel THEN 10 * heuristic ELSE 4 * heuristic + 600 * mark

\* What most agents conclude: below 0.85 a person has to look at it.
Graded(agent, confidence, engines, cited) ==
    Result(agent, IF confidence >= 85000 THEN "completed" ELSE "queued_for_review",
           confidence, engines, cited)

\* advance_project: the test a result has to pass for the project to move on.
Advances(result) == result.status # "failed" /\ result.confidence >= 95000

SourceCount == sources["pending"] + sources["valid"] + sources["flagged"]

\* ORDER BY created_at DESC LIMIT 1 among these rows: any of the newest.
Newest(rows, among) == {i \in among : \A j \in among : rows[j].born <= rows[i].born}

AgentsInit ==
    /\ upload = "none" /\ calcs = <<>> /\ reports = <<>> /\ last = NoResult
    /\ sources = [s \in {"pending", "valid", "flagged"} |-> 0]

-----------------------------------------------------------------------------
(* What others do to the project between two results. *)

FileMoves ==
    /\ \/ upload \in {"none", "completed", "failed"} /\ upload' = "processing"
       \/ upload = "processing" /\ upload' \in {"completed", "failed"}
    /\ last' = NoResult /\ UNCHANGED <<sources, calcs, reports>>

SourceArrives ==
    /\ SourceCount < MaxSources
    /\ sources' = [sources EXCEPT !["pending"] = @ + 1]
    /\ last' = NoResult /\ UNCHANGED <<upload, calcs, reports>>

SourceJudged == \E was \in {"pending", "flagged"}, is \in {"valid", "flagged"} :
    /\ was # is /\ sources[was] > 0
    /\ sources' = [sources EXCEPT ![was] = @ - 1, ![is] = @ + 1]
    /\ last' = NoResult /\ UNCHANGED <<upload, calcs, reports>>

\* create_calculation, update_calculation: an operator records figures of any kind, and
\* no bound is set to the compliance.
RecordCalculation == \E f \in Figures, born \in Births :
    /\ Len(calcs) < MaxCalcs
    /\ calcs' = Append(calcs, [compliance |-> f.compliance, odd |-> f.odd, born |-> born])
    /\ last' = NoResult /\ UNCHANGED <<upload, sources, reports>>

ReviseCalculation == \E i \in DOMAIN calcs, f \in Figures :
    /\ calcs' = [calcs EXCEPT ![i].compliance = f.compliance, ![i].odd = f.odd]
    /\ last' = NoResult /\ UNCHANGED <<upload, sources, reports>>

\* The steps of a report after its draft, which people and the registry take.
ReportMoves == \E i \in 1..Len(reports) :
    /\ \/ reports[i].status = "draft" /\ reports' = [reports EXCEPT ![i].status = "approved"]
       \/ reports[i].status = "approved" /\ reports' = [reports EXCEPT ![i].status = "submitted"]
       \/ reports[i].status = "submitted" /\ reports' = [reports EXCEPT ![i].status = "vvb_approved"]
    /\ last' = NoResult /\ UNCHANGED <<upload, sources, calcs>>

Routed == last # NoResult /\ last' = NoResult /\ UNCHANGED <<upload, sources, calcs, reports>>

-----------------------------------------------------------------------------
(* Ingestion and validation. *)

\* IngestionAgent: the share of uploads that is done with, less a tenth for
\* each anomaly; a flagged source is one, other anomalies are in the files.
IngestionAgent == \E inFiles \in 0..1, mark \in Marks \cup {NoModel} :
    /\ last = NoResult /\ (inFiles > 0 => upload # "none")
    /\ LET complete   == IF upload = "processing" THEN 0 ELSE 10000
           anomalies  == inFiles + sources["flagged"]
           engines    == Floored(complete - Capped(1000 * anomalies, 4000), 0)
           confidence == Blend(engines, mark)
           graded     == Graded("ingestion", confidence, engines, {})
       IN last' = IF upload = "none" /\ SourceCount = 0 THEN NoData("ingestion")
                  ELSE IF upload = "failed" THEN [graded EXCEPT !.status = "queued_for_review"]
                  ELSE graded
    /\ UNCHANGED <<upload, sources, calcs, reports>>

\* _collect_red_flags; equal record counts are suspicious from three sources on.
RedFlags(smooth, odd) ==
    (IF smooth /\ SourceCount >= 3 THEN {"smooth_activity_data"} ELSE {})
    \cup (IF odd = "missing" THEN {"missing_baseline"} ELSE {})
    \cup (IF odd = "negative_leakage" THEN {"negative_leakage"} ELSE {})

\* What is odd with the latest calculation run.
LatestOdd == IF calcs = <<>> THEN {"missing"} ELSE {calcs[i].odd : i \in Newest(calcs, DOMAIN calcs)}

\* The flags the model has not dismissed, whatever it says to have confirmed.
Surviving(raised, dismissed, confirmed) == raised \ dismissed

\* The model's score falls with the share it confirms; no flag, no deduction.
ReviewMark(raised, confirmed) ==
    IF raised = {} THEN 100 ELSE 100 - (50 * Cardinality(confirmed)) \div Cardinality(raised)

\* Outliers never cost anything at this size (one in more than 100000 records),
\* sources with unmapped fields and the additionality screen (four checks) do.
\* The reply names what it dismisses and what it confirms.
ValidationResult(thin, screened, raised, replied, dismissed, confirmed) ==
    LET surviving  == IF replied THEN Surviving(raised, dismissed, confirmed) ELSE raised
        engines    == 4000 + 3000 - (3000 * thin) \div Floored(SourceCount, 1) + 750 * screened
        blended    == Blend(engines, IF replied THEN ReviewMark(raised, confirmed) ELSE NoModel)
        confidence == IF surviving = {} THEN blended ELSE Capped(blended, 90000)
        done       == 10 * thin < SourceCount /\ surviving = {}
    IN Result("validation", IF done THEN "completed" ELSE "queued_for_review",
              confidence, engines, IF replied THEN raised \ dismissed ELSE raised)

ValidationAgent ==
    \E thin \in 0..SourceCount, screened \in 1..4, smooth \in BOOLEAN, odd \in LatestOdd :
        /\ last = NoResult /\ (smooth => SourceCount >= 3)
        /\ \E replied \in BOOLEAN, dismissed, confirmed \in SUBSET RedFlags(smooth, odd) :
            last' = IF SourceCount = 0 THEN NoData("validation")
                    ELSE ValidationResult(thin, screened, RedFlags(smooth, odd), replied, dismissed,
                                          confirmed)
        /\ UNCHANGED <<upload, sources, calcs, reports>>

-----------------------------------------------------------------------------
(* Calculation and quality control. *)

\* data_coverage: the share of the sources that is valid, a fifth of the score.
Coverage == IF SourceCount = 0 THEN 0 ELSE (2000 * sources["valid"]) \div SourceCount

CalculationResult(certainty, c, fnrb, mark) ==
    LET engines == 30 * certainty + 30 * c + fnrb + Coverage
        cited   == IF sources["valid"] = 0 \/ 8 * sources["valid"] < 5 * SourceCount
                   THEN {"unvalidated"} ELSE {}
    IN Graded("calculation", Blend(engines, mark), engines, cited)

\* CalculationAgent commits the run first and asks the model afterwards: the
\* result may be lost with the worker, the run stays.  The certainty is 1 less
\* twice the relative width of the interval, the fNRB counts 0.675 to 0.75.
CalculationAgent ==
    \E c \in Compliances, certainty \in {60, 100}, fnrb \in {1350, 1400, 1500}, born \in Births :
        /\ last = NoResult /\ Len(calcs) < MaxCalcs
        /\ calcs' = Append(calcs, [compliance |-> c, odd |-> "no", born |-> born])
        /\ \/ \E mark \in Marks \cup {NoModel} : last' = CalculationResult(certainty, c, fnrb, mark)
           \/ UNCHANGED last
        /\ UNCHANGED <<upload, sources, reports>>

\* QualityControlAgent: what share of the sampled fields is in order.  It
\* completes whatever it finds, and what the model calls genuine raises it.
QualityControlAgent == \E bad \in 0..2, mark \in Marks \cup {NoModel} :
    /\ last = NoResult
    /\ LET samples  == 3 * Len(calcs) + 2 * SourceCount
           doubtful == Cardinality({i \in 1..Len(calcs) : calcs[i].odd = "doubtful"})
           passed   == Floored(samples - bad - doubtful, 0)
           engines  == 6000 + (4000 * passed) \div Floored(samples, 1)
       IN last' = Result("quality_control", "completed", Blend(engines, mark), engines, {})
    /\ UNCHANGED <<upload, sources, calcs, reports>>

-----------------------------------------------------------------------------
(* Reporting, the registry and the client. *)

\* passed, no issues, no warnings, cross references valid.
GatesPassed(issues, warned, linked) ==
    (IF issues THEN 0 ELSE 2) + (IF warned THEN 0 ELSE 1) + (IF linked THEN 1 ELSE 0)

\* A broken cross reference is an issue of the gates, too.
ReportResult(compliance, issues, warned, linked, mark) ==
    LET gates   == GatesPassed(issues, warned, linked)
        engines == (5500 * gates) \div 4 + 30 * compliance + IF warned THEN 1350 ELSE 1500
        cited   == (IF issues THEN {"issues"} ELSE {}) \cup (IF warned THEN {"warnings"} ELSE {})
                   \cup (IF compliance < 59 THEN {"not_compliant"} ELSE {})
                   \cup (IF compliance > 100 THEN {"overrated"} ELSE {})
    IN Graded("reporting", Blend(engines, mark), engines, cited)

ReportingAgent == \E issues, warned, linked \in BOOLEAN, mark \in Marks \cup {NoModel} :
    /\ last = NoResult /\ (~linked => issues)
    /\ \/ calcs = <<>> /\ last' = NoData("reporting") /\ UNCHANGED reports
       \/ \E i \in Newest(calcs, DOMAIN calcs), born \in Births :
             /\ Len(reports) < MaxReports
             /\ last' = ReportResult(calcs[i].compliance, issues, warned, linked, mark)
             /\ reports' = Append(reports, [status |-> "draft", passed |-> ~issues, born |-> born])
    /\ UNCHANGED <<upload, sources, calcs>>

\* generate_report raises: the agent fails and leaves no report.
ReportingFails ==
    /\ last = NoResult /\ calcs # <<>>
    /\ last' = Result("reporting", "failed", 0, 0, {})
    /\ UNCHANGED <<upload, sources, calcs, reports>>

Waits == {"wait", "follow_up", "escalate"}

\* _status_freshness: "approved" is in FINAL_STATUSES.
Freshness(status, wait) ==
    IF status = "approved" THEN 100
    ELSE CASE wait = "wait" -> 90 [] wait = "follow_up" -> 70 [] wait = "escalate" -> 50

\* The latest submitted report, else the latest approved one, else none.
Tracked == LET With(status) == {i \in DOMAIN reports : reports[i].status = status}
           IN IF With("submitted") # {} THEN Newest(reports, With("submitted"))
              ELSE Newest(reports, With("approved"))

\* It drafts an answer to every question, so the responses always count in
\* full, and its confidence is not blended.
LiaisonResult(r, wait) ==
    LET engines == 50 * Freshness(r.status, wait) + 3000 + 20 * IF r.passed THEN 100 ELSE 70
        late    == r.status = "submitted" /\ wait # "wait"
        cited   == (IF late THEN {"late"} ELSE {}) \cup (IF r.passed THEN {} ELSE {"failed_gates"})
        graded  == Graded("vvb_liaison", 10 * engines, engines, cited)
    IN IF late /\ wait = "escalate" THEN [graded EXCEPT !.status = "queued_for_review"] ELSE graded

VVBLiaisonAgent == \E wait \in Waits :
    /\ last = NoResult
    /\ \/ Tracked = {} /\ last' = NoData("vvb_liaison")
       \/ \E i \in Tracked : last' = LiaisonResult(reports[i], wait)
    /\ UNCHANGED <<upload, sources, calcs, reports>>

\* _compute_churn_risk, without the surveys.
ChurnRisk(owned, idle, tickets) ==
    1000 + (IF owned THEN 0 ELSE 2500) + idle + Capped(1000 * tickets, 2000)

\* ClientSuccessAgent: a tenth of the risk is the share of unanswered surveys,
\* which is negative where a conversation has more than one response.
ClientSuccessAgent ==
    \E owned \in BOOLEAN, idle \in {0, 2000, 3500}, tickets \in 0..2,
       talks \in 0..1, answers \in 0..2 :
        /\ last = NoResult
        /\ LET rate    == IF talks = 0 THEN 0 ELSE answers \div talks
               risk    == ChurnRisk(owned, idle, tickets) + 1000 * (1 - rate)
               engines == Capped(10000 - Floored(risk, 0), 10000)
               cited   == IF rate > 1 THEN {"answers_exceed_talks"} ELSE {}
           IN last' = Result("client_success", "completed", 10 * engines, engines, cited)
        /\ UNCHANGED <<upload, sources, calcs, reports>>

AgentsNext ==
    \/ FileMoves \/ SourceArrives \/ SourceJudged \/ RecordCalculation \/ ReviseCalculation \/ ReportMoves
    \/ Routed
    \/ IngestionAgent \/ ValidationAgent \/ CalculationAgent \/ QualityControlAgent
    \/ ReportingAgent \/ ReportingFails \/ VVBLiaisonAgent \/ ClientSuccessAgent

AgentsSpec == AgentsInit /\ [][AgentsNext]_agentsVars

-----------------------------------------------------------------------------

Blended == {"ingestion", "validation", "calculation", "quality_control", "reporting"}

(***************************************************************************)
(* The model moderates the score and cannot carry it: whatever it replies, *)
(* no result of a blended agent moves a project on when the engines alone  *)
(* are below 0.875 ("heuristic engines anchor the score").                 *)
(***************************************************************************)
EnginesMustAgree == last.agent \in Blended /\ Advances(last) => last.engines >= 8750

(***************************************************************************)
(* A red flag that the model has not dismissed keeps the project where it  *)
(* is, even if the reply confirms nothing or contradicts itself.           *)
(***************************************************************************)
SurvivingFlagsHold == last.agent = "validation" /\ last.cited # {} => ~Advances(last)

(***************************************************************************)
(* A calculation takes a project to review only on data: at least five of  *)
(* eight of the project's sources were valid when it read them, whatever   *)
(* the other engines and the model make of the figures.                    *)
(***************************************************************************)
CalculatedFromValid ==
    last.agent = "calculation" /\ Advances(last) => "unvalidated" \notin last.cited

(***************************************************************************)
(* A report on a calculation that is far from compliant is never submitted *)
(* without a person, whichever of the equally new ones it is about; and    *)
(* one with an issue or so much as a warning of the quality gates is not,  *)
(* unless an operator has recorded a compliance beyond 100 percent.        *)
(***************************************************************************)
CleanReportsAdvance ==
    last.agent = "reporting" /\ Advances(last) =>
        /\ "not_compliant" \notin last.cited
        /\ "overrated" \notin last.cited => last.cited = {}

(***************************************************************************)
(* The liaison moves a project to verified only on a report whose gates    *)
(* have passed and whose submission, if any, is not overdue.               *)
(***************************************************************************)
LiaisonOnFreshReport == last.agent = "vvb_liaison" /\ Advances(last) => last.cited = {}

(***************************************************************************)
(* The client agent takes part in leaving onboarding and monitoring, and   *)
(* its score never reaches 0.95 while no conversation has more than one    *)
(* survey response: a person decides these transitions.                    *)
(***************************************************************************)
OnboardingNeedsHuman ==
    last.agent = "client_success" /\ Advances(last) => "answers_exceed_talks" \in last.cited

\* No agent moves a project on without what its transition presupposes (agents/).
AgentsAdvanceOnEvidence ==
    /\ EnginesMustAgree /\ SurvivingFlagsHold /\ CalculatedFromValid
    /\ CleanReportsAdvance /\ LiaisonOnFreshReport /\ OnboardingNeedsHuman
=============================================================================
