------------------------------ MODULE Reports ------------------------------
(***************************************************************************)
(* Monitoring reports: generated by a Celery task that retries, edited and *)
(* submitted by operators, and followed at the registries by a daily poll  *)
(* behind a Redis lock (tasks/report_jobs.py, api/reports.py, vvb_liaison).*)
(***************************************************************************)
EXTENDS Integers, FiniteSets

CONSTANTS ReportIds, Jobs, Editors, Polls,
          MAX_RETRIES,       \* report_jobs.generate_report_async: max_retries
          MaxFailures,       \* bound: generations that fail before their commit, and worker deaths
          MaxCopies,         \* bound: monitoring reports of one project at a registry
          MaxItems           \* bound: review items counted for one report

ReportStatus == {"draft", "human_review", "approved", "submitted", "vvb_approved", "rejected"}
\* What draft_content holds: nothing, html by the verdict of the quality gates on it,
\* what an operator has put there, or no more than the error text of a registry.
Html == {"passed", "failed"}
Drafts == {"none", "edited", "error"} \cup Html
Report == [status : ReportStatus, draft : Drafts]
NoReport == [status |-> "absent"]
Deleted == [status |-> "deleted"]

VALID_REPORT_TRANSITIONS ==
    [from \in ReportStatus |->
        CASE from = "draft"        -> {"submitted", "approved", "human_review", "rejected"}
          [] from = "human_review" -> {"approved", "rejected"}
          [] from = "approved"     -> {"submitted", "rejected"}
          [] from = "submitted"    -> {"vvb_approved", "rejected"}
          [] OTHER                 -> {}]
ValidTransition(from, to) == from = to \/ to = "rejected" \/ to \in VALID_REPORT_TRANSITIONS[from]

VARIABLES report,
          calcApproved,      \* whether the calculation run of the reports is approved
          reviewItems,       \* HumanReviewQueue rows of each report
          repJob,            \* generation tasks: queued, or running on what they loaded
          gaveUp,            \* history: reports whose generation used up its retries
          failures,
          editor,            \* what each operator's request has loaded
          copies, decision,  \* external: monitoring reports and verdicts at the registry
          patchedIn,         \* history: reports an operator set to submitted
          pollLock,          \* Redis: lock:poll_registry_statuses
          poll,              \* poll tasks: idle, or running with or without the lock
          lapsed,            \* history: the lock expired under a poll, or Redis was down
          failureAudited     \* reports with a registry_failure entry in the audit log

repVars == <<report, calcApproved, reviewItems, repJob, gaveUp, failures, editor, copies,
             decision, patchedIn, pollLock, poll, lapsed, failureAudited>>
rowVars == <<report, reviewItems>>
jobVars == <<repJob, gaveUp, failures>>
registryVars == <<copies, decision>>
pollVars == <<pollLock, poll, lapsed, failureAudited>>

Exists(r) == report[r] \notin {NoReport, Deleted}
NoJob == [phase |-> "none"]
NoRequestOf == [op |-> "none"]
NoPoll == [phase |-> "idle"]

RepInit == /\ report = [r \in ReportIds |-> NoReport] /\ calcApproved \in BOOLEAN
           /\ reviewItems = [r \in ReportIds |-> 0]
           /\ repJob = [j \in Jobs |-> NoJob] /\ gaveUp = {} /\ failures = 0
           /\ editor = [e \in Editors |-> NoRequestOf]
           /\ copies = [r \in ReportIds |-> 0] /\ decision = [r \in ReportIds |-> "none"]
           /\ patchedIn = {}
           /\ pollLock = FALSE /\ poll = [p \in Polls |-> NoPoll] /\ lapsed = FALSE
           /\ failureAudited = {}

-----------------------------------------------------------------------------
(* Operators: api/reports.py *)

\* The payload brings the status, unchecked, and perhaps a content.
CreateReport(r, status, draft) ==
    /\ report[r] = NoReport /\ calcApproved
    /\ report' = [report EXCEPT ![r] = [status |-> status, draft |-> draft]]
    /\ patchedIn' = IF status = "submitted" THEN patchedIn \cup {r} ELSE patchedIn
    /\ UNCHANGED <<calcApproved, reviewItems, jobVars, editor, registryVars, pollVars>>

DeleteReport(r) ==
    /\ Exists(r) /\ report' = [report EXCEPT ![r] = Deleted]
    /\ UNCHANGED <<calcApproved, reviewItems, jobVars, editor, registryVars, patchedIn, pollVars>>

CalculationRejected == /\ calcApproved /\ calcApproved' = FALSE
                       /\ UNCHANGED <<rowVars, jobVars, editor, registryVars, patchedIn, pollVars>>

LoadForPatch(e, r, to) ==
    /\ editor[e] = NoRequestOf /\ Exists(r) /\ ValidTransition(report[r].status, to)
    /\ editor' = [editor EXCEPT ![e] = [op |-> "patch", report |-> r, from |-> report[r].status, to |-> to]]
    /\ UNCHANGED <<rowVars, calcApproved, jobVars, registryVars, patchedIn, pollVars>>

\* UPDATE names the columns that were written; one of a row that is gone raises
\* and commits nothing.
Unwritten == "unwritten"
Updated(r, status, draft) ==
    IF Exists(r)
    THEN [report EXCEPT ![r] = [status |-> IF status = Unwritten THEN @.status ELSE status,
                                draft |-> IF draft = Unwritten THEN @.draft ELSE draft]]
    ELSE report

\* The status goes out only when it differs from the one the request loaded; a
\* content may be put there or emptied.
UpdateReport(e, draft) ==
    /\ editor[e].op = "patch"
    /\ LET q == editor[e] r == q.report IN
       /\ report' = Updated(r, IF q.to # q.from THEN q.to ELSE Unwritten, draft)
       /\ patchedIn' = IF q.to # q.from /\ q.to = "submitted" THEN patchedIn \cup {r} ELSE patchedIn
    /\ editor' = [editor EXCEPT ![e] = NoRequestOf]
    /\ UNCHANGED <<calcApproved, reviewItems, jobVars, registryVars, pollVars>>

LoadForSubmission(e, r) ==
    /\ editor[e] = NoRequestOf /\ report[r].status = "approved" /\ calcApproved
    /\ editor' = [editor EXCEPT ![e] = [op |-> "submit", report |-> r, draft |-> report[r].draft,
                                         answer |-> "none"]]
    /\ UNCHANGED <<rowVars, calcApproved, jobVars, registryVars, patchedIn, pollVars>>

\* BaseRegistryClient._request posts up to max_retries times; a timeout may hide
\* a post that arrived.
PostToRegistry(e, arrived, answer) ==
    /\ editor[e].op = "submit" /\ editor[e].answer = "none"
    /\ answer = "success" => arrived > 0
    /\ LET r == editor[e].report IN
       /\ copies[r] + arrived <= MaxCopies
       /\ copies' = [copies EXCEPT ![r] = @ + arrived]
    /\ editor' = [editor EXCEPT ![e].answer = answer]
    /\ UNCHANGED <<rowVars, calcApproved, jobVars, decision, patchedIn, pollVars>>

\* Slip: the report is marked as submitted whatever the registry answered.
SubmitAnyway(e) ==
    /\ editor[e].op = "submit" /\ editor[e].answer # "none"
    /\ report' = Updated(editor[e].report, "submitted", Unwritten)
    /\ editor' = [editor EXCEPT ![e] = NoRequestOf]
    /\ UNCHANGED <<calcApproved, reviewItems, jobVars, registryVars, patchedIn, pollVars>>

\* The error text goes into a new draft_content when the one that was loaded is empty,
\* else into the loaded one, in place, and is lost.
SubmitReportToRegistry(e) ==
    /\ editor[e].op = "submit" /\ editor[e].answer # "none"
    /\ LET q == editor[e] IN
       report' = IF q.answer = "success" THEN Updated(q.report, "submitted", Unwritten)
                 ELSE Updated(q.report, "draft", IF q.draft = "none" THEN "error" ELSE Unwritten)
    /\ editor' = [editor EXCEPT ![e] = NoRequestOf]
    /\ UNCHANGED <<calcApproved, reviewItems, jobVars, registryVars, patchedIn, pollVars>>

RegistryDecides(r, verdict) ==
    /\ copies[r] > 0 /\ decision[r] = "none"
    /\ decision' = [decision EXCEPT ![r] = verdict]
    /\ UNCHANGED <<rowVars, calcApproved, jobVars, editor, copies, patchedIn, pollVars>>

-----------------------------------------------------------------------------
(* Generation: report_jobs.generate_report_async *)

GenerateReportEndpoint(j, r) ==
    /\ repJob[j] = NoJob /\ Exists(r)
    /\ repJob' = [repJob EXCEPT ![j] = [phase |-> "queued", report |-> r, tries |-> 0]]
    /\ gaveUp' = gaveUp \ {r}
    /\ UNCHANGED <<rowVars, calcApproved, failures, editor, registryVars, patchedIn, pollVars>>

StartGeneration(j) ==
    /\ repJob[j].phase = "queued"
    /\ LET r == repJob[j].report IN
       repJob' = [repJob EXCEPT ![j] = IF Exists(r) THEN [phase |-> "running", report |-> r,
                      tries |-> @.tries, status |-> report[r].status, draft |-> report[r].draft]
                      ELSE NoJob]
    /\ UNCHANGED <<rowVars, calcApproved, gaveUp, failures, editor, registryVars, patchedIn, pollVars>>

Retried(j) == IF repJob[j].tries < MAX_RETRIES
              THEN [phase |-> "queued", report |-> repJob[j].report, tries |-> repJob[j].tries + 1]
              ELSE NoJob

\* AutomatedQualityGate: citations and style only warn, and the sections required
\* are those of methodology names that no template has.
QualityGates(issues) == IF issues = {} THEN "passed" ELSE "failed"
GateIssues == {"cross_references", "numbers"}

\* draft_content is changed in place, so only a row that had none takes the html and its
\* gates: not even one that holds nothing but the error text of a submission.  After the commit the task reads .value of the plain string it
\* assigned, which raises: every generation that commits is retried as well.
FinishGeneration(j, gates) ==
    /\ repJob[j].phase = "running"
    /\ LET q == repJob[j] r == q.report
           verdict == IF gates = "passed" THEN "approved" ELSE "human_review"
           status == IF verdict # q.status THEN verdict ELSE Unwritten
           draft == IF q.draft = "none" THEN gates ELSE Unwritten IN
       /\ report' = Updated(r, status, draft)
       /\ reviewItems' = IF gates = "failed" /\ (Exists(r) \/ (status = Unwritten /\ draft = Unwritten))
                         THEN [reviewItems EXCEPT ![r] = IF @ < MaxItems THEN @ + 1 ELSE @]
                         ELSE reviewItems
    /\ repJob' = [repJob EXCEPT ![j] = Retried(j)]
    /\ UNCHANGED <<calcApproved, gaveUp, failures, editor, registryVars, patchedIn, pollVars>>

\* Slip: the error is logged and the task is done.
GenerationLogsError(j) ==
    /\ repJob[j].phase = "running" /\ failures < MaxFailures
    /\ failures' = failures + 1
    /\ repJob' = [repJob EXCEPT ![j] = NoJob]
    /\ UNCHANGED <<rowVars, calcApproved, gaveUp, editor, registryVars, patchedIn, pollVars>>

GenerationFails(j) ==
    /\ repJob[j].phase = "running" /\ failures < MaxFailures
    /\ failures' = failures + 1
    /\ repJob' = [repJob EXCEPT ![j] = Retried(j)]
    /\ gaveUp' = IF Retried(j) = NoJob THEN gaveUp \cup {repJob[j].report} ELSE gaveUp
    /\ UNCHANGED <<rowVars, calcApproved, editor, registryVars, patchedIn, pollVars>>

\* acks_late and reject_on_worker_lost: the message comes back.
GenerationRedelivered(j) ==
    /\ repJob[j].phase = "running" /\ failures < MaxFailures
    /\ failures' = failures + 1
    /\ repJob' = [repJob EXCEPT ![j] = [phase |-> "queued", report |-> @.report, tries |-> @.tries]]
    /\ UNCHANGED <<rowVars, calcApproved, gaveUp, editor, registryVars, patchedIn, pollVars>>

-----------------------------------------------------------------------------
(* Registry poll *)

\* Redis SET NX EX; without Redis the poll goes on without the lock.
Acquired(up) == up => ~pollLock

StartPoll(p, up) ==
    /\ poll[p] = NoPoll /\ Acquired(up)
    /\ poll' = [poll EXCEPT ![p] = [phase |-> "running", holds |-> up,
                                    reports |-> {r \in ReportIds : report[r].status = "submitted"}]]
    /\ pollLock' = (pollLock \/ up) /\ lapsed' = (lapsed \/ ~up)
    /\ UNCHANGED <<rowVars, calcApproved, jobVars, editor, registryVars, patchedIn, failureAudited>>

\* What get_project_status of a client returns: no "status_changed", which only
\* poll_all_registries adds.
ProjectStatus(r) == [success |-> TRUE, verification_status |-> decision[r]]

StatusChanged(result) == "status_changed" \in DOMAIN result

PolledStatus(verdict) == CASE verdict = "verified" -> "vvb_approved"
                           [] verdict = "rejected" -> "rejected"
                           [] OTHER                -> "submitted"

PollProject(p, r) ==
    /\ poll[p].phase = "running" /\ r \in poll[p].reports
    /\ poll' = [poll EXCEPT ![p].reports = @ \ {r}]
    /\ IF StatusChanged(ProjectStatus(r))
       THEN /\ report' = Updated(r, PolledStatus(decision[r]), Unwritten)
            /\ reviewItems' = IF decision[r] = "rejected" THEN [reviewItems EXCEPT ![r] = @ + 1]
                              ELSE reviewItems
       ELSE UNCHANGED rowVars
    /\ UNCHANGED <<calcApproved, jobVars, editor, registryVars, patchedIn, pollLock, lapsed, failureAudited>>

PollFails(p, r) ==
    /\ poll[p].phase = "running" /\ r \in poll[p].reports
    /\ poll' = [poll EXCEPT ![p].reports = @ \ {r}]
    /\ failureAudited' = failureAudited \cup {r}
    /\ UNCHANGED <<rowVars, calcApproved, jobVars, editor, registryVars, patchedIn, pollLock, lapsed>>

\* The lock has no owner: its holder deletes whatever key is there.
EndPoll(p) ==
    /\ poll[p].phase = "running" /\ poll[p].reports = {}
    /\ pollLock' = IF poll[p].holds THEN FALSE ELSE pollLock
    /\ poll' = [poll EXCEPT ![p] = NoPoll]
    /\ UNCHANGED <<rowVars, calcApproved, jobVars, editor, registryVars, patchedIn, lapsed, failureAudited>>

\* A worker that is killed leaves its key to the expiry.
PollDies(p) ==
    /\ poll[p].phase = "running" /\ poll' = [poll EXCEPT ![p] = NoPoll]
    /\ UNCHANGED <<rowVars, calcApproved, jobVars, editor, registryVars, patchedIn, pollLock, lapsed, failureAudited>>

PollLockExpires ==
    /\ pollLock /\ pollLock' = FALSE
    /\ lapsed' = (lapsed \/ \E p \in Polls : poll[p].phase = "running" /\ poll[p].holds)
    /\ UNCHANGED <<rowVars, calcApproved, jobVars, editor, registryVars, patchedIn, poll, failureAudited>>

-----------------------------------------------------------------------------
RunJob(j) == StartGeneration(j) \/ \E issues \in SUBSET GateIssues : FinishGeneration(j, QualityGates(issues))

OperatorNext ==
    \/ \E r \in ReportIds : \/ DeleteReport(r) \/ \E s \in {"draft", "approved", "submitted"}, d \in {"none", "edited"} :
                                                    CreateReport(r, s, d)
                            \/ \E v \in {"verified", "rejected"} : RegistryDecides(r, v)
    \/ CalculationRejected
    \/ \E e \in Editors :
          \/ \E r \in ReportIds : LoadForSubmission(e, r) \/ \E to \in ReportStatus : LoadForPatch(e, r, to)
          \/ \E d \in {"none", "edited", Unwritten} : UpdateReport(e, d)
          \/ \E n \in 0..MaxCopies, answer \in {"success", "error"} : PostToRegistry(e, n, answer)
          \/ SubmitReportToRegistry(e)

GenerationNext ==
    \E j \in Jobs : \/ \E r \in ReportIds : GenerateReportEndpoint(j, r)
                    \/ RunJob(j) \/ GenerationFails(j) \/ GenerationRedelivered(j)

PollNext ==
    \/ \E p \in Polls : \/ \E up \in BOOLEAN : StartPoll(p, up)
                        \/ \E r \in ReportIds : PollProject(p, r) \/ PollFails(p, r)
                        \/ EndPoll(p) \/ PollDies(p)
    \/ PollLockExpires

RepNext == OperatorNext \/ GenerationNext \/ PollNext

ReportsSpec == RepInit /\ [][RepNext]_repVars

\* Workers take what is queued and finish it.
GenerationFairness == \A j \in Jobs : WF_repVars(RunJob(j))

\* Beat starts a poll every day, and a poll works through what it has loaded.
PollFairness ==
    /\ \A p \in Polls : /\ WF_repVars(StartPoll(p, TRUE)) /\ WF_repVars(EndPoll(p))
                        /\ \A r \in ReportIds : WF_repVars(PollProject(p, r))
    /\ WF_repVars(PollLockExpires)

-----------------------------------------------------------------------------
(* Properties *)

\* report_jobs.poll_registry_statuses: the lock keeps two polls apart, except
\* after it expired under a running one or while Redis was unreachable.
PollsExclusive == Cardinality({p \in Polls : poll[p].phase = "running"}) > 1 => lapsed

\* generate_report_async: a report without content whose generation was asked for gets
\* its html, unless an operator puts a content there first, the refusal of a registry
\* is written over it, or the retries are used up: through failures, redeliveries,
\* edits and submissions.  (One that has a content, be it the text of a refusal,
\* keeps it: the html of a later generation is lost.)
GenerationConcludes == \A j \in Jobs, r \in ReportIds :
    (repJob[j].phase = "queued" /\ repJob[j].report = r /\ Exists(r) /\ report[r].draft = "none") ~>
        (~Exists(r) \/ report[r].draft \in Html \cup {"edited", "error"} \/ r \in gaveUp)

\* submit_report_to_registry: a report counts as submitted only if the registry
\* holds it or an operator said so, whatever a generation or another submission
\* wrote in the meantime.
SubmittedIsHeld == \A r \in ReportIds :
    report[r].status = "submitted" => copies[r] > 0 \/ r \in patchedIn

\* tasks/report_jobs.py, api/reports.py: generation, submission and polling, which write
\* the same rows, leave a status that is true.
ReportsHold ==
    /\ \A r \in ReportIds : report[r] \in Report \cup {NoReport, Deleted}
    /\ SubmittedIsHeld /\ PollsExclusive

\* poll_registry_statuses, "Poll all registries for project status updates.": a
\* report whose registry has decided does not stay submitted while polls run.
DecisionsArrive == \A r \in ReportIds :
    (report[r].status = "submitted" /\ decision[r] # "none") ~>
        (~Exists(r) \/ report[r].status # "submitted")

=============================================================================
