---------------------------- MODULE LeadPipeline ----------------------------
(***************************************************************************)
(* One lead of a registry: scraped, imported, scored, its documents        *)
(* fetched, converted into a project and pre-audited (tasks/lead_jobs.py,  *)
(* tasks/pre_audit_jobs.py, api/leads.py, services/lead_intelligence).     *)
(* Celery acknowledges late: a message whose worker dies comes back.  A    *)
(* process computes with the rows it loaded and UPDATE names only the      *)
(* columns that differ from them.                                          *)
(***************************************************************************)
EXTENDS Integers, FiniteSets, FiniteSetsExt, SequencesExt

CONSTANTS LeadWorkers,       \* Celery workers and API sessions
          Urls,              \* documents a registry may offer for the lead
          DaysSeen, DaysLeft, \* days in status and days to the deadline that may be found or entered
          HandRatings,       \* scores and priorities a person may enter
          HandDates,         \* crediting periods a person may enter
          MAX_RETRIES,       \* retries of a task
          MAX_DOCUMENT_FETCH_ATTEMPTS,
          MaxRequests,       \* bound: fetches and conversions asked for by hand
          MaxFaults          \* bound: failures and deaths

ASSUME LeadAssumption ==
    /\ MAX_RETRIES \in Nat /\ MAX_DOCUMENT_FETCH_ATTEMPTS \in Nat /\ MaxFaults \in Nat
    /\ IsFiniteSet(Urls) /\ DaysSeen \subseteq Int /\ DaysLeft \subseteq Int
    /\ HandDates \subseteq {"missing", "ordered", "inverted"}
    /\ HandRatings \subseteq [score : Int, priority : {"critical", "high", "medium", "low"}]

VARIABLES lead,        \* the row, or NoLead, or DeletedLead
          leadDoc,     \* LeadDocument rows
          leadProject, \* projects made of the lead
          leadQueue,   \* Celery messages, oldest first
          leadWork,    \* what each worker is doing
          offered,     \* external: documents the registry offers
          faults,      \* failures and deaths so far
          requests,    \* those so far
          overlap,     \* history: kinds of work of which two overlapped
          byHand,      \* history: the score or the priority was last entered by a person
          lost         \* history: projects whose pre-audit was given up or never asked for

leadVars == <<lead, leadDoc, leadProject, leadQueue, leadWork, offered, faults, requests, overlap, byHand, lost>>

NoLead == [status |-> "none"]
DeletedLead == [status |-> "deleted"]
HasLead == lead \notin {NoLead, DeletedLead}
LeadDocument(u) == [url |-> u, status |-> "discovered", attempts |-> 0, cool |-> TRUE]
Message(task, from, p) == [task |-> task, from |-> from, project |-> p, tries |-> 0]
Request == Message("convert", "api", 0)   \* an API session: nothing brings it back
Idle == [at |-> "idle"]

\* A message that already waits stands for its duplicates.
Send(q, m) == IF m \in ToSet(q) THEN q ELSE Append(q, m)
Asks(m) == m \notin ToSet(leadQueue) /\ leadQueue' = Append(leadQueue, m)
Goes(w, next) == leadWork' = [leadWork EXCEPT ![w] = next]
Ends(w) == Goes(w, Idle)
Doing(w, step) == leadWork[w].at = step
Msg(w) == leadWork[w].msg

LeadInit == /\ lead = NoLead /\ leadDoc = <<>> /\ leadProject = <<>> /\ leadQueue = <<>>
            /\ leadWork = [w \in LeadWorkers |-> Idle]
            /\ offered \in SUBSET Urls /\ faults = 0 /\ requests = 0 /\ overlap = {} /\ byHand = FALSE /\ lost = {}

-----------------------------------------------------------------------------
(* Scores, in hundredths *)

Least(a, b) == IF a < b THEN a ELSE b

TimeInStageScore(days, threshold) ==
    CASE days <= 0         -> 0
      [] days >= threshold -> 4000
      [] OTHER             -> (2000 * days) \div threshold
DeadlineProximityScore(left) ==
    CASE left < 0   -> 2500
      [] left > 180 -> 0
      [] OTHER      -> (2500 * (180 - left)) \div 180
VerificationGapScore(since) ==
    CASE since <= 365 -> 0
      [] since >= 730 -> 2000
      [] OTHER        -> (2000 * (since - 365)) \div 365
ScoreLead(days, threshold, left, gap, weight) ==
    Least(10000, TimeInStageScore(days, threshold) + DeadlineProximityScore(left) + gap + weight)

PriorityFromScore(s) == CASE s >= 7600 -> "critical" [] s >= 5600 -> "high"
                          [] s >= 3100 -> "medium"   [] OTHER     -> "low"
\* A lead under validation, verified 700 days ago, of an unknown methodology.
Stuck(days, left) == ScoreLead(days, 365, left, VerificationGapScore(700), 750)

\* What a process keeps of the row it loaded.
Loaded == IF HasLead THEN [score |-> lead.score, priority |-> lead.priority] ELSE NoLead

\* The columns of the score that an UPDATE names.
Scored(row, loaded, s) ==
    [row EXCEPT !.score = IF s = loaded.score THEN @ ELSE s,
                !.priority = IF PriorityFromScore(s) = loaded.priority THEN @ ELSE PriorityFromScore(s)]

Overlaps(steps, kind) == IF \E v \in LeadWorkers : leadWork[v].at \in steps
                         THEN overlap \cup {kind} ELSE overlap
ScoringSteps == {"upsert", "scored"}

ScoreLoad(w) ==
    /\ Doing(w, "idle") /\ HasLead
    /\ Goes(w, [at |-> "scored", loaded |-> Loaded, score |-> Stuck(lead.days, lead.left)])
    /\ overlap' = Overlaps(ScoringSteps, "score")
    /\ UNCHANGED <<lead, leadDoc, leadProject, leadQueue, offered, faults, byHand, lost, requests>>

CheckDeadlines(w) ==
    /\ Doing(w, "idle") /\ HasLead /\ lead.status # "converted" /\ lead.left \in 0..30
    /\ Goes(w, [at |-> "scored", loaded |-> Loaded, score |-> Least(lead.score + 1500, 10000)])
    /\ overlap' = Overlaps(ScoringSteps, "score")
    /\ UNCHANGED <<lead, leadDoc, leadProject, leadQueue, offered, faults, byHand, lost, requests>>

\* A row that is gone fails the commit.
StoreScore(w) ==
    /\ Doing(w, "scored") /\ Ends(w)
    /\ lead' = IF HasLead THEN Scored(lead, leadWork[w].loaded, leadWork[w].score) ELSE lead
    /\ byHand' = IF HasLead THEN FALSE ELSE byHand
    /\ UNCHANGED <<leadDoc, leadProject, leadQueue, offered, faults, overlap, lost, requests>>

-----------------------------------------------------------------------------
(* Leads arrive *)

\* What a scrape inserts, where the registry gives no start.  Of start and end of the
\* crediting period at least one is missing, the end is after the start ("ordered"), or
\* it is not ("inverted"): nothing that stores them compares the two.
Lead(days, left) ==
    [status |-> "new", dates |-> "missing", project |-> 0, fingerprint |-> {}, days |-> days, left |-> left,
     score |-> Stuck(days, left), priority |-> PriorityFromScore(Stuck(days, left))]

\* A bulk import knows nothing of the lead: score 0.
ImportedLead == [Lead(0, 400) EXCEPT !.score = 0, !.priority = "low"]

\* The scrape task ("beat") and its endpoint ("api") load the lead of an external id.
ScrapeLoad(w, from, days, left) ==
    /\ Doing(w, "idle") /\ lead # DeletedLead
    /\ Goes(w, [at |-> "upsert", from |-> from, loaded |-> Loaded, days |-> days, left |-> left])
    /\ overlap' = Overlaps(ScoringSteps, "score")
    /\ UNCHANGED <<lead, leadDoc, leadProject, leadQueue, offered, faults, byHand, lost, requests>>

BulkImportLoad(w) ==
    /\ Doing(w, "idle") /\ lead = NoLead
    /\ Goes(w, [at |-> "import"])
    /\ UNCHANGED <<lead, leadDoc, leadProject, leadQueue, offered, faults, overlap, byHand, lost, requests>>

\* The unique pair of registry and external id refuses a second insert, a row
\* that is gone refuses an update: everything of this scrape is rolled back.
Collides(new) == new # (lead = NoLead)

\* The dates of a lead that exists are not updated: the score uses the new ones.
UpsertLead(w) ==
    /\ Doing(w, "upsert")
    /\ IF Collides(leadWork[w].loaded = NoLead) \/ lead = DeletedLead THEN Ends(w) /\ UNCHANGED <<lead, byHand>>
       ELSE LET c == leadWork[w] IN
            /\ lead' = IF lead = NoLead THEN Lead(c.days, c.left)
                       ELSE [Scored(lead, c.loaded, Stuck(c.days, c.left)) EXCEPT !.days = c.days]
            /\ Goes(w, IF c.from = "beat" THEN [at |-> "queueFetch"] ELSE Idle)
            /\ byHand' = FALSE
    /\ UNCHANGED <<leadDoc, leadProject, leadQueue, offered, faults, overlap, lost, requests>>

ImportLead(w) ==
    /\ Doing(w, "import")
    /\ IF Collides(TRUE) THEN Ends(w) /\ UNCHANGED lead
       ELSE /\ lead' = ImportedLead
            /\ Goes(w, [at |-> "queueFetch"])
    /\ UNCHANGED <<leadDoc, leadProject, leadQueue, offered, faults, overlap, byHand, lost, requests>>

\* After the commit, and not at all if the process dies between the two.
QueueFetch(w) ==
    /\ Doing(w, "queueFetch") /\ Ends(w)
    /\ leadQueue' = Send(leadQueue, Message("fetch", "scrape", 0))
    /\ UNCHANGED <<lead, leadDoc, leadProject, offered, faults, overlap, byHand, lost, requests>>

\* A person enters a lead: score and priority are two fields of the form as well.
CreateLead(row) ==
    /\ lead = NoLead /\ lead' = row
    /\ byHand' = (row.priority # PriorityFromScore(row.score))
    /\ UNCHANGED <<leadDoc, leadProject, leadQueue, leadWork, offered, faults, overlap, lost, requests>>

\* A person qualifies the lead, enters or corrects its dates, its score or its priority.
UpdateLead(row) ==
    /\ HasLead /\ lead' = row /\ row # lead
    /\ lead.project = 0                                         \* bound
    /\ lead.dates = "ordered" => row.dates = "ordered"          \* bound: not taken back
    /\ IF row.score = lead.score /\ row.priority = lead.priority THEN UNCHANGED <<overlap, byHand>>
       ELSE overlap' = Overlaps(ScoringSteps, "score") /\ byHand' = TRUE
    /\ UNCHANGED <<leadDoc, leadProject, leadQueue, leadWork, offered, faults, lost, requests>>

DeleteLead == /\ HasLead /\ lead' = DeletedLead
              /\ leadDoc' = [r \in DOMAIN leadDoc |-> [leadDoc[r] EXCEPT !.status = "gone"]]
              /\ UNCHANGED <<leadProject, leadQueue, leadWork, offered, faults, overlap, byHand, lost, requests>>

\* Also what is left of the import of a lead that exists: it changes no column of here.
FetchEndpoint == /\ HasLead /\ Asks(Message("fetch", "api", 0))
                 /\ requests < MaxRequests /\ requests' = requests + 1
                 /\ UNCHANGED <<lead, leadDoc, leadProject, leadWork, offered, faults, overlap, byHand, lost>>

-----------------------------------------------------------------------------
(* Tasks: taken, acknowledged when they end, retried when they raise *)

FetchSteps == {"fetch", "store", "fetching", "fingerprint"}

\* Slip: a lead that was converted is converted again.
ValidatesDates == HasLead /\ lead.dates = "ordered"

ValidateLead == ValidatesDates /\ lead.project = 0

\* A lead that must not be converted is skipped: the task ends.
LoadForConversion(w, m) ==
    /\ Goes(w, IF ValidateLead THEN [at |-> "attach", msg |-> m] ELSE Idle)
    /\ overlap' = IF ValidateLead THEN Overlaps({"attach"}, "convert") ELSE overlap

ConvertEndpoint(w) ==
    /\ Doing(w, "idle") /\ HasLead /\ LoadForConversion(w, Request)
    /\ requests < MaxRequests /\ requests' = requests + 1
    /\ UNCHANGED <<lead, leadDoc, leadProject, leadQueue, offered, faults, byHand, lost>>

TakeTask(w) ==
    /\ Doing(w, "idle") /\ leadQueue # <<>>
    /\ leadQueue' = Tail(leadQueue)
    /\ LET m == Head(leadQueue) IN
       CASE m.task = "convert" -> LoadForConversion(w, m)
         [] m.task = "fetch" -> /\ Goes(w, [at |-> "fetch", msg |-> m])
                                /\ overlap' = Overlaps(FetchSteps, "fetch")
         [] OTHER -> Goes(w, [at |-> "preaudit", msg |-> m]) /\ UNCHANGED overlap
    /\ UNCHANGED <<lead, leadDoc, leadProject, offered, faults, byHand, lost, requests>>

\* The project a worker was to pre-audit, if any.
PendingAudit(w) == IF Doing(w, "queueAudit") \/ Doing(w, "preaudit")
                   THEN {IF Msg(w).task = "preaudit" THEN Msg(w).project ELSE leadWork[w].project}
                   ELSE {}

\* An exception: the task is queued again, or given up.  A request just fails.
Raises(w) ==
    /\ Ends(w)
    /\ LET again == Msg(w) # Request /\ Msg(w).tries < MAX_RETRIES IN
       /\ leadQueue' = IF again THEN Send(leadQueue, [Msg(w) EXCEPT !.tries = @ + 1]) ELSE leadQueue
       /\ lost' = IF again THEN lost ELSE lost \cup PendingAudit(w)

Fails(w) == faults < MaxFaults /\ faults' = faults + 1 /\ Raises(w)

\* The message of a worker that dies is delivered again; a request is gone.
WorkerDies(w) ==
    /\ ~Doing(w, "idle") /\ faults < MaxFaults /\ faults' = faults + 1 /\ Ends(w)
    /\ LET task == "msg" \in DOMAIN leadWork[w] /\ Msg(w) # Request IN
       /\ leadQueue' = IF task THEN Send(leadQueue, Msg(w)) ELSE leadQueue
       /\ lost' = IF task /\ Doing(w, "preaudit") THEN lost
                  ELSE lost \cup (IF "msg" \in DOMAIN leadWork[w] THEN PendingAudit(w) ELSE {})
    /\ UNCHANGED <<lead, leadDoc, leadProject, offered, overlap, byHand, requests>>


-----------------------------------------------------------------------------
(* fetch_lead_documents *)

Rows == DOMAIN leadDoc
UrlsOf(rows) == {leadDoc[r].url : r \in rows}
Fetched == {r \in Rows : leadDoc[r].status = "fetched"}
ComputeDocumentFingerprint == UrlsOf(Fetched)

\* One row per address: of several, the dictionary keeps the last.
Existing == {r \in Rows : leadDoc[r].status # "gone" /\ \A q \in Rows : leadDoc[q].url = leadDoc[r].url => q <= r}

DocsToFetch(known) == {r \in known : leadDoc[r].status # "fetched"}

\* The scraper answers, the rows are read.  A fetched document is not fetched again.
DiscoverDocuments(w) ==
    /\ Doing(w, "fetch")
    /\ Goes(w, IF ~HasLead THEN Idle
               ELSE LET known == {r \in Existing : leadDoc[r].url \in offered} IN
                    [at |-> "store", msg |-> Msg(w), new |-> offered \ UrlsOf(known),
                     todo |-> [r \in DocsToFetch(known) |-> leadDoc[r]]])
    /\ UNCHANGED <<lead, leadDoc, leadProject, leadQueue, offered, faults, overlap, byHand, lost, requests>>

StoreDiscovered(w) ==
    /\ Doing(w, "store")
    /\ LET new == SetToSeq({LeadDocument(u) : u \in leadWork[w].new})
           rows == leadDoc \o new
           todo == leadWork[w].todo IN
       IF new # <<>> /\ ~HasLead THEN Raises(w) /\ UNCHANGED leadDoc
       ELSE /\ leadDoc' = rows
            /\ Goes(w, [at |-> "fetching", msg |-> Msg(w),
                        todo |-> [r \in DOMAIN todo \cup (Len(leadDoc) + 1)..Len(rows) |->
                                     IF r \in DOMAIN todo THEN todo[r] ELSE rows[r]]])
            /\ UNCHANGED <<leadQueue, lost>>
    /\ UNCHANGED <<lead, leadProject, offered, faults, overlap, byHand, requests>>

\* The download, the scan and the storage: any of them may fail, and the reason
\* is stored.  A row that is gone raises at the commit.  The attempts and the time
\* of a document that is fetched are never read again.
FetchDocument(w, r, result) ==
    /\ Doing(w, "fetching") /\ r \in DOMAIN leadWork[w].todo
    /\ result = "failed" => faults < MaxFaults
    /\ LET loaded == leadWork[w].todo[r] IN
       IF leadDoc[r].status = "gone" THEN Raises(w) /\ UNCHANGED <<leadDoc, faults>>
       ELSE /\ leadDoc' = [leadDoc EXCEPT ![r].status = IF result = loaded.status THEN @ ELSE result,
                                         ![r].attempts = IF result = "fetched" THEN @ ELSE loaded.attempts + 1,
                                         ![r].cool = result = "fetched"]
            /\ faults' = IF result = "failed" THEN faults + 1 ELSE faults
            /\ Goes(w, [leadWork[w] EXCEPT !.todo = [q \in DOMAIN @ \ {r} |-> @[q]]])
            /\ UNCHANGED <<leadQueue, lost>>
    /\ UNCHANGED <<lead, leadProject, offered, overlap, byHand, requests>>

StoreFingerprint(w) ==
    /\ Doing(w, "fetching") /\ leadWork[w].todo = <<>>
    /\ lead' = IF HasLead THEN [lead EXCEPT !.fingerprint = ComputeDocumentFingerprint] ELSE lead
    /\ Ends(w)
    /\ UNCHANGED <<leadDoc, leadProject, leadQueue, offered, faults, overlap, byHand, lost, requests>>

PendingDoc(r) == \/ leadDoc[r].status = "discovered"
                 \/ leadDoc[r].status = "failed" /\ leadDoc[r].attempts < MAX_DOCUMENT_FETCH_ATTEMPTS /\ leadDoc[r].cool

FetchAllPendingDocuments ==
    /\ HasLead /\ \E r \in Rows : PendingDoc(r)
    /\ Asks(Message("fetch", "beat", 0))
    /\ UNCHANGED <<lead, leadDoc, leadProject, leadWork, offered, faults, overlap, byHand, lost, requests>>

\* DOCUMENT_FETCH_RETRY_MINUTES pass.
CooldownPasses ==
    /\ \E r \in Rows : ~leadDoc[r].cool
    /\ leadDoc' = [r \in Rows |-> [leadDoc[r] EXCEPT !.cool = TRUE]]
    /\ UNCHANGED <<lead, leadProject, leadQueue, leadWork, offered, faults, overlap, byHand, lost, requests>>

RegistryPublishes(u) ==
    /\ offered' = offered \cup {u} /\ offered' # offered
    /\ UNCHANGED <<lead, leadDoc, leadProject, leadQueue, leadWork, faults, overlap, byHand, lost, requests>>

-----------------------------------------------------------------------------
(* Conversion and pre-audit *)

\* Project, uploads and data sources of the fetched documents, and the lead, in one commit.
Convert(w) ==
    /\ Doing(w, "attach")
    /\ IF ~HasLead THEN Raises(w) /\ UNCHANGED <<lead, leadProject>>
       ELSE /\ leadProject' = Append(leadProject, [docs |-> Fetched, basis |-> {}, audits |-> 0])
            /\ lead' = [lead EXCEPT !.project = Len(leadProject) + 1, !.status = "converted"]
            /\ Goes(w, [at |-> IF Msg(w) = Request THEN "preaudit" ELSE "queueAudit",
                        msg |-> Msg(w), project |-> Len(leadProject) + 1])
            /\ UNCHANGED <<leadQueue, lost>>
    /\ UNCHANGED <<leadDoc, offered, faults, overlap, byHand, requests>>

\* Slip: the pre-audit is left to the nightly task.
QueuesNoAudit(w) ==
    /\ Doing(w, "queueAudit") /\ Ends(w)
    /\ UNCHANGED <<lead, leadDoc, leadProject, leadQueue, offered, faults, overlap, byHand, lost, requests>>

QueuePreAudit(w) ==
    /\ Doing(w, "queueAudit") /\ Ends(w)
    /\ leadQueue' = Send(leadQueue, Message("preaudit", "convert", leadWork[w].project))
    /\ UNCHANGED <<lead, leadDoc, leadProject, offered, faults, overlap, byHand, lost, requests>>

\* The run is created and executed, its result stored as one more pre-audit.
\* basis: history, the documents of the lead at that time.
RunForProject(w) ==
    /\ Doing(w, "preaudit") /\ Ends(w)
    /\ LET p == CHOOSE q \in PendingAudit(w) : TRUE IN
       leadProject' = [leadProject EXCEPT ![p].audits = 1, ![p].basis = ComputeDocumentFingerprint]
    /\ UNCHANGED <<lead, leadDoc, leadQueue, offered, faults, overlap, byHand, lost, requests>>

\* The scraper, the database or the validation run fails.
TaskFails(w) == /\ \E s \in {"fetch", "attach", "preaudit"} : Doing(w, s)
                /\ Fails(w)
                /\ UNCHANGED <<lead, leadDoc, leadProject, offered, overlap, byHand, requests>>

\* A crediting period that ends before it starts is queued, every night, and then skipped.
Convertible == /\ HasLead /\ lead.status \in {"qualified", "proposal_sent"}
               /\ lead.project = 0 /\ lead.dates # "missing" /\ Fetched # {}

RunPreAuditPipeline ==
    /\ Convertible
    /\ Asks(Message("convert", "beat", 0))
    /\ UNCHANGED <<lead, leadDoc, leadProject, leadWork, offered, faults, overlap, byHand, lost, requests>>

\* Where the documents of the lead are not loaded yet the comparison raises, and
\* the task does nothing: that it runs is the best case.
ReAuditChangedProjects ==
    /\ HasLead /\ lead.project # 0 /\ Fetched # {} /\ lead.fingerprint # ComputeDocumentFingerprint
    /\ Asks(Message("preaudit", "beat", lead.project))
    /\ lead' = [lead EXCEPT !.fingerprint = ComputeDocumentFingerprint]
    /\ UNCHANGED <<leadDoc, leadProject, leadWork, offered, faults, overlap, byHand, lost, requests>>

-----------------------------------------------------------------------------
ScoringNext ==
    \E w \in LeadWorkers :
       \/ ScoreLoad(w) \/ CheckDeadlines(w) \/ StoreScore(w) \/ UpsertLead(w)
       \/ QueueFetch(w)
       \/ \E from \in {"beat", "api"}, d \in DaysSeen, l \in DaysLeft : ScrapeLoad(w, from, d, l)
       \/ \E given \in HandRatings, l \in DaysLeft :
             \/ CreateLead([ImportedLead EXCEPT !.score = given.score, !.priority = given.priority, !.left = l])
             \/ UpdateLead([lead EXCEPT !.score = given.score, !.priority = given.priority, !.left = l])

WorkStep(w) ==
    \/ TakeTask(w) \/ ImportLead(w) \/ QueueFetch(w)
    \/ DiscoverDocuments(w) \/ StoreDiscovered(w) \/ StoreFingerprint(w)
    \/ \E r \in Rows, result \in {"fetched", "failed"} : FetchDocument(w, r, result)
    \/ Convert(w) \/ QueuePreAudit(w) \/ RunForProject(w)

FetchSchedule == FetchAllPendingDocuments \/ CooldownPasses

PipelineNext ==
    \/ \E w \in LeadWorkers :
          \/ WorkStep(w) \/ WorkerDies(w) \/ TaskFails(w)
          \/ BulkImportLoad(w) \/ ConvertEndpoint(w)
    \/ FetchSchedule \/ RunPreAuditPipeline \/ ReAuditChangedProjects
    \/ DeleteLead \/ FetchEndpoint
    \/ CreateLead(ImportedLead)
    \/ \E d \in HandDates : UpdateLead([lead EXCEPT !.status = "qualified", !.dates = d])
    \/ \E u \in Urls : RegistryPublishes(u)

PipelineFairness ==
    /\ \A w \in LeadWorkers : WF_leadVars(WorkStep(w))
    /\ WF_leadVars(FetchAllPendingDocuments) /\ WF_leadVars(CooldownPasses) /\ WF_leadVars(RunPreAuditPipeline)

LeadSpec == LeadInit /\ [][PipelineNext \/ ScoringNext]_leadVars

-----------------------------------------------------------------------------
(* Safety *)

\* A lead becomes one project: a second one takes two conversions that were
\* both past the check before either committed.
OneProjectPerLead == Len(leadProject) > 1 => "convert" \in overlap

\* The documents of a project are distinct documents of the registry: a document
\* is attached twice only if two fetches discovered it at the same time.
DocumentsOnce ==
    \A p \in DOMAIN leadProject :
       LET docs == leadProject[p].docs IN Cardinality(UrlsOf(docs)) < Cardinality(docs) => "fetch" \in overlap

\* The priority a consultant sorts by is that of the score, whichever task computed
\* it last, from whatever a person had entered: unless two of the scoring tasks,
\* scrapes and requests overlapped, when one may write the score and keep the
\* priority of the other, and until a person enters either of the two again.
PriorityFitsScore == HasLead /\ ~byHand /\ "score" \notin overlap => lead.priority = PriorityFromScore(lead.score)

\* lead_intelligence: tasks that run twice or at once make nothing twice, unless the
\* two overlapped, and leave no half of a score.
LeadsHold == OneProjectPerLead /\ DocumentsOnce /\ PriorityFitsScore

(* Liveness *)

\* A project made of a lead is pre-audited, by the message of its conversion or by
\* its retries, unless the one process that would ask for it died.
ConvertedIsPreAudited ==
    \A p \in 1..2 : Len(leadProject) >= p ~> p \in lost \/ (Len(leadProject) >= p /\ leadProject[p].audits > 0)

Converts == Convertible /\ lead.dates = "ordered"

\* A qualified lead with a document, whose crediting period ends after it starts, is
\* converted some night: one whose period does not is skipped for ever.
QualifiedIsConverted == Converts ~> ~Converts

Untried(r) == r \in Rows /\ leadDoc[r].status = "discovered"

\* A document that was found does not stay untried, although the process that
\* found it died: but of two rows for one address only the last is ever tried.
DiscoveredIsTried ==
    \A r \in 1..Cardinality(Urls) : Untried(r) ~> ~Untried(r) \/ "fetch" \in overlap

\* lead_intelligence, pre_audit: a lead that is wanted gets on, step by step.
LeadsGoOn == ConvertedIsPreAudited /\ QualifiedIsConverted /\ DiscoveredIsTried

Outdated == /\ HasLead /\ lead.project = 1 /\ leadProject[1].audits > 0
            /\ leadProject[1].basis # ComputeDocumentFingerprint

\* docs/PRE_AUDIT_OPTIMIZATION.md:138: projects are audited again when their
\* fetched documents change.
ChangesAreReAudited ==
    Outdated ~> ~Outdated
=============================================================================
