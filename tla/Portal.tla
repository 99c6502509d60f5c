------------------------------- MODULE Portal -------------------------------
(***************************************************************************)
(* One application of a project owner: the applicant's uploads and the     *)
(* operator's requests (api/applications.py) and the pipeline runs they    *)
(* queue, whose three steps take the application in, ask for documents and *)
(* classify them (services/application_pipeline.py, validation_engine/     *)
(* executors.py).  One type of document is required, the pdd.  A session   *)
(* writes a column only when it assigns something other than it has read.  *)
(***************************************************************************)
EXTENDS Integers, FiniteSets

CONSTANTS Documents,        \* files the applicant may upload
          Pdds,             \* those that are the required document
          Pipelines,        \* runs of ai_application_pipeline
          StepTries,        \* a failing step is executed this often before its run fails
          MaxHandled,       \* bound: items reviewers handle
          MaxPortalFaults   \* bound: requests and workers that die, deletions

\* The operator's request is told from the uploads.
ASSUME PortalAssumption == "operator" \notin Documents

VARIABLES application,  \* [status, missing, ran]: gap_findings, and whether a run is bound
          documents,    \* what each document is: "none", "fetched" or its type
          applicant,    \* [at, ran, status, run]: where each request is and what it has read
          pipeline,     \* [at, tries, read, status, missing, open, found]
          handOffs,     \* items of the review queue: [pending, handled]
          told,         \* what the last mail says is missing
          unsent,       \* the last mail that was due was not sent
          overlapped,   \* history: two runs were under way together
          portalFaults

portalVars == <<application, documents, applicant, pipeline, handOffs, told, unsent, overlapped, portalFaults>>

Gone == [status |-> "gone", missing |-> FALSE, ran |-> FALSE]
Requests == Documents \cup {"operator"}
NoVisit == [at |-> "none", ran |-> FALSE, status |-> "none", run |-> "none"]
NoPipeline == [at |-> "none", tries |-> 0, read |-> {}, status |-> "none", missing |-> FALSE,
               open |-> FALSE, found |-> {}]
Active == {p \in Pipelines : pipeline[p].at \in {"collect", "classify", "ask", "commit", "notify"}}

PortalInit ==
    /\ application = [status |-> "intake", missing |-> FALSE, ran |-> FALSE]
    /\ documents = [d \in Documents |-> "none"]
    /\ applicant = [r \in Requests |-> NoVisit] /\ pipeline = [p \in Pipelines |-> NoPipeline]
    /\ handOffs = [pending |-> 0, handled |-> 0] /\ told = FALSE
    /\ unsent = FALSE /\ overlapped = FALSE /\ portalFaults = 0

Saved(read, new, row) == IF new = read THEN row ELSE new
Visit(r, v) == applicant' = [applicant EXCEPT ![r] = v]
Pipe(p, v) == pipeline' = [pipeline EXCEPT ![p] = v]
PipeAt(p, place) == Pipe(p, [pipeline[p] EXCEPT !.at = place])
PipeEnds(p, place) == Pipe(p, [NoPipeline EXCEPT !.at = place])
VisitEnds(r) == Visit(r, [NoVisit EXCEPT !.at = "end", !.ran = applicant[r].ran])

(************************ requests *****************************************)
\* get_current_applicant loads the application; scan, storage and extraction follow.
Upload(d) ==
    /\ applicant[d].at = "none" /\ application # Gone
    /\ Visit(d, [NoVisit EXCEPT !.at = "store", !.ran = application.ran, !.status = application.status])
    /\ UNCHANGED <<application, documents, pipeline, handOffs, told, unsent, overlapped, portalFaults>>

\* A file that is malware, or that scanner or storage fail for; a deleted application.
RefuseUpload(d) ==
    /\ applicant[d].at = "store"
    /\ Visit(d, NoVisit)
    /\ UNCHANGED <<application, documents, pipeline, handOffs, told, unsent, overlapped, portalFaults>>

\* The run bound to the application, as the request has read it.
Retriggers(d) == applicant[d].ran

StoreDocument(d) ==
    /\ applicant[d].at = "store" /\ application # Gone
    /\ documents' = [documents EXCEPT ![d] = "fetched"]
    /\ IF Retriggers(d) THEN Visit(d, [applicant[d] EXCEPT !.at = "trigger"]) ELSE VisitEnds(d)
    /\ UNCHANGED <<application, pipeline, handOffs, told, unsent, overlapped, portalFaults>>

TriggerPipeline ==
    /\ applicant["operator"].at \in {"none", "end"} /\ application # Gone
    /\ Visit("operator", [NoVisit EXCEPT !.at = "trigger", !.status = application.status])
    /\ UNCHANGED <<application, documents, pipeline, handOffs, told, unsent, overlapped, portalFaults>>

FreePipelines == {p \in Pipelines : pipeline[p] = NoPipeline}
FreshRun == CHOOSE p \in FreePipelines : TRUE

\* The new run is committed and then bound; a deleted application is an error.
QueueRun(r) ==
    /\ applicant[r].at = "trigger"
    /\ FreePipelines # {}
    /\ IF application = Gone
       THEN VisitEnds(r) /\ UNCHANGED <<application, pipeline>>
       ELSE /\ application' = [application EXCEPT !.ran = TRUE,
                  !.status = Saved(applicant[r].status, "documents_pending", @)]
            /\ Visit(r, [applicant[r] EXCEPT !.at = "publish", !.run = FreshRun])
            /\ PipeAt(FreshRun, "pending")
    /\ UNCHANGED <<documents, handOffs, told, unsent, overlapped, portalFaults>>

PublishRun(r) ==
    /\ applicant[r].at = "publish"
    /\ PipeAt(applicant[r].run, "queued")
    /\ VisitEnds(r)
    /\ UNCHANGED <<application, documents, handOffs, told, unsent, overlapped, portalFaults>>

\* Or the broker refuses the message, which an upload only logs.
VisitDies(r) ==
    /\ applicant[r].at \in {"trigger", "publish"} /\ portalFaults < MaxPortalFaults
    /\ VisitEnds(r) /\ portalFaults' = portalFaults + 1
    /\ UNCHANGED <<application, documents, pipeline, handOffs, told, unsent, overlapped>>

\* An operator may set any status.
UpdateApplication ==
    /\ application # Gone
    /\ application' = [application EXCEPT !.status = "approved"]
    /\ UNCHANGED <<documents, applicant, pipeline, handOffs, told, unsent, overlapped, portalFaults>>

DeleteApplication ==
    /\ application # Gone /\ application' = Gone
    /\ documents' = [d \in Documents |-> "none"]
    /\ portalFaults < MaxPortalFaults /\ portalFaults' = portalFaults + 1
    /\ UNCHANGED <<applicant, pipeline, handOffs, told, unsent, overlapped>>

HandleItem ==
    /\ handOffs.pending > 0 /\ handOffs.handled < MaxHandled
    /\ handOffs' = [pending |-> handOffs.pending - 1, handled |-> handOffs.handled + 1]
    /\ UNCHANGED <<application, documents, applicant, pipeline, told, unsent, overlapped, portalFaults>>

(************************ the pipeline *************************************)
\* The run is remediated by executing the step again, until its remediations are used up.
StepFails(p, step) ==
    IF pipeline[p].tries + 1 < StepTries
    THEN Pipe(p, [pipeline[p] EXCEPT !.at = step, !.tries = @ + 1])
    ELSE PipeEnds(p, "failed")

Intake(p) ==
    /\ pipeline[p].at = "queued"
    /\ PipeAt(p, IF application = Gone THEN "failed" ELSE "collect")
    /\ overlapped' = (overlapped \/ Active # {})
    /\ UNCHANGED <<application, documents, applicant, handOffs, told, unsent, portalFaults>>

Collect(p) ==
    /\ pipeline[p].at = "collect"
    /\ IF application = Gone THEN PipeEnds(p, "failed") /\ UNCHANGED application
       ELSE /\ application' = [application EXCEPT !.status = "documents_pending"]
            /\ PipeAt(p, "classify")
    /\ UNCHANGED <<documents, applicant, handOffs, told, unsent, overlapped, portalFaults>>

ReadDocuments(p) ==
    /\ pipeline[p].at = "classify"
    /\ Pipe(p, [pipeline[p] EXCEPT !.at = "ask", !.read = {d \in Documents : documents[d] # "none"}])
    /\ UNCHANGED <<application, documents, applicant, handOffs, told, unsent, overlapped, portalFaults>>

ModelFails(p) ==
    /\ pipeline[p].at = "ask" /\ pipeline[p].read # {}
    /\ StepFails(p, "classify")
    /\ UNCHANGED <<application, documents, applicant, handOffs, told, unsent, overlapped, portalFaults>>

\* scalar_one_or_none: two pending items are an error.
AnItemIsOpen == handOffs.pending > 0

\* The model may not recognise a document.  The guidance it drafts for a missing one
\* takes its time before the commit.
ReadApplication(p) ==
    /\ pipeline[p].at = "ask"
    /\ \E hits \in SUBSET (pipeline[p].read \cap Pdds) :
          IF application = Gone /\ pipeline[p].read = {} THEN PipeEnds(p, "done")
          ELSE IF application = Gone \/ (hits # {} /\ handOffs.pending > 1) THEN StepFails(p, "classify")
          ELSE Pipe(p, [pipeline[p] EXCEPT !.at = "commit", !.status = application.status,
                          !.missing = application.missing, !.open = AnItemIsOpen, !.found = hits])
    /\ UNCHANGED <<application, documents, applicant, handOffs, told, unsent, overlapped, portalFaults>>

\* Slip: what was missing before is read back after the new findings are assigned.
ReadsBack(p) == FALSE

MissingChanged(p) == pipeline[p].missing # (pipeline[p].found = {})

\* The findings hold drafted text: whether they count as changed is open.
CommitFindings(p) ==
    /\ pipeline[p].at = "commit"
    /\ LET v == pipeline[p]
           missing == v.found = {}
       IN IF application = Gone \/ \E d \in v.read : documents[d] = "none"
          THEN StepFails(p, "classify") /\ UNCHANGED <<application, documents, handOffs>>
          ELSE /\ documents' = [d \in Documents |-> IF d \notin v.read THEN documents[d]
                                                    ELSE IF d \in v.found THEN "pdd" ELSE "other"]
               /\ \E gaps \in {missing, Saved(v.missing, missing, application.missing)} :
                     application' = [application EXCEPT !.missing = gaps,
                        !.status = Saved(v.status, IF missing THEN "gaps" ELSE "pre_audit", @)]
               /\ handOffs' = IF missing \/ v.open THEN handOffs ELSE [handOffs EXCEPT !.pending = @ + 1]
               /\ IF MissingChanged(p) THEN PipeAt(p, "notify") ELSE PipeEnds(p, "done")
    /\ UNCHANGED <<applicant, told, unsent, overlapped, portalFaults>>

\* Best effort: without an address nothing is sent, a send that fails is logged, and
\* neither is repeated before the findings change again.
NotifyGapChange(p) ==
    /\ pipeline[p].at = "notify"
    /\ \/ told' = (pipeline[p].found = {}) /\ unsent' = FALSE
       \/ unsent' = TRUE /\ UNCHANGED told
    /\ PipeEnds(p, "done")
    /\ UNCHANGED <<application, documents, applicant, handOffs, overlapped, portalFaults>>

PipelineDies(p) ==
    /\ p \in Active /\ portalFaults < MaxPortalFaults
    /\ PipeEnds(p, "failed") /\ portalFaults' = portalFaults + 1
    /\ UNCHANGED <<application, documents, applicant, handOffs, told, unsent, overlapped>>

PortalNext ==
    \/ \E d \in Documents : Upload(d) \/ RefuseUpload(d) \/ StoreDocument(d)
    \/ \E r \in Requests : QueueRun(r) \/ PublishRun(r) \/ VisitDies(r)
    \/ TriggerPipeline \/ UpdateApplication \/ DeleteApplication \/ HandleItem
    \/ \E p \in Pipelines :
          \/ Intake(p) \/ Collect(p) \/ ReadDocuments(p) \/ ModelFails(p) \/ ReadApplication(p)
          \/ CommitFindings(p) \/ NotifyGapChange(p) \/ PipelineDies(p)

PortalSpec == PortalInit /\ [][PortalNext]_portalVars

(************************ properties ***************************************)
\* Nothing is under way and nothing has gone wrong.
PortalSettled ==
    /\ \A r \in Requests : applicant[r].at \in {"none", "end"}
    /\ \A p \in Pipelines : pipeline[p].at \in {"none", "done"}
    /\ portalFaults = 0 /\ application # Gone

\* A document uploaded once a run is bound to the application does not stay
\* unclassified, whatever runs were under way (api/applications.py:296).
UploadsAreClassified ==
    PortalSettled => \A d \in Documents : documents[d] = "fetched" => ~applicant[d].ran

\* Runs that do not overlap leave the applicant with a mail that says what the
\* application says is missing, unless just the mail of the last change was lost
\* (validation_engine/executors.py:941, 1000, 1049).
Informed == told = application.missing \/ unsent
ToldWhatIsMissing == PortalSettled /\ ~overlapped => Informed

\* Runs that do not overlap hand an application over once, however often it is
\* completed while the item waits (validation_engine/executors.py:913).
OneHandOff == ~overlapped => handOffs.pending <= 1

\* The applicant and the staff end up with what the documents say (executors.py:880).
ApplicantIsServed == UploadsAreClassified /\ ToldWhatIsMissing /\ OneHandOff
=============================================================================
