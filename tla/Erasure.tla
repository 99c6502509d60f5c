------------------------------ MODULE Erasure ------------------------------
(***************************************************************************)
(* The right to erasure: requests of data subjects (api/compliance.py) and *)
(* the Celery task that carries them out (tasks/compliance_jobs.py), which *)
(* deletes rows of survey_responses and then their photos from S3,         *)
(* anonymises leads, or redacts a user.  The task is delivered at least    *)
(* once and starts from the beginning on every delivery.                   *)
(***************************************************************************)
EXTENDS Integers, Sequences, FiniteSets

CONSTANTS ErasureRequests,
          Asked,            \* what they may ask: a set of [ErasureRequests -> [kind, subject]]
          SurveyRows,       \* the tables the task starts from
          LeadRows,
          Tickets,          \* conversations with a support ticket
          AuditedUsers,     \* users who appear in the audit log
          BatchSize,
          EraseRetries,
          EraseWorkers,
          MaxEraseFaults,   \* bound: errors of the database and of S3
          MaxEraseDeaths,   \* bound: workers killed
          MaxDecisions      \* bound: changes by an operator

\* What each kind of request begins with.  (Of any other subject_type, which the API takes
\* as well, the task erases nothing and calls the request fulfilled; such requests are left out.)
FirstStep == [enumerator |-> "rows", household |-> "scan", developer |-> "leads", user |-> "user"]

IsTable(table) == table \in Seq({table[i] : i \in DOMAIN table})

ASSUME ErasureAssumption ==
    /\ BatchSize \in Nat \ {0} /\ EraseRetries \in Nat
    /\ \A table \in SurveyRows \cup LeadRows : IsTable(table)
    /\ \A a \in Asked, d \in ErasureRequests : a[d].kind \in DOMAIN FirstStep /\ a[d].subject # "none"

VARIABLES asked,            \* subject_type and subject_id of each request
          dsr,              \* its status, "none" before it is made
          msg,              \* its message: "none", "unknown", "queued", "running" or "done"
          tries,            \* retries of the message
          surveys, leads,   \* rows in the order of the table
          photos,           \* objects in S3: the id of their survey response
          redacted,         \* users
          eraser,           \* each worker: [at, d, offset, more, keys]
          shifted,          \* history: rows moved before a scan that was still going on
          lostKeys,         \* history: photos whose deletion failed or died with its worker
          erased,           \* history: requests that the task itself brought to an end
          faults, eraseDeaths, decisions

erasureVars == <<asked, dsr, msg, tries, surveys, leads, photos, redacted, eraser, shifted, lostKeys, erased,
                 faults, eraseDeaths, decisions>>
kept == <<asked, faults, eraseDeaths, decisions>>

NoEraser == [at |-> "idle", d |-> "none", offset |-> 0, more |-> FALSE, keys |-> {}]
Ids(table) == {table[i].id : i \in 1..Len(table)}

ErasureInit ==
    /\ asked \in Asked
    /\ dsr = [d \in ErasureRequests |-> "none"] /\ msg = [d \in ErasureRequests |-> "none"]
    /\ tries = [d \in ErasureRequests |-> 0]
    /\ surveys \in SurveyRows /\ leads \in LeadRows /\ photos = Ids(surveys) /\ redacted = {}
    /\ eraser = [w \in EraseWorkers |-> NoEraser]
    /\ shifted = {} /\ lostKeys = {} /\ erased = {}
    /\ faults = 0 /\ eraseDeaths = 0 /\ decisions = 0

Job(w, f) == eraser' = [eraser EXCEPT ![w] = f]
Status(d, s) == dsr' = [dsr EXCEPT ![d] = s]
Subject(w) == asked[eraser[w].d].subject

(************************ the request **************************************)
\* The name that is sent, app.tasks.compliance.process_erasure_request, is not the name
\* of the task: no worker knows it.
RequestErasure(d) ==
    /\ dsr[d] = "none" /\ Status(d, "received")
    /\ \E m \in {"unknown", "none"} : msg' = [msg EXCEPT ![d] = m]
    /\ UNCHANGED <<tries, surveys, leads, photos, redacted, eraser, shifted, lostKeys, erased, kept>>

\* An operator may set any status at any time.
UpdateDsr(d) ==
    /\ dsr[d] # "none" /\ decisions < MaxDecisions /\ decisions' = decisions + 1
    /\ \E s \in {"in_progress", "fulfilled", "rejected"} : Status(d, s)
    /\ erased' = erased \ {d}
    /\ UNCHANGED <<msg, tries, surveys, leads, photos, redacted, eraser, shifted, lostKeys, asked, faults, eraseDeaths>>

\* The task is sent by its registered name, by somebody with access to the queue.
SendTask(d) ==
    /\ dsr[d] = "received" /\ msg[d] \in {"none", "unknown"}
    /\ msg' = [msg EXCEPT ![d] = "queued"]
    /\ UNCHANGED <<dsr, tries, surveys, leads, photos, redacted, eraser, shifted, lostKeys, erased, kept>>

(************************ the task *****************************************)
TakeRequest(w, d) ==
    /\ eraser[w].at = "idle" /\ msg[d] = "queued"
    /\ msg' = [msg EXCEPT ![d] = "running"] /\ Status(d, "in_progress")
    /\ shifted' = shifted \ {d} /\ erased' = erased \ {d}
    /\ Job(w, [NoEraser EXCEPT !.at = FirstStep[asked[d].kind], !.d = d])
    /\ UNCHANGED <<tries, surveys, leads, photos, redacted, lostKeys, kept>>

\* Who scans the table has passed the rows up to its offset: a row that goes from there
\* moves the rest into what it believes it has read.
Overtaken(kind, n, w) ==
    {eraser[v].d : v \in {x \in EraseWorkers \ {w} :
        /\ eraser[x].at # "idle" /\ asked[eraser[x].d].kind = kind /\ eraser[x].offset >= n
        /\ eraser[x].at \in {"scan", "leads"} \/ eraser[x].more}}

First(hits) == CHOOSE i \in hits : \A j \in hits : i <= j

\* The rows of a table at these places, in their order.
RowsAt(table, places) ==
    LET upTo[k \in 0..Len(table)] ==
          IF k = 0 THEN <<>>
          ELSE IF k \in places THEN Append(upTo[k - 1], table[k]) ELSE upTo[k - 1]
    IN upTo[Len(table)]

Without(table, hits) == RowsAt(table, 1..Len(table) \ hits)

\* Responses, conversations and the enumerator go in one transaction, which fails when
\* another response or a ticket still refers to one of the conversations.
Referred(e) == \/ \E c \in Tickets : c.owner = e
               \/ \E i \in 1..Len(surveys) : surveys[i].conversation.owner = e /\ surveys[i].enumerator # e

EraseEnumerator(w) ==
    /\ eraser[w].at = "rows" /\ ~Referred(Subject(w))
    /\ LET hits == {i \in 1..Len(surveys) : surveys[i].enumerator = Subject(w)}
       IN /\ surveys' = Without(surveys, hits)
          /\ shifted' = IF hits = {} THEN shifted ELSE shifted \cup Overtaken("household", First(hits), w)
          /\ Job(w, [eraser[w] EXCEPT !.at = "photos", !.keys = {surveys[i].id : i \in hits}])
    /\ UNCHANGED <<dsr, msg, tries, leads, photos, redacted, lostKeys, erased, kept>>

Page(w, table) == {i \in 1..Len(table) : i > eraser[w].offset /\ i <= eraser[w].offset + BatchSize}

\* Slip: a full page is taken for the last one.
LastPage(page) == Cardinality(page) > BatchSize

MorePages(page) == Cardinality(page) = BatchSize

Keys(page, hits) == {surveys[i].id : i \in hits}

\* OFFSET and LIMIT over a table that the scan itself deletes from.
ScanSurveys(w) ==
    /\ eraser[w].at = "scan"
    /\ LET page == Page(w, surveys)
           hits == {i \in page : surveys[i].household = Subject(w)}
       IN /\ surveys' = Without(surveys, hits)
          /\ shifted' = IF hits = {} THEN shifted
                        ELSE shifted \cup Overtaken("household", First(hits), w)
                             \cup (IF MorePages(page) THEN {eraser[w].d} ELSE {})
          /\ Job(w, [eraser[w] EXCEPT !.at = "photos", !.keys = Keys(page, hits),
                                      !.offset = @ + BatchSize, !.more = MorePages(page)])
    /\ UNCHANGED <<dsr, msg, tries, leads, photos, redacted, lostKeys, erased, kept>>

\* A failure is logged, and the next photo is tried.
DeletePhoto(w) ==
    /\ eraser[w].at = "photos"
    /\ \E k \in eraser[w].keys :
          /\ Job(w, [eraser[w] EXCEPT !.keys = @ \ {k}])
          /\ \/ photos' = photos \ {k} /\ UNCHANGED <<lostKeys, faults>>
             \/ /\ faults < MaxEraseFaults /\ faults' = faults + 1
                /\ lostKeys' = lostKeys \cup {k} /\ UNCHANGED photos
    /\ UNCHANGED <<dsr, msg, tries, surveys, leads, redacted, shifted, erased, asked, eraseDeaths, decisions>>

PhotosDone(w) ==
    /\ eraser[w].at = "photos" /\ eraser[w].keys = {}
    /\ Job(w, [eraser[w] EXCEPT !.at = IF eraser[w].more THEN "scan" ELSE "finish"])
    /\ UNCHANGED <<dsr, msg, tries, surveys, leads, photos, redacted, shifted, lostKeys, erased, kept>>

Anonymous(lead) == [id |-> lead.id, developer |-> "none"]

\* Leads are kept without their developer.  An updated row may move in the table.
ScanLeads(w) ==
    /\ eraser[w].at = "leads"
    /\ LET page == Page(w, leads)
           hits == {i \in page : leads[i].developer = Subject(w)}
           cleared == [i \in 1..Len(leads) |-> IF i \in hits THEN Anonymous(leads[i]) ELSE leads[i]]
       IN /\ \/ leads' = cleared /\ UNCHANGED shifted
             \/ /\ hits # {} /\ leads' = Without(leads, hits) \o RowsAt(cleared, hits)
                /\ shifted' = shifted \cup Overtaken("developer", First(hits), w)
                              \cup (IF MorePages(page) THEN {eraser[w].d} ELSE {})
          /\ Job(w, [eraser[w] EXCEPT !.at = IF MorePages(page) THEN "leads" ELSE "finish",
                                      !.offset = @ + BatchSize])
    /\ UNCHANGED <<dsr, msg, tries, surveys, photos, redacted, lostKeys, erased, kept>>

\* One transaction.  The audit log would refer to a user of zeros, who does not exist:
\* for whoever is in the audit log the foreign key refuses it.
EraseUser(w) ==
    /\ eraser[w].at = "user" /\ Subject(w) \notin AuditedUsers
    /\ redacted' = redacted \cup {Subject(w)}
    /\ Job(w, [eraser[w] EXCEPT !.at = "finish"])
    /\ UNCHANGED <<dsr, msg, tries, surveys, leads, photos, shifted, lostKeys, erased, kept>>

FinishErasure(w) ==
    /\ eraser[w].at = "finish"
    /\ Status(eraser[w].d, "fulfilled") /\ erased' = erased \cup {eraser[w].d}
    /\ Job(w, [eraser[w] EXCEPT !.at = "ack"])
    /\ UNCHANGED <<msg, tries, surveys, leads, photos, redacted, shifted, lostKeys, kept>>

Acknowledge(w) ==
    /\ eraser[w].at = "ack"
    /\ msg' = [msg EXCEPT ![eraser[w].d] = "done"] /\ Job(w, NoEraser)
    /\ UNCHANGED <<dsr, tries, surveys, leads, photos, redacted, shifted, lostKeys, erased, kept>>

Refused(w) == \/ eraser[w].at = "rows" /\ Referred(Subject(w))
              \/ eraser[w].at = "user" /\ Subject(w) \in AuditedUsers

LastAttempt(d) == tries[d] >= EraseRetries

\* After the last retry the request is rejected; what was erased before stays erased.
ErasureFails(w) ==
    /\ \/ Refused(w) /\ UNCHANGED faults
       \/ /\ eraser[w].at \in {"rows", "scan", "leads", "user", "finish"} /\ ~Refused(w)
          /\ faults < MaxEraseFaults /\ faults' = faults + 1
    /\ LET d == eraser[w].d
       IN /\ IF LastAttempt(d) THEN Status(d, "rejected") ELSE UNCHANGED dsr
          /\ IF tries[d] >= EraseRetries
             THEN msg' = [msg EXCEPT ![d] = "done"] /\ UNCHANGED tries
             ELSE /\ msg' = [msg EXCEPT ![d] = "queued"] /\ tries' = [tries EXCEPT ![d] = @ + 1]
    /\ Job(w, NoEraser)
    /\ UNCHANGED <<surveys, leads, photos, redacted, shifted, lostKeys, erased, asked, eraseDeaths, decisions>>

\* The message was not acknowledged: it is delivered again.
EraserDies(w) ==
    /\ eraser[w].at # "idle" /\ eraseDeaths < MaxEraseDeaths /\ eraseDeaths' = eraseDeaths + 1
    /\ msg' = [msg EXCEPT ![eraser[w].d] = "queued"]
    /\ lostKeys' = lostKeys \cup eraser[w].keys
    /\ Job(w, NoEraser)
    /\ UNCHANGED <<dsr, tries, surveys, leads, photos, redacted, shifted, erased, asked, faults, decisions>>

EraserStep(w) ==
    \/ \E d \in ErasureRequests : TakeRequest(w, d)
    \/ EraseEnumerator(w) \/ ScanSurveys(w) \/ DeletePhoto(w) \/ PhotosDone(w) \/ ScanLeads(w)
    \/ EraseUser(w) \/ FinishErasure(w) \/ Acknowledge(w) \/ ErasureFails(w)

ErasureNext ==
    \/ \E d \in ErasureRequests : RequestErasure(d) \/ UpdateDsr(d) \/ SendTask(d)
    \/ \E w \in EraseWorkers : EraserStep(w) \/ EraserDies(w)

ErasureSpec == ErasureInit /\ [][ErasureNext]_erasureVars

\* Workers that live take messages and go on with them.
ErasureFairness == \A w \in EraseWorkers : WF_erasureVars(EraserStep(w))

(************************ properties ***************************************)
Remains(d) == LET s == asked[d].subject
              IN CASE asked[d].kind = "enumerator" -> \E i \in 1..Len(surveys) : surveys[i].enumerator = s
                   [] asked[d].kind = "household"  -> \E i \in 1..Len(surveys) : surveys[i].household = s
                   [] asked[d].kind = "developer"  -> \E i \in 1..Len(leads) : leads[i].developer = s
                   [] OTHER -> s \notin redacted

\* What the task reports as fulfilled is erased, except when rows went from under its
\* scan: its own deletions in a full batch or those of another request
\* (tasks/compliance_jobs.py:170-200, 215-232).
FulfilledIsErased == \A d \in erased : d \in shifted \/ ~Remains(d)

\* A photo whose survey response is erased is deleted as well, about to be, or one whose
\* deletion failed or died with its worker: a retry finds no row that leads to it
\* (tasks/compliance_jobs.py:134-153).
NoUnknownOrphan ==
    photos \subseteq Ids(surveys) \cup lostKeys \cup UNION {eraser[w].keys : w \in EraseWorkers}

\* What is erased leaves no row, and no photo that nobody knows of (tasks/compliance_jobs.py).
ErasureHolds == FulfilledIsErased /\ NoUnknownOrphan
=============================================================================
