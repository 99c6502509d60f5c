----------------------------- MODULE Ingestion -----------------------------
\* Field data becomes data sources: uploaded files through a Celery task
\* (api/uploads.py, tasks/jobs.py), meter readings through a webhook
\* (api/webhooks.py) and operators by hand (api/data_sources.py).  What falls
\* below the threshold of its project is queued for human review.
\* Scores are in ten-thousandths.
EXTENDS Integers, Sequences, FiniteSets, FiniteSetsExt

CONSTANTS Files, Contents,      \* what is uploaded, and what may be in it
          Readings, Payloads,   \* the request ids of a meter, and what it may send
          IngestWorkers, Hooks, \* Celery workers; webhook requests in progress
          IngestRetries,        \* max_retries
          ConfidenceThreshold, HasPeriod, \* of the project
          MaxIngestFaults, MaxReprocessed, MaxEdits, MaxWindows \* bounds

\* A reading is neither a file nor the name of what an operator enters.
ASSUME IngestBounds ==
    /\ {IngestRetries, ConfidenceThreshold, MaxIngestFaults} \subseteq Nat
    /\ IsFiniteSet(Hooks) /\ Files \cap Readings = {} /\ "operator" \notin Readings

VARIABLES content,    \* what the files hold and the readings say
          upload,     \* file_uploads
          uploading,  \* files whose request has still to queue the task
          sources,    \* data_sources, in the order of their insertion
          reviews,    \* human_review_queue: the sources it names
          ingestQueue, ingesting, \* Celery: messages, and what a worker is at
          hook, replayKeys,       \* requests of the webhook; keys in Redis
          tally       \* faults, reprocessed, edits, windows; and those cut short

ingestVars == <<content, upload, uploading, sources, reviews, ingestQueue, ingesting, hook, replayKeys, tally>>

-----------------------------------------------------------------------------
(* The pipelines: what a file or a payload is found to contain *)

Bounded(x, hi) == IF x < hi THEN x ELSE hi

\* A cell is within its bounds, out of them, empty, text, or a zero coordinate.
ValidateRow(row) ==
    Cardinality({c \in DOMAIN row : row[c] \in {"out", "empty", "text"}})
    + IF {"gps_latitude", "gps_longitude"} \subseteq DOMAIN row
         /\ row["gps_latitude"] = "zero" /\ row["gps_longitude"] = "zero" THEN 1 ELSE 0

\* The check near the origin converts both coordinates outside the try.
RowRaises(row) ==
    LET gps == {"gps_latitude", "gps_longitude"} IN
    gps \subseteq DOMAIN row /\ (\A c \in gps : row[c] # "empty") /\ (\E c \in gps : row[c] = "text")

\* A file that does not parse has no rows, and one error.
ProcessExcelCsv(c) ==
    IF ~c.readable THEN [total |-> 0, valid |-> 0, errors |-> 1]
    ELSE [total  |-> Len(c.rows),
          valid  |-> Cardinality({i \in DOMAIN c.rows : ValidateRow(c.rows[i]) = 0}),
          errors |-> (IF c.missing THEN 1 ELSE 0) + (IF c.unparsed THEN 1 ELSE 0)
                     + MapThenSumSet(LAMBDA i : ValidateRow(c.rows[i]), DOMAIN c.rows)]

\* Below a hundred characters it is taken for a scan.
ProcessPdf(c) == [pages |-> c.pages, text |-> c.text, errors |-> IF c.pages = 0 \/ c.text < 100 THEN 1 ELSE 0]

ValidateGpsBoundary(gps) == IF gps = "bad" THEN 1 ELSE 0

\* The time of the picture is compared with dates, which raises; what comes after
\* in the same try is lost: the category stays "other".
ValidateTimestamp(timestamp) == timestamp /\ HasPeriod

ProcessImage(c) ==
    LET fails == ~c.readable \/ ValidateTimestamp(c.timestamp) IN
    [gps |-> c.gps # "none", timestamp |-> c.timestamp, category |-> c.keyword /\ ~fails, readable |-> c.readable,
     errors |-> ValidateGpsBoundary(c.gps) + (IF fails THEN 1 ELSE 0)]

\* A reading has the fields it came with.
Counts(p) == {"cooking_events", "total_cooking_minutes"} \cap DOMAIN p
Plausible == [cooking_events |-> 0..100, total_cooking_minutes |-> 0..1440]

ValidateIotData(p) ==
    Cardinality({"stove_id", "timestamp"} \ DOMAIN p)
    + (IF "timestamp" \in DOMAIN p /\ p.timestamp = "bad" THEN 1 ELSE 0)
    + Cardinality({f \in Counts(p) : p[f] \notin Plausible[f]})

Abnormal(e, m) == \/ e > 0 /\ (m > 180 * e \/ m < e)
                  \/ e = 0 /\ m > 0

DetectAnomalies(p) ==
    IF Cardinality(Counts(p)) = 2 /\ Abnormal(p.cooking_events, p.total_cooking_minutes) THEN 1 ELSE 0

ProcessIotWebhook(p) == [payload |-> p, errors |-> ValidateIotData(p) + DetectAnomalies(p)]

-----------------------------------------------------------------------------
(* services/validation_engine.py *)

\* What the schema of a type refuses of a pipeline's result.
ValidateJsonSchema(type, data) ==
    IF (type = "pdf" /\ data.pages = 0) \/ (type = "image" /\ ~data.readable) THEN 1 ELSE 0

\* days: of the rows, in order; nothing is checked of a single row.
ValidateTemporalConsistency(days, start, end, today) ==
    IF Len(days) < 2 THEN 0
    ELSE Cardinality({i \in DOMAIN days : days[i] > today})
         + (IF \E i \in DOMAIN days : days[i] < start THEN 1 ELSE 0)
         + (IF \E i \in DOMAIN days : days[i] > end THEN 1 ELSE 0)
         + Cardinality({i \in 2..Len(days) : days[i] - days[i - 1] > 365})

\* A field that holds nothing or zero does not count as filled.
Filled(p) == Cardinality({"stove_id", "timestamp"} \cap DOMAIN p) + Cardinality({f \in Counts(p) : p[f] # 0})

ComputeConfidenceScore(type, data, errors) ==
    LET left == 10000 - Bounded(1000 * errors, 5000)
        score == CASE type \in {"excel", "csv"} ->
                        IF data.total = 0 THEN left ELSE (7 * left + (30000 * data.valid) \div data.total) \div 10
                   [] type = "pdf" -> IF data.pages > 0 /\ data.text < 50 * data.pages THEN left - 2000 ELSE left
                   [] type = "image" -> left + 500 * Cardinality({f \in {"gps", "timestamp", "category"} : data[f]})
                   [] type = "iot" -> (6 * left + 10000 * Filled(data.payload)) \div 10
    IN Bounded(score, 10000)

RunFullValidation(type, data, temporal) ==
    LET errors == ValidateJsonSchema(type, data) + data.errors + temporal
        score == ComputeConfidenceScore(type, data, errors) IN
    [status |-> IF errors > 0 THEN "flagged" ELSE "valid", low |-> score < ConfidenceThreshold]

Period == <<0, 365>>
Today == 400

Validation(c) ==
    CASE c.type \in {"excel", "csv"} ->
            RunFullValidation(c.type, ProcessExcelCsv(c),
               IF c.readable /\ HasPeriod THEN ValidateTemporalConsistency(c.days, Period[1], Period[2], Today) ELSE 0)
      [] c.type = "pdf" -> RunFullValidation("pdf", ProcessPdf(c), 0)
      [] c.type = "image" -> RunFullValidation("image", ProcessImage(c), 0)
      [] c.type = "iot" -> RunFullValidation("iot", ProcessIotWebhook(c), 0)

\* What makes the task give the file up: a type known by its name only, or rows
\* that raise.
Unprocessable(c) ==
    \/ c.type = "unknown"
    \/ c.type \in {"excel", "csv"} /\ c.readable /\ \E i \in DOMAIN c.rows : RowRaises(c.rows[i])

-----------------------------------------------------------------------------
(* State *)

NoUpload == "none"
Unoccupied == [at |-> "idle"]

IngestInit ==
    /\ content \in [Files \cup Readings -> Contents \cup Payloads]
    /\ \A f \in Files : content[f] \in Contents
    /\ \A r \in Readings : content[r] \in Payloads
    /\ upload = [f \in Files |-> NoUpload] /\ uploading = {}
    /\ sources = <<>> /\ reviews = {}
    /\ ingestQueue = <<>> /\ ingesting = [w \in IngestWorkers |-> Unoccupied]
    /\ hook = [h \in Hooks |-> Unoccupied] /\ replayKeys = {}
    /\ tally = [faults |-> 0, reprocessed |-> 0, edits |-> 0, windows |-> [r \in Readings |-> 0],
                unqueued |-> {}, exhausted |-> {}, unflagged |-> {}]

Source(of, status, low) == [of |-> of, status |-> status, low |-> low]
Fault == tally.faults < MaxIngestFaults
Counted(field) == [tally EXCEPT ![field] = @ + 1]

-----------------------------------------------------------------------------
(* api/uploads.py: storage and row first, then the message *)

\* A file the scanner or the storage refuses leaves no row.
UploadFile(f) ==
    /\ upload[f] = NoUpload
    /\ upload' = [upload EXCEPT ![f] = "uploaded"] /\ uploading' = uploading \cup {f}
    /\ UNCHANGED <<content, sources, reviews, ingestQueue, ingesting, hook, replayKeys, tally>>

ReprocessUpload(f) ==
    /\ upload[f] # NoUpload /\ f \notin uploading /\ tally.reprocessed < MaxReprocessed
    /\ upload' = [upload EXCEPT ![f] = "processing"] /\ uploading' = uploading \cup {f}
    /\ tally' = Counted("reprocessed")
    /\ UNCHANGED <<content, sources, reviews, ingestQueue, ingesting, hook, replayKeys>>

QueueProcessing(f) ==
    /\ f \in uploading /\ uploading' = uploading \ {f}
    /\ ingestQueue' = Append(ingestQueue, [file |-> f, tries |-> 0])
    /\ UNCHANGED <<content, upload, sources, reviews, ingesting, hook, replayKeys, tally>>

UploadDies(f) ==
    /\ f \in uploading /\ Fault /\ uploading' = uploading \ {f}
    /\ tally' = [Counted("faults") EXCEPT !.unqueued = @ \cup {f}]
    /\ UNCHANGED <<content, upload, sources, reviews, ingestQueue, ingesting, hook, replayKeys>>

-----------------------------------------------------------------------------
(* tasks/jobs.py process_uploaded_file *)

At(w, step) == ingesting[w].at = step
Task(w) == ingesting[w].task

TakeUpload(w) ==
    /\ At(w, "idle") /\ ingestQueue # <<>>
    /\ LET m == Head(ingestQueue) IN
       /\ ingesting' = [ingesting EXCEPT ![w] = [at |-> "process", task |-> m]]
       /\ upload' = [upload EXCEPT ![m.file] = "processing"]
    /\ ingestQueue' = Tail(ingestQueue)
    /\ UNCHANGED <<content, uploading, sources, reviews, hook, replayKeys, tally>>

\* Slip: a file of a type no pipeline knows is left as it is.
ProcessUploadQuietly(w, fetched) ==
    /\ At(w, "process")
    /\ ~fetched => Fault
    /\ LET bad == ~fetched \/ Unprocessable(content[Task(w).file]) IN
       /\ upload' = [upload EXCEPT ![Task(w).file] = IF ~bad THEN "completed" ELSE @]
       /\ ingesting' = [ingesting EXCEPT ![w] = IF bad THEN Unoccupied ELSE [@ EXCEPT !.at = "source"]]
    /\ tally' = IF fetched THEN tally ELSE Counted("faults")
    /\ UNCHANGED <<content, uploading, sources, reviews, ingestQueue, hook, replayKeys>>

\* fetched: the storage and the scanner answer.  The result and the status in one commit.
ProcessUpload(w, fetched) ==
    /\ At(w, "process")
    /\ ~fetched => Fault
    /\ LET bad == ~fetched \/ Unprocessable(content[Task(w).file]) IN
       /\ upload' = [upload EXCEPT ![Task(w).file] = IF bad THEN "failed" ELSE "completed"]
       /\ ingesting' = [ingesting EXCEPT ![w] = IF bad THEN Unoccupied ELSE [@ EXCEPT !.at = "source"]]
    /\ tally' = IF fetched THEN tally ELSE Counted("faults")
    /\ UNCHANGED <<content, uploading, sources, reviews, ingestQueue, hook, replayKeys>>

\* Slip: what is not flagged is not reviewed.
NeedsHumanReviewIfFlagged(v) == v.low /\ v.status = "flagged"

NeedsHumanReview(v) == v.low

StoreSource(w) ==
    /\ At(w, "source")
    /\ LET v == Validation(content[Task(w).file]) IN
       /\ sources' = Append(sources, Source(Task(w).file, v.status, v.low))
       /\ ingesting' = [ingesting EXCEPT ![w] = IF NeedsHumanReview(v)
                                                THEN [at |-> "flag", task |-> Task(w), source |-> Len(sources) + 1]
                                                ELSE Unoccupied]
    /\ UNCHANGED <<content, upload, uploading, reviews, ingestQueue, hook, replayKeys, tally>>

FlagSource(w) ==
    /\ At(w, "flag")
    /\ reviews' = reviews \cup {ingesting[w].source}
    /\ ingesting' = [ingesting EXCEPT ![w] = Unoccupied]
    /\ UNCHANGED <<content, upload, uploading, sources, ingestQueue, hook, replayKeys, tally>>

Unflagged(p) == IF p.at = "flag" THEN {p.source} ELSE {}

\* self.retry after an exception, or acks_late after the death of the worker.
TaskFails(w, died) ==
    /\ ~At(w, "idle") /\ Fault /\ ingesting' = [ingesting EXCEPT ![w] = Unoccupied]
    /\ LET again == died \/ Task(w).tries < IngestRetries IN
       /\ ingestQueue' = IF ~again THEN ingestQueue
                         ELSE Append(ingestQueue, [Task(w) EXCEPT !.tries = IF died THEN @ ELSE @ + 1])
       /\ tally' = [Counted("faults") EXCEPT !.unflagged = @ \cup Unflagged(ingesting[w]),
                                             !.exhausted = IF again THEN @ ELSE @ \cup {Task(w).file}]
    /\ UNCHANGED <<content, upload, uploading, sources, reviews, hook, replayKeys>>

-----------------------------------------------------------------------------
(* api/webhooks.py *)

\* SET NX: of the requests with one id, one passes while the key lives.
Receive(h, r) ==
    /\ hook[h].at = "idle" /\ r \notin replayKeys
    /\ replayKeys' = replayKeys \cup {r}
    /\ hook' = [hook EXCEPT ![h] = [at |-> "store", reading |-> r]]
    /\ UNCHANGED <<content, upload, uploading, sources, reviews, ingestQueue, ingesting, tally>>

ReplayWindowPasses(r) ==
    /\ r \in replayKeys /\ tally.windows[r] < MaxWindows
    /\ replayKeys' = replayKeys \ {r} /\ tally' = [tally EXCEPT !.windows[r] = @ + 1]
    /\ UNCHANGED <<content, upload, uploading, sources, reviews, ingestQueue, ingesting, hook>>

ReadingStatus(v) == IF v.status = "valid" THEN "valid" ELSE IF v.low THEN "flagged" ELSE "pending"

StoreReading(h) ==
    /\ hook[h].at = "store"
    /\ LET r == hook[h].reading
           v == Validation(content[r]) IN
       /\ sources' = Append(sources, Source(r, ReadingStatus(v), v.low))
       /\ hook' = [hook EXCEPT ![h] = IF NeedsHumanReview(v) THEN [at |-> "flag", source |-> Len(sources) + 1] ELSE Unoccupied]
    /\ UNCHANGED <<content, upload, uploading, reviews, ingestQueue, ingesting, replayKeys, tally>>

FlagReading(h) ==
    /\ hook[h].at = "flag"
    /\ reviews' = reviews \cup {hook[h].source} /\ hook' = [hook EXCEPT ![h] = Unoccupied]
    /\ UNCHANGED <<content, upload, uploading, sources, ingestQueue, ingesting, replayKeys, tally>>

\* An exception, a project that is not found, or the death of the process: the key stays.
HookFails(h) ==
    /\ hook[h] # Unoccupied /\ Fault /\ hook' = [hook EXCEPT ![h] = Unoccupied]
    /\ tally' = [Counted("faults") EXCEPT !.unflagged = @ \cup Unflagged(hook[h])]
    /\ UNCHANGED <<content, upload, uploading, sources, reviews, ingestQueue, ingesting, replayKeys>>

-----------------------------------------------------------------------------
(* api/data_sources.py *)

Edits == tally.edits < MaxEdits /\ tally' = Counted("edits")

CreateDataSource ==
    /\ Edits /\ sources' = Append(sources, Source("operator", "edited", FALSE))
    /\ UNCHANGED <<content, upload, uploading, reviews, ingestQueue, ingesting, hook, replayKeys>>

UpdateDataSource(i, low) ==
    /\ Edits /\ sources[i].status # "deleted"
    /\ sources' = [sources EXCEPT ![i].status = "edited", ![i].low = low]
    /\ UNCHANGED <<content, upload, uploading, reviews, ingestQueue, ingesting, hook, replayKeys>>

\* The item of the review queue stays.
DeleteDataSource(i) ==
    /\ Edits /\ sources[i].status # "deleted"
    /\ sources' = [sources EXCEPT ![i].status = "deleted"]
    /\ UNCHANGED <<content, upload, uploading, reviews, ingestQueue, ingesting, hook, replayKeys>>

-----------------------------------------------------------------------------
IngestStep(w) ==
    TakeUpload(w) \/ ProcessUpload(w, TRUE) \/ StoreSource(w) \/ FlagSource(w)

UploadNext ==
    \/ \E f \in Files : UploadFile(f) \/ ReprocessUpload(f) \/ QueueProcessing(f) \/ UploadDies(f)
    \/ \E w \in IngestWorkers : IngestStep(w) \/ ProcessUpload(w, FALSE) \/ \E died \in BOOLEAN : TaskFails(w, died)

ReadingNext ==
    \/ \E h \in Hooks : StoreReading(h) \/ FlagReading(h) \/ HookFails(h) \/ \E r \in Readings : Receive(h, r)
    \/ \E r \in Readings : ReplayWindowPasses(r)

EditNext ==
    \/ CreateDataSource
    \/ \E i \in DOMAIN sources : DeleteDataSource(i) \/ \E low \in BOOLEAN : UpdateDataSource(i, low)

IngestNext == UploadNext \/ ReadingNext \/ EditNext

IngestSpec == IngestInit /\ [][IngestNext]_ingestVars

\* A worker goes on with what it has, and takes a message; a request queues its task.
IngestFairness ==
    /\ \A w \in IngestWorkers : WF_ingestVars(IngestStep(w))
    /\ \A f \in Files : WF_ingestVars(QueueProcessing(f))

-----------------------------------------------------------------------------
(* Properties *)

\* jobs.py:226, webhooks.py:137: data below the threshold of its project waits for
\* a person, valid or flagged, as long as nobody has edited or deleted it: unless the
\* process that stored it ended between its two commits.
LowConfidenceIsReviewed ==
    \A i \in DOMAIN sources : sources[i].status \notin {"edited", "deleted"} /\ sources[i].low =>
        \/ i \in reviews \cup tally.unflagged
        \/ \E w \in IngestWorkers : At(w, "flag") /\ ingesting[w].source = i
        \/ \E h \in Hooks : hook[h].at = "flag" /\ hook[h].source = i

\* webhooks.py:60: a reading that is sent again, also at the same time, is stored
\* once in a replay window.
ReadingOnce ==
    \A r \in Readings : Cardinality({i \in DOMAIN sources : sources[i].of = r}) <= 1 + tally.windows[r]

\* What arrives is stored once, and doubtful data does not go unseen (tasks/jobs.py:202,
\* api/webhooks.py:60).
DataIsAccountedFor == LowConfidenceIsReviewed /\ ReadingOnce

Concluded(f) == \/ upload[f] = "failed"
                \/ upload[f] = "completed" /\ \E i \in DOMAIN sources : sources[i].of = f

\* jobs.py:91: an upload is processed: it fails, or becomes a data source, although
\* a worker dies between the commits that complete it and that store the source;
\* unless its request died before it queued the task, or its retries are used up.
UploadConcludes ==
    \A f \in Files : upload[f] = "uploaded" ~> Concluded(f) \/ f \in tally.unqueued \cup tally.exhausted
=============================================================================
