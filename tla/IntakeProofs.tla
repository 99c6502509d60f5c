------------------------------ MODULE IntakeProofs ------------------------------
(***************************************************************************)
(* What comes in, what people decide of it and what is erased again: the   *)
(* human review queue, the uploads and readings that fill it, the          *)
(* conversations of the bot, the requests of data subjects.  For each      *)
(* module the invariant its property needs and the proof that every step   *)
(* keeps it, for any values of the constants.                              *)
(***************************************************************************)
EXTENDS ReviewQueue, Ingestion, Conversation, Erasure,
        SetLemmas, SequenceTheorems

-----------------------------------------------------------------------------
(* ReviewQueue.  AuditExplains exempts an item between the two commits of a resolution;   *)
(* the invariant says instead who still has to record the decision it shows: a reviewer   *)
(* who has applied that very verdict, or the sweep.                                       *)

QueueRow == [row : {"none", "live", "deleted"}, status : Statuses,
             human : Verdicts \cup {"none", "approve"}, priority : 1..5, created_at : Nat]

Records == {"human_approved", "human_rejected", "human_escalated", "sla_auto_approved"}

QueueTypes ==
    /\ item \in [Items -> QueueRow]
    /\ log \in [Items -> SUBSET Records]
    /\ clock \in Nat /\ procStart \in Nat
    /\ pc \in [Reviewers -> {"idle", "loaded", "applied"}]
    /\ task \in [Reviewers -> [item : Items \cup {"none"}, copy : QueueRow,
                               verdict : Verdicts \cup {"none"}]]
    /\ \A r \in Reviewers : pc[r] # "idle" => task[r].item \in Items /\ task[r].verdict \in Verdicts
    /\ sweepPc \in Items \cup {"idle", "next"}

\* The decision item i shows is recorded, or somebody is about to record it.
Accounted(i) ==
    \/ Action(item[i].human) \in log[i]
    \/ item[i].human = "approve" /\ ("sla_auto_approved" \in log[i] \/ sweepPc = i)
    \/ \E r \in Reviewers : /\ pc[r] = "applied" /\ task[r].item = i
                            /\ task[r].verdict = item[i].human

Explained == \A i \in Items :
    Live(i) /\ item[i].human # "none" /\ i \notin torn => Accounted(i)

QueueInv == QueueTypes /\ Explained

-----------------------------------------------------------------------------

\* What is recorded of a verdict.
LEMMA ActionType == \A v \in Verdicts : Action(v) \in Records
BY QueueAssumption DEF Action, Records

\* An UPDATE leaves the row a row and its decision as it was or as the session wants it.
LEMMA FlushKeeps ==
    ASSUME NEW row \in QueueRow, NEW copy, NEW v \in Verdicts \cup {"approve"}
    PROVE  /\ Flush(row, copy, v) \in QueueRow /\ Flush(row, copy, v).row = row.row
           /\ Flush(row, copy, v).human \in {row.human, v}
BY QueueAssumption DEF Flush, QueueRow, StatusFor, Statuses

\* Nothing has been created yet.
LEMMA InitInv == Init => QueueInv
BY DEF Init, QueueInv, QueueTypes, Explained, Absent, NoTask, QueueRow, Statuses, Live

-----------------------------------------------------------------------------
(* One lemma for each group of steps. *)

\* Steps that record and decide nothing.
LEMMA OtherInv ==
    ASSUME QueueInv, Tick \/ Restart \/ SweepStart \/ UNCHANGED vars PROVE QueueInv'
<1> USE DEF QueueInv, QueueTypes, Explained, Accounted, Live
<1>1. CASE Tick
  BY <1>1 DEF Tick
<1>2. CASE Restart
  BY <1>2 DEF Restart
<1>3. CASE SweepStart
  BY <1>3, QueueAssumption DEF SweepStart
<1>4. CASE UNCHANGED vars
  BY <1>4 DEF vars
<1> QED BY <1>1, <1>2, <1>3, <1>4

\* A new row shows no decision, a deleted one is not shown, and an operator's
\* write leaves the decision alone.
LEMMA RowInv ==
    ASSUME QueueInv, NEW i \in Items,
           \/ \E p \in Priorities : Create(i, p)
           \/ Assign(i) \/ Delete(i) \/ \E s \in Patched : PatchStatus(i, s)
    PROVE  QueueInv'
<1> USE QueueAssumption DEF QueueInv, QueueTypes, Explained, Accounted, Live
<1>1. ASSUME NEW p \in Priorities, Create(i, p) PROVE QueueInv'
  <2> DEFINE row == [Absent EXCEPT !.row = "live", !.priority = p, !.created_at = procStart]
  <2>1. row \in QueueRow /\ row.human = "none"
    BY DEF QueueRow, Absent, Statuses
  <2>2. item' = [item EXCEPT ![i] = row]
    BY <1>1 DEF Create
  <2>3. UNCHANGED <<log, clock, procStart, pc, task, sweepPc, torn>>
    BY <1>1 DEF Create
  <2> HIDE DEF row
  <2>4. QueueTypes'
    BY <2>1, <2>2, <2>3
  <2>5. ASSUME NEW j \in Items, Live(j)', item'[j].human # "none", j \notin torn'
        PROVE  Accounted(j)'
    <3>1. j # i /\ item'[j] = item[j]
      BY <2>1, <2>2, <2>5
    <3> QED BY <2>3, <2>5, <3>1
  <2> QED BY <2>4, <2>5
<1>2. ASSUME NEW s \in Statuses, item' = [item EXCEPT ![i].status = s],
             UNCHANGED <<log, clock, procStart, pc, task, sweepPc, torn>>
      PROVE  QueueInv'
  <2>a. PICK old \in QueueRow : old = item[i] OBVIOUS
  <2> DEFINE row == [old EXCEPT !.status = s]
  <2>1. row \in QueueRow /\ row.human = item[i].human /\ row.row = item[i].row
    <3>1. row \in QueueRow BY DEF QueueRow
    <3>2. row.human = old.human /\ row.row = old.row BY DEF QueueRow
    <3> QED BY <2>a, <3>1, <3>2
  <2>2. item' = [item EXCEPT ![i] = row]
    BY <1>2, <2>a
  <2> HIDE DEF row
  <2> QED BY <1>2, <2>1, <2>2
<1>3. CASE Delete(i)
  <2> DEFINE row == [item[i] EXCEPT !.row = "deleted"]
  <2>1. row \in QueueRow /\ row.row = "deleted"
    BY DEF QueueRow
  <2>2. item' = [item EXCEPT ![i] = row]
    BY <1>3 DEF Delete
  <2> HIDE DEF row
  <2> QED BY <1>3, <2>1, <2>2 DEF Delete
<1>4. CASE Assign(i)
  BY <1>4, <1>2 DEF Assign, Statuses
<1>5. ASSUME NEW s \in Patched, PatchStatus(i, s) PROVE QueueInv'
  BY <1>5, <1>2 DEF PatchStatus
<1> QED BY <1>1, <1>3, <1>4, <1>5

\* A request loads, applies, records, fails or dies.
LEMMA LoadInv ==
    ASSUME QueueInv, NEW i \in Items, NEW r \in Reviewers, NEW v \in Verdicts, Load(r, i, v)
    PROVE  QueueInv'
BY DEF QueueInv, QueueTypes, Explained, Accounted, Live, Load

LEMMA ApplyInv == ASSUME QueueInv, NEW r \in Reviewers, Apply(r) PROVE QueueInv'
<1> USE DEF QueueInv, QueueTypes, Explained, Accounted, Live
<1>1. PICK i \in Items, v \in Verdicts :
        i = task[r].item /\ v = task[r].verdict /\ pc[r] = "loaded" /\ Live(i)
  BY DEF Apply
<1>2. PICK row \in QueueRow : /\ item' = [item EXCEPT ![i] = row]
                         /\ row.row = item[i].row /\ row.human \in {item[i].human, v}
  BY <1>1, FlushKeeps DEF Apply
<1>3. pc' = [pc EXCEPT ![r] = "applied"] /\ UNCHANGED <<log, clock, procStart, task, sweepPc, torn>>
  BY DEF Apply
<1>4. QueueTypes'
  BY <1>1, <1>2, <1>3
<1>5. ASSUME NEW j \in Items, Live(j)', item'[j].human # "none", j \notin torn'
      PROVE  Accounted(j)'
  <2>1. CASE j # i
    BY <1>1, <1>2, <1>3, <1>5, <2>1
  <2>2. CASE j = i
    <3>1. item'[j] = row
      BY <1>2, <2>2
    <3>2. CASE row.human = v
      BY <1>1, <1>3, <2>2, <3>1, <3>2
    <3>3. CASE row.human = item[i].human
      BY <1>1, <1>2, <1>3, <1>5, <2>2, <3>1, <3>3
    <3> QED BY <1>2, <3>2, <3>3
  <2> QED BY <2>1, <2>2
<1> QED BY <1>4, <1>5

LEMMA RecordInv == ASSUME QueueInv, NEW r \in Reviewers, Record(r) PROVE QueueInv'
<1> USE DEF QueueInv, QueueTypes, Explained, Accounted, Live
<1> DEFINE i == task[r].item
           v == task[r].verdict
<1>1. i \in Items /\ Action(v) \in Records
  BY ActionType DEF Record
<1>2. /\ log' = [log EXCEPT ![i] = @ \cup {Action(v)}]
      /\ pc' = [pc EXCEPT ![r] = "idle"] /\ task' = [task EXCEPT ![r] = NoTask]
      /\ UNCHANGED <<item, clock, procStart, sweepPc, torn>>
  BY DEF Record, EndRequest
<1>3. QueueTypes'
  BY <1>1, <1>2 DEF NoTask, Absent, QueueRow, Statuses
<1>4. ASSUME NEW j \in Items, Live(j)', item'[j].human # "none", j \notin torn'
      PROVE  Accounted(j)'
  <2>1. Accounted(j)
    BY <1>2, <1>4
  <2>2. log[j] \subseteq log'[j]
    BY <1>1, <1>2
  <2>3. CASE \E q \in Reviewers : /\ pc[q] = "applied" /\ task[q].item = j
                                  /\ task[q].verdict = item[j].human
    <3>1. PICK q \in Reviewers : /\ pc[q] = "applied" /\ task[q].item = j
                                 /\ task[q].verdict = item[j].human
      BY <2>3
    <3>2. CASE q = r
      BY <1>1, <1>2, <3>1, <3>2
    <3>3. CASE q # r
      BY <1>2, <3>1, <3>3
    <3> QED BY <3>2, <3>3
  <2> QED BY <1>2, <2>1, <2>2, <2>3
<1> QED BY <1>3, <1>4

\* A request that ends without recording was at a row that is gone, had not applied
\* anything, or leaves a torn resolution.
LEMMA EndInv ==
    ASSUME QueueInv, NEW r \in Reviewers, Fail(r) \/ RequestDies(r) PROVE QueueInv'
<1> USE DEF QueueInv, QueueTypes, Explained, Accounted, Live
<1>1. /\ pc' = [pc EXCEPT ![r] = "idle"] /\ task' = [task EXCEPT ![r] = NoTask]
      /\ UNCHANGED <<item, log, clock, procStart, sweepPc>>
      /\ torn \subseteq torn'
      /\ pc[r] = "applied" => ~Live(task[r].item) \/ task[r].item \in torn'
  BY DEF Fail, RequestDies, EndRequest
<1>2. QueueTypes'
  BY <1>1 DEF NoTask, Absent, QueueRow, Statuses
<1>3. ASSUME NEW j \in Items, Live(j)', item'[j].human # "none", j \notin torn'
      PROVE  Accounted(j)'
  <2>1. Accounted(j)
    BY <1>1, <1>3
  <2>2. ASSUME NEW q \in Reviewers, pc[q] = "applied", task[q].item = j
        PROVE  q # r
    BY <1>1, <1>3, <2>2
  <2> QED BY <1>1, <2>1, <2>2
<1> QED BY <1>2, <1>3

\* The sweep applies, records, fails or dies.
LEMMA SweepApplyInv == ASSUME QueueInv, NEW i \in Items, SweepApply(i) PROVE QueueInv'
<1> USE QueueAssumption DEF QueueInv, QueueTypes, Explained, Accounted, Live
<1>1. PICK row \in QueueRow : /\ item' = [item EXCEPT ![i] = row]
                         /\ row.row = item[i].row /\ row.human \in {item[i].human, "approve"}
  BY FlushKeeps DEF SweepApply
<1>2. /\ sweepPc = "next" /\ sweepPc' = i
      /\ UNCHANGED <<log, clock, procStart, pc, task, torn>>
  BY DEF SweepApply
<1>3. QueueTypes'
  BY <1>1, <1>2
<1>4. ASSUME NEW j \in Items, Live(j)', item'[j].human # "none", j \notin torn'
      PROVE  Accounted(j)'
  BY <1>1, <1>2, <1>4
<1> QED BY <1>3, <1>4

LEMMA SweepRecordInv == ASSUME QueueInv, NEW i \in Items, SweepRecord(i) PROVE QueueInv'
<1> USE QueueAssumption DEF QueueInv, QueueTypes, Explained, Accounted, Live
<1>1. /\ log' = [log EXCEPT ![i] = @ \cup {"sla_auto_approved"}]
      /\ sweepPc = i /\ sweepPc' \in {"idle", "next"}
      /\ UNCHANGED <<item, clock, procStart, pc, task, torn>>
  BY DEF SweepRecord, EndSweep
<1>2. QueueTypes'
  BY <1>1 DEF Records
<1>3. ASSUME NEW j \in Items, Live(j)', item'[j].human # "none", j \notin torn'
      PROVE  Accounted(j)'
  BY <1>1, <1>3
<1> QED BY <1>2, <1>3

LEMMA SweepEndInv ==
    ASSUME QueueInv, SweepDies \/ \E i \in Items : SweepFails(i) PROVE QueueInv'
<1> USE QueueAssumption DEF QueueInv, QueueTypes, Explained, Accounted, Live
<1>1. /\ UNCHANGED <<item, log, clock, procStart, pc, task>> /\ sweepPc' = "idle"
      /\ torn \subseteq torn'
      /\ \A j \in Items : sweepPc = j => ~Live(j) \/ j \in torn'
  BY DEF SweepDies, SweepFails, EndSweep
<1> QED BY <1>1

\* Every step keeps the invariant.
LEMMA NextInv == QueueInv /\ [Next]_vars => QueueInv'
<1> SUFFICES ASSUME QueueInv, [Next]_vars PROVE QueueInv'
  OBVIOUS
<1>1. CASE Tick \/ Restart \/ UNCHANGED vars
  BY <1>1, OtherInv
<1>2. CASE Sweep
  BY <1>2, OtherInv, SweepApplyInv, SweepRecordInv, SweepEndInv DEF Sweep
<1>3. CASE SweepDies
  BY <1>3, SweepEndInv
<1>4. ASSUME NEW i \in Items, NEW r \in Reviewers, NEW v \in Verdicts, Load(r, i, v)
      PROVE  QueueInv'
  BY <1>4, LoadInv
<1>5. ASSUME NEW i \in Items,
             \/ \E p \in Priorities : Create(i, p)
             \/ Assign(i) \/ Delete(i) \/ \E s \in Patched : PatchStatus(i, s)
      PROVE  QueueInv'
  BY <1>5, RowInv
<1>6. ASSUME NEW r \in Reviewers, Finish(r) \/ RequestDies(r) PROVE QueueInv'
  BY <1>6, ApplyInv, RecordInv, EndInv DEF Finish
<1> QED BY <1>1, <1>2, <1>3, <1>4, <1>5, <1>6 DEF Next

\* resolve_human_review, sla_auto_approve: the decision an item shows is one the
\* audit trail records for it, unless its session is between its two commits or
\* died there.
THEOREM DecisionsAreExplained == Spec => []AuditExplains
<1>1. QueueInv => AuditExplains
  BY DEF QueueInv, Explained, Accounted, AuditExplains
<1> QED BY <1>1, InitInv, NextInv, PTL DEF Spec

-----------------------------------------------------------------------------
(* Ingestion.  Of the requests with one id the replay key lets one pass, which stores the *)
(* reading or fails; a source that needs a person is flagged by the process that stored   *)
(* it, or that process is on record as cut short.                                         *)

UploadTask == [file : Files, tries : Int]
WorkerAt == {Unoccupied} \cup [at : {"process", "source"}, task : UploadTask]
            \cup [at : {"flag"}, task : UploadTask, source : Nat]
HookAt == {Unoccupied} \cup [at : {"store"}, reading : Readings] \cup [at : {"flag"}, source : Nat]
TallyRecord == [faults : Int, reprocessed : Int, edits : Int, windows : [Readings -> Nat],
                unqueued : SUBSET Files, exhausted : SUBSET Files, unflagged : SUBSET Nat]

\* What the pipelines find is any status and any verdict on the confidence.
Found == {Validation(c) : c \in Contents \cup Payloads}
SourceRecord == [of : Files \cup Readings \cup {"operator"},
                 status : {"valid", "flagged", "pending", "edited", "deleted"} \cup {v.status : v \in Found},
                 low : BOOLEAN \cup {v.low : v \in Found}]

IngestTypes ==
    /\ content \in [Files \cup Readings -> Contents \cup Payloads]
    /\ sources \in Seq(SourceRecord) /\ uploading \subseteq Files /\ replayKeys \subseteq Readings
    /\ ingestQueue \in Seq(UploadTask)
    /\ ingesting \in [IngestWorkers -> WorkerAt] /\ hook \in [Hooks -> HookAt]
    /\ tally \in TallyRecord

Storing(r, hooks) == {h \in Hooks : hooks[h].at = "store" /\ hooks[h].reading = r}
StoredAs(r, table) == {i \in DOMAIN table : table[i].of = r}
KeyFree(r, keys) == IF r \in keys THEN 0 ELSE 1

\* A reading that is stored or about to be has used up the key of a window.
ReadingsFit == \A r \in Readings :
    Cardinality(StoredAs(r, sources)) + Cardinality(Storing(r, hook)) + KeyFree(r, replayKeys) <= 1 + tally.windows[r]

IngestInv == IngestTypes /\ LowConfidenceIsReviewed /\ ReadingsFit

LEMMA SizesAreNumbers ==
    ASSUME IngestTypes, NEW r \in Readings
    PROVE  /\ IsFiniteSet(StoredAs(r, sources)) /\ Cardinality(StoredAs(r, sources)) \in Nat
           /\ IsFiniteSet(Storing(r, hook)) /\ Cardinality(Storing(r, hook)) \in Nat
           /\ KeyFree(r, replayKeys) \in 0..1 /\ tally.windows[r] \in Nat
<1>1. StoredAs(r, sources) \subseteq 1..Len(sources) /\ Len(sources) \in Nat
  BY LenProperties DEF IngestTypes, StoredAs
<1>a. IsFiniteSet(1..Len(sources)) BY <1>1, FS_Interval
<1>2. IsFiniteSet(StoredAs(r, sources)) BY <1>1, <1>a, FS_Subset
<1>3. IsFiniteSet(Storing(r, hook)) BY IngestBounds, FS_Subset DEF Storing
<1>4. tally.windows[r] \in Nat BY DEF IngestTypes, TallyRecord
<1> QED BY <1>2, <1>3, <1>4, FS_CardinalityType DEF KeyFree

\* An occupied worker or request goes on where it was, or what it was to flag is known.
LEMMA FlagsCarryOver ==
    ASSUME IngestTypes, LowConfidenceIsReviewed, NEW i \in DOMAIN sources,
           sources[i].status \notin {"edited", "deleted"}, sources[i].low,
           reviews \subseteq reviews', tally.unflagged \subseteq tally'.unflagged,
           \A w \in IngestWorkers : At(w, "flag") =>
               ingesting'[w] = ingesting[w] \/ ingesting[w].source \in reviews' \cup tally'.unflagged,
           \A h \in Hooks : hook[h].at = "flag" =>
               hook'[h] = hook[h] \/ hook[h].source \in reviews' \cup tally'.unflagged
    PROVE  \/ i \in reviews' \cup tally'.unflagged
           \/ \E w \in IngestWorkers : ingesting'[w].at = "flag" /\ ingesting'[w].source = i
           \/ \E h \in Hooks : hook'[h].at = "flag" /\ hook'[h].source = i
BY DEF LowConfidenceIsReviewed, At

LEMMA ReviewStays ==
    ASSUME IngestTypes, LowConfidenceIsReviewed, sources' = sources,
           reviews \subseteq reviews', tally.unflagged \subseteq tally'.unflagged,
           \A w \in IngestWorkers : At(w, "flag") =>
               ingesting'[w] = ingesting[w] \/ ingesting[w].source \in reviews' \cup tally'.unflagged,
           \A h \in Hooks : hook[h].at = "flag" =>
               hook'[h] = hook[h] \/ hook[h].source \in reviews' \cup tally'.unflagged
    PROVE  LowConfidenceIsReviewed'
<1>1. \A i \in DOMAIN sources : sources[i].status \notin {"edited", "deleted"} /\ sources[i].low =>
           \/ i \in reviews' \cup tally'.unflagged
           \/ \E w \in IngestWorkers : ingesting'[w].at = "flag" /\ ingesting'[w].source = i
           \/ \E h \in Hooks : hook'[h].at = "flag" /\ hook'[h].source = i
  BY FlagsCarryOver
<1> QED BY <1>1 DEF LowConfidenceIsReviewed, At

\* A row more needs a person only if its process is about to say so.
LEMMA ReviewGrows ==
    ASSUME IngestTypes, LowConfidenceIsReviewed, NEW s \in SourceRecord, sources' = Append(sources, s),
           reviews \subseteq reviews', tally.unflagged \subseteq tally'.unflagged,
           \A w \in IngestWorkers : At(w, "flag") => ingesting'[w] = ingesting[w],
           \A h \in Hooks : hook[h].at = "flag" => hook'[h] = hook[h],
           s.status = "edited" \/ ~s.low
           \/ (\E w \in IngestWorkers : ingesting'[w].at = "flag" /\ ingesting'[w].source = Len(sources) + 1)
           \/ (\E h \in Hooks : hook'[h].at = "flag" /\ hook'[h].source = Len(sources) + 1)
    PROVE  LowConfidenceIsReviewed'
<1>1. \A i \in DOMAIN sources : sources[i].status \notin {"edited", "deleted"} /\ sources[i].low =>
           \/ i \in reviews' \cup tally'.unflagged
           \/ \E w \in IngestWorkers : ingesting'[w].at = "flag" /\ ingesting'[w].source = i
           \/ \E h \in Hooks : hook'[h].at = "flag" /\ hook'[h].source = i
  BY FlagsCarryOver
<1>2. sources \in Seq(SourceRecord) BY DEF IngestTypes
<1>3. /\ DOMAIN sources' = DOMAIN sources \cup {Len(sources) + 1}
      /\ \A i \in DOMAIN sources : sources'[i] = sources[i]
      /\ sources'[Len(sources) + 1] = s
  BY <1>2, AppendProperties, LenProperties
<1> QED BY <1>1, <1>3 DEF LowConfidenceIsReviewed, At

LEMMA StoredOneMore ==
    ASSUME IngestTypes, NEW s \in SourceRecord, sources' = Append(sources, s), NEW r \in Readings
    PROVE  Cardinality(StoredAs(r, sources')) = Cardinality(StoredAs(r, sources)) + (IF s.of = r THEN 1 ELSE 0)
<1>1. sources \in Seq(SourceRecord) BY DEF IngestTypes
<1> DEFINE n == Len(sources) + 1
<1>2. /\ DOMAIN sources' = DOMAIN sources \cup {n} /\ n \notin DOMAIN sources
      /\ \A i \in DOMAIN sources : sources'[i] = sources[i]
      /\ sources'[n] = s
  BY <1>1, AppendProperties, LenProperties
<1>3. StoredAs(r, sources') = IF s.of = r THEN StoredAs(r, sources) \cup {n} ELSE StoredAs(r, sources)
  BY <1>2 DEF StoredAs
<1>4. n \notin StoredAs(r, sources) BY <1>2 DEF StoredAs
<1>5. IsFiniteSet(StoredAs(r, sources)) /\ Cardinality(StoredAs(r, sources)) \in Nat BY SizesAreNumbers
<1>6. Cardinality(StoredAs(r, sources) \cup {n}) = Cardinality(StoredAs(r, sources)) + 1
  BY <1>4, <1>5, FS_AddElement
<1> QED BY <1>3, <1>5, <1>6

LEMMA FitStays ==
    ASSUME IngestTypes, ReadingsFit, \A r \in Readings : StoredAs(r, sources') = StoredAs(r, sources),
           \A r \in Readings : Storing(r, hook') \subseteq Storing(r, hook),
           replayKeys' = replayKeys, tally'.windows = tally.windows
    PROVE  ReadingsFit'
<1> SUFFICES ASSUME NEW r \in Readings
             PROVE  Cardinality(StoredAs(r, sources')) + Cardinality(Storing(r, hook')) + KeyFree(r, replayKeys')
                       <= 1 + tally'.windows[r]
  BY DEF ReadingsFit
<1>1. Cardinality(Storing(r, hook')) <= Cardinality(Storing(r, hook)) /\ Cardinality(Storing(r, hook')) \in Nat
  BY SizesAreNumbers, FS_Subset, FS_CardinalityType
<1>2. Cardinality(StoredAs(r, sources')) = Cardinality(StoredAs(r, sources)) OBVIOUS
<1> QED BY <1>1, <1>2, SizesAreNumbers DEF ReadingsFit

LEMMA HookLeaves ==
    ASSUME IngestTypes, NEW h \in Hooks, NEW to \in HookAt, to.at # "store", hook' = [hook EXCEPT ![h] = to],
           NEW r \in Readings
    PROVE  Storing(r, hook') = Storing(r, hook) \ {h}
BY DEF IngestTypes, Storing

LEMMA IngestStart == IngestInit => IngestInv
<1> SUFFICES ASSUME IngestInit PROVE IngestInv OBVIOUS
<1>1. IngestTypes BY EmptySeq DEF IngestInit, IngestTypes, WorkerAt, HookAt, TallyRecord
<1>2. LowConfidenceIsReviewed BY DEF IngestInit, LowConfidenceIsReviewed
<1>3. ReadingsFit
  <2> SUFFICES ASSUME NEW r \in Readings
               PROVE  Cardinality(StoredAs(r, sources)) + Cardinality(Storing(r, hook)) + KeyFree(r, replayKeys)
                         <= 1 + tally.windows[r]
    BY DEF ReadingsFit
  <2>1. StoredAs(r, sources) = {} /\ Storing(r, hook) = {}
    BY DEF IngestInit, StoredAs, Storing, Unoccupied
  <2>2. KeyFree(r, replayKeys) = 1 /\ tally.windows[r] = 0 BY DEF IngestInit, KeyFree
  <2> QED BY <2>1, <2>2, FS_EmptySet
<1> QED BY <1>1, <1>2, <1>3 DEF IngestInv

LEMMA TallyCounts ==
    ASSUME IngestTypes, NEW field \in {"faults", "reprocessed", "edits"}
    PROVE  /\ Counted(field) \in TallyRecord /\ Counted(field).windows = tally.windows
           /\ Counted(field).unflagged = tally.unflagged
<1>1. PICK t \in TallyRecord : t = tally BY DEF IngestTypes
<1>2. CASE field = "faults"
  <2>1. Counted(field) = [t EXCEPT !.faults = @ + 1] BY <1>1, <1>2 DEF Counted
  <2> QED BY <1>1, <2>1 DEF TallyRecord
<1>3. CASE field = "reprocessed"
  <2>1. Counted(field) = [t EXCEPT !.reprocessed = @ + 1] BY <1>1, <1>3 DEF Counted
  <2> QED BY <1>1, <2>1 DEF TallyRecord
<1>4. CASE field = "edits"
  <2>1. Counted(field) = [t EXCEPT !.edits = @ + 1] BY <1>1, <1>4 DEF Counted
  <2> QED BY <1>1, <2>1 DEF TallyRecord
<1> QED BY <1>2, <1>3, <1>4

\* Requests that upload, and workers up to the row.
LEMMA UploadsKeep ==
    ASSUME IngestInv,
           \/ \E f \in Files : UploadFile(f) \/ ReprocessUpload(f) \/ QueueProcessing(f) \/ UploadDies(f)
           \/ \E w \in IngestWorkers : TakeUpload(w) \/ \E fetched \in BOOLEAN : ProcessUpload(w, fetched)
    PROVE  IngestInv'
<1> USE DEF IngestInv
<1>1. /\ UNCHANGED <<content, sources, reviews, hook, replayKeys>>
      /\ tally'.windows = tally.windows /\ tally'.unflagged = tally.unflagged
      /\ tally' \in TallyRecord /\ uploading' \subseteq Files /\ ingestQueue' \in Seq(UploadTask)
      /\ ingesting' \in [IngestWorkers -> WorkerAt]
      /\ \A w \in IngestWorkers : At(w, "flag") => ingesting'[w] = ingesting[w]
  <2>1. CASE \E f \in Files : UploadFile(f)
    BY <2>1 DEF UploadFile, IngestTypes
  <2>6. CASE \E f \in Files : QueueProcessing(f)
    <3> PICK f \in Files : QueueProcessing(f) BY <2>6
    <3>1. [file |-> f, tries |-> 0] \in UploadTask BY DEF UploadTask
    <3>2. ingestQueue' \in Seq(UploadTask) BY <3>1, AppendProperties DEF QueueProcessing, IngestTypes
    <3> QED BY <3>2 DEF QueueProcessing, IngestTypes
  <2>2. CASE \E f \in Files : ReprocessUpload(f)
    BY <2>2, TallyCounts DEF ReprocessUpload, IngestTypes
  <2>3. CASE \E f \in Files : UploadDies(f)
    <3> PICK f \in Files : UploadDies(f) BY <2>3
    <3>1. PICK c \in TallyRecord : /\ c = Counted("faults") /\ c.windows = tally.windows
                                   /\ c.unflagged = tally.unflagged
      BY TallyCounts
    <3>2. tally' = [c EXCEPT !.unqueued = @ \cup {f}] BY <3>1 DEF UploadDies
    <3>3. tally' \in TallyRecord /\ tally'.windows = c.windows /\ tally'.unflagged = c.unflagged
      BY <3>2 DEF TallyRecord
    <3> QED BY <3>1, <3>3 DEF UploadDies, IngestTypes
  <2>4. CASE \E w \in IngestWorkers : TakeUpload(w)
    <3> PICK w \in IngestWorkers : TakeUpload(w) BY <2>4
    <3>1. Head(ingestQueue) \in UploadTask /\ Tail(ingestQueue) \in Seq(UploadTask)
      BY HeadTailProperties DEF TakeUpload, IngestTypes
    <3> QED BY <3>1 DEF TakeUpload, IngestTypes, WorkerAt, At
  <2>5. CASE \E w \in IngestWorkers, fetched \in BOOLEAN : ProcessUpload(w, fetched)
    <3> PICK w \in IngestWorkers, fetched \in BOOLEAN : ProcessUpload(w, fetched) BY <2>5
    <3>1. PICK m \in UploadTask : ingesting[w] = [at |-> "process", task |-> m]
      BY DEF ProcessUpload, At, IngestTypes, WorkerAt, Unoccupied
    <3>2. [ingesting[w] EXCEPT !.at = "source"] = [at |-> "source", task |-> m] BY <3>1
    <3>3. ingesting' \in [IngestWorkers -> WorkerAt]
      BY <3>2 DEF ProcessUpload, IngestTypes, WorkerAt
    <3>4. \A v \in IngestWorkers : At(v, "flag") => ingesting'[v] = ingesting[v]
      BY <3>1 DEF ProcessUpload, IngestTypes, At
    <3> QED BY <3>3, <3>4, TallyCounts DEF ProcessUpload, IngestTypes
  <2> QED BY <2>1, <2>2, <2>3, <2>4, <2>5, <2>6
<1>2. IngestTypes' BY <1>1 DEF IngestTypes
<1>3. LowConfidenceIsReviewed' BY <1>1, ReviewStays
<1>4. ReadingsFit' BY <1>1, FitStays
<1> QED BY <1>2, <1>3, <1>4

\* What a pipeline finds of what the file or the reading holds.
LEMMA FoundIsKept ==
    ASSUME IngestTypes, NEW x \in Files \cup Readings
    PROVE  Validation(content[x]) \in Found
BY DEF IngestTypes, Found

LEMMA FoundIsRecorded ==
    ASSUME NEW v \in Found, NEW x \in Files \cup Readings
    PROVE  /\ Source(x, v.status, v.low) \in SourceRecord
           /\ Source(x, ReadingStatus(v), v.low) \in SourceRecord
<1>1. v.status \in {u.status : u \in Found} /\ v.low \in {u.low : u \in Found} OBVIOUS
<1>2. ReadingStatus(v) \in {"valid", "flagged", "pending"} BY DEF ReadingStatus
<1> QED BY <1>1, <1>2 DEF Source, SourceRecord

LEMMA StoreSourceKeeps == ASSUME IngestInv, NEW w \in IngestWorkers, StoreSource(w) PROVE IngestInv'
<1> USE DEF IngestInv
<1>1. PICK m \in UploadTask : ingesting[w] = [at |-> "source", task |-> m]
  BY DEF StoreSource, At, IngestTypes, WorkerAt, Unoccupied
<1>2. m.file \in Files /\ Task(w) = m BY <1>1 DEF UploadTask, Task
<1>3. PICK v \in Found : v = Validation(content[m.file]) BY <1>2, FoundIsKept
<1>4. PICK s \in SourceRecord : s = Source(m.file, v.status, v.low) BY <1>2, FoundIsRecorded
<1>5. s.of = m.file /\ s.low = v.low BY <1>4 DEF Source
<1>6. sources' = Append(sources, s)
      /\ ingesting' = [ingesting EXCEPT ![w] = IF v.low THEN [at |-> "flag", task |-> m, source |-> Len(sources) + 1]
                                               ELSE Unoccupied]
  BY <1>1, <1>2, <1>3, <1>4 DEF StoreSource, NeedsHumanReview
<1>7. sources' \in Seq(SourceRecord) BY <1>6, AppendProperties DEF IngestTypes
<1>8. Len(sources) \in Nat BY LenProperties DEF IngestTypes
<1>9. [at |-> "flag", task |-> m, source |-> Len(sources) + 1] \in WorkerAt BY <1>8 DEF WorkerAt
<1>10. Unoccupied \in WorkerAt BY DEF WorkerAt
<1>11. ingesting' \in [IngestWorkers -> WorkerAt] BY <1>6, <1>9, <1>10 DEF IngestTypes
<1>12. IngestTypes' BY <1>7, <1>11 DEF StoreSource, IngestTypes
<1>13. v.low => ingesting'[w].at = "flag" /\ ingesting'[w].source = Len(sources) + 1
  BY <1>6 DEF IngestTypes
<1>14. \A u \in IngestWorkers : At(u, "flag") => ingesting'[u] = ingesting[u]
  BY <1>1, <1>6 DEF At, IngestTypes
<1>15. LowConfidenceIsReviewed'
  BY <1>5, <1>6, <1>13, <1>14, ReviewGrows DEF StoreSource
<1>16. \A r \in Readings : r # m.file BY <1>2, IngestBounds
<1>17. ReadingsFit'
  <2> SUFFICES ASSUME NEW r \in Readings
               PROVE  Cardinality(StoredAs(r, sources')) + Cardinality(Storing(r, hook')) + KeyFree(r, replayKeys')
                         <= 1 + tally'.windows[r]
    BY DEF ReadingsFit
  <2>1. Cardinality(StoredAs(r, sources')) = Cardinality(StoredAs(r, sources)) + (IF s.of = r THEN 1 ELSE 0)
    BY <1>6, StoredOneMore
  <2>2. s.of # r BY <1>5, <1>16
  <2>3. Cardinality(StoredAs(r, sources')) = Cardinality(StoredAs(r, sources)) BY <2>1, <2>2, SizesAreNumbers
  <2> QED BY <2>3 DEF ReadingsFit, StoreSource
<1> QED BY <1>12, <1>15, <1>17

LEMMA FlagSourceKeeps == ASSUME IngestInv, NEW w \in IngestWorkers, FlagSource(w) PROVE IngestInv'
<1> USE DEF IngestInv
<1>1. /\ ingesting' = [ingesting EXCEPT ![w] = Unoccupied] /\ reviews' = reviews \cup {ingesting[w].source}
      /\ UNCHANGED <<content, upload, uploading, sources, ingestQueue, hook, replayKeys, tally>>
  BY DEF FlagSource
<1>2. ingesting' \in [IngestWorkers -> WorkerAt] BY <1>1 DEF IngestTypes, WorkerAt
<1>3. IngestTypes' BY <1>1, <1>2 DEF IngestTypes
<1>4. \A u \in IngestWorkers : At(u, "flag") =>
          ingesting'[u] = ingesting[u] \/ ingesting[u].source \in reviews' \cup tally'.unflagged
  BY <1>1 DEF IngestTypes
<1>5. LowConfidenceIsReviewed' BY <1>1, <1>4, ReviewStays
<1>6. ReadingsFit' BY <1>1, FitStays
<1> QED BY <1>3, <1>5, <1>6

\* What a task or a request cut short was to flag goes on record.
LEMMA CutShort ==
    ASSUME IngestTypes, NEW left \in SUBSET Nat,
           tally'.unflagged = Counted("faults").unflagged \cup left
    PROVE  tally.unflagged \subseteq tally'.unflagged /\ left \subseteq tally'.unflagged
BY TallyCounts

LEMMA TaskFailsKeeps == ASSUME IngestInv, NEW w \in IngestWorkers, NEW died \in BOOLEAN, TaskFails(w, died) PROVE IngestInv'
<1> USE DEF IngestInv
<1> DEFINE left == Unflagged(ingesting[w])
<1>1. PICK p \in WorkerAt : p = ingesting[w] BY DEF IngestTypes
<1>2. p # Unoccupied BY <1>1 DEF TaskFails, At, Unoccupied
<1>3. PICK m \in UploadTask : m = Task(w) BY <1>1, <1>2 DEF WorkerAt, Task
<1>4. left \in SUBSET Nat /\ (p.at = "flag" => left = {p.source})
  BY <1>1 DEF WorkerAt, Unflagged, Unoccupied
<1>5. PICK c \in TallyRecord : c = Counted("faults") /\ c.windows = tally.windows /\ c.unflagged = tally.unflagged
  BY TallyCounts
<1>6. PICK lost \in SUBSET Files :
        tally' = [c EXCEPT !.unflagged = @ \cup left, !.exhausted = lost]
  <2>1. c.exhausted \subseteq Files /\ m.file \in Files BY DEF TallyRecord, UploadTask
  <2>2. tally' = [c EXCEPT !.unflagged = @ \cup left,
                           !.exhausted = IF died \/ m.tries < IngestRetries THEN @ ELSE @ \cup {m.file}]
    BY <1>3, <1>5 DEF TaskFails
  <2>3. tally' = [c EXCEPT !.unflagged = @ \cup left,
            !.exhausted = IF died \/ m.tries < IngestRetries THEN c.exhausted ELSE c.exhausted \cup {m.file}]
    BY <2>2
  <2> QED BY <2>1, <2>3
<1> HIDE DEF left
<1>7. /\ tally' \in TallyRecord /\ tally'.windows = tally.windows
      /\ tally'.unflagged = c.unflagged \cup left
  <2>1. c.unflagged \cup left \in SUBSET Nat BY <1>4 DEF TallyRecord
  <2> QED BY <1>5, <1>6, <2>1 DEF TallyRecord
<1>8. ingestQueue' \in Seq(UploadTask)
  <2>1. [m EXCEPT !.tries = IF died THEN @ ELSE @ + 1] \in UploadTask BY DEF UploadTask
  <2> QED BY <2>1, <1>3, AppendProperties DEF TaskFails, IngestTypes
<1>9. /\ ingesting' = [ingesting EXCEPT ![w] = Unoccupied]
      /\ UNCHANGED <<content, upload, uploading, sources, reviews, hook, replayKeys>>
  BY DEF TaskFails
<1>10. ingesting' \in [IngestWorkers -> WorkerAt] BY <1>9 DEF IngestTypes, WorkerAt
<1>11. IngestTypes' BY <1>7, <1>8, <1>9, <1>10 DEF IngestTypes
<1>12. \A u \in IngestWorkers : At(u, "flag") =>
          ingesting'[u] = ingesting[u] \/ ingesting[u].source \in reviews' \cup tally'.unflagged
  BY <1>1, <1>4, <1>7, <1>9 DEF IngestTypes, At
<1>13. LowConfidenceIsReviewed' BY <1>5, <1>7, <1>9, <1>12, ReviewStays
<1>14. ReadingsFit' BY <1>7, <1>9, FitStays
<1> QED BY <1>11, <1>13, <1>14

\* SET NX: the key is there for the request that set it.
LEMMA ReceiveKeeps == ASSUME IngestInv, NEW h \in Hooks, NEW r \in Readings, Receive(h, r) PROVE IngestInv'
<1> USE DEF IngestInv
<1> DEFINE to == [at |-> "store", reading |-> r]
<1>1. /\ hook[h].at = "idle" /\ r \notin replayKeys /\ replayKeys' = replayKeys \cup {r}
      /\ hook' = [hook EXCEPT ![h] = to]
      /\ UNCHANGED <<content, upload, uploading, sources, reviews, ingestQueue, ingesting, tally>>
  BY DEF Receive
<1>2. to \in HookAt BY DEF HookAt
<1>3. hook' \in [Hooks -> HookAt] BY <1>1, <1>2 DEF IngestTypes
<1>4. IngestTypes' BY <1>1, <1>3 DEF IngestTypes
<1>5. \A g \in Hooks : hook[g].at = "flag" => hook'[g] = hook[g] BY <1>1 DEF IngestTypes
<1>6. LowConfidenceIsReviewed' BY <1>1, <1>5, ReviewStays
<1>7. ASSUME NEW x \in Readings
      PROVE  Cardinality(StoredAs(x, sources')) + Cardinality(Storing(x, hook')) + KeyFree(x, replayKeys')
                <= 1 + tally'.windows[x]
  <2>1. Storing(x, hook') = IF x = r THEN Storing(x, hook) \cup {h} ELSE Storing(x, hook)
    BY <1>1 DEF Storing, IngestTypes
  <2>2. h \notin Storing(x, hook) BY <1>1 DEF Storing
  <2>3. Cardinality(Storing(x, hook) \cup {h}) = Cardinality(Storing(x, hook)) + 1
    BY <2>2, SizesAreNumbers, FS_AddElement
  <2>4. KeyFree(x, replayKeys') = IF x = r THEN 0 ELSE KeyFree(x, replayKeys) BY <1>1 DEF KeyFree
  <2>5. x = r => KeyFree(x, replayKeys) = 1 BY <1>1 DEF KeyFree
  <2>6. Cardinality(StoredAs(x, sources)) + Cardinality(Storing(x, hook)) + KeyFree(x, replayKeys)
           <= 1 + tally.windows[x]
    BY DEF ReadingsFit
  <2>7. StoredAs(x, sources') = StoredAs(x, sources) /\ tally' = tally BY <1>1
  <2>8. CASE x = r
    <3>1. Cardinality(Storing(x, hook')) = Cardinality(Storing(x, hook)) + 1 /\ KeyFree(x, replayKeys') = 0
      BY <2>1, <2>3, <2>4, <2>8
    <3> QED BY <2>5, <2>6, <2>7, <2>8, <3>1, SizesAreNumbers
  <2>9. CASE x # r BY <2>1, <2>4, <2>6, <2>7, <2>9
  <2> QED BY <2>8, <2>9
<1>8. ReadingsFit' BY <1>7 DEF ReadingsFit
<1> QED BY <1>4, <1>6, <1>8

LEMMA WindowPassesKeeps == ASSUME IngestInv, NEW r \in Readings, ReplayWindowPasses(r) PROVE IngestInv'
<1> USE DEF IngestInv
<1>1. PICK t \in TallyRecord : t = tally BY DEF IngestTypes
<1>2. /\ replayKeys' = replayKeys \ {r} /\ tally' = [t EXCEPT !.windows[r] = @ + 1] /\ r \in replayKeys
      /\ UNCHANGED <<content, upload, uploading, sources, reviews, ingestQueue, ingesting, hook>>
  BY <1>1 DEF ReplayWindowPasses
<1>3. PICK n \in [Readings -> Nat] : n = [t.windows EXCEPT ![r] = @ + 1]
  <2>1. PICK o \in [Readings -> Nat] : o = t.windows BY DEF TallyRecord
  <2>2. [o EXCEPT ![r] = @ + 1] \in [Readings -> Nat] OBVIOUS
  <2> QED BY <2>1, <2>2
<1>4. tally' \in TallyRecord /\ tally'.unflagged = tally.unflagged /\ tally'.windows = n
  BY <1>1, <1>2, <1>3 DEF TallyRecord
<1>5. IngestTypes' BY <1>2, <1>4 DEF IngestTypes
<1>6. LowConfidenceIsReviewed' BY <1>2, <1>4, ReviewStays
<1>7. ASSUME NEW x \in Readings
      PROVE  Cardinality(StoredAs(x, sources')) + Cardinality(Storing(x, hook')) + KeyFree(x, replayKeys')
                <= 1 + tally'.windows[x]
  <2>1. Cardinality(StoredAs(x, sources)) + Cardinality(Storing(x, hook)) + KeyFree(x, replayKeys)
           <= 1 + tally.windows[x]
    BY DEF ReadingsFit
  <2>2. tally'.windows[x] = IF x = r THEN tally.windows[x] + 1 ELSE tally.windows[x]
    BY <1>1, <1>3, <1>4 DEF TallyRecord
  <2>3. KeyFree(x, replayKeys') = IF x = r THEN 1 ELSE KeyFree(x, replayKeys) BY <1>2 DEF KeyFree
  <2>4. x = r => KeyFree(x, replayKeys) = 0 BY <1>2 DEF KeyFree
  <2>5. sources' = sources /\ hook' = hook BY <1>2
  <2>6. CASE x = r
    <3>1. KeyFree(x, replayKeys') = 1 /\ KeyFree(x, replayKeys) = 0
          /\ tally'.windows[x] = tally.windows[x] + 1
      BY <2>2, <2>3, <2>4, <2>6
    <3> QED BY <3>1, <2>1, <2>5, SizesAreNumbers
  <2>7. CASE x # r BY <2>1, <2>2, <2>3, <2>5, <2>7
  <2> QED BY <2>6, <2>7
<1>8. ReadingsFit' BY <1>7 DEF ReadingsFit
<1> QED BY <1>5, <1>6, <1>8

LEMMA StoreReadingKeeps == ASSUME IngestInv, NEW h \in Hooks, StoreReading(h) PROVE IngestInv'
<1> USE DEF IngestInv
<1>1. PICK r \in Readings : hook[h] = [at |-> "store", reading |-> r]
  BY DEF StoreReading, IngestTypes, HookAt, Unoccupied
<1>2. PICK v \in Found : v = Validation(content[r]) BY FoundIsKept
<1>3. PICK s \in SourceRecord : s = Source(r, ReadingStatus(v), v.low) BY FoundIsRecorded
<1>4. s.of = r /\ s.low = v.low BY <1>3 DEF Source
<1>5. PICK to \in HookAt : to = IF v.low THEN [at |-> "flag", source |-> Len(sources) + 1] ELSE Unoccupied
  <2>1. Len(sources) + 1 \in Nat BY LenProperties DEF IngestTypes
  <2> QED BY <2>1 DEF HookAt
<1>6. /\ sources' = Append(sources, s) /\ hook' = [hook EXCEPT ![h] = to]
      /\ UNCHANGED <<content, upload, uploading, reviews, ingestQueue, ingesting, replayKeys, tally>>
  BY <1>1, <1>2, <1>3, <1>5 DEF StoreReading, NeedsHumanReview
<1>7. to.at # "store" BY <1>5 DEF Unoccupied
<1>8. sources' \in Seq(SourceRecord) BY <1>6, AppendProperties DEF IngestTypes
<1>9. hook' \in [Hooks -> HookAt] BY <1>6 DEF IngestTypes
<1>10. IngestTypes' BY <1>6, <1>8, <1>9 DEF IngestTypes
<1>11. v.low => hook'[h].at = "flag" /\ hook'[h].source = Len(sources) + 1 BY <1>5, <1>6 DEF IngestTypes
<1>12. \A g \in Hooks : hook[g].at = "flag" => hook'[g] = hook[g] BY <1>1, <1>6 DEF IngestTypes
<1>13. LowConfidenceIsReviewed' BY <1>4, <1>6, <1>11, <1>12, ReviewGrows
<1>14. ASSUME NEW x \in Readings
      PROVE  Cardinality(StoredAs(x, sources')) + Cardinality(Storing(x, hook')) + KeyFree(x, replayKeys')
                <= 1 + tally'.windows[x]
  <2>1. Cardinality(StoredAs(x, sources)) + Cardinality(Storing(x, hook)) + KeyFree(x, replayKeys)
           <= 1 + tally.windows[x]
    BY DEF ReadingsFit
  <2>2. Cardinality(StoredAs(x, sources')) = Cardinality(StoredAs(x, sources)) + (IF s.of = x THEN 1 ELSE 0)
    BY <1>6, StoredOneMore
  <2>3. Storing(x, hook') = Storing(x, hook) \ {h} BY <1>6, <1>7, HookLeaves
  <2>4. tally' = tally /\ replayKeys' = replayKeys BY <1>6
  <2>5. CASE x = r
    <3>1. h \in Storing(x, hook) BY <1>1, <2>5 DEF Storing
    <3>2. Cardinality(Storing(x, hook) \ {h}) = Cardinality(Storing(x, hook)) - 1
      BY <3>1, SizesAreNumbers, FS_RemoveElement
    <3>3. Cardinality(StoredAs(x, sources')) = Cardinality(StoredAs(x, sources)) + 1 BY <1>4, <2>2, <2>5
    <3> QED BY <2>1, <2>3, <2>4, <3>2, <3>3, SizesAreNumbers
  <2>6. CASE x # r
    <3>1. Storing(x, hook') = Storing(x, hook) BY <1>1, <2>3, <2>6 DEF Storing
    <3>2. Cardinality(StoredAs(x, sources')) = Cardinality(StoredAs(x, sources))
      BY <1>4, <2>2, <2>6, SizesAreNumbers
    <3> QED BY <2>1, <2>4, <3>1, <3>2
  <2> QED BY <2>5, <2>6
<1>15. ReadingsFit' BY <1>14 DEF ReadingsFit
<1> QED BY <1>10, <1>13, <1>15

LEMMA FlagReadingKeeps == ASSUME IngestInv, NEW h \in Hooks, FlagReading(h) PROVE IngestInv'
<1> USE DEF IngestInv
<1>1. /\ hook' = [hook EXCEPT ![h] = Unoccupied] /\ reviews' = reviews \cup {hook[h].source}
      /\ UNCHANGED <<content, upload, uploading, sources, ingestQueue, ingesting, replayKeys, tally>>
  BY DEF FlagReading
<1>2. Unoccupied \in HookAt /\ Unoccupied.at # "store" BY DEF HookAt, Unoccupied
<1>3. hook' \in [Hooks -> HookAt] BY <1>1, <1>2 DEF IngestTypes
<1>4. IngestTypes' BY <1>1, <1>3 DEF IngestTypes
<1>5. \A g \in Hooks : hook[g].at = "flag" =>
          hook'[g] = hook[g] \/ hook[g].source \in reviews' \cup tally'.unflagged
  BY <1>1 DEF IngestTypes
<1>6. LowConfidenceIsReviewed' BY <1>1, <1>5, ReviewStays
<1>7. \A x \in Readings : Storing(x, hook') = Storing(x, hook) \ {h} BY <1>1, <1>2, HookLeaves
<1>8. ReadingsFit' BY <1>1, <1>7, FitStays
<1> QED BY <1>4, <1>6, <1>8

LEMMA HookFailsKeeps == ASSUME IngestInv, NEW h \in Hooks, HookFails(h) PROVE IngestInv'
<1> USE DEF IngestInv
<1> DEFINE left == Unflagged(hook[h])
<1>1. PICK p \in HookAt : p = hook[h] BY DEF IngestTypes
<1>2. left \in SUBSET Nat /\ (p.at = "flag" => left = {p.source}) BY <1>1 DEF HookAt, Unflagged, Unoccupied
<1>3. PICK c \in TallyRecord : c = Counted("faults") /\ c.windows = tally.windows /\ c.unflagged = tally.unflagged
  BY TallyCounts
<1>4. /\ hook' = [hook EXCEPT ![h] = Unoccupied] /\ tally' = [c EXCEPT !.unflagged = @ \cup left]
      /\ UNCHANGED <<content, upload, uploading, sources, reviews, ingestQueue, ingesting, replayKeys>>
  BY <1>3 DEF HookFails
<1> HIDE DEF left
<1>5. /\ tally' \in TallyRecord /\ tally'.windows = c.windows /\ tally'.unflagged = c.unflagged \cup left
  BY <1>2, <1>4 DEF TallyRecord
<1>6. Unoccupied \in HookAt /\ Unoccupied.at # "store" BY DEF HookAt, Unoccupied
<1>7. hook' \in [Hooks -> HookAt] BY <1>4, <1>6 DEF IngestTypes
<1>8. IngestTypes' BY <1>4, <1>5, <1>7 DEF IngestTypes
<1>9. \A g \in Hooks : hook[g].at = "flag" =>
          hook'[g] = hook[g] \/ hook[g].source \in reviews' \cup tally'.unflagged
  BY <1>1, <1>2, <1>4, <1>5 DEF IngestTypes
<1>10. LowConfidenceIsReviewed' BY <1>3, <1>4, <1>5, <1>9, ReviewStays
<1>11. \A x \in Readings : Storing(x, hook') = Storing(x, hook) \ {h} BY <1>4, <1>6, HookLeaves
<1>12. ReadingsFit' BY <1>3, <1>4, <1>5, <1>11, FitStays
<1> QED BY <1>8, <1>10, <1>12

\* An operator: what he enters is no reading, and what he changes stays of what it is.
LEMMA EditsKeep ==
    ASSUME IngestInv,
           CreateDataSource \/ \E i \in DOMAIN sources :
               DeleteDataSource(i) \/ \E low \in BOOLEAN : UpdateDataSource(i, low)
    PROVE  IngestInv'
<1> USE DEF IngestInv
<1>1. tally' = Counted("edits") BY DEF CreateDataSource, DeleteDataSource, UpdateDataSource, Edits
<1>2. tally' \in TallyRecord /\ tally'.windows = tally.windows /\ tally'.unflagged = tally.unflagged
  BY <1>1, TallyCounts
<1>3. UNCHANGED <<content, upload, uploading, reviews, ingestQueue, ingesting, hook, replayKeys>>
  BY DEF CreateDataSource, DeleteDataSource, UpdateDataSource
<1>4. CASE CreateDataSource
  <2>1. PICK s \in SourceRecord : s = Source("operator", "edited", FALSE) BY DEF Source, SourceRecord
  <2>2. s.of = "operator" /\ s.status = "edited" BY <2>1 DEF Source
  <2>3. sources' = Append(sources, s) BY <1>4, <2>1 DEF CreateDataSource
  <2>4. IngestTypes' BY <1>2, <1>3, <2>3, AppendProperties DEF IngestTypes
  <2>5. LowConfidenceIsReviewed' BY <1>2, <1>3, <2>2, <2>3, ReviewGrows
  <2>6. ASSUME NEW r \in Readings PROVE Cardinality(StoredAs(r, sources')) = Cardinality(StoredAs(r, sources))
    <3>1. s.of # r BY <2>2, IngestBounds
    <3> QED BY <2>3, <3>1, StoredOneMore, SizesAreNumbers
  <2>7. ReadingsFit' BY <1>2, <1>3, <2>6 DEF ReadingsFit
  <2> QED BY <2>4, <2>5, <2>7
<1>5. CASE \E i \in DOMAIN sources : DeleteDataSource(i) \/ \E low \in BOOLEAN : UpdateDataSource(i, low)
  <2> PICK i \in DOMAIN sources : DeleteDataSource(i) \/ \E low \in BOOLEAN : UpdateDataSource(i, low) BY <1>5
  <2>1. PICK s \in SourceRecord : s = sources[i] BY ElementOfSeq, LenProperties DEF IngestTypes
  <2>2. PICK new \in SourceRecord : /\ sources' = [sources EXCEPT ![i] = new]
                                    /\ new.of = s.of /\ new.status \in {"edited", "deleted"}
    <3>1. CASE DeleteDataSource(i)
      <4>1. sources' = [sources EXCEPT ![i] = [s EXCEPT !.status = "deleted"]]
        BY <2>1, <3>1 DEF DeleteDataSource
      <4> DEFINE new == [s EXCEPT !.status = "deleted"]
      <4>2. new \in SourceRecord /\ new.of = s.of /\ new.status = "deleted" BY DEF SourceRecord
      <4> QED BY <4>1, <4>2
    <3>2. CASE \E low \in BOOLEAN : UpdateDataSource(i, low)
      <4> PICK low \in BOOLEAN : UpdateDataSource(i, low) BY <3>2
      <4>1. sources' = [sources EXCEPT ![i] = [s EXCEPT !.status = "edited", !.low = low]]
        BY <2>1 DEF UpdateDataSource
      <4> DEFINE new == [s EXCEPT !.status = "edited", !.low = low]
      <4>2. new \in SourceRecord /\ new.of = s.of /\ new.status = "edited" BY DEF SourceRecord
      <4> QED BY <4>1, <4>2
    <3> QED BY <3>1, <3>2
  <2>3. sources' \in Seq(SourceRecord) /\ DOMAIN sources' = DOMAIN sources
        /\ \A j \in DOMAIN sources : sources'[j] = IF j = i THEN new ELSE sources[j]
    BY <2>2, ExceptSeq, LenProperties DEF IngestTypes
  <2>4. IngestTypes' BY <1>2, <1>3, <2>3 DEF IngestTypes
  <2>5. LowConfidenceIsReviewed' BY <1>2, <1>3, <2>2, <2>3 DEF LowConfidenceIsReviewed, At
  <2>6. \A r \in Readings : StoredAs(r, sources') = StoredAs(r, sources) BY <2>1, <2>2, <2>3 DEF StoredAs
  <2>7. ReadingsFit' BY <1>2, <1>3, <2>6, FitStays
  <2> QED BY <2>4, <2>5, <2>7
<1> QED BY <1>4, <1>5

LEMMA IngestGoesOn == IngestInv /\ [IngestNext]_ingestVars => IngestInv'
<1> SUFFICES ASSUME IngestInv, [IngestNext]_ingestVars PROVE IngestInv' OBVIOUS
<1>1. CASE UNCHANGED ingestVars
  BY <1>1 DEF ingestVars, IngestInv, IngestTypes, LowConfidenceIsReviewed, At, ReadingsFit
<1>2. CASE UploadNext
  BY <1>2, UploadsKeep, StoreSourceKeeps, FlagSourceKeeps, TaskFailsKeeps DEF UploadNext, IngestStep
<1>3. CASE ReadingNext
  BY <1>3, ReceiveKeeps, WindowPassesKeeps, StoreReadingKeeps, FlagReadingKeeps, HookFailsKeeps DEF ReadingNext
<1>4. CASE EditNext
  BY <1>4, EditsKeep DEF EditNext
<1> QED BY <1>1, <1>2, <1>3, <1>4 DEF IngestNext

\* Whatever is uploaded, sent, edited and cut short: what is stored below the threshold
\* of its project waits for a person, and a reading is stored once in a replay window.
THEOREM DataIsAccounted == IngestSpec => []DataIsAccountedFor
<1>1. IngestInv => DataIsAccountedFor
  <2> SUFFICES ASSUME IngestInv, NEW r \in Readings
               PROVE  Cardinality({i \in DOMAIN sources : sources[i].of = r}) <= 1 + tally.windows[r]
    BY DEF IngestInv, DataIsAccountedFor, ReadingOnce
  <2>1. Cardinality(StoredAs(r, sources)) <= 1 + tally.windows[r] BY SizesAreNumbers DEF IngestInv, ReadingsFit
  <2> QED BY <2>1 DEF StoredAs
<1> QED BY <1>1, IngestStart, IngestGoesOn, PTL DEF IngestSpec

-----------------------------------------------------------------------------
(* Conversation.  As long as no two messages are handled at once and no write of an answer *)
(* or a photo fails, at most one process is busy, the value under the key is in step with  *)
(* its flow at every moment, and what the process has left to do fits the value it read,   *)
(* or a new one when the key expired meanwhile.                                            *)

BotState == [flow : {"idle", "survey", "photos", "support"}, step : Nat, answered : SUBSET Nat,
             photos : Nat, sw : BOOLEAN]

AnsweredTo(s, n) == s.answered = 1..n

InStep(s) ==
    /\ s \in BotState
    /\ s.flow = "survey" => /\ s.photos = 0 /\ s.step <= Len(Questions)
                            /\ AnsweredTo(s, s.step) \/ (s.step < Len(Questions) /\ AnsweredTo(s, s.step + 1))
    /\ s.flow = "photos" => s.answered = {} /\ s.photos >= s.step

\* What a read finds of a key that expired while its message was handled.
Lost(s) == s.flow = "idle" /\ s.step = 0
Same(s, t) == t.flow = s.flow /\ t.step = s.step /\ t.answered = s.answered /\ t.photos = s.photos

OpsSurvey == <<"answer", "advance", "complete">>
OpsPhotos == <<"photo", "advance", "collected">>
OpsLeft == {<<"survey", "context">>, <<"context">>, <<"photos">>, <<"support">>,
            OpsSurvey, <<"advance", "complete">>, <<"complete">>,
            OpsPhotos, <<"advance", "collected">>, <<"collected">>, <<"advance", "delete">>, <<"delete">>}

\* The operations ops may be applied to s by a handling that was routed at step q.
Ready(ops, s, q) ==
    /\ ops = OpsSurvey => Lost(s) \/ (s.flow = "survey" /\ s.step = q /\ q < Len(Questions))
    /\ ops = <<"advance", "complete">> =>
          Lost(s) \/ (s.flow = "survey" /\ s.step < Len(Questions) /\ AnsweredTo(s, s.step + 1))
    /\ ops = <<"complete">> => AnsweredTo(s, Len(Questions))
    /\ ops = OpsPhotos => Lost(s) \/ s.flow = "photos"
    /\ ops = <<"advance", "collected">> => Lost(s) \/ (s.flow = "photos" /\ s.photos >= s.step + 1)
    /\ ops = <<"advance", "delete">> => Lost(s) \/ s.flow = "support"

Received == [at : {"expire", "route"}, msg : Messages]
Speaking == [at : {"language"}, msg : Messages, state : BotState]
Fetching == [at : {"get"}, ops : OpsLeft, state : BotState]
Setting == [at : {"set"}, ops : OpsLeft, state : BotState]
           \cup [at : {"set"}, ops : OpsLeft, state : BotState, asked : Nat]
Handlings == Received \cup Speaking \cup Fetching \cup Setting

AskedAt(c) == IF "asked" \in DOMAIN c THEN c.asked ELSE c.state.step

\* What a busy process has left fits the value v under the key.
Fits(c, v) ==
    /\ c \in Speaking => InStep(c.state) /\ (c.state.flow = "idle" \/ Lost(v) \/ Same(c.state, v))
    /\ c \in Fetching => Head(c.ops) \in Reading /\ Ready(c.ops, v, c.state.step)
    /\ c \in Setting => InStep(c.state) /\ Ready(c.ops, c.state, AskedAt(c))

Alone(h) == \A g \in Handlers \ {h} : handling[g] = Free

BotTallyRecord == [sent : Int, faults : Int, disturbed : BOOLEAN]

Undisturbed ==
    /\ handling \in [Handlers -> {Free} \cup Handlings]
    /\ completedSurveys \subseteq {1..Len(Questions)}
    /\ InStep(conv)
    /\ \A h \in Handlers : Busy(h) => Alone(h) /\ Fits(handling[h], conv)

BotInv == botTally \in BotTallyRecord /\ (~botTally.disturbed => Undisturbed)

\* Heads and tails of the operations a handling may have left.
LEMMA HeadsAndTails ==
    /\ Head(OpsSurvey) = "answer" /\ Tail(OpsSurvey) = <<"advance", "complete">>
    /\ Head(OpsPhotos) = "photo" /\ Tail(OpsPhotos) = <<"advance", "collected">>
    /\ \A x : Head(<<x>>) = x /\ Tail(<<x>>) = <<>> /\ <<x>> # <<>>
    /\ \A x, y : Head(<<x, y>>) = x /\ Tail(<<x, y>>) = <<y>> /\ <<x, y>> # <<>>
BY DEF OpsSurvey, OpsPhotos

LEMMA OpsDiffer ==
    /\ OpsSurvey # <<>> /\ OpsPhotos # <<>> /\ OpsSurvey # OpsPhotos
    /\ \A x : OpsSurvey # <<x>> /\ OpsPhotos # <<x>>
    /\ \A x, y : OpsSurvey # <<x, y>> /\ OpsPhotos # <<x, y>>
    /\ \A x, y, z : <<x>> # <<y, z>>
    /\ \A x, y : (<<x>> = <<y>>) = (x = y)
    /\ <<"advance", "complete">> # <<"advance", "collected">> /\ <<"advance", "complete">> # <<"advance", "delete">>
    /\ <<"advance", "collected">> # <<"advance", "delete">>
    /\ \A x : <<"survey", "context">> # <<"advance", x>>
BY DEF OpsSurvey, OpsPhotos

LEMMA LengthIsNatural == Len(Questions) \in Nat /\ Len(Questions) >= 2
BY BotBounds, LenProperties

LEMMA NewIsLost == InStep(DefaultState) /\ Lost(DefaultState)
BY DEF InStep, Lost, DefaultState, BotState

\* Kinds of handling.
LEMMA HandlingKinds ==
    /\ Free.at = "free" /\ Free \notin Handlings
    /\ \A c \in Received : c.at \in {"expire", "route"} /\ c # Free
    /\ \A c \in Speaking : c.at = "language" /\ c # Free
    /\ \A c \in Fetching : c.at = "get" /\ c # Free
    /\ \A c \in Setting : c.at = "set" /\ c # Free
BY DEF Free, Handlings, Received, Speaking, Fetching, Setting

\* The one who is busy goes on, with r to do.
LEMMA OneGoesOn ==
    ASSUME Undisturbed, NEW h \in Handlers, Alone(h), NEW r \in {Free} \cup Handlings,
           handling' = [handling EXCEPT ![h] = r],
           completedSurveys' \subseteq {1..Len(Questions)}, InStep(conv'),
           r # Free => Fits(r, conv')
    PROVE  Undisturbed'
<1>1. handling' \in [Handlers -> {Free} \cup Handlings] BY DEF Undisturbed
<1>2. handling'[h] = r /\ \A g \in Handlers \ {h} : handling'[g] = Free BY DEF Undisturbed, Alone
<1>3. \A g \in Handlers : Busy(g)' => g = h BY <1>2 DEF Busy
<1>4. \A g \in Handlers : Busy(g)' => Alone(g)' /\ Fits(handling'[g], conv') BY <1>2, <1>3 DEF Busy, Alone
<1> QED BY <1>1, <1>4 DEF Undisturbed, Busy, Alone

\* Works puts the operations before the one who routed the message or wrote s.
LEMMA WorkIsTaken ==
    ASSUME Undisturbed, NEW h \in Handlers, Alone(h), NEW ops, NEW s, InStep(s), InStep(conv'),
           Works(h, ops, s), completedSurveys' = completedSurveys,
           ops # <<>> => /\ ops \in OpsLeft /\ Ready(ops, s, s.step)
                         /\ Head(ops) \in Reading => Ready(ops, conv', s.step)
    PROVE  Undisturbed'
<1>1. CASE ops = <<>>
  <2>1. handling' = [handling EXCEPT ![h] = Free] BY <1>1 DEF Works
  <2> QED BY <2>1, OneGoesOn DEF Undisturbed
<1>2. CASE ops # <<>> /\ Head(ops) \in Reading
  <2> DEFINE r == [at |-> "get", ops |-> ops, state |-> s]
  <2>1. handling' = [handling EXCEPT ![h] = r] BY <1>2 DEF Works
  <2>2. r \in Fetching BY <1>2 DEF Fetching, InStep
  <2>3. r.state = s /\ r.ops = ops OBVIOUS
  <2> HIDE DEF r
  <2>4. r \notin Speaking /\ r \notin Setting BY <2>2, HandlingKinds
  <2>5. Fits(r, conv') BY <1>2, <2>2, <2>3, <2>4 DEF Fits
  <2> QED BY <2>1, <2>2, <2>5, OneGoesOn DEF Undisturbed, Handlings
<1>3. CASE ops # <<>> /\ Head(ops) \notin Reading
  <2> DEFINE r == [at |-> "set", ops |-> ops, state |-> s]
  <2>1. handling' = [handling EXCEPT ![h] = r] BY <1>3 DEF Works
  <2>2. r \in Setting BY <1>3 DEF Setting, InStep
  <2>3. r.state = s /\ r.ops = ops /\ AskedAt(r) = s.step BY DEF AskedAt
  <2> HIDE DEF r
  <2>4. r \notin Speaking /\ r \notin Fetching BY <2>2, HandlingKinds
  <2>5. Fits(r, conv') BY <1>3, <2>2, <2>3, <2>4 DEF Fits
  <2> QED BY <2>1, <2>2, <2>5, OneGoesOn DEF Undisturbed, Handlings
<1> QED BY <1>1, <1>2, <1>3

\* What may be applied to a value may be applied to an equal one, or to a new one.
LEMMA ReadyAgain ==
    ASSUME NEW ops \in OpsLeft, NEW s, NEW v, NEW q, Head(ops) \in Reading, Ready(ops, s, q), Lost(v) \/ Same(s, v)
    PROVE  Ready(ops, v, q)
<1>1. ops # <<"complete">> BY HeadsAndTails DEF Reading
<1>2. CASE Lost(v) BY <1>1, <1>2 DEF Ready
<1>3. CASE Same(s, v) BY <1>1, <1>3 DEF Ready, Same, Lost, AnsweredTo
<1> QED BY <1>2, <1>3

\* bot.py handle_message: what is to do fits the conversation that was read.
LEMMA RoutedFits ==
    ASSUME NEW m \in Messages, NEW s, InStep(s), HandleMessage(m, s) # <<>>
    PROVE  /\ HandleMessage(m, s) \in OpsLeft /\ Ready(HandleMessage(m, s), s, s.step)
           /\ Head(HandleMessage(m, s)) \in Reading => s.flow # "idle"
<1> DEFINE ops == HandleMessage(m, s)
<1>1. s.flow \in {"idle", "survey", "photos", "support"} /\ s.step \in Nat BY DEF InStep, BotState
<1>2. CASE s.flow = "idle"
  <2>1. ops = HandleIdleFlow(m) BY <1>2 DEF HandleMessage
  <2>2. ops \in {<<>>, <<"survey", "context">>, <<"photos">>, <<"support">>} BY <2>1 DEF HandleIdleFlow
  <2> HIDE DEF ops
  <2>3. ops \in {<<"survey", "context">>, <<"photos">>, <<"support">>} BY <2>2 DEF ops
  <2>4. Head(ops) \notin Reading BY <2>3, HeadsAndTails DEF Reading
  <2>5. Ready(ops, s, s.step) BY <2>3, OpsDiffer DEF Ready
  <2>6. ops \in OpsLeft BY <2>3 DEF OpsLeft
  <2> QED BY <2>4, <2>5, <2>6 DEF ops
<1>3. CASE s.flow = "survey"
  <2>1. ops = HandleSurveyFlow(m, s) BY <1>3 DEF HandleMessage
  <2>2. CASE IsText(m, "cancel")
    <3>1. ops = <<"delete">> BY <2>1, <2>2 DEF HandleSurveyFlow
    <3> QED BY <1>3, <3>1, OpsDiffer DEF Ready, OpsLeft
  <2>3. CASE ~IsText(m, "cancel") /\ Finished(s.step)
    <3>1. ops = <<"complete">> BY <2>1, <2>3 DEF HandleSurveyFlow
    <3>2. s.step = Len(Questions) /\ AnsweredTo(s, s.step)
      BY <1>1, <1>3, <2>3, LengthIsNatural DEF Finished, InStep
    <3> QED BY <1>3, <3>1, <3>2, OpsDiffer DEF Ready, OpsLeft
  <2>4. CASE ~IsText(m, "cancel") /\ ~Finished(s.step)
    <3>1. ops = OpsSurvey BY <2>1, <2>4 DEF HandleSurveyFlow, OpsSurvey
    <3>2. s.step < Len(Questions) BY <1>1, <2>4, LengthIsNatural DEF Finished
    <3> QED BY <1>3, <3>1, <3>2, OpsDiffer DEF Ready, OpsLeft
  <2> QED BY <2>2, <2>3, <2>4
<1>4. CASE s.flow = "photos"
  <2>1. ops = HandlePhotoFlow(m) BY <1>4 DEF HandleMessage
  <2>2. ops \in {<<"delete">>, OpsPhotos} BY <2>1 DEF HandlePhotoFlow, OpsPhotos
  <2> QED BY <1>4, <2>2, OpsDiffer DEF Ready, OpsLeft
<1>5. CASE s.flow = "support"
  <2>1. ops = HandleSupportFlow(s) BY <1>5 DEF HandleMessage
  <2>2. ops = <<"advance", "delete">> BY <2>1 DEF HandleSupportFlow
  <2> QED BY <1>5, <2>2, OpsDiffer DEF Ready, OpsLeft
<1> QED BY <1>1, <1>2, <1>3, <1>4, <1>5

\* bot.py, state_machine.py: what is written and what is left then fit each other.
LEMMA WrittenFits ==
    ASSUME NEW s, InStep(s), NEW ops \in OpsLeft, NEW q \in Nat, Ready(ops, s, q),
           Head(ops) \notin {"delete", "collected", "complete"}
    PROVE  LET new == Written(Head(ops), q + 1, s)
               rest == After(ops, new) IN
           /\ InStep(new)
           /\ rest # <<>> => rest \in OpsLeft /\ Ready(rest, new, new.step)
           /\ rest # <<>> /\ Head(ops) \notin {"answer", "photo"} /\ Head(rest) \in Reading => rest = <<"context">>
<1> DEFINE op == Head(ops)
           new == Written(op, q + 1, s)
           rest == After(ops, new)
<1> SUFFICES /\ InStep(new)
             /\ rest # <<>> => rest \in OpsLeft /\ Ready(rest, new, new.step)
             /\ rest # <<>> /\ op \notin {"answer", "photo"} /\ Head(rest) \in Reading => rest = <<"context">>
  OBVIOUS
<1> USE HeadsAndTails
<1>1. s \in BotState BY DEF InStep
<1>2. PICK n \in Nat : n = s.step BY <1>1 DEF BotState
<1>3. CASE ops \in {<<"survey", "context">>, <<"photos">>, <<"support">>}
  <2>1. op \in {"survey", "photos", "support"} BY <1>3
  <2>2. new = [DefaultState EXCEPT !.flow = op, !.sw = s.sw] BY <2>1 DEF Written
  <2>3. s.sw \in BOOLEAN BY <1>1 DEF BotState
  <2>4. new = [flow |-> op, step |-> 0, answered |-> {}, photos |-> 0, sw |-> s.sw]
    BY <2>2 DEF DefaultState
  <2>5. new \in BotState BY <2>1, <2>3, <2>4 DEF BotState
  <2>6. 1..0 = {} /\ 0 <= Len(Questions) BY LengthIsNatural
  <2>7. InStep(new)
    <3>1. new.flow = op /\ new.step = 0 /\ new.answered = {} /\ new.photos = 0 BY <2>4
    <3> HIDE DEF new
    <3> QED BY <2>5, <2>6, <3>1 DEF InStep, AnsweredTo
  <2>8. rest = Tail(ops) BY <1>3, OpsDiffer DEF After
  <2> HIDE DEF new, rest
  <2>9. rest = <<>> \/ rest = <<"context">>
    <3>1. Tail(<<"survey", "context">>) = <<"context">> /\ Tail(<<"photos">>) = <<>> /\ Tail(<<"support">>) = <<>>
      OBVIOUS
    <3> QED BY <1>3, <2>8, <3>1
  <2> QED BY <2>7, <2>9, OpsDiffer DEF Ready, OpsLeft
<1>4. CASE ops = <<"context">>
  <2>1. op = "context" BY <1>4
  <2>2. new = s BY <2>1 DEF Written
  <2>3. rest = <<>> BY <1>4, OpsDiffer DEF After
  <2> QED BY <2>2, <2>3
<1>5. CASE ops = OpsSurvey
  <2>1. op = "answer" BY <1>5
  <2>2. new = [s EXCEPT !.answered = @ \cup {q + 1}] BY <2>1 DEF Written
  <2>3. s.answered \cup {q + 1} \subseteq Nat BY <1>1 DEF BotState
  <2>4. /\ new \in BotState /\ new.flow = s.flow /\ new.step = s.step /\ new.photos = s.photos
        /\ new.answered = s.answered \cup {q + 1}
    BY <1>1, <2>2, <2>3 DEF BotState
  <2>5. rest = <<"advance", "complete">> BY <1>5, OpsDiffer DEF After
  <2>6. CASE Lost(s) BY <2>1, <2>4, <2>5, <2>6, OpsDiffer DEF Lost, InStep, Ready, OpsLeft
  <2>7. CASE s.flow = "survey" /\ s.step = q /\ q < Len(Questions)
    <3>1. s.answered \in {1..q, 1..(q + 1)} BY <2>7 DEF InStep, AnsweredTo
    <3>2. (1..q) \cup {q + 1} = 1..(q + 1) /\ (1..(q + 1)) \cup {q + 1} = 1..(q + 1) OBVIOUS
    <3>3. new.answered = 1..(q + 1) BY <2>4, <3>1, <3>2
    <3>4. new.photos = 0 BY <2>4, <2>7 DEF InStep
    <3>5. InStep(new) BY <2>4, <2>7, <3>3, <3>4, LengthIsNatural DEF InStep, AnsweredTo
    <3> QED BY <2>1, <2>4, <2>5, <2>7, <3>3, <3>5, OpsDiffer DEF Ready, OpsLeft, AnsweredTo
  <2> QED BY <1>5, <2>6, <2>7 DEF Ready
<1>6. CASE ops = OpsPhotos
  <2>1. op = "photo" BY <1>6
  <2>2. new = [s EXCEPT !.photos = @ + 1] BY <2>1 DEF Written
  <2>3. s.photos \in Nat BY <1>1 DEF BotState
  <2>4. /\ new \in BotState /\ new.flow = s.flow /\ new.step = s.step /\ new.photos = s.photos + 1
        /\ new.answered = s.answered
    BY <1>1, <2>2, <2>3 DEF BotState
  <2>5. rest = <<"advance", "collected">> BY <1>6, OpsDiffer DEF After
  <2>6. CASE Lost(s) BY <2>1, <2>4, <2>5, <2>6, OpsDiffer DEF Lost, InStep, Ready, OpsLeft
  <2>7. CASE s.flow = "photos"
    <3>1. s.answered = {} /\ s.photos >= s.step BY <2>7 DEF InStep
    <3>2. InStep(new) /\ new.photos >= new.step + 1 BY <1>2, <2>3, <2>4, <2>7, <3>1 DEF InStep
    <3> QED BY <2>1, <2>4, <2>5, <2>7, <3>2, OpsDiffer DEF Ready, OpsLeft
  <2> QED BY <1>6, <2>6, <2>7 DEF Ready
<1>7. CASE ops \in {<<"advance", "complete">>, <<"advance", "collected">>, <<"advance", "delete">>}
  <2>1. op = "advance" BY <1>7
  <2>2. new = [s EXCEPT !.step = @ + 1] BY <2>1 DEF Written
  <2>3. /\ new \in BotState /\ new.flow = s.flow /\ new.step = n + 1 /\ new.photos = s.photos
        /\ new.answered = s.answered
    BY <1>1, <1>2, <2>2 DEF BotState
  <2> HIDE DEF new
  <2>4. CASE ops = <<"advance", "complete">>
    <3>1. CASE Lost(s)
      <4>1. ~Finished(new.step) BY <1>2, <2>3, <3>1, LengthIsNatural DEF Lost, Finished
      <4>2. rest = <<>> BY <2>4, <4>1 DEF After
      <4> QED BY <2>3, <3>1, <4>2 DEF Lost, InStep
    <3>2. CASE s.flow = "survey" /\ s.step < Len(Questions) /\ AnsweredTo(s, s.step + 1)
      <4>1. AnsweredTo(new, new.step) /\ new.step <= Len(Questions) /\ new.photos = 0
        BY <1>2, <2>3, <3>2, LengthIsNatural DEF AnsweredTo, InStep
      <4>2. InStep(new) BY <2>3, <3>2, <4>1 DEF InStep
      <4>3. rest = <<>> \/ (rest = <<"complete">> /\ Finished(new.step)) BY <2>4 DEF After
      <4>4. Finished(new.step) => new.step = Len(Questions) BY <2>3, <4>1, LengthIsNatural DEF Finished
      <4> HIDE DEF rest
      <4>5. CASE rest = <<>> BY <4>2, <4>5
      <4>6. CASE rest = <<"complete">> /\ Finished(new.step)
        <5>1. Ready(rest, new, new.step) BY <4>1, <4>4, <4>6, OpsDiffer DEF Ready
        <5>2. Head(rest) \notin Reading BY <4>6 DEF Reading
        <5> QED BY <4>2, <4>6, <5>1, <5>2 DEF OpsLeft
      <4> QED BY <4>3, <4>5, <4>6
    <3> QED BY <2>4, <3>1, <3>2 DEF Ready
  <2>5. CASE ops = <<"advance", "collected">>
    <3>1. rest = <<>> \/ rest = <<"collected">> BY <2>5, OpsDiffer DEF After
    <3>2. s.photos \in Nat BY <1>1 DEF BotState
    <3>3. InStep(new)
      <4>1. CASE Lost(s) BY <2>3, <4>1 DEF Lost, InStep
      <4>2. CASE s.flow = "photos" /\ s.photos >= s.step + 1
        BY <1>2, <2>3, <3>2, <4>2 DEF InStep
      <4> QED BY <2>5, <4>1, <4>2 DEF Ready
    <3> HIDE DEF rest
    <3>4. rest = <<"collected">> => Head(rest) \notin Reading BY DEF Reading
    <3> QED BY <3>1, <3>3, <3>4, OpsDiffer DEF Ready, OpsLeft
  <2>6. CASE ops = <<"advance", "delete">>
    <3>1. rest = <<"delete">> BY <2>6, OpsDiffer DEF After
    <3>2. InStep(new) BY <2>3, <2>6 DEF InStep, Lost, Ready
    <3> HIDE DEF rest
    <3>3. Head(rest) \notin Reading BY <3>1 DEF Reading
    <3> QED BY <3>1, <3>2, <3>3, OpsDiffer DEF Ready, OpsLeft
  <2> QED BY <1>7, <2>4, <2>5, <2>6
<1>8. ops \in {<<"survey", "context">>, <<"photos">>, <<"support">>, <<"context">>, OpsSurvey, OpsPhotos,
               <<"advance", "complete">>, <<"advance", "collected">>, <<"advance", "delete">>}
  BY DEF OpsLeft
<1> QED BY <1>3, <1>4, <1>5, <1>6, <1>7, <1>8

LEMMA FailureIs ==
    ASSUME botTally \in BotTallyRecord
    PROVE  Failure \in BotTallyRecord /\ Failure.disturbed = botTally.disturbed
<1>1. PICK t \in BotTallyRecord : t = botTally OBVIOUS
<1>2. PICK e : e = [t EXCEPT !.faults = @ + 1] OBVIOUS
<1>3. e = [sent |-> t.sent, faults |-> t.faults + 1, disturbed |-> t.disturbed] BY <1>2 DEF BotTallyRecord
<1>4. t.sent \in Int /\ t.faults + 1 \in Int BY DEF BotTallyRecord
<1>5. t.disturbed \in BOOLEAN BY Zenon DEF BotTallyRecord
<1>6. e \in BotTallyRecord BY <1>3, <1>4, <1>5 DEF BotTallyRecord
<1>7. e.disturbed = t.disturbed BY <1>3
<1> QED BY <1>1, <1>2, <1>6, <1>7 DEF Failure

\* An overlap and the failed write of an answer or a photo are on record.
LEMMA CountTally ==
    ASSUME botTally \in BotTallyRecord, NEW h, NEW m, NEW counted, CountMessage(h, m, counted)
    PROVE  /\ botTally' \in BotTallyRecord
           /\ botTally'.disturbed = (botTally.disturbed \/ \E q \in Handlers : Busy(q))
<1>1. PICK t \in BotTallyRecord : t = botTally OBVIOUS
<1> DEFINE overlaps == \E q \in Handlers : Busy(q)
<1>2. botTally' = [t EXCEPT !.sent = @ + 1, !.faults = IF counted THEN @ ELSE @ + 1, !.disturbed = @ \/ overlaps]
  BY <1>1 DEF CountMessage
<1>3. overlaps \in BOOLEAN OBVIOUS
<1> HIDE DEF overlaps
<1>4. PICK f : f = IF counted THEN t.faults ELSE t.faults + 1 OBVIOUS
<1>5. t.sent + 1 \in Int /\ f \in Int BY <1>4 DEF BotTallyRecord
<1>6. botTally' = [sent |-> t.sent + 1, faults |-> f, disturbed |-> t.disturbed \/ overlaps]
  BY <1>2, <1>4 DEF BotTallyRecord
<1>7. (t.disturbed \/ overlaps) \in BOOLEAN OBVIOUS
<1>8. botTally' \in BotTallyRecord BY <1>5, <1>6, <1>7 DEF BotTallyRecord
<1>9. botTally'.disturbed = (t.disturbed \/ overlaps) BY <1>6
<1> QED BY <1>1, <1>8, <1>9 DEF overlaps

LEMMA SetTally ==
    ASSUME botTally \in BotTallyRecord, NEW h, NEW ok, SetState(h, ok)
    PROVE  /\ botTally' \in BotTallyRecord /\ (~botTally'.disturbed => ~botTally.disturbed)
           /\ ~botTally'.disturbed /\ ~ok => Head(handling[h].ops) \notin {"answer", "photo"}
<1>1. CASE ok BY <1>1 DEF SetState
<1>2. CASE ~ok
  <2>1. PICK t \in BotTallyRecord : t = Failure BY FailureIs
  <2> DEFINE dropped == Head(handling[h].ops) \in {"answer", "photo"}
  <2>2. botTally' = [t EXCEPT !.disturbed = @ \/ dropped] BY <1>2, <2>1 DEF SetState
  <2>3. dropped \in BOOLEAN OBVIOUS
  <2> HIDE DEF dropped
  <2>4. botTally' = [sent |-> t.sent, faults |-> t.faults, disturbed |-> t.disturbed \/ dropped]
    BY <2>2 DEF BotTallyRecord
  <2>5. t.sent \in Int /\ t.faults \in Int BY DEF BotTallyRecord
  <2>6. (t.disturbed \/ dropped) \in BOOLEAN OBVIOUS
  <2>7. botTally' \in BotTallyRecord BY <2>4, <2>5, <2>6 DEF BotTallyRecord
  <2>8. botTally'.disturbed = (t.disturbed \/ dropped) BY <2>4
  <2>9. t.disturbed = botTally.disturbed BY <2>1, FailureIs
  <2> QED BY <2>7, <2>8, <2>9 DEF dropped
<1> QED BY <1>1, <1>2

LEMMA OtherTally ==
    ASSUME botTally \in BotTallyRecord, NEW h, NEW s, NEW ok,
           \/ RouteMessage(h, s) \/ GetState(h, s) \/ SetExpiry(h, ok) \/ SetLanguage(h, ok)
           \/ DeleteState(h, ok) \/ HandlerDies(h) \/ StateExpires \/ RateExpires
    PROVE  botTally' \in BotTallyRecord /\ botTally'.disturbed = botTally.disturbed
<1>1. botTally' = botTally \/ botTally' = Failure
  BY DEF RouteMessage, GetState, LoadTally, SetExpiry, SetLanguage, DeleteState, HandlerDies, StateExpires, RateExpires
<1> QED BY <1>1, FailureIs

LEMMA SomeoneReads ==
    ASSUME Undisturbed, NEW h \in Handlers, handling[h].at # "free"
    PROVE  /\ Alone(h) /\ Fits(handling[h], conv) /\ InStep(conv) /\ handling[h] \in Handlings
           /\ handling[h].at \in {"expire", "route"} => handling[h] \in Received
           /\ handling[h].at = "language" => handling[h] \in Speaking
           /\ handling[h].at = "get" => handling[h] \in Fetching
           /\ handling[h].at = "set" => handling[h] \in Setting
<1>1. Busy(h) BY HandlingKinds DEF Busy
<1>2. handling[h] \in Handlings BY <1>1 DEF Undisturbed, Busy
<1> QED BY <1>1, <1>2, HandlingKinds DEF Undisturbed, Handlings

LEMMA CountKeeps ==
    ASSUME Undisturbed, \A q \in Handlers : ~Busy(q),
           NEW h \in Handlers, NEW m \in Messages, NEW counted, CountMessage(h, m, counted)
    PROVE  Undisturbed'
<1>1. Alone(h) BY DEF Alone, Busy
<1>2. PICK r \in {Free} \cup Received : handling' = [handling EXCEPT ![h] = r]
  <2>1. [at |-> "expire", msg |-> m] \in Received /\ [at |-> "route", msg |-> m] \in Received BY DEF Received
  <2> QED BY <2>1 DEF CountMessage
<1>3. r # Free => Fits(r, conv)
  <2> SUFFICES ASSUME r \in Received PROVE Fits(r, conv) BY <1>2
  <2>1. r \notin Speaking /\ r \notin Fetching /\ r \notin Setting BY HandlingKinds
  <2> QED BY <2>1 DEF Fits
<1>4. conv' = conv /\ completedSurveys' \subseteq {1..Len(Questions)} BY DEF CountMessage, Undisturbed
<1> QED BY <1>1, <1>2, <1>3, <1>4, OneGoesOn DEF Undisturbed, Handlings

LEMMA ExpiryKeeps == ASSUME Undisturbed, NEW h \in Handlers, NEW ok, SetExpiry(h, ok) PROVE Undisturbed'
<1>1. Alone(h) /\ handling[h] \in Received /\ InStep(conv) BY SomeoneReads DEF SetExpiry
<1>2. PICK m \in Messages : handling[h] = [at |-> "expire", msg |-> m] BY <1>1 DEF Received, SetExpiry
<1> DEFINE r == [at |-> "route", msg |-> m]
<1>3. handling' = [handling EXCEPT ![h] = r]
  <2>1. [[at |-> "expire", msg |-> m] EXCEPT !.at = "route"] = r OBVIOUS
  <2> QED BY <1>2, <2>1 DEF SetExpiry
<1>4. r \in Received BY DEF Received
<1> HIDE DEF r
<1>5. r \notin Speaking /\ r \notin Fetching /\ r \notin Setting BY <1>4, HandlingKinds
<1>6. Fits(r, conv') BY <1>5 DEF Fits
<1> QED BY <1>1, <1>3, <1>4, <1>6, OneGoesOn DEF SetExpiry, Undisturbed, Handlings

\* A message routed by s, the value under the key or a new one.
LEMMA RouteKeeps ==
    ASSUME Undisturbed, NEW h \in Handlers, NEW s \in {conv, DefaultState}, RouteMessage(h, s)
    PROVE  Undisturbed'
<1>1. Alone(h) /\ InStep(conv) /\ handling[h] \in Received BY SomeoneReads DEF RouteMessage
<1>2. PICK m \in Messages : m = handling[h].msg BY <1>1 DEF Received
<1>3. InStep(s) /\ (s = conv \/ s.flow = "idle") BY <1>1, NewIsLost DEF Lost
<1>4. conv' = conv /\ completedSurveys' = completedSurveys BY DEF RouteMessage
<1>5. CASE IsText(m, "swahili") /\ ~s.sw
  <2>1. PICK t : t = [s EXCEPT !.sw = TRUE] OBVIOUS
  <2>2. t \in BotState /\ Same(t, s) BY <1>3, <2>1 DEF InStep, BotState, Same
  <2>3. InStep(t) BY <1>3, <2>2 DEF InStep, Same, AnsweredTo
  <2> DEFINE r == [at |-> "language", msg |-> m, state |-> t]
  <2>4. handling' = [handling EXCEPT ![h] = r] BY <1>2, <1>5, <2>1 DEF RouteMessage
  <2>5. r \in Speaking /\ r.state = t BY <2>2 DEF Speaking
  <2> HIDE DEF r
  <2>6. r \notin Fetching /\ r \notin Setting BY <2>5, HandlingKinds
  <2>7. Fits(r, conv) BY <1>3, <2>2, <2>3, <2>5, <2>6 DEF Fits, Same
  <2> QED BY <1>1, <1>4, <2>4, <2>5, <2>7, OneGoesOn DEF Undisturbed, Handlings
<1>6. CASE ~(IsText(m, "swahili") /\ ~s.sw)
  <2>1. Works(h, HandleMessage(m, s), s) BY <1>2, <1>6 DEF RouteMessage
  <2> DEFINE ops == HandleMessage(m, s)
  <2>2. ops # <<>> => ops \in OpsLeft /\ Ready(ops, s, s.step) /\ (Head(ops) \in Reading => s = conv)
    BY <1>2, <1>3, RoutedFits
  <2> HIDE DEF ops
  <2>3. ops # <<>> => /\ ops \in OpsLeft /\ Ready(ops, s, s.step)
                      /\ Head(ops) \in Reading => Ready(ops, conv', s.step)
    BY <1>4, <2>2
  <2>4. Works(h, ops, s) BY <2>1 DEF ops
  <2> QED BY <1>1, <1>3, <1>4, <2>3, <2>4, WorkIsTaken
<1> QED BY <1>5, <1>6

LEMMA LanguageKeeps ==
    ASSUME Undisturbed, NEW h \in Handlers, NEW ok, SetLanguage(h, ok)
    PROVE  Undisturbed'
<1>1. Alone(h) /\ Fits(handling[h], conv) /\ InStep(conv) /\ handling[h] \in Speaking BY SomeoneReads DEF SetLanguage
<1>2. PICK c \in Speaking : c = handling[h] BY <1>1
<1>3. PICK m \in Messages : \E s \in BotState : m = c.msg /\ s = c.state BY DEF Speaking
<1> DEFINE s == c.state
<1>4. InStep(s) /\ (s.flow = "idle" \/ Lost(conv) \/ Same(s, conv)) BY <1>1, <1>2 DEF Fits
<1>5. conv' \in {s, conv} /\ Works(h, HandleMessage(m, s), s) /\ completedSurveys' = completedSurveys
  BY <1>2, <1>3 DEF SetLanguage
<1> HIDE DEF s
<1>6. InStep(conv') /\ (s.flow = "idle" \/ Lost(conv') \/ Same(s, conv')) BY <1>1, <1>4, <1>5 DEF Same
<1> DEFINE ops == HandleMessage(m, s)
<1>7. ops # <<>> => ops \in OpsLeft /\ Ready(ops, s, s.step) /\ (Head(ops) \in Reading => s.flow # "idle")
  BY <1>4, RoutedFits
<1> HIDE DEF ops
<1>8. ops # <<>> => /\ ops \in OpsLeft /\ Ready(ops, s, s.step)
                    /\ Head(ops) \in Reading => Ready(ops, conv', s.step)
  BY <1>6, <1>7, ReadyAgain
<1>9. Works(h, ops, s) BY <1>5 DEF ops
<1> QED BY <1>1, <1>4, <1>5, <1>6, <1>8, <1>9, WorkIsTaken

LEMMA GetKeeps ==
    ASSUME Undisturbed, NEW h \in Handlers, NEW s \in {conv, DefaultState}, GetState(h, s)
    PROVE  Undisturbed'
<1>1. Alone(h) /\ handling[h] \in Fetching /\ Fits(handling[h], conv) /\ InStep(conv) BY SomeoneReads DEF GetState
<1>2. PICK c \in Fetching : c = handling[h] BY <1>1
<1>3. PICK q \in Nat : q = c.state.step BY DEF Fetching, BotState
<1>4. c.ops \in OpsLeft /\ Head(c.ops) \in Reading /\ Ready(c.ops, conv, q) BY <1>1, <1>2, <1>3 DEF Fits, Fetching
<1>5. Lost(s) \/ Same(conv, s) BY NewIsLost DEF Same
<1>6. InStep(s) /\ Ready(c.ops, s, q) BY <1>1, <1>4, <1>5, NewIsLost, ReadyAgain
<1> DEFINE r == [at |-> "set", ops |-> c.ops, state |-> s, asked |-> q]
<1>7. handling' = [handling EXCEPT ![h] = r] BY <1>2, <1>3 DEF GetState
<1>8. r \in Setting BY <1>4, <1>6 DEF Setting, InStep
<1>9. r.ops = c.ops /\ r.state = s /\ AskedAt(r) = q BY DEF AskedAt
<1> HIDE DEF r
<1>10. r \notin Speaking /\ r \notin Fetching BY <1>8, HandlingKinds
<1>11. Fits(r, conv) BY <1>6, <1>8, <1>9, <1>10 DEF Fits
<1>12. conv' = conv /\ completedSurveys' = completedSurveys BY DEF GetState
<1> QED BY <1>1, <1>7, <1>8, <1>11, <1>12, OneGoesOn DEF Undisturbed, Handlings

LEMMA SetKeeps ==
    ASSUME Undisturbed, NEW h \in Handlers, NEW ok, SetState(h, ok),
           ~ok => Head(handling[h].ops) \notin {"answer", "photo"}
    PROVE  Undisturbed'
<1>1. Alone(h) /\ handling[h] \in Setting /\ Fits(handling[h], conv) /\ InStep(conv) BY SomeoneReads DEF SetState
<1>2. PICK c \in Setting : c = handling[h] BY <1>1
<1>3. PICK q \in Nat : q = AskedAt(c) BY DEF Setting, AskedAt, BotState
<1>4. c.ops \in OpsLeft BY DEF Setting
<1>5. InStep(c.state) /\ Ready(c.ops, c.state, q) BY <1>1, <1>2, <1>3 DEF Fits
<1> DEFINE new == Written(Head(c.ops), q + 1, c.state)
           rest == After(c.ops, new)
<1>6. /\ conv' = IF ok THEN new ELSE conv
      /\ Works(h, rest, new) /\ completedSurveys' = completedSurveys
      /\ Head(c.ops) \notin {"delete", "collected", "complete"}
  BY <1>2, <1>3 DEF SetState, AskedAt
<1>7. /\ InStep(new)
      /\ rest # <<>> => rest \in OpsLeft /\ Ready(rest, new, new.step)
      /\ rest # <<>> /\ Head(c.ops) \notin {"answer", "photo"} /\ Head(rest) \in Reading => rest = <<"context">>
  BY <1>4, <1>5, <1>6, WrittenFits
<1> HIDE DEF new, rest
<1>8. InStep(conv') BY <1>1, <1>6, <1>7
<1>9. Ready(<<"context">>, conv', new.step) BY OpsDiffer DEF Ready
<1>10. rest # <<>> /\ Head(rest) \in Reading => Ready(rest, conv', new.step) BY <1>2, <1>6, <1>7, <1>9
<1> QED BY <1>1, <1>6, <1>7, <1>8, <1>10, WorkIsTaken

LEMMA DeleteKeeps ==
    ASSUME Undisturbed, NEW h \in Handlers, NEW done, DeleteState(h, done)
    PROVE  Undisturbed'
<1>1. Alone(h) /\ handling[h] \in Setting /\ Fits(handling[h], conv) /\ InStep(conv) BY SomeoneReads DEF DeleteState
<1>2. PICK c \in Setting : c = handling[h] BY <1>1
<1>3. Ready(c.ops, c.state, AskedAt(c)) /\ c.ops \in OpsLeft BY <1>1, <1>2 DEF Fits, Setting
<1>4. Head(c.ops) = "complete" => c.ops = <<"complete">> BY <1>3, HeadsAndTails DEF OpsLeft
<1>5. Head(c.ops) = "complete" => c.state.answered = 1..Len(Questions) BY <1>3, <1>4 DEF Ready, AnsweredTo
<1>6. completedSurveys' \subseteq {1..Len(Questions)} BY <1>2, <1>5 DEF DeleteState, Undisturbed
<1>7. handling' = [handling EXCEPT ![h] = Free] /\ InStep(conv') BY <1>1, NewIsLost DEF DeleteState
<1> QED BY <1>1, <1>6, <1>7, OneGoesOn

LEMMA DeathKeeps == ASSUME Undisturbed, NEW h \in Handlers, HandlerDies(h) PROVE Undisturbed'
<1>1. Alone(h) BY DEF HandlerDies, Undisturbed
<1>2. handling' = [handling EXCEPT ![h] = Free] /\ UNCHANGED <<conv, completedSurveys>> BY DEF HandlerDies
<1> QED BY <1>1, <1>2, OneGoesOn DEF Undisturbed

\* The key may expire between any two steps of a handling.
LEMMA ExpiringKeeps == ASSUME Undisturbed, StateExpires PROVE Undisturbed'
<1>1. conv' = DefaultState /\ UNCHANGED <<handling, completedSurveys>> BY DEF StateExpires
<1>2. InStep(conv') /\ Lost(conv') BY <1>1, NewIsLost
<1>3. ASSUME NEW h \in Handlers, Busy(h) PROVE Fits(handling[h], conv')
  <2>1. handling[h] \in Handlings /\ Fits(handling[h], conv) BY <1>3 DEF Undisturbed, Busy
  <2>2. PICK c \in Handlings : c = handling[h] BY <2>1
  <2>3. c \in Fetching => Head(c.ops) \in Reading /\ Ready(c.ops, conv', c.state.step)
    <3> SUFFICES ASSUME c \in Fetching PROVE Head(c.ops) \in Reading /\ Ready(c.ops, conv', c.state.step)
      OBVIOUS
    <3>1. c.ops \in OpsLeft BY DEF Fetching
    <3>2. Head(c.ops) \in Reading /\ Ready(c.ops, conv, c.state.step) BY <2>1, <2>2 DEF Fits
    <3> QED BY <1>2, <3>1, <3>2, ReadyAgain
  <2> QED BY <1>2, <2>1, <2>2, <2>3 DEF Fits
<1> QED BY <1>1, <1>2, <1>3 DEF Undisturbed, Busy, Alone

LEMMA BotGoesOn == BotInv /\ [BotNext]_botVars => BotInv'
<1> SUFFICES ASSUME BotInv, [BotNext]_botVars PROVE BotInv' OBVIOUS
<1>1. botTally \in BotTallyRecord BY DEF BotInv
<1>2. CASE UNCHANGED botVars
  BY <1>2 DEF botVars, BotInv, Undisturbed, Busy, Alone
<1>3. ASSUME NEW h \in Handlers, NEW m \in Messages, NEW counted, CountMessage(h, m, counted) PROVE BotInv'
  <2>1. botTally' \in BotTallyRecord BY <1>1, <1>3, CountTally
  <2>2. ~botTally'.disturbed => ~botTally.disturbed /\ \A q \in Handlers : ~Busy(q) BY <1>1, <1>3, CountTally
  <2> QED BY <1>3, <2>1, <2>2, CountKeeps DEF BotInv
<1>4. ASSUME NEW h \in Handlers, NEW ok, SetState(h, ok) PROVE BotInv'
  <2>1. botTally' \in BotTallyRecord BY <1>1, <1>4, SetTally
  <2>2. ~botTally'.disturbed => /\ ~botTally.disturbed
                                /\ ~ok => Head(handling[h].ops) \notin {"answer", "photo"}
    BY <1>1, <1>4, SetTally
  <2> QED BY <1>4, <2>1, <2>2, SetKeeps DEF BotInv
<1>5. ASSUME NEW h \in Handlers, NEW s \in {conv, DefaultState}, RouteMessage(h, s) \/ GetState(h, s) PROVE BotInv'
  <2>1. botTally' \in BotTallyRecord /\ botTally'.disturbed = botTally.disturbed BY <1>1, <1>5, OtherTally
  <2> QED BY <1>5, <2>1, RouteKeeps, GetKeeps DEF BotInv
<1>6. ASSUME NEW h \in Handlers, NEW ok, SetExpiry(h, ok) \/ SetLanguage(h, ok) \/ DeleteState(h, ok)
      PROVE  BotInv'
  <2>1. botTally' \in BotTallyRecord /\ botTally'.disturbed = botTally.disturbed BY <1>1, <1>6, OtherTally
  <2> QED BY <1>6, <2>1, ExpiryKeeps, LanguageKeeps, DeleteKeeps DEF BotInv
<1>7. ASSUME NEW h \in Handlers, HandlerDies(h) PROVE BotInv'
  <2>1. botTally' \in BotTallyRecord /\ botTally'.disturbed = botTally.disturbed BY <1>1, <1>7, OtherTally
  <2> QED BY <1>7, <2>1, DeathKeeps DEF BotInv
<1>8. CASE StateExpires
  <2>1. botTally' \in BotTallyRecord /\ botTally'.disturbed = botTally.disturbed BY <1>1, <1>8, OtherTally
  <2> QED BY <1>8, <2>1, ExpiringKeeps DEF BotInv
<1>9. CASE RateExpires
  BY <1>9 DEF RateExpires, BotInv, Undisturbed, Busy, Alone
<1> QED BY <1>2, <1>3, <1>4, <1>5, <1>6, <1>7, <1>8, <1>9 DEF BotNext, HandlerStep

\* Whatever a person sends, in whatever order, with whatever errors, whenever the key
\* expires, whoever dies and whatever read of Redis fails: a completed survey has its own
\* answers, all of them, and a flow holds what its steps counted, as long as no two
\* messages are handled at once and no write of an answer or a photo fails.
THEOREM ConversationsAreSound == BotSpec => []ConversationsHold
<1>1. BotInit => BotInv
  <2> SUFFICES ASSUME BotInit PROVE BotInv OBVIOUS
  <2>1. botTally \in BotTallyRecord BY DEF BotInit, BotTallyRecord
  <2>2. conv = DefaultState /\ handling = [h \in Handlers |-> Free] /\ completedSurveys = {} BY DEF BotInit
  <2>3. \A h \in Handlers : ~Busy(h) BY <2>2 DEF Busy
  <2>4. Undisturbed BY <2>2, <2>3, NewIsLost DEF Undisturbed
  <2> QED BY <2>1, <2>4 DEF BotInv
<1>2. BotInv => ConversationsHold
  <2> SUFFICES ASSUME BotInv, ~botTally.disturbed PROVE ConversationsHold
    BY DEF ConversationsHold, SurveysAreComplete, FlowsAreInStep
  <2>1. Undisturbed BY DEF BotInv
  <2> QED BY <2>1 DEF Undisturbed, InStep, AnsweredTo, ConversationsHold, SurveysAreComplete, FlowsAreInStep
<1> QED BY <1>1, <1>2, BotGoesOn, PTL DEF BotSpec

-----------------------------------------------------------------------------
(* Erasure.  One worker has a request at a time.  What its scan has passed holds no row  *)
(* of the subject unless rows have moved before it, and whoever deletes knows whose scan *)
(* that was.                                                                             *)

(* The rows that are kept: the recursive function over the table. *)

Grown(table, places, k, s) == IF k \in places THEN Append(s, table[k]) ELSE s
Keeping(table, places, n, g) ==
    g = [k \in 0..n |-> IF k = 0 THEN <<>> ELSE Grown(table, places, k, g[k - 1])]

LEMMA KeepingExists == ASSUME NEW table, NEW places, NEW n \in Nat PROVE \E g : Keeping(table, places, n, g)
<1> SUFFICES ASSUME \A g : ~Keeping(table, places, n, g) PROVE FALSE OBVIOUS
<1>1. PICK bad : bad = {k \in Nat : \A g : ~Keeping(table, places, k, g)} OBVIOUS
<1>2. bad \in SUBSET Nat /\ bad # {} BY <1>1
<1>3. PICK m \in bad : \A k \in bad : m <= k BY <1>2, LeastOf
<1>4. m \in Nat BY <1>2
<1>5. m # 0
  <2>1. PICK g : g = [k \in 0..0 |-> <<>>] OBVIOUS
  <2>2. Keeping(table, places, 0, g) BY <2>1 DEF Keeping
  <2> QED BY <1>1, <1>3, <2>2
<1>6. PICK g : Keeping(table, places, m - 1, g) BY <1>1, <1>3, <1>4, <1>5
<1>7. PICK top : top = Grown(table, places, m, g[m - 1]) OBVIOUS
<1>8. PICK h : h = [k \in 0..m |-> IF k = m THEN top ELSE g[k]] OBVIOUS
<1>9. Keeping(table, places, m, h)
  <2>1. DOMAIN g = 0..(m - 1) /\ g[0] = <<>> /\ \A k \in 1..(m - 1) : g[k] = Grown(table, places, k, g[k - 1])
    BY <1>4, <1>5, <1>6 DEF Keeping
  <2>2. \A k \in 0..m : h[k] = IF k = 0 THEN <<>> ELSE Grown(table, places, k, h[k - 1])
    <3> SUFFICES ASSUME NEW k \in 0..m
                 PROVE h[k] = IF k = 0 THEN <<>> ELSE Grown(table, places, k, h[k - 1]) OBVIOUS
    <3>1. CASE k = 0 BY <1>4, <1>5, <1>8, <2>1, <3>1
    <3>2. CASE k # 0 /\ k # m
      <4>1. h[k] = g[k] /\ h[k - 1] = g[k - 1] /\ k \in 1..(m - 1) BY <1>4, <1>8, <3>2
      <4> QED BY <2>1, <3>2, <4>1
    <3>3. CASE k # 0 /\ k = m
      <4>1. h[k] = top /\ h[k - 1] = g[k - 1] BY <1>4, <1>8, <3>3
      <4> QED BY <1>7, <3>3, <4>1
    <3> QED BY <3>1, <3>2, <3>3
  <2> QED BY <1>8, <2>2 DEF Keeping
<1> QED BY <1>1, <1>3, <1>9

\* What is kept are the rows at these places and no others; the rows before the first
\* place that is left out stay where they are.
KeptSoFar(table, places, n, k, s) ==
    /\ s \in Seq({table[i] : i \in DOMAIN table})
    /\ \A j \in 1..Len(s) : \E i \in 1..k : i \in places /\ s[j] = table[i]
    /\ \A i \in 1..k : i \in places => \E j \in 1..Len(s) : s[j] = table[i]
    /\ \A i \in 1..n : i <= k => i <= Len(s) /\ s[i] = table[i]
    /\ Len(s) <= k
    /\ k <= n => Len(s) = k

LEMMA KeptIs ==
    ASSUME NEW table, IsTable(table), NEW places, NEW n \in Nat, 1..n \subseteq places
    PROVE  KeptSoFar(table, places, n, Len(table), RowsAt(table, places))
<1>1. PICK R : R = {table[i] : i \in DOMAIN table} OBVIOUS
<1>2. table \in Seq(R) BY <1>1 DEF IsTable
<1>3. PICK z \in Nat : z = Len(table) BY <1>2, LenProperties
<1>4. DOMAIN table = 1..z /\ \A i \in 1..z : table[i] \in R BY <1>2, <1>3, LenProperties, ElementOfSeq
<1>5. PICK g : g = CHOOSE f : Keeping(table, places, z, f) OBVIOUS
<1>6. RowsAt(table, places) = g[z] BY <1>3, <1>5 DEF RowsAt, Keeping, Grown
<1>7. Keeping(table, places, z, g) BY <1>5, KeepingExists
<1>a. g[0] = <<>> /\ \A k \in 1..z : g[k] = Grown(table, places, k, g[k - 1]) BY <1>7 DEF Keeping
<1>8. /\ g[0] = <<>>
      /\ \A k \in 1..z : g[k] = IF k \in places THEN Append(g[k - 1], table[k]) ELSE g[k - 1]
  BY <1>a DEF Grown
<1>9. PICK bad : bad = {k \in 0..z : ~KeptSoFar(table, places, n, k, g[k])} OBVIOUS
<1>10. bad = {}
  <2> SUFFICES ASSUME bad # {} PROVE FALSE OBVIOUS
  <2>1. bad \in SUBSET Nat BY <1>9
  <2>2. PICK m \in bad : \A k \in bad : m <= k BY <2>1, LeastOf
  <2>3. m \in 0..z /\ ~KeptSoFar(table, places, n, m, g[m]) BY <1>9
  <2>4. m # 0
    <3>1. KeptSoFar(table, places, n, 0, <<>>) BY EmptySeq DEF KeptSoFar
    <3> QED BY <1>8, <2>3, <3>1
  <2>5. m - 1 \in 0..z /\ m - 1 \notin bad BY <2>2, <2>3, <2>4
  <2>6. PICK s : s = g[m - 1] OBVIOUS
  <2>7. KeptSoFar(table, places, n, m - 1, s) BY <1>9, <2>5, <2>6
  <2>8. s \in Seq(R) /\ m \in 1..z BY <1>1, <2>3, <2>4, <2>7 DEF KeptSoFar
  <2>9. PICK l \in Nat : l = Len(s) BY <2>8, LenProperties
  <2>a. PICK p \in Nat : m = p + 1 BY <2>8
  <2>b. /\ \A j \in 1..l : \E i \in 1..p : i \in places /\ s[j] = table[i]
        /\ \A i \in 1..p : i \in places => \E j \in 1..l : s[j] = table[i]
        /\ \A i \in 1..n : i <= p => i <= l /\ s[i] = table[i]
        /\ l <= p
        /\ p <= n => l = p
    BY <2>7, <2>9, <2>a DEF KeptSoFar
  <2>c. 1..p \subseteq 1..m /\ \A i \in 1..m : i \in 1..p \/ i = m BY <2>a
  <2>10. CASE m \in places
    <3>1. PICK t : t = Append(s, table[m]) OBVIOUS
    <3>2. g[m] = t BY <1>8, <2>6, <2>8, <2>10, <3>1
    <3>3. /\ t \in Seq(R) /\ Len(t) = l + 1 /\ t[l + 1] = table[m]
          /\ \A j \in 1..l : t[j] = s[j]
      BY <1>4, <2>8, <2>9, <3>1, AppendProperties
    <3>4. \A j \in 1..(l + 1) : \E i \in 1..m : i \in places /\ t[j] = table[i]
      <4> TAKE j \in 1..(l + 1)
      <4>1. CASE j \in 1..l
        <5>1. PICK i \in 1..p : i \in places /\ s[j] = table[i] BY <2>b, <4>1
        <5> QED BY <2>c, <3>3, <4>1, <5>1
      <4>2. CASE j = l + 1 BY <2>8, <2>10, <3>3, <4>2
      <4> QED BY <4>1, <4>2
    <3>5. \A i \in 1..m : i \in places => \E j \in 1..(l + 1) : t[j] = table[i]
      <4> SUFFICES ASSUME NEW i \in 1..m, i \in places PROVE \E j \in 1..(l + 1) : t[j] = table[i] OBVIOUS
      <4>1. CASE i \in 1..p
        <5>1. PICK j \in 1..l : s[j] = table[i] BY <2>b, <4>1
        <5> QED BY <3>3, <5>1
      <4>2. CASE i = m BY <3>3, <4>2
      <4> QED BY <2>c, <4>1, <4>2
    <3>6. \A i \in 1..n : i <= m => i <= l + 1 /\ t[i] = table[i]
      <4> SUFFICES ASSUME NEW i \in 1..n, i <= m PROVE i <= l + 1 /\ t[i] = table[i] OBVIOUS
      <4>1. CASE i <= p
        <5>1. i <= l /\ s[i] = table[i] BY <2>b, <4>1
        <5> QED BY <3>3, <5>1
      <4>2. CASE i = m
        <5>1. l = p BY <2>a, <2>b, <4>2
        <5> QED BY <2>a, <3>3, <4>2, <5>1
      <4> QED BY <2>a, <4>1, <4>2
    <3>7. (m <= n => l + 1 = m) /\ l + 1 <= m BY <2>a, <2>b
    <3>8. KeptSoFar(table, places, n, m, t) BY <1>1, <3>3, <3>4, <3>5, <3>6, <3>7 DEF KeptSoFar
    <3> QED BY <2>3, <3>2, <3>8
  <2>11. CASE m \notin places
    <3>1. g[m] = s BY <1>8, <2>6, <2>8, <2>11
    <3>2. ~(m <= n)
      <4>1. m \in 1..n => m \in places OBVIOUS
      <4> QED BY <2>8, <2>11, <4>1
    <3>3. \A i \in 1..n : i <= p BY <2>a, <3>2
    <3>4. KeptSoFar(table, places, n, m, s)
      <4>1. \A j \in 1..l : \E i \in 1..m : i \in places /\ s[j] = table[i] BY <2>b, <2>c
      <4>2. \A i \in 1..m : i \in places => \E j \in 1..l : s[j] = table[i] BY <2>b, <2>c, <2>11
      <4>3. \A i \in 1..n : i <= m => i <= l /\ s[i] = table[i] BY <2>b, <3>3
      <4>4. l <= m BY <2>a, <2>b
      <4> QED BY <1>1, <2>8, <2>9, <3>2, <4>1, <4>2, <4>3, <4>4 DEF KeptSoFar
    <3> QED BY <2>3, <3>1, <3>4
  <2> QED BY <2>10, <2>11
<1>11. z \notin bad BY <1>10
<1> QED BY <1>3, <1>6, <1>9, <1>11

\* The same, as the actions use it: a row that is kept, a row that is left out.
RowsKept(table, places, s) ==
    /\ Len(table) \in Nat /\ DOMAIN table = 1..Len(table)
    /\ IsTable(s) /\ Len(s) \in Nat /\ Len(s) <= Len(table)
    /\ \A j \in 1..Len(s) : \E i \in 1..Len(table) : i \in places /\ s[j] = table[i]
    /\ \A i \in 1..Len(table) : i \in places => \E j \in 1..Len(s) : s[j] = table[i]
    /\ \A n \in Nat : n <= Len(table) /\ 1..n \subseteq places => n <= Len(s) /\ \A i \in 1..n : s[i] = table[i]

LEMMA LengthOf == ASSUME NEW table, IsTable(table) PROVE Len(table) \in Nat /\ DOMAIN table = 1..Len(table)
BY LenProperties DEF IsTable

LEMMA KeptRows ==
    ASSUME NEW table, IsTable(table), NEW places, NEW s, s = RowsAt(table, places)
    PROVE  RowsKept(table, places, s)
<1>1. PICK R : R = {table[i] : i \in DOMAIN table} OBVIOUS
<1>2. table \in Seq(R) BY <1>1 DEF IsTable
<1>3. PICK z \in Nat : z = Len(table) /\ DOMAIN table = 1..z BY <1>2, LenProperties
<1>4. 1..0 \subseteq places OBVIOUS
<1>5. KeptSoFar(table, places, 0, z, s) BY <1>3, <1>4, KeptIs
<1>6. s \in Seq(R) BY <1>1, <1>5 DEF KeptSoFar
<1>7. PICK l \in Nat : l = Len(s) /\ DOMAIN s = 1..l BY <1>6, LenProperties
<1>8. IsTable(s)
  <2>1. PICK Q : Q = {s[i] : i \in DOMAIN s} OBVIOUS
  <2>2. s \in [1..l -> Q] BY <1>6, <1>7, <2>1, LenProperties
  <2>3. s \in Seq(Q) BY <2>2
  <2> QED BY <2>1, <2>3 DEF IsTable
<1>9. ASSUME NEW n \in Nat, n <= z, 1..n \subseteq places
      PROVE  n <= l /\ \A i \in 1..n : s[i] = table[i]
  <2>1. KeptSoFar(table, places, n, z, s) BY <1>3, <1>9, KeptIs
  <2>2. \A i \in 1..n : i <= z => i <= Len(s) /\ s[i] = table[i] BY <2>1 DEF KeptSoFar
  <2>3. \A i \in 1..n : i <= z BY <1>9
  <2>4. n # 0 => n \in 1..n OBVIOUS
  <2> QED BY <1>7, <2>2, <2>3, <2>4
<1>a. /\ l <= z
      /\ \A j \in 1..l : \E i \in 1..z : i \in places /\ s[j] = table[i]
      /\ \A i \in 1..z : i \in places => \E j \in 1..l : s[j] = table[i]
  BY <1>5, <1>7 DEF KeptSoFar
<1> QED BY <1>3, <1>7, <1>8, <1>9, <1>a DEF RowsKept

(* The invariant. *)

\* What a worker is about to do fits what its request asks, and only the deletion of
\* photos holds keys.
Erasing(e) ==
    /\ e = [at |-> e.at, d |-> e.d, offset |-> e.offset, more |-> e.more, keys |-> e.keys]
    /\ e.offset \in Nat /\ e.more \in BOOLEAN
    /\ e.at # "photos" => e.keys = {}
    /\ e.at = "rows" => asked[e.d].kind = "enumerator"
    /\ e.at = "scan" => asked[e.d].kind = "household"
    /\ e.at = "leads" => asked[e.d].kind = "developer"
    /\ e.at = "user" => asked[e.d].kind = "user"
    /\ e.at = "photos" => asked[e.d].kind \in {"enumerator", "household"}
    /\ e.more => e.at \in {"scan", "photos"} /\ asked[e.d].kind = "household"

\* One worker at a time has a request, and its message is with that worker.
Holding(w) ==
    eraser[w].at # "idle" =>
        /\ eraser[w].d \in ErasureRequests /\ msg[eraser[w].d] = "running"
        /\ \A v \in EraseWorkers : eraser[v].at # "idle" /\ eraser[v].d = eraser[w].d => v = w

\* The first n rows hold nothing of the subject.
NoneUpTo(d, n) ==
    /\ asked[d].kind = "household" => \A i \in 1..Len(surveys) : i <= n => surveys[i].household # asked[d].subject
    /\ asked[d].kind = "developer" => \A i \in 1..Len(leads) : i <= n => leads[i].developer # asked[d].subject

GoesOn(e) == e.at \in {"scan", "leads"} \/ (e.at = "photos" /\ e.more)
IsThrough(e) == e.at = "finish" \/ (e.at = "photos" /\ ~e.more)

Passed(e) == /\ GoesOn(e) => e.d \in shifted \/ NoneUpTo(e.d, e.offset)
             /\ IsThrough(e) => e.d \in shifted \/ ~Remains(e.d)

ErasureTypes ==
    /\ asked \in Asked /\ IsTable(surveys) /\ IsTable(leads) /\ erased \subseteq ErasureRequests
    /\ dsr = [d \in ErasureRequests |-> dsr[d]] /\ msg = [d \in ErasureRequests |-> msg[d]]
    /\ eraser = [w \in EraseWorkers |-> eraser[w]]
    /\ \A d \in ErasureRequests : dsr[d] = "none" => msg[d] = "none"

ErasureInv ==
    /\ ErasureTypes
    /\ \A w \in EraseWorkers : Erasing(eraser[w]) /\ Holding(w) /\ Passed(eraser[w])
    /\ FulfilledIsErased /\ NoUnknownOrphan

(* What one worker's step keeps. *)

\* The others' claims hold as long as rows only go, and whose scan they go from under is told.
LEMMA OthersPassed ==
    ASSUME ErasureInv, NEW w \in EraseWorkers, NEW v \in EraseWorkers, v # w, shifted \subseteq shifted',
           \A d \in ErasureRequests : Remains(d)' => Remains(d),
           GoesOn(eraser[v]) => eraser[v].d \in shifted'
                                \/ (NoneUpTo(eraser[v].d, eraser[v].offset) => NoneUpTo(eraser[v].d, eraser[v].offset)'),
           eraser'[v] = eraser[v]
    PROVE  Passed(eraser[v])'
<1>1. PICK e : e = eraser[v] OBVIOUS
<1>2. Passed(e) BY <1>1 DEF ErasureInv
<1>3. GoesOn(e) => e.d \in shifted' \/ NoneUpTo(e.d, e.offset)' BY <1>1, <1>2 DEF Passed
<1>a. IsThrough(e) => e.d \in ErasureRequests BY <1>1 DEF ErasureInv, Holding, IsThrough
<1>4. IsThrough(e) => e.d \in shifted' \/ ~Remains(e.d)' BY <1>1, <1>2, <1>a DEF Passed
<1>5. Passed(e)' BY <1>3, <1>4 DEF Passed, GoesOn, IsThrough
<1>6. eraser'[v] = e BY <1>1
<1> QED BY <1>5, <1>6

\* A request stays with its worker.
LEMMA OthersHold ==
    ASSUME ErasureInv, NEW w \in EraseWorkers, NEW e, eraser' = [eraser EXCEPT ![w] = e],
           e.at = "idle" \/ (eraser[w].at # "idle" /\ e.d = eraser[w].d /\ msg'[e.d] = "running"),
           \A d \in ErasureRequests : (eraser[w].at # "idle" /\ d = eraser[w].d) \/ msg'[d] = msg[d] \/ msg[d] # "running",
           NEW v \in EraseWorkers
    PROVE  Holding(v)'
<1>1. eraser'[w] = e /\ \A u \in EraseWorkers : u # w => eraser'[u] = eraser[u] BY DEF ErasureInv, ErasureTypes
<1>2. Holding(v) /\ Holding(w) BY DEF ErasureInv
<1>3. CASE v = w
  <2>1. SUFFICES ASSUME e.at # "idle"
                 PROVE /\ e.d \in ErasureRequests /\ msg'[e.d] = "running"
                       /\ \A u \in EraseWorkers : eraser'[u].at # "idle" /\ eraser'[u].d = e.d => u = w
    BY <1>1, <1>3 DEF Holding
  <2>2. eraser[w].at # "idle" /\ e.d = eraser[w].d /\ msg'[e.d] = "running" BY <2>1
  <2> QED BY <1>1, <1>2, <2>2 DEF Holding
<1>4. CASE v # w
  <2>1. SUFFICES ASSUME eraser[v].at # "idle"
                 PROVE /\ eraser[v].d \in ErasureRequests /\ msg'[eraser[v].d] = "running"
                       /\ \A u \in EraseWorkers : eraser'[u].at # "idle" /\ eraser'[u].d = eraser[v].d => u = v
    BY <1>1, <1>4 DEF Holding
  <2>2. /\ eraser[v].d \in ErasureRequests /\ msg[eraser[v].d] = "running"
        /\ \A u \in EraseWorkers : eraser[u].at # "idle" /\ eraser[u].d = eraser[v].d => u = v
    BY <1>2, <2>1 DEF Holding
  <2>3. ~(eraser[w].at # "idle" /\ eraser[v].d = eraser[w].d) BY <1>4, <2>2
  <2>4. msg'[eraser[v].d] = "running" BY <2>2, <2>3
  <2>5. ~(e.at # "idle" /\ e.d = eraser[v].d) BY <2>3
  <2> QED BY <1>1, <2>2, <2>4, <2>5
<1> QED BY <1>3, <1>4

\* Whose photo is still there has a row that leads to it, or somebody has its key.
LEMMA OrphansKnown ==
    ASSUME ErasureInv, NEW w \in EraseWorkers, NEW e, eraser' = [eraser EXCEPT ![w] = e],
           photos' \subseteq photos, lostKeys \subseteq lostKeys',
           photos' \cap Ids(surveys) \subseteq Ids(surveys)' \cup e.keys,
           photos' \cap eraser[w].keys \subseteq lostKeys' \cup e.keys
    PROVE  NoUnknownOrphan'
<1>1. eraser'[w] = e /\ \A u \in EraseWorkers : u # w => eraser'[u] = eraser[u] BY DEF ErasureInv, ErasureTypes
<1>2. PICK held : held = UNION {eraser'[u].keys : u \in EraseWorkers} OBVIOUS
<1>3. SUFFICES ASSUME NEW p \in photos' PROVE p \in Ids(surveys)' \cup lostKeys' \cup held
  BY <1>2 DEF NoUnknownOrphan
<1>4. e.keys \subseteq held BY <1>1, <1>2
<1>5. p \in Ids(surveys) \/ p \in lostKeys \/ \E u \in EraseWorkers : p \in eraser[u].keys
  BY <1>3 DEF ErasureInv, NoUnknownOrphan
<1>6. CASE p \in Ids(surveys) BY <1>3, <1>4, <1>6
<1>7. CASE p \in lostKeys BY <1>7
<1>8. ASSUME NEW u \in EraseWorkers, p \in eraser[u].keys PROVE p \in lostKeys' \cup held
  <2>1. CASE u = w BY <1>3, <1>4, <1>8, <2>1
  <2>2. CASE u # w BY <1>1, <1>2, <1>8, <2>2
  <2> QED BY <2>1, <2>2
<1> QED BY <1>5, <1>6, <1>7, <1>8

\* A step of a worker on its request.
LEMMA WorkerStep ==
    ASSUME ErasureInv, ErasureTypes', NEW w \in EraseWorkers, NEW e, eraser' = [eraser EXCEPT ![w] = e],
           e.at = "idle" \/ (eraser[w].at # "idle" /\ e.d = eraser[w].d /\ msg'[e.d] = "running"),
           \A d \in ErasureRequests : (eraser[w].at # "idle" /\ d = eraser[w].d) \/ msg'[d] = msg[d] \/ msg[d] # "running",
           asked' = asked, shifted \subseteq shifted', Erasing(e), Passed(e)',
           \A d \in ErasureRequests : Remains(d)' => Remains(d),
           \A v \in EraseWorkers : v # w /\ GoesOn(eraser[v]) =>
               eraser[v].d \in shifted'
               \/ (NoneUpTo(eraser[v].d, eraser[v].offset) => NoneUpTo(eraser[v].d, eraser[v].offset)'),
           \A d \in erased' : d \in erased \/ d \in shifted' \/ ~Remains(d)',
           photos' \subseteq photos, lostKeys \subseteq lostKeys',
           photos' \cap Ids(surveys) \subseteq Ids(surveys)' \cup e.keys,
           photos' \cap eraser[w].keys \subseteq lostKeys' \cup e.keys
    PROVE  ErasureInv'
<1>1. eraser'[w] = e /\ \A u \in EraseWorkers : u # w => eraser'[u] = eraser[u] BY DEF ErasureInv, ErasureTypes
<1>2. NoUnknownOrphan' BY OrphansKnown
<1>3. FulfilledIsErased'
  <2> SUFFICES ASSUME NEW d \in erased' PROVE d \in shifted' \/ ~Remains(d)' BY DEF FulfilledIsErased
  <2>1. CASE d \in erased
    <3>1. d \in ErasureRequests /\ (d \in shifted \/ ~Remains(d))
      BY <2>1 DEF ErasureInv, ErasureTypes, FulfilledIsErased
    <3> QED BY <3>1
  <2> QED BY <2>1
<1>4. ASSUME NEW v \in EraseWorkers PROVE Erasing(eraser[v])' /\ Holding(v)' /\ Passed(eraser[v])'
  <2>1. Holding(v)' BY OthersHold
  <2>2. Erasing(eraser[v])'
    <3>1. Erasing(eraser[v]) BY DEF ErasureInv
    <3>2. Erasing(eraser'[v]) BY <1>1, <3>1
    <3> QED BY <3>2 DEF Erasing
  <2>3. Passed(eraser[v])'
    <3>1. CASE v = w BY <1>1, <3>1
    <3>2. CASE v # w BY <1>1, <3>2, OthersPassed
    <3> QED BY <3>1, <3>2
  <2> QED BY <2>1, <2>2, <2>3
<1> QED BY <1>2, <1>3, <1>4 DEF ErasureInv

\* The same when no row changes.
LEMMA QuietStep ==
    ASSUME ErasureInv, ErasureTypes', NEW w \in EraseWorkers, NEW e, eraser' = [eraser EXCEPT ![w] = e],
           e.at = "idle" \/ (eraser[w].at # "idle" /\ e.d = eraser[w].d /\ msg'[e.d] = "running"),
           \A d \in ErasureRequests : (eraser[w].at # "idle" /\ d = eraser[w].d) \/ msg'[d] = msg[d] \/ msg[d] # "running",
           UNCHANGED <<asked, surveys, leads, redacted, shifted>>, Erasing(e), Passed(e),
           \A d \in erased' : d \in erased \/ d \in shifted \/ ~Remains(d),
           photos' \subseteq photos, lostKeys \subseteq lostKeys',
           photos' \cap eraser[w].keys \subseteq lostKeys' \cup e.keys
    PROVE  ErasureInv'
<1>1. \A d : Remains(d)' = Remains(d) BY DEF Remains
<1>2. \A d, n : NoneUpTo(d, n)' = NoneUpTo(d, n) BY DEF NoneUpTo
<1>3. Passed(e)' BY <1>1, <1>2 DEF Passed, GoesOn, IsThrough
<1>4. Ids(surveys)' = Ids(surveys) OBVIOUS
<1>5. \A d \in erased' : d \in erased \/ d \in shifted' \/ ~Remains(d)'
  <2> TAKE d \in erased'
  <2>1. shifted' = shifted OBVIOUS
  <2>2. d \in erased \/ d \in shifted \/ ~Remains(d) OBVIOUS
  <2> QED BY <1>1, <2>1, <2>2
<1>6. \A d \in ErasureRequests : Remains(d)' => Remains(d) BY <1>1
<1>7. \A v \in EraseWorkers : v # w /\ GoesOn(eraser[v]) =>
          eraser[v].d \in shifted'
          \/ (NoneUpTo(eraser[v].d, eraser[v].offset) => NoneUpTo(eraser[v].d, eraser[v].offset)')
  <2> SUFFICES ASSUME NEW v \in EraseWorkers, v # w, NoneUpTo(eraser[v].d, eraser[v].offset)
               PROVE NoneUpTo(eraser[v].d, eraser[v].offset)' OBVIOUS
  <2>1. eraser'[v] = eraser[v] BY DEF ErasureInv, ErasureTypes
  <2> QED BY <2>1 DEF NoneUpTo
<1>8. photos' \cap Ids(surveys) \subseteq Ids(surveys)' \cup e.keys BY <1>4
<1>9. shifted \subseteq shifted' /\ asked' = asked OBVIOUS
<1> QED BY <1>3, <1>5, <1>6, <1>7, <1>8, <1>9, WorkerStep

(* The invariant is inductive. *)

\* A worker's record.
LEMMA EraserIs ==
    ASSUME ErasureInv, NEW w \in EraseWorkers
    PROVE  \E a, d, n, b, k : /\ eraser[w] = [at |-> a, d |-> d, offset |-> n, more |-> b, keys |-> k]
                              /\ n \in Nat /\ b \in BOOLEAN
BY DEF ErasureInv, Erasing

EraserAt(a, d, n, b, k) == [at |-> a, d |-> d, offset |-> n, more |-> b, keys |-> k]

\* Nothing is under way at first.
LEMMA ErasureInitHolds == ErasureInit => ErasureInv
<1> SUFFICES ASSUME ErasureInit PROVE ErasureInv OBVIOUS
<1>1. ErasureTypes BY ErasureAssumption DEF ErasureInit, ErasureTypes
<1>2. \A w \in EraseWorkers : eraser[w] = [at |-> "idle", d |-> "none", offset |-> 0, more |-> FALSE, keys |-> {}]
  BY DEF ErasureInit, NoEraser
<1>3. \A w \in EraseWorkers : Erasing(eraser[w]) /\ Holding(w) /\ Passed(eraser[w])
  <2> SUFFICES ASSUME NEW w \in EraseWorkers PROVE Erasing(eraser[w]) /\ Holding(w) /\ Passed(eraser[w]) OBVIOUS
  <2>1. PICK e : e = [at |-> "idle", d |-> "none", offset |-> 0, more |-> FALSE, keys |-> {}] OBVIOUS
  <2>2. e.at = "idle" /\ e.d = "none" /\ e.offset = 0 /\ e.more = FALSE /\ e.keys = {} BY <2>1
  <2>3. eraser[w] = e BY <1>2, <2>1
  <2>4. e = [at |-> e.at, d |-> e.d, offset |-> e.offset, more |-> e.more, keys |-> e.keys] BY <2>1
  <2>a. e.offset \in Nat BY <2>2
  <2>b. e.more \in BOOLEAN BY <2>2
  <2>5. Erasing(e) BY <2>2, <2>4, <2>a, <2>b, Zenon DEF Erasing
  <2>6. Holding(w) BY <2>2, <2>3 DEF Holding
  <2>7. Passed(e) BY <2>2 DEF Passed, GoesOn, IsThrough
  <2> QED BY <2>3, <2>5, <2>6, <2>7
<1>4. FulfilledIsErased BY DEF ErasureInit, FulfilledIsErased
<1>5. NoUnknownOrphan BY DEF ErasureInit, NoUnknownOrphan
<1> QED BY <1>1, <1>3, <1>4, <1>5 DEF ErasureInv

\* Requests and decisions touch no row and no worker.
LEMMA RequestStep ==
    ASSUME ErasureInv, NEW d \in ErasureRequests, RequestErasure(d) \/ UpdateDsr(d) \/ SendTask(d)
    PROVE  ErasureInv'
<1>1. /\ UNCHANGED <<asked, surveys, leads, photos, redacted, eraser, shifted, lostKeys>> /\ erased' \subseteq erased
  BY DEF RequestErasure, UpdateDsr, SendTask, kept
<1>2. /\ dsr' = [c \in ErasureRequests |-> dsr'[c]] /\ msg' = [c \in ErasureRequests |-> msg'[c]]
      /\ \A c \in ErasureRequests : dsr'[c] = "none" => msg'[c] = "none"
  BY DEF ErasureInv, ErasureTypes, RequestErasure, UpdateDsr, SendTask, Status
<1>3. ErasureTypes' BY <1>1, <1>2 DEF ErasureInv, ErasureTypes
<1>4. \A c \in ErasureRequests : msg[c] = "running" => msg'[c] = "running"
  BY DEF ErasureInv, ErasureTypes, RequestErasure, UpdateDsr, SendTask, Status
<1>5. ASSUME NEW w \in EraseWorkers PROVE Erasing(eraser[w])' /\ Holding(w)' /\ Passed(eraser[w])'
  <2>1. Erasing(eraser[w]) /\ Holding(w) /\ Passed(eraser[w]) BY DEF ErasureInv
  <2>2. Erasing(eraser[w])' BY <1>1, <2>1 DEF Erasing
  <2>3. Holding(w)' BY <1>1, <1>4, <2>1 DEF Holding
  <2>4. Passed(eraser[w])' BY <1>1, <2>1 DEF Passed, GoesOn, IsThrough, NoneUpTo, Remains
  <2> QED BY <2>2, <2>3, <2>4
<1>6. FulfilledIsErased' BY <1>1 DEF ErasureInv, FulfilledIsErased, Remains
<1>7. NoUnknownOrphan' BY <1>1 DEF ErasureInv, NoUnknownOrphan
<1> QED BY <1>3, <1>5, <1>6, <1>7 DEF ErasureInv

\* A worker that takes a request begins before the first row.
LEMMA TakeStep ==
    ASSUME ErasureInv, NEW w \in EraseWorkers, NEW d \in ErasureRequests, TakeRequest(w, d)
    PROVE  ErasureInv'
<1>1. /\ eraser[w].at = "idle" /\ msg[d] = "queued" /\ msg' = [msg EXCEPT ![d] = "running"]
      /\ dsr' = [dsr EXCEPT ![d] = "in_progress"] /\ shifted' = shifted \ {d} /\ erased' = erased \ {d}
      /\ UNCHANGED <<tries, surveys, leads, photos, redacted, lostKeys, asked>>
  BY DEF TakeRequest, Status, kept
<1>2. PICK a : a = FirstStep[asked[d].kind] OBVIOUS
<1>3. PICK e : e = EraserAt(a, d, 0, FALSE, {}) OBVIOUS
<1>4. eraser' = [eraser EXCEPT ![w] = e]
  <2>1. PICK f : f = [NoEraser EXCEPT !.at = a, !.d = d] OBVIOUS
  <2>a. PICK none : none = NoEraser OBVIOUS
  <2>b. none = EraserAt("idle", "none", 0, FALSE, {}) BY <2>a DEF NoEraser, EraserAt
  <2>c. PICK g : g = [none EXCEPT !.at = a] OBVIOUS
  <2>d. PICK b, k : b = FALSE /\ k = {} OBVIOUS
  <2>f. none = EraserAt("idle", "none", 0, b, k) /\ e = EraserAt(a, d, 0, b, k) BY <1>3, <2>b, <2>d
  <2>g. g = EraserAt(a, "none", 0, b, k) BY <2>c, <2>f DEF EraserAt
  <2>e. [g EXCEPT !.d = d] = e BY <2>f, <2>g DEF EraserAt
  <2>2. f = e BY <2>1, <2>a, <2>c, <2>e
  <2>3. eraser' = [eraser EXCEPT ![w] = f] BY <1>2, <2>1 DEF TakeRequest, Job
  <2> QED BY <2>2, <2>3
<1>5. eraser'[w] = e /\ \A u \in EraseWorkers : u # w => eraser'[u] = eraser[u]
  BY <1>4 DEF ErasureInv, ErasureTypes
<1>6. asked[d].kind \in DOMAIN FirstStep BY ErasureAssumption DEF ErasureInv, ErasureTypes
<1>7. \/ asked[d].kind = "enumerator" /\ a = "rows"
      \/ asked[d].kind = "household" /\ a = "scan"
      \/ asked[d].kind = "developer" /\ a = "leads"
      \/ asked[d].kind = "user" /\ a = "user"
  BY <1>2, <1>6 DEF FirstStep
<1>8. ErasureTypes' BY <1>1, <1>4 DEF ErasureInv, ErasureTypes
<1>9. \A v \in EraseWorkers : eraser[v].at # "idle" => eraser[v].d # d BY <1>1 DEF ErasureInv, Holding
<1>10. ASSUME NEW v \in EraseWorkers PROVE Erasing(eraser[v])' /\ Holding(v)' /\ Passed(eraser[v])'
  <2>1. CASE v = w
    <3>1. Erasing(e)' BY <1>1, <1>3, <1>7 DEF Erasing, EraserAt
    <3>2. Holding(w)' BY <1>1, <1>3, <1>5, <1>8, <1>9 DEF Holding, EraserAt, ErasureTypes, ErasureInv
    <3>3. NoneUpTo(d, 0)'
      <4>1. surveys' = surveys /\ leads' = leads /\ asked' = asked BY <1>1
      <4>2. \A i \in 1..Len(surveys) : ~(i <= 0) OBVIOUS
      <4>3. \A i \in 1..Len(leads) : ~(i <= 0) OBVIOUS
      <4> QED BY <4>1, <4>2, <4>3 DEF NoneUpTo
    <3>4. Passed(e)' BY <1>3, <1>7, <3>3 DEF Passed, GoesOn, IsThrough, EraserAt
    <3> QED BY <1>5, <2>1, <3>1, <3>2, <3>4
  <2>2. CASE v # w
    <3>1. Erasing(eraser[v]) /\ Holding(v) /\ Passed(eraser[v]) BY DEF ErasureInv
    <3>2. Erasing(eraser[v])' BY <1>1, <1>5, <2>2, <3>1 DEF Erasing
    <3>3. Holding(v)' BY <1>1, <1>3, <1>5, <1>9, <2>2, <3>1 DEF Holding, EraserAt, ErasureTypes, ErasureInv
    <3>4. Passed(eraser[v])'
      <4>1. GoesOn(eraser[v]) \/ IsThrough(eraser[v]) => eraser[v].d # d BY <1>9 DEF GoesOn, IsThrough
      <4>2. eraser'[v] = eraser[v] BY <1>5, <2>2
      <4> QED BY <1>1, <3>1, <4>1, <4>2 DEF Passed, GoesOn, IsThrough, NoneUpTo, Remains
    <3> QED BY <3>2, <3>3, <3>4
  <2> QED BY <2>1, <2>2
<1>11. FulfilledIsErased'
  <2> SUFFICES ASSUME NEW c \in erased' PROVE c \in shifted' \/ ~Remains(c)' BY DEF FulfilledIsErased
  <2>1. c \in erased /\ c # d BY <1>1
  <2>2. c \in shifted \/ ~Remains(c) BY <2>1 DEF ErasureInv, FulfilledIsErased
  <2>3. Remains(c)' = Remains(c) BY <1>1 DEF Remains
  <2> QED BY <1>1, <2>1, <2>2, <2>3
<1>12. NoUnknownOrphan'
  <2>1. eraser[w].keys = {} BY <1>1 DEF ErasureInv, Erasing
  <2>2. photos' \subseteq photos /\ lostKeys \subseteq lostKeys' /\ Ids(surveys)' = Ids(surveys) BY <1>1
  <2> QED BY <1>4, <2>1, <2>2, OrphansKnown
<1> QED BY <1>8, <1>10, <1>11, <1>12 DEF ErasureInv

\* A photo goes from the keys when it is deleted, or when that fails.
LEMMA PhotoStep ==
    ASSUME ErasureInv, NEW w \in EraseWorkers, DeletePhoto(w) \/ PhotosDone(w)
    PROVE  ErasureInv'
<1>1. PICK a, d, n, b, k : eraser[w] = EraserAt(a, d, n, b, k) /\ n \in Nat /\ b \in BOOLEAN
  BY EraserIs DEF EraserAt
<1>2. PICK o : o = EraserAt(a, d, n, b, k) OBVIOUS
<1>3. eraser[w] = o /\ Erasing(o) /\ Passed(o) BY <1>1, <1>2 DEF ErasureInv
<1>4. o.at = a /\ o.d = d /\ o.offset = n /\ o.more = b /\ o.keys = k BY <1>2 DEF EraserAt
<1>5. /\ a = "photos" /\ UNCHANGED <<asked, dsr, msg, surveys, leads, redacted, shifted, erased>>
      /\ photos' \subseteq photos /\ lostKeys \subseteq lostKeys'
  BY <1>3, <1>4 DEF DeletePhoto, PhotosDone, kept
<1>6. d \in ErasureRequests /\ msg[d] = "running" BY <1>3, <1>4, <1>5 DEF ErasureInv, Holding
<1>7. asked[d].kind \in {"enumerator", "household"} /\ (b => asked[d].kind = "household")
  BY <1>3, <1>4, <1>5 DEF Erasing
<1>8. IF b THEN d \in shifted \/ NoneUpTo(d, n) ELSE d \in shifted \/ ~Remains(d)
  BY <1>3, <1>4, <1>5 DEF Passed, GoesOn, IsThrough
<1>9. CASE DeletePhoto(w)
  <2>1. PICK x \in k : /\ Job(w, [eraser[w] EXCEPT !.keys = @ \ {x}])
                       /\ photos' = photos \ {x} \/ lostKeys' = lostKeys \cup {x}
    BY <1>3, <1>4, <1>9 DEF DeletePhoto
  <2>2. PICK e : e = EraserAt(a, d, n, b, k \ {x}) OBVIOUS
  <2>3. [o EXCEPT !.keys = @ \ {x}] = e BY <1>2, <2>2 DEF EraserAt
  <2>4. eraser' = [eraser EXCEPT ![w] = e] BY <1>3, <2>1, <2>3 DEF Job
  <2>5. e.at = a /\ e.d = d /\ e.offset = n /\ e.more = b /\ e.keys = k \ {x} BY <2>2 DEF EraserAt
  <2>6. Erasing(e)
    <3>1. e = [at |-> e.at, d |-> e.d, offset |-> e.offset, more |-> e.more, keys |-> e.keys] BY <2>2, <2>5 DEF EraserAt
    <3> QED BY <1>1, <1>5, <1>7, <2>5, <3>1 DEF Erasing
  <2>7. Passed(e) BY <1>5, <1>8, <2>5 DEF Passed, GoesOn, IsThrough
  <2>8. photos' \cap eraser[w].keys \subseteq lostKeys' \cup e.keys BY <1>3, <1>4, <2>1, <2>5
  <2>9. ErasureTypes' BY <1>5, <2>4 DEF ErasureInv, ErasureTypes
  <2>a. eraser[w].at # "idle" /\ e.d = eraser[w].d /\ msg'[e.d] = "running" BY <1>3, <1>4, <1>5, <1>6, <2>5
  <2> QED BY <1>5, <2>4, <2>6, <2>7, <2>8, <2>9, <2>a, QuietStep
<1>10. CASE PhotosDone(w)
  <2>1. PICK x : x = IF b THEN "scan" ELSE "finish" OBVIOUS
  <2>2. PICK e : e = EraserAt(x, d, n, b, k) OBVIOUS
  <2>3. k = {} /\ Job(w, [eraser[w] EXCEPT !.at = x]) BY <1>3, <1>4, <1>10, <2>1 DEF PhotosDone
  <2>b. [o EXCEPT !.at = x] = e BY <1>2, <2>2 DEF EraserAt
  <2>4. eraser' = [eraser EXCEPT ![w] = e] BY <1>3, <2>3, <2>b DEF Job
  <2>5. e.at = x /\ e.d = d /\ e.offset = n /\ e.more = b /\ e.keys = k BY <2>2 DEF EraserAt
  <2>6. Erasing(e)
    <3>1. e = [at |-> e.at, d |-> e.d, offset |-> e.offset, more |-> e.more, keys |-> e.keys] BY <2>2, <2>5 DEF EraserAt
    <3> QED BY <1>1, <1>7, <2>1, <2>3, <2>5, <3>1 DEF Erasing
  <2>7. Passed(e) BY <1>8, <2>1, <2>5 DEF Passed, GoesOn, IsThrough
  <2>8. photos' \cap eraser[w].keys \subseteq lostKeys' \cup e.keys BY <1>3, <1>4, <2>3
  <2>9. ErasureTypes' BY <1>5, <2>4 DEF ErasureInv, ErasureTypes
  <2>a. eraser[w].at # "idle" /\ e.d = eraser[w].d /\ msg'[e.d] = "running" BY <1>3, <1>4, <1>5, <1>6, <2>5
  <2> QED BY <1>5, <2>4, <2>6, <2>7, <2>8, <2>9, <2>a, QuietStep
<1> QED BY <1>9, <1>10

\* A request is fulfilled when its worker is through.
LEMMA FinishStep ==
    ASSUME ErasureInv, NEW w \in EraseWorkers, FinishErasure(w)
    PROVE  ErasureInv'
<1>1. PICK a, d, n, b, k : eraser[w] = EraserAt(a, d, n, b, k) /\ n \in Nat /\ b \in BOOLEAN
  BY EraserIs DEF EraserAt
<1>2. PICK o : o = EraserAt(a, d, n, b, k) OBVIOUS
<1>3. eraser[w] = o /\ Erasing(o) /\ Passed(o) BY <1>1, <1>2 DEF ErasureInv
<1>4. o.at = a /\ o.d = d /\ o.offset = n /\ o.more = b /\ o.keys = k BY <1>2 DEF EraserAt
<1>5. /\ a = "finish" /\ UNCHANGED <<asked, msg, surveys, leads, photos, redacted, shifted, lostKeys>>
      /\ dsr' = [dsr EXCEPT ![d] = "fulfilled"] /\ erased' = erased \cup {d}
  BY <1>3, <1>4 DEF FinishErasure, kept, Status
<1>6. d \in ErasureRequests /\ msg[d] = "running" BY <1>3, <1>4, <1>5 DEF ErasureInv, Holding
<1>7. d \in shifted \/ ~Remains(d) BY <1>3, <1>4, <1>5 DEF Passed, IsThrough
<1>8. k = {} BY <1>3, <1>4, <1>5 DEF Erasing
<1>9. PICK e : e = EraserAt("ack", d, n, b, {}) OBVIOUS
<1>10. [o EXCEPT !.at = "ack"] = e BY <1>2, <1>8, <1>9 DEF EraserAt
<1>11. eraser' = [eraser EXCEPT ![w] = e] BY <1>3, <1>10 DEF FinishErasure, Job
<1>12. e.at = "ack" /\ e.d = d /\ e.offset = n /\ e.more = b /\ e.keys = {} BY <1>9 DEF EraserAt
<1>13. Erasing(e)
  <2>1. e = [at |-> e.at, d |-> e.d, offset |-> e.offset, more |-> e.more, keys |-> e.keys] BY <1>9, <1>12 DEF EraserAt
  <2>2. b = FALSE BY <1>1, <1>3, <1>4, <1>5 DEF Erasing
  <2> QED BY <1>1, <1>12, <2>1, <2>2 DEF Erasing
<1>14. Passed(e) BY <1>12 DEF Passed, GoesOn, IsThrough
<1>15. photos' \cap eraser[w].keys \subseteq lostKeys' \cup e.keys BY <1>3, <1>4, <1>8
<1>16. ErasureTypes' BY <1>5, <1>6, <1>11 DEF ErasureInv, ErasureTypes
<1>17. eraser[w].at # "idle" /\ e.d = eraser[w].d /\ msg'[e.d] = "running" BY <1>3, <1>4, <1>5, <1>6, <1>12
<1>18. \A c \in erased' : c \in erased \/ c \in shifted \/ ~Remains(c) BY <1>5, <1>7
<1> QED BY <1>5, <1>11, <1>13, <1>14, <1>15, <1>16, <1>17, <1>18, QuietStep

\* A worker that lets go of its request, finished, failed or killed, leaves no key behind.
LEMMA LeaveStep ==
    ASSUME ErasureInv, NEW w \in EraseWorkers, Acknowledge(w) \/ ErasureFails(w) \/ EraserDies(w)
    PROVE  ErasureInv'
<1>1. PICK a, d, n, b, k : eraser[w] = EraserAt(a, d, n, b, k) /\ n \in Nat /\ b \in BOOLEAN
  BY EraserIs DEF EraserAt
<1>2. PICK o : o = EraserAt(a, d, n, b, k) OBVIOUS
<1>3. eraser[w] = o /\ Erasing(o) BY <1>1, <1>2 DEF ErasureInv
<1>4. o.at = a /\ o.d = d /\ o.offset = n /\ o.more = b /\ o.keys = k BY <1>2 DEF EraserAt
<1>5. /\ a # "idle" /\ UNCHANGED <<asked, surveys, leads, photos, redacted, shifted, erased>>
      /\ eraser' = [eraser EXCEPT ![w] = NoEraser]
      /\ \E m : msg' = [msg EXCEPT ![d] = m]
      /\ dsr' = dsr \/ dsr' = [dsr EXCEPT ![d] = "rejected"]
      /\ lostKeys \subseteq lostKeys' /\ (a = "photos" => lostKeys' = lostKeys \cup k)
  <2>1. CASE Acknowledge(w) BY <1>3, <1>4, <2>1 DEF Acknowledge, Job, kept
  <2>2. CASE EraserDies(w) BY <1>3, <1>4, <2>2 DEF EraserDies, Job
  <2>3. CASE ErasureFails(w) BY <1>3, <1>4, <2>3 DEF ErasureFails, Refused, Job, Status
  <2> QED BY <2>1, <2>2, <2>3
<1>6. d \in ErasureRequests /\ msg[d] = "running" BY <1>3, <1>4, <1>5 DEF ErasureInv, Holding
<1>7. dsr[d] # "none" BY <1>6 DEF ErasureInv, ErasureTypes
<1>8. PICK e : e = EraserAt("idle", "none", 0, FALSE, {}) OBVIOUS
<1>9. eraser' = [eraser EXCEPT ![w] = e] BY <1>5, <1>8 DEF NoEraser, EraserAt
<1>10. e.at = "idle" /\ e.d = "none" /\ e.offset = 0 /\ e.more = FALSE /\ e.keys = {} BY <1>8 DEF EraserAt
<1>11. Erasing(e)
  <2>1. e = [at |-> e.at, d |-> e.d, offset |-> e.offset, more |-> e.more, keys |-> e.keys] BY <1>8, <1>10 DEF EraserAt
  <2>2. e.offset \in Nat BY <1>10
  <2>3. e.more \in BOOLEAN BY <1>10
  <2> QED BY <1>10, <2>1, <2>2, <2>3, Zenon DEF Erasing
<1>12. Passed(e) BY <1>10 DEF Passed, GoesOn, IsThrough
<1>13. photos' \cap eraser[w].keys \subseteq lostKeys' \cup e.keys
  <2>1. a # "photos" => k = {} BY <1>3, <1>4 DEF Erasing
  <2> QED BY <1>3, <1>4, <1>5, <2>1
<1>14. ErasureTypes'
  <2>1. msg' = [c \in ErasureRequests |-> msg'[c]] /\ \A c \in ErasureRequests : c # d => msg'[c] = msg[c]
    BY <1>5 DEF ErasureInv, ErasureTypes
  <2>2. /\ dsr' = [c \in ErasureRequests |-> dsr'[c]] /\ dsr'[d] # "none"
        /\ \A c \in ErasureRequests : c # d => dsr'[c] = dsr[c]
    BY <1>5, <1>6, <1>7 DEF ErasureInv, ErasureTypes
  <2> QED BY <1>5, <1>9, <2>1, <2>2 DEF ErasureInv, ErasureTypes
<1>15. \A c \in ErasureRequests : (eraser[w].at # "idle" /\ c = eraser[w].d) \/ msg'[c] = msg[c]
  BY <1>3, <1>4, <1>5 DEF ErasureInv, ErasureTypes
<1> QED BY <1>5, <1>9, <1>10, <1>11, <1>12, <1>13, <1>14, <1>15, QuietStep

\* What is deleted leaves the rows before it in their place.
LEMMA RowsBefore ==
    ASSUME NEW table, IsTable(table), NEW hits \in SUBSET (1..Len(table)), NEW s, s = Without(table, hits),
           NEW n \in Nat, \A h \in hits : n < h
    PROVE  \A i \in 1..Len(s) : i <= n => i \in 1..Len(table) /\ s[i] = table[i]
<1>1. PICK places : places = 1..Len(table) \ hits OBVIOUS
<1>2. s = RowsAt(table, places) BY <1>1 DEF Without
<1>3. Len(table) \in Nat /\ Len(s) \in Nat /\ Len(s) <= Len(table) BY <1>2, KeptRows DEF RowsKept
<1>4. PICK z \in Nat : z = Len(table) BY <1>3
<1>5. SUFFICES ASSUME NEW i \in 1..Len(s), i <= n PROVE i \in 1..z /\ s[i] = table[i] BY <1>4
<1>6. i \in Nat /\ i \in 1..z BY <1>3, <1>4
<1>7. 1..i \subseteq places
  <2> SUFFICES ASSUME NEW j \in 1..i, j \in hits PROVE FALSE BY <1>1, <1>4, <1>6
  <2>1. n < j /\ j <= n BY <1>5, <1>6
  <2> QED BY <1>6, <2>1
<1>a. \A m \in Nat : m <= Len(table) /\ 1..m \subseteq places => m <= Len(s) /\ \A k \in 1..m : s[k] = table[k]
  BY <1>2, KeptRows DEF RowsKept
<1>8. \A k \in 1..i : s[k] = table[k] BY <1>4, <1>6, <1>7, <1>a
<1> QED BY <1>6, <1>8

\* The first of some places.
LEMMA FirstIs ==
    ASSUME NEW hits \in SUBSET Nat, hits # {} PROVE First(hits) \in hits /\ \A h \in hits : First(hits) <= h
BY LeastOf DEF First

\* Survey responses only go.
LEMMA FewerSurveys ==
    ASSUME IsTable(surveys), NEW hits, surveys' = Without(surveys, hits), UNCHANGED <<asked, leads, redacted>>
    PROVE  \A d \in ErasureRequests : Remains(d)' => Remains(d)
<1>a. PICK places, s : places = 1..Len(surveys) \ hits /\ s = surveys' OBVIOUS
<1>b. s = RowsAt(surveys, places) BY <1>a DEF Without
<1>c. RowsKept(surveys, places, s) BY <1>b, KeptRows
<1>1. Len(surveys) \in Nat /\ \A j \in 1..Len(surveys') : \E i \in 1..Len(surveys) : surveys'[j] = surveys[i]
  BY <1>a, <1>c DEF RowsKept
<1> QED BY <1>1 DEF Remains

\* A row with a photo is kept, or its key is known.
LEMMA KeysOfTheRest ==
    ASSUME IsTable(surveys), NEW hits, surveys' = Without(surveys, hits)
    PROVE  Ids(surveys) \subseteq Ids(surveys)' \cup {surveys[i].id : i \in hits}
<1> SUFFICES ASSUME NEW i \in 1..Len(surveys), i \notin hits PROVE surveys[i].id \in Ids(surveys') BY DEF Ids
<1>a. PICK places, s : places = 1..Len(surveys) \ hits /\ s = surveys' OBVIOUS
<1>b. s = RowsAt(surveys, places) BY <1>a DEF Without
<1>c. RowsKept(surveys, places, s) BY <1>b, KeptRows
<1>1. PICK j \in 1..Len(surveys') : surveys'[j] = surveys[i] BY <1>a, <1>c DEF RowsKept
<1> QED BY <1>1 DEF Ids

\* Whose scan a deletion goes under is told; the others' rows stay in their place.
LEMMA OthersScanSurveys ==
    ASSUME ErasureInv, NEW w \in EraseWorkers, NEW hits \in SUBSET (1..Len(surveys)), surveys' = Without(surveys, hits),
           UNCHANGED <<asked, leads>>, shifted \subseteq shifted',
           hits # {} => Overtaken("household", First(hits), w) \subseteq shifted',
           NEW v \in EraseWorkers, v # w, eraser'[v] = eraser[v], GoesOn(eraser[v])
    PROVE  eraser[v].d \in shifted'
           \/ (NoneUpTo(eraser[v].d, eraser[v].offset) => NoneUpTo(eraser[v].d, eraser[v].offset)')
<1>1. PICK e : e = eraser[v] OBVIOUS
<1>2. e.offset \in Nat BY <1>1 DEF ErasureInv, Erasing
<1>3. SUFFICES ASSUME e.d \notin shifted', NoneUpTo(e.d, e.offset) PROVE NoneUpTo(e.d, e.offset)' BY <1>1
<1>4. CASE asked[e.d].kind # "household" BY <1>3, <1>4 DEF NoneUpTo
<1>5. CASE asked[e.d].kind = "household"
  <2>1. \A h \in hits : e.offset < h
    <3>1. SUFFICES ASSUME hits # {} PROVE \A h \in hits : e.offset < h OBVIOUS
    <3>2. IsTable(surveys) BY DEF ErasureInv, ErasureTypes
    <3>3. Len(surveys) \in Nat BY <3>2, LengthOf
    <3>4. hits \subseteq Nat BY <3>3
    <3>5. First(hits) \in hits /\ \A h \in hits : First(hits) <= h BY <3>1, <3>4, FirstIs
    <3>6. PICK f \in Nat : f = First(hits) BY <3>4, <3>5
    <3>7. e.at # "idle" /\ (e.at \in {"scan", "leads"} \/ e.more) BY <1>1 DEF GoesOn
    <3>8. ~(e.offset >= f) BY <1>1, <1>3, <1>5, <3>1, <3>6, <3>7 DEF Overtaken
    <3> QED BY <1>2, <3>4, <3>5, <3>6, <3>8
  <2>2. \A i \in 1..Len(surveys') : i <= e.offset => i \in 1..Len(surveys) /\ surveys'[i] = surveys[i]
    BY <1>2, <2>1, RowsBefore DEF ErasureInv, ErasureTypes
  <2> QED BY <1>3, <1>5, <2>2 DEF NoneUpTo
<1> QED BY <1>4, <1>5

\* An enumerator's rows go at once.
LEMMA EnumeratorStep ==
    ASSUME ErasureInv, NEW w \in EraseWorkers, EraseEnumerator(w)
    PROVE  ErasureInv'
<1>1. PICK a, d, n, b, k : eraser[w] = EraserAt(a, d, n, b, k) /\ n \in Nat /\ b \in BOOLEAN
  BY EraserIs DEF EraserAt
<1>2. PICK o : o = EraserAt(a, d, n, b, k) OBVIOUS
<1>3. eraser[w] = o /\ Erasing(o) BY <1>1, <1>2 DEF ErasureInv
<1>4. o.at = a /\ o.d = d /\ o.offset = n /\ o.more = b /\ o.keys = k BY <1>2 DEF EraserAt
<1>5. PICK hits : hits = {i \in 1..Len(surveys) : surveys[i].enumerator = asked[d].subject} OBVIOUS
<1>6. PICK keys : keys = {surveys[i].id : i \in hits} OBVIOUS
<1>7. /\ a = "rows" /\ UNCHANGED <<asked, dsr, msg, leads, photos, redacted, lostKeys, erased>>
      /\ surveys' = Without(surveys, hits)
      /\ shifted' = IF hits = {} THEN shifted ELSE shifted \cup Overtaken("household", First(hits), w)
      /\ Job(w, [eraser[w] EXCEPT !.at = "photos", !.keys = keys])
  BY <1>3, <1>4, <1>5, <1>6 DEF EraseEnumerator, Subject, kept
<1>8. d \in ErasureRequests /\ msg[d] = "running" BY <1>3, <1>4, <1>7 DEF ErasureInv, Holding
<1>9. asked[d].kind = "enumerator" /\ b = FALSE BY <1>1, <1>3, <1>4, <1>7 DEF Erasing
<1>10. PICK e : e = EraserAt("photos", d, n, b, keys) OBVIOUS
<1>11. [o EXCEPT !.at = "photos", !.keys = keys] = e
  <2>1. PICK g : g = [o EXCEPT !.at = "photos"] OBVIOUS
  <2>2. g = EraserAt("photos", d, n, b, k) BY <1>2, <2>1 DEF EraserAt
  <2>3. [g EXCEPT !.keys = keys] = e BY <1>10, <2>2 DEF EraserAt
  <2> QED BY <2>1, <2>3
<1>12. eraser' = [eraser EXCEPT ![w] = e] BY <1>3, <1>7, <1>11 DEF Job
<1>13. e.at = "photos" /\ e.d = d /\ e.offset = n /\ e.more = b /\ e.keys = keys BY <1>10 DEF EraserAt
<1>14. Erasing(e)
  <2>1. e = [at |-> e.at, d |-> e.d, offset |-> e.offset, more |-> e.more, keys |-> e.keys] BY <1>10, <1>13 DEF EraserAt
  <2> QED BY <1>1, <1>9, <1>13, <2>1 DEF Erasing
<1>15. IsTable(surveys) BY DEF ErasureInv, ErasureTypes
<1>16. /\ IsTable(surveys') /\ Len(surveys) \in Nat
       /\ \A j \in 1..Len(surveys') : \E i \in 1..Len(surveys) : i \notin hits /\ surveys'[j] = surveys[i]
  <2>1. PICK places, s : places = 1..Len(surveys) \ hits /\ s = surveys' OBVIOUS
  <2>2. s = RowsAt(surveys, places) BY <1>7, <2>1 DEF Without
  <2>3. RowsKept(surveys, places, s) BY <1>15, <2>2, KeptRows
  <2> QED BY <2>1, <2>3 DEF RowsKept
<1>17. ~Remains(d)'
  <2>1. \A j \in 1..Len(surveys') : surveys'[j].enumerator # asked[d].subject BY <1>5, <1>16
  <2> QED BY <1>7, <1>9, <2>1 DEF Remains
<1>18. Passed(e)' BY <1>9, <1>13, <1>17 DEF Passed, GoesOn, IsThrough
<1>19. ErasureTypes' BY <1>7, <1>12, <1>16 DEF ErasureInv, ErasureTypes
<1>20. eraser[w].at # "idle" /\ e.d = eraser[w].d /\ msg'[e.d] = "running" BY <1>3, <1>4, <1>7, <1>8, <1>13
<1>21. \A c \in ErasureRequests : Remains(c)' => Remains(c) BY <1>7, <1>15, FewerSurveys
<1>22. shifted \subseteq shifted' /\ (hits # {} => Overtaken("household", First(hits), w) \subseteq shifted') BY <1>7
<1>23. \A v \in EraseWorkers : v # w /\ GoesOn(eraser[v]) =>
          eraser[v].d \in shifted'
          \/ (NoneUpTo(eraser[v].d, eraser[v].offset) => NoneUpTo(eraser[v].d, eraser[v].offset)')
  <2> SUFFICES ASSUME NEW v \in EraseWorkers, v # w, GoesOn(eraser[v])
               PROVE eraser[v].d \in shifted'
                     \/ (NoneUpTo(eraser[v].d, eraser[v].offset) => NoneUpTo(eraser[v].d, eraser[v].offset)') OBVIOUS
  <2>1. eraser'[v] = eraser[v] BY <1>12 DEF ErasureInv, ErasureTypes
  <2>2. hits \in SUBSET (1..Len(surveys)) BY <1>5
  <2>3. UNCHANGED <<asked, leads>> BY <1>7
  <2> QED BY <1>7, <1>22, <2>1, <2>2, <2>3, OthersScanSurveys
<1>24. /\ photos' \cap Ids(surveys) \subseteq Ids(surveys)' \cup e.keys
       /\ photos' \cap eraser[w].keys \subseteq lostKeys' \cup e.keys
  <2>1. Ids(surveys) \subseteq Ids(surveys)' \cup keys BY <1>6, <1>7, <1>15, KeysOfTheRest
  <2>2. k = {} BY <1>3, <1>4, <1>7 DEF Erasing
  <2> QED BY <1>3, <1>4, <1>13, <2>1, <2>2
<1>25. /\ photos' \subseteq photos /\ lostKeys \subseteq lostKeys' /\ asked' = asked
       /\ \A c \in erased' : c \in erased
       /\ \A c \in ErasureRequests : msg'[c] = msg[c]
  BY <1>7
<1> QED BY <1>12, <1>14, <1>18, <1>19, <1>20, <1>21, <1>22, <1>23, <1>24, <1>25, WorkerStep

\* A page that is not full is the last one.
LEMMA LastPageIs ==
    ASSUME NEW z \in Nat, NEW n \in Nat, NEW page, page = {i \in 1..z : i > n /\ i <= n + BatchSize}, ~MorePages(page)
    PROVE  z <= n + BatchSize
<1>1. PICK batch \in Nat : batch = BatchSize /\ batch # 0 BY ErasureAssumption
<1> SUFFICES ASSUME z > n + batch PROVE FALSE BY <1>1
<1>2. page = (n + 1)..(n + batch) BY <1>1
<1>3. Cardinality((n + 1)..(n + batch)) = batch
  <2>1. n + 1 \in Int /\ n + batch \in Int OBVIOUS
  <2>2. Cardinality((n + 1)..(n + batch)) = IF n + 1 > n + batch THEN 0 ELSE (n + batch) - (n + 1) + 1
    BY <2>1, FS_Interval
  <2>3. ~(n + 1 > n + batch) BY <1>1
  <2> QED BY <1>1, <2>2, <2>3
<1> QED BY <1>1, <1>2, <1>3 DEF MorePages

\* A household's rows go page by page: what is passed is clean, unless a page that was full
\* lost rows.
LEMMA SurveyScanStep ==
    ASSUME ErasureInv, NEW w \in EraseWorkers, ScanSurveys(w)
    PROVE  ErasureInv'
<1>1. PICK a, d, n, b, k : eraser[w] = EraserAt(a, d, n, b, k) /\ n \in Nat /\ b \in BOOLEAN
  BY EraserIs DEF EraserAt
<1>2. PICK o : o = EraserAt(a, d, n, b, k) OBVIOUS
<1>3. eraser[w] = o /\ Erasing(o) /\ Passed(o) BY <1>1, <1>2 DEF ErasureInv
<1>4. o.at = a /\ o.d = d /\ o.offset = n /\ o.more = b /\ o.keys = k BY <1>2 DEF EraserAt
<1>5. PICK page : page = Page(w, surveys) OBVIOUS
<1>6. PICK hits : hits = {i \in page : surveys[i].household = asked[d].subject} OBVIOUS
<1>7. PICK more \in BOOLEAN : more = MorePages(page) BY DEF MorePages
<1>8. PICK keys : keys = {surveys[i].id : i \in hits} OBVIOUS
<1>9. PICK next \in Nat : next = n + BatchSize BY <1>1, ErasureAssumption
<1>10. /\ a = "scan" /\ UNCHANGED <<asked, dsr, msg, leads, photos, redacted, lostKeys, erased>>
       /\ surveys' = Without(surveys, hits)
       /\ shifted' = IF hits = {} THEN shifted
                     ELSE shifted \cup Overtaken("household", First(hits), w) \cup (IF more THEN {d} ELSE {})
       /\ Job(w, [eraser[w] EXCEPT !.at = "photos", !.keys = keys, !.offset = next, !.more = more])
  BY <1>3, <1>4, <1>5, <1>6, <1>7, <1>8, <1>9 DEF ScanSurveys, Subject, Keys, kept
<1>11. d \in ErasureRequests /\ msg[d] = "running" BY <1>3, <1>4, <1>10 DEF ErasureInv, Holding
<1>12. asked[d].kind = "household" /\ k = {} BY <1>3, <1>4, <1>10 DEF Erasing
<1>13. PICK e : e = EraserAt("photos", d, next, more, keys) OBVIOUS
<1>14. [o EXCEPT !.at = "photos", !.keys = keys, !.offset = next, !.more = more] = e
  <2>1. PICK p : p = [o EXCEPT !.at = "photos"] OBVIOUS
  <2>2. p = EraserAt("photos", d, n, b, k) BY <1>2, <2>1 DEF EraserAt
  <2>3. PICK q : q = [p EXCEPT !.keys = keys] OBVIOUS
  <2>4. q = EraserAt("photos", d, n, b, keys) BY <2>2, <2>3 DEF EraserAt
  <2>5. PICK r : r = [q EXCEPT !.offset = next] OBVIOUS
  <2>6. r = EraserAt("photos", d, next, b, keys) BY <2>4, <2>5 DEF EraserAt
  <2>7. [r EXCEPT !.more = more] = e BY <1>13, <2>6 DEF EraserAt
  <2> QED BY <2>1, <2>3, <2>5, <2>7
<1>15. eraser' = [eraser EXCEPT ![w] = e] BY <1>3, <1>10, <1>14 DEF Job
<1>16. e.at = "photos" /\ e.d = d /\ e.offset = next /\ e.more = more /\ e.keys = keys BY <1>13 DEF EraserAt
<1>17. Erasing(e)
  <2>1. e = [at |-> e.at, d |-> e.d, offset |-> e.offset, more |-> e.more, keys |-> e.keys] BY <1>13, <1>16 DEF EraserAt
  <2> QED BY <1>7, <1>9, <1>12, <1>16, <2>1 DEF Erasing
<1>18. IsTable(surveys) BY DEF ErasureInv, ErasureTypes
<1>19. PICK z \in Nat : z = Len(surveys) BY <1>18, LengthOf
<1>20. page = {i \in 1..z : i > n /\ i <= next} BY <1>3, <1>4, <1>5, <1>9, <1>19 DEF Page
<1>21. hits \in SUBSET (1..Len(surveys)) BY <1>6, <1>19, <1>20
<1>22. PICK places : places = 1..Len(surveys) \ hits OBVIOUS
<1>23. PICK s : s = surveys' OBVIOUS
<1>24. RowsKept(surveys, places, s) BY <1>10, <1>18, <1>22, <1>23, KeptRows DEF Without
<1>25. /\ IsTable(surveys') /\ Len(s) \in Nat
       /\ \A j \in 1..Len(s) : \E i \in 1..z : i \notin hits /\ s[j] = surveys[i]
  BY <1>19, <1>22, <1>23, <1>24 DEF RowsKept
<1>26. d \in shifted \/ \A i \in 1..z : i <= n => surveys[i].household # asked[d].subject
  BY <1>3, <1>4, <1>10, <1>12, <1>19 DEF Passed, GoesOn, NoneUpTo
<1>27. \A i \in 1..z : i > n /\ i <= next /\ i \notin hits => surveys[i].household # asked[d].subject BY <1>6, <1>20
<1>28. shifted \subseteq shifted' /\ (hits # {} => Overtaken("household", First(hits), w) \subseteq shifted') BY <1>10
<1>29. Passed(e)'
  <2>1. CASE d \in shifted' BY <1>16, <2>1 DEF Passed
  <2>2. CASE d \notin shifted'
    <3>1. \A i \in 1..z : i <= next /\ i \notin hits => surveys[i].household # asked[d].subject
      <4>1. d \notin shifted BY <1>28, <2>2
      <4> QED BY <1>1, <1>26, <1>27, <4>1
    <3>2. CASE more
      <4>1. hits = {} BY <1>10, <2>2, <3>2
      <4>2. \A h \in hits : next < h BY <4>1
      <4>3. \A i \in 1..Len(s) : i <= next => i \in 1..Len(surveys) /\ s[i] = surveys[i]
        BY <1>9, <1>10, <1>18, <1>21, <1>23, <4>2, RowsBefore
      <4>4. \A i \in 1..Len(s) : i <= next => s[i].household # asked[d].subject BY <1>19, <3>1, <4>1, <4>3
      <4>5. NoneUpTo(d, next)' BY <1>10, <1>12, <1>23, <4>4 DEF NoneUpTo
      <4> QED BY <1>16, <3>2, <4>5 DEF Passed, GoesOn, IsThrough
    <3>3. CASE ~more
      <4>1. z <= next BY <1>1, <1>7, <1>9, <1>20, <3>3, LastPageIs
      <4>2. \A i \in 1..z : i <= next BY <1>9, <4>1
      <4>3. \A j \in 1..Len(s) : s[j].household # asked[d].subject BY <1>25, <3>1, <4>2
      <4>4. ~Remains(d)' BY <1>10, <1>12, <1>23, <4>3 DEF Remains
      <4> QED BY <1>16, <3>3, <4>4 DEF Passed, GoesOn, IsThrough
    <3> QED BY <3>2, <3>3
  <2> QED BY <2>1, <2>2
<1>30. ErasureTypes' BY <1>10, <1>15, <1>25 DEF ErasureInv, ErasureTypes
<1>31. eraser[w].at # "idle" /\ e.d = eraser[w].d /\ msg'[e.d] = "running" BY <1>3, <1>4, <1>10, <1>11, <1>16
<1>32. \A c \in ErasureRequests : Remains(c)' => Remains(c) BY <1>10, <1>18, FewerSurveys
<1>33. \A v \in EraseWorkers : v # w /\ GoesOn(eraser[v]) =>
          eraser[v].d \in shifted'
          \/ (NoneUpTo(eraser[v].d, eraser[v].offset) => NoneUpTo(eraser[v].d, eraser[v].offset)')
  <2> SUFFICES ASSUME NEW v \in EraseWorkers, v # w, GoesOn(eraser[v])
               PROVE eraser[v].d \in shifted'
                     \/ (NoneUpTo(eraser[v].d, eraser[v].offset) => NoneUpTo(eraser[v].d, eraser[v].offset)') OBVIOUS
  <2>1. eraser'[v] = eraser[v] BY <1>15 DEF ErasureInv, ErasureTypes
  <2>2. UNCHANGED <<asked, leads>> BY <1>10
  <2> QED BY <1>10, <1>21, <1>28, <2>1, <2>2, OthersScanSurveys
<1>34. /\ photos' \cap Ids(surveys) \subseteq Ids(surveys)' \cup e.keys
       /\ photos' \cap eraser[w].keys \subseteq lostKeys' \cup e.keys
  <2>1. Ids(surveys) \subseteq Ids(surveys)' \cup keys BY <1>8, <1>10, <1>18, KeysOfTheRest
  <2> QED BY <1>3, <1>4, <1>12, <1>16, <2>1
<1>35. /\ photos' \subseteq photos /\ lostKeys \subseteq lostKeys' /\ asked' = asked
       /\ \A c \in erased' : c \in erased
       /\ \A c \in ErasureRequests : msg'[c] = msg[c]
  BY <1>10
<1> QED BY <1>15, <1>17, <1>28, <1>29, <1>30, <1>31, <1>32, <1>33, <1>34, <1>35, WorkerStep

\* A user's account is redacted at once.
LEMMA UserStep ==
    ASSUME ErasureInv, NEW w \in EraseWorkers, EraseUser(w)
    PROVE  ErasureInv'
<1>1. PICK a, d, n, b, k : eraser[w] = EraserAt(a, d, n, b, k) /\ n \in Nat /\ b \in BOOLEAN
  BY EraserIs DEF EraserAt
<1>2. PICK o : o = EraserAt(a, d, n, b, k) OBVIOUS
<1>3. eraser[w] = o /\ Erasing(o) BY <1>1, <1>2 DEF ErasureInv
<1>4. o.at = a /\ o.d = d /\ o.offset = n /\ o.more = b /\ o.keys = k BY <1>2 DEF EraserAt
<1>5. /\ a = "user" /\ UNCHANGED <<asked, dsr, msg, surveys, leads, photos, shifted, lostKeys, erased>>
      /\ redacted' = redacted \cup {asked[d].subject}
      /\ Job(w, [eraser[w] EXCEPT !.at = "finish"])
  BY <1>3, <1>4 DEF EraseUser, Subject, kept
<1>6. d \in ErasureRequests /\ msg[d] = "running" BY <1>3, <1>4, <1>5 DEF ErasureInv, Holding
<1>7. asked[d].kind = "user" /\ k = {} /\ b = FALSE BY <1>1, <1>3, <1>4, <1>5 DEF Erasing
<1>8. PICK e : e = EraserAt("finish", d, n, b, k) OBVIOUS
<1>9. [o EXCEPT !.at = "finish"] = e BY <1>2, <1>8 DEF EraserAt
<1>10. eraser' = [eraser EXCEPT ![w] = e] BY <1>3, <1>5, <1>9 DEF Job
<1>11. e.at = "finish" /\ e.d = d /\ e.offset = n /\ e.more = b /\ e.keys = k BY <1>8 DEF EraserAt
<1>12. Erasing(e)
  <2>1. e = [at |-> e.at, d |-> e.d, offset |-> e.offset, more |-> e.more, keys |-> e.keys] BY <1>8, <1>11 DEF EraserAt
  <2> QED BY <1>1, <1>7, <1>11, <2>1 DEF Erasing
<1>13. ~Remains(d)' BY <1>5, <1>7 DEF Remains
<1>14. Passed(e)' BY <1>11, <1>13 DEF Passed, GoesOn, IsThrough
<1>15. ErasureTypes' BY <1>5, <1>10 DEF ErasureInv, ErasureTypes
<1>16. eraser[w].at # "idle" /\ e.d = eraser[w].d /\ msg'[e.d] = "running" BY <1>3, <1>4, <1>5, <1>6, <1>11
<1>17. \A c \in ErasureRequests : Remains(c)' => Remains(c) BY <1>5 DEF Remains
<1>18. \A v \in EraseWorkers : v # w /\ GoesOn(eraser[v]) =>
          eraser[v].d \in shifted'
          \/ (NoneUpTo(eraser[v].d, eraser[v].offset) => NoneUpTo(eraser[v].d, eraser[v].offset)')
  <2> SUFFICES ASSUME NEW v \in EraseWorkers, v # w, NoneUpTo(eraser[v].d, eraser[v].offset)
               PROVE NoneUpTo(eraser[v].d, eraser[v].offset)' OBVIOUS
  <2>1. eraser'[v] = eraser[v] BY <1>10 DEF ErasureInv, ErasureTypes
  <2> QED BY <1>5, <2>1 DEF NoneUpTo
<1>19. /\ photos' \cap Ids(surveys) \subseteq Ids(surveys)' \cup e.keys
       /\ photos' \cap eraser[w].keys \subseteq lostKeys' \cup e.keys
  BY <1>3, <1>4, <1>5, <1>7
<1>20. /\ photos' \subseteq photos /\ lostKeys \subseteq lostKeys' /\ asked' = asked /\ shifted \subseteq shifted'
       /\ \A c \in erased' : c \in erased
       /\ \A c \in ErasureRequests : msg'[c] = msg[c]
  BY <1>5
<1> QED BY <1>10, <1>12, <1>14, <1>15, <1>16, <1>17, <1>18, <1>19, <1>20, WorkerStep

(* Leads are cleared where they are, or move to the end. *)

InPlace(hits) == [i \in 1..Len(leads) |-> IF i \in hits THEN Anonymous(leads[i]) ELSE leads[i]]

\* Every row is one that was no hit, or names no developer.
LeadsCleared(hits, s) ==
    /\ IsTable(s) /\ Len(s) \in Nat
    /\ \A j \in 1..Len(s) : (\E i \in 1..Len(leads) : i \notin hits /\ s[j] = leads[i]) \/ s[j].developer = "none"

LEMMA ClearedInPlace ==
    ASSUME IsTable(leads), NEW hits \in SUBSET (1..Len(leads)), NEW s, s = InPlace(hits)
    PROVE  /\ LeadsCleared(hits, s)
           /\ \A i \in 1..Len(s) : /\ i \in 1..Len(leads)
                                   /\ (i \notin hits /\ s[i] = leads[i]) \/ s[i].developer = "none"
<1>1. PICK z \in Nat : z = Len(leads) BY LengthOf
<1>2. PICK Q : Q = {s[i] : i \in DOMAIN s} OBVIOUS
<1>3. DOMAIN s = 1..z /\ \A i \in 1..z : s[i] = IF i \in hits THEN Anonymous(leads[i]) ELSE leads[i]
  BY <1>1 DEF InPlace
<1>4. s \in [1..z -> Q] BY <1>1, <1>2, <1>3 DEF InPlace
<1>5. s \in Seq(Q) /\ Len(s) = z BY <1>1, <1>4
<1>6. \A i \in 1..z : (i \notin hits /\ s[i] = leads[i]) \/ s[i].developer = "none"
  BY <1>3 DEF Anonymous
<1>7. IsTable(s) BY <1>2, <1>5 DEF IsTable
<1> QED BY <1>1, <1>5, <1>6, <1>7 DEF LeadsCleared

LEMMA ClearedAndMoved ==
    ASSUME IsTable(leads), NEW hits \in SUBSET (1..Len(leads)), hits # {},
           NEW s, s = Without(leads, hits) \o RowsAt(InPlace(hits), hits)
    PROVE  /\ LeadsCleared(hits, s)
           /\ \A n \in Nat : (\A h \in hits : n < h) =>
                  \A i \in 1..Len(s) : i <= n => i \in 1..Len(leads) /\ s[i] = leads[i]
<1>1. PICK z \in Nat : z = Len(leads) BY LengthOf
<1>2. PICK places, rest, table, moved : /\ places = 1..Len(leads) \ hits /\ rest = Without(leads, hits)
                                        /\ table = InPlace(hits) /\ moved = RowsAt(table, hits) OBVIOUS
<1>3. RowsKept(leads, places, rest) BY <1>2, KeptRows DEF Without
<1>4. LeadsCleared(hits, table) BY <1>2, ClearedInPlace
<1>5. IsTable(table) BY <1>4 DEF LeadsCleared
<1>6. RowsKept(table, hits, moved) BY <1>2, <1>5, KeptRows
<1>7. IsTable(rest) /\ IsTable(moved) BY <1>3, <1>6 DEF RowsKept
<1>8. PICK Q : Q = {rest[i] : i \in DOMAIN rest} \cup {moved[i] : i \in DOMAIN moved} OBVIOUS
<1>9. rest \in Seq(Q) /\ moved \in Seq(Q)
  <2>1. PICK Q1 : Q1 = {rest[i] : i \in DOMAIN rest} OBVIOUS
  <2>2. PICK Q2 : Q2 = {moved[i] : i \in DOMAIN moved} OBVIOUS
  <2>3. rest \in Seq(Q1) /\ moved \in Seq(Q2) BY <1>7, <2>1, <2>2 DEF IsTable
  <2>4. Q1 \subseteq Q /\ Q2 \subseteq Q BY <1>8, <2>1, <2>2
  <2> QED BY <2>3, <2>4
<1>10. PICK l \in Nat : l = Len(rest) BY <1>9, LenProperties
<1>11. PICK m \in Nat : m = Len(moved) BY <1>9, LenProperties
<1>12. s = rest \o moved BY <1>2
<1>13. /\ s \in Seq(Q) /\ Len(s) = l + m
       /\ \A j \in 1..(l + m) : s[j] = IF j <= l THEN rest[j] ELSE moved[j - l]
  BY <1>9, <1>10, <1>11, <1>12, ConcatProperties
<1>14. IsTable(s)
  <2>1. PICK R : R = {s[i] : i \in DOMAIN s} OBVIOUS
  <2>a. PICK t \in Nat : t = l + m OBVIOUS
  <2>2. DOMAIN s = 1..t BY <1>13, <2>a, LenProperties
  <2>3. s \in [1..t -> R] BY <1>13, <2>1, <2>2, LenProperties
  <2>b. \A f : f \in [1..t -> R] => f \in Seq(R) OBVIOUS
  <2>4. s \in Seq(R) BY <2>3, <2>b, Zenon
  <2> QED BY <2>1, <2>4 DEF IsTable
<1>15. \A j \in 1..l : \E i \in 1..z : i \notin hits /\ rest[j] = leads[i]
  BY <1>1, <1>2, <1>3, <1>10 DEF RowsKept
<1>16. \A j \in 1..m : moved[j].developer = "none"
  <2> SUFFICES ASSUME NEW j \in 1..m PROVE moved[j].developer = "none" OBVIOUS
  <2>1. PICK i \in 1..Len(table) : i \in hits /\ moved[j] = table[i] BY <1>6, <1>11 DEF RowsKept
  <2>2. /\ \A c \in 1..Len(table) : c \in 1..Len(leads)
        /\ \A c \in 1..Len(table) : (c \notin hits /\ table[c] = leads[c]) \/ table[c].developer = "none"
    BY <1>2, ClearedInPlace
  <2> QED BY <2>1, <2>2
<1>17. \A j \in 1..(l + m) : (\E i \in 1..z : i \notin hits /\ s[j] = leads[i]) \/ s[j].developer = "none"
  <2> SUFFICES ASSUME NEW j \in 1..(l + m)
               PROVE (\E i \in 1..z : i \notin hits /\ s[j] = leads[i]) \/ s[j].developer = "none" OBVIOUS
  <2>1. CASE j <= l
    <3>1. j \in 1..l /\ s[j] = rest[j] BY <1>13, <2>1
    <3>2. PICK i \in 1..z : i \notin hits /\ rest[j] = leads[i] BY <1>15, <3>1
    <3> QED BY <3>1, <3>2
  <2>2. CASE ~(j <= l)
    <3>1. j - l \in 1..m /\ s[j] = moved[j - l] BY <1>13, <2>2
    <3> QED BY <1>16, <3>1
  <2> QED BY <2>1, <2>2
<1>18. LeadsCleared(hits, s) BY <1>1, <1>13, <1>14, <1>17 DEF LeadsCleared
<1>19. ASSUME NEW n \in Nat, \A h \in hits : n < h, NEW i \in 1..Len(s), i <= n
       PROVE  i \in 1..z /\ s[i] = leads[i]
  <2>1. PICK h \in 1..z : h \in hits BY <1>1
  <2>2. n <= z BY <1>19, <2>1
  <2>3. 1..n \subseteq places
    <3> SUFFICES ASSUME NEW j \in 1..n, j \in hits PROVE FALSE BY <1>1, <1>2, <2>2
    <3>1. n < j BY <1>19
    <3> QED BY <3>1
  <2>4. \A q \in Nat : q <= z /\ 1..q \subseteq places => q <= l /\ \A c \in 1..q : rest[c] = leads[c]
    BY <1>1, <1>3, <1>10 DEF RowsKept
  <2>5. n <= l /\ \A c \in 1..n : rest[c] = leads[c] BY <2>2, <2>3, <2>4
  <2>6. i \in 1..n /\ i \in 1..z /\ i \in 1..(l + m) /\ i <= l BY <1>13, <1>19, <2>2, <2>5
  <2>7. s[i] = rest[i] BY <1>13, <2>6
  <2> QED BY <2>5, <2>6, <2>7
<1> QED BY <1>1, <1>18, <1>19

\* No row that named the subject's developer comes into the leads.
LEMMA FewerLeads ==
    ASSUME ErasureInv, NEW hits, LeadsCleared(hits, leads'), UNCHANGED <<asked, surveys, redacted>>
    PROVE  \A d \in ErasureRequests : Remains(d)' => Remains(d)
<1> SUFFICES ASSUME NEW d \in ErasureRequests, Remains(d)' PROVE Remains(d) OBVIOUS
<1>1. CASE asked[d].kind # "developer" BY <1>1 DEF Remains
<1>2. CASE asked[d].kind = "developer"
  <2>1. PICK s : s = leads' OBVIOUS
  <2>2. PICK j \in 1..Len(s) : s[j].developer = asked[d].subject BY <1>2, <2>1 DEF Remains
  <2>3. asked[d].subject # "none" BY ErasureAssumption DEF ErasureInv, ErasureTypes
  <2>4. (\E i \in 1..Len(leads) : i \notin hits /\ s[j] = leads[i]) \/ s[j].developer = "none"
    BY <2>1, <2>2 DEF LeadsCleared
  <2>5. PICK i \in 1..Len(leads) : s[j] = leads[i] BY <2>2, <2>3, <2>4
  <2> QED BY <1>2, <2>2, <2>5 DEF Remains
<1> QED BY <1>1, <1>2

\* The rows before are the same ones, or cleared in place.
SameBefore(n, s) == \A i \in 1..Len(s) : i <= n => /\ i \in 1..Len(leads)
                                                   /\ s[i] = leads[i] \/ s[i].developer = "none"

LEMMA OthersScanLeads ==
    ASSUME ErasureInv, NEW w \in EraseWorkers, NEW hits \in SUBSET (1..Len(leads)),
           UNCHANGED <<asked, surveys>>, shifted \subseteq shifted',
           \/ \A n \in Nat : SameBefore(n, leads')
           \/ /\ hits # {} /\ Overtaken("developer", First(hits), w) \subseteq shifted'
              /\ \A n \in Nat : (\A h \in hits : n < h) => SameBefore(n, leads'),
           NEW v \in EraseWorkers, v # w, eraser'[v] = eraser[v], GoesOn(eraser[v])
    PROVE  eraser[v].d \in shifted'
           \/ (NoneUpTo(eraser[v].d, eraser[v].offset) => NoneUpTo(eraser[v].d, eraser[v].offset)')
<1>1. PICK e : e = eraser[v] OBVIOUS
<1>2. e.offset \in Nat BY <1>1 DEF ErasureInv, Erasing
<1>3. SUFFICES ASSUME e.d \notin shifted', NoneUpTo(e.d, e.offset) PROVE NoneUpTo(e.d, e.offset)' BY <1>1
<1>4. CASE asked[e.d].kind # "developer" BY <1>3, <1>4 DEF NoneUpTo
<1>5. CASE asked[e.d].kind = "developer"
  <2>1. SameBefore(e.offset, leads')
    <3>1. CASE \A n \in Nat : SameBefore(n, leads') BY <1>2, <3>1
    <3>2. CASE /\ hits # {} /\ Overtaken("developer", First(hits), w) \subseteq shifted'
               /\ \A n \in Nat : (\A h \in hits : n < h) => SameBefore(n, leads')
      <4>1. IsTable(leads) BY DEF ErasureInv, ErasureTypes
      <4>2. Len(leads) \in Nat BY <4>1, LengthOf
      <4>3. hits \subseteq Nat BY <4>2
      <4>4. First(hits) \in hits /\ \A h \in hits : First(hits) <= h BY <3>2, <4>3, FirstIs
      <4>5. PICK f \in Nat : f = First(hits) BY <4>3, <4>4
      <4>6. e.at # "idle" /\ (e.at \in {"scan", "leads"} \/ e.more) BY <1>1 DEF GoesOn
      <4>7. ~(e.offset >= f) BY <1>1, <1>3, <1>5, <3>2, <4>5, <4>6 DEF Overtaken
      <4>8. \A h \in hits : e.offset < h BY <1>2, <4>3, <4>4, <4>5, <4>7
      <4> QED BY <1>2, <3>2, <4>8
    <3> QED BY <3>1, <3>2
  <2>2. e.d \in ErasureRequests BY <1>1 DEF ErasureInv, Holding, GoesOn
  <2>3. asked[e.d].subject # "none" BY <2>2, ErasureAssumption DEF ErasureInv, ErasureTypes
  <2>4. PICK s : s = leads' OBVIOUS
  <2>5. \A i \in 1..Len(s) : i <= e.offset => s[i].developer # asked[e.d].subject
    BY <1>3, <1>5, <2>1, <2>3, <2>4 DEF SameBefore, NoneUpTo
  <2> QED BY <1>5, <2>4, <2>5 DEF NoneUpTo
<1> QED BY <1>4, <1>5

\* A developer's leads are cleared page by page.
LEMMA LeadScanStep ==
    ASSUME ErasureInv, NEW w \in EraseWorkers, ScanLeads(w)
    PROVE  ErasureInv'
<1>1. PICK a, d, n, b, k : eraser[w] = EraserAt(a, d, n, b, k) /\ n \in Nat /\ b \in BOOLEAN
  BY EraserIs DEF EraserAt
<1>2. PICK o : o = EraserAt(a, d, n, b, k) OBVIOUS
<1>3. eraser[w] = o /\ Erasing(o) /\ Passed(o) BY <1>1, <1>2 DEF ErasureInv
<1>4. o.at = a /\ o.d = d /\ o.offset = n /\ o.more = b /\ o.keys = k BY <1>2 DEF EraserAt
<1>5. PICK page : page = Page(w, leads) OBVIOUS
<1>6. PICK hits : hits = {i \in page : leads[i].developer = asked[d].subject} OBVIOUS
<1>7. PICK more \in BOOLEAN : more = MorePages(page) BY DEF MorePages
<1>8. PICK next \in Nat : next = n + BatchSize BY <1>1, ErasureAssumption
<1>9. PICK at : at = IF more THEN "leads" ELSE "finish" OBVIOUS
<1>10. /\ a = "leads" /\ UNCHANGED <<asked, dsr, msg, surveys, photos, redacted, lostKeys, erased>>
       /\ \/ leads' = InPlace(hits) /\ shifted' = shifted
          \/ /\ hits # {} /\ leads' = Without(leads, hits) \o RowsAt(InPlace(hits), hits)
             /\ shifted' = shifted \cup Overtaken("developer", First(hits), w) \cup (IF more THEN {d} ELSE {})
       /\ Job(w, [eraser[w] EXCEPT !.at = at, !.offset = next])
  BY <1>3, <1>4, <1>5, <1>6, <1>7, <1>8, <1>9 DEF ScanLeads, Subject, InPlace, kept
<1>11. d \in ErasureRequests /\ msg[d] = "running" BY <1>3, <1>4, <1>10 DEF ErasureInv, Holding
<1>12. asked[d].kind = "developer" /\ k = {} /\ b = FALSE BY <1>1, <1>3, <1>4, <1>10 DEF Erasing
<1>13. PICK e : e = EraserAt(at, d, next, b, k) OBVIOUS
<1>14. [o EXCEPT !.at = at, !.offset = next] = e
  <2>1. PICK p : p = [o EXCEPT !.at = at] OBVIOUS
  <2>2. p = EraserAt(at, d, n, b, k) BY <1>2, <2>1 DEF EraserAt
  <2>3. [p EXCEPT !.offset = next] = e BY <1>13, <2>2 DEF EraserAt
  <2> QED BY <2>1, <2>3
<1>15. eraser' = [eraser EXCEPT ![w] = e] BY <1>3, <1>10, <1>14 DEF Job
<1>16. e.at = at /\ e.d = d /\ e.offset = next /\ e.more = b /\ e.keys = k BY <1>13 DEF EraserAt
<1>17. Erasing(e)
  <2>1. e = [at |-> e.at, d |-> e.d, offset |-> e.offset, more |-> e.more, keys |-> e.keys] BY <1>13, <1>16 DEF EraserAt
  <2> QED BY <1>1, <1>8, <1>9, <1>12, <1>16, <2>1 DEF Erasing
<1>18. IsTable(leads) BY DEF ErasureInv, ErasureTypes
<1>19. PICK z \in Nat : z = Len(leads) BY <1>18, LengthOf
<1>20. page = {i \in 1..z : i > n /\ i <= next} BY <1>3, <1>4, <1>5, <1>8, <1>19 DEF Page
<1>21. hits \in SUBSET (1..Len(leads)) BY <1>6, <1>19, <1>20
<1>22. PICK s : s = leads' OBVIOUS
<1>23. LeadsCleared(hits, s)
  <2>1. CASE s = InPlace(hits) BY <1>18, <1>21, <2>1, ClearedInPlace
  <2>2. CASE hits # {} /\ s = Without(leads, hits) \o RowsAt(InPlace(hits), hits)
    BY <1>18, <1>21, <2>2, ClearedAndMoved
  <2> QED BY <1>10, <1>22, <2>1, <2>2
<1>24. d \in shifted \/ \A i \in 1..z : i <= n => leads[i].developer # asked[d].subject
  BY <1>3, <1>4, <1>10, <1>12, <1>19 DEF Passed, GoesOn, NoneUpTo
<1>25. \A i \in 1..z : i > n /\ i <= next /\ i \notin hits => leads[i].developer # asked[d].subject BY <1>6, <1>20
<1>26. shifted \subseteq shifted' BY <1>10
<1>27. asked[d].subject # "none" BY <1>11, ErasureAssumption DEF ErasureInv, ErasureTypes
<1>28. Passed(e)'
  <2>1. CASE d \in shifted' BY <1>16, <2>1 DEF Passed
  <2>2. CASE d \notin shifted'
    <3>1. \A i \in 1..z : i <= next /\ i \notin hits => leads[i].developer # asked[d].subject
      <4>1. d \notin shifted BY <1>26, <2>2
      <4> QED BY <1>1, <1>24, <1>25, <4>1
    <3>2. CASE more
      <4>1. s = InPlace(hits) BY <1>10, <1>22, <2>2, <3>2
      <4>2. \A i \in 1..Len(s) : /\ i \in 1..Len(leads)
                                 /\ (i \notin hits /\ s[i] = leads[i]) \/ s[i].developer = "none"
        BY <1>18, <1>21, <4>1, ClearedInPlace
      <4>3. \A i \in 1..Len(s) : i <= next => s[i].developer # asked[d].subject BY <1>19, <1>27, <3>1, <4>2
      <4>4. NoneUpTo(d, next)' BY <1>10, <1>12, <1>22, <4>3 DEF NoneUpTo
      <4> QED BY <1>9, <1>16, <3>2, <4>4 DEF Passed, GoesOn, IsThrough
    <3>3. CASE ~more
      <4>1. z <= next BY <1>1, <1>7, <1>8, <1>20, <3>3, LastPageIs
      <4>2. \A i \in 1..z : i <= next BY <1>8, <4>1
      <4>3. \A j \in 1..Len(s) : s[j].developer # asked[d].subject
        BY <1>19, <1>23, <1>27, <3>1, <4>2 DEF LeadsCleared
      <4>4. ~Remains(d)' BY <1>10, <1>12, <1>22, <4>3 DEF Remains
      <4> QED BY <1>9, <1>16, <3>3, <4>4 DEF Passed, GoesOn, IsThrough
    <3> QED BY <3>2, <3>3
  <2> QED BY <2>1, <2>2
<1>29. ErasureTypes' BY <1>10, <1>15, <1>22, <1>23 DEF ErasureInv, ErasureTypes, LeadsCleared
<1>30. eraser[w].at # "idle" /\ e.d = eraser[w].d /\ msg'[e.d] = "running" BY <1>3, <1>4, <1>10, <1>11, <1>16
<1>31. \A c \in ErasureRequests : Remains(c)' => Remains(c)
  <2>1. UNCHANGED <<asked, surveys, redacted>> BY <1>10
  <2> QED BY <1>22, <1>23, <2>1, FewerLeads
<1>32. \/ \A m \in Nat : SameBefore(m, s)
       \/ /\ hits # {} /\ Overtaken("developer", First(hits), w) \subseteq shifted'
          /\ \A m \in Nat : (\A h \in hits : m < h) => SameBefore(m, s)
  <2>1. CASE s = InPlace(hits)
    <3>1. \A i \in 1..Len(s) : /\ i \in 1..Len(leads)
                               /\ (i \notin hits /\ s[i] = leads[i]) \/ s[i].developer = "none"
      BY <1>18, <1>21, <2>1, ClearedInPlace
    <3> QED BY <3>1 DEF SameBefore
  <2>2. CASE /\ hits # {} /\ s = Without(leads, hits) \o RowsAt(InPlace(hits), hits)
             /\ shifted' = shifted \cup Overtaken("developer", First(hits), w) \cup (IF more THEN {d} ELSE {})
    <3>1. \A m \in Nat : (\A h \in hits : m < h) =>
              \A i \in 1..Len(s) : i <= m => i \in 1..Len(leads) /\ s[i] = leads[i]
      BY <1>18, <1>21, <2>2, ClearedAndMoved
    <3> QED BY <2>2, <3>1 DEF SameBefore
  <2> QED BY <1>10, <1>22, <2>1, <2>2
<1>33. \A v \in EraseWorkers : v # w /\ GoesOn(eraser[v]) =>
          eraser[v].d \in shifted'
          \/ (NoneUpTo(eraser[v].d, eraser[v].offset) => NoneUpTo(eraser[v].d, eraser[v].offset)')
  <2> SUFFICES ASSUME NEW v \in EraseWorkers, v # w, GoesOn(eraser[v])
               PROVE eraser[v].d \in shifted'
                     \/ (NoneUpTo(eraser[v].d, eraser[v].offset) => NoneUpTo(eraser[v].d, eraser[v].offset)') OBVIOUS
  <2>1. eraser'[v] = eraser[v] BY <1>15 DEF ErasureInv, ErasureTypes
  <2>2. UNCHANGED <<asked, surveys>> BY <1>10
  <2> QED BY <1>21, <1>22, <1>26, <1>32, <2>1, <2>2, OthersScanLeads
<1>34. /\ photos' \cap Ids(surveys) \subseteq Ids(surveys)' \cup e.keys
       /\ photos' \cap eraser[w].keys \subseteq lostKeys' \cup e.keys
  BY <1>3, <1>4, <1>10, <1>12
<1>35. /\ photos' \subseteq photos /\ lostKeys \subseteq lostKeys' /\ asked' = asked
       /\ \A c \in erased' : c \in erased
       /\ \A c \in ErasureRequests : msg'[c] = msg[c]
  BY <1>10
<1> QED BY <1>15, <1>17, <1>26, <1>28, <1>29, <1>30, <1>31, <1>33, <1>34, <1>35, WorkerStep

\* Nothing happens at all.
LEMMA ErasureStutters == ErasureInv /\ UNCHANGED erasureVars => ErasureInv'
<1> SUFFICES ASSUME ErasureInv, UNCHANGED erasureVars PROVE ErasureInv' OBVIOUS
<1>1. UNCHANGED <<asked, dsr, msg, surveys, leads, photos, redacted, eraser, shifted, lostKeys, erased>>
  BY DEF erasureVars
<1>2. ErasureTypes' BY <1>1 DEF ErasureInv, ErasureTypes
<1>3. ASSUME NEW w \in EraseWorkers PROVE Erasing(eraser[w])' /\ Holding(w)' /\ Passed(eraser[w])'
  <2>1. Erasing(eraser[w]) /\ Holding(w) /\ Passed(eraser[w]) BY DEF ErasureInv
  <2>2. Erasing(eraser[w])' BY <1>1, <2>1 DEF Erasing
  <2>3. Holding(w)' BY <1>1, <2>1 DEF Holding
  <2>4. Passed(eraser[w])' BY <1>1, <2>1 DEF Passed, GoesOn, IsThrough, NoneUpTo, Remains
  <2> QED BY <2>2, <2>3, <2>4
<1>4. FulfilledIsErased' BY <1>1 DEF ErasureInv, FulfilledIsErased, Remains
<1>5. NoUnknownOrphan' BY <1>1 DEF ErasureInv, NoUnknownOrphan
<1> QED BY <1>2, <1>3, <1>4, <1>5 DEF ErasureInv

\* What the task reports as fulfilled is erased unless rows moved under its scan, and
\* nobody's photo is left without anybody who knows of it, for any requests, tables, batch
\* size, workers, errors and deaths (tasks/compliance_jobs.py).
THEOREM ErasuresAreAccounted == ErasureSpec => []ErasureHolds
<1>1. ErasureInv /\ [ErasureNext]_erasureVars => ErasureInv'
  <2> SUFFICES ASSUME ErasureInv, ErasureNext PROVE ErasureInv' BY ErasureStutters
  <2>1. ASSUME NEW d \in ErasureRequests, RequestErasure(d) \/ UpdateDsr(d) \/ SendTask(d) PROVE ErasureInv'
    BY <2>1, RequestStep
  <2>2. ASSUME NEW w \in EraseWorkers, NEW d \in ErasureRequests, TakeRequest(w, d) PROVE ErasureInv'
    BY <2>2, TakeStep
  <2>3. ASSUME NEW w \in EraseWorkers, EraseEnumerator(w) PROVE ErasureInv' BY <2>3, EnumeratorStep
  <2>4. ASSUME NEW w \in EraseWorkers, ScanSurveys(w) PROVE ErasureInv' BY <2>4, SurveyScanStep
  <2>5. ASSUME NEW w \in EraseWorkers, DeletePhoto(w) \/ PhotosDone(w) PROVE ErasureInv' BY <2>5, PhotoStep
  <2>6. ASSUME NEW w \in EraseWorkers, ScanLeads(w) PROVE ErasureInv' BY <2>6, LeadScanStep
  <2>7. ASSUME NEW w \in EraseWorkers, EraseUser(w) PROVE ErasureInv' BY <2>7, UserStep
  <2>8. ASSUME NEW w \in EraseWorkers, FinishErasure(w) PROVE ErasureInv' BY <2>8, FinishStep
  <2>9. ASSUME NEW w \in EraseWorkers, Acknowledge(w) \/ ErasureFails(w) \/ EraserDies(w) PROVE ErasureInv'
    BY <2>9, LeaveStep
  <2> QED BY <2>1, <2>2, <2>3, <2>4, <2>5, <2>6, <2>7, <2>8, <2>9 DEF ErasureNext, EraserStep
<1>2. ErasureInv => ErasureHolds BY DEF ErasureInv, ErasureHolds
<1> QED BY <1>1, <1>2, ErasureInitHolds, PTL DEF ErasureSpec
=============================================================================
