---------------------------- MODULE ReviewQueue ----------------------------
(***************************************************************************)
(* Human review items: resolve and assign (api/orchestrator.py,            *)
(* orchestrator/orchestrator.py), PATCH and DELETE (api/review_queue.py)   *)
(* and the hourly sweep that auto-approves stale items                     *)
(* (tasks/lifecycle_jobs.py).                                              *)
(*                                                                         *)
(* A session works on the copy of the item it loaded, and its UPDATE names *)
(* only the columns whose value differs from that copy.  A resolution is   *)
(* two commits: the item, then the decision record.  The clock counts      *)
(* half-days, so that the 24 hours of SLA_MAX_AGE are two ticks.           *)
(***************************************************************************)
EXTENDS Integers

CONSTANTS Items, Reviewers,
          Priorities,     \* priorities of the items created
          Verdicts,       \* decisions reviewers take
          Patched,        \* statuses operators write with PATCH
          MaxClock,       \* bound: half-days
          MaxCrashes      \* bound: sessions that die

SlaMaxAge == 2
Statuses == {"pending", "in_review", "resolved", "escalated"}

ASSUME QueueAssumption == /\ Verdicts \subseteq {"approve", "reject", "escalate"}
                          /\ Patched \subseteq Statuses /\ Priorities \subseteq 1..5
                          /\ {MaxClock, MaxCrashes} \subseteq Nat
                          /\ Items \cap {"idle", "next", "none"} = {}

VARIABLES item,       \* rows of human_review_queue
          log,        \* decisions recorded about each item
          clock,
          procStart,  \* when the process that creates items was started
          pc, task,   \* reviewers' requests
          sweepPc,    \* "idle", "next", or the item between the sweep's two commits
          work,       \* copies of the items the sweep has still to handle
          crashes,
          torn        \* history: items whose resolution died between its two commits

vars == <<item, log, clock, procStart, pc, task, sweepPc, work, crashes, torn>>

Absent == [row |-> "none", status |-> "pending", human |-> "none", priority |-> 3,
           created_at |-> 0]

NoTask == [item |-> "none", copy |-> Absent, verdict |-> "none"]
NoWork == [i \in {} |-> Absent]

Live(i) == item[i].row = "live"

Init == /\ item = [i \in Items |-> Absent]
        /\ log = [i \in Items |-> {}]
        /\ clock = 0 /\ procStart = 0
        /\ pc = [r \in Reviewers |-> "idle"]
        /\ task = [r \in Reviewers |-> NoTask]
        /\ sweepPc = "idle" /\ work = NoWork
        /\ crashes = 0 /\ torn = {}

Tick == /\ clock < MaxClock
        /\ clock' = clock + 1
        /\ UNCHANGED <<item, log, procStart, pc, task, sweepPc, work, crashes, torn>>

Restart == /\ procStart # clock
           /\ procStart' = clock
           /\ UNCHANGED <<item, log, clock, pc, task, sweepPc, work, crashes, torn>>

\* created_at is not passed: its default was evaluated when models.py was
\* imported (models.py:547).
Create(i, p) ==
    /\ item[i].row = "none"
    /\ item' = [item EXCEPT ![i] = [Absent EXCEPT !.row = "live", !.priority = p,
                                                  !.created_at = procStart]]
    /\ UNCHANGED <<log, clock, procStart, pc, task, sweepPc, work, crashes, torn>>

Age(row) == clock - row.created_at

-----------------------------------------------------------------------------
(* Resolutions *)

Action(verdict) == CASE verdict = "approve" -> "human_approved"
                     [] verdict = "reject" -> "human_rejected"
                     [] verdict = "escalate" -> "human_escalated"

StatusFor(verdict) == IF verdict = "approve" THEN "resolved" ELSE "escalated"

\* The UPDATE: a column is written when it differs from the loaded copy.
Flush(row, copy, verdict) ==
    [row EXCEPT !.status = IF copy.status = StatusFor(verdict) THEN @ ELSE StatusFor(verdict),
                !.human = IF copy.human = verdict THEN @ ELSE verdict]

Load(r, i, verdict) ==
    /\ pc[r] = "idle" /\ Live(i)
    /\ pc' = [pc EXCEPT ![r] = "loaded"]
    /\ task' = [task EXCEPT ![r] = [item |-> i, copy |-> item[i], verdict |-> verdict]]
    /\ UNCHANGED <<item, log, clock, procStart, sweepPc, work, crashes, torn>>

EndRequest(r) == /\ pc' = [pc EXCEPT ![r] = "idle"]
                 /\ task' = [task EXCEPT ![r] = NoTask]

\* _apply_human_review_resolution
Apply(r) ==
    LET t == task[r] IN
    /\ pc[r] = "loaded" /\ Live(t.item)
    /\ item' = [item EXCEPT ![t.item] = Flush(@, t.copy, t.verdict)]
    /\ pc' = [pc EXCEPT ![r] = "applied"]
    /\ UNCHANGED <<log, clock, procStart, task, sweepPc, work, crashes, torn>>

\* Slip: an item that has a decision gets no second one.
RecordOnce(r) ==
    LET i == task[r].item IN
    /\ pc[r] = "applied" /\ Live(i)
    /\ log' = [log EXCEPT ![i] = IF @ = {} THEN {Action(task[r].verdict)} ELSE @]
    /\ EndRequest(r)
    /\ UNCHANGED <<item, clock, procStart, sweepPc, work, crashes, torn>>

\* record_decision: a second transaction.
Record(r) ==
    LET i == task[r].item IN
    /\ pc[r] = "applied" /\ Live(i)
    /\ log' = [log EXCEPT ![i] = @ \cup {Action(task[r].verdict)}]
    /\ EndRequest(r)
    /\ UNCHANGED <<item, clock, procStart, sweepPc, work, crashes, torn>>

\* The row is gone: the UPDATE matches no row, the INSERT breaks its foreign key.
Fail(r) ==
    /\ pc[r] # "idle" /\ ~Live(task[r].item)
    /\ EndRequest(r)
    /\ UNCHANGED <<item, log, clock, procStart, sweepPc, work, crashes, torn>>

\* assign_review_item reads and writes under the row lock.
Assign(i) ==
    /\ Live(i)
    /\ item' = [item EXCEPT ![i].status = "in_review"]
    /\ UNCHANGED <<log, clock, procStart, pc, task, sweepPc, work, crashes, torn>>

PatchStatus(i, status) ==
    /\ Live(i)
    /\ item' = [item EXCEPT ![i].status = status]
    /\ UNCHANGED <<log, clock, procStart, pc, task, sweepPc, work, crashes, torn>>

Delete(i) ==
    /\ Live(i)
    /\ item' = [item EXCEPT ![i].row = "deleted"]
    /\ UNCHANGED <<log, clock, procStart, pc, task, sweepPc, work, crashes, torn>>

-----------------------------------------------------------------------------
(* human_review_sla_sweep and sla_auto_approve *)

\* Slip: the priority bound is exclusive.
DueBelowThree(row) == /\ row.row = "live" /\ row.status = "pending"
                      /\ row.priority < 3
                      /\ Age(row) >= SlaMaxAge

Due(row) == /\ row.row = "live" /\ row.status = "pending"
            /\ row.priority <= 3
            /\ Age(row) >= SlaMaxAge

SweepStart ==
    LET due == {i \in Items : Due(item[i])} IN
    /\ sweepPc = "idle" /\ due # {}
    /\ work' = [i \in due |-> item[i]]
    /\ sweepPc' = "next"
    /\ UNCHANGED <<item, log, clock, procStart, pc, task, crashes, torn>>

EndSweep == sweepPc' = "idle" /\ work' = NoWork

\* sla_auto_approve selects the item again, but the session already holds it:
\* its checks see the copy of the first query, which passes them.
SweepApply(i) ==
    /\ sweepPc = "next" /\ i \in DOMAIN work /\ Live(i)
    /\ work[i].status = "pending" /\ Age(work[i]) >= SlaMaxAge
    /\ item' = [item EXCEPT ![i] = Flush(@, work[i], "approve")]
    /\ sweepPc' = i
    /\ UNCHANGED <<log, clock, procStart, pc, task, work, crashes, torn>>

SweepRecord(i) ==
    /\ sweepPc = i /\ Live(i)
    /\ log' = [log EXCEPT ![i] = @ \cup {"sla_auto_approved"}]
    /\ IF DOMAIN work = {i}
       THEN EndSweep
       ELSE sweepPc' = "next" /\ work' = [j \in DOMAIN work \ {i} |-> work[j]]
    /\ UNCHANGED <<item, clock, procStart, pc, task, crashes, torn>>

\* One deleted item fails the whole sweep; a retry or the next beat starts over.
SweepFails(i) ==
    /\ \/ sweepPc = "next" /\ i \in DOMAIN work
       \/ sweepPc = i
    /\ ~Live(i)
    /\ EndSweep
    /\ UNCHANGED <<item, log, clock, procStart, pc, task, crashes, torn>>

RequestDies(r) ==
    /\ pc[r] # "idle" /\ crashes < MaxCrashes
    /\ crashes' = crashes + 1
    /\ torn' = IF pc[r] = "applied" THEN torn \cup {task[r].item} ELSE torn
    /\ EndRequest(r)
    /\ UNCHANGED <<item, log, clock, procStart, sweepPc, work>>

SweepDies ==
    /\ sweepPc # "idle" /\ crashes < MaxCrashes
    /\ crashes' = crashes + 1
    /\ torn' = torn \cup ({sweepPc} \cap Items)
    /\ EndSweep
    /\ UNCHANGED <<item, log, clock, procStart, pc, task>>

-----------------------------------------------------------------------------

Sweep == SweepStart \/ \E i \in Items : SweepApply(i) \/ SweepRecord(i) \/ SweepFails(i)

Finish(r) == Apply(r) \/ Record(r) \/ Fail(r)

Next == \/ Tick \/ Restart \/ Sweep \/ SweepDies
        \/ \E i \in Items :
              \/ \E p \in Priorities : Create(i, p)
              \/ \E r \in Reviewers, v \in Verdicts : Load(r, i, v)
              \/ Assign(i) \/ Delete(i)
              \/ \E s \in Patched : PatchStatus(i, s)
        \/ \E r \in Reviewers : Finish(r) \/ RequestDies(r)

Spec == Init /\ [][Next]_vars

\* Time passes, beat runs the sweep, and a request that has started goes on.
\* Nothing forces a reviewer to act.
Fairness == WF_vars(Tick) /\ WF_vars(Sweep) /\ \A r \in Reviewers : WF_vars(Finish(r))

FairSpec == Spec /\ Fairness

-----------------------------------------------------------------------------
(* Properties *)

\* resolve_human_review and sla_auto_approve, however their two commits
\* interleave: the decision an item shows is one the audit trail records for
\* it, unless the session that took it died before its second commit.
AuditExplains ==
    \A i \in Items :
        /\ Live(i) /\ item[i].human # "none" /\ i \notin torn
        /\ sweepPc # i
        /\ \A r \in Reviewers : pc[r] = "applied" => task[r].item # i
        => \/ Action(item[i].human) \in log[i]
           \/ item[i].human = "approve" /\ "sla_auto_approved" \in log[i]

\* human_review_sla_sweep: a pending item of priority 3 or less does not stay
\* pending, although reviewers do nothing, other items are deleted under the
\* sweep and sessions die.
PendingEnds ==
    \A i \in Items :
        /\ Live(i) /\ item[i].status = "pending" /\ item[i].priority <= 3
        /\ item[i].created_at + SlaMaxAge <= MaxClock
        ~> ~(Live(i) /\ item[i].status = "pending")

\* The docstring of sla_auto_approve (orchestrator.py:840): it approves pending
\* items, so it never overrides what a reviewer has decided.
SweepOnlyPending ==
    [][\A i \in Items : SweepApply(i) => item[i].status = "pending"]_vars

=============================================================================
