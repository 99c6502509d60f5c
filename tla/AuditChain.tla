----------------------------- MODULE AuditChain -----------------------------
(***************************************************************************)
(* The hash-chained table agent_decisions (orchestrator/audit_chain.py):   *)
(* record_decision run by concurrent database sessions, verify_chain, and  *)
(* the one API call that edits a committed record, the deletion of the     *)
(* review-queue item a decision refers to (foreign key ON DELETE SET NULL).*)
(*                                                                         *)
(* A SHA-256 hash is the tuple of the fields it covers (no collisions).    *)
(* A query with LIMIT 1 returns a set of at most one row; a nullable hash  *)
(* column is a set of at most one hash.  id stands for both the primary    *)
(* key, which breaks ties of created_at, and the public decision_id.       *)
(***************************************************************************)
EXTENDS Integers, FiniteSets

CONSTANTS Workers,   \* database sessions that append decisions
          Ids,       \* uuids of decisions, in their sort order
          Items,     \* review-queue items
          NoItem,    \* NULL in review_queue_item_id
          MaxClock   \* bound: readings of the wall clock are 1..MaxClock

ASSUME ChainAssumption == /\ Ids \subseteq Nat \ {0}
                          /\ NoItem \notin Items
                          /\ MaxClock \in Nat \ {0}

VARIABLES rows,    \* committed rows of agent_decisions
          items,   \* review-queue items: "absent", "live" or "deleted"
          clock,   \* wall clock, which NTP may step in either direction
          pc,      \* where each session is inside record_decision
          tip,     \* the chain tip each session has read
          link,    \* the queue item each session's decision refers to
          ident,   \* the uuid drawn for each session's decision, 0 for none
          stamp,   \* the created_at each session will write
          edited   \* history: ids of rows changed after their commit

vars == <<rows, items, clock, pc, tip, link, ident, stamp, edited>>

\* Slip: a nullable foreign key left out of the hashed fields.
HashWithoutLink(r) == <<r.id, r.created_at, r.prev_hash>>

\* hash_fields_for and compute_record_hash.
HashOf(r) == <<r.id, r.created_at, r.prev_hash, r.link>>

\* ORDER BY created_at, id.
Before(r, s) == \/ r.created_at < s.created_at
                \/ r.created_at = s.created_at /\ r.id < s.id

\* ORDER BY created_at DESC, id DESC LIMIT 1.
Latest(R) == {r \in R : \A s \in R : s = r \/ Before(s, r)}

Hashes(R) == {r.record_hash : r \in R}

\* Slip: the wall clock as it is.
ClockStamp(t) == clock

\* now, moved past the tip's created_at when the clock has not passed it.
Stamp(t) == IF \E r \in t : clock <= r.created_at
            THEN (CHOOSE r \in t : TRUE).created_at + 1
            ELSE clock

\* What the foreign key review_queue_item_id accepts.
Referable == {i \in Items : items[i] = "live"} \cup {NoItem}

\* Row locks taken by SELECT ... FOR UPDATE and held until commit.
Locked(w) == {r.id : r \in {x \in tip[w] : pc[w] = "locked"}}

-----------------------------------------------------------------------------

Init == /\ rows = {}
        /\ items = [i \in Items |-> "absent"]
        /\ clock = 1
        /\ pc = [w \in Workers |-> "idle"]
        /\ tip = [w \in Workers |-> {}]
        /\ link = [w \in Workers |-> NoItem]
        /\ ident = [w \in Workers |-> 0]
        /\ stamp = [w \in Workers |-> 0]
        /\ edited = {}

StepClock == /\ clock' \in 1..MaxClock
             /\ UNCHANGED <<rows, items, pc, tip, link, ident, stamp, edited>>

\* _create_human_review_item commits before the decision about it is recorded.
CreateItem(i) == /\ items[i] = "absent"
                 /\ items' = [items EXCEPT ![i] = "live"]
                 /\ UNCHANGED <<rows, clock, pc, tip, link, ident, stamp, edited>>

\* The SELECT takes its snapshot when it starts, before it waits for a lock.
ReadTip(w, l, id) ==
    /\ pc[w] = "idle"
    /\ l \in Referable
    /\ \A r \in rows : r.id # id
    /\ \A v \in Workers : ident[v] # id
    /\ pc' = [pc EXCEPT ![w] = "waiting"]
    /\ tip' = [tip EXCEPT ![w] = Latest(rows)]
    /\ link' = [link EXCEPT ![w] = l]
    /\ ident' = [ident EXCEPT ![w] = id]
    /\ UNCHANGED <<rows, items, clock, stamp, edited>>

\* READ COMMITTED: a waiter whose row was locked but not replaced gets the row
\* of its own snapshot, not a new tip.  An empty table has no row to lock.
LockTip(w) ==
    /\ pc[w] = "waiting"
    /\ \A v \in Workers \ {w} : Locked(v) \cap {r.id : r \in tip[w]} = {}
    /\ pc' = [pc EXCEPT ![w] = "locked"]
    /\ stamp' = [stamp EXCEPT ![w] = Stamp(tip[w])]
    /\ UNCHANGED <<rows, items, clock, tip, link, ident, edited>>

NewRow(w) ==
    LET fields == [id |-> ident[w], created_at |-> stamp[w],
                   prev_hash |-> Hashes(tip[w]), link |-> link[w]]
    IN  [id |-> fields.id, created_at |-> fields.created_at,
         prev_hash |-> fields.prev_hash, link |-> fields.link,
         record_hash |-> HashOf(fields)]

EndTransaction(w) == /\ pc' = [pc EXCEPT ![w] = "idle"]
                     /\ tip' = [tip EXCEPT ![w] = {}]
                     /\ link' = [link EXCEPT ![w] = NoItem]
                     /\ ident' = [ident EXCEPT ![w] = 0]
                     /\ stamp' = [stamp EXCEPT ![w] = 0]

\* INSERT and COMMIT.
Append(w) ==
    /\ pc[w] = "locked"
    /\ link[w] \in Referable
    /\ rows' = rows \cup {NewRow(w)}
    /\ EndTransaction(w)
    /\ UNCHANGED <<items, clock, edited>>

\* Slip: the failed INSERT leaves the session inside its transaction.
NoRollback(w) == FALSE

\* The foreign key of a decision whose queue item is gone fails the INSERT.
RejectAppend(w) ==
    /\ pc[w] = "locked"
    /\ link[w] \notin Referable
    /\ EndTransaction(w)
    /\ UNCHANGED <<rows, items, clock, edited>>

\* A crash or a lost connection rolls the transaction back.
Crash(w) ==
    /\ pc[w] # "idle"
    /\ EndTransaction(w)
    /\ UNCHANGED <<rows, items, clock, edited>>

\* ON DELETE SET NULL.
Unlink(r, i) == [r EXCEPT !.link = IF @ = i THEN NoItem ELSE @]

\* DELETE /review-queue/{id}, and in the same way DELETE /projects/{id} (project_id is hashed
\* and ON DELETE SET NULL too); SET NULL needs the row locks of the referrers.
DeleteItem(i) ==
    /\ items[i] = "live"
    /\ \A w \in Workers : \A r \in rows : r.link = i => r.id \notin Locked(w)
    /\ items' = [items EXCEPT ![i] = "deleted"]
    /\ rows' = {Unlink(r, i) : r \in rows}
    /\ edited' = edited \cup {r.id : r \in {x \in rows : x.link = i}}
    /\ UNCHANGED <<clock, pc, tip, link, ident, stamp>>

Next == \/ StepClock
        \/ \E i \in Items : CreateItem(i) \/ DeleteItem(i)
        \/ \E w \in Workers :
              \/ \E l \in Items \cup {NoItem} : \E id \in Ids : ReadTip(w, l, id)
              \/ LockTip(w)
              \/ Append(w)
              \/ RejectAppend(w)
              \/ Crash(w)

Spec == Init /\ [][Next]_vars

\* PostgreSQL queues the waiters of a row lock in order (SF); a session that
\* holds its lock goes on to commit or to fail (WF).
Fairness == \A w \in Workers :
               /\ SF_vars(LockTip(w))
               /\ WF_vars(Append(w) \/ RejectAppend(w))

FairSpec == Spec /\ Fairness

-----------------------------------------------------------------------------
(* verify_chain *)

Predecessor(r) == Latest({s \in rows : Before(s, r)})

\* One iteration of verify_chain's loop while the chain is still intact.
Broken(r) == \/ HashOf(r) # r.record_hash
             \/ r.prev_hash # Hashes(Predecessor(r))

ChainValid == \A r \in rows : ~Broken(r)

\* The record verify_chain reports as first_broken_id.
FirstBroken == {r \in rows : Broken(r) /\ \A s \in rows : Before(s, r) => ~Broken(s)}

-----------------------------------------------------------------------------
(* Properties *)

Row == [id : Ids, created_at : Nat, prev_hash : SUBSET Hashes(rows),
        link : Items \cup {NoItem}, record_hash : Hashes(rows)]

\* Types of all variables.
TypeOK == /\ rows \subseteq Row
          /\ items \in [Items -> {"absent", "live", "deleted"}]
          /\ clock \in 1..MaxClock
          /\ pc \in [Workers -> {"idle", "waiting", "locked"}]
          /\ tip \in [Workers -> SUBSET Row]
          /\ link \in [Workers -> Items \cup {NoItem}]
          /\ ident \in [Workers -> Ids \cup {0}]
          /\ stamp \in [Workers -> Nat]
          /\ edited \subseteq Ids

\* record_decision, sessions in any number, clock stepping either way: the
\* prev_hash of every record is the hash of a stored record that precedes it
\* strictly in created_at, so the records form a forest and no cycle.
PrevIsEarlier ==
    \A r \in rows : \A h \in r.prev_hash :
        \E s \in rows : s.record_hash = h /\ s.created_at < r.created_at

\* Every record points at the record just before it in the order verify_chain
\* reads them.
Linear == \A r \in rows : r.prev_hash = Hashes(Predecessor(r))

\* Two records chained to the same predecessor.
Forked == \E r, s \in rows : r # s /\ r.prev_hash = s.prev_hash

\* record_decision, any number of sessions: as long as no two records share a
\* predecessor, the chain is linear in the order verify_chain reads it, whatever
\* the clock did between the appends.
ChainLinear == ~Forked => Linear

\* verify_chain returns valid exactly for a table that nobody edited and that
\* did not fork, no false alarm and no missed edit; and as long as the chain has
\* not forked, first_broken_id is the earliest edited record.
VerdictExact ==
    /\ ChainValid <=> edited = {} /\ ~Forked
    /\ ~Forked => \A r \in FirstBroken : /\ r.id \in edited
                                        /\ \A s \in rows : Before(s, r) => s.id \notin edited

\* audit_chain.py: the chain is a line and verify_chain says so, as long as no two
\* sessions appended to one tip.
ChainIsSound == ChainLinear /\ VerdictExact

\* The comment in record_decision (audit_chain.py:93-97): two simultaneous
\* calls cannot both point at the same (existing) chain tip.
NoTipFork == \A r, s \in rows : r # s /\ r.prev_hash # {} => r.prev_hash # s.prev_hash

\* record_decision returns, committed or failed: a session never waits for the
\* chain tip for ever, whatever the other sessions and the deletions do.
AppendEnds == \A w \in Workers : pc[w] # "idle" ~> pc[w] = "idle"

=============================================================================
