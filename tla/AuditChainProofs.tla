-------------------------- MODULE AuditChainProofs --------------------------
(***************************************************************************)
(* What the audit chain guarantees for any number of sessions, decisions   *)
(* and queue items, and any behaviour of the wall clock.                   *)
(***************************************************************************)
EXTENDS AuditChain, SetLemmas

-----------------------------------------------------------------------------
(* Lemmas about the operators. *)

\* A stamp is later than the tip it was computed from, and not before clock.
LEMMA StampIsLater ==
    ASSUME NEW t, \A r \in t : r.created_at \in Nat, clock \in Nat,
           \A r, s \in t : r = s
    PROVE  /\ Stamp(t) \in Nat
           /\ \A r \in t : r.created_at < Stamp(t)
<1>1. CASE \E r \in t : clock <= r.created_at
  <2>1. PICK r \in t : clock <= r.created_at
    BY <1>1
  <2>2. (CHOOSE s \in t : TRUE) = r
    <3>1. (CHOOSE s \in t : TRUE) \in t
      BY <2>1
    <3> QED BY <2>1, <3>1
  <2>3. Stamp(t) = r.created_at + 1
    BY <1>1, <2>2 DEF Stamp
  <2> QED BY <2>1, <2>3
<1>2. CASE ~ \E r \in t : clock <= r.created_at
  <2>1. Stamp(t) = clock
    BY <1>2 DEF Stamp
  <2> QED BY <1>2, <2>1
<1> QED BY <1>1, <1>2

\* LIMIT 1: the query returns at most one row.
LEMMA LatestIsUnique ==
    ASSUME NEW R, \A r \in R : r.created_at \in Nat /\ r.id \in Nat
    PROVE  \A r, s \in Latest(R) : r = s
  BY DEF Latest, Before

\* SET NULL changes the link of a row and nothing else.
LEMMA UnlinkKeeps ==
    ASSUME NEW i, NEW r \in Row
    PROVE  /\ Unlink(r, i).id = r.id
           /\ Unlink(r, i).created_at = r.created_at
           /\ Unlink(r, i).prev_hash = r.prev_hash
           /\ Unlink(r, i).record_hash = r.record_hash
           /\ Unlink(r, i) \in Row
  BY DEF Unlink, Row

-----------------------------------------------------------------------------
(* The inductive invariant behind PrevIsEarlier. *)

\* What a session has read is at most one row, which is still stored.
TipStored == \A w \in Workers :
    /\ \A t, u \in tip[w] : t = u
    /\ \A t \in tip[w] : \E s \in rows : /\ s.record_hash = t.record_hash
                                        /\ s.created_at = t.created_at

\* A session about to insert holds an id and a stamp later than its tip.
StampAfterTip == \A w \in Workers :
    /\ pc[w] # "idle" => ident[w] \in Ids
    /\ pc[w] = "locked" => \A t \in tip[w] : t.created_at < stamp[w]

ForestInv == TypeOK /\ TipStored /\ StampAfterTip /\ PrevIsEarlier

\* The initial state satisfies the invariant.
LEMMA ForestInit == Init => ForestInv
  BY ChainAssumption DEF Init, ForestInv, TypeOK, TipStored, StampAfterTip, PrevIsEarlier

\* ReadTip: the session's snapshot is a set of stored rows.
LEMMA ForestReadTip ==
    ASSUME ForestInv, NEW w \in Workers, NEW l \in Items \cup {NoItem}, NEW id \in Ids,
           ReadTip(w, l, id)
    PROVE  ForestInv'
<1> USE DEF ForestInv
<1>1. \A t \in Latest(rows) : t \in rows /\ t.id \in Ids /\ t.created_at \in Nat
  BY DEF Latest, TypeOK, Row
<1>2. \A t, u \in Latest(rows) : t = u
  <2>1. \A r \in rows : r.created_at \in Nat /\ r.id \in Nat
    BY ChainAssumption DEF TypeOK, Row
  <2> QED BY <2>1, LatestIsUnique
<1>3. TypeOK'
  <2>1. Latest(rows) \in SUBSET Row
    BY DEF Latest, TypeOK
  <2>2. Row' = Row
    BY DEF ReadTip, Row, Hashes
  <2> QED BY <2>1, <2>2 DEF TypeOK, ReadTip
<1>4. TipStored'
  BY <1>1, <1>2 DEF TipStored, ReadTip, TypeOK
<1>5. StampAfterTip'
  BY DEF StampAfterTip, ReadTip, TypeOK
<1>6. PrevIsEarlier'
  BY DEF PrevIsEarlier, ReadTip
<1> QED BY <1>3, <1>4, <1>5, <1>6

\* LockTip: the stamp is moved past the tip.
LEMMA ForestLockTip ==
    ASSUME ForestInv, NEW w \in Workers, LockTip(w)
    PROVE  ForestInv'
<1> USE DEF ForestInv
<1>1. /\ Stamp(tip[w]) \in Nat
      /\ \A t \in tip[w] : t.created_at < Stamp(tip[w])
  <2>1. clock \in Nat /\ \A t \in tip[w] : t.created_at \in Nat
    BY ChainAssumption DEF TypeOK, Row
  <2>2. \A t, u \in tip[w] : t = u
    BY DEF TipStored
  <2> QED BY <2>1, <2>2, StampIsLater
<1>2. TypeOK'
  <2>1. Row' = Row
    BY DEF LockTip, Row, Hashes
  <2> QED BY <1>1, <2>1 DEF TypeOK, LockTip
<1>3. TipStored'
  BY DEF TipStored, LockTip
<1>4. StampAfterTip'
  BY <1>1 DEF StampAfterTip, LockTip, TypeOK
<1>5. PrevIsEarlier'
  BY DEF PrevIsEarlier, LockTip
<1> QED BY <1>2, <1>3, <1>4, <1>5

\* The end of a transaction leaves the session's registers empty.
LEMMA EndTransactionResets ==
    ASSUME TypeOK, NEW w \in Workers, EndTransaction(w)
    PROVE  /\ pc' \in [Workers -> {"idle", "waiting", "locked"}]
           /\ link' \in [Workers -> Items \cup {NoItem}]
           /\ ident' \in [Workers -> Ids \cup {0}]
           /\ stamp' \in [Workers -> Nat]
           /\ pc'[w] = "idle"
           /\ \A v \in Workers : v # w => /\ pc'[v] = pc[v]
                                         /\ tip'[v] = tip[v]
                                         /\ ident'[v] = ident[v]
                                         /\ stamp'[v] = stamp[v]
           /\ tip'[w] = {}
           /\ tip' \in [Workers -> SUBSET Row]
  BY DEF EndTransaction, TypeOK

\* Append: the new row points at the stored tip, earlier than its stamp.
LEMMA ForestAppend ==
    ASSUME ForestInv, NEW w \in Workers, Append(w)
    PROVE  ForestInv'
<1> USE DEF ForestInv
<1>0. EndTransaction(w) /\ TypeOK
  BY DEF Append
<1>1. /\ NewRow(w).id = ident[w]
      /\ NewRow(w).created_at = stamp[w]
      /\ NewRow(w).prev_hash = Hashes(tip[w])
      /\ NewRow(w).link = link[w]
  BY DEF NewRow
<1>2. Hashes(tip[w]) \subseteq Hashes(rows) /\ Hashes(rows) \subseteq Hashes(rows')
  BY DEF TipStored, Hashes, Append
<1>3. NewRow(w).record_hash \in Hashes(rows')
  BY DEF Append, Hashes
<1>4. Row \subseteq Row'
  BY <1>2 DEF Row
<1>5. NewRow(w) \in Row'
  <2>1. ident[w] \in Ids /\ stamp[w] \in Nat /\ link[w] \in Items \cup {NoItem}
    BY DEF StampAfterTip, Append, TypeOK
  <2> QED BY <1>2, <1>3, <2>1 DEF NewRow, Row
<1>6. TypeOK'
  <2>1. rows' \subseteq Row'
    BY <1>4, <1>5 DEF TypeOK, Append
  <2>2. tip' \in [Workers -> SUBSET Row']
    BY <1>0, <1>4, EndTransactionResets
  <2> QED BY <1>0, <2>1, <2>2, EndTransactionResets DEF TypeOK, Append
<1>7. TipStored'
  BY <1>0, EndTransactionResets DEF TipStored, Append
<1>8. StampAfterTip'
  BY <1>0, EndTransactionResets DEF StampAfterTip
<1>9. PrevIsEarlier'
  <2>1. \A h \in NewRow(w).prev_hash :
           \E s \in rows : s.record_hash = h /\ s.created_at < NewRow(w).created_at
    BY <1>1 DEF TipStored, StampAfterTip, Append, Hashes
  <2> QED BY <2>1 DEF PrevIsEarlier, Append
<1> QED BY <1>6, <1>7, <1>8, <1>9

\* RejectAppend and Crash end the transaction and write nothing.
LEMMA ForestRollback ==
    ASSUME ForestInv, NEW w \in Workers, RejectAppend(w) \/ Crash(w)
    PROVE  ForestInv'
<1> USE DEF ForestInv
<1>1. EndTransaction(w) /\ TypeOK /\ UNCHANGED <<rows, items, clock, edited>>
  BY DEF RejectAppend, Crash
<1>2. Row' = Row
  BY <1>1 DEF Row, Hashes
<1>3. TypeOK'
  BY <1>1, <1>2, EndTransactionResets DEF TypeOK
<1>4. TipStored'
  BY <1>1, EndTransactionResets DEF TipStored
<1>5. StampAfterTip'
  BY <1>1, EndTransactionResets DEF StampAfterTip
<1>6. PrevIsEarlier'
  BY <1>1 DEF PrevIsEarlier
<1> QED BY <1>3, <1>4, <1>5, <1>6

\* DeleteItem: every row keeps its hash, its prev_hash and its place in time.
LEMMA ForestDeleteItem ==
    ASSUME ForestInv, NEW i \in Items, DeleteItem(i)
    PROVE  ForestInv'
<1> USE DEF ForestInv
<1>1. \A r \in rows : /\ Unlink(r, i) \in Row
                      /\ Unlink(r, i).created_at = r.created_at
                      /\ Unlink(r, i).prev_hash = r.prev_hash
                      /\ Unlink(r, i).record_hash = r.record_hash
  BY UnlinkKeeps DEF TypeOK
<1>2. rows' = {Unlink(r, i) : r \in rows}
  BY DEF DeleteItem
<1>3. Hashes(rows') = Hashes(rows)
  BY <1>1, <1>2 DEF Hashes
<1>4. Row' = Row
  BY <1>3 DEF Row
<1>5. TypeOK'
  <2>1. rows' \subseteq Row'
    BY <1>1, <1>2, <1>4
  <2>2. edited' \subseteq Ids
    BY DEF DeleteItem, TypeOK, Row
  <2> QED BY <1>4, <2>1, <2>2 DEF TypeOK, DeleteItem
<1>6. TipStored'
  BY <1>1, <1>2 DEF TipStored, DeleteItem
<1>7. StampAfterTip'
  BY DEF StampAfterTip, DeleteItem
<1>8. PrevIsEarlier'
  BY <1>1, <1>2 DEF PrevIsEarlier
<1> QED BY <1>5, <1>6, <1>7, <1>8

\* The steps that touch neither the table nor a session.
LEMMA ForestOther ==
    ASSUME ForestInv, StepClock \/ (\E i \in Items : CreateItem(i)) \/ UNCHANGED vars
    PROVE  ForestInv'
<1>1. UNCHANGED <<rows, pc, tip, link, ident, stamp, edited>>
  BY DEF StepClock, CreateItem, vars
<1>2. clock' \in 1..MaxClock /\ items' \in [Items -> {"absent", "live", "deleted"}]
  BY DEF ForestInv, TypeOK, StepClock, CreateItem, vars
<1>3. Row' = Row
  BY <1>1 DEF Row, Hashes
<1> QED BY <1>1, <1>2, <1>3 DEF ForestInv, TypeOK, TipStored, StampAfterTip, PrevIsEarlier

\* ForestInv is inductive.
LEMMA ForestStep == ForestInv /\ [Next]_vars => ForestInv'
<1> SUFFICES ASSUME ForestInv, [Next]_vars PROVE ForestInv'
  OBVIOUS
<1>1. CASE \E w \in Workers, l \in Items \cup {NoItem}, id \in Ids : ReadTip(w, l, id)
  BY <1>1, ForestReadTip
<1>2. CASE \E w \in Workers : LockTip(w)
  BY <1>2, ForestLockTip
<1>3. CASE \E w \in Workers : Append(w)
  BY <1>3, ForestAppend
<1>4. CASE \E w \in Workers : RejectAppend(w) \/ Crash(w)
  BY <1>4, ForestRollback
<1>5. CASE \E i \in Items : DeleteItem(i)
  BY <1>5, ForestDeleteItem
<1>6. CASE StepClock \/ (\E i \in Items : CreateItem(i)) \/ UNCHANGED vars
  BY <1>6, ForestOther
<1> QED BY <1>1, <1>2, <1>3, <1>4, <1>5, <1>6 DEF Next

\* The types of the table, the queue items and the sessions' registers.
THEOREM TypeCorrect == Spec => []TypeOK
<1>1. ForestInv => TypeOK
  BY DEF ForestInv
<1> QED BY <1>1, ForestInit, ForestStep, PTL DEF Spec

\* However many sessions append at once and however the clock is stepped, each
\* record's prev_hash is the hash of a stored record strictly earlier in time:
\* a race can fork the chain of record_decision but never loop or dangle it.
THEOREM PrevAlwaysEarlier == Spec => []PrevIsEarlier
<1>1. ForestInv => PrevIsEarlier
  BY DEF ForestInv
<1> QED BY <1>1, ForestInit, ForestStep, PTL DEF Spec

-----------------------------------------------------------------------------
(* One session: the chain is linear in the order verify_chain reads it.    *)

OneSession == \A v, w \in Workers : v = w

\* An active session holds a fresh id and has read the current last row.
TipCurrent == \A w \in Workers : pc[w] # "idle" =>
    /\ \A r \in rows : r.id # ident[w]
    /\ Hashes(tip[w]) = Hashes(Latest(rows))
    /\ \A r \in rows : \E t \in tip[w] : r.created_at <= t.created_at

RowsOrdered == /\ \A r, s \in rows : r.id = s.id => r = s
               /\ rows # {} => Latest(rows) # {}

LinearInv == ForestInv /\ RowsOrdered /\ TipCurrent /\ Linear

\* The initial state satisfies the invariant.
LEMMA LinearInit == Init => LinearInv
  BY ForestInit DEF Init, LinearInv, RowsOrdered, TipCurrent, Linear

\* ReadTip reads the last row, which is not earlier than any other.
LEMMA LinearReadTip ==
    ASSUME OneSession, LinearInv, NEW w \in Workers, NEW l \in Items \cup {NoItem},
           NEW id \in Ids, ReadTip(w, l, id)
    PROVE  LinearInv'
<1> USE DEF LinearInv
<1>1. ForestInv'
  BY ForestReadTip
<1>2. RowsOrdered' /\ Linear'
  BY DEF RowsOrdered, Linear, ReadTip, Latest, Predecessor
<1>3. \A r \in rows : \E t \in Latest(rows) : r.created_at <= t.created_at
  <2>1. \A r \in rows : r.created_at \in Nat
    BY DEF ForestInv, TypeOK, Row
  <2> QED BY <2>1 DEF RowsOrdered, Latest, Before
<1>4. ident'[w] = id /\ tip'[w] = Latest(rows) /\ rows' = rows
  BY DEF ReadTip, ForestInv, TypeOK
<1>5. \A r \in rows : r.id # id
  BY DEF ReadTip
<1>6. TipCurrent'
  BY <1>3, <1>4, <1>5 DEF TipCurrent, OneSession, Latest
<1> QED BY <1>1, <1>2, <1>6

\* Append puts the new row after all others, next to the last one.
LEMMA LinearAppend ==
    ASSUME OneSession, LinearInv, NEW w \in Workers, Append(w)
    PROVE  LinearInv'
<1> DEFINE n == NewRow(w)
<1> USE DEF LinearInv
<1>1. ForestInv'
  BY ForestAppend
<1>2. /\ n.id = ident[w]
      /\ n.created_at = stamp[w]
      /\ n.prev_hash = Hashes(tip[w])
      /\ rows' = rows \cup {n}
      /\ pc'[w] = "idle"
  BY EndTransactionResets DEF NewRow, Append, ForestInv
<1>3. /\ stamp[w] \in Nat
      /\ \A r \in rows : r.created_at \in Nat /\ r.created_at < stamp[w]
  BY DEF Append, ForestInv, TypeOK, Row, StampAfterTip, TipCurrent
<1>4. \A r \in rows : Before(r, n) /\ ~Before(n, r)
  BY <1>2, <1>3 DEF Before
<1>5. ~Before(n, n)
  <2>1. n.id \in Nat
    BY <1>2, ChainAssumption DEF Append, ForestInv, StampAfterTip
  <2> QED BY <1>2, <1>3, <2>1 DEF Before
<1>6. RowsOrdered'
  <2>1. \A r \in rows : r.id # n.id
    BY <1>2 DEF TipCurrent, Append
  <2>2. n \in Latest(rows')
    BY <1>2, <1>4 DEF Latest
  <2> QED BY <1>2, <2>1, <2>2 DEF RowsOrdered
<1>7. TipCurrent'
  BY <1>2 DEF TipCurrent, OneSession
<1>8. Linear'
  <2>1. {s \in rows' : Before(s, n)} = rows
    BY <1>2, <1>4, <1>5
  <2>2. \A r \in rows : {s \in rows' : Before(s, r)} = {s \in rows : Before(s, r)}
    BY <1>2, <1>4
  <2>3. n.prev_hash = Hashes(Latest(rows))
    BY <1>2 DEF TipCurrent, Append
  <2>4. \A r \in rows : r.prev_hash = Hashes(Latest({s \in rows : Before(s, r)}))
    BY DEF Linear, Predecessor
  <2>5. \A r \in rows' : r.prev_hash = Hashes(Latest({s \in rows' : Before(s, r)}))
    BY <1>2, <2>1, <2>2, <2>3, <2>4
  <2> QED BY <2>5 DEF Linear, Predecessor
<1> QED BY <1>1, <1>6, <1>7, <1>8

\* Steps that leave the table alone and start no session keep the invariant.
LEMMA LinearSameRows ==
    ASSUME OneSession, LinearInv, ForestInv', rows' = rows,
           \A w \in Workers : pc'[w] # "idle" =>
               pc[w] # "idle" /\ tip'[w] = tip[w] /\ ident'[w] = ident[w]
    PROVE  LinearInv'
<1>1. RowsOrdered' /\ Linear'
  BY DEF LinearInv, RowsOrdered, Linear, Latest, Predecessor
<1>2. TipCurrent'
  BY DEF LinearInv, TipCurrent, Latest
<1> QED BY <1>1, <1>2 DEF LinearInv

\* DeleteItem keeps ids, times and hashes, so neither the order nor the last
\* row's hash changes.
LEMMA LinearDeleteItem ==
    ASSUME LinearInv, NEW i \in Items, DeleteItem(i)
    PROVE  LinearInv'
<1> DEFINE U(r) == Unlink(r, i)
<1> USE DEF LinearInv
<1>1. ForestInv'
  BY ForestDeleteItem
<1>2. \A r \in rows : /\ U(r).id = r.id
                      /\ U(r).created_at = r.created_at
                      /\ U(r).prev_hash = r.prev_hash
                      /\ U(r).record_hash = r.record_hash
  BY UnlinkKeeps DEF ForestInv, TypeOK
<1>3. rows' = {U(r) : r \in rows} /\ UNCHANGED <<pc, tip, ident>>
  BY DEF DeleteItem
<1> HIDE DEF U
<1>4. \A r, s \in rows : /\ Before(U(s), U(r)) <=> Before(s, r)
                         /\ U(s) = U(r) <=> s = r
  BY <1>2 DEF Before, RowsOrdered
<1>5. ASSUME NEW R \in SUBSET rows
      PROVE  Hashes(Latest({U(r) : r \in R})) = Hashes(Latest(R))
  <2>1. Latest({U(r) : r \in R}) = {U(r) : r \in Latest(R)}
    BY <1>4, <1>5 DEF Latest
  <2>2. \A r \in Latest(R) : U(r).record_hash = r.record_hash
    BY <1>2, <1>5 DEF Latest
  <2>3. Hashes({U(r) : r \in Latest(R)}) = Hashes(Latest(R))
    BY <2>2 DEF Hashes
  <2> QED BY <2>1, <2>3
<1>6. RowsOrdered'
  <2>1. \A r, s \in rows' : r.id = s.id => r = s
    BY <1>2, <1>3 DEF RowsOrdered
  <2>2. ASSUME rows' # {} PROVE Latest(rows') # {}
    <3>1. PICK r \in rows : \A s \in rows : s = r \/ Before(s, r)
      BY <1>3, <2>2 DEF RowsOrdered, Latest
    <3>2. U(r) \in Latest(rows')
      BY <1>3, <1>4, <3>1 DEF Latest
    <3> QED BY <3>2
  <2> QED BY <2>1, <2>2 DEF RowsOrdered
<1>7. TipCurrent'
  <2>1. Hashes(Latest(rows')) = Hashes(Latest(rows))
    BY <1>3, <1>5
  <2> QED BY <1>2, <1>3, <2>1 DEF TipCurrent
<1>8. Linear'
  <2>1. ASSUME NEW r \in rows
        PROVE  U(r).prev_hash = Hashes(Latest({s \in rows' : Before(s, U(r))}))
    <3>1. {s \in rows' : Before(s, U(r))} = {U(s) : s \in {x \in rows : Before(x, r)}}
      BY <1>3, <1>4
    <3>2. Hashes(Latest({U(s) : s \in {x \in rows : Before(x, r)}}))
            = Hashes(Latest({x \in rows : Before(x, r)}))
      BY <1>5
    <3>3. r.prev_hash = Hashes(Latest({x \in rows : Before(x, r)}))
      BY DEF Linear, Predecessor
    <3> QED BY <1>2, <3>1, <3>2, <3>3
  <2>2. \A r \in rows' : r.prev_hash = Hashes(Latest({s \in rows' : Before(s, r)}))
    BY <1>3, <2>1
  <2> QED BY <2>2 DEF Linear, Predecessor
<1> QED BY <1>1, <1>6, <1>7, <1>8

\* LinearInv is inductive when there is one session.
LEMMA LinearStep == OneSession /\ LinearInv /\ [Next]_vars => LinearInv'
<1> SUFFICES ASSUME OneSession, LinearInv, [Next]_vars PROVE LinearInv'
  OBVIOUS
<1>0. ForestInv'
  BY ForestStep DEF LinearInv
<1>1. CASE \E w \in Workers, l \in Items \cup {NoItem}, id \in Ids : ReadTip(w, l, id)
  BY <1>1, LinearReadTip
<1>2. CASE \E w \in Workers : LockTip(w)
  <2>1. PICK w \in Workers : LockTip(w)
    BY <1>2
  <2> QED BY <1>0, <2>1, LinearSameRows DEF LockTip, OneSession
<1>3. CASE \E w \in Workers : Append(w)
  BY <1>3, LinearAppend
<1>4. CASE \E w \in Workers : RejectAppend(w) \/ Crash(w)
  <2>1. PICK w \in Workers : RejectAppend(w) \/ Crash(w)
    BY <1>4
  <2>2. rows' = rows /\ pc'[w] = "idle"
    BY <2>1, EndTransactionResets DEF RejectAppend, Crash, LinearInv, ForestInv
  <2> QED BY <1>0, <2>2, LinearSameRows DEF OneSession
<1>5. CASE \E i \in Items : DeleteItem(i)
  BY <1>5, LinearDeleteItem
<1>6. CASE StepClock \/ (\E i \in Items : CreateItem(i)) \/ UNCHANGED vars
  <2>1. UNCHANGED <<rows, pc, tip, ident>>
    BY <1>6 DEF StepClock, CreateItem, vars
  <2> QED BY <1>0, <2>1, LinearSameRows
<1> QED BY <1>1, <1>2, <1>3, <1>4, <1>5, <1>6 DEF Next

\* With one session record_decision keeps the chain linear, whatever the clock
\* does and whichever queue items are deleted: every record points at the one
\* verify_chain reads just before it.
THEOREM SerialChainIsLinear ==
    ASSUME OneSession
    PROVE  Spec => []Linear
<1>1. LinearInv => Linear
  BY DEF LinearInv
<1>2. LinearInv /\ [Next]_vars => LinearInv'
  BY LinearStep
<1> QED BY <1>1, <1>2, LinearInit, PTL DEF Spec

-----------------------------------------------------------------------------
(* Any number of sessions.  Whoever has read a tip appends next to the last row, or next *)
(* to a row that has a successor by then: the table is a line until it forks.            *)

\* Ids are given once, to a stored row or to one session.
IdsOnce ==
    /\ \A r, s \in rows : r.id = s.id => r = s
    /\ \A w \in Workers : pc[w] # "idle" =>
          /\ \A r \in rows : r.id # ident[w]
          /\ \A v \in Workers : pc[v] # "idle" /\ ident[v] = ident[w] => v = w

\* The hash of a row holds the fields it was stored with; a row was edited when its
\* link is not the one in its hash.
HashesSay ==
    /\ \A r \in rows : \E l \in Items \cup {NoItem} :
          /\ r.record_hash = <<r.id, r.created_at, r.prev_hash, l>>
          /\ r.id \in edited => r.link = NoItem /\ l # NoItem
          /\ r.id \notin edited => r.link = l
    /\ \A i \in edited : \E r \in rows : r.id = i

TipIsLast(w) == /\ Hashes(tip[w]) = Hashes(Latest(rows))
                /\ \A r \in rows : \E t \in tip[w] : r.created_at <= t.created_at

TipLastOrTaken == \A w \in Workers :
    pc[w] # "idle" => TipIsLast(w) \/ \E r \in rows : r.prev_hash = Hashes(tip[w])

SoundInv == /\ ForestInv /\ IsFiniteSet(rows) /\ IdsOnce /\ HashesSay
            /\ ~Forked => Linear /\ TipLastOrTaken

\* A finite set of rows that differ in their ids has a last one.
LEMMA LatestExists ==
    ASSUME NEW S, IsFiniteSet(S), S # {},
           \A r \in S : r.created_at \in Nat /\ r.id \in Nat,
           \A r, s \in S : r.id = s.id => r = s
    PROVE  Latest(S) # {}
<1> DEFINE C == {T \in SUBSET S : T # {} /\ Latest(T) = {}}
<1>0. C \subseteq SUBSET S OBVIOUS
<1>1. SUFFICES ASSUME C # {} PROVE FALSE OBVIOUS
<1> HIDE DEF C
<1>2. PICK T \in C : \A U \in C : U \subseteq T => U = T BY <1>0, <1>1, MinimalSubset
<1>3. T \subseteq S /\ T # {} /\ Latest(T) = {} BY <1>2 DEF C
<1>4. PICK x \in T : TRUE BY <1>3
<1>5. T \ {x} \notin C BY <1>2, <1>4
<1>6. T \ {x} = {} \/ Latest(T \ {x}) # {} BY <1>3, <1>5 DEF C
<1>7. CASE T \ {x} = {} BY <1>3, <1>4, <1>7 DEF Latest
<1>8. CASE Latest(T \ {x}) # {}
  <2>1. PICK y \in T \ {x} : \A s \in T \ {x} : s = y \/ Before(s, y) BY <1>8 DEF Latest
  <2>2. x \in S /\ y \in S /\ x.id # y.id BY <1>3, <1>4, <2>1
  <2>3. CASE Before(x, y)
    <3>1. y \in Latest(T) BY <2>1, <2>3 DEF Latest
    <3> QED BY <1>3, <3>1
  <2>4. CASE Before(y, x)
    <3>1. \A s \in T \ {x} : Before(s, x) BY <1>3, <1>4, <2>1, <2>4 DEF Before
    <3>2. x \in Latest(T) BY <1>4, <3>1 DEF Latest
    <3> QED BY <1>3, <3>2
  <2>5. Before(x, y) \/ Before(y, x) BY <2>2 DEF Before
  <2> QED BY <2>3, <2>4, <2>5
<1> QED BY <1>6, <1>7, <1>8

\* What the invariant says of single rows.
LEMMA ChainRows ==
    ASSUME SoundInv
    PROVE  /\ \A r \in rows : r.created_at \in Nat /\ r.id \in Nat /\ r.link \in Items \cup {NoItem}
           /\ \A r, s \in rows : r.id = s.id => r = s
           /\ \A r, s \in rows : r.record_hash = s.record_hash => r = s
           /\ \A r, s \in rows : Before(r, s) => ~Before(s, r) /\ r # s
           /\ \A r, s \in rows : r = s \/ Before(r, s) \/ Before(s, r)
<1>1. \A r \in rows : r.created_at \in Nat /\ r.id \in Nat /\ r.link \in Items \cup {NoItem}
  BY ChainAssumption DEF SoundInv, ForestInv, TypeOK, Row
<1>2. \A r, s \in rows : r.id = s.id => r = s BY DEF SoundInv, IdsOnce
<1>3. \A r, s \in rows : r.record_hash = s.record_hash => r = s
  <2>1. ASSUME NEW r \in rows, NEW s \in rows, r.record_hash = s.record_hash PROVE r.id = s.id
    <3>1. PICK l : r.record_hash = <<r.id, r.created_at, r.prev_hash, l>> BY DEF SoundInv, HashesSay
    <3>2. PICK m : s.record_hash = <<s.id, s.created_at, s.prev_hash, m>> BY DEF SoundInv, HashesSay
    <3>3. r.record_hash[1] = r.id /\ s.record_hash[1] = s.id BY <3>1, <3>2
    <3> QED BY <2>1, <3>3
  <2> QED BY <1>2, <2>1
<1>4. \A r, s \in rows : Before(r, s) => ~Before(s, r) /\ r # s BY <1>1 DEF Before
<1>5. \A r, s \in rows : r = s \/ Before(r, s) \/ Before(s, r) BY <1>1, <1>2 DEF Before
<1> QED BY <1>1, <1>2, <1>3, <1>4, <1>5

\* Every nonempty part of the table has a last row.
LEMMA PartHasLast ==
    ASSUME SoundInv, NEW S \in SUBSET rows, S # {}
    PROVE  \E t \in S : Latest(S) = {t} /\ \A s \in S : s = t \/ Before(s, t)
<1>1. IsFiniteSet(S) BY FS_Subset DEF SoundInv
<1>2. Latest(S) # {} BY <1>1, ChainRows, LatestExists
<1>3. PICK t \in S : \A s \in S : s = t \/ Before(s, t) BY <1>2 DEF Latest
<1>4. \A u \in Latest(S) : u = t BY <1>3, ChainRows DEF Latest
<1> QED BY <1>3, <1>4 DEF Latest

\* The empty table.
LEMMA SoundInit == Init => SoundInv
  BY ForestInit, FS_EmptySet DEF Init, SoundInv, IdsOnce, HashesSay, Forked, Linear, TipLastOrTaken

\* ReadTip reads the last row.
LEMMA SoundReadTip ==
    ASSUME SoundInv, NEW w \in Workers, NEW l \in Items \cup {NoItem}, NEW id \in Ids,
           ReadTip(w, l, id)
    PROVE  SoundInv'
<1>1. ForestInv' BY ForestReadTip DEF SoundInv
<1>2. UNCHANGED <<rows, edited>> BY DEF ReadTip
<1>3. /\ ident'[w] = id /\ tip'[w] = Latest(rows) /\ pc'[w] = "waiting"
      /\ \A v \in Workers \ {w} : ident'[v] = ident[v] /\ tip'[v] = tip[v] /\ pc'[v] = pc[v]
  BY DEF ReadTip, SoundInv, ForestInv, TypeOK
<1>4. (\A r \in rows : r.id # id) /\ (\A v \in Workers : ident[v] # id) BY DEF ReadTip
<1>5. IdsOnce' BY <1>2, <1>3, <1>4 DEF SoundInv, IdsOnce
<1>6. \A r \in rows : \E t \in Latest(rows) : r.created_at <= t.created_at
  <2>1. ASSUME NEW r \in rows PROVE \E t \in Latest(rows) : r.created_at <= t.created_at
    <3>1. PICK t \in rows : Latest(rows) = {t} /\ \A s \in rows : s = t \/ Before(s, t) BY PartHasLast
    <3>2. r.created_at <= t.created_at BY <3>1, ChainRows DEF Before
    <3> QED BY <3>1, <3>2
  <2> QED BY <2>1
<1>7. ~Forked => TipLastOrTaken'
  BY <1>2, <1>3, <1>6 DEF SoundInv, TipLastOrTaken, TipIsLast, Latest
<1>8. Forked' = Forked /\ Linear' = Linear BY <1>2 DEF Forked, Linear, Predecessor, Latest
<1> QED BY <1>1, <1>2, <1>5, <1>7, <1>8 DEF SoundInv, HashesSay

\* Steps that leave the table alone and start no session keep the invariant.
LEMMA SoundSameRows ==
    ASSUME SoundInv, ForestInv', UNCHANGED <<rows, edited>>,
           \A w \in Workers : pc'[w] # "idle" =>
               pc[w] # "idle" /\ tip'[w] = tip[w] /\ ident'[w] = ident[w]
    PROVE  SoundInv'
<1>1. IdsOnce' BY DEF SoundInv, IdsOnce
<1>2. Forked' = Forked /\ Linear' = Linear BY DEF Forked, Linear, Predecessor, Latest
<1>3. ~Forked => TipLastOrTaken' BY DEF SoundInv, TipLastOrTaken, TipIsLast, Latest
<1> QED BY <1>1, <1>2, <1>3 DEF SoundInv, HashesSay

\* Append puts the new row next to the last one, or the table has forked.
LEMMA SoundAppend ==
    ASSUME SoundInv, NEW w \in Workers, Append(w)
    PROVE  SoundInv'
<1> DEFINE n == NewRow(w)
<1>1. ForestInv' BY ForestAppend DEF SoundInv
<1>2. /\ n.id = ident[w] /\ n.created_at = stamp[w] /\ n.prev_hash = Hashes(tip[w]) /\ n.link = link[w]
      /\ n.record_hash = <<n.id, n.created_at, n.prev_hash, n.link>>
      /\ rows' = rows \cup {n} /\ UNCHANGED edited
      /\ pc[w] = "locked" /\ link[w] \in Items \cup {NoItem}
  BY DEF NewRow, HashOf, Append, Referable
<1>3. /\ pc'[w] = "idle"
      /\ \A v \in Workers : v # w => pc'[v] = pc[v] /\ tip'[v] = tip[v] /\ ident'[v] = ident[v]
  BY EndTransactionResets DEF Append, SoundInv, ForestInv
<1>4. ident[w] \in Nat /\ stamp[w] \in Nat /\ \A t \in tip[w] : t.created_at \in Nat /\ t.created_at < stamp[w]
  <2>1. ident[w] \in Ids /\ \A t \in tip[w] : t.created_at < stamp[w]
    BY <1>2 DEF SoundInv, ForestInv, StampAfterTip
  <2>2. stamp[w] \in Nat /\ tip[w] \subseteq Row BY DEF SoundInv, ForestInv, TypeOK
  <2>3. \A t \in tip[w] : t.created_at \in Nat BY <2>2 DEF Row
  <2> QED BY <2>1, <2>2, <2>3, ChainAssumption
<1>5. \A r \in rows : r.id # n.id BY <1>2 DEF SoundInv, IdsOnce
<1> HIDE DEF n
<1>6. IsFiniteSet(rows') BY <1>2, FS_AddElement DEF SoundInv
<1>7. IdsOnce'
  <2>1. \A r, s \in rows' : r.id = s.id => r = s BY <1>2, <1>5 DEF SoundInv, IdsOnce
  <2>2. ASSUME NEW v \in Workers, pc'[v] # "idle"
        PROVE  /\ \A r \in rows' : r.id # ident'[v]
               /\ \A u \in Workers : pc'[u] # "idle" /\ ident'[u] = ident'[v] => u = v
    <3>1. v # w /\ pc[v] # "idle" /\ ident'[v] = ident[v] BY <1>3, <2>2
    <3>2. ident[v] # ident[w] BY <1>2, <3>1 DEF SoundInv, IdsOnce
    <3>3. \A r \in rows' : r.id # ident'[v] BY <1>2, <3>1, <3>2 DEF SoundInv, IdsOnce
    <3>4. \A u \in Workers : pc'[u] # "idle" => u # w /\ pc[u] # "idle" /\ ident'[u] = ident[u] BY <1>3
    <3> QED BY <3>1, <3>3, <3>4 DEF SoundInv, IdsOnce
  <2> QED BY <2>1, <2>2 DEF IdsOnce
<1>8. HashesSay'
  <2>1. n.id \notin edited BY <1>5 DEF SoundInv, HashesSay
  <2>2. \E l \in Items \cup {NoItem} :
          /\ n.record_hash = <<n.id, n.created_at, n.prev_hash, l>>
          /\ n.id \in edited => n.link = NoItem /\ l # NoItem
          /\ n.id \notin edited => n.link = l
    BY <1>2, <2>1
  <2> QED BY <1>2, <2>2 DEF SoundInv, HashesSay
<1>9. ASSUME ~Forked' PROVE Linear' /\ TipLastOrTaken'
  <2>1. ~Forked BY <1>2, <1>9 DEF Forked
  <2>2. Linear /\ TipLastOrTaken BY <2>1 DEF SoundInv
  <2>3. \A r \in rows : r.prev_hash # Hashes(tip[w])
    BY <1>2, <1>5, <1>9 DEF Forked
  <2>4. TipIsLast(w) BY <1>2, <2>2, <2>3 DEF TipLastOrTaken
  <2>5. \A r \in rows : r.created_at \in Nat /\ r.created_at < n.created_at
    BY <1>2, <1>4, <2>4, ChainRows DEF TipIsLast
  <2>6. \A r \in rows : Before(r, n) /\ ~Before(n, r) BY <1>2, <1>4, <2>5 DEF Before
  <2>7. ~Before(n, n) BY <1>2, <1>4 DEF Before
  <2>8. Linear'
    <3>1. {s \in rows' : Before(s, n)} = rows BY <1>2, <2>6, <2>7
    <3>2. \A r \in rows : {s \in rows' : Before(s, r)} = {s \in rows : Before(s, r)} BY <1>2, <2>6
    <3>3. n.prev_hash = Hashes(Latest(rows)) BY <1>2, <2>4 DEF TipIsLast
    <3>4. \A r \in rows : r.prev_hash = Hashes(Latest({s \in rows : Before(s, r)}))
      BY <2>2 DEF Linear, Predecessor
    <3>5. \A r \in rows' : r.prev_hash = Hashes(Latest({s \in rows' : Before(s, r)}))
      BY <1>2, <3>1, <3>2, <3>3, <3>4
    <3> QED BY <3>5 DEF Linear, Predecessor
  <2>9. TipLastOrTaken'
    <3>1. ASSUME NEW v \in Workers, pc'[v] # "idle" PROVE \E r \in rows' : r.prev_hash = Hashes(tip'[v])
      <4>1. v # w /\ pc[v] # "idle" /\ tip'[v] = tip[v] BY <1>3, <3>1
      <4>2. CASE TipIsLast(v)
        <5>1. Hashes(tip[v]) = n.prev_hash BY <1>2, <2>4, <4>2 DEF TipIsLast
        <5> QED BY <1>2, <4>1, <5>1
      <4>3. CASE \E r \in rows : r.prev_hash = Hashes(tip[v]) BY <1>2, <4>1, <4>3
      <4> QED BY <2>2, <4>1, <4>2, <4>3 DEF TipLastOrTaken
    <3> QED BY <3>1 DEF TipLastOrTaken, Hashes
  <2> QED BY <2>8, <2>9
<1> QED BY <1>1, <1>6, <1>7, <1>8, <1>9 DEF SoundInv

\* DeleteItem keeps ids, times and hashes: only who was edited is known to have another link.
LEMMA SoundDeleteItem ==
    ASSUME SoundInv, NEW i \in Items, DeleteItem(i)
    PROVE  SoundInv'
<1> DEFINE U(r) == Unlink(r, i)
<1>1. ForestInv' BY ForestDeleteItem DEF SoundInv
<1>2. \A r \in rows : /\ U(r).id = r.id /\ U(r).created_at = r.created_at
                      /\ U(r).prev_hash = r.prev_hash /\ U(r).record_hash = r.record_hash
  BY UnlinkKeeps DEF SoundInv, ForestInv, TypeOK
<1>3. \A r \in rows : U(r).link = IF r.link = i THEN NoItem ELSE r.link
  <2>1. \A r \in rows : r \in Row BY DEF SoundInv, ForestInv, TypeOK
  <2> QED BY <2>1 DEF Unlink, Row
<1>4. /\ rows' = {U(r) : r \in rows} /\ UNCHANGED <<pc, tip, ident>>
      /\ edited' = edited \cup {r.id : r \in {x \in rows : x.link = i}}
  BY DEF DeleteItem
<1> HIDE DEF U
<1>5. \A r, s \in rows : (Before(U(s), U(r)) <=> Before(s, r)) /\ (U(s) = U(r) <=> s = r)
  BY <1>2, ChainRows DEF Before
<1>6. ASSUME NEW R \in SUBSET rows
      PROVE  Hashes(Latest({U(r) : r \in R})) = Hashes(Latest(R))
  <2>1. Latest({U(r) : r \in R}) = {U(r) : r \in Latest(R)} BY <1>5, <1>6 DEF Latest
  <2>2. \A r \in Latest(R) : U(r).record_hash = r.record_hash BY <1>2, <1>6 DEF Latest
  <2>3. Hashes({U(r) : r \in Latest(R)}) = Hashes(Latest(R)) BY <2>2 DEF Hashes
  <2> QED BY <2>1, <2>3
<1>7. IsFiniteSet(rows')
  <2> DEFINE u == [r \in rows |-> U(r)]
  <2>1. u \in Surjection(rows, rows') BY <1>4 DEF Surjection
  <2> QED BY <2>1, FS_Surjection DEF SoundInv
<1>8. IdsOnce' BY <1>2, <1>4 DEF SoundInv, IdsOnce
<1>9. HashesSay'
  <2>1. ASSUME NEW r \in rows
        PROVE  \E l \in Items \cup {NoItem} :
                  /\ U(r).record_hash = <<U(r).id, U(r).created_at, U(r).prev_hash, l>>
                  /\ U(r).id \in edited' => U(r).link = NoItem /\ l # NoItem
                  /\ U(r).id \notin edited' => U(r).link = l
    <3>1. PICK l \in Items \cup {NoItem} :
            /\ r.record_hash = <<r.id, r.created_at, r.prev_hash, l>>
            /\ r.id \in edited => r.link = NoItem /\ l # NoItem
            /\ r.id \notin edited => r.link = l
      BY DEF SoundInv, HashesSay
    <3>2. i # NoItem BY ChainAssumption
    <3>3. r.id \in edited' <=> r.id \in edited \/ r.link = i BY <1>4, ChainRows
    <3>4. r.id \in edited' => U(r).link = NoItem /\ l # NoItem BY <1>3, <3>1, <3>2, <3>3
    <3>5. r.id \notin edited' => U(r).link = l BY <1>3, <3>1, <3>3
    <3> QED BY <1>2, <3>1, <3>4, <3>5
  <2>2. \A j \in edited' : \E r \in rows' : r.id = j BY <1>2, <1>4 DEF SoundInv, HashesSay
  <2> QED BY <1>4, <2>1, <2>2 DEF HashesSay
<1>10. ASSUME ~Forked' PROVE Linear' /\ TipLastOrTaken'
  <2>1. ~Forked BY <1>2, <1>4, <1>5, <1>10 DEF Forked
  <2>2. Linear /\ TipLastOrTaken BY <2>1 DEF SoundInv
  <2>3. Linear'
    <3>1. ASSUME NEW r \in rows
          PROVE  U(r).prev_hash = Hashes(Latest({s \in rows' : Before(s, U(r))}))
      <4>1. {s \in rows' : Before(s, U(r))} = {U(s) : s \in {x \in rows : Before(x, r)}} BY <1>4, <1>5
      <4>2. Hashes(Latest({U(s) : s \in {x \in rows : Before(x, r)}}))
              = Hashes(Latest({x \in rows : Before(x, r)})) BY <1>6
      <4>3. r.prev_hash = Hashes(Latest({x \in rows : Before(x, r)})) BY <2>2 DEF Linear, Predecessor
      <4> QED BY <1>2, <4>1, <4>2, <4>3
    <3>2. \A r \in rows' : r.prev_hash = Hashes(Latest({s \in rows' : Before(s, r)})) BY <1>4, <3>1
    <3> QED BY <3>2 DEF Linear, Predecessor
  <2>4. TipLastOrTaken'
    <3>1. Hashes(Latest(rows')) = Hashes(Latest(rows)) BY <1>4, <1>6
    <3>2. \A v \in Workers : Hashes(tip'[v]) = Hashes(tip[v]) BY <1>4
    <3>3. ASSUME NEW v \in Workers, TipIsLast(v) PROVE TipIsLast(v)'
      <4>1. \A r \in rows' : \E t \in tip'[v] : r.created_at <= t.created_at
        BY <1>2, <1>4, <3>3 DEF TipIsLast
      <4> QED BY <1>4, <3>1, <3>3, <4>1 DEF TipIsLast, Hashes
    <3>4. ASSUME NEW v \in Workers, \E r \in rows : r.prev_hash = Hashes(tip[v])
          PROVE  \E r \in rows' : r.prev_hash = Hashes(tip'[v])
      BY <1>2, <1>4, <3>4
    <3> QED BY <1>4, <2>2, <3>3, <3>4 DEF TipLastOrTaken, Hashes
  <2> QED BY <2>3, <2>4
<1> QED BY <1>1, <1>7, <1>8, <1>9, <1>10 DEF SoundInv

\* SoundInv is inductive.
LEMMA SoundStep == SoundInv /\ [Next]_vars => SoundInv'
<1> SUFFICES ASSUME SoundInv, [Next]_vars PROVE SoundInv'
  OBVIOUS
<1>0. ForestInv' BY ForestStep DEF SoundInv
<1>1. CASE \E w \in Workers, l \in Items \cup {NoItem}, id \in Ids : ReadTip(w, l, id)
  BY <1>1, SoundReadTip
<1>2. CASE \E w \in Workers : LockTip(w)
  <2>1. PICK w \in Workers : LockTip(w) BY <1>2
  <2>2. UNCHANGED <<rows, edited, tip, ident>> /\ \A v \in Workers : pc'[v] # "idle" => pc[v] # "idle"
    BY <2>1 DEF LockTip, SoundInv, ForestInv, TypeOK
  <2> QED BY <1>0, <2>2, SoundSameRows
<1>3. CASE \E w \in Workers : Append(w)
  BY <1>3, SoundAppend
<1>4. CASE \E w \in Workers : RejectAppend(w) \/ Crash(w)
  <2>1. PICK w \in Workers : RejectAppend(w) \/ Crash(w) BY <1>4
  <2>2. /\ UNCHANGED <<rows, edited>> /\ pc'[w] = "idle"
        /\ \A v \in Workers : v # w => pc'[v] = pc[v] /\ tip'[v] = tip[v] /\ ident'[v] = ident[v]
    BY <2>1, EndTransactionResets DEF RejectAppend, Crash, SoundInv, ForestInv
  <2> QED BY <1>0, <2>2, SoundSameRows
<1>5. CASE \E i \in Items : DeleteItem(i)
  BY <1>5, SoundDeleteItem
<1>6. CASE StepClock \/ (\E i \in Items : CreateItem(i)) \/ UNCHANGED vars
  <2>1. UNCHANGED <<rows, edited, pc, tip, ident>> BY <1>6 DEF StepClock, CreateItem, vars
  <2> QED BY <1>0, <2>1, SoundSameRows
<1> QED BY <1>1, <1>2, <1>3, <1>4, <1>5, <1>6 DEF Next

\* In a line no two records share a predecessor.
LEMMA LinesDoNotFork == ASSUME SoundInv, Linear PROVE ~Forked
<1> SUFFICES ASSUME NEW r \in rows, NEW s \in rows, r # s, r.prev_hash = s.prev_hash PROVE FALSE
  BY DEF Forked
<1>1. ASSUME NEW a \in rows, NEW b \in rows, Before(a, b), a.prev_hash = b.prev_hash PROVE FALSE
  <2> DEFINE Below(x) == {y \in rows : Before(y, x)}
  <2>1. a.prev_hash = Hashes(Latest(Below(a))) /\ b.prev_hash = Hashes(Latest(Below(b)))
    BY DEF Linear, Predecessor
  <2>2. Below(b) \in SUBSET rows /\ a \in Below(b) BY <1>1
  <2>3. PICK t \in Below(b) : Latest(Below(b)) = {t} /\ \A y \in Below(b) : y = t \/ Before(y, t)
    BY <2>2, PartHasLast
  <2>4. t.record_hash \in Hashes(Latest(Below(a)))
    <3>1. t.record_hash \in Hashes({t}) BY DEF Hashes
    <3>2. Hashes(Latest(Below(a))) = Hashes({t}) BY <1>1, <2>1, <2>3
    <3> QED BY <3>1, <3>2
  <2>5. PICK q \in Below(a) : q.record_hash = t.record_hash BY <2>4 DEF Hashes, Latest
  <2>6. q = t BY <2>2, <2>3, <2>5, ChainRows
  <2>7. Before(t, a) /\ (a = t \/ Before(a, t)) /\ t \in rows BY <2>2, <2>3, <2>5, <2>6
  <2> QED BY <2>7, ChainRows
<1> QED BY <1>1, ChainRows

\* However many sessions append at once, whatever the clock does and whichever queue items
\* are deleted: as long as no two records share a predecessor the chain is the line that
\* verify_chain reads, and its verdict is exact, with the earliest edited record as the first
\* broken one (audit_chain.py).
THEOREM ChainsAreSound == Spec => []ChainIsSound
<1>1. SoundInv => ChainIsSound
  <2> SUFFICES ASSUME SoundInv PROVE ChainIsSound OBVIOUS
  <2>1. ~Forked => Linear BY DEF SoundInv
  <2>2. \A r \in rows : HashOf(r) = r.record_hash <=> r.id \notin edited
    <3>1. ASSUME NEW r \in rows PROVE HashOf(r) = r.record_hash <=> r.id \notin edited
      <4>1. PICK l \in Items \cup {NoItem} :
              /\ r.record_hash = <<r.id, r.created_at, r.prev_hash, l>>
              /\ r.id \in edited => r.link = NoItem /\ l # NoItem
              /\ r.id \notin edited => r.link = l
        BY DEF SoundInv, HashesSay
      <4>2. HashOf(r) = r.record_hash <=> r.link = l BY <4>1 DEF HashOf
      <4> QED BY <4>1, <4>2
    <3> QED BY <3>1
  <2>3. Linear => \A r \in rows : Broken(r) <=> r.id \in edited BY <2>2 DEF Broken, Linear
  <2>4. ChainValid => edited = {} /\ ~Forked
    <3>1. ASSUME ChainValid PROVE edited = {} /\ ~Forked
      <4>1. Linear /\ \A r \in rows : r.id \notin edited BY <2>2, <3>1 DEF ChainValid, Broken, Linear
      <4> QED BY <4>1, LinesDoNotFork DEF SoundInv, HashesSay
    <3> QED BY <3>1
  <2>5. edited = {} /\ ~Forked => ChainValid BY <2>1, <2>3 DEF ChainValid
  <2>6. ~Forked => \A r \in FirstBroken :
            r.id \in edited /\ \A s \in rows : Before(s, r) => s.id \notin edited
    BY <2>1, <2>3 DEF FirstBroken
  <2> QED BY <2>1, <2>4, <2>5, <2>6 DEF ChainIsSound, ChainLinear, VerdictExact
<1> QED BY <1>1, SoundInit, SoundStep, PTL DEF Spec

=============================================================================
