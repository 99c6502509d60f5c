--------------------------- MODULE CommerceProofs ---------------------------
(***************************************************************************)
(* TradesHold of Brokerage and LeadsHold of LeadPipeline, for any values   *)
(* of the constants.  Reserved, the sum that Conserved speaks of, is a     *)
(* fold over a finite set: its laws come first.  Both invariants say what  *)
(* a process may rely on between the row it loaded and the row it writes:  *)
(* some facts for good, the others while nobody came in between.           *)
(***************************************************************************)
EXTENDS Brokerage, LeadPipeline, SetLemmas, SequenceTheorems

(************************ what is held *************************************)
\* The credits of the trades S of a table, as Reserved adds them up, and the recursive
\* function that MapThenSumSet uses for it.
Held(tr, S) == MapThenSumSet(LAMBDA t : tr[t].amount, S)

HeldAdds(tr, S, g) == g = [s \in SUBSET S |-> IF s = {} THEN 0
                                              ELSE tr[Pick(s)].amount + g[s \ {Pick(s)}]]

AmountsOf(tr, S) == [t \in S |-> tr[t].amount]

Amounted(tr, S) == \A t \in S : tr[t].amount \in Int

\* It is the sum of the amounts.
LEMMA HeldIs == ASSUME NEW tr, NEW S PROVE Held(tr, S) = Total(AmountsOf(tr, S), S)
<1> DEFINE f == AmountsOf(tr, S)
<1>1. \A s \in SUBSET S : s # {} => f[Pick(s)] = tr[Pick(s)].amount BY DEF AmountsOf, Pick
<1>2. \A g : HeldAdds(tr, S, g) <=> Adds(f, S, g)
  <2> SUFFICES ASSUME NEW g PROVE HeldAdds(tr, S, g) <=> Adds(f, S, g) OBVIOUS
  <2> HIDE DEF f
  <2>1. [s \in SUBSET S |-> IF s = {} THEN 0 ELSE tr[Pick(s)].amount + g[s \ {Pick(s)}]]
        = [s \in SUBSET S |-> IF s = {} THEN 0 ELSE f[Pick(s)] + g[s \ {Pick(s)}]]
    BY <1>1
  <2> QED BY <2>1 DEF HeldAdds, Adds
<1> HIDE DEF f
<1>3. (CHOOSE g : HeldAdds(tr, S, g)) = Adder(f, S) BY <1>2 DEF Adder
<1>4. Held(tr, S) = (CHOOSE g : HeldAdds(tr, S, g))[S]
  BY DEF Held, MapThenSumSet, MapThenFoldSet, HeldAdds, Pick
<1> QED BY <1>3, <1>4, TotalIs DEF f

\* The sum of integers is an integer, and that of nothing is zero.
LEMMA HeldType ==
    ASSUME NEW tr, NEW S, IsFiniteSet(S), Amounted(tr, S)
    PROVE  Held(tr, S) \in Int /\ Held(tr, {}) = 0
<1>1. Integral(AmountsOf(tr, S), S) BY DEF Integral, Amounted, AmountsOf
<1> QED BY <1>1, TotalType, TotalStep, HeldIs, FS_EmptySet

\* Only the amounts of the trades in the set matter.
LEMMA HeldSame ==
    ASSUME NEW tr, NEW ur, NEW S, IsFiniteSet(S), \A t \in S : tr[t].amount = ur[t].amount
    PROVE  Held(tr, S) = Held(ur, S)
<1>1. \A t \in S : AmountsOf(tr, S)[t] = AmountsOf(ur, S)[t] BY DEF AmountsOf
<1> HIDE DEF AmountsOf
<1> QED BY <1>1, TotalSame, HeldIs

\* The sum does not depend on the order.
LEMMA HeldAny ==
    ASSUME NEW tr, NEW S, IsFiniteSet(S), Amounted(tr, S), NEW x \in S
    PROVE  Held(tr, S) = tr[x].amount + Held(tr, S \ {x})
<1> DEFINE R == S \ {x}
<1>1. Integral(AmountsOf(tr, S), S) BY DEF Integral, Amounted, AmountsOf
<1>2. Held(tr, S) = AmountsOf(tr, S)[x] + Total(AmountsOf(tr, S), R) BY <1>1, TotalAny, HeldIs
<1>3. IsFiniteSet(R) BY FS_Subset
<1>4. \A t \in R : AmountsOf(tr, S)[t] = AmountsOf(tr, R)[t] BY DEF AmountsOf
<1>5. Total(AmountsOf(tr, S), R) = Held(tr, R) BY <1>3, <1>4, TotalSame, HeldIs
<1>6. AmountsOf(tr, S)[x] = tr[x].amount BY DEF AmountsOf
<1> QED BY <1>2, <1>5, <1>6

(************************ the invariant ************************************)
TradeRow == [status : {"pending", "confirmed", "completed", "cancelled"}, kind : Kinds,
             amount : Amounts, deposited : BOOLEAN, transferred : BOOLEAN, released : BOOLEAN]

CallType == [op : {"create"}, kind : Kinds, amount : Amounts, left : Int, stale : BOOLEAN]
    \cup [op : {"confirm", "execute", "transfer", "promise", "release"}, t : Trades, stale : BOOLEAN]
    \cup [op : {"settle"}, t : Trades, by : {"transfer", "release"}, already : BOOLEAN, stale : BOOLEAN]
    \cup [op : {"cancel"}, t : Trades, already : BOOLEAN, stale : BOOLEAN]
    \cup [op : {"restore"}, t : Trades, already : BOOLEAN, left : Int, seen : {"active", "sold"},
          stale : BOOLEAN]

BrokerTypes ==
    /\ available \in Int /\ listing \in {"active", "sold"} /\ raced \in BOOLEAN
    /\ trade \in [Trades -> TradeRow \cup {NoTrade}]
    /\ call \in [Requests -> CallType \cup {NoCall}]

\* What a request relies on, whoever has committed since it looked: rows stay, kinds stay,
\* a deposit and a confirmation are for good.
OnTrade(c) == c.op \notin {"idle", "create"}
Relies(c) ==
    /\ OnTrade(c) => Exists(c.t)
    /\ c.op \in {"transfer", "promise", "release", "settle"} => trade[c.t].kind = "escrow"
    /\ c.op = "transfer" \/ (c.op = "settle" /\ c.by = "transfer") => trade[c.t].deposited
    /\ c.op = "execute" => trade[c.t].kind = "spot" /\ c.t \in confirmed

\* What holds of its copies while nobody has committed since.
FreshCopies(c) ==
    /\ c.op = "create" => listing = "active" /\ c.left = available /\ c.amount <= available
    /\ c.op = "confirm" => trade[c.t].status = "pending"
    /\ c.op = "execute" => trade[c.t].status = "confirmed"
    /\ c.op = "settle" => (c.already <=> trade[c.t].status = "completed")
    /\ c.op \in {"cancel", "restore"} => /\ trade[c.t].status # "completed"
                                         /\ c.already <=> trade[c.t].status = "cancelled"
    /\ c.op = "restore" => c.left = available /\ c.seen = listing

ConfirmedAreKnown == \A t \in Trades :
    Exists(t) /\ trade[t].kind = "spot" /\ trade[t].status = "confirmed" => t \in confirmed

CopiesHold == ~raced => \A r \in Requests : call[r] # NoCall /\ ~call[r].stale => FreshCopies(call[r])

BrokerInv == /\ BrokerTypes
             /\ \A r \in Requests : Relies(call[r])
             /\ ConfirmedAreKnown /\ CopiesHold
             /\ ~raced => available >= 0
             /\ TradesHold

-----------------------------------------------------------------------------
(* What the trades reserve. *)

Live(tr) == {t \in Trades : tr[t].status # "none" /\ tr[t].status # "cancelled"}

TradeRows == [Trades -> TradeRow \cup {NoTrade}]

\* Reserved is such a sum, now and after a step.
LEMMA ReservedIs == Reserved = Held(trade, Live(trade)) /\ Reserved' = Held(trade', Live(trade'))
BY DEF Held, Reserved, MapThenSumSet, MapThenFoldSet, Live, Exists

\* The live trades are finitely many rows with positive amounts.
LEMMA LiveIs ==
    ASSUME NEW tr \in TradeRows
    PROVE  /\ IsFiniteSet(Live(tr)) /\ Live(tr) \subseteq Trades
           /\ \A t \in Live(tr) : tr[t] \in TradeRow /\ tr[t].amount \in Nat \ {0}
           /\ Amounted(tr, Live(tr)) /\ Held(tr, Live(tr)) \in Int
<1>1. Live(tr) \subseteq Trades BY DEF Live
<1>2. IsFiniteSet(Live(tr)) BY <1>1, FS_Subset, BrokerageAssumption
<1>3. ASSUME NEW t \in Live(tr) PROVE tr[t] \in TradeRow /\ tr[t].amount \in Nat \ {0}
  <2>1. tr[t] \in TradeRow BY DEF TradeRows, Live, NoTrade
  <2> QED BY <2>1, BrokerageAssumption DEF TradeRow
<1>4. Amounted(tr, Live(tr)) BY <1>3 DEF Amounted
<1> QED BY <1>1, <1>2, <1>3, <1>4, HeldType

\* Nothing that is live comes, goes or changes its amount.
LEMMA ReservedSame ==
    ASSUME trade \in TradeRows, Live(trade') = Live(trade),
           \A t \in Live(trade) : trade'[t].amount = trade[t].amount
    PROVE  Reserved' = Reserved
BY LiveIs, HeldSame, ReservedIs

\* A trade that is cancelled takes its amount out of the reserved credits.
LEMMA ReservedDrops ==
    ASSUME trade \in TradeRows, NEW x \in Live(trade), Live(trade') = Live(trade) \ {x},
           \A t \in Live(trade) \ {x} : trade'[t].amount = trade[t].amount
    PROVE  Reserved' = Reserved - trade[x].amount
<1> DEFINE L == Live(trade)
<1>1. Held(trade, L) = trade[x].amount + Held(trade, L \ {x}) BY LiveIs, HeldAny
<1>2. IsFiniteSet(L \ {x}) BY LiveIs, FS_Subset
<1>3. Held(trade, L \ {x}) = Held(trade', L \ {x}) BY <1>2, HeldSame
<1>4. Held(trade, L \ {x}) \in Int BY <1>2, HeldType, LiveIs DEF Amounted
<1>5. trade[x].amount \in Int BY LiveIs
<1> HIDE DEF L
<1> QED BY <1>1, <1>3, <1>4, <1>5, ReservedIs DEF L

\* A trade that becomes live adds its amount.
LEMMA ReservedGains ==
    ASSUME trade \in TradeRows, trade' \in TradeRows, NEW x, x \notin Live(trade),
           Live(trade') = Live(trade) \cup {x},
           \A t \in Live(trade) : trade'[t].amount = trade[t].amount
    PROVE  Reserved' = Reserved + trade'[x].amount
<1> DEFINE L == Live(trade')
<1>1. Held(trade', L) = trade'[x].amount + Held(trade', L \ {x}) BY LiveIs, HeldAny
<1>2. L \ {x} = Live(trade) OBVIOUS
<1>3. Held(trade, Live(trade)) = Held(trade', Live(trade)) BY LiveIs, HeldSame
<1>4. Held(trade, Live(trade)) \in Int /\ trade'[x].amount \in Int BY LiveIs
<1>5. Held(trade', L \ {x}) = Held(trade, Live(trade)) BY <1>2, <1>3
<1>6. Reserved' = Held(trade', L) /\ Reserved = Held(trade, Live(trade)) BY ReservedIs
<1> HIDE DEF L
<1> QED BY <1>1, <1>4, <1>5, <1>6

-----------------------------------------------------------------------------
(* The steps. *)

\* A listing without trades and requests is in order.
LEMMA InitInv == Init => BrokerInv
<1> SUFFICES ASSUME Init PROVE BrokerInv OBVIOUS
<1>1. trade \in TradeRows /\ Live(trade) = {} BY DEF Init, NoTrade, TradeRows, Live
<1>2. Reserved = 0 BY <1>1, ReservedIs, HeldType, FS_EmptySet DEF Amounted
<1>3. BrokerTypes
  <2>1. available \in Int /\ listing \in {"active", "sold"} BY BrokerageAssumption DEF Init
  <2>4. raced \in BOOLEAN BY DEF Init
  <2>2. call \in [Requests -> CallType \cup {NoCall}] BY DEF Init
  <2>3. trade \in [Trades -> TradeRow \cup {NoTrade}] BY DEF Init
  <2> QED BY <2>1, <2>2, <2>3, <2>4 DEF BrokerTypes
<1>4. Conserved BY <1>2, BrokerageAssumption DEF Conserved, Init
<1>5. PaidBeforeRelease /\ SpotNeedsConfirmation /\ EscrowFollowsTrade /\ ConfirmedAreKnown
  BY DEF Init, PaidBeforeRelease, SpotNeedsConfirmation, EscrowFollowsTrade, ConfirmedAreKnown,
         Escrowed, Exists, NoTrade
<1>6. \A r \in Requests : Relies(call[r]) BY DEF Init, Relies, OnTrade, NoCall
<1>7. CopiesHold /\ available >= 0 BY BrokerageAssumption DEF Init, CopiesHold
<1> QED BY <1>3, <1>4, <1>5, <1>6, <1>7 DEF BrokerInv, TradesHold

\* Nothing but the call of one request changes.
LEMMA CallInv ==
    ASSUME BrokerInv, NEW r \in Requests, NEW c \in CallType \cup {NoCall},
           call' = [call EXCEPT ![r] = c], UNCHANGED <<rows, history>>,
           Relies(c), ~raced /\ c # NoCall /\ ~c.stale => FreshCopies(c)
    PROVE  BrokerInv'
<1> USE DEF rows, history
<1>1. BrokerTypes' BY DEF BrokerInv, BrokerTypes
<1>2. \A q \in Requests : call'[q] = IF q = r THEN c ELSE call[q] BY DEF BrokerInv, BrokerTypes
<1>3. \A q \in Requests : Relies(call[q])' BY <1>2 DEF BrokerInv, Relies, Exists
<1>4. CopiesHold' BY <1>2 DEF BrokerInv, CopiesHold, FreshCopies
<1>5. (Conserved /\ PaidBeforeRelease /\ SpotNeedsConfirmation /\ EscrowFollowsTrade /\ ConfirmedAreKnown)'
  BY ReservedIs DEF BrokerInv, TradesHold, Conserved, PaidBeforeRelease, SpotNeedsConfirmation,
         EscrowFollowsTrade, ConfirmedAreKnown, Exists, Escrowed
<1> QED BY <1>1, <1>3, <1>4, <1>5 DEF BrokerInv, TradesHold

\* What every commit keeps of the rows others rely on.
KeepsRows ==
    /\ \A t \in Trades : Exists(t) =>
         /\ Exists(t)' /\ trade'[t].kind = trade[t].kind
         /\ trade[t].deposited => trade'[t].deposited
    /\ confirmed \subseteq confirmed'

\* What a commit that races, or leaves the trades alone, has to preserve.
LEMMA CommitInv ==
    ASSUME BrokerInv, NEW r \in Requests, NEW revived \in BOOLEAN, Commit(r, revived), KeepsRows,
           available' \in Int, listing' \in {"active", "sold"}, trade' \in TradeRows,
           call[r] \in CallType,
           ConfirmedAreKnown', ~raced' => available' >= 0, TradesHold'
    PROVE  BrokerInv'
<1>1. raced' \in BOOLEAN BY DEF Commit, BrokerInv, BrokerTypes, CallType
<1>2. ASSUME NEW q \in Requests
      PROVE  /\ call'[q] \in CallType \cup {NoCall}
             /\ call'[q] # NoCall =>
                  /\ call[q] \in CallType /\ call'[q].stale = ~raced'
                  /\ call'[q].op = call[q].op
                  /\ OnTrade(call[q]) => call'[q].t = call[q].t /\ call[q].t \in Trades
                  /\ call[q].op = "settle" => call'[q].by = call[q].by
  <2>1. call'[q] = IF q = r THEN NoCall ELSE Aged(call[q]) BY DEF Commit
  <2>2. call[q] \in CallType \cup {NoCall} BY DEF BrokerInv, BrokerTypes
  <2>3. CASE q = r \/ call[q] = NoCall BY <2>1, <2>3 DEF Aged
  <2>4. CASE q # r /\ call[q] # NoCall
    <3>1. call'[q] = [call[q] EXCEPT !.stale = ~raced'] /\ call[q] \in CallType
      BY <2>1, <2>2, <2>4 DEF Aged
    <3> QED BY <3>1, <1>1 DEF CallType, OnTrade
  <2> QED BY <2>3, <2>4
<1>3. BrokerTypes'
  <2>1. call' = [q \in Requests |-> call'[q]] BY DEF Commit
  <2> QED BY <1>1, <1>2, <2>1 DEF BrokerTypes, TradeRows
<1>4. ASSUME NEW q \in Requests PROVE Relies(call[q])'
  <2>1. Relies(call[q]) BY DEF BrokerInv
  <2>2. CASE call'[q] = NoCall BY <2>2 DEF Relies, OnTrade, NoCall
  <2>3. CASE call'[q] # NoCall
    <3>1. call[q] \in CallType /\ call'[q].op = call[q].op BY <1>2, <2>3
    <3>2. CASE ~OnTrade(call[q]) BY <3>1, <3>2 DEF Relies, OnTrade
    <3>3. CASE OnTrade(call[q])
      <4> DEFINE t == call[q].t
      <4>1. t \in Trades /\ call'[q].t = t /\ Exists(t) BY <1>2, <2>1, <2>3, <3>3 DEF Relies
      <4>2. call[q].op = "settle" => call'[q].by = call[q].by BY <1>2, <2>3
      <4>3. /\ trade'[t].status # "none" /\ trade'[t].kind = trade[t].kind
            /\ trade[t].deposited => trade'[t].deposited
            /\ t \in confirmed => t \in confirmed'
        BY <4>1 DEF KeepsRows, Exists
      <4> HIDE DEF t
      <4>4. call[q].t = t BY DEF t
      <4>5. Exists(call[q].t)' BY <4>1, <4>3 DEF Exists
      <4>6. call[q].op \in {"transfer", "promise", "release", "settle"} => trade'[t].kind = "escrow"
        BY <2>1, <4>3, <4>4 DEF Relies
      <4>7. call[q].op = "transfer" \/ (call[q].op = "settle" /\ call'[q].by = "transfer")
            => trade'[t].deposited
        BY <2>1, <4>2, <4>3, <4>4 DEF Relies
      <4>8. call[q].op = "execute" => trade'[t].kind = "spot" /\ t \in confirmed'
        BY <2>1, <4>3, <4>4 DEF Relies
      <4> QED BY <3>1, <4>1, <4>5, <4>6, <4>7, <4>8 DEF Relies, OnTrade
    <3> QED BY <3>2, <3>3
  <2> QED BY <2>2, <2>3
<1>5. CopiesHold' BY <1>2 DEF CopiesHold
<1> QED BY <1>3, <1>4, <1>5 DEF BrokerInv

\* Loading and validating changes no row: the copies are fresh.
LEMMA ReadsInv ==
    ASSUME BrokerInv, NEW r \in Requests,
           \/ \E kind \in Kinds, amount \in Amounts : CreateLoad(r, kind, amount)
           \/ \E t \in Trades : \/ ConfirmLoad(r, t) \/ ExecuteLoad(r, t) \/ TransferLoad(r, t)
                               \/ ReleaseLoad(r, t) \/ CancelLoad(r, t)
    PROVE  BrokerInv'
<1>1. ASSUME NEW kind \in Kinds, NEW amount \in Amounts, CreateLoad(r, kind, amount) PROVE BrokerInv'
  <2> DEFINE c == [op |-> "create", kind |-> kind, amount |-> amount, left |-> available,
                   stale |-> FALSE]
  <2>1. c \in CallType BY DEF CallType, BrokerInv, BrokerTypes
  <2>2. Relies(c) /\ FreshCopies(c) BY <1>1 DEF Relies, OnTrade, FreshCopies, CreateLoad, Sufficient
  <2> QED BY <1>1, <2>1, <2>2, CallInv DEF CreateLoad, Begin
<1>2. ASSUME NEW t \in Trades, NEW op \in {"confirm", "execute", "transfer", "promise", "release"},
             Begin(r, On(op, t)), UNCHANGED <<rows, history>>,
             Relies(On(op, t)), FreshCopies(On(op, t))
      PROVE  BrokerInv'
  <2>1. On(op, t) \in CallType BY DEF CallType, On
  <2> QED BY <1>2, <2>1, CallInv DEF Begin
<1> USE DEF Relies, FreshCopies, OnTrade, On
<1>3. ASSUME NEW t \in Trades, ConfirmLoad(r, t) PROVE BrokerInv'
  <2>1. Exists(t) BY <1>3 DEF ConfirmLoad, Exists
  <2> QED BY <1>2, <1>3, <2>1 DEF ConfirmLoad
<1>4. ASSUME NEW t \in Trades, ExecuteLoad(r, t) PROVE BrokerInv'
  <2>1. t \in confirmed BY <1>4 DEF BrokerInv, ConfirmedAreKnown, ExecuteLoad, Executable
  <2> QED BY <1>2, <1>4, <2>1 DEF ExecuteLoad, Executable
<1>5. ASSUME NEW t \in Trades, TransferLoad(r, t) PROVE BrokerInv'
  <2>1. CASE trade[t].deposited BY <1>2, <1>5, <2>1 DEF TransferLoad, Escrowed
  <2>2. CASE ~trade[t].deposited BY <1>2, <1>5, <2>2 DEF TransferLoad, Escrowed
  <2> QED BY <2>1, <2>2
<1>6. ASSUME NEW t \in Trades, ReleaseLoad(r, t) PROVE BrokerInv'
  BY <1>2, <1>6 DEF ReleaseLoad, Escrowed
<1>7. ASSUME NEW t \in Trades, CancelLoad(r, t) PROVE BrokerInv'
  <2> DEFINE c == [op |-> "cancel", t |-> t, already |-> trade[t].status = "cancelled", stale |-> FALSE]
  <2>1. c \in CallType BY DEF CallType
  <2>2. Relies(c) /\ FreshCopies(c) BY <1>7 DEF CancelLoad
  <2> QED BY <1>7, <2>1, <2>2, CallInv DEF CancelLoad, Begin
<1> QED BY <1>1, <1>3, <1>4, <1>5, <1>6, <1>7

\* The type of what a request has in hand, by its operation.
LEMMA CallIs ==
    ASSUME BrokerTypes, NEW r \in Requests
    PROVE  LET c == call[r] IN
           /\ c.op # "idle" => c \in CallType /\ c.stale \in BOOLEAN /\ c # NoCall
           /\ c.op = "create" => c.kind \in Kinds /\ c.amount \in Amounts /\ c.left \in Int
           /\ c.op \notin {"idle", "create"} => c.t \in Trades
           /\ c.op = "settle" => c.by \in {"transfer", "release"}
           /\ c.op \in {"settle", "cancel", "restore"} => c.already \in BOOLEAN
           /\ c.op = "restore" => c.left \in Int /\ c.seen \in {"active", "sold"}
<1>1. call[r] \in CallType \cup {NoCall} BY DEF BrokerTypes
<1> QED BY <1>1 DEF CallType, NoCall

\* The second SELECT of a request keeps what the first has found.
LEMMA RereadsInv ==
    ASSUME BrokerInv, NEW r \in Requests, SettleLoad(r) \/ CancelLoadListing(r)
    PROVE  BrokerInv'
<1> DEFINE c == call[r]
<1>1. Relies(c) /\ (~raced /\ c # NoCall /\ ~c.stale => FreshCopies(c)) BY DEF BrokerInv, CopiesHold
<1>2. ASSUME SettleLoad(r) PROVE BrokerInv'
  <2> DEFINE d == [op |-> "settle", t |-> c.t, by |-> c.op,
                   already |-> trade[c.t].status = "completed", stale |-> c.stale]
  <2>1. c.t \in Trades /\ c.stale \in BOOLEAN /\ c.op \in {"transfer", "release"}
    BY <1>2, CallIs DEF SettleLoad, BrokerInv
  <2>2. d \in CallType BY <2>1 DEF CallType
  <2>3. Relies(d) /\ FreshCopies(d) BY <1>1, <2>1 DEF Relies, OnTrade, FreshCopies
  <2> QED BY <1>2, <2>2, <2>3, CallInv DEF SettleLoad, Continue
<1>3. ASSUME CancelLoadListing(r) PROVE BrokerInv'
  <2> DEFINE d == [op |-> "restore", t |-> c.t, already |-> c.already,
                   left |-> available, seen |-> listing, stale |-> c.stale]
  <2>1. /\ c.t \in Trades /\ c.stale \in BOOLEAN /\ c.op = "cancel" /\ c.already \in BOOLEAN
        /\ c # NoCall
    BY <1>3, CallIs DEF CancelLoadListing, BrokerInv, At
  <2>2. d \in CallType BY <2>1 DEF CallType, BrokerInv, BrokerTypes
  <2>3. Relies(d) /\ (~raced /\ ~d.stale => FreshCopies(d)) BY <1>1, <2>1 DEF Relies, OnTrade, FreshCopies
  <2> QED BY <1>3, <2>2, <2>3, CallInv DEF CancelLoadListing, Continue
<1> QED BY <1>2, <1>3

\* A session that closes without a commit.
LEMMA AbortInv == ASSUME BrokerInv, NEW r \in Requests, Abort(r) PROVE BrokerInv'
<1>1. Relies(NoCall) BY DEF Relies, OnTrade, NoCall
<1> QED BY <1>1, CallInv DEF Abort

-----------------------------------------------------------------------------
(* The commits.  One that ends unraced has worked on what the rows hold. *)

\* While nobody has raced, the request that commits has fresh copies.
LEMMA Unraced ==
    ASSUME BrokerInv, NEW r \in Requests, NEW revived \in BOOLEAN, Commit(r, revived),
           call[r].op # "idle", ~raced'
    PROVE  ~raced /\ ~revived /\ FreshCopies(call[r])
BY CallIs DEF Commit, BrokerInv, CopiesHold, BrokerTypes

\* A row and what of it a step changes.
LEMMA RowIs ==
    ASSUME BrokerTypes, NEW t \in Trades
    PROVE  /\ Exists(t) => /\ trade[t] \in TradeRow /\ trade[t].amount \in Nat \ {0}
           /\ ~Exists(t) => trade[t] = NoTrade
<1>1. trade[t] \in TradeRow \cup {NoTrade} BY DEF BrokerTypes
<1>2. NoTrade.status = "none" BY DEF NoTrade
<1>3. Exists(t) => trade[t] \in TradeRow /\ trade[t].amount \in Amounts
  BY <1>1, <1>2 DEF Exists, TradeRow
<1>4. ASSUME trade[t] \in TradeRow PROVE Exists(t) BY <1>4 DEF Exists, TradeRow
<1> QED BY <1>1, <1>3, <1>4, BrokerageAssumption

\* create_transaction takes the amount out of the listing and adds a live trade.
LEMMA CreateInv == ASSUME BrokerInv, NEW r \in Requests, NEW t \in Trades, Create(r, t) PROVE BrokerInv'
<1> DEFINE c == call[r]
           row == NewTrade(c)
<1>1. BrokerTypes BY DEF BrokerInv
<1>2. c.op = "create" /\ c \in CallType /\ c.kind \in Kinds /\ c.amount \in Amounts /\ c.left \in Int
  BY <1>1, CallIs DEF Create, At
<1>3. c.amount \in Nat \ {0} BY <1>2, BrokerageAssumption
<1>4. /\ trade[t] = NoTrade /\ trade' = [trade EXCEPT ![t] = row]
      /\ available' = c.left - c.amount
      /\ listing' = IF c.left <= c.amount THEN "sold" ELSE listing
      /\ Commit(r, FALSE) /\ confirmed' = confirmed /\ overridden' = overridden
  BY <1>1, RowIs DEF Create
<1>5. row \in TradeRow /\ row.status = "pending" /\ row.amount = c.amount /\ ~row.released
  BY <1>2 DEF NewTrade, TradeRow
<1> HIDE DEF row
<1>6. \A s \in Trades : trade'[s] = IF s = t THEN row ELSE trade[s] BY <1>1, <1>4 DEF BrokerTypes
<1>7. trade' \in TradeRows /\ trade \in TradeRows BY <1>1, <1>4, <1>5 DEF BrokerTypes, TradeRows
<1>8. available' \in Int /\ listing' \in {"active", "sold"} BY <1>1, <1>2, <1>3, <1>4 DEF BrokerTypes
<1>9. KeepsRows BY <1>4, <1>6 DEF KeepsRows, Exists, NoTrade
<1>10. (ConfirmedAreKnown /\ PaidBeforeRelease /\ SpotNeedsConfirmation)'
  BY <1>4, <1>5, <1>6 DEF BrokerInv, TradesHold, ConfirmedAreKnown, PaidBeforeRelease,
     SpotNeedsConfirmation, Escrowed, Exists
<1>11. ASSUME ~raced' PROVE ~raced /\ FreshCopies(c) BY <1>2, <1>4, <1>11, Unraced
<1>12. EscrowFollowsTrade'
  BY <1>5, <1>6, <1>11 DEF BrokerInv, TradesHold, EscrowFollowsTrade, Escrowed, Exists
<1>13. Reserved' = Reserved + c.amount
  <2>1. t \notin Live(trade) /\ Live(trade') = Live(trade) \cup {t} BY <1>4, <1>5, <1>6 DEF Live, NoTrade
  <2>2. \A s \in Live(trade) : trade'[s].amount = trade[s].amount BY <1>6, <2>1 DEF Live
  <2>3. trade'[t].amount = c.amount BY <1>5, <1>6
  <2> QED BY <1>7, <2>1, <2>2, <2>3, ReservedGains
<1>14. Reserved \in Int BY <1>7, LiveIs, ReservedIs
<1>15. ASSUME ~raced' PROVE Conserved' /\ available' >= 0
  <2>1. available + Reserved = Listed /\ c.left = available /\ c.amount <= available /\ listing = "active"
    BY <1>2, <1>11, <1>15 DEF BrokerInv, TradesHold, Conserved, FreshCopies
  <2> QED BY <1>1, <1>3, <1>4, <1>13, <1>14, <2>1, BrokerageAssumption DEF Conserved, BrokerTypes
<1>16. Conserved' BY <1>15 DEF Conserved
<1> QED BY <1>2, <1>4, <1>7, <1>8, <1>9, <1>10, <1>12, <1>15, <1>16, CommitInv DEF TradesHold

\* A commit that writes a status or a flag of one trade and leaves it live, if it was.
LEMMA RowInv ==
    ASSUME BrokerInv, NEW r \in Requests, NEW revived \in BOOLEAN, Commit(r, revived),
           call[r].op # "idle", NEW t \in Trades, NEW row \in TradeRow, Exists(t),
           trade' = [trade EXCEPT ![t] = row], UNCHANGED <<available, listing>>,
           row.kind = trade[t].kind, row.amount = trade[t].amount,
           trade[t].deposited => row.deposited,
           confirmed \subseteq confirmed', overridden \subseteq overridden',
           row.kind = "spot" /\ row.status \in {"confirmed", "completed"} => t \in confirmed',
           row.kind = "escrow" /\ row.released /\ t \notin overridden' =>
               row.deposited /\ row.transferred,
           ~raced' => /\ row.status = "cancelled" <=> trade[t].status = "cancelled"
                      /\ row.kind = "escrow" => (row.released <=> row.status = "completed")
    PROVE  BrokerInv'
<1>1. BrokerTypes BY DEF BrokerInv
<1>2. call[r] \in CallType BY <1>1, CallIs
<1>3. \A s \in Trades : trade'[s] = IF s = t THEN row ELSE trade[s] BY <1>1 DEF BrokerTypes
<1>4. trade' \in TradeRows /\ trade \in TradeRows BY <1>1 DEF BrokerTypes, TradeRows
<1>5. available' \in Int /\ listing' \in {"active", "sold"} BY <1>1 DEF BrokerTypes
<1>6. row.status # "none" BY DEF TradeRow
<1>7. KeepsRows BY <1>3, <1>6 DEF KeepsRows, Exists
<1>8. ConfirmedAreKnown' /\ SpotNeedsConfirmation'
  BY <1>3 DEF BrokerInv, TradesHold, ConfirmedAreKnown, SpotNeedsConfirmation, Exists
<1>9. PaidBeforeRelease'
  BY <1>3 DEF BrokerInv, TradesHold, PaidBeforeRelease, Escrowed, Exists
<1>10. ASSUME ~raced' PROVE ~raced BY <1>10, Unraced
<1>11. EscrowFollowsTrade' BY <1>3, <1>10 DEF BrokerInv, TradesHold, EscrowFollowsTrade, Escrowed, Exists
<1>12. ASSUME ~raced' PROVE Reserved' = Reserved
  <2>1. Live(trade') = Live(trade) BY <1>3, <1>6, <1>12 DEF Live, Exists
  <2>2. \A s \in Live(trade) : trade'[s].amount = trade[s].amount BY <1>3 DEF Live
  <2> QED BY <1>4, <2>1, <2>2, ReservedSame
<1>13. ASSUME ~raced' PROVE Conserved' /\ available' >= 0
  BY <1>10, <1>12, <1>13 DEF BrokerInv, TradesHold, Conserved
<1>14. Conserved' BY <1>13 DEF Conserved
<1> QED BY <1>2, <1>4, <1>5, <1>7, <1>8, <1>9, <1>11, <1>13, <1>14, CommitInv DEF TradesHold

\* confirm_transaction of a pending trade.
LEMMA ConfirmInv == ASSUME BrokerInv, NEW r \in Requests, Confirm(r) PROVE BrokerInv'
<1> DEFINE t == call[r].t
           row == [trade[t] EXCEPT !.status = "confirmed"]
<1>1. BrokerTypes /\ Relies(call[r]) /\ call[r].op = "confirm" /\ t \in Trades
  BY CallIs DEF BrokerInv, Confirm, At
<1>2. Exists(t) /\ trade[t] \in TradeRow BY <1>1, RowIs DEF Relies, OnTrade
<1>3. /\ row \in TradeRow /\ row.kind = trade[t].kind /\ row.amount = trade[t].amount
      /\ row.deposited = trade[t].deposited /\ row.transferred = trade[t].transferred
      /\ row.released = trade[t].released /\ row.status = "confirmed"
  BY <1>2 DEF TradeRow
<1>4. /\ trade' = [trade EXCEPT ![t] = row] /\ Commit(r, FALSE) /\ overridden' = overridden
      /\ available' = available /\ listing' = listing
      /\ confirmed' = IF trade[t].kind = "spot" THEN confirmed \cup {t} ELSE confirmed
  BY DEF Confirm
<1>5. trade[t].kind = "escrow" /\ trade[t].released /\ t \notin overridden =>
         trade[t].deposited /\ trade[t].transferred
  BY <1>1, <1>2 DEF BrokerInv, TradesHold, PaidBeforeRelease, Escrowed
<1>6. ASSUME ~raced' PROVE trade[t].status # "cancelled" /\ (trade[t].kind = "escrow" => ~trade[t].released)
  <2>1. ~raced /\ trade[t].status = "pending" BY <1>1, <1>4, <1>6, Unraced DEF FreshCopies
  <2> QED BY <1>1, <1>2, <2>1 DEF BrokerInv, TradesHold, EscrowFollowsTrade, Escrowed
<1> HIDE DEF row, t
<1> QED BY <1>1, <1>2, <1>3, <1>4, <1>5, <1>6, RowInv

\* execute_spot_trade of a confirmed trade.
LEMMA ExecuteInv == ASSUME BrokerInv, NEW r \in Requests, Execute(r) PROVE BrokerInv'
<1> DEFINE t == call[r].t
           row == [trade[t] EXCEPT !.status = "completed"]
<1>1. BrokerTypes /\ Relies(call[r]) /\ call[r].op = "execute" /\ t \in Trades
  BY CallIs DEF BrokerInv, Execute, At
<1>2. Exists(t) /\ trade[t] \in TradeRow /\ trade[t].kind = "spot" /\ t \in confirmed
  BY <1>1, RowIs DEF Relies, OnTrade
<1>3. /\ row \in TradeRow /\ row.kind = trade[t].kind /\ row.amount = trade[t].amount
      /\ row.deposited = trade[t].deposited /\ row.status = "completed"
  BY <1>2 DEF TradeRow
<1>4. /\ trade' = [trade EXCEPT ![t] = row] /\ Commit(r, FALSE) /\ overridden' = overridden
      /\ available' = available /\ listing' = listing /\ confirmed' = confirmed
  BY DEF Execute
<1>5. ASSUME ~raced' PROVE trade[t].status # "cancelled"
  BY <1>1, <1>4, <1>5, Unraced DEF FreshCopies
<1> HIDE DEF row, t
<1> QED BY <1>1, <1>2, <1>3, <1>4, <1>5, RowInv

\* confirm_credit_transfer of a deposited escrow.
LEMMA PromiseInv == ASSUME BrokerInv, NEW r \in Requests, Promise(r) PROVE BrokerInv'
<1> DEFINE t == call[r].t
           row == [trade[t] EXCEPT !.transferred = TRUE]
<1>1. BrokerTypes /\ Relies(call[r]) /\ call[r].op = "promise" /\ t \in Trades
  BY CallIs DEF BrokerInv, Promise, At
<1>2. Exists(t) /\ trade[t] \in TradeRow /\ trade[t].kind = "escrow"
  BY <1>1, RowIs DEF Relies, OnTrade
<1>3. /\ row \in TradeRow /\ row.kind = trade[t].kind /\ row.amount = trade[t].amount
      /\ row.deposited = trade[t].deposited /\ row.status = trade[t].status
      /\ row.released = trade[t].released /\ row.transferred
  BY <1>2 DEF TradeRow
<1>4. /\ trade' = [trade EXCEPT ![t] = row] /\ Commit(r, FALSE) /\ overridden' = overridden
      /\ available' = available /\ listing' = listing /\ confirmed' = confirmed
  BY DEF Promise
<1>5. trade[t].released /\ t \notin overridden => trade[t].deposited
  BY <1>1, <1>2 DEF BrokerInv, TradesHold, PaidBeforeRelease, Escrowed
<1>6. ASSUME ~raced' PROVE trade[t].released <=> trade[t].status = "completed"
  <2>1. ~raced BY <1>1, <1>4, <1>6, Unraced
  <2> QED BY <1>1, <1>2, <2>1 DEF BrokerInv, TradesHold, EscrowFollowsTrade, Escrowed
<1> HIDE DEF row, t
<1> QED BY <1>1, <1>2, <1>3, <1>4, <1>5, <1>6, RowInv

\* The release of an escrow completes its trade.
LEMMA SettleInv == ASSUME BrokerInv, NEW r \in Requests, Settle(r) PROVE BrokerInv'
<1> DEFINE c == call[r]
           t == c.t
           revived == trade[t].status = "cancelled"
           row == [trade[t] EXCEPT !.released = TRUE, !.transferred = @ \/ c.by = "transfer",
                                   !.status = IF c.already THEN @ ELSE "completed"]
<1>1. /\ BrokerTypes /\ Relies(c) /\ c.op = "settle" /\ t \in Trades
      /\ c.by \in {"transfer", "release"} /\ c.already \in BOOLEAN
  BY CallIs DEF BrokerInv, Settle, At
<1>2. Exists(t) /\ trade[t] \in TradeRow /\ trade[t].kind = "escrow"
  BY <1>1, RowIs DEF Relies, OnTrade
<1>3. /\ row \in TradeRow /\ row.kind = trade[t].kind /\ row.amount = trade[t].amount
      /\ row.deposited = trade[t].deposited /\ row.released
      /\ row.transferred = (trade[t].transferred \/ c.by = "transfer")
      /\ row.status = IF c.already THEN trade[t].status ELSE "completed"
  BY <1>2 DEF TradeRow
<1>4. trade' = [trade EXCEPT ![t] = row]
  <2>1. trade' = [trade EXCEPT ![t].released = TRUE, ![t].transferred = @ \/ c.by = "transfer",
                               ![t].status = IF c.already THEN @ ELSE "completed"]
    BY DEF Settle
  <2> QED BY <1>1, <2>1 DEF BrokerTypes
<1>5. /\ Commit(r, revived) /\ revived \in BOOLEAN /\ available' = available /\ listing' = listing
      /\ confirmed' = confirmed
      /\ overridden' = IF c.by = "release" THEN overridden \cup {t} ELSE overridden
  BY DEF Settle
<1>6. c.by = "transfer" => trade[t].deposited BY <1>1 DEF Relies
<1>7. ASSUME ~raced' PROVE row.status = "completed" /\ trade[t].status # "cancelled"
  BY <1>1, <1>3, <1>5, <1>7, Unraced DEF FreshCopies
<1> HIDE DEF row, t, c, revived
<1>8. row.kind # "spot" BY <1>2, <1>3
<1> QED BY <1>1, <1>2, <1>3, <1>4, <1>5, <1>6, <1>7, <1>8, RowInv DEF c

\* The credits of a trade return to the listing.
\* cancel_transaction gives the amount back to the listing.
LEMMA CancelInv == ASSUME BrokerInv, NEW r \in Requests, Cancel(r) PROVE BrokerInv'
<1> DEFINE c == call[r]
           t == c.t
           row == [trade[t] EXCEPT !.status = IF c.already THEN @ ELSE "cancelled"]
<1>1. /\ BrokerTypes /\ Relies(c) /\ c.op = "restore" /\ t \in Trades /\ c \in CallType
      /\ c.already \in BOOLEAN /\ c.left \in Int /\ c.seen \in {"active", "sold"}
  BY CallIs DEF BrokerInv, Cancel, At
<1>2. Exists(t) /\ trade[t] \in TradeRow /\ trade[t].amount \in Nat \ {0}
  BY <1>1, RowIs DEF Relies, OnTrade
<1>3. /\ row \in TradeRow /\ row.kind = trade[t].kind /\ row.amount = trade[t].amount
      /\ row.deposited = trade[t].deposited /\ row.transferred = trade[t].transferred
      /\ row.released = trade[t].released
      /\ row.status = IF c.already THEN trade[t].status ELSE "cancelled"
  BY <1>2 DEF TradeRow
<1>4. /\ trade' = [trade EXCEPT ![t] = row] /\ Commit(r, c.already)
      /\ available' = c.left + trade[t].amount
      /\ listing' = IF c.seen = "sold" THEN "active" ELSE listing
      /\ confirmed' = confirmed /\ overridden' = overridden
  BY DEF Cancel, Reopen
<1> HIDE DEF row
<1>5. \A s \in Trades : trade'[s] = IF s = t THEN row ELSE trade[s] BY <1>1, <1>4 DEF BrokerTypes
<1>6. trade' \in TradeRows /\ trade \in TradeRows BY <1>1, <1>3, <1>4 DEF BrokerTypes, TradeRows
<1>7. available' \in Int /\ listing' \in {"active", "sold"} BY <1>1, <1>2, <1>4 DEF BrokerTypes
<1>8. row.status # "none" BY <1>3 DEF TradeRow
<1>9. KeepsRows BY <1>3, <1>4, <1>5, <1>8 DEF KeepsRows, Exists
<1>10. (ConfirmedAreKnown /\ SpotNeedsConfirmation)'
  BY <1>2, <1>3, <1>4, <1>5 DEF BrokerInv, TradesHold, ConfirmedAreKnown, SpotNeedsConfirmation, Exists
<1>11. PaidBeforeRelease'
  BY <1>2, <1>3, <1>4, <1>5 DEF BrokerInv, TradesHold, PaidBeforeRelease, Escrowed, Exists
<1>12. ASSUME ~raced' PROVE ~raced /\ ~c.already /\ FreshCopies(c) BY <1>1, <1>4, <1>12, Unraced
<1>13. EscrowFollowsTrade'
  BY <1>1, <1>2, <1>3, <1>5, <1>12
  DEF BrokerInv, TradesHold, EscrowFollowsTrade, Escrowed, Exists, FreshCopies
<1>14. ASSUME ~raced' PROVE Reserved' = Reserved - trade[t].amount
  <2>1. trade[t].status # "cancelled" /\ row.status = "cancelled" BY <1>1, <1>3, <1>12, <1>14 DEF FreshCopies
  <2>2. t \in Live(trade) /\ Live(trade') = Live(trade) \ {t} BY <1>1, <1>2, <1>5, <2>1 DEF Live, Exists
  <2>3. \A s \in Live(trade) \ {t} : trade'[s].amount = trade[s].amount BY <1>5 DEF Live
  <2> QED BY <1>6, <2>2, <2>3, ReservedDrops
<1>15. Reserved \in Int BY <1>6, LiveIs, ReservedIs
<1>16. ASSUME ~raced' PROVE Conserved' /\ available' >= 0
  <2>1. /\ available + Reserved = Listed /\ available >= 0 /\ listing \in {"active", "sold"}
        /\ c.left = available /\ c.seen = listing
    BY <1>1, <1>12, <1>16 DEF BrokerInv, TradesHold, Conserved, FreshCopies, BrokerTypes
  <2> QED BY <1>1, <1>2, <1>4, <1>14, <1>15, <1>16, <2>1, BrokerageAssumption DEF Conserved, BrokerTypes
<1>17. Conserved' BY <1>16 DEF Conserved
<1> QED BY <1>1, <1>4, <1>6, <1>7, <1>9, <1>10, <1>11, <1>13, <1>16, <1>17, CommitInv DEF TradesHold

\* deposit_escrow in one commit.
LEMMA DepositInv == ASSUME BrokerInv, NEW t \in Trades, Deposit(t) PROVE BrokerInv'
<1> DEFINE row == [trade[t] EXCEPT !.deposited = TRUE]
<1> USE DEF Deposit, history
<1>1. BrokerTypes BY DEF BrokerInv
<1>2. Exists(t) /\ trade[t] \in TradeRow /\ trade[t].kind = "escrow" BY <1>1, RowIs DEF Escrowed
<1>3. /\ row \in TradeRow /\ row.kind = trade[t].kind /\ row.amount = trade[t].amount
      /\ row.deposited /\ row.transferred = trade[t].transferred
      /\ row.released = trade[t].released /\ row.status = trade[t].status
  BY <1>2 DEF TradeRow
<1>4. \A s \in Trades : trade'[s] = IF s = t THEN row ELSE trade[s] BY <1>1 DEF BrokerTypes
<1>5. trade' \in TradeRows /\ trade \in TradeRows BY <1>1, <1>3 DEF BrokerTypes, TradeRows
<1> HIDE DEF row
<1>6. /\ \A s \in Trades : /\ trade'[s].kind = trade[s].kind /\ trade'[s].status = trade[s].status
                           /\ trade'[s].amount = trade[s].amount
                           /\ trade'[s].released = trade[s].released
                           /\ trade'[s].transferred = trade[s].transferred
                           /\ trade[s].deposited => trade'[s].deposited
  BY <1>3, <1>4
<1>7. BrokerTypes' BY <1>1, <1>5 DEF BrokerTypes, TradeRows
<1>8. ASSUME NEW r \in Requests PROVE Relies(call[r])'
  BY <1>1, <1>6, CallIs DEF BrokerInv, Relies, OnTrade, Exists
<1>9. CopiesHold' BY <1>1, <1>6, CallIs DEF BrokerInv, CopiesHold, FreshCopies
<1>10. Reserved' = Reserved
  <2>1. Live(trade') = Live(trade) BY <1>6 DEF Live
  <2> QED BY <1>5, <1>6, <2>1, ReservedSame DEF Live
<1>11. Conserved' BY <1>10 DEF BrokerInv, TradesHold, Conserved
<1>12. (ConfirmedAreKnown /\ SpotNeedsConfirmation /\ PaidBeforeRelease /\ EscrowFollowsTrade)'
  BY <1>6 DEF BrokerInv, TradesHold, ConfirmedAreKnown, SpotNeedsConfirmation, PaidBeforeRelease,
     EscrowFollowsTrade, Escrowed, Exists
<1> QED BY <1>7, <1>8, <1>9, <1>11, <1>12 DEF BrokerInv, TradesHold

-----------------------------------------------------------------------------

\* Every step preserves the invariant.
LEMMA NextInv == BrokerInv /\ [Next]_vars => BrokerInv'
<1> SUFFICES ASSUME BrokerInv, [Next]_vars PROVE BrokerInv' OBVIOUS
<1>1. ASSUME NEW t \in Trades, Deposit(t) PROVE BrokerInv' BY <1>1, DepositInv
<1>2. ASSUME NEW r \in Requests,
             \/ \E kind \in Kinds, amount \in Amounts : CreateLoad(r, kind, amount)
             \/ \E t \in Trades : \/ ConfirmLoad(r, t) \/ ExecuteLoad(r, t) \/ TransferLoad(r, t)
                                 \/ ReleaseLoad(r, t) \/ CancelLoad(r, t)
      PROVE BrokerInv'
  BY <1>2, ReadsInv
<1>3. ASSUME NEW r \in Requests, SettleLoad(r) \/ CancelLoadListing(r) PROVE BrokerInv'
  BY <1>3, RereadsInv
<1>4. ASSUME NEW r \in Requests, NEW t \in Trades, Create(r, t) PROVE BrokerInv' BY <1>4, CreateInv
<1>5. ASSUME NEW r \in Requests, Confirm(r) \/ Execute(r) \/ Promise(r) PROVE BrokerInv'
  BY <1>5, ConfirmInv, ExecuteInv, PromiseInv
<1>6. ASSUME NEW r \in Requests, Settle(r) \/ Cancel(r) PROVE BrokerInv' BY <1>6, SettleInv, CancelInv
<1>7. ASSUME NEW r \in Requests, Abort(r) PROVE BrokerInv' BY <1>7, AbortInv
<1>8. CASE UNCHANGED vars
  BY <1>8, ReservedIs DEF vars, BrokerInv, BrokerTypes, Relies, OnTrade, Exists, ConfirmedAreKnown, CopiesHold,
     FreshCopies, TradesHold, Conserved, PaidBeforeRelease, SpotNeedsConfirmation,
     EscrowFollowsTrade, Escrowed
<1> QED BY <1>1, <1>2, <1>3, <1>4, <1>5, <1>6, <1>7, <1>8 DEF Next

\* transaction_engine.py: whatever requests run beside each other, credits are conserved
\* and an escrow follows its trade as long as no commit used old copies; and in every
\* race, no payment is released before deposit and transfer unless an operator does it,
\* and no spot trade is completed that was not confirmed.
THEOREM TradesAreSafe == Spec => []TradesHold
<1>1. BrokerInv => TradesHold BY DEF BrokerInv
<1> QED BY InitInv, NextInv, <1>1, PTL DEF Spec

-----------------------------------------------------------------------------
(* LeadPipeline.  What a worker has loaded of the lead still holds when it writes, as     *)
(* long as no other of its kind is under way.                                             *)

LeadStatus == {"new", "qualified", "converted"}
Periods == {"missing", "ordered", "inverted"}
Priorities == {"critical", "high", "medium", "low"}
LeadRow == [status : LeadStatus, dates : Periods, project : Nat, fingerprint : SUBSET Urls,
            days : DaysSeen \cup {0}, left : DaysLeft \cup {400}, score : Int, priority : Priorities]
DocRow == [url : Urls, status : {"discovered", "fetched", "failed", "gone"}, attempts : Nat, cool : BOOLEAN]
ProjectRow == [docs : SUBSET Nat, basis : SUBSET Urls, audits : Nat]

\* What a fetch has loaded of the documents it is to try.
TodoFits(todo) == \A r \in DOMAIN todo : todo[r].attempts \in Nat
Fetching(work) == {"at", "todo"} \subseteq DOMAIN work /\ TodoFits(work.todo)

LeadTypes ==
    /\ lead \in {NoLead, DeletedLead} \cup LeadRow
    /\ leadDoc \in Seq(DocRow) /\ leadProject \in Seq(ProjectRow)
    /\ leadWork = [w \in LeadWorkers |-> leadWork[w]]
    /\ offered \subseteq Urls
    /\ lead = NoLead => leadDoc = <<>> /\ leadProject = <<>>
    /\ HasLead => \A r \in Rows : leadDoc[r].status # "gone"
    /\ \A p \in DOMAIN leadProject : leadProject[p].docs \subseteq Rows
WorkTypes ==
    \A w \in LeadWorkers :
        /\ Doing(w, "scored") => leadWork[w].score \in Int
        /\ Doing(w, "upsert") => leadWork[w].days \in DaysSeen /\ leadWork[w].left \in DaysLeft
        /\ Doing(w, "store") => leadWork[w].new \subseteq Urls /\ TodoFits(leadWork[w].todo)
        /\ Doing(w, "fetching") => Fetching(leadWork[w])

OneOf(steps) == \A v, w \in LeadWorkers : leadWork[v].at \in steps /\ leadWork[w].at \in steps => v = w

ConvertFits ==
    "convert" \notin overlap =>
        /\ OneOf({"attach"}) /\ Len(leadProject) <= 1
        /\ HasLead /\ Len(leadProject) > 0 => lead.project # 0
        /\ HasLead /\ lead.project # 0 => \A w \in LeadWorkers : ~Doing(w, "attach")

\* A url that a worker is about to store has no row.
UrlsOnce == \A q, r \in Rows : leadDoc[q].url = leadDoc[r].url => q = r
FetchFits ==
    "fetch" \notin overlap =>
        /\ OneOf(FetchSteps) /\ UrlsOnce
        /\ \A w \in LeadWorkers : Doing(w, "store") =>
               \A u \in leadWork[w].new, r \in Rows : leadDoc[r].url # u

ScoreFits ==
    "score" \notin overlap =>
        /\ OneOf(ScoringSteps)
        /\ \A w \in LeadWorkers : leadWork[w].at \in ScoringSteps =>
               \/ Doing(w, "upsert") /\ leadWork[w].loaded = NoLead
               \/ /\ lead # NoLead /\ leadWork[w].loaded # NoLead
                  /\ HasLead => leadWork[w].loaded = [score |-> lead.score, priority |-> lead.priority]
        /\ HasLead /\ ~byHand => lead.priority = PriorityFromScore(lead.score)

LeadInv == LeadTypes /\ WorkTypes /\ ConvertFits /\ FetchFits /\ ScoreFits

LEMMA ScoresAreInt ==
    /\ \A days \in DaysSeen \cup {0}, left \in DaysLeft \cup {400} : Stuck(days, left) \in Int
    /\ \A a, b \in Int : Least(a, b) \in Int
    /\ \A s : PriorityFromScore(s) \in Priorities
    /\ PriorityFromScore(0) = "low"
<1>1. \A a, b \in Int : Least(a, b) \in Int BY DEF Least
<1>2. \A s : PriorityFromScore(s) \in Priorities BY DEF PriorityFromScore, Priorities
<1>3. PriorityFromScore(0) = "low" BY DEF PriorityFromScore
<1>4. ASSUME NEW days \in DaysSeen \cup {0}, NEW left \in DaysLeft \cup {400} PROVE Stuck(days, left) \in Int
  <2>1. days \in Int /\ left \in Int BY LeadAssumption
  <2>2. TimeInStageScore(days, 365) \in Int BY <2>1 DEF TimeInStageScore
  <2>3. DeadlineProximityScore(left) \in Int BY <2>1 DEF DeadlineProximityScore
  <2>4. VerificationGapScore(700) \in Int BY DEF VerificationGapScore
  <2>5. PICK sum \in Int : sum = TimeInStageScore(days, 365) + DeadlineProximityScore(left)
                                 + VerificationGapScore(700) + 750
    BY <2>2, <2>3, <2>4
  <2>6. Stuck(days, left) = Least(10000, sum) BY <2>5 DEF Stuck, ScoreLead
  <2> QED BY <1>1, <2>5, <2>6
<1> QED BY <1>1, <1>2, <1>3, <1>4

\* A row is none of the two that stand for no row.
LEMMA RowsAreLeads == ASSUME NEW row \in LeadRow PROVE row # NoLead /\ row # DeletedLead
<1>1. row.status \in {"new", "qualified", "converted"} BY DEF LeadRow, LeadStatus
<1>2. NoLead.status = "none" /\ DeletedLead.status = "deleted" BY DEF NoLead, DeletedLead
<1> QED BY <1>1, <1>2

LEMMA HasLeadIs == LeadTypes => (HasLead <=> lead \in LeadRow)
BY RowsAreLeads DEF LeadTypes, HasLead

LEMMA LoadedIsNot == ASSUME NEW s, NEW p PROVE [score |-> s, priority |-> p] # NoLead
<1>1. DOMAIN [score |-> s, priority |-> p] = {"score", "priority"} OBVIOUS
<1>2. DOMAIN NoLead = {"status"} BY DEF NoLead
<1> QED BY <1>1, <1>2

LEMMA InsertedLead == ASSUME NEW days \in DaysSeen \cup {0}, NEW left \in DaysLeft \cup {400}
    PROVE /\ Lead(days, left) \in LeadRow /\ Lead(days, left).project = 0
          /\ Lead(days, left).priority = PriorityFromScore(Lead(days, left).score)
<1>1. PICK s \in Int : s = Stuck(days, left) BY ScoresAreInt
<1>2. PICK p \in Priorities : p = PriorityFromScore(s) BY ScoresAreInt
<1>3. Lead(days, left) = [status |-> "new", dates |-> "missing", project |-> 0, fingerprint |-> {}, days |-> days,
                          left |-> left, score |-> s, priority |-> p]
  BY <1>1, <1>2 DEF Lead
<1> QED BY <1>1, <1>2, <1>3 DEF LeadRow, LeadStatus, Periods

LEMMA ImportedIs == /\ ImportedLead \in LeadRow /\ ImportedLead.project = 0
                    /\ ImportedLead.priority = PriorityFromScore(ImportedLead.score)
<1>1. PICK t \in LeadRow : t = Lead(0, 400) /\ t.project = 0 BY InsertedLead
<1>2. PICK v : v = [t EXCEPT !.score = 0, !.priority = "low"] OBVIOUS
<1>3. v \in LeadRow /\ v.project = t.project /\ v.score = 0 /\ v.priority = "low"
  <2>1. /\ t.status \in LeadStatus /\ t.dates \in Periods /\ t.project \in Nat /\ t.fingerprint \in SUBSET Urls
        /\ t.days \in DaysSeen \cup {0} /\ t.left \in DaysLeft \cup {400}
    BY DEF LeadRow
  <2>2. v = [status |-> t.status, dates |-> t.dates, project |-> t.project, fingerprint |-> t.fingerprint,
             days |-> t.days, left |-> t.left, score |-> 0, priority |-> "low"]
    BY <1>2 DEF LeadRow
  <2>3. "low" \in Priorities /\ 0 \in Int BY DEF Priorities
  <2> QED BY <2>1, <2>2, <2>3 DEF LeadRow
<1>4. ImportedLead = v BY <1>1, <1>2 DEF ImportedLead
<1> QED BY <1>1, <1>3, <1>4, ScoresAreInt

LEMMA WorkWritten ==
    ASSUME LeadTypes, NEW w \in LeadWorkers, NEW v, leadWork' = [leadWork EXCEPT ![w] = v]
    PROVE  /\ leadWork' = [x \in LeadWorkers |-> leadWork'[x]] /\ leadWork'[w] = v
           /\ \A x \in LeadWorkers : x # w => leadWork'[x] = leadWork[x]
<1>1. PICK f : f = leadWork /\ f = [x \in LeadWorkers |-> f[x]] BY DEF LeadTypes
<1>2. leadWork' = [f EXCEPT ![w] = v] BY <1>1
<1> QED BY <1>1, <1>2

LEMMA ConvertStays ==
    ASSUME LeadInv, overlap \subseteq overlap', Len(leadProject') = Len(leadProject),
           HasLead' => \/ HasLead /\ lead'.project = lead.project
                       \/ lead = NoLead /\ lead'.project = 0,
           \A x \in LeadWorkers : Doing(x, "attach")' => Doing(x, "attach")
    PROVE  ConvertFits'
<1>1. LeadTypes /\ ConvertFits BY DEF LeadInv
<1>2. CASE HasLead \/ ~HasLead' BY <1>1, <1>2 DEF ConvertFits, OneOf, Doing, HasLead
<1>3. CASE ~HasLead /\ HasLead'
  <2>1. lead'.project = 0 /\ leadProject = <<>> BY <1>1, <1>3 DEF LeadTypes
  <2>2. Len(leadProject) = 0 BY <2>1
  <2> QED BY <1>1, <2>1, <2>2 DEF ConvertFits, OneOf, Doing
<1> QED BY <1>2, <1>3

LEMMA FetchStays ==
    ASSUME LeadInv, overlap \subseteq overlap', Rows' = Rows, \A r \in Rows : leadDoc'[r].url = leadDoc[r].url,
           \A x \in LeadWorkers : leadWork'[x].at \in FetchSteps => leadWork[x].at \in FetchSteps,
           \A x \in LeadWorkers : Doing(x, "store")' =>
               Doing(x, "store") /\ leadWork'[x].new = leadWork[x].new
    PROVE  FetchFits'
<1> SUFFICES ASSUME "fetch" \notin overlap'
             PROVE  /\ OneOf(FetchSteps)' /\ UrlsOnce'
                    /\ \A x \in LeadWorkers : Doing(x, "store")' =>
                           \A u \in leadWork'[x].new, r \in Rows' : leadDoc'[r].url # u
  BY DEF FetchFits
<1>1. FetchFits /\ "fetch" \notin overlap BY DEF LeadInv
<1>2. OneOf(FetchSteps)'
  <2>1. OneOf(FetchSteps) BY <1>1 DEF FetchFits
  <2> QED BY <2>1 DEF OneOf, FetchSteps
<1>3. UrlsOnce' BY <1>1 DEF FetchFits, UrlsOnce
<1>4. \A x \in LeadWorkers : Doing(x, "store")' => \A u \in leadWork'[x].new, r \in Rows' : leadDoc'[r].url # u
  BY <1>1 DEF FetchFits
<1> QED BY <1>2, <1>3, <1>4

LEMMA ScoreStays ==
    ASSUME LeadInv, overlap \subseteq overlap', lead # NoLead => lead' # NoLead,
           \A x \in LeadWorkers : leadWork'[x].at \in ScoringSteps => leadWork'[x] = leadWork[x],
           HasLead' => \/ /\ HasLead /\ lead'.score = lead.score /\ lead'.priority = lead.priority
                          /\ byHand => byHand'
                       \/ lead = NoLead /\ (byHand' \/ lead'.priority = PriorityFromScore(lead'.score))
    PROVE  ScoreFits'
<1> SUFFICES ASSUME "score" \notin overlap'
             PROVE  /\ OneOf(ScoringSteps)'
                    /\ \A w \in LeadWorkers : leadWork'[w].at \in ScoringSteps =>
                           \/ Doing(w, "upsert")' /\ leadWork'[w].loaded = NoLead
                           \/ /\ lead' # NoLead /\ leadWork'[w].loaded # NoLead
                              /\ HasLead' => leadWork'[w].loaded = [score |-> lead'.score, priority |-> lead'.priority]
                    /\ HasLead' /\ ~byHand' => lead'.priority = PriorityFromScore(lead'.score)
  BY DEF ScoreFits, ScoringSteps, NoLead
<1>1. ScoreFits /\ "score" \notin overlap BY DEF LeadInv
<1>2. OneOf(ScoringSteps)'
  <2>1. OneOf(ScoringSteps) BY <1>1 DEF ScoreFits
  <2> QED BY <2>1 DEF OneOf, ScoringSteps
<1>3. HasLead' /\ ~byHand' => lead'.priority = PriorityFromScore(lead'.score)
  <2>1. HasLead /\ ~byHand => lead.priority = PriorityFromScore(lead.score) BY <1>1 DEF ScoreFits
  <2> QED BY <2>1
<1>4. ASSUME NEW w \in LeadWorkers, leadWork'[w].at \in ScoringSteps
      PROVE  \/ Doing(w, "upsert")' /\ leadWork'[w].loaded = NoLead
             \/ /\ lead' # NoLead /\ leadWork'[w].loaded # NoLead
                /\ HasLead' => leadWork'[w].loaded = [score |-> lead'.score, priority |-> lead'.priority]
  <2>1. leadWork'[w] = leadWork[w] BY <1>4
  <2>2. \/ Doing(w, "upsert") /\ leadWork[w].loaded = NoLead
        \/ /\ lead # NoLead /\ leadWork[w].loaded # NoLead
           /\ HasLead => leadWork[w].loaded = [score |-> lead.score, priority |-> lead.priority]
    BY <1>1, <1>4, <2>1 DEF ScoreFits
  <2>3. CASE Doing(w, "upsert") /\ leadWork[w].loaded = NoLead BY <2>1, <2>3 DEF Doing
  <2>4. CASE lead # NoLead /\ leadWork[w].loaded # NoLead
             /\ (HasLead => leadWork[w].loaded = [score |-> lead.score, priority |-> lead.priority])
    BY <2>1, <2>4
  <2> QED BY <2>2, <2>3, <2>4
<1> QED BY <1>2, <1>3, <1>4

LEMMA WorkStays ==
    ASSUME LeadInv, NEW w \in LeadWorkers, NEW v, leadWork' = [leadWork EXCEPT ![w] = v],
           v.at \notin {"scored", "upsert", "store", "fetching"}
    PROVE  WorkTypes'
<1>1. leadWork'[w] = v /\ \A x \in LeadWorkers : x # w => leadWork'[x] = leadWork[x]
  BY WorkWritten DEF LeadInv
<1>2. WorkTypes BY DEF LeadInv
<1>3. ASSUME NEW x \in LeadWorkers
      PROVE  /\ Doing(x, "scored")' => leadWork'[x].score \in Int
             /\ Doing(x, "upsert")' => leadWork'[x].days \in DaysSeen /\ leadWork'[x].left \in DaysLeft
             /\ Doing(x, "store")' => leadWork'[x].new \subseteq Urls /\ TodoFits(leadWork'[x].todo)
             /\ Doing(x, "fetching")' => Fetching(leadWork'[x])
  <2>1. CASE x = w BY <1>1, <2>1 DEF Doing
  <2>2. CASE x # w BY <1>1, <1>2, <2>2 DEF Doing, WorkTypes
  <2> QED BY <2>1, <2>2
<1> QED BY <1>3 DEF WorkTypes, Fetching, TodoFits, Doing

\* The row of the lead is another, or its documents are gone.
LEMMA LeadTyped ==
    ASSUME LeadInv, UNCHANGED <<leadDoc, leadProject, leadWork, offered>>,
           lead' \in {NoLead, DeletedLead} \cup LeadRow,
           lead' = NoLead => lead = NoLead, HasLead' => HasLead \/ lead = NoLead
    PROVE  LeadTypes' /\ WorkTypes'
<1>1. LeadTypes /\ WorkTypes BY DEF LeadInv
<1>2. lead = NoLead => Rows = {} BY <1>1 DEF LeadTypes, Rows
<1>3. WorkTypes' BY <1>1 DEF WorkTypes, Fetching, TodoFits, Doing
<1>4. LeadTypes' BY <1>1, <1>2 DEF LeadTypes, Rows
<1> QED BY <1>3, <1>4

\* A worker that leaves its place for one where nothing is held.
LEMMA WorkerMoves ==
    ASSUME LeadInv, NEW w \in LeadWorkers, NEW v, leadWork' = [leadWork EXCEPT ![w] = v],
           UNCHANGED <<lead, leadDoc, leadProject, offered, byHand>>, overlap \subseteq overlap',
           v.at \notin ScoringSteps \cup FetchSteps \cup {"attach"}
    PROVE  LeadInv'
<1>1. /\ leadWork' = [x \in LeadWorkers |-> leadWork'[x]] /\ leadWork'[w] = v
      /\ \A x \in LeadWorkers : x # w => leadWork'[x] = leadWork[x]
  BY WorkWritten DEF LeadInv
<1>2. LeadTypes' BY <1>1 DEF LeadInv, LeadTypes, Rows, HasLead
<1>3. WorkTypes' BY WorkStays DEF ScoringSteps, FetchSteps
<1>4. \A x \in LeadWorkers : leadWork'[x].at \in ScoringSteps \cup FetchSteps \cup {"attach"} =>
                                leadWork'[x] = leadWork[x]
  BY <1>1
<1>5. ConvertFits'
  <2>1. \A x \in LeadWorkers : Doing(x, "attach")' => Doing(x, "attach") BY <1>4 DEF Doing
  <2>2. HasLead' <=> HasLead BY DEF HasLead
  <2> QED BY <2>1, <2>2, ConvertStays
<1>6. FetchFits'
  <2>1. \A x \in LeadWorkers : Doing(x, "store")' => leadWork'[x] = leadWork[x] BY <1>4 DEF Doing, FetchSteps
  <2>2. Rows' = Rows BY DEF Rows
  <2> QED BY <1>4, <2>1, <2>2, FetchStays DEF Doing
<1>7. ScoreFits'
  <2>1. HasLead' <=> HasLead BY DEF HasLead
  <2>2. HasLead => lead.score = lead'.score /\ lead.priority = lead'.priority OBVIOUS
  <2> QED BY <1>4, <2>1, <2>2, ScoreStays
<1> QED BY <1>2, <1>3, <1>5, <1>6, <1>7 DEF LeadInv

\* The same where no worker moves.
LEMMA NobodyMoves ==
    ASSUME LeadInv, UNCHANGED <<lead, leadDoc, leadProject, leadWork, overlap, byHand>>, offered' \subseteq Urls
    PROVE  LeadInv'
BY DEF LeadInv, LeadTypes, WorkTypes, ConvertFits, FetchFits, ScoreFits, HasLead, Rows, UrlsOnce, OneOf,
       Doing, Fetching, TodoFits

LEMMA OverlapsIs ==
    ASSUME NEW steps, NEW kind, overlap' = Overlaps(steps, kind)
    PROVE  /\ overlap \subseteq overlap'
           /\ kind \notin overlap' => \A x \in LeadWorkers : leadWork[x].at \notin steps
BY DEF Overlaps

\* The row of the lead is another while a worker leaves its place.
LEMMA LeadTypedMoves ==
    ASSUME LeadInv, NEW w \in LeadWorkers, NEW v, leadWork' = [leadWork EXCEPT ![w] = v],
           v.at \notin {"scored", "upsert", "store", "fetching"},
           UNCHANGED <<leadDoc, leadProject, offered>>,
           lead' \in {NoLead, DeletedLead} \cup LeadRow,
           lead' = NoLead => lead = NoLead, HasLead' => HasLead \/ lead = NoLead
    PROVE  LeadTypes' /\ WorkTypes'
<1>1. LeadTypes BY DEF LeadInv
<1>2. lead = NoLead => Rows = {} BY <1>1 DEF LeadTypes, Rows
<1>3. leadWork' = [x \in LeadWorkers |-> leadWork'[x]] BY <1>1, WorkWritten
<1>4. LeadTypes' BY <1>1, <1>2, <1>3 DEF LeadTypes, Rows
<1> QED BY <1>4, WorkStays

(* Scores *)

LEMMA ScoredIs ==
    ASSUME NEW row \in LeadRow, NEW loaded, NEW s \in Int
    PROVE  /\ Scored(row, loaded, s) \in LeadRow /\ Scored(row, loaded, s).project = row.project
           /\ loaded = [score |-> row.score, priority |-> row.priority] =>
                  Scored(row, loaded, s).priority = PriorityFromScore(Scored(row, loaded, s).score)
<1>1. PICK p \in Priorities : p = PriorityFromScore(s) BY ScoresAreInt
<1>2. PICK a \in Int : a = IF s = loaded.score THEN row.score ELSE s BY DEF LeadRow
<1>3. PICK b \in Priorities : b = IF p = loaded.priority THEN row.priority ELSE p BY <1>1 DEF LeadRow
<1>4. PICK v : v = [row EXCEPT !.score = a, !.priority = b] OBVIOUS
<1>5. v \in LeadRow /\ v.project = row.project /\ v.score = a /\ v.priority = b
  <2>1. /\ row.status \in LeadStatus /\ row.dates \in Periods /\ row.project \in Nat /\ row.fingerprint \in SUBSET Urls
        /\ row.days \in DaysSeen \cup {0} /\ row.left \in DaysLeft \cup {400}
    BY DEF LeadRow
  <2>2. v = [status |-> row.status, dates |-> row.dates, project |-> row.project, fingerprint |-> row.fingerprint,
             days |-> row.days, left |-> row.left, score |-> a, priority |-> b]
    BY <1>4 DEF LeadRow
  <2> QED BY <2>1, <2>2 DEF LeadRow
<1>6. Scored(row, loaded, s) = v BY <1>1, <1>2, <1>3, <1>4 DEF Scored
<1>7. loaded = [score |-> row.score, priority |-> row.priority] => a = s /\ b = p BY <1>2, <1>3
<1> QED BY <1>1, <1>5, <1>6, <1>7

\* A worker starts to score what it has loaded.
LEMMA ScoringStarts ==
    ASSUME LeadInv, NEW w \in LeadWorkers, Doing(w, "idle"), NEW v, leadWork' = [leadWork EXCEPT ![w] = v],
           UNCHANGED <<lead, leadDoc, leadProject, offered, byHand>>, overlap' = Overlaps(ScoringSteps, "score"),
           v.loaded = Loaded,
           \/ v.at = "scored" /\ v.score \in Int /\ HasLead
           \/ v.at = "upsert" /\ v.days \in DaysSeen /\ v.left \in DaysLeft /\ lead # DeletedLead
    PROVE  LeadInv'
<1>1. /\ leadWork' = [x \in LeadWorkers |-> leadWork'[x]] /\ leadWork'[w] = v
      /\ \A x \in LeadWorkers : x # w => leadWork'[x] = leadWork[x]
  BY WorkWritten DEF LeadInv
<1>2. LeadTypes' BY <1>1 DEF LeadInv, LeadTypes, Rows, HasLead
<1>3. WorkTypes'
  <2>1. ASSUME NEW x \in LeadWorkers
        PROVE  /\ Doing(x, "scored")' => leadWork'[x].score \in Int
               /\ Doing(x, "upsert")' => leadWork'[x].days \in DaysSeen /\ leadWork'[x].left \in DaysLeft
               /\ Doing(x, "store")' => leadWork'[x].new \subseteq Urls /\ TodoFits(leadWork'[x].todo)
               /\ Doing(x, "fetching")' => Fetching(leadWork'[x])
    <3>1. CASE x = w BY <1>1, <3>1 DEF Doing
    <3>2. CASE x # w BY <1>1, <3>2 DEF Doing, WorkTypes, LeadInv
    <3> QED BY <3>1, <3>2
  <2> QED BY <2>1 DEF WorkTypes, Fetching, TodoFits, Doing
<1>4. overlap \subseteq overlap' /\ ("score" \notin overlap' => \A x \in LeadWorkers : leadWork[x].at \notin ScoringSteps)
  BY OverlapsIs
<1>5. HasLead' <=> HasLead BY DEF HasLead
<1>6. ConvertFits'
  <2>1. \A x \in LeadWorkers : Doing(x, "attach")' => Doing(x, "attach") BY <1>1 DEF Doing
  <2> QED BY <1>4, <1>5, <2>1, ConvertStays
<1>7. FetchFits'
  <2>1. \A x \in LeadWorkers : leadWork'[x].at \in FetchSteps => leadWork'[x] = leadWork[x] BY <1>1 DEF FetchSteps
  <2>2. \A x \in LeadWorkers : Doing(x, "store")' => leadWork'[x] = leadWork[x] BY <2>1 DEF Doing, FetchSteps
  <2>3. Rows' = Rows BY DEF Rows
  <2> QED BY <1>4, <2>1, <2>2, <2>3, FetchStays DEF Doing
<1>8. ScoreFits'
  <2> SUFFICES ASSUME "score" \notin overlap'
               PROVE  /\ OneOf(ScoringSteps)'
                      /\ \A x \in LeadWorkers : leadWork'[x].at \in ScoringSteps =>
                             \/ Doing(x, "upsert")' /\ leadWork'[x].loaded = NoLead
                             \/ /\ lead' # NoLead /\ leadWork'[x].loaded # NoLead
                                /\ HasLead' => leadWork'[x].loaded = [score |-> lead'.score, priority |-> lead'.priority]
                      /\ HasLead' /\ ~byHand' => lead'.priority = PriorityFromScore(lead'.score)
    BY DEF ScoreFits, ScoringSteps, NoLead
  <2>1. \A x \in LeadWorkers : leadWork'[x].at \in ScoringSteps => x = w BY <1>1, <1>4
  <2>2. OneOf(ScoringSteps)' BY <2>1 DEF OneOf, ScoringSteps
  <2>3. HasLead /\ ~byHand => lead.priority = PriorityFromScore(lead.score) BY <1>4 DEF LeadInv, ScoreFits
  <2>4. \/ v.at = "upsert" /\ v.loaded = NoLead
        \/ lead # NoLead /\ v.loaded # NoLead /\ v.loaded = [score |-> lead.score, priority |-> lead.priority]
    <3>1. CASE HasLead
      <4>1. Loaded = [score |-> lead.score, priority |-> lead.priority] BY <3>1 DEF Loaded
      <4> QED BY <3>1, <4>1, LoadedIsNot DEF HasLead
    <3>2. CASE ~HasLead BY <3>2 DEF Loaded
    <3> QED BY <3>1, <3>2
  <2>5. \A x \in LeadWorkers : leadWork'[x].at \in ScoringSteps =>
            \/ Doing(x, "upsert")' /\ leadWork'[x].loaded = NoLead
            \/ /\ lead' # NoLead /\ leadWork'[x].loaded # NoLead
               /\ HasLead' => leadWork'[x].loaded = [score |-> lead'.score, priority |-> lead'.priority]
    BY <1>1, <2>1, <2>4 DEF Doing
  <2>6. HasLead' /\ ~byHand' => lead'.priority = PriorityFromScore(lead'.score) BY <1>5, <2>3
  <2> QED BY <2>2, <2>5, <2>6
<1> QED BY <1>2, <1>3, <1>6, <1>7, <1>8 DEF LeadInv

LEMMA ScoreLoadKept == ASSUME LeadInv, NEW w \in LeadWorkers, ScoreLoad(w) PROVE LeadInv'
<1>1. HasLead /\ lead \in LeadRow BY HasLeadIs DEF LeadInv, ScoreLoad
<1>2. PICK s \in Int : s = Stuck(lead.days, lead.left)
  <2>1. PICK days \in DaysSeen \cup {0}, left \in DaysLeft \cup {400} : days = lead.days /\ left = lead.left
    BY <1>1 DEF LeadRow
  <2>2. Stuck(days, left) \in Int BY ScoresAreInt
  <2> QED BY <2>1, <2>2
<1>3. PICK v : v = [at |-> "scored", loaded |-> Loaded, score |-> s] OBVIOUS
<1>4. /\ Doing(w, "idle") /\ leadWork' = [leadWork EXCEPT ![w] = v] /\ overlap' = Overlaps(ScoringSteps, "score")
      /\ UNCHANGED <<lead, leadDoc, leadProject, offered, byHand>>
  BY <1>2, <1>3 DEF ScoreLoad, Goes
<1>5. v.at = "scored" /\ v.score \in Int /\ v.loaded = Loaded BY <1>3
<1> QED BY <1>1, <1>4, <1>5, ScoringStarts

LEMMA CheckDeadlinesKept == ASSUME LeadInv, NEW w \in LeadWorkers, CheckDeadlines(w) PROVE LeadInv'
<1>1. HasLead /\ lead \in LeadRow BY HasLeadIs DEF LeadInv, CheckDeadlines
<1>2. PICK t \in Int : t = lead.score + 1500 BY <1>1 DEF LeadRow
<1>3. PICK s \in Int : s = Least(t, 10000) BY ScoresAreInt
<1>4. PICK v : v = [at |-> "scored", loaded |-> Loaded, score |-> s] OBVIOUS
<1>5. /\ Doing(w, "idle") /\ leadWork' = [leadWork EXCEPT ![w] = v] /\ overlap' = Overlaps(ScoringSteps, "score")
      /\ UNCHANGED <<lead, leadDoc, leadProject, offered, byHand>>
  BY <1>2, <1>3, <1>4 DEF CheckDeadlines, Goes
<1>6. v.at = "scored" /\ v.score \in Int /\ v.loaded = Loaded BY <1>4
<1> QED BY <1>1, <1>5, <1>6, ScoringStarts

LEMMA ScrapeLoadKept ==
    ASSUME LeadInv, NEW w \in LeadWorkers, NEW from, NEW days \in DaysSeen, NEW left \in DaysLeft,
           ScrapeLoad(w, from, days, left)
    PROVE  LeadInv'
<1>1. PICK v : v = [at |-> "upsert", from |-> from, loaded |-> Loaded, days |-> days, left |-> left] OBVIOUS
<1>2. /\ Doing(w, "idle") /\ leadWork' = [leadWork EXCEPT ![w] = v] /\ overlap' = Overlaps(ScoringSteps, "score")
      /\ UNCHANGED <<lead, leadDoc, leadProject, offered, byHand>> /\ lead # DeletedLead
  BY <1>1 DEF ScrapeLoad, Goes
<1>3. v.at = "upsert" /\ v.days \in DaysSeen /\ v.left \in DaysLeft /\ v.loaded = Loaded BY <1>1
<1> QED BY <1>2, <1>3, ScoringStarts

\* A worker stores what it has computed, or the lead is inserted; then it is done with scores.
LEMMA LeadStored ==
    ASSUME LeadInv, NEW w \in LeadWorkers, NEW v, leadWork' = [leadWork EXCEPT ![w] = v],
           v.at \notin ScoringSteps \cup FetchSteps \cup {"attach"},
           UNCHANGED <<leadDoc, leadProject, offered, overlap>>,
           lead' \in LeadRow,
           \/ HasLead /\ lead'.project = lead.project /\ leadWork[w].at \in ScoringSteps
           \/ lead = NoLead /\ lead'.project = 0,
           "score" \notin overlap => lead'.priority = PriorityFromScore(lead'.score)
    PROVE  LeadInv'
<1>1. /\ leadWork'[w] = v /\ \A x \in LeadWorkers : x # w => leadWork'[x] = leadWork[x]
  BY WorkWritten DEF LeadInv
<1>2. lead' # NoLead /\ lead' # DeletedLead BY RowsAreLeads
<1>3. LeadTypes' /\ WorkTypes' BY <1>2, LeadTypedMoves DEF ScoringSteps, FetchSteps
<1>4. ConvertFits'
  <2>1. \A x \in LeadWorkers : Doing(x, "attach")' => Doing(x, "attach") BY <1>1 DEF Doing
  <2> QED BY <2>1, ConvertStays
<1>5. FetchFits'
  <2>1. \A x \in LeadWorkers : leadWork'[x].at \in FetchSteps => leadWork'[x] = leadWork[x] BY <1>1
  <2>2. \A x \in LeadWorkers : Doing(x, "store")' => leadWork'[x] = leadWork[x] BY <2>1 DEF Doing, FetchSteps
  <2>3. Rows' = Rows BY DEF Rows
  <2> QED BY <2>1, <2>2, <2>3, FetchStays DEF Doing
<1>6. ScoreFits'
  <2>1. CASE "score" \in overlap BY <2>1 DEF ScoreFits
  <2>2. CASE "score" \notin overlap
    <3>1. ScoreFits BY DEF LeadInv
    <3>2. \A x \in LeadWorkers : leadWork'[x].at \in ScoringSteps => leadWork'[x] = leadWork[x] BY <1>1
    <3>3. CASE HasLead /\ leadWork[w].at \in ScoringSteps
      <4>1. \A x \in LeadWorkers : leadWork[x].at \in ScoringSteps => x = w
        BY <2>2, <3>1, <3>3 DEF ScoreFits, OneOf
      <4>2. \A x \in LeadWorkers : leadWork'[x].at \notin ScoringSteps BY <1>1, <3>2, <4>1
      <4> QED BY <2>2, <4>2 DEF ScoreFits, OneOf
    <3>4. CASE lead = NoLead BY <1>2, <2>2, <3>2, <3>4, ScoreStays
    <3> QED BY <3>3, <3>4
  <2> QED BY <2>1, <2>2
<1> QED BY <1>3, <1>4, <1>5, <1>6 DEF LeadInv

LEMMA IdleIs == Idle.at = "idle" /\ "idle" \notin ScoringSteps \cup FetchSteps \cup {"attach"}
BY DEF Idle, ScoringSteps, FetchSteps

LEMMA StoreScoreKept == ASSUME LeadInv, NEW w \in LeadWorkers, StoreScore(w) PROVE LeadInv'
<1>1. /\ Doing(w, "scored") /\ leadWork' = [leadWork EXCEPT ![w] = Idle]
      /\ UNCHANGED <<leadDoc, leadProject, offered, overlap>>
      /\ lead' = IF HasLead THEN Scored(lead, leadWork[w].loaded, leadWork[w].score) ELSE lead
  BY DEF StoreScore, Ends, Goes
<1>2. CASE ~HasLead
  <2>1. byHand' = IF HasLead THEN FALSE ELSE byHand BY DEF StoreScore
  <2>2. UNCHANGED byHand BY <1>2, <2>1
  <2> QED BY <1>1, <1>2, <2>2, WorkerMoves, IdleIs
<1>3. CASE HasLead
  <2>1. lead \in LeadRow BY <1>3, HasLeadIs DEF LeadInv
  <2>2. leadWork[w].at \in ScoringSteps /\ leadWork[w].score \in Int
    BY <1>1 DEF LeadInv, WorkTypes, Doing, ScoringSteps
  <2>3. lead' \in LeadRow /\ lead'.project = lead.project BY <1>1, <1>3, <2>1, <2>2, ScoredIs
  <2>4. ASSUME "score" \notin overlap PROVE lead'.priority = PriorityFromScore(lead'.score)
    <3>1. leadWork[w].loaded = [score |-> lead.score, priority |-> lead.priority]
      BY <1>1, <1>3, <2>2, <2>4 DEF LeadInv, ScoreFits, Doing
    <3> QED BY <1>1, <1>3, <2>1, <2>2, <3>1, ScoredIs
  <2> QED BY <1>1, <1>3, <2>2, <2>3, <2>4, LeadStored, IdleIs
<1> QED BY <1>2, <1>3

LEMMA UpsertLeadKept == ASSUME LeadInv, NEW w \in LeadWorkers, UpsertLead(w) PROVE LeadInv'
<1>1. /\ Doing(w, "upsert") /\ UNCHANGED <<leadDoc, leadProject, offered, overlap>> BY DEF UpsertLead
<1>2. /\ leadWork[w].at \in ScoringSteps /\ leadWork[w].days \in DaysSeen /\ leadWork[w].left \in DaysLeft
  BY <1>1 DEF LeadInv, WorkTypes, Doing, ScoringSteps
<1>3. PICK c : c = leadWork[w] OBVIOUS
<1>4. CASE Collides(c.loaded = NoLead) \/ lead = DeletedLead
  <2>1. leadWork' = [leadWork EXCEPT ![w] = Idle] /\ UNCHANGED <<lead, byHand>> BY <1>3, <1>4 DEF UpsertLead, Ends, Goes
  <2> QED BY <1>1, <2>1, WorkerMoves, IdleIs
<1>5. CASE ~(Collides(c.loaded = NoLead) \/ lead = DeletedLead)
  <2>1. /\ lead' = IF lead = NoLead THEN Lead(c.days, c.left)
                   ELSE [Scored(lead, c.loaded, Stuck(c.days, c.left)) EXCEPT !.days = c.days]
        /\ leadWork' = [leadWork EXCEPT ![w] = IF c.from = "beat" THEN [at |-> "queueFetch"] ELSE Idle]
        /\ (c.loaded = NoLead) = (lead = NoLead) /\ lead # DeletedLead
    BY <1>3, <1>5 DEF UpsertLead, Goes, Collides
  <2>2. PICK v : v = (IF c.from = "beat" THEN [at |-> "queueFetch"] ELSE Idle) OBVIOUS
  <2>3. v.at \notin ScoringSteps \cup FetchSteps \cup {"attach"} BY <2>2, IdleIs DEF ScoringSteps, FetchSteps
  <2>4. CASE lead = NoLead
    <3>1. lead' \in LeadRow /\ lead'.project = 0 /\ lead'.priority = PriorityFromScore(lead'.score)
      BY <1>2, <1>3, <2>1, <2>4, InsertedLead
    <3> QED BY <1>1, <2>1, <2>2, <2>3, <2>4, <3>1, LeadStored
  <2>5. CASE lead # NoLead
    <3>1. HasLead /\ lead \in LeadRow BY <2>1, <2>5 DEF HasLead, LeadInv, LeadTypes
    <3>2. PICK s \in Int : s = Stuck(c.days, c.left) BY <1>2, <1>3, ScoresAreInt
    <3>3. PICK t \in LeadRow : t = Scored(lead, c.loaded, s) /\ t.project = lead.project BY <3>1, ScoredIs
    <3>4. PICK row : row = [t EXCEPT !.days = c.days] OBVIOUS
    <3>5. row \in LeadRow /\ row.project = t.project /\ row.score = t.score /\ row.priority = t.priority
      BY <1>2, <1>3, <3>4 DEF LeadRow
    <3>6. lead' = row BY <2>1, <2>5, <3>2, <3>3, <3>4
    <3>7. ASSUME "score" \notin overlap PROVE row.priority = PriorityFromScore(row.score)
      <4>1. c.loaded # NoLead BY <2>1, <2>5
      <4>2. c.loaded = [score |-> lead.score, priority |-> lead.priority]
        BY <1>2, <1>3, <3>1, <3>7, <4>1 DEF LeadInv, ScoreFits
      <4> QED BY <3>1, <3>3, <3>5, <4>2, ScoredIs
    <3> QED BY <1>1, <1>2, <2>1, <2>2, <2>3, <3>1, <3>3, <3>5, <3>6, <3>7, LeadStored
  <2> QED BY <2>4, <2>5
<1> QED BY <1>3, <1>4, <1>5

(* The row of the lead *)

\* The row is inserted or other columns of it are written, and no worker moves.
LEMMA RowChanges ==
    ASSUME LeadInv, UNCHANGED <<leadDoc, leadProject, leadWork, offered, overlap>>, lead' \in LeadRow,
           \/ /\ HasLead /\ lead'.project = lead.project /\ lead'.score = lead.score /\ lead'.priority = lead.priority
              /\ byHand => byHand'
           \/ /\ lead = NoLead /\ lead'.project = 0
              /\ byHand' \/ lead'.priority = PriorityFromScore(lead'.score)
    PROVE  LeadInv'
<1>1. lead' # NoLead /\ lead' # DeletedLead BY RowsAreLeads
<1>2. LeadTypes' /\ WorkTypes' BY <1>1, LeadTyped
<1>3. ConvertFits'
  <2>1. \A x \in LeadWorkers : Doing(x, "attach")' => Doing(x, "attach") BY DEF Doing
  <2> QED BY <2>1, ConvertStays
<1>4. FetchFits'
  <2>1. Rows' = Rows BY DEF Rows
  <2> QED BY <2>1, FetchStays DEF Doing
<1>5. ScoreFits' BY <1>1, ScoreStays
<1> QED BY <1>2, <1>3, <1>4, <1>5 DEF LeadInv

LEMMA ImportLeadKept == ASSUME LeadInv, NEW w \in LeadWorkers, ImportLead(w) PROVE LeadInv'
<1>1. UNCHANGED <<leadDoc, leadProject, offered, overlap, byHand>> BY DEF ImportLead
<1>2. CASE lead = NoLead
  <2>1. lead' = ImportedLead /\ leadWork' = [leadWork EXCEPT ![w] = [at |-> "queueFetch"]]
    BY <1>2 DEF ImportLead, Collides, Goes
  <2>2. PICK v : v = [at |-> "queueFetch"] OBVIOUS
  <2>3. v.at \notin ScoringSteps \cup FetchSteps \cup {"attach"} BY <2>2 DEF ScoringSteps, FetchSteps
  <2> QED BY <1>1, <1>2, <2>1, <2>2, <2>3, ImportedIs, LeadStored
<1>3. CASE lead # NoLead
  <2>1. leadWork' = [leadWork EXCEPT ![w] = Idle] /\ UNCHANGED lead BY <1>3 DEF ImportLead, Collides, Ends, Goes
  <2> QED BY <1>1, <2>1, WorkerMoves, IdleIs
<1> QED BY <1>2, <1>3

LEMMA CreateLeadKept ==
    ASSUME LeadInv, NEW row \in LeadRow, row.project = 0, CreateLead(row) PROVE LeadInv'
<1>1. lead = NoLead /\ lead' = row /\ UNCHANGED <<leadDoc, leadProject, leadWork, offered, overlap>>
  BY DEF CreateLead
<1>2. byHand' \/ lead'.priority = PriorityFromScore(lead'.score) BY DEF CreateLead
<1> QED BY <1>1, <1>2, RowChanges

\* What a person enters of the score is on record, and whoever was scoring then overlapped.
LEMMA UpdateLeadKept ==
    ASSUME LeadInv, NEW row \in LeadRow, row.project = lead.project, UpdateLead(row) PROVE LeadInv'
<1>1. HasLead /\ lead' = row /\ UNCHANGED <<leadDoc, leadProject, leadWork, offered>> BY DEF UpdateLead
<1>2. CASE row.score = lead.score /\ row.priority = lead.priority
  <2>1. UNCHANGED <<overlap, byHand>> BY <1>2 DEF UpdateLead
  <2> QED BY <1>1, <1>2, <2>1, RowChanges
<1>3. CASE ~(row.score = lead.score /\ row.priority = lead.priority)
  <2>1. overlap' = Overlaps(ScoringSteps, "score") /\ byHand' = TRUE BY <1>3 DEF UpdateLead
  <2>2. overlap \subseteq overlap' /\ ("score" \notin overlap' => \A x \in LeadWorkers : leadWork[x].at \notin ScoringSteps)
    BY <2>1, OverlapsIs
  <2>3. lead' # NoLead /\ lead' # DeletedLead BY <1>1, RowsAreLeads
  <2>4. LeadTypes' /\ WorkTypes' BY <1>1, <2>3, LeadTyped
  <2>5. ConvertFits'
    <3>1. \A x \in LeadWorkers : Doing(x, "attach")' => Doing(x, "attach") BY <1>1 DEF Doing
    <3> QED BY <1>1, <2>2, <3>1, ConvertStays
  <2>6. FetchFits'
    <3>1. Rows' = Rows BY <1>1 DEF Rows
    <3> QED BY <1>1, <2>2, <3>1, FetchStays DEF Doing
  <2>7. ScoreFits'
    <3> SUFFICES ASSUME "score" \notin overlap' PROVE \A x \in LeadWorkers : leadWork[x].at \notin ScoringSteps
      BY <1>1, <2>1 DEF ScoreFits, OneOf
    <3> QED BY <2>2
  <2> QED BY <2>4, <2>5, <2>6, <2>7 DEF LeadInv
<1> QED BY <1>2, <1>3

\* The rows that a person enters.
LEMMA EnteredRows ==
    ASSUME NEW t \in LeadRow
    PROVE  /\ \A d \in HandDates : LET row == [t EXCEPT !.status = "qualified", !.dates = d]
                                   IN  row \in LeadRow /\ row.project = t.project
           /\ \A given \in HandRatings, left \in DaysLeft :
                  LET row == [t EXCEPT !.score = given.score, !.priority = given.priority, !.left = left]
                  IN  row \in LeadRow /\ row.project = t.project
<1>1. /\ t.status \in LeadStatus /\ t.dates \in Periods /\ t.project \in Nat /\ t.fingerprint \in SUBSET Urls
      /\ t.days \in DaysSeen \cup {0} /\ t.left \in DaysLeft \cup {400} /\ t.score \in Int /\ t.priority \in Priorities
  BY DEF LeadRow
<1>2. ASSUME NEW d \in HandDates, NEW row, row = [t EXCEPT !.status = "qualified", !.dates = d]
      PROVE  row \in LeadRow /\ row.project = t.project
  <2>1. row = [status |-> "qualified", dates |-> d, project |-> t.project, fingerprint |-> t.fingerprint,
               days |-> t.days, left |-> t.left, score |-> t.score, priority |-> t.priority]
    BY <1>2 DEF LeadRow
  <2>2. "qualified" \in LeadStatus /\ d \in Periods BY LeadAssumption DEF LeadStatus, Periods
  <2> QED BY <1>1, <2>1, <2>2 DEF LeadRow
<1>3. ASSUME NEW given \in HandRatings, NEW left \in DaysLeft,
             NEW row, row = [t EXCEPT !.score = given.score, !.priority = given.priority, !.left = left]
      PROVE  row \in LeadRow /\ row.project = t.project
  <2>1. PICK s \in Int, p \in Priorities : s = given.score /\ p = given.priority
    BY LeadAssumption DEF Priorities
  <2>2. row = [t EXCEPT !.score = s, !.priority = p, !.left = left] BY <1>3, <2>1
  <2>3. row = [status |-> t.status, dates |-> t.dates, project |-> t.project, fingerprint |-> t.fingerprint,
               days |-> t.days, left |-> left, score |-> s, priority |-> p]
    BY <2>2 DEF LeadRow
  <2> QED BY <1>1, <2>1, <2>3 DEF LeadRow
<1> QED BY <1>2, <1>3

LEMMA EntryKept ==
    ASSUME LeadInv,
           \/ CreateLead(ImportedLead)
           \/ \E d \in HandDates : UpdateLead([lead EXCEPT !.status = "qualified", !.dates = d])
           \/ \E given \in HandRatings, l \in DaysLeft :
                 \/ CreateLead([ImportedLead EXCEPT !.score = given.score, !.priority = given.priority, !.left = l])
                 \/ UpdateLead([lead EXCEPT !.score = given.score, !.priority = given.priority, !.left = l])
    PROVE  LeadInv'
<1>1. \A row : UpdateLead(row) => lead \in LeadRow BY HasLeadIs DEF LeadInv, UpdateLead
<1>2. CASE CreateLead(ImportedLead) BY <1>2, CreateLeadKept, ImportedIs
<1>3. ASSUME NEW d \in HandDates, NEW row, row = [lead EXCEPT !.status = "qualified", !.dates = d], UpdateLead(row)
      PROVE  LeadInv'
  <2>1. row \in LeadRow /\ row.project = lead.project BY <1>1, <1>3, EnteredRows
  <2> QED BY <1>3, <2>1, UpdateLeadKept
<1>4. ASSUME NEW given \in HandRatings, NEW l \in DaysLeft, NEW row, UpdateLead(row),
             row = [lead EXCEPT !.score = given.score, !.priority = given.priority, !.left = l]
      PROVE  LeadInv'
  <2>1. row \in LeadRow /\ row.project = lead.project BY <1>1, <1>4, EnteredRows
  <2> QED BY <1>4, <2>1, UpdateLeadKept
<1>5. ASSUME NEW given \in HandRatings, NEW l \in DaysLeft, NEW row, CreateLead(row),
             row = [ImportedLead EXCEPT !.score = given.score, !.priority = given.priority, !.left = l]
      PROVE  LeadInv'
  <2>1. row \in LeadRow /\ row.project = 0 BY <1>5, EnteredRows, ImportedIs
  <2> QED BY <1>5, <2>1, CreateLeadKept
<1> QED BY <1>2, <1>3, <1>4, <1>5

LEMMA DocsTyped ==
    ASSUME LeadTypes PROVE /\ Rows = 1..Len(leadDoc) /\ Len(leadDoc) \in Nat
                           /\ \A r \in Rows : leadDoc[r] \in DocRow
<1>1. leadDoc \in Seq(DocRow) BY DEF LeadTypes
<1> QED BY <1>1, LenProperties, ElementOfSeq DEF Rows

\* Other columns of the documents are written, all of them at once.
LEMMA DocsRewritten ==
    ASSUME LeadInv, NEW g, leadDoc' = [r \in Rows |-> g[r]],
           \A r \in Rows : g[r] \in DocRow /\ g[r].url = leadDoc[r].url
    PROVE  /\ leadDoc' \in Seq(DocRow) /\ Rows' = Rows /\ \A r \in Rows : leadDoc'[r] = g[r]
<1>1. Rows = 1..Len(leadDoc) /\ Len(leadDoc) \in Nat BY DocsTyped DEF LeadInv
<1>2. PICK n \in Nat : Rows = 1..n BY <1>1
<1>3. leadDoc' = [r \in 1..n |-> g[r]] BY <1>2
<1>4. \A r \in 1..n : g[r] \in DocRow BY <1>2
<1>5. leadDoc' \in Seq(DocRow) BY <1>3, <1>4
<1> QED BY <1>2, <1>3, <1>5 DEF Rows

LEMMA DeleteLeadKept == ASSUME LeadInv, DeleteLead PROVE LeadInv'
<1>1. /\ HasLead /\ lead' = DeletedLead /\ UNCHANGED <<leadProject, leadWork, offered, overlap, byHand>>
  BY DEF DeleteLead
<1>2. PICK g : g = [r \in Rows |-> [leadDoc[r] EXCEPT !.status = "gone"]] OBVIOUS
<1>3. \A r \in Rows : g[r] \in DocRow /\ g[r].url = leadDoc[r].url
  <2> SUFFICES ASSUME NEW r \in Rows PROVE g[r] \in DocRow /\ g[r].url = leadDoc[r].url OBVIOUS
  <2>1. PICK t \in DocRow : t = leadDoc[r] BY DocsTyped DEF LeadInv
  <2>2. g[r] = [t EXCEPT !.status = "gone"] BY <1>2, <2>1
  <2> QED BY <2>1, <2>2 DEF DocRow
<1>4. leadDoc' \in Seq(DocRow) /\ Rows' = Rows /\ \A r \in Rows : leadDoc'[r] = g[r]
  <2>1. leadDoc' = [r \in Rows |-> g[r]] BY <1>2 DEF DeleteLead, Rows
  <2> QED BY <1>3, <2>1, DocsRewritten
<1>5. lead' # NoLead /\ ~HasLead' BY <1>1 DEF NoLead, DeletedLead, HasLead
<1>6. LeadTypes' BY <1>1, <1>4, <1>5 DEF LeadInv, LeadTypes
<1>7. WorkTypes' BY <1>1 DEF LeadInv, WorkTypes, Doing, Fetching, TodoFits
<1>8. ConvertFits' BY <1>1, <1>5, ConvertStays DEF Doing
<1>9. FetchFits' BY <1>1, <1>3, <1>4, FetchStays DEF Doing
<1>10. ScoreFits' BY <1>1, <1>5, ScoreStays
<1> QED BY <1>6, <1>7, <1>8, <1>9, <1>10 DEF LeadInv

LEMMA CooldownPassesKept == ASSUME LeadInv, CooldownPasses PROVE LeadInv'
<1>1. UNCHANGED <<lead, leadProject, leadWork, offered, overlap, byHand>>
  BY DEF CooldownPasses
<1>2. PICK g : g = [r \in Rows |-> [leadDoc[r] EXCEPT !.cool = TRUE]] OBVIOUS
<1>3. \A r \in Rows : g[r] \in DocRow /\ g[r].url = leadDoc[r].url /\ g[r].status = leadDoc[r].status
  <2> SUFFICES ASSUME NEW r \in Rows
               PROVE  g[r] \in DocRow /\ g[r].url = leadDoc[r].url /\ g[r].status = leadDoc[r].status
    OBVIOUS
  <2>1. PICK t \in DocRow : t = leadDoc[r] BY DocsTyped DEF LeadInv
  <2>2. g[r] = [t EXCEPT !.cool = TRUE] BY <1>2, <2>1
  <2> QED BY <2>1, <2>2 DEF DocRow
<1>4. leadDoc' \in Seq(DocRow) /\ Rows' = Rows /\ \A r \in Rows : leadDoc'[r] = g[r]
  <2>1. leadDoc' = [r \in Rows |-> g[r]] BY <1>2 DEF CooldownPasses
  <2> QED BY <1>3, <2>1, DocsRewritten
<1>5. (HasLead' <=> HasLead) /\ LeadTypes BY <1>1 DEF HasLead, LeadInv
<1>6. LeadTypes'
  <2>1. HasLead => \A r \in Rows : leadDoc'[r].status # "gone" BY <1>3, <1>4, <1>5 DEF LeadTypes
  <2>2. lead = NoLead => leadDoc' = <<>>
    <3>1. lead = NoLead => Len(leadDoc) = 0 BY <1>5 DEF LeadTypes
    <3>2. lead = NoLead => Rows = {} BY <1>5, <3>1, DocsTyped
    <3>3. lead = NoLead => Len(leadDoc') = 0 BY <1>4, <3>2, LenProperties DEF Rows
    <3> QED BY <1>4, <3>3, EmptySeq
  <2> QED BY <1>1, <1>4, <1>5, <2>1, <2>2 DEF LeadTypes
<1>7. WorkTypes' BY <1>1 DEF LeadInv, WorkTypes, Doing, Fetching, TodoFits
<1>8. ConvertFits' BY <1>1, <1>5, ConvertStays DEF Doing
<1>9. FetchFits' BY <1>1, <1>3, <1>4, FetchStays DEF Doing
<1>10. ScoreFits' BY <1>1, <1>5, ScoreStays
<1> QED BY <1>6, <1>7, <1>8, <1>9, <1>10 DEF LeadInv

LEMMA RegistryPublishesKept == ASSUME LeadInv, NEW u \in Urls, RegistryPublishes(u) PROVE LeadInv'
<1>1. offered' \subseteq Urls BY DEF LeadInv, LeadTypes, RegistryPublishes
<1> QED BY <1>1, NobodyMoves DEF RegistryPublishes

LEMMA AsksKept ==
    ASSUME LeadInv, FetchEndpoint \/ FetchAllPendingDocuments \/ RunPreAuditPipeline PROVE LeadInv'
<1>1. offered' \subseteq Urls BY DEF LeadInv, LeadTypes, FetchEndpoint, FetchAllPendingDocuments, RunPreAuditPipeline
<1> QED BY <1>1, NobodyMoves DEF FetchEndpoint, FetchAllPendingDocuments, RunPreAuditPipeline

(* Tasks *)

LEMMA QueueStepsKept ==
    ASSUME LeadInv, NEW w \in LeadWorkers, QueueFetch(w) \/ QueuePreAudit(w) \/ WorkerDies(w) \/ TaskFails(w)
    PROVE  LeadInv'
<1>1. leadWork' = [leadWork EXCEPT ![w] = Idle] /\ UNCHANGED <<lead, leadDoc, leadProject, offered, overlap, byHand>>
  BY DEF QueueFetch, QueuePreAudit, WorkerDies, TaskFails, Fails, Raises, Ends, Goes
<1> QED BY <1>1, WorkerMoves, IdleIs

LEMMA BulkImportLoadKept == ASSUME LeadInv, NEW w \in LeadWorkers, BulkImportLoad(w) PROVE LeadInv'
<1>1. PICK v : v = [at |-> "import"] OBVIOUS
<1>2. v.at \notin ScoringSteps \cup FetchSteps \cup {"attach"} BY <1>1 DEF ScoringSteps, FetchSteps
<1>3. leadWork' = [leadWork EXCEPT ![w] = v] /\ UNCHANGED <<lead, leadDoc, leadProject, offered, overlap, byHand>>
  BY <1>1 DEF BulkImportLoad, Goes
<1> QED BY <1>2, <1>3, WorkerMoves

\* A worker takes up a step of its kind, which nobody else is at unless that is on record.
LEMMA StepTaken ==
    ASSUME LeadInv, NEW w \in LeadWorkers, Doing(w, "idle"), NEW v, leadWork' = [leadWork EXCEPT ![w] = v],
           UNCHANGED <<lead, leadDoc, leadProject, offered, byHand>>,
           \/ v.at = "attach" /\ overlap' = Overlaps({"attach"}, "convert") /\ (HasLead => lead.project = 0)
           \/ v.at = "fetch" /\ overlap' = Overlaps(FetchSteps, "fetch")
    PROVE  LeadInv'
<1>1. /\ leadWork' = [x \in LeadWorkers |-> leadWork'[x]] /\ leadWork'[w] = v
      /\ \A x \in LeadWorkers : x # w => leadWork'[x] = leadWork[x]
  BY WorkWritten DEF LeadInv
<1>2. LeadTypes' BY <1>1 DEF LeadInv, LeadTypes, Rows, HasLead
<1>3. WorkTypes' BY WorkStays
<1>4. overlap \subseteq overlap' BY OverlapsIs
<1>5. HasLead' <=> HasLead BY DEF HasLead
<1>6. ConvertFits'
  <2>1. CASE v.at = "fetch"
    <3>1. \A x \in LeadWorkers : Doing(x, "attach")' => Doing(x, "attach") BY <1>1, <2>1 DEF Doing
    <3> QED BY <1>4, <1>5, <3>1, ConvertStays
  <2>2. CASE v.at = "attach"
    <3> SUFFICES ASSUME "convert" \notin overlap'
                 PROVE  /\ OneOf({"attach"})' /\ Len(leadProject) <= 1
                        /\ HasLead /\ Len(leadProject) > 0 => lead.project # 0
                        /\ ~(HasLead /\ lead.project # 0)
      BY <1>5 DEF ConvertFits, HasLead
    <3>1. \A x \in LeadWorkers : leadWork[x].at \notin {"attach"} BY <2>2, OverlapsIs
    <3>2. OneOf({"attach"})' BY <1>1, <3>1 DEF OneOf
    <3>3. ConvertFits /\ "convert" \notin overlap BY <1>4 DEF LeadInv
    <3> QED BY <2>2, <3>2, <3>3 DEF ConvertFits
  <2> QED BY <2>1, <2>2
<1>7. FetchFits'
  <2>1. Rows' = Rows BY DEF Rows
  <2>2. CASE v.at = "attach"
    <3>1. \A x \in LeadWorkers : leadWork'[x].at \in FetchSteps => leadWork'[x] = leadWork[x]
      BY <1>1, <2>2 DEF FetchSteps
    <3>2. \A x \in LeadWorkers : Doing(x, "store")' => leadWork'[x] = leadWork[x] BY <3>1 DEF Doing, FetchSteps
    <3> QED BY <1>4, <2>1, <3>1, <3>2, FetchStays DEF Doing
  <2>3. CASE v.at = "fetch"
    <3> SUFFICES ASSUME "fetch" \notin overlap'
                 PROVE  /\ OneOf(FetchSteps)' /\ UrlsOnce
                        /\ \A x \in LeadWorkers : ~Doing(x, "store")'
      BY <2>1 DEF FetchFits, UrlsOnce
    <3>1. \A x \in LeadWorkers : leadWork[x].at \notin FetchSteps BY <2>3, OverlapsIs
    <3>2. \A x \in LeadWorkers : leadWork'[x].at \in FetchSteps => x = w BY <1>1, <3>1
    <3>3. OneOf(FetchSteps)' BY <3>2 DEF OneOf, FetchSteps
    <3>4. UrlsOnce BY <1>4 DEF LeadInv, FetchFits
    <3>5. \A x \in LeadWorkers : ~Doing(x, "store")' BY <1>1, <2>3, <3>2 DEF Doing, FetchSteps
    <3> QED BY <3>3, <3>4, <3>5
  <2> QED BY <2>2, <2>3
<1>8. ScoreFits'
  <2>1. \A x \in LeadWorkers : leadWork'[x].at \in ScoringSteps => leadWork'[x] = leadWork[x]
    BY <1>1 DEF ScoringSteps
  <2> QED BY <1>4, <1>5, <2>1, ScoreStays
<1> QED BY <1>2, <1>3, <1>6, <1>7, <1>8 DEF LeadInv

LEMMA ConversionLoaded ==
    ASSUME LeadInv, NEW w \in LeadWorkers, Doing(w, "idle"), NEW m, LoadForConversion(w, m),
           UNCHANGED <<lead, leadDoc, leadProject, offered, byHand>>
    PROVE  LeadInv'
<1>1. CASE ValidateLead
  <2>1. PICK v : v = [at |-> "attach", msg |-> m] OBVIOUS
  <2>2. leadWork' = [leadWork EXCEPT ![w] = v] /\ overlap' = Overlaps({"attach"}, "convert") /\ lead.project = 0
    BY <1>1, <2>1 DEF LoadForConversion, Goes, ValidateLead
  <2> QED BY <2>1, <2>2, StepTaken
<1>2. CASE ~ValidateLead
  <2>1. leadWork' = [leadWork EXCEPT ![w] = Idle] /\ UNCHANGED overlap BY <1>2 DEF LoadForConversion, Goes
  <2> QED BY <2>1, WorkerMoves, IdleIs
<1> QED BY <1>1, <1>2

LEMMA ConvertEndpointKept == ASSUME LeadInv, NEW w \in LeadWorkers, ConvertEndpoint(w) PROVE LeadInv'
BY ConversionLoaded DEF ConvertEndpoint

LEMMA TakeTaskKept == ASSUME LeadInv, NEW w \in LeadWorkers, TakeTask(w) PROVE LeadInv'
<1>1. Doing(w, "idle") /\ UNCHANGED <<lead, leadDoc, leadProject, offered, byHand>> BY DEF TakeTask
<1>2. PICK m : m = Head(leadQueue) OBVIOUS
<1>3. CASE m.task = "convert"
  <2>1. LoadForConversion(w, m) BY <1>2, <1>3 DEF TakeTask
  <2> QED BY <1>1, <2>1, ConversionLoaded
<1>4. CASE m.task = "fetch"
  <2>1. PICK v : v = [at |-> "fetch", msg |-> m] OBVIOUS
  <2>2. leadWork' = [leadWork EXCEPT ![w] = v] /\ overlap' = Overlaps(FetchSteps, "fetch")
    BY <1>2, <1>4, <2>1 DEF TakeTask, Goes
  <2> QED BY <1>1, <2>1, <2>2, StepTaken
<1>5. CASE m.task # "convert" /\ m.task # "fetch"
  <2>1. PICK v : v = [at |-> "preaudit", msg |-> m] OBVIOUS
  <2>2. leadWork' = [leadWork EXCEPT ![w] = v] /\ UNCHANGED overlap BY <1>2, <1>5, <2>1 DEF TakeTask, Goes
  <2>3. v.at \notin ScoringSteps \cup FetchSteps \cup {"attach"} BY <2>1 DEF ScoringSteps, FetchSteps
  <2> QED BY <1>1, <2>2, <2>3, WorkerMoves
<1> QED BY <1>3, <1>4, <1>5
(* Documents *)

\* A worker that fetches goes on fetching; rows are written or added.
LEMMA FetcherMoves ==
    ASSUME LeadInv, NEW w \in LeadWorkers, leadWork[w].at \in FetchSteps,
           NEW v, leadWork' = [leadWork EXCEPT ![w] = v],
           UNCHANGED <<lead, leadProject, offered, overlap, byHand>>,
           \/ v.at = "store" /\ v.new \subseteq Urls /\ TodoFits(v.todo)
           \/ v.at = "fetching" /\ Fetching(v),
           leadDoc' \in Seq(DocRow), Rows \subseteq Rows', lead = NoLead => leadDoc' = <<>>,
           HasLead => \A r \in Rows' : leadDoc'[r].status # "gone",
           "fetch" \notin overlap =>
               /\ UrlsOnce'
               /\ v.at = "store" => \A u \in v.new, r \in Rows' : leadDoc'[r].url # u
    PROVE  LeadInv'
<1>1. /\ leadWork' = [x \in LeadWorkers |-> leadWork'[x]] /\ leadWork'[w] = v
      /\ \A x \in LeadWorkers : x # w => leadWork'[x] = leadWork[x]
  BY WorkWritten DEF LeadInv
<1>2. v.at \in FetchSteps /\ v.at \notin ScoringSteps \cup {"attach"} BY DEF FetchSteps, ScoringSteps
<1>3. HasLead' <=> HasLead BY DEF HasLead
<1>4. LeadTypes' BY <1>1, <1>3 DEF LeadInv, LeadTypes
<1>5. WorkTypes'
  <2>1. ASSUME NEW x \in LeadWorkers
        PROVE  /\ Doing(x, "scored")' => leadWork'[x].score \in Int
               /\ Doing(x, "upsert")' => leadWork'[x].days \in DaysSeen /\ leadWork'[x].left \in DaysLeft
               /\ Doing(x, "store")' => leadWork'[x].new \subseteq Urls /\ TodoFits(leadWork'[x].todo)
               /\ Doing(x, "fetching")' => Fetching(leadWork'[x])
    <3>1. CASE x = w BY <1>1, <1>2, <3>1 DEF Doing, ScoringSteps
    <3>2. CASE x # w BY <1>1, <3>2 DEF Doing, WorkTypes, LeadInv
    <3> QED BY <3>1, <3>2
  <2> QED BY <2>1 DEF WorkTypes, Fetching, TodoFits, Doing
<1>6. ConvertFits'
  <2>1. \A x \in LeadWorkers : Doing(x, "attach")' => Doing(x, "attach") BY <1>1, <1>2 DEF Doing
  <2> QED BY <1>3, <2>1, ConvertStays
<1>7. ScoreFits'
  <2>1. \A x \in LeadWorkers : leadWork'[x].at \in ScoringSteps => leadWork'[x] = leadWork[x] BY <1>1, <1>2
  <2>2. HasLead => lead.score = lead'.score /\ lead.priority = lead'.priority OBVIOUS
  <2> QED BY <1>3, <2>1, <2>2, ScoreStays
<1>8. FetchFits'
  <2> SUFFICES ASSUME "fetch" \notin overlap
               PROVE  /\ OneOf(FetchSteps)' /\ UrlsOnce'
                      /\ \A x \in LeadWorkers : Doing(x, "store")' =>
                             \A u \in leadWork'[x].new, r \in Rows' : leadDoc'[r].url # u
    BY DEF FetchFits
  <2>1. OneOf(FetchSteps) BY DEF LeadInv, FetchFits
  <2>2. \A x \in LeadWorkers : leadWork'[x].at \in FetchSteps => leadWork[x].at \in FetchSteps BY <1>1
  <2>3. OneOf(FetchSteps)' BY <2>1, <2>2 DEF OneOf, FetchSteps
  <2>4. \A x \in LeadWorkers : Doing(x, "store")' => x = w BY <1>1, <2>1, <2>2 DEF OneOf, Doing, FetchSteps
  <2>5. \A x \in LeadWorkers : Doing(x, "store")' =>
            \A u \in leadWork'[x].new, r \in Rows' : leadDoc'[r].url # u
    BY <1>1, <2>4 DEF Doing
  <2> QED BY <2>3, <2>5
<1> QED BY <1>4, <1>5, <1>6, <1>7, <1>8 DEF LeadInv

LEMMA DiscoverDocumentsKept == ASSUME LeadInv, NEW w \in LeadWorkers, DiscoverDocuments(w) PROVE LeadInv'
<1>1. Doing(w, "fetch") /\ UNCHANGED <<lead, leadDoc, leadProject, offered, overlap, byHand>> BY DEF DiscoverDocuments
<1>2. CASE ~HasLead
  <2>1. leadWork' = [leadWork EXCEPT ![w] = Idle] BY <1>2 DEF DiscoverDocuments, Goes
  <2> QED BY <1>1, <2>1, WorkerMoves, IdleIs
<1>3. CASE HasLead
  <2> DEFINE known == {r \in Existing : leadDoc[r].url \in offered}
  <2>1. PICK new : new = offered \ UrlsOf(known) OBVIOUS
  <2>2. PICK todo : todo = [r \in DocsToFetch(known) |-> leadDoc[r]] OBVIOUS
  <2>3. PICK v : v = [at |-> "store", msg |-> Msg(w), new |-> new, todo |-> todo] OBVIOUS
  <2>4. leadWork' = [leadWork EXCEPT ![w] = v] BY <1>3, <2>1, <2>2, <2>3 DEF DiscoverDocuments, Goes
  <2>5. \A r \in Rows : leadDoc[r] \in DocRow /\ leadDoc[r].status # "gone"
    BY <1>3, DocsTyped DEF LeadInv, LeadTypes
  <2>6. TodoFits(v.todo)
    <3>1. DOMAIN todo \subseteq Rows /\ \A r \in DOMAIN todo : todo[r] = leadDoc[r]
      BY <2>2 DEF DocsToFetch, Existing
    <3> QED BY <2>3, <2>5, <3>1 DEF TodoFits, DocRow
  <2>7. new \subseteq Urls BY <2>1 DEF LeadInv, LeadTypes
  <2>8. ASSUME UrlsOnce, NEW u \in new, NEW r \in Rows PROVE leadDoc[r].url # u
    <3>1. Rows \subseteq Int BY DocsTyped DEF LeadInv
    <3>2. r \in Existing BY <2>5, <2>8, <3>1 DEF Existing, UrlsOnce
    <3> QED BY <2>1, <2>8, <3>2 DEF UrlsOf
  <2>9. "fetch" \notin overlap => UrlsOnce BY DEF LeadInv, FetchFits
  <2>10. UrlsOnce' <=> UrlsOnce BY <1>1 DEF UrlsOnce, Rows
  <2>11. Rows' = Rows BY <1>1 DEF Rows
  <2>12. leadWork[w].at \in FetchSteps BY <1>1 DEF Doing, FetchSteps
  <2>13. leadDoc' \in Seq(DocRow) /\ (lead = NoLead => leadDoc' = <<>>) BY <1>1 DEF LeadInv, LeadTypes
  <2>14. v.at = "store" /\ v.new = new BY <2>3
  <2> HIDE DEF known
  <2> QED BY <1>1, <2>4, <2>5, <2>6, <2>7, <2>8, <2>9, <2>10, <2>11, <2>12, <2>13, <2>14, FetcherMoves
<1> QED BY <1>2, <1>3

\* The rows of the documents that are stored: one for each, in some order.
LEMMA SequenceOf ==
    ASSUME NEW S, IsFiniteSet(S)
    PROVE  /\ SetToSeq(S) \in Seq(S) /\ Len(SetToSeq(S)) = Cardinality(S) /\ Cardinality(S) \in Nat
           /\ \A a, b \in 1..Cardinality(S) : SetToSeq(S)[a] = SetToSeq(S)[b] => a = b
<1>1. PICK n \in Nat : n = Cardinality(S) /\ ExistsBijection(1..n, S) BY FS_CardinalityType
<1>2. \E f \in [1..n -> S] : IsInjective(f) BY <1>1 DEF ExistsBijection, Bijection, Injection
<1>3. PICK s : s = SetToSeq(S) OBVIOUS
<1>4. s \in [1..n -> S] /\ IsInjective(s) BY <1>1, <1>2, <1>3 DEF SetToSeq
<1>5. s \in Seq(S) /\ Len(s) = n BY <1>4
<1> QED BY <1>1, <1>3, <1>4, <1>5 DEF IsInjective

RowsOf(new) == SetToSeq({LeadDocument(u) : u \in new})

LEMMA NewRows ==
    ASSUME NEW new, new \subseteq Urls, NEW s, s = RowsOf(new)
    PROVE  /\ s \in Seq(DocRow) /\ (new = {} => s = <<>>) /\ (new # {} => s # <<>>)
           /\ \A a \in 1..Len(s) : s[a].url \in new /\ s[a].status = "discovered" /\ s[a].attempts \in Nat
           /\ \A a, b \in 1..Len(s) : s[a].url = s[b].url => a = b
<1>1. IsFiniteSet(new) BY LeadAssumption, FS_Subset
<1>2. PICK S : S = {LeadDocument(u) : u \in new} OBVIOUS
<1>3. \A u : LeadDocument(u).url = u /\ LeadDocument(u).status = "discovered" /\ LeadDocument(u).attempts = 0
  BY DEF LeadDocument
<1>4. S \subseteq DocRow
  <2> SUFFICES ASSUME NEW u \in new PROVE LeadDocument(u) \in DocRow BY <1>2
  <2>1. u \in Urls OBVIOUS
  <2>2. "discovered" \in {"discovered", "fetched", "failed", "gone"} /\ 0 \in Nat /\ TRUE \in BOOLEAN OBVIOUS
  <2> QED BY <2>1, <2>2 DEF LeadDocument, DocRow
<1>5. IsFiniteSet(S) /\ Cardinality(S) = Cardinality(new)
  <2>1. PICK f : f = [u \in new |-> LeadDocument(u)] OBVIOUS
  <2>2. f \in [new -> S] BY <1>2, <2>1
  <2>3. IsInjective(f) BY <1>3, <2>1 DEF IsInjective
  <2>4. \A t \in S : \E u \in new : f[u] = t BY <1>2, <2>1
  <2>5. f \in Bijection(new, S) BY <2>2, <2>3, <2>4 DEF Bijection, Injection, Surjection
  <2>6. ExistsBijection(new, S) BY <2>5 DEF ExistsBijection
  <2> QED BY <1>1, <2>6, FS_Bijection
<1>6. s = SetToSeq(S) BY <1>2 DEF RowsOf
<1>7. PICK n \in Nat : n = Cardinality(S) BY <1>5, FS_CardinalityType
<1>8. s \in Seq(S) /\ Len(s) = n /\ \A a, b \in 1..n : s[a] = s[b] => a = b BY <1>5, <1>6, <1>7, SequenceOf
<1>9. \A a \in 1..n : s[a] \in S BY <1>8, ElementOfSeq
<1>10. s \in Seq(DocRow) BY <1>4, <1>8, <1>9
<1>11. \A a \in 1..n : s[a].url \in new /\ s[a].status = "discovered" /\ s[a].attempts \in Nat BY <1>2, <1>3, <1>9
<1>12. \A a, b \in 1..n : s[a].url = s[b].url => a = b
  <2>1. \A a \in 1..n : s[a] = LeadDocument(s[a].url) BY <1>2, <1>3, <1>9
  <2> QED BY <1>8, <2>1
<1>13. new = {} => s = <<>>
  <2>1. new = {} => n = 0 BY <1>1, <1>5, <1>7, FS_EmptySet
  <2> QED BY <1>8, <2>1, EmptySeq
<1>14. new # {} => s # <<>>
  <2>1. new # {} => n # 0 BY <1>1, <1>5, <1>7, FS_EmptySet
  <2> QED BY <1>8, <2>1, EmptySeq
<1> QED BY <1>2, <1>6, <1>8, <1>10, <1>11, <1>12, <1>13, <1>14

LEMMA StoreDiscoveredKept == ASSUME LeadInv, NEW w \in LeadWorkers, StoreDiscovered(w) PROVE LeadInv'
<1>1. Doing(w, "store") /\ UNCHANGED <<lead, leadProject, offered, overlap, byHand>> BY DEF StoreDiscovered
<1>2. PICK new : new = leadWork[w].new /\ new \subseteq Urls BY <1>1 DEF LeadInv, WorkTypes
<1>3. PICK todo : todo = leadWork[w].todo /\ TodoFits(todo) BY <1>1 DEF LeadInv, WorkTypes
<1>4. PICK s : s = RowsOf(new) OBVIOUS
<1>5. /\ s \in Seq(DocRow) /\ (new = {} => s = <<>>) /\ (new # {} => s # <<>>)
      /\ \A a \in 1..Len(s) : s[a].url \in new /\ s[a].status = "discovered" /\ s[a].attempts \in Nat
      /\ \A a, b \in 1..Len(s) : s[a].url = s[b].url => a = b
  BY <1>2, <1>4, NewRows
<1>6. CASE new # {} /\ ~HasLead
  <2>1. leadWork' = [leadWork EXCEPT ![w] = Idle] /\ UNCHANGED leadDoc
    BY <1>2, <1>4, <1>5, <1>6 DEF RowsOf, StoreDiscovered, Raises, Ends, Goes
  <2> QED BY <1>1, <2>1, WorkerMoves, IdleIs
<1>7. CASE new = {} \/ HasLead
  <2>1. PICK grown : grown = leadDoc \o s OBVIOUS
  <2>2. PICK more : more = [r \in DOMAIN todo \cup (Len(leadDoc) + 1)..Len(grown) |->
                               IF r \in DOMAIN todo THEN todo[r] ELSE grown[r]]
    OBVIOUS
  <2>3. PICK v : v = [at |-> "fetching", msg |-> Msg(w), todo |-> more] OBVIOUS
  <2>4. leadDoc' = grown /\ leadWork' = [leadWork EXCEPT ![w] = v]
    <3>1. ~(s # <<>> /\ ~HasLead) /\ s = SetToSeq({LeadDocument(u) : u \in leadWork[w].new})
      BY <1>2, <1>4, <1>5, <1>7 DEF RowsOf
    <3>2. /\ leadDoc' = leadDoc \o s
          /\ leadWork' = [leadWork EXCEPT ![w] =
                 [at |-> "fetching", msg |-> Msg(w),
                  todo |-> [r \in DOMAIN leadWork[w].todo \cup (Len(leadDoc) + 1)..Len(leadDoc \o s) |->
                               IF r \in DOMAIN leadWork[w].todo THEN leadWork[w].todo[r] ELSE (leadDoc \o s)[r]]]]
      BY <3>1 DEF StoreDiscovered, Goes
    <3>3. leadWork' = [leadWork EXCEPT ![w] = [at |-> "fetching", msg |-> Msg(w), todo |-> more]]
      BY <1>3, <2>1, <2>2, <3>2
    <3> QED BY <2>1, <2>3, <3>2, <3>3
  <2>5. PICK m \in Nat : m = Len(leadDoc) /\ Rows = 1..m BY DocsTyped DEF LeadInv
  <2>6. PICK n \in Nat : n = Len(s) BY <1>5, LenProperties
  <2>7. leadDoc \in Seq(DocRow) BY DEF LeadInv, LeadTypes
  <2>8. /\ grown \in Seq(DocRow) /\ Len(grown) = m + n
        /\ \A i \in 1..(m + n) : grown[i] = IF i <= m THEN leadDoc[i] ELSE s[i - m]
    BY <1>5, <2>1, <2>5, <2>6, <2>7, ConcatProperties
  <2>9. DOMAIN grown = 1..(m + n) BY <2>8, LenProperties
  <2>10. \A i \in 1..m : grown[i] = leadDoc[i] BY <2>8
  <2>11. \A i \in (m + 1)..(m + n) : i - m \in 1..n /\ grown[i] = s[i - m] BY <2>8
  <2>12. Fetching(v)
    <3>1. DOMAIN v = {"at", "msg", "todo"} /\ v.todo = more BY <2>3
    <3>2. \A r \in DOMAIN more : more[r].attempts \in Nat
      <4> SUFFICES ASSUME NEW r \in DOMAIN more PROVE more[r].attempts \in Nat OBVIOUS
      <4>1. CASE r \in DOMAIN todo BY <1>3, <2>2, <4>1 DEF TodoFits
      <4>2. CASE r \notin DOMAIN todo
        <5>1. r \in (m + 1)..(m + n) /\ more[r] = grown[r] BY <2>2, <2>5, <2>8, <4>2
        <5> QED BY <1>5, <2>6, <2>11, <5>1
      <4> QED BY <4>1, <4>2
    <3> QED BY <3>1, <3>2 DEF Fetching, TodoFits
  <2>13. Rows' = 1..(m + n) /\ Rows \subseteq Rows' BY <2>4, <2>5, <2>9 DEF Rows
  <2>14. lead = NoLead => leadDoc' = <<>>
    <3> SUFFICES ASSUME lead = NoLead PROVE leadDoc' = <<>> OBVIOUS
    <3>1. leadDoc = <<>> /\ s = <<>> BY <1>5, <1>7 DEF LeadInv, LeadTypes, HasLead
    <3>2. m = 0 /\ n = 0 BY <2>5, <2>6, <3>1
    <3> QED BY <2>4, <2>8, <3>2, EmptySeq
  <2>15. HasLead => \A r \in Rows' : leadDoc'[r].status # "gone"
    <3> SUFFICES ASSUME HasLead, NEW r \in Rows' PROVE leadDoc'[r].status # "gone" OBVIOUS
    <3>1. CASE r <= m
      <4>1. r \in Rows /\ grown[r] = leadDoc[r] BY <2>5, <2>10, <2>13, <3>1
      <4> QED BY <2>4, <4>1 DEF LeadInv, LeadTypes
    <3>2. CASE ~(r <= m)
      <4>1. r \in (m + 1)..(m + n) BY <2>13, <3>2
      <4> QED BY <1>5, <2>4, <2>6, <2>11, <4>1
    <3> QED BY <3>1, <3>2
  <2>16. ASSUME "fetch" \notin overlap PROVE UrlsOnce'
    <3>1. UrlsOnce /\ \A u \in new, r \in Rows : leadDoc[r].url # u
      BY <1>1, <1>2, <2>16 DEF LeadInv, FetchFits
    <3>2. \A i, j \in 1..m : grown[i].url = grown[j].url => i = j BY <2>5, <2>10, <3>1 DEF UrlsOnce
    <3>3. \A i \in 1..m, j \in (m + 1)..(m + n) : grown[i].url # grown[j].url
      <4> SUFFICES ASSUME NEW i \in 1..m, NEW j \in (m + 1)..(m + n) PROVE grown[i].url # grown[j].url OBVIOUS
      <4>1. grown[i] = leadDoc[i] /\ leadDoc[i].url \notin new BY <2>5, <2>10, <3>1
      <4>2. j - m \in 1..n /\ grown[j] = s[j - m] BY <2>11
      <4>3. grown[j].url \in new BY <1>5, <2>6, <4>2
      <4> QED BY <4>1, <4>3
    <3>4. \A i, j \in (m + 1)..(m + n) : grown[i].url = grown[j].url => i = j
      <4> SUFFICES ASSUME NEW i \in (m + 1)..(m + n), NEW j \in (m + 1)..(m + n), grown[i].url = grown[j].url
                   PROVE  i = j
        OBVIOUS
      <4>1. i - m \in 1..n /\ j - m \in 1..n /\ s[i - m].url = s[j - m].url BY <2>11
      <4>2. i - m = j - m BY <1>5, <2>6, <4>1
      <4> QED BY <4>2
    <3>5. \A i \in 1..(m + n) : i \in 1..m \/ i \in (m + 1)..(m + n) OBVIOUS
    <3>6. \A i, j \in 1..(m + n) : grown[i].url = grown[j].url => i = j BY <3>2, <3>3, <3>4, <3>5
    <3> QED BY <2>4, <2>13, <3>6 DEF UrlsOnce
  <2>17. v.at = "fetching" /\ leadWork[w].at \in FetchSteps BY <1>1, <2>3 DEF Doing, FetchSteps
  <2>18. leadDoc' \in Seq(DocRow) BY <2>4, <2>8
  <2> QED BY <1>1, <2>4, <2>12, <2>13, <2>14, <2>15, <2>16, <2>17, <2>18, FetcherMoves
<1> QED BY <1>6, <1>7

LEMMA FetchDocumentKept ==
    ASSUME LeadInv, NEW w \in LeadWorkers, NEW r \in Rows, NEW result \in {"fetched", "failed"},
           FetchDocument(w, r, result)
    PROVE  LeadInv'
<1>1. Doing(w, "fetching") /\ r \in DOMAIN leadWork[w].todo /\ UNCHANGED <<lead, leadProject, offered, overlap, byHand>>
  BY DEF FetchDocument
<1>2. PICK c : c = leadWork[w] /\ Fetching(c) /\ c.at = "fetching" BY <1>1 DEF LeadInv, WorkTypes, Doing
<1>3. CASE leadDoc[r].status = "gone"
  <2>1. leadWork' = [leadWork EXCEPT ![w] = Idle] /\ UNCHANGED leadDoc
    BY <1>3 DEF FetchDocument, Raises, Ends, Goes
  <2> QED BY <1>1, <2>1, WorkerMoves, IdleIs
<1>4. CASE leadDoc[r].status # "gone"
  <2>1. PICK t \in DocRow : t = leadDoc[r] BY DocsTyped DEF LeadInv
  <2>2. PICK n \in Nat : n = c.todo[r].attempts + 1 BY <1>1, <1>2 DEF Fetching, TodoFits
  <2>3. PICK a \in {"discovered", "fetched", "failed"} : a = IF result = c.todo[r].status THEN t.status ELSE result
    BY <1>4, <2>1 DEF DocRow
  <2>4. PICK b \in Nat : b = IF result = "fetched" THEN t.attempts ELSE n BY <2>1, <2>2 DEF DocRow
  <2>5. PICK d \in BOOLEAN : d = (result = "fetched") OBVIOUS
  <2>6. PICK row : row = [url |-> t.url, status |-> a, attempts |-> b, cool |-> d] OBVIOUS
  <2>7. row \in DocRow /\ row.url = leadDoc[r].url /\ row.status # "gone" BY <2>1, <2>3, <2>4, <2>5, <2>6 DEF DocRow
  <2>8. leadDoc' = [leadDoc EXCEPT ![r] = row]
    <3>1. leadDoc' = [leadDoc EXCEPT ![r].status = IF result = c.todo[r].status THEN @ ELSE result,
                                     ![r].attempts = IF result = "fetched" THEN @ ELSE c.todo[r].attempts + 1,
                                     ![r].cool = result = "fetched"]
      BY <1>2, <1>4 DEF FetchDocument
    <3>2. leadDoc' = [leadDoc EXCEPT ![r] = [t EXCEPT !.status = a, !.attempts = b, !.cool = d]]
      BY <2>1, <2>2, <2>3, <2>4, <2>5, <3>1
    <3>3. PICK e : e = [t EXCEPT !.status = a, !.attempts = b, !.cool = d] OBVIOUS
    <3>4. /\ DOMAIN e = {"url", "status", "attempts", "cool"} /\ e.url = t.url /\ e.status = a
          /\ e.attempts = b /\ e.cool = d
      BY <2>1, <3>3 DEF DocRow
    <3>5. e = [url |-> e.url, status |-> e.status, attempts |-> e.attempts, cool |-> e.cool]
      BY <2>1, <3>3 DEF DocRow
    <3>6. e = row BY <2>6, <3>4, <3>5
    <3> QED BY <3>2, <3>3, <3>6
  <2>9. PICK todo : todo = [q \in DOMAIN c.todo \ {r} |-> c.todo[q]] OBVIOUS
  <2>10. PICK v : v = [c EXCEPT !.todo = todo] OBVIOUS
  <2>11. leadWork' = [leadWork EXCEPT ![w] = v] BY <1>2, <1>4, <2>9, <2>10 DEF FetchDocument, Goes
  <2>12. v.at = "fetching" /\ v.todo = todo /\ DOMAIN v = DOMAIN c BY <1>2, <2>10 DEF Fetching
  <2>13. Fetching(v)
    <3>1. \A q \in DOMAIN todo : todo[q].attempts \in Nat BY <1>2, <2>9 DEF Fetching, TodoFits
    <3> QED BY <1>2, <2>12, <3>1 DEF Fetching, TodoFits
  <2>14. PICK m \in Nat : m = Len(leadDoc) /\ Rows = 1..m BY DocsTyped DEF LeadInv
  <2>15. leadDoc \in Seq(DocRow) /\ (lead = NoLead => leadDoc = <<>>) BY DEF LeadInv, LeadTypes
  <2>16. leadDoc' \in Seq(DocRow) /\ Rows' = Rows BY <2>7, <2>8, <2>14, <2>15, ExceptSeq DEF Rows
  <2>17. leadDoc'[r] = row /\ \A q \in Rows : q # r => leadDoc'[q] = leadDoc[q]
    BY <2>8, <2>14, <2>15, ExceptSeq DEF Rows
  <2>18. HasLead => \A q \in Rows' : leadDoc'[q].status # "gone" BY <2>7, <2>16, <2>17 DEF LeadInv, LeadTypes
  <2>19. "fetch" \notin overlap => UrlsOnce'
    <3>1. \A q \in Rows : leadDoc'[q].url = leadDoc[q].url BY <2>7, <2>17
    <3> QED BY <2>16, <3>1 DEF LeadInv, FetchFits, UrlsOnce
  <2>20. lead # NoLead
    <3>1. r \in 1..m BY <2>14
    <3>2. lead = NoLead => m = 0 BY <2>14, <2>15
    <3> QED BY <3>1, <3>2
  <2>21. leadWork[w].at \in FetchSteps BY <1>1 DEF Doing, FetchSteps
  <2> QED BY <1>1, <2>11, <2>12, <2>13, <2>16, <2>18, <2>19, <2>20, <2>21, FetcherMoves
<1> QED BY <1>3, <1>4

\* Columns of the lead that nothing here looks at are written by a worker that is done.
LEMMA RowWritten ==
    ASSUME LeadInv, NEW w \in LeadWorkers, NEW v, leadWork' = [leadWork EXCEPT ![w] = v],
           v.at \notin ScoringSteps \cup FetchSteps \cup {"attach"},
           UNCHANGED <<leadDoc, leadProject, offered, overlap, byHand>>, HasLead, lead' \in LeadRow,
           lead'.project = lead.project, lead'.score = lead.score, lead'.priority = lead.priority
    PROVE  LeadInv'
<1>1. /\ leadWork'[w] = v /\ \A x \in LeadWorkers : x # w => leadWork'[x] = leadWork[x]
  BY WorkWritten DEF LeadInv
<1>2. lead' # NoLead /\ lead' # DeletedLead BY RowsAreLeads
<1>3. LeadTypes' /\ WorkTypes' BY <1>2, LeadTypedMoves DEF ScoringSteps, FetchSteps
<1>4. \A x \in LeadWorkers : leadWork'[x].at \in ScoringSteps \cup FetchSteps \cup {"attach"} =>
                                leadWork'[x] = leadWork[x]
  BY <1>1
<1>5. ConvertFits'
  <2>1. \A x \in LeadWorkers : Doing(x, "attach")' => Doing(x, "attach") BY <1>4 DEF Doing
  <2> QED BY <2>1, ConvertStays
<1>6. FetchFits'
  <2>1. \A x \in LeadWorkers : Doing(x, "store")' => leadWork'[x] = leadWork[x] BY <1>4 DEF Doing, FetchSteps
  <2>2. Rows' = Rows BY DEF Rows
  <2> QED BY <1>4, <2>1, <2>2, FetchStays DEF Doing
<1>7. ScoreFits' BY <1>2, <1>4, ScoreStays
<1> QED BY <1>3, <1>5, <1>6, <1>7 DEF LeadInv

\* The fingerprint of the documents is one of the registry's.
LEMMA FingerprintWritten ==
    ASSUME LeadInv, HasLead, NEW row, row = [lead EXCEPT !.fingerprint = ComputeDocumentFingerprint]
    PROVE  /\ row \in LeadRow /\ row.project = lead.project /\ row.score = lead.score
           /\ row.priority = lead.priority
<1>1. lead \in LeadRow BY HasLeadIs DEF LeadInv
<1>2. ComputeDocumentFingerprint \subseteq Urls
  <2>1. \A r \in Rows : leadDoc[r].url \in Urls BY DocsTyped DEF LeadInv, DocRow
  <2> QED BY <2>1 DEF ComputeDocumentFingerprint, UrlsOf, Fetched
<1>3. PICK print : print = ComputeDocumentFingerprint OBVIOUS
<1> QED BY <1>1, <1>2, <1>3 DEF LeadRow

LEMMA StoreFingerprintKept == ASSUME LeadInv, NEW w \in LeadWorkers, StoreFingerprint(w) PROVE LeadInv'
<1>1. /\ leadWork' = [leadWork EXCEPT ![w] = Idle] /\ UNCHANGED <<leadDoc, leadProject, offered, overlap, byHand>>
      /\ lead' = IF HasLead THEN [lead EXCEPT !.fingerprint = ComputeDocumentFingerprint] ELSE lead
  BY DEF StoreFingerprint, Ends, Goes
<1>2. CASE HasLead
  <2>1. lead' = [lead EXCEPT !.fingerprint = ComputeDocumentFingerprint] BY <1>1, <1>2
  <2>2. /\ lead' \in LeadRow /\ lead'.project = lead.project /\ lead'.score = lead.score
        /\ lead'.priority = lead.priority
    BY <1>2, <2>1, FingerprintWritten
  <2> QED BY <1>1, <1>2, <2>2, IdleIs, RowWritten
<1>3. CASE ~HasLead BY <1>1, <1>3, WorkerMoves, IdleIs
<1> QED BY <1>2, <1>3

LEMMA ReAuditKept == ASSUME LeadInv, ReAuditChangedProjects PROVE LeadInv'
<1>1. /\ HasLead /\ UNCHANGED <<leadDoc, leadProject, leadWork, offered, overlap, byHand>>
      /\ lead' = [lead EXCEPT !.fingerprint = ComputeDocumentFingerprint]
  BY DEF ReAuditChangedProjects
<1>2. /\ lead' \in LeadRow /\ lead'.project = lead.project /\ lead'.score = lead.score
      /\ lead'.priority = lead.priority
  BY <1>1, FingerprintWritten
<1> QED BY <1>1, <1>2, RowChanges

(* Conversion and pre-audit *)

LEMMA ConvertKept == ASSUME LeadInv, NEW w \in LeadWorkers, Convert(w) PROVE LeadInv'
<1>1. Doing(w, "attach") /\ UNCHANGED <<leadDoc, offered, overlap, byHand>> BY DEF Convert
<1>2. CASE ~HasLead
  <2>1. leadWork' = [leadWork EXCEPT ![w] = Idle] /\ UNCHANGED <<lead, leadProject>>
    BY <1>2 DEF Convert, Raises, Ends, Goes
  <2> QED BY <1>1, <2>1, WorkerMoves, IdleIs
<1>3. CASE HasLead
  <2>1. LeadTypes /\ lead \in LeadRow BY <1>3, HasLeadIs DEF LeadInv
  <2>2. PICK n \in Nat : n = Len(leadProject) /\ leadProject \in Seq(ProjectRow)
    BY <2>1, LenProperties DEF LeadTypes
  <2>3. PICK t : t = [docs |-> Fetched, basis |-> {}, audits |-> 0] OBVIOUS
  <2>4. PICK v : v = [at |-> IF Msg(w) = Request THEN "preaudit" ELSE "queueAudit",
                      msg |-> Msg(w), project |-> n + 1]
    OBVIOUS
  <2>5. PICK row : row = [lead EXCEPT !.project = n + 1, !.status = "converted"] OBVIOUS
  <2>6. leadProject' = Append(leadProject, t) /\ lead' = row /\ leadWork' = [leadWork EXCEPT ![w] = v]
    BY <1>3, <2>2, <2>3, <2>4, <2>5 DEF Convert, Goes
  <2>7. Rows \subseteq Nat /\ Fetched \subseteq Rows BY <2>1, DocsTyped DEF Fetched
  <2>8. t \in ProjectRow /\ t.docs \subseteq Rows BY <2>3, <2>7 DEF ProjectRow
  <2>9. /\ leadProject' \in Seq(ProjectRow) /\ Len(leadProject') = n + 1
        /\ \A p \in 1..n : leadProject'[p] = leadProject[p]
        /\ leadProject'[n + 1] = t
    BY <2>2, <2>6, <2>8, AppendProperties
  <2>10. row \in LeadRow /\ row.project = n + 1 /\ row.score = lead.score /\ row.priority = lead.priority
    <3>1. /\ lead.dates \in Periods /\ lead.fingerprint \in SUBSET Urls /\ lead.score \in Int
          /\ lead.priority \in Priorities /\ lead.days \in DaysSeen \cup {0} /\ lead.left \in DaysLeft \cup {400}
      BY <2>1 DEF LeadRow
    <3>2. row = [status |-> "converted", dates |-> lead.dates, project |-> n + 1,
                 fingerprint |-> lead.fingerprint, days |-> lead.days, left |-> lead.left,
                 score |-> lead.score, priority |-> lead.priority]
      BY <2>1, <2>5 DEF LeadRow
    <3>3. "converted" \in LeadStatus /\ n + 1 \in Nat BY DEF LeadStatus
    <3> QED BY <3>1, <3>2, <3>3 DEF LeadRow
  <2>11. lead' # NoLead /\ lead' # DeletedLead /\ HasLead' BY <2>6, <2>10, RowsAreLeads DEF HasLead
  <2>12. v.at \notin ScoringSteps \cup FetchSteps \cup {"attach"}
    <3>1. v.at \in {"preaudit", "queueAudit"} BY <2>4
    <3> QED BY <3>1 DEF ScoringSteps, FetchSteps
  <2>13. /\ leadWork' = [x \in LeadWorkers |-> leadWork'[x]] /\ leadWork'[w] = v
         /\ \A x \in LeadWorkers : x # w => leadWork'[x] = leadWork[x]
    BY <2>1, <2>6, WorkWritten
  <2>14. \A x \in LeadWorkers : leadWork'[x].at \in ScoringSteps \cup FetchSteps \cup {"attach"} =>
                                   x # w /\ leadWork'[x] = leadWork[x]
    BY <2>12, <2>13
  <2>15. Rows' = Rows BY <1>1 DEF Rows
  <2>16. LeadTypes'
    <3>1. \A p \in DOMAIN leadProject' : leadProject'[p].docs \subseteq Rows
      <4>1. DOMAIN leadProject' = 1..(n + 1) /\ DOMAIN leadProject = 1..n BY <2>2, <2>9, LenProperties
      <4>2. \A p \in 1..n : leadProject[p].docs \subseteq Rows BY <2>1, <4>1 DEF LeadTypes
      <4>3. \A p \in 1..(n + 1) : p \in 1..n \/ p = n + 1 OBVIOUS
      <4> QED BY <2>8, <2>9, <4>1, <4>2, <4>3
    <3>2. HasLead' => \A r \in Rows' : leadDoc'[r].status # "gone" BY <1>1, <1>3, <2>1, <2>15 DEF LeadTypes
    <3>3. leadDoc' \in Seq(DocRow) /\ offered' \subseteq Urls BY <1>1, <2>1 DEF LeadTypes
    <3> QED BY <2>6, <2>9, <2>10, <2>11, <2>13, <2>15, <3>1, <3>2, <3>3 DEF LeadTypes
  <2>17. WorkTypes' BY <2>6, <2>12, WorkStays DEF ScoringSteps, FetchSteps
  <2>18. ConvertFits'
    <3> SUFFICES ASSUME "convert" \notin overlap
                 PROVE  OneOf({"attach"})' /\ n + 1 <= 1 /\ \A x \in LeadWorkers : ~Doing(x, "attach")'
      BY <1>1, <2>6, <2>9, <2>10 DEF ConvertFits
    <3>1. OneOf({"attach"}) /\ lead.project = 0 BY <1>1, <1>3 DEF LeadInv, ConvertFits
    <3>2. n = 0 BY <1>3, <2>2, <3>1 DEF LeadInv, ConvertFits
    <3>3. \A x \in LeadWorkers : ~Doing(x, "attach")'
      <4>1. \A x \in LeadWorkers : Doing(x, "attach") => x = w BY <1>1, <3>1 DEF OneOf, Doing
      <4> QED BY <2>14, <4>1 DEF Doing
    <3>4. OneOf({"attach"})' BY <3>3 DEF OneOf, Doing
    <3> QED BY <3>2, <3>3, <3>4
  <2>19. FetchFits'
    <3>1. \A x \in LeadWorkers : Doing(x, "store")' => leadWork'[x] = leadWork[x] BY <2>14 DEF Doing, FetchSteps
    <3> QED BY <1>1, <2>14, <2>15, <3>1, FetchStays DEF Doing
  <2>20. ScoreFits' BY <1>1, <1>3, <2>6, <2>10, <2>11, <2>14, ScoreStays
  <2> QED BY <2>16, <2>17, <2>18, <2>19, <2>20 DEF LeadInv
<1> QED BY <1>2, <1>3

LEMMA RunForProjectKept == ASSUME LeadInv, NEW w \in LeadWorkers, RunForProject(w) PROVE LeadInv'
<1>1. leadWork' = [leadWork EXCEPT ![w] = Idle] /\ UNCHANGED <<lead, leadDoc, offered, overlap, byHand>>
  BY DEF RunForProject, Ends, Goes
<1>2. PICK p : p = CHOOSE q \in PendingAudit(w) : TRUE OBVIOUS
<1>3. PICK print : print = ComputeDocumentFingerprint OBVIOUS
<1>4. leadProject' = [leadProject EXCEPT ![p].audits = 1, ![p].basis = print]
  BY <1>2, <1>3 DEF RunForProject
<1>5. LeadTypes BY DEF LeadInv
<1>6. PICK n \in Nat : n = Len(leadProject) /\ leadProject \in Seq(ProjectRow) /\ DOMAIN leadProject = 1..n
  BY <1>5, LenProperties DEF LeadTypes
<1>7. /\ leadProject' \in Seq(ProjectRow) /\ Len(leadProject') = n /\ DOMAIN leadProject' = 1..n
      /\ \A q \in 1..n : leadProject'[q].docs = leadProject[q].docs
  <2>1. PICK row : row = [leadProject[p] EXCEPT !.audits = 1, !.basis = print] OBVIOUS
  <2>2. leadProject' = [leadProject EXCEPT ![p] = row] BY <1>4, <2>1
  <2>3. CASE p \in 1..n
    <3>1. PICK t \in ProjectRow : t = leadProject[p] BY <1>6, <2>3, ElementOfSeq
    <3>2. print \subseteq Urls
      <4>1. \A r \in Rows : leadDoc[r].url \in Urls BY <1>5, DocsTyped DEF DocRow
      <4> QED BY <1>3, <4>1 DEF ComputeDocumentFingerprint, UrlsOf, Fetched
    <3>3. row \in ProjectRow /\ row.docs = t.docs BY <2>1, <3>1, <3>2 DEF ProjectRow
    <3> QED BY <1>6, <2>2, <2>3, <3>1, <3>3, ExceptSeq
  <2>4. CASE p \notin 1..n
    <3>1. leadProject' = leadProject BY <1>6, <2>2, <2>4
    <3> QED BY <1>6, <3>1
  <2> QED BY <2>3, <2>4
<1>8. /\ leadWork' = [x \in LeadWorkers |-> leadWork'[x]] /\ leadWork'[w] = Idle
      /\ \A x \in LeadWorkers : x # w => leadWork'[x] = leadWork[x]
  BY <1>1, <1>5, WorkWritten
<1>9. \A x \in LeadWorkers : leadWork'[x].at \in ScoringSteps \cup FetchSteps \cup {"attach"} =>
                                leadWork'[x] = leadWork[x]
  BY <1>8, IdleIs
<1>10. (HasLead' <=> HasLead) /\ Rows' = Rows BY <1>1 DEF HasLead, Rows
<1>11. LeadTypes'
  <2>1. lead = NoLead => leadProject' = <<>>
    <3>1. lead = NoLead => n = 0 BY <1>5, <1>6 DEF LeadTypes
    <3> QED BY <1>7, <3>1, EmptySeq
  <2>2. \A q \in 1..n : leadProject'[q].docs \subseteq Rows BY <1>5, <1>6, <1>7 DEF LeadTypes
  <2>3. lead' \in {NoLead, DeletedLead} \cup LeadRow /\ leadDoc' \in Seq(DocRow) /\ offered' \subseteq Urls
    BY <1>1, <1>5 DEF LeadTypes
  <2>4. (lead = NoLead => leadDoc' = <<>>) /\ (HasLead => \A r \in Rows : leadDoc'[r].status # "gone")
    BY <1>1, <1>5 DEF LeadTypes
  <2> QED BY <1>1, <1>7, <1>8, <1>10, <2>1, <2>2, <2>3, <2>4 DEF LeadTypes
<1>12. WorkTypes' BY <1>1, WorkStays, IdleIs DEF ScoringSteps, FetchSteps
<1>13. ConvertFits'
  <2>1. \A x \in LeadWorkers : Doing(x, "attach")' => Doing(x, "attach") BY <1>9 DEF Doing
  <2> QED BY <1>1, <1>6, <1>7, <1>10, <2>1, ConvertStays
<1>14. FetchFits'
  <2>1. \A x \in LeadWorkers : Doing(x, "store")' => leadWork'[x] = leadWork[x] BY <1>9 DEF Doing, FetchSteps
  <2> QED BY <1>1, <1>9, <1>10, <2>1, FetchStays DEF Doing
<1>15. ScoreFits' BY <1>1, <1>9, <1>10, ScoreStays
<1> QED BY <1>11, <1>12, <1>13, <1>14, <1>15 DEF LeadInv

(* Together *)

LEMMA LeadStarts == LeadInit => LeadInv
<1> SUFFICES ASSUME LeadInit PROVE LeadInv OBVIOUS
<1>1. /\ lead = NoLead /\ leadDoc = <<>> /\ leadProject = <<>> /\ leadWork = [w \in LeadWorkers |-> Idle]
      /\ offered \subseteq Urls
  BY DEF LeadInit
<1>2. \A w \in LeadWorkers : leadWork[w].at \notin ScoringSteps \cup FetchSteps \cup {"attach"}
  BY <1>1, IdleIs
<1>3. ~HasLead BY <1>1 DEF HasLead
<1>4. Rows = {} /\ DOMAIN leadProject = {} /\ Len(leadProject) = 0 BY <1>1 DEF Rows
<1>5. LeadTypes BY <1>1, <1>3, <1>4, EmptySeq DEF LeadTypes
<1>6. WorkTypes BY <1>2 DEF WorkTypes, Doing, ScoringSteps, FetchSteps
<1>7. ConvertFits BY <1>2, <1>3, <1>4 DEF ConvertFits, OneOf
<1>8. FetchFits
  <2>1. OneOf(FetchSteps) BY <1>2 DEF OneOf
  <2>2. \A w \in LeadWorkers : ~Doing(w, "store") BY <1>2 DEF Doing, FetchSteps
  <2> QED BY <1>4, <2>1, <2>2 DEF FetchFits, UrlsOnce
<1>9. ScoreFits
  <2>1. OneOf(ScoringSteps) BY <1>2 DEF OneOf
  <2> QED BY <1>2, <1>3, <2>1 DEF ScoreFits
<1> QED BY <1>5, <1>6, <1>7, <1>8, <1>9 DEF LeadInv

LEMMA LeadStep == LeadInv /\ [PipelineNext \/ ScoringNext]_leadVars => LeadInv'
<1> SUFFICES ASSUME LeadInv, [PipelineNext \/ ScoringNext]_leadVars PROVE LeadInv' OBVIOUS
<1>1. CASE UNCHANGED leadVars BY <1>1, NobodyMoves DEF leadVars, LeadInv, LeadTypes
<1>2. ASSUME NEW w \in LeadWorkers, WorkStep(w) PROVE LeadInv'
  BY <1>2, TakeTaskKept, ImportLeadKept, QueueStepsKept, DiscoverDocumentsKept, StoreDiscoveredKept,
     StoreFingerprintKept, FetchDocumentKept, ConvertKept, RunForProjectKept DEF WorkStep
<1>3. ASSUME NEW w \in LeadWorkers, WorkerDies(w) \/ TaskFails(w) \/ BulkImportLoad(w) \/ ConvertEndpoint(w)
      PROVE  LeadInv'
  BY <1>3, QueueStepsKept, BulkImportLoadKept, ConvertEndpointKept
<1>4. CASE FetchSchedule \/ RunPreAuditPipeline \/ ReAuditChangedProjects \/ FetchEndpoint
  BY <1>4, AsksKept, CooldownPassesKept, ReAuditKept DEF FetchSchedule
<1>5. CASE \/ CreateLead(ImportedLead) \/ DeleteLead
           \/ \E d \in HandDates : UpdateLead([lead EXCEPT !.status = "qualified", !.dates = d])
  BY <1>5, DeleteLeadKept, EntryKept
<1>6. ASSUME NEW u \in Urls, RegistryPublishes(u) PROVE LeadInv' BY <1>6, RegistryPublishesKept
<1>7. CASE PipelineNext BY <1>2, <1>3, <1>4, <1>5, <1>6, <1>7 DEF PipelineNext
<1>8. CASE ScoringNext
  BY <1>8, ScoreLoadKept, CheckDeadlinesKept, StoreScoreKept, UpsertLeadKept, QueueStepsKept, ScrapeLoadKept, EntryKept
     DEF ScoringNext
<1> QED BY <1>1, <1>7, <1>8

LEMMA LeadsHoldThere == LeadInv => LeadsHold
<1> SUFFICES ASSUME LeadInv PROVE LeadsHold OBVIOUS
<1>1. LeadTypes /\ ConvertFits /\ FetchFits /\ ScoreFits BY DEF LeadInv
<1>2. OneProjectPerLead
  <2>1. Len(leadProject) \in Nat BY <1>1, LenProperties DEF LeadTypes
  <2> QED BY <1>1, <2>1 DEF OneProjectPerLead, ConvertFits
<1>3. DocumentsOnce
  <2> SUFFICES ASSUME "fetch" \notin overlap, NEW p \in DOMAIN leadProject, NEW docs, docs = leadProject[p].docs
               PROVE  ~(Cardinality(UrlsOf(docs)) < Cardinality(docs))
    BY DEF DocumentsOnce
  <2>1. docs \subseteq Rows BY <1>1 DEF LeadTypes
  <2>2. PICK n \in Nat : Rows = 1..n BY <1>1, DocsTyped
  <2>3. IsFiniteSet(docs)
    <3>1. IsFiniteSet(1..n) BY <2>2, FS_Interval
    <3> QED BY <2>1, <2>2, <3>1, FS_Subset
  <2>4. PICK f : f = [r \in docs |-> leadDoc[r].url] OBVIOUS
  <2>5. PICK T : T = UrlsOf(docs) OBVIOUS
  <2>6. f \in [docs -> T] /\ \A u \in T : \E r \in docs : f[r] = u BY <2>4, <2>5 DEF UrlsOf
  <2>7. IsInjective(f) BY <1>1, <2>1, <2>4 DEF IsInjective, FetchFits, UrlsOnce
  <2>8. f \in Bijection(docs, T) BY <2>6, <2>7 DEF Bijection, Injection, Surjection
  <2>9. ExistsBijection(docs, T) BY <2>8 DEF ExistsBijection
  <2>10. Cardinality(T) = Cardinality(docs) /\ Cardinality(docs) \in Nat BY <2>3, <2>9, FS_Bijection, FS_CardinalityType
  <2> QED BY <2>5, <2>10
<1>4. PriorityFitsScore BY <1>1 DEF PriorityFitsScore, ScoreFits
<1> QED BY <1>2, <1>3, <1>4 DEF LeadsHold

\* lead_intelligence, pre_audit: whatever workers, tasks, retries and deaths, a lead becomes one
\* project, of distinct documents, and no task leaves it a priority that is not that of its
\* score, whatever a person had entered, unless two conversions, two fetches or two scorings
\* overlapped.
THEOREM LeadsAreKept == LeadSpec => []LeadsHold
<1>1. LeadSpec => []LeadInv BY LeadStarts, LeadStep, PTL DEF LeadSpec
<1> QED BY <1>1, LeadsHoldThere, PTL
=============================================================================
