------------------------------ MODULE Brokerage ------------------------------
(***************************************************************************)
(* The TransactionEngine (brokerage/transaction_engine.py) behind the      *)
(* requests of api/brokerage.py, for one listing.                          *)
(*                                                                         *)
(* Every request is a session of its own.  It selects rows without a lock, *)
(* checks and changes its copies, and writes the columns it has changed    *)
(* when it commits; the SELECTs of one request see different moments.      *)
(* Credits are natural numbers here (floats in the code).                  *)
(***************************************************************************)
EXTENDS Integers, FiniteSetsExt

CONSTANTS Requests,       \* concurrent requests
          Trades,         \* transactions that can be created
          Listed,         \* credits of the new listing
          MinPurchase,    \* listing.minimum_purchase
          Kinds,          \* trade types of the requests
          Amounts,        \* credits_amount of the requests
          MaxCredits      \* bound: on available_credits

ASSUME BrokerageAssumption ==
    /\ Listed \in Nat \ {0} /\ MinPurchase \in Nat /\ MaxCredits \in Nat
    /\ Listed <= MaxCredits
    /\ Kinds \subseteq {"spot", "forward", "escrow"}
    /\ Amounts \subseteq Nat \ {0}
    /\ IsFiniteSet(Trades)

NoTrade == [status |-> "none"]
NoCall == [op |-> "idle"]

VARIABLES available,    \* listing.available_credits
          listing,      \* listing.status: "active" or "sold"
          trade,        \* BrokerageTransaction rows, each with its Escrow
          call,         \* what each request is doing, on which copies
          confirmed,    \* history: spot trades that confirm_transaction has confirmed
          overridden,   \* history: trades whose escrow an operator released
          raced         \* history: a commit used copies another commit had made
                        \* old, or went on with a cancelled trade

vars == <<available, listing, trade, call, confirmed, overridden, raced>>
rows == <<available, listing, trade>>
history == <<confirmed, overridden, raced>>

Init == /\ available = Listed /\ listing = "active"
        /\ trade = [t \in Trades |-> NoTrade]
        /\ call = [r \in Requests |-> NoCall]
        /\ confirmed = {} /\ overridden = {} /\ raced = FALSE

Exists(t) == trade[t].status # "none"
Escrowed(t) == Exists(t) /\ trade[t].kind = "escrow"

At(r, op) == call[r].op = op

\* The request remembers what it has read; stale: somebody has committed since
\* (not kept once a race has happened).
Begin(r, what) == /\ At(r, "idle")
                  /\ call' = [call EXCEPT ![r] = what]

On(op, t) == [op |-> op, t |-> t, stale |-> FALSE]

Continue(r, what) == call' = [call EXCEPT ![r] = what]

Aged(c) == IF c = NoCall THEN c ELSE [c EXCEPT !.stale = ~raced']

\* The request ends with its commit, after which the copies of others are old.
Commit(r, revived) ==
    /\ raced' = (raced \/ call[r].stale \/ revived)
    /\ call' = [q \in Requests |-> IF q = r THEN NoCall ELSE Aged(call[q])]

-----------------------------------------------------------------------------
(* create_transaction *)

Sufficient(amount) == amount <= available /\ amount >= MinPurchase

CreateLoad(r, kind, amount) ==
    /\ listing = "active" /\ Sufficient(amount)
    /\ Begin(r, [op |-> "create", kind |-> kind, amount |-> amount, left |-> available,
                stale |-> FALSE])
    /\ UNCHANGED <<rows, history>>

NewTrade(c) == [status |-> "pending", kind |-> c.kind, amount |-> c.amount,
                deposited |-> FALSE, transferred |-> FALSE, released |-> FALSE]

Create(r, t) ==
    LET c == call[r] IN
    /\ At(r, "create") /\ ~Exists(t)
    /\ trade' = [trade EXCEPT ![t] = NewTrade(c)]
    /\ available' = c.left - c.amount
    /\ listing' = IF c.left <= c.amount THEN "sold" ELSE listing
    /\ Commit(r, FALSE)
    /\ UNCHANGED <<confirmed, overridden>>

-----------------------------------------------------------------------------
(* confirm_transaction, execute_spot_trade *)

ConfirmLoad(r, t) ==
    /\ trade[t].status = "pending"
    /\ Begin(r, On("confirm", t))
    /\ UNCHANGED <<rows, history>>

Confirm(r) ==
    LET t == call[r].t IN
    /\ At(r, "confirm")
    /\ trade' = [trade EXCEPT ![t].status = "confirmed"]
    /\ confirmed' = IF trade[t].kind = "spot" THEN confirmed \cup {t} ELSE confirmed
    /\ Commit(r, FALSE)
    /\ UNCHANGED <<available, listing, overridden>>

Executable(t) == Exists(t) /\ trade[t].kind = "spot" /\ trade[t].status = "confirmed"

ExecuteLoad(r, t) ==
    /\ Executable(t)
    /\ Begin(r, On("execute", t))
    /\ UNCHANGED <<rows, history>>

Execute(r) ==
    LET t == call[r].t IN
    /\ At(r, "execute")
    /\ trade' = [trade EXCEPT ![t].status = "completed"]
    /\ Commit(r, FALSE)
    /\ UNCHANGED <<available, listing, confirmed, overridden>>

-----------------------------------------------------------------------------
(* deposit_escrow, confirm_credit_transfer, release_escrow *)

\* One column, written whatever the escrow's state.
Deposit(t) ==
    /\ Escrowed(t)
    /\ trade' = [trade EXCEPT ![t].deposited = TRUE]
    /\ UNCHANGED <<available, listing, call, history>>

TransferLoad(r, t) ==
    /\ Escrowed(t)
    /\ Begin(r, On(IF trade[t].deposited THEN "transfer" ELSE "promise", t))
    /\ UNCHANGED <<rows, history>>

\* The seller transfers before the buyer has deposited.
Promise(r) ==
    /\ At(r, "promise")
    /\ trade' = [trade EXCEPT ![call[r].t].transferred = TRUE]
    /\ Commit(r, FALSE)
    /\ UNCHANGED <<available, listing, confirmed, overridden>>

ReleaseLoad(r, t) ==
    /\ Escrowed(t)
    /\ Begin(r, On("release", t))
    /\ UNCHANGED <<rows, history>>

\* Both select the trade after the escrow; its status is not looked at.
SettleLoad(r) ==
    LET c == call[r] IN
    /\ c.op \in {"transfer", "release"}
    /\ Continue(r, [op |-> "settle", t |-> c.t, by |-> c.op,
                    already |-> trade[c.t].status = "completed", stale |-> c.stale])
    /\ UNCHANGED <<rows, history>>

\* A status that was completed already is no change and is not written.
Settle(r) ==
    LET c == call[r] IN
    /\ At(r, "settle")
    /\ trade' = [trade EXCEPT ![c.t].released = TRUE,
                              ![c.t].transferred = @ \/ c.by = "transfer",
                              ![c.t].status = IF c.already THEN @ ELSE "completed"]
    /\ overridden' = IF c.by = "release" THEN overridden \cup {c.t} ELSE overridden
    /\ Commit(r, trade[c.t].status = "cancelled")
    /\ UNCHANGED <<available, listing, confirmed>>

-----------------------------------------------------------------------------
(* cancel_transaction *)

CancelLoad(r, t) ==
    /\ Exists(t) /\ trade[t].status # "completed"
    /\ Begin(r, [op |-> "cancel", t |-> t, already |-> trade[t].status = "cancelled",
                stale |-> FALSE])
    /\ UNCHANGED <<rows, history>>

CancelLoadListing(r) ==
    LET c == call[r] IN
    /\ At(r, "cancel")
    /\ Continue(r, [op |-> "restore", t |-> c.t, already |-> c.already,
                    left |-> available, seen |-> listing, stale |-> c.stale])
    /\ UNCHANGED <<rows, history>>

\* Slip: the listing stays sold.
RestoreSold(c) == UNCHANGED listing

Reopen(c) == listing' = IF c.seen = "sold" THEN "active" ELSE listing

Cancel(r) ==
    LET c == call[r]  restored == c.left + trade[c.t].amount IN
    /\ At(r, "restore") /\ restored <= MaxCredits
    /\ available' = restored
    /\ Reopen(c)
    /\ trade' = [trade EXCEPT ![c.t].status = IF c.already THEN @ ELSE "cancelled"]
    /\ Commit(r, c.already)
    /\ UNCHANGED <<confirmed, overridden>>

-----------------------------------------------------------------------------

\* A request fails or its server dies: nothing of it is written.
Abort(r) == /\ ~At(r, "idle")
            /\ call' = [call EXCEPT ![r] = NoCall]
            /\ UNCHANGED <<rows, history>>

Next == \/ \E t \in Trades : Deposit(t)
        \/ \E r \in Requests :
              \/ \E kind \in Kinds, amount \in Amounts : CreateLoad(r, kind, amount)
              \/ \E t \in Trades : \/ Create(r, t) \/ ConfirmLoad(r, t) \/ ExecuteLoad(r, t)
                                   \/ TransferLoad(r, t) \/ ReleaseLoad(r, t) \/ CancelLoad(r, t)
              \/ Confirm(r) \/ Execute(r) \/ Promise(r) \/ SettleLoad(r) \/ Settle(r)
              \/ CancelLoadListing(r) \/ Cancel(r) \/ Abort(r)

Spec == Init /\ [][Next]_vars

-----------------------------------------------------------------------------
(* Properties *)

\* Credits taken out of the listing by trades that are not cancelled.
Reserved == MapThenSumSet(LAMBDA t : trade[t].amount,
                          {t \in Trades : Exists(t) /\ trade[t].status # "cancelled"})

\* create_transaction, cancel_transaction: as long as no commit used old copies
\* or went on with a cancelled trade, every credit is either in the listing or
\* in one trade, and the listing is sold exactly when it is empty.
Conserved == ~raced => /\ available + Reserved = Listed
                       /\ listing = "sold" <=> available = 0

\* TransactionEngine ("payment held until credit transfer confirmed"): a payment
\* no operator released was deposited and its credits were transferred, in
\* every race of deposits, transfers and cancellations.
PaidBeforeRelease == \A t \in Trades \ overridden :
    Escrowed(t) /\ trade[t].released => trade[t].deposited /\ trade[t].transferred

\* execute_spot_trade: a spot trade is completed only after it was confirmed,
\* whatever else is done to it in between.
SpotNeedsConfirmation == \A t \in Trades :
    Exists(t) /\ trade[t].kind = "spot" /\ trade[t].status = "completed" => t \in confirmed

\* confirm_credit_transfer, release_escrow: as long as nothing raced, an escrow
\* is released exactly when its trade is completed.
EscrowFollowsTrade == ~raced => \A t \in Trades :
    Escrowed(t) => (trade[t].released <=> trade[t].status = "completed")

\* transaction_engine.py: credits are neither lost nor sold twice, and confirmation,
\* deposit, transfer and release keep their order in every trade.
TradesHold == Conserved /\ PaidBeforeRelease /\ SpotNeedsConfirmation /\ EscrowFollowsTrade

\* create_transaction ("Listing has sufficient credits"): the trades that are not
\* cancelled never take more credits than the listing had.
NeverOversold == Reserved <= Listed

=============================================================================
