----------------------------- MODULE TokenLedger -----------------------------
(***************************************************************************)
(* Carbon credit tokens (tokenization/token_service.py): minted, divided,  *)
(* listed, bought and retired by concurrent requests.  Every request loads *)
(* its rows, checks them and commits; nothing locks them.  UPDATE names    *)
(* only the columns that differ from the loaded ones.                      *)
(***************************************************************************)
EXTENDS Integers, FiniteSets, Functions, FiniteSetsExt

CONSTANTS Tokens, Listings, Requests,
          Minted,            \* bound: tokens that are minted, the others are fractions
          Tonnes,            \* tonnes of a minted token; a fraction is one tonne
          MaxRetired         \* bound: retirements of all tokens

\* No token has the name that stands for no parent.
ASSUME LedgerAssumption ==
    /\ Tonnes \in Nat \ {0} /\ MaxRetired \in Nat
    /\ IsFiniteSet(Tokens) /\ IsFiniteSet(Requests) /\ "none" \notin Tokens

TokenStatus == {"minted", "listed", "sold", "fractional", "retired"}
CarbonCreditToken == [status : TokenStatus, tonnes : 1..Tonnes, parent : Tokens \cup {"none"}]
TokenListing == [token : Tokens, amount : 0..Tonnes, status : {"active", "sold"}]

VARIABLES calculations,   \* whether the calculation run exists; its status is never read
          token, listing, \* rows, or NoRow
          retirements,    \* TokenRetirement rows of each token: with and without a burn reference
          anchored,       \* external: burns of each token on the Radix ledger
          bought,         \* history: tonnes paid for on each listing
          offered,        \* history: amount each listing was created with
          treq,           \* what each request has loaded
          unseenBurns,    \* history: burns of a request that died before its commit or was never answered
          contended       \* history: listings on which two purchases overlapped

tokenVars == <<calculations, token, listing, retirements, anchored, bought, offered, treq, unseenBurns, contended>>

NoRow == [status |-> "none"]
NoRequest == [op |-> "none"]
Unused == {k \in Tokens \ Minted : token[k] = NoRow}

TokenInit == /\ calculations \in BOOLEAN
             /\ token = [k \in Tokens |-> NoRow] /\ listing = [l \in Listings |-> NoRow]
             /\ retirements = [k \in Tokens |-> [burnt |-> 0, unburnt |-> 0]]
             /\ anchored = [k \in Tokens |-> 0]
             /\ bought = [l \in Listings |-> 0] /\ offered = [l \in Listings |-> 0]
             /\ treq = [r \in Requests |-> NoRequest]
             /\ unseenBurns = [k \in Tokens |-> 0] /\ contended = {}

\* Only the existence of the calculation run is checked.  Whether the anchor of
\* the metadata succeeds decides on the address alone, and never on the token.
MintToken(k) ==
    /\ calculations /\ token[k] = NoRow /\ k \in Minted
    /\ token' = [token EXCEPT ![k] = [status |-> "minted", tonnes |-> Tonnes, parent |-> "none"]]
    /\ UNCHANGED <<calculations, listing, retirements, anchored, bought, offered, treq, unseenBurns, contended>>

Loads(r, req) == /\ treq[r] = NoRequest
                 /\ treq' = [treq EXCEPT ![r] = req]
                 /\ UNCHANGED <<calculations, token, listing, retirements, anchored,
                                bought, offered, unseenBurns, contended>>
Done(r) == treq' = [treq EXCEPT ![r] = NoRequest]

-----------------------------------------------------------------------------
(* Division: the fractions sum to the parent *)

LoadParent(r, k) == /\ token[k].status = "minted" /\ token[k].tonnes > 1
                    /\ Loads(r, [op |-> "divide", token |-> k])

\* The fractions are fresh rows of one tonne each.
Divided(k, n) ==
    /\ n <= Cardinality(Unused)
    /\ LET fractions == CHOOSE ks \in kSubset(n, Unused) : TRUE IN
       token' = [c \in Tokens |->
           CASE c \in fractions -> [status |-> "minted", tonnes |-> 1, parent |-> k]
             [] c = k           -> [token[k] EXCEPT !.status = "fractional"]
             [] OTHER           -> token[c]]

FractionalizeToken(r) ==
    /\ treq[r].op = "divide"
    /\ Divided(treq[r].token, token[treq[r].token].tonnes)
    /\ Done(r)
    /\ UNCHANGED <<calculations, listing, retirements, anchored, bought, offered, unseenBurns, contended>>

-----------------------------------------------------------------------------
(* The market *)

LoadForListing(r, k, n) ==
    /\ token[k].status \in {"minted", "sold"} /\ n <= token[k].tonnes
    /\ Loads(r, [op |-> "list", token |-> k, n |-> n])

ListToken(r, l) ==
    /\ treq[r].op = "list" /\ listing[l] = NoRow
    /\ listing' = [listing EXCEPT ![l] = [token |-> treq[r].token, amount |-> treq[r].n,
                                          status |-> "active"]]
    /\ offered' = [offered EXCEPT ![l] = treq[r].n]
    /\ token' = [token EXCEPT ![treq[r].token].status = "listed"]
    /\ Done(r)
    /\ UNCHANGED <<calculations, retirements, anchored, bought, unseenBurns, contended>>

LoadsListing(r, l, n) ==
    /\ treq[r] = NoRequest
    /\ treq' = [treq EXCEPT ![r] = [op |-> "buy", listing |-> l, n |-> n, amount |-> listing[l].amount,
                                    status |-> token[listing[l].token].status]]
    /\ contended' = IF \E q \in Requests : treq[q].op = "buy" /\ treq[q].listing = l
                    THEN contended \cup {l} ELSE contended
    /\ UNCHANGED <<calculations, token, listing, retirements, anchored, bought, offered, unseenBurns>>

\* The listing and the token as the purchase computes with them.
LoadListing(r, l, n) ==
    /\ listing[l].status = "active" /\ n <= listing[l].amount
    /\ LoadsListing(r, l, n)

\* amount_available is written as computed; a status only when it changed.
BuyToken(r) ==
    /\ treq[r].op = "buy"
    /\ LET q == treq[r] l == q.listing left == q.amount - q.n IN
       /\ listing' = [listing EXCEPT ![l].amount = left,
                                     ![l].status = IF left = 0 THEN "sold" ELSE @]
       /\ token' = IF left = 0 /\ q.status # "sold"
                   THEN [token EXCEPT ![listing[l].token].status = "sold"] ELSE token
       /\ bought' = [bought EXCEPT ![l] = @ + q.n]
    /\ Done(r)
    /\ UNCHANGED <<calculations, retirements, anchored, offered, unseenBurns, contended>>

-----------------------------------------------------------------------------
(* Retirement: load, burn on the ledger, commit *)

RetirementsSoFar ==
    FoldFunction(LAMBDA n, m : n + m, 0,
                 [k \in Tokens |-> retirements[k].burnt + retirements[k].unburnt + unseenBurns[k]])
    + Cardinality({r \in Requests : treq[r].op = "retire"})

LoadForRetirement(r, k) ==
    /\ token[k] # NoRow /\ RetirementsSoFar < MaxRetired
    /\ Loads(r, [op |-> "retire", token |-> k, status |-> token[k].status, burn |-> "pending"])

\* anchor_audit_log reports a failure in its result and never raises; a post that
\* timed out may have arrived all the same.
AnchorBurn(r, outcome) ==
    /\ treq[r].op = "retire" /\ treq[r].burn = "pending"
    /\ LET k == treq[r].token IN
       /\ anchored' = IF outcome # "failed" THEN [anchored EXCEPT ![k] = @ + 1] ELSE anchored
       /\ unseenBurns' = IF outcome = "unanswered" THEN [unseenBurns EXCEPT ![k] = @ + 1] ELSE unseenBurns
    /\ treq' = [treq EXCEPT ![r].burn = IF outcome = "done" THEN "done" ELSE "failed"]
    /\ UNCHANGED <<calculations, token, listing, retirements, bought, offered, contended>>

\* Slip: no record is written when the ledger could not be reached.
RetireIfAnchored(r) ==
    /\ treq[r].op = "retire" /\ treq[r].burn # "pending"
    /\ LET q == treq[r] k == q.token IN
       /\ retirements' = IF q.burn = "done" THEN [retirements EXCEPT ![k].burnt = @ + 1] ELSE retirements
       /\ token' = IF q.status = "retired" THEN token ELSE [token EXCEPT ![k].status = "retired"]
    /\ Done(r)
    /\ UNCHANGED <<calculations, listing, anchored, bought, offered, unseenBurns, contended>>

RetireToken(r) ==
    /\ treq[r].op = "retire" /\ treq[r].burn # "pending"
    /\ LET q == treq[r] k == q.token IN
       /\ retirements' = IF q.burn = "done" THEN [retirements EXCEPT ![k].burnt = @ + 1]
                         ELSE [retirements EXCEPT ![k].unburnt = @ + 1]
       /\ token' = IF q.status = "retired" THEN token ELSE [token EXCEPT ![k].status = "retired"]
    /\ Done(r)
    /\ UNCHANGED <<calculations, listing, anchored, bought, offered, unseenBurns, contended>>

\* A request that is killed; what it has anchored stays anchored.
TokenRequestDies(r) ==
    /\ treq[r] # NoRequest
    /\ unseenBurns' = IF treq[r].op = "retire" /\ treq[r].burn = "done"
                       THEN [unseenBurns EXCEPT ![treq[r].token] = @ + 1] ELSE unseenBurns
    /\ Done(r)
    /\ UNCHANGED <<calculations, token, listing, retirements, anchored, bought, offered, contended>>

TokenNext ==
    \/ \E k \in Tokens : MintToken(k)
    \/ \E r \in Requests, k \in Tokens :
          LoadParent(r, k) \/ LoadForRetirement(r, k) \/ \E n \in 1..Tonnes : LoadForListing(r, k, n)
    \/ \E r \in Requests, l \in Listings :
          ListToken(r, l) \/ \E n \in 1..Tonnes : LoadListing(r, l, n)
    \/ \E r \in Requests : \/ FractionalizeToken(r) \/ BuyToken(r) \/ RetireToken(r)
                           \/ TokenRequestDies(r) \/ \E o \in {"done", "failed", "unanswered"} : AnchorBurn(r, o)

LedgerSpec == TokenInit /\ [][TokenNext]_tokenVars

-----------------------------------------------------------------------------
(* Properties *)

\* token_service.py fractionalize_token: whatever runs beside a division, the
\* tokens of a parent represent a whole number of its divisions: no fraction is
\* lost, and two divisions are possible only if both had loaded it as minted.
FractionsAreWhole ==
    \A k \in Tokens : token[k] # NoRow =>
        Cardinality({c \in Tokens : token[c] # NoRow /\ token[c].parent = k}) % token[k].tonnes = 0

\* buy_token: while the purchases of a listing never overlap, it sells exactly what
\* it offers and closes when nothing is left, whatever becomes of its token.
UncontendedListingIsExact ==
    \A l \in Listings : listing[l] # NoRow /\ l \notin contended =>
        /\ bought[l] + listing[l].amount = offered[l] /\ bought[l] <= offered[l]
        /\ listing[l].status = "sold" <=> listing[l].amount = 0

\* retire_token: a retired token has a retirement on record, and the burns on
\* the ledger are those on record, those about to be, and those whose request
\* died in between.
BurnsAreRecorded ==
    \A k \in Tokens :
        /\ token[k].status = "retired" => retirements[k].burnt + retirements[k].unburnt > 0
        /\ anchored[k] = retirements[k].burnt + unseenBurns[k]
               + Cardinality({r \in Requests : treq[r].op = "retire" /\ treq[r].token = k
                                               /\ treq[r].burn = "done"})

\* token_service.py: tonnes are neither made nor lost by dividing, selling and retiring.
LedgerIsExact == FractionsAreWhole /\ UncontendedListingIsExact /\ BurnsAreRecorded

\* retire_token, "Permanently retire (burn) a token for offset claims.": a token
\* that is retired stays so.
RetirementIsPermanent ==
    [][\A k \in Tokens : token[k].status = "retired" => token'[k].status = "retired"]_tokenVars

=============================================================================
