------------------------------ MODULE Matching ------------------------------
(***************************************************************************)
(* The brokerage's matching (brokerage/matching_engine.py): a global run   *)
(* loads the active listings and the profiles that take part once, and     *)
(* commits one suggestion after the other while sellers and buyers go on   *)
(* changing them.  What a listing and a profile have in common is the set  *)
(* of the four criteria they meet; scores are in percent.                  *)
(***************************************************************************)
EXTENDS Integers, FiniteSets

CONSTANTS Listings, Buyers,
          Runs,          \* global runs, of any operator
          Fits,          \* sets of criteria a pair may meet
          MaxChanges     \* bound: changes of listings and profiles

Criteria == {"methodology", "price", "timeline", "location"}

ASSUME MatchingAssumption == Fits \subseteq SUBSET Criteria /\ MaxChanges \in Nat

VARIABLES active,        \* listings whose status is active
          willing,       \* profiles with auto_match_enabled
          fits,          \* the criteria each listing and buyer meet
          matching,      \* each run: where it is, what it has loaded, what is left
          suggestions,   \* trade_matches: each pair with what it met
          changes

matchingVars == <<active, willing, fits, matching, suggestions, changes>>

Pairs == Listings \X Buyers

Weight(c) == IF c \in {"methodology", "price"} THEN 30 ELSE 20

Score(met) == LET W(c) == IF c \in met THEN Weight(c) ELSE 0
              IN W("methodology") + W("price") + W("timeline") + W("location")

Viable(met) == Score(met) >= 60

\* Slip: a listing is done with once it has a buyer.
OneBuyerEach(loaded, who) ==
    LET viable == {p \in active \X who : Viable(loaded[p])}
    IN {CHOOSE p \in viable : p[1] = l : l \in {p[1] : p \in viable}}

\* The loops over what was loaded.
Candidates(loaded, who) == {p \in active \X who : Viable(loaded[p])}

MatchingInit ==
    /\ active \in SUBSET Listings /\ willing \in SUBSET Buyers
    /\ fits \in [Pairs -> Fits]
    /\ matching = [r \in Runs |-> [at |-> "idle", loaded |-> fits, todo |-> {}, steady |-> {}]]
    /\ suggestions = {} /\ changes = 0

\* What has been eligible without interruption since a run has loaded it.
Steady(eligible) == [r \in Runs |-> [matching[r] EXCEPT !.steady = @ \cap eligible]]

\* create_buyer_profile updates a profile: all its pairs are affected.
ChangeProfile(b, takesPart, met) ==
    /\ changes < MaxChanges
    /\ changes' = changes + 1
    /\ willing' = IF takesPart THEN willing \cup {b} ELSE willing \ {b}
    /\ fits' = [p \in Pairs |-> IF p[2] = b THEN met ELSE fits[p]]
    /\ matching' = Steady({p \in active \X willing' : Viable(fits'[p])})
    /\ UNCHANGED <<active, suggestions>>

\* A listing is created, or sold (Brokerage).
ChangeListing(l) ==
    /\ changes < MaxChanges
    /\ changes' = changes + 1
    /\ active' = IF l \in active THEN active \ {l} ELSE active \cup {l}
    /\ matching' = Steady({p \in active' \X willing : Viable(fits[p])})
    /\ UNCHANGED <<willing, fits, suggestions>>

StartRun(r) ==
    /\ matching[r].at = "idle"
    /\ matching' = [matching EXCEPT ![r] =
           [at |-> "running", loaded |-> fits, todo |-> Candidates(fits, willing),
            steady |-> {p \in active \X willing : Viable(fits[p])}]]
    /\ UNCHANGED <<active, willing, fits, suggestions, changes>>

\* save_match commits with every suggestion; nothing keeps a pair from having several.
SaveMatch(r, p) ==
    /\ matching[r].at = "running" /\ p \in matching[r].todo
    /\ suggestions' = suggestions \cup {[pair |-> p, met |-> matching[r].loaded[p]]}
    /\ matching' = [matching EXCEPT ![r].todo = @ \ {p}]
    /\ UNCHANGED <<active, willing, fits, changes>>

FinishRun(r) ==
    /\ matching[r].at = "running" /\ matching[r].todo = {}
    /\ matching' = [matching EXCEPT ![r].at = "done"]
    /\ UNCHANGED <<active, willing, fits, suggestions, changes>>

\* The request dies: what it has saved stays, and another run does it again.
RunDies(r) ==
    /\ matching[r].at = "running"
    /\ matching' = [matching EXCEPT ![r].at = "dead"]
    /\ UNCHANGED <<active, willing, fits, suggestions, changes>>

MatchingNext ==
    \/ \E b \in Buyers, t \in BOOLEAN, met \in Fits : ChangeProfile(b, t, met)
    \/ \E l \in Listings : ChangeListing(l)
    \/ \E r \in Runs : \/ StartRun(r) \/ FinishRun(r) \/ RunDies(r)
                       \/ \E p \in Pairs : SaveMatch(r, p)

MatchingSpec == MatchingInit /\ [][MatchingNext]_matchingVars

\* A suggestion agrees on methodology and price, or on one of them with all the rest: the
\* two light criteria never make up for the heavy ones (brokerage/matching_engine.py:80).
SuggestionsAgree ==
    \A s \in suggestions :
        \/ {"methodology", "price"} \subseteq s.met
        \/ {"timeline", "location"} \subseteq s.met /\ s.met \cap {"methodology", "price"} # {}

\* When a run ends every pair that was eligible all the while has been suggested, after runs
\* that died half-way and whatever changed meanwhile (brokerage/matching_engine.py:204).
RunsLeaveNoneOut ==
    \A r \in Runs : matching[r].at = "done" =>
        \A p \in matching[r].steady : \E s \in suggestions : s.pair = p

\* Global matching suggests what it should, all of it (brokerage/matching_engine.py).
SuggestionsHold == SuggestionsAgree /\ RunsLeaveNoneOut
=============================================================================
