---------------------------- MODULE Calculations ----------------------------
(***************************************************************************)
(* Calculation runs: how the fraction of non-renewable biomass (fNRB) is   *)
(* capped, adjusted and flagged (calculations/fnrb_calculator.py), how the *)
(* methodologies turn evidence into a score and a verdict                  *)
(* (calculations/methodology_validator.py), and the requests of several    *)
(* operators for one run (api/calculations.py).  An fNRB is in 1/10000.    *)
(* Evidence is one band for each requirement.  A request reads the row at  *)
(* its start and commits later what it has changed of it.                  *)
(***************************************************************************)
EXTENDS Integers, FiniteSets, FiniteSetsExt

CONSTANTS Operators,     \* requests that overlap
          References,    \* fNRB found for a location, measured or interpolated
          Fuels          \* "charcoal" among them

ASSUME CalculationsAssumption == References \subseteq Nat

VARIABLES run,           \* the calculation run, with what the response said of it
          requests,      \* each operator's request: what it saw and wants to write
          validSource    \* whether the project has a data source that is valid

calculationsVars == <<run, requests, validSource>>

Cap == 5000              \* CCP_FNRB_CAP

Decided == {"draft", "review_pending", "approved", "rejected"}
NoRun == [status |-> "none", fuel |-> "none", fnrb |-> 0, notes |-> {}, method |-> "none",
          unmet |-> 0, compliant |-> FALSE, edited |-> FALSE]
AtRest == [op |-> "none", saw |-> "none", to |-> "none"]

-----------------------------------------------------------------------------
(* The fNRB and what is said about it. *)

AfterCap(reference, fuel) == Min({reference, Cap})

\* calculate_fnrb: the cap comes first, the adjustment for charcoal after it.
Fnrb(reference, fuel) ==
    LET capped == AfterCap(reference, fuel)
    IN IF fuel = "charcoal" THEN (capped * 105) \div 100 ELSE capped

\* The last check only speaks up where the cap has not been applied.
Notes(reference, fuel) ==
    {n \in {"capped", "charcoal", "critical"} :
        \/ n = "capped"   /\ reference > Cap
        \/ n = "charcoal" /\ fuel = "charcoal"
        \/ n = "critical" /\ reference <= Cap /\ Fnrb(reference, fuel) > Cap}

-----------------------------------------------------------------------------
(* Evidence, one band for each requirement; "met" is the full mark. *)

Tpddtec == [thermal : {"met", "low", "missing"}, durability : {"met", "marginal", "poor", "missing"},
            dissemination : {"met", "moderate", "low", "missing"}, tracking : {"met", "low", "missing"},
            emissions : {"met", "missing"}, lab : {"met", "missing"}]

\* How representative a sample is can be told only where there is one.
Vm0050 == {e \in [lab : {"met", "missing"}, efficiency : {"met", "low", "missing"},
                  usage : {"met", "over", "missing"}, sample : {"met", "small", "missing"},
                  weeks : {"met", "short", "missing"}, fuel : {"met", "missing"},
                  share : {"met", "low", "missing"}] :
              /\ e.lab = "missing" => e.efficiency = "missing"
              /\ e.sample = "missing" <=> e.share = "missing"}

TpddtecMark == [thermal |-> 20, durability |-> 20, dissemination |-> 15, tracking |-> 20,
                emissions |-> 15, lab |-> 10]
Vm0050Mark == [lab |-> 20, efficiency |-> 10, usage |-> 20, sample |-> 20, weeks |-> 10,
               fuel |-> 10, share |-> 10]

\* Half a mark, more or less, for evidence that is nearly enough.
Partial == [marginal |-> 10, moderate |-> 8]
Earned(mark, band) ==
    IF band = "met" THEN mark ELSE IF band \in DOMAIN Partial THEN Partial[band] ELSE 0

Points(marks, evidence) ==
    MapThenSumSet(LAMBDA r : Earned(marks[r], evidence[r]), DOMAIN marks)

\* What becomes a risk flag: bad evidence always, missing evidence here and there.
TpddtecFlags(e) == {r \in DOMAIN e :
    e[r] # "met" /\ (e[r] = "missing" => r \in {"thermal", "emissions", "lab"})}
Vm0050Flags(e) == {r \in DOMAIN e :
    e[r] # "met" /\ (e[r] = "missing" => r \in {"lab", "sample"})}

\* Slip: flags are not counted.
PointsAlone(score, flags) == score >= 70

IsCompliant(score, flags) == score >= 70 /\ Cardinality(flags) <= 2

\* validate_methodology: AMS-II.G is not looked into, and VMR0006 gets no dates
\* from its callers.
Validated ==
    {[method |-> "TPDDTEC_v4", unmet |-> Cardinality({r \in DOMAIN e : e[r] # "met"}),
      compliant |-> IsCompliant(Points(TpddtecMark, e), TpddtecFlags(e))] : e \in Tpddtec}
    \cup
    {[method |-> "VM0050", unmet |-> Cardinality({r \in DOMAIN e : e[r] # "met"}),
      compliant |-> IsCompliant(Points(Vm0050Mark, e), Vm0050Flags(e))] : e \in Vm0050}
    \cup {[method |-> "AMS-II.G", unmet |-> 0, compliant |-> TRUE],
          [method |-> "VMR0006", unmet |-> 0, compliant |-> FALSE]}

-----------------------------------------------------------------------------

CalculationsInit ==
    /\ run = NoRun /\ requests = [o \in Operators |-> AtRest] /\ validSource \in BOOLEAN

\* Data sources are validated and flagged elsewhere.
SourcesChange == validSource' = ~validSource /\ UNCHANGED <<run, requests>>

\* run_project_calculation: only from valid sources, and always a draft.
Calculate == \E reference \in References, fuel \in Fuels, v \in Validated :
    /\ run = NoRun /\ validSource
    /\ run' = [status |-> "draft", fuel |-> fuel, fnrb |-> Fnrb(reference, fuel),
               notes |-> Notes(reference, fuel), method |-> v.method,
               unmet |-> v.unmet, compliant |-> v.compliant, edited |-> FALSE]
    /\ UNCHANGED <<requests, validSource>>

Transitions == [draft |-> {"review_pending", "approved", "rejected"},
                review_pending |-> {"approved", "rejected"}]

\* validate_status_transition: everything may be rejected, and nothing is asked
\* of a status that stays as it is.
MayBecome(from, to) ==
    \/ from = to \/ to = "rejected"
    \/ from \in DOMAIN Transitions /\ to \in Transitions[from]

ReadForUpdate(o) == \E to \in Decided :
    /\ requests[o] = AtRest /\ run.status \in Decided /\ MayBecome(run.status, to)
    /\ requests' = [requests EXCEPT ![o] = [op |-> "patch", saw |-> run.status, to |-> to]]
    /\ UNCHANGED <<run, validSource>>

\* approve_calculation does not go through the table: only an approved run is
\* refused, so that a rejected one can be approved.
ReadForApproval(o) ==
    /\ requests[o] = AtRest /\ run.status \in Decided \ {"approved"} /\ validSource
    /\ requests' = [requests EXCEPT ![o] = [op |-> "approve", saw |-> run.status, to |-> "approved"]]
    /\ UNCHANGED <<run, validSource>>

\* Slip: the whole row is written back.
EveryColumn(request) == request.to

\* An UPDATE names the columns that have changed since they were read.
Written(request) == IF request.to = request.saw THEN run.status ELSE request.to

\* An update may carry figures as well, whatever the status of the run.
Commit(o) == \E figures \in BOOLEAN :
    /\ requests[o] # AtRest /\ (figures => requests[o].op = "patch")
    /\ requests' = [requests EXCEPT ![o] = AtRest]
    /\ run' = [run EXCEPT !.status = Written(requests[o]), !.edited = @ \/ figures]
    /\ UNCHANGED validSource

\* delete_calculation: the update of whoever has read the run matches no row and
\* the request fails.
DeleteRun ==
    /\ run # NoRun /\ run' = NoRun /\ requests' = [o \in Operators |-> AtRest]
    /\ UNCHANGED validSource

CalculationsNext ==
    \/ SourcesChange \/ Calculate \/ DeleteRun
    \/ \E o \in Operators : ReadForUpdate(o) \/ ReadForApproval(o) \/ Commit(o)

CalculationsSpec == CalculationsInit /\ [][CalculationsNext]_calculationsVars

-----------------------------------------------------------------------------

(***************************************************************************)
(* What the validator calls compliant is nearly met: at most two of the    *)
(* requirements of TPDDTEC and three of those of VM0050 fall short of the  *)
(* full mark, however bands, points and flags are combined.                *)
(***************************************************************************)
CompliantIsNearlyMet ==
    /\ run.method = "TPDDTEC_v4" /\ run.compliant => run.unmet <= 2
    /\ run.method = "VM0050" /\ run.compliant => run.unmet <= 3

(***************************************************************************)
(* A calculated fNRB above the cap comes from the charcoal adjustment, is  *)
(* at most 5% above it, and exactly one of the two notes tells so.         *)
(***************************************************************************)
ExcessIsExplained ==
    run.fnrb > Cap =>
        /\ run.fuel = "charcoal" /\ 100 * run.fnrb <= 105 * Cap
        /\ "charcoal" \in run.notes /\ Cardinality(run.notes \cap {"capped", "critical"}) = 1

\* validate_methodology and calculate_fnrb: the verdict and the notes of a run agree
\* with the evidence and the figure they come with.
CalculationsHold == CompliantIsNearlyMet /\ ExcessIsExplained

(***************************************************************************)
(* The code and its documents call 0.50 the cap that is enforced on every  *)
(* cookstove project; this is what "enforced" says of a calculated value.  *)
(***************************************************************************)
CapHolds == run.fnrb <= Cap

(***************************************************************************)
(* A run that somebody has sent to review or decided on is never a draft   *)
(* again, whatever requests overlap: an update that repeats the status it  *)
(* has read does not write it.                                             *)
(***************************************************************************)
NeverDraftAgain ==
    [][run.status \in Decided \ {"draft"} => run'.status # "draft"]_calculationsVars
=============================================================================
