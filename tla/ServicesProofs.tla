------------------------------ MODULE ServicesProofs ------------------------------
(***************************************************************************)
(* The services around the pipeline: for each of them the invariant that   *)
(* its property needs and the proof that every step keeps it, for any      *)
(* values of the constants.                                                *)
(***************************************************************************)
EXTENDS Calculations, Accounts, Sessions, Registers, Matching, Learning, Agents, Portal, Journeys, Knowledge, MerkleTree,
        SetLemmas, SequenceTheorems

\* A request that is under way repeats the draft it has read, or decides.
DraftIsRepeated == \A o \in Operators :
    /\ requests[o].to \in Decided \cup {"none"}
    /\ requests[o].to = "draft" => requests[o].saw = "draft"
    /\ requests[o].to = "none" => requests[o] = AtRest

RequestsInv == /\ DOMAIN requests = Operators
               /\ DraftIsRepeated

\* No request is under way at first.
LEMMA RequestsInit == CalculationsInit => RequestsInv
BY DEF CalculationsInit, RequestsInv, DraftIsRepeated, AtRest

\* Only what has been sent to review or decided on leads to something else, and
\* nothing of it leads back to a draft.
LEMMA NothingBecomesDraft ==
    ASSUME NEW from, MayBecome(from, "draft") PROVE from = "draft"
BY DEF MayBecome, Transitions

\* Every step keeps what a request may carry.
LEMMA RequestsNext == RequestsInv /\ [CalculationsNext]_calculationsVars => RequestsInv'
<1> SUFFICES ASSUME RequestsInv, [CalculationsNext]_calculationsVars PROVE RequestsInv'
  OBVIOUS
<1> USE DEF RequestsInv, DraftIsRepeated
<1>1. CASE SourcesChange \/ Calculate \/ UNCHANGED calculationsVars
  BY <1>1 DEF SourcesChange, Calculate, calculationsVars
<1>2. CASE DeleteRun
  BY <1>2 DEF DeleteRun, AtRest
<1>3. ASSUME NEW o \in Operators, ReadForUpdate(o) PROVE RequestsInv'
  BY <1>3, NothingBecomesDraft DEF ReadForUpdate, Decided
<1>4. ASSUME NEW o \in Operators, ReadForApproval(o) PROVE RequestsInv'
  BY <1>4 DEF ReadForApproval, Decided
<1>5. ASSUME NEW o \in Operators, Commit(o) PROVE RequestsInv'
  BY <1>5 DEF Commit, AtRest
<1> QED BY <1>1, <1>2, <1>3, <1>4, <1>5 DEF CalculationsNext

\* What a commit writes is no draft, unless the run is one already.
LEMMA CommitWritesNoDraft ==
    ASSUME RequestsInv, NEW o \in Operators, Commit(o), run.status # "draft"
    PROVE  run'.status # "draft"
<1>1. run'.status \in {run.status, Written(requests[o])}
  BY DEF Commit
<1>2. Written(requests[o]) # "draft"
  BY DEF Written, RequestsInv, DraftIsRepeated
<1> QED BY <1>1, <1>2

\* Every step keeps a run that is no draft from becoming one.
LEMMA StepKeepsDecision ==
    ASSUME RequestsInv, [CalculationsNext]_calculationsVars,
           run.status \in Decided \ {"draft"}
    PROVE  run'.status # "draft"
<1>1. CASE SourcesChange \/ UNCHANGED calculationsVars
  BY <1>1 DEF SourcesChange, calculationsVars
<1>2. CASE Calculate
  BY <1>2 DEF Calculate, NoRun, Decided
<1>3. CASE DeleteRun
  BY <1>3 DEF DeleteRun, NoRun
<1>4. ASSUME NEW o \in Operators, ReadForUpdate(o) \/ ReadForApproval(o)
      PROVE  run'.status # "draft"
  BY <1>4 DEF ReadForUpdate, ReadForApproval
<1>5. ASSUME NEW o \in Operators, Commit(o) PROVE run'.status # "draft"
  BY <1>5, CommitWritesNoDraft
<1> QED BY <1>1, <1>2, <1>3, <1>4, <1>5 DEF CalculationsNext

\* update_calculation, approve_calculation: a run somebody has sent to review or
\* decided on is never a draft again, whatever requests overlap.
THEOREM DecisionsOutliveUpdates == CalculationsSpec => NeverDraftAgain
<1>1. RequestsInv /\ [CalculationsNext]_calculationsVars
      => [run.status \in Decided \ {"draft"} => run'.status # "draft"]_calculationsVars
  BY StepKeepsDecision
<1> QED BY <1>1, RequestsInit, RequestsNext, PTL DEF CalculationsSpec, NeverDraftAgain

-----------------------------------------------------------------------------
(* The figure and its notes. *)

\* The smaller of two numbers.
LEMMA MinOfTwo ==
    ASSUME NEW a \in Int, NEW b \in Int PROVE Min({a, b}) = IF a <= b THEN a ELSE b
<1> DEFINE least == IF a <= b THEN a ELSE b
<1>1. \A x \in {a, b} : (\A y \in {a, b} : x <= y) <=> x = least
  OBVIOUS
<1>2. least \in {a, b}
  OBVIOUS
<1> HIDE DEF least
<1>3. (CHOOSE x \in {a, b} : \A y \in {a, b} : x <= y) = least
  BY <1>1, <1>2
<1>4. Min({a, b}) = least
  BY <1>3 DEF Min
<1> QED BY <1>4 DEF least

\* What is left of a reference by the cap.
LEMMA CapIsMin ==
    ASSUME NEW reference \in Nat, NEW fuel
    PROVE  AfterCap(reference, fuel) = IF reference <= 5000 THEN reference ELSE 5000
BY MinOfTwo DEF AfterCap, Cap

\* A figure above the cap comes from the charcoal adjustment of at most the cap.
LEMMA FigureIsExplained ==
    ASSUME NEW reference \in Nat, NEW fuel, Fnrb(reference, fuel) > Cap
    PROVE  /\ fuel = "charcoal" /\ 100 * Fnrb(reference, fuel) <= 105 * Cap
           /\ "charcoal" \in Notes(reference, fuel)
           /\ Cardinality(Notes(reference, fuel) \cap {"capped", "critical"}) = 1
<1> USE DEF Cap
<1>1. PICK capped \in Nat : capped = AfterCap(reference, fuel) /\ capped <= 5000
  BY CapIsMin
<1>2. fuel = "charcoal"
  BY <1>1 DEF Fnrb
<1>3. Fnrb(reference, fuel) = (capped * 105) \div 100
  BY <1>1, <1>2 DEF Fnrb
<1>4. 100 * ((capped * 105) \div 100) <= capped * 105
  OBVIOUS
<1>5. 100 * Fnrb(reference, fuel) <= 105 * Cap
  BY <1>1, <1>3, <1>4
<1>6. "charcoal" \in Notes(reference, fuel)
  BY <1>2 DEF Notes
<1>7. Cardinality(Notes(reference, fuel) \cap {"capped", "critical"}) = 1
  <2>1. CASE reference > Cap
    <3>1. Notes(reference, fuel) \cap {"capped", "critical"} = {"capped"}
      BY <2>1 DEF Notes
    <3>2. Cardinality({"capped"}) = 1
      BY FS_Singleton
    <3> QED BY <3>1, <3>2
  <2>2. CASE reference <= Cap
    <3>1. Notes(reference, fuel) \cap {"capped", "critical"} = {"critical"}
      BY <2>2 DEF Notes
    <3>2. Cardinality({"critical"}) = 1
      BY FS_Singleton
    <3> QED BY <3>1, <3>2
  <2> QED BY <2>1, <2>2
<1> HIDE DEF Cap
<1> QED BY <1>2, <1>5, <1>6, <1>7

\* The run is as good as none, or carries the figure and the notes of one reference.
FigureInv ==
    /\ DOMAIN run = DOMAIN NoRun
    /\ \/ run.fnrb = 0
       \/ \E reference \in References :
             /\ run.fnrb = Fnrb(reference, run.fuel) /\ run.notes = Notes(reference, run.fuel)

LEMMA FigureInit == CalculationsInit => FigureInv
BY DEF CalculationsInit, FigureInv, NoRun

\* Only a calculation sets the figure; an update that says it carries figures is
\* remembered as an edit.
LEMMA FigureNext == FigureInv /\ [CalculationsNext]_calculationsVars => FigureInv'
<1> SUFFICES ASSUME FigureInv, [CalculationsNext]_calculationsVars PROVE FigureInv'
  OBVIOUS
<1>1. CASE SourcesChange \/ UNCHANGED calculationsVars
  BY <1>1 DEF SourcesChange, calculationsVars, FigureInv
<1>2. CASE Calculate
  BY <1>2 DEF Calculate, FigureInv, NoRun
<1>3. CASE DeleteRun
  BY <1>3 DEF DeleteRun, FigureInv, NoRun
<1>4. ASSUME NEW o \in Operators, ReadForUpdate(o) \/ ReadForApproval(o) PROVE FigureInv'
  BY <1>4 DEF ReadForUpdate, ReadForApproval, FigureInv
<1>5. ASSUME NEW o \in Operators, Commit(o) PROVE FigureInv'
  <2>1. PICK status, edited :
          run' = [run EXCEPT !.status = status, !.edited = edited]
    BY <1>5 DEF Commit
  <2> QED BY <2>1 DEF FigureInv, NoRun
<1> QED BY <1>1, <1>2, <1>3, <1>4, <1>5 DEF CalculationsNext

\* calculate_fnrb: a figure above the cap comes from the charcoal adjustment, is at
\* most 5% above it, and exactly one of the two notes tells so.
THEOREM ExcessComesFromCharcoal == CalculationsSpec => []ExcessIsExplained
<1>1. ASSUME FigureInv PROVE ExcessIsExplained
  <2> SUFFICES ASSUME run.fnrb > Cap
               PROVE  /\ run.fuel = "charcoal" /\ 100 * run.fnrb <= 105 * Cap
                      /\ "charcoal" \in run.notes
                      /\ Cardinality(run.notes \cap {"capped", "critical"}) = 1
    BY DEF ExcessIsExplained
  <2>1. PICK reference \in References :
          run.fnrb = Fnrb(reference, run.fuel) /\ run.notes = Notes(reference, run.fuel)
    BY <1>1 DEF FigureInv, Cap
  <2>2. reference \in Nat
    BY CalculationsAssumption
  <2> QED BY <2>1, <2>2, FigureIsExplained
<1> QED BY <1>1, FigureInit, FigureNext, PTL DEF CalculationsSpec

-----------------------------------------------------------------------------
(* The verdict and its evidence: points, flags and shortfalls are sums over the *)
(* requirements of a method.                                                    *)

MarksOf(marks, e) == [r \in DOMAIN marks |-> Earned(marks[r], e[r])]
EarnedAdds(marks, e, g) ==
    g = [s \in SUBSET DOMAIN marks |-> IF s = {} THEN 0
                                       ELSE Earned(marks[Pick(s)], e[Pick(s)]) + g[s \ {Pick(s)}]]

\* The points are the sum of what each requirement earns.
LEMMA PointsAre ==
    ASSUME NEW marks, NEW e
    PROVE  Points(marks, e) = Total(MarksOf(marks, e), DOMAIN marks)
<1> DEFINE f == MarksOf(marks, e)
           D == DOMAIN marks
<1>1. \A s \in SUBSET D : s # {} => f[Pick(s)] = Earned(marks[Pick(s)], e[Pick(s)])
  BY DEF MarksOf, Pick
<1>2. \A g : EarnedAdds(marks, e, g) <=> Adds(f, D, g)
  <2> SUFFICES ASSUME NEW g PROVE EarnedAdds(marks, e, g) <=> Adds(f, D, g) OBVIOUS
  <2> HIDE DEF f
  <2>1. [s \in SUBSET D |-> IF s = {} THEN 0 ELSE Earned(marks[Pick(s)], e[Pick(s)]) + g[s \ {Pick(s)}]]
        = [s \in SUBSET D |-> IF s = {} THEN 0 ELSE f[Pick(s)] + g[s \ {Pick(s)}]]
    BY <1>1
  <2> QED BY <2>1 DEF EarnedAdds, Adds
<1> HIDE DEF f
<1>3. (CHOOSE g : EarnedAdds(marks, e, g)) = Adder(f, D) BY <1>2 DEF Adder
<1>4. Points(marks, e) = (CHOOSE g : EarnedAdds(marks, e, g))[D]
  BY DEF Points, MapThenSumSet, MapThenFoldSet, EarnedAdds, Pick
<1> QED BY <1>3, <1>4, TotalIs DEF f

TpddtecNeeds == {"thermal", "durability", "dissemination", "tracking", "emissions", "lab"}
Vm0050Needs == {"lab", "efficiency", "usage", "sample", "weeks", "fuel", "share"}

\* The sum over the requirements of TPDDTEC, written out.
LEMMA SumOfTpddtec ==
    ASSUME NEW f, Integral(f, TpddtecNeeds)
    PROVE  /\ Total(f, TpddtecNeeds) = ((((f["thermal"] + f["durability"]) + f["dissemination"])
                                         + f["tracking"]) + f["emissions"]) + f["lab"]
           /\ IsFiniteSet(TpddtecNeeds)
<1> DEFINE A == {"thermal"}
           B == A \cup {"durability"}
           C == B \cup {"dissemination"}
           D == C \cup {"tracking"}
           E == D \cup {"emissions"}
           F == E \cup {"lab"}
<1>0. /\ A = {} \cup {"thermal"} /\ "thermal" \notin {} /\ "durability" \notin A /\ "dissemination" \notin B
      /\ "tracking" \notin C /\ "emissions" \notin D /\ "lab" \notin E /\ F = TpddtecNeeds
  BY DEF TpddtecNeeds
<1>1. /\ Integral(f, A) /\ Integral(f, B) /\ Integral(f, C) /\ Integral(f, D) /\ Integral(f, E)
      /\ Integral(f, F)
  BY DEF Integral, TpddtecNeeds
<1>2. f["thermal"] \in Int BY DEF Integral, TpddtecNeeds
<1> HIDE DEF A, B, C, D, E, F
<1>3. IsFiniteSet({}) /\ Total(f, {}) = 0 BY FS_EmptySet, TotalStep
<1>4. IsFiniteSet(A) /\ Total(f, A) = 0 + f["thermal"] BY <1>0, <1>1, <1>3, TotalAdd
<1>5. IsFiniteSet(B) /\ Total(f, B) = Total(f, A) + f["durability"] BY <1>0, <1>1, <1>4, TotalAdd DEF B
<1>6. IsFiniteSet(C) /\ Total(f, C) = Total(f, B) + f["dissemination"] BY <1>0, <1>1, <1>5, TotalAdd DEF C
<1>7. IsFiniteSet(D) /\ Total(f, D) = Total(f, C) + f["tracking"] BY <1>0, <1>1, <1>6, TotalAdd DEF D
<1>8. IsFiniteSet(E) /\ Total(f, E) = Total(f, D) + f["emissions"] BY <1>0, <1>1, <1>7, TotalAdd DEF E
<1>9. IsFiniteSet(F) /\ Total(f, F) = Total(f, E) + f["lab"] BY <1>0, <1>1, <1>8, TotalAdd DEF F
<1>10. Total(f, A) = f["thermal"] BY <1>2, <1>4
<1> QED BY <1>0, <1>5, <1>6, <1>7, <1>8, <1>9, <1>10

\* The sum over the requirements of VM0050, written out.
LEMMA SumOfVm0050 ==
    ASSUME NEW f, Integral(f, Vm0050Needs)
    PROVE  /\ Total(f, Vm0050Needs) = (((((f["lab"] + f["efficiency"]) + f["usage"]) + f["sample"])
                                        + f["weeks"]) + f["fuel"]) + f["share"]
           /\ IsFiniteSet(Vm0050Needs)
<1> DEFINE A == {"lab"}
           B == A \cup {"efficiency"}
           C == B \cup {"usage"}
           D == C \cup {"sample"}
           E == D \cup {"weeks"}
           F == E \cup {"fuel"}
           G == F \cup {"share"}
<1>0. /\ A = {} \cup {"lab"} /\ "lab" \notin {} /\ "efficiency" \notin A /\ "usage" \notin B
      /\ "sample" \notin C /\ "weeks" \notin D /\ "fuel" \notin E /\ "share" \notin F
      /\ G = Vm0050Needs
  BY DEF Vm0050Needs
<1>1. /\ Integral(f, A) /\ Integral(f, B) /\ Integral(f, C) /\ Integral(f, D) /\ Integral(f, E)
      /\ Integral(f, F) /\ Integral(f, G)
  BY DEF Integral, Vm0050Needs
<1>2. f["lab"] \in Int BY DEF Integral, Vm0050Needs
<1> HIDE DEF A, B, C, D, E, F, G
<1>3. IsFiniteSet({}) /\ Total(f, {}) = 0 BY FS_EmptySet, TotalStep
<1>4. IsFiniteSet(A) /\ Total(f, A) = 0 + f["lab"] BY <1>0, <1>1, <1>3, TotalAdd
<1>5. IsFiniteSet(B) /\ Total(f, B) = Total(f, A) + f["efficiency"] BY <1>0, <1>1, <1>4, TotalAdd DEF B
<1>6. IsFiniteSet(C) /\ Total(f, C) = Total(f, B) + f["usage"] BY <1>0, <1>1, <1>5, TotalAdd DEF C
<1>7. IsFiniteSet(D) /\ Total(f, D) = Total(f, C) + f["sample"] BY <1>0, <1>1, <1>6, TotalAdd DEF D
<1>8. IsFiniteSet(E) /\ Total(f, E) = Total(f, D) + f["weeks"] BY <1>0, <1>1, <1>7, TotalAdd DEF E
<1>9. IsFiniteSet(F) /\ Total(f, F) = Total(f, E) + f["fuel"] BY <1>0, <1>1, <1>8, TotalAdd DEF F
<1>10. IsFiniteSet(G) /\ Total(f, G) = Total(f, F) + f["share"] BY <1>0, <1>1, <1>9, TotalAdd DEF G
<1>11. Total(f, A) = f["lab"] BY <1>2, <1>4
<1> QED BY <1>0, <1>5, <1>6, <1>7, <1>8, <1>9, <1>10, <1>11

Unmet(e) == {r \in DOMAIN e : e[r] # "met"}

\* What a band earns.
LEMMA EarnedIs ==
    ASSUME NEW mark, NEW band
    PROVE  Earned(mark, band) = IF band = "met" THEN mark ELSE IF band = "marginal" THEN 10
                                ELSE IF band = "moderate" THEN 8 ELSE 0
<1>1. DOMAIN Partial = {"marginal", "moderate"} /\ Partial["marginal"] = 10 /\ Partial["moderate"] = 8
  BY DEF Partial
<1> HIDE DEF Partial
<1>2. CASE band \in {"marginal", "moderate"} BY <1>1, <1>2 DEF Earned
<1>3. CASE band \notin {"marginal", "moderate"} BY <1>1, <1>3 DEF Earned
<1> QED BY <1>2, <1>3

\* Two flags and seventy points leave room for two shortfalls of TPDDTEC.
LEMMA TpddtecNearlyMet ==
    ASSUME NEW e \in Tpddtec, IsCompliant(Points(TpddtecMark, e), TpddtecFlags(e))
    PROVE  Cardinality(Unmet(e)) <= 2
<1> DEFINE N == TpddtecNeeds
           p == MarksOf(TpddtecMark, e)
           u == OneFor(N, Unmet(e))
           g == OneFor(N, TpddtecFlags(e))
<1>1. /\ DOMAIN e = N /\ DOMAIN TpddtecMark = N
      /\ Unmet(e) \in SUBSET N /\ TpddtecFlags(e) \in SUBSET N
  BY DEF Tpddtec, TpddtecMark, TpddtecNeeds, Unmet, TpddtecFlags
<1>2. \A r \in N : /\ p[r] = Earned(TpddtecMark[r], e[r])
                   /\ u[r] = IF e[r] # "met" THEN 1 ELSE 0
                   /\ g[r] = IF e[r] # "met" /\ (e[r] = "missing" => r \in {"thermal", "emissions", "lab"})
                             THEN 1 ELSE 0
  BY <1>1 DEF MarksOf, OneFor, Unmet, TpddtecFlags
<1> HIDE DEF p, u, g
<1>3. /\ e["thermal"] \in {"met", "low", "missing"} /\ e["tracking"] \in {"met", "low", "missing"}
      /\ e["durability"] \in {"met", "marginal", "poor", "missing"}
      /\ e["dissemination"] \in {"met", "moderate", "low", "missing"}
      /\ e["emissions"] \in {"met", "missing"} /\ e["lab"] \in {"met", "missing"}
  BY DEF Tpddtec
<1>4. \/ p["thermal"] = 20 /\ u["thermal"] = 0 /\ g["thermal"] = 0
      \/ p["thermal"] = 0 /\ u["thermal"] = 1 /\ g["thermal"] = 1
  BY <1>2, <1>3, EarnedIs DEF TpddtecMark, TpddtecNeeds
<1>5. \/ p["durability"] = 20 /\ u["durability"] = 0 /\ g["durability"] = 0
      \/ p["durability"] = 10 /\ u["durability"] = 1 /\ g["durability"] = 1
      \/ p["durability"] = 0 /\ u["durability"] = 1 /\ g["durability"] \in {0, 1}
  BY <1>2, <1>3, EarnedIs DEF TpddtecMark, TpddtecNeeds
<1>6. \/ p["dissemination"] = 15 /\ u["dissemination"] = 0 /\ g["dissemination"] = 0
      \/ p["dissemination"] = 8 /\ u["dissemination"] = 1 /\ g["dissemination"] = 1
      \/ p["dissemination"] = 0 /\ u["dissemination"] = 1 /\ g["dissemination"] \in {0, 1}
  BY <1>2, <1>3, EarnedIs DEF TpddtecMark, TpddtecNeeds
<1>7. \/ p["tracking"] = 20 /\ u["tracking"] = 0 /\ g["tracking"] = 0
      \/ p["tracking"] = 0 /\ u["tracking"] = 1 /\ g["tracking"] \in {0, 1}
  BY <1>2, <1>3, EarnedIs DEF TpddtecMark, TpddtecNeeds
<1>8. \/ p["emissions"] = 15 /\ u["emissions"] = 0 /\ g["emissions"] = 0
      \/ p["emissions"] = 0 /\ u["emissions"] = 1 /\ g["emissions"] = 1
  BY <1>2, <1>3, EarnedIs DEF TpddtecMark, TpddtecNeeds
<1>9. \/ p["lab"] = 10 /\ u["lab"] = 0 /\ g["lab"] = 0
      \/ p["lab"] = 0 /\ u["lab"] = 1 /\ g["lab"] = 1
  BY <1>2, <1>3, EarnedIs DEF TpddtecMark, TpddtecNeeds
<1>10. \A r \in N : p[r] \in Int /\ u[r] \in Int /\ g[r] \in Int
  BY <1>4, <1>5, <1>6, <1>7, <1>8, <1>9 DEF TpddtecNeeds
<1>11. Integral(p, N) /\ Integral(u, N) /\ Integral(g, N) BY <1>10 DEF Integral
<1>12. IsFiniteSet(N) BY <1>11, SumOfTpddtec
<1>13. Points(TpddtecMark, e) = Total(p, N) BY <1>1, PointsAre DEF p
<1>14. Cardinality(Unmet(e)) = Total(u, N) /\ Cardinality(TpddtecFlags(e)) = Total(g, N)
  BY <1>1, <1>12, SizeIsTotal DEF u, g
<1>15. Total(p, N) >= 70 /\ Total(g, N) <= 2 BY <1>13, <1>14 DEF IsCompliant
<1>16. /\ Total(p, N) = ((((p["thermal"] + p["durability"]) + p["dissemination"]) + p["tracking"]) + p["emissions"]) + p["lab"]
       /\ Total(u, N) = ((((u["thermal"] + u["durability"]) + u["dissemination"]) + u["tracking"]) + u["emissions"]) + u["lab"]
       /\ Total(g, N) = ((((g["thermal"] + g["durability"]) + g["dissemination"]) + g["tracking"]) + g["emissions"]) + g["lab"]
  BY <1>11, SumOfTpddtec
<1>17. "thermal" \in N /\ "durability" \in N /\ "dissemination" \in N /\ "tracking" \in N /\ "emissions" \in N /\ "lab" \in N
  BY DEF TpddtecNeeds
<1> HIDE DEF N
<1>18. PICK p1, p2, p3, p4, p5, p6 \in Int :
          /\ p1 = p["thermal"] /\ p2 = p["durability"] /\ p3 = p["dissemination"]
          /\ p4 = p["tracking"] /\ p5 = p["emissions"] /\ p6 = p["lab"]
  BY <1>10, <1>17
<1>19. PICK u1, u2, u3, u4, u5, u6 \in Int :
          /\ u1 = u["thermal"] /\ u2 = u["durability"] /\ u3 = u["dissemination"]
          /\ u4 = u["tracking"] /\ u5 = u["emissions"] /\ u6 = u["lab"]
  BY <1>10, <1>17
<1>20. PICK g1, g2, g3, g4, g5, g6 \in Int :
          /\ g1 = g["thermal"] /\ g2 = g["durability"] /\ g3 = g["dissemination"]
          /\ g4 = g["tracking"] /\ g5 = g["emissions"] /\ g6 = g["lab"]
  BY <1>10, <1>17
<1>21. /\ (p1 = 20 /\ u1 = 0 /\ g1 = 0) \/ (p1 = 0 /\ u1 = 1 /\ g1 = 1)
       /\ \/ (p2 = 20 /\ u2 = 0 /\ g2 = 0) \/ (p2 = 10 /\ u2 = 1 /\ g2 = 1)
          \/ (p2 = 0 /\ u2 = 1 /\ g2 \in {0, 1})
       /\ \/ (p3 = 15 /\ u3 = 0 /\ g3 = 0) \/ (p3 = 8 /\ u3 = 1 /\ g3 = 1)
          \/ (p3 = 0 /\ u3 = 1 /\ g3 \in {0, 1})
       /\ (p4 = 20 /\ u4 = 0 /\ g4 = 0) \/ (p4 = 0 /\ u4 = 1 /\ g4 \in {0, 1})
       /\ (p5 = 15 /\ u5 = 0 /\ g5 = 0) \/ (p5 = 0 /\ u5 = 1 /\ g5 = 1)
       /\ (p6 = 10 /\ u6 = 0 /\ g6 = 0) \/ (p6 = 0 /\ u6 = 1 /\ g6 = 1)
  BY <1>4, <1>5, <1>6, <1>7, <1>8, <1>9, <1>18, <1>19, <1>20
<1>22. /\ ((((p1 + p2) + p3) + p4) + p5) + p6 >= 70 /\ ((((g1 + g2) + g3) + g4) + g5) + g6 <= 2
       /\ Total(u, N) = ((((u1 + u2) + u3) + u4) + u5) + u6
  BY <1>15, <1>16, <1>18, <1>19, <1>20
<1>23. ((((u1 + u2) + u3) + u4) + u5) + u6 <= 2 BY <1>21, <1>22, SMTT(60)
<1> QED BY <1>14, <1>22, <1>23

\* Seventy points leave room for three shortfalls of VM0050.
LEMMA Vm0050NearlyMet ==
    ASSUME NEW e \in Vm0050, IsCompliant(Points(Vm0050Mark, e), Vm0050Flags(e))
    PROVE  Cardinality(Unmet(e)) <= 3
<1> DEFINE N == Vm0050Needs
           p == MarksOf(Vm0050Mark, e)
           u == OneFor(N, Unmet(e))
<1>1. DOMAIN e = N /\ DOMAIN Vm0050Mark = N /\ Unmet(e) \in SUBSET N
  BY DEF Vm0050, Vm0050Mark, Vm0050Needs, Unmet
<1>2. \A r \in N : p[r] = Earned(Vm0050Mark[r], e[r]) /\ u[r] = IF e[r] # "met" THEN 1 ELSE 0
  BY <1>1 DEF MarksOf, OneFor, Unmet
<1> HIDE DEF p, u
<1>3. \A r \in N : e[r] \notin {"marginal", "moderate"} BY DEF Vm0050, Vm0050Needs
<1>4. \A r \in N : (p[r] = Vm0050Mark[r] /\ u[r] = 0) \/ (p[r] = 0 /\ u[r] = 1)
  BY <1>2, <1>3, EarnedIs
<1>5. /\ Vm0050Mark["lab"] = 20 /\ Vm0050Mark["efficiency"] = 10 /\ Vm0050Mark["usage"] = 20
      /\ Vm0050Mark["sample"] = 20 /\ Vm0050Mark["weeks"] = 10 /\ Vm0050Mark["fuel"] = 10
      /\ Vm0050Mark["share"] = 10
  BY DEF Vm0050Mark
<1>6. /\ "lab" \in N /\ "efficiency" \in N /\ "usage" \in N /\ "sample" \in N /\ "weeks" \in N
      /\ "fuel" \in N /\ "share" \in N
  BY DEF Vm0050Needs
<1>7. \A r \in N : p[r] \in Int /\ u[r] \in Int BY <1>4, <1>5 DEF Vm0050Needs
<1>8. Integral(p, N) /\ Integral(u, N) BY <1>7 DEF Integral
<1>9. IsFiniteSet(N) BY <1>8, SumOfVm0050
<1>10. Points(Vm0050Mark, e) = Total(p, N) BY <1>1, PointsAre DEF p
<1>11. Cardinality(Unmet(e)) = Total(u, N) BY <1>1, <1>9, SizeIsTotal DEF u
<1>12. /\ Total(p, N) = (((((p["lab"] + p["efficiency"]) + p["usage"]) + p["sample"]) + p["weeks"]) + p["fuel"]) + p["share"]
       /\ Total(u, N) = (((((u["lab"] + u["efficiency"]) + u["usage"]) + u["sample"]) + u["weeks"]) + u["fuel"]) + u["share"]
  BY <1>8, SumOfVm0050
<1>13. Total(p, N) >= 70 BY <1>10 DEF IsCompliant
<1> HIDE DEF N
<1>14. /\ (p["lab"] = 20 /\ u["lab"] = 0) \/ (p["lab"] = 0 /\ u["lab"] = 1)
       /\ (p["efficiency"] = 10 /\ u["efficiency"] = 0) \/ (p["efficiency"] = 0 /\ u["efficiency"] = 1)
       /\ (p["usage"] = 20 /\ u["usage"] = 0) \/ (p["usage"] = 0 /\ u["usage"] = 1)
       /\ (p["sample"] = 20 /\ u["sample"] = 0) \/ (p["sample"] = 0 /\ u["sample"] = 1)
       /\ (p["weeks"] = 10 /\ u["weeks"] = 0) \/ (p["weeks"] = 0 /\ u["weeks"] = 1)
       /\ (p["fuel"] = 10 /\ u["fuel"] = 0) \/ (p["fuel"] = 0 /\ u["fuel"] = 1)
       /\ (p["share"] = 10 /\ u["share"] = 0) \/ (p["share"] = 0 /\ u["share"] = 1)
  BY <1>4, <1>5, <1>6
<1>15. Total(u, N) <= 3 BY <1>12, <1>13, <1>14, SMTT(60)
<1> QED BY <1>11, <1>15

\* A run is as good as none, or carries a verdict of the validator.
VerdictInv ==
    /\ DOMAIN run = DOMAIN NoRun
    /\ \/ run.method = "none"
       \/ \E v \in Validated : run.method = v.method /\ run.unmet = v.unmet /\ run.compliant = v.compliant

\* No run has no method.
LEMMA VerdictInit == CalculationsInit => VerdictInv
BY DEF CalculationsInit, VerdictInv, NoRun

\* Only a calculation sets the verdict.
LEMMA VerdictNext == VerdictInv /\ [CalculationsNext]_calculationsVars => VerdictInv'
<1> SUFFICES ASSUME VerdictInv, [CalculationsNext]_calculationsVars PROVE VerdictInv'
  OBVIOUS
<1>1. CASE SourcesChange \/ UNCHANGED calculationsVars
  BY <1>1 DEF SourcesChange, calculationsVars, VerdictInv
<1>2. CASE Calculate
  <2>1. PICK reference \in References, fuel \in Fuels, v \in Validated :
          run' = [status |-> "draft", fuel |-> fuel, fnrb |-> Fnrb(reference, fuel),
                  notes |-> Notes(reference, fuel), method |-> v.method,
                  unmet |-> v.unmet, compliant |-> v.compliant, edited |-> FALSE]
    BY <1>2 DEF Calculate
  <2>2. run'.method = v.method /\ run'.unmet = v.unmet /\ run'.compliant = v.compliant
        /\ DOMAIN run' = DOMAIN NoRun
    BY <2>1 DEF NoRun
  <2> QED BY <2>2 DEF VerdictInv
<1>3. CASE DeleteRun
  BY <1>3 DEF DeleteRun, VerdictInv, NoRun
<1>4. ASSUME NEW o \in Operators, ReadForUpdate(o) \/ ReadForApproval(o) PROVE VerdictInv'
  BY <1>4 DEF ReadForUpdate, ReadForApproval, VerdictInv
<1>5. ASSUME NEW o \in Operators, Commit(o) PROVE VerdictInv'
  <2>1. PICK status, edited :
          run' = [run EXCEPT !.status = status, !.edited = edited]
    BY <1>5 DEF Commit
  <2> QED BY <2>1 DEF VerdictInv, NoRun
<1> QED BY <1>1, <1>2, <1>3, <1>4, <1>5 DEF CalculationsNext

\* validate_methodology, calculate_fnrb: whatever the evidence, the reference value and the
\* fuel, a verdict of compliance falls short in two or three requirements at most, and a
\* figure above the cap is explained by its notes.
THEOREM CalculationsAreSound == CalculationsSpec => []CalculationsHold
<1>1. ASSUME VerdictInv PROVE CompliantIsNearlyMet
  <2>1. ASSUME run.method = "TPDDTEC_v4", run.compliant PROVE run.unmet <= 2
    <3>1. PICK v \in Validated : run.method = v.method /\ run.unmet = v.unmet /\ run.compliant = v.compliant
      BY <1>1, <2>1 DEF VerdictInv
    <3>2. PICK e \in Tpddtec : v = [method |-> "TPDDTEC_v4", unmet |-> Cardinality({r \in DOMAIN e : e[r] # "met"}),
            compliant |-> IsCompliant(Points(TpddtecMark, e), TpddtecFlags(e))]
      <4>1. v.method = "TPDDTEC_v4" BY <2>1, <3>1
      <4>2. \A e \in Vm0050 : v # [method |-> "VM0050", unmet |-> Cardinality({r \in DOMAIN e : e[r] # "met"}),
              compliant |-> IsCompliant(Points(Vm0050Mark, e), Vm0050Flags(e))]
        BY <4>1
      <4> HIDE DEF Points, IsCompliant
      <4> QED BY <4>1, <4>2 DEF Validated
    <3>3. v.unmet = Cardinality(Unmet(e)) /\ v.compliant = IsCompliant(Points(TpddtecMark, e), TpddtecFlags(e))
      BY <3>2 DEF Unmet
    <3>4. IsCompliant(Points(TpddtecMark, e), TpddtecFlags(e)) BY <2>1, <3>1, <3>3
    <3> QED BY <3>1, <3>3, <3>4, TpddtecNearlyMet
  <2>2. ASSUME run.method = "VM0050", run.compliant PROVE run.unmet <= 3
    <3>1. PICK v \in Validated : run.method = v.method /\ run.unmet = v.unmet /\ run.compliant = v.compliant
      BY <1>1, <2>2 DEF VerdictInv
    <3>2. PICK e \in Vm0050 : v = [method |-> "VM0050", unmet |-> Cardinality({r \in DOMAIN e : e[r] # "met"}),
            compliant |-> IsCompliant(Points(Vm0050Mark, e), Vm0050Flags(e))]
      BY <2>2, <3>1 DEF Validated
    <3>3. v.unmet = Cardinality(Unmet(e)) /\ v.compliant = IsCompliant(Points(Vm0050Mark, e), Vm0050Flags(e))
      BY <3>2 DEF Unmet
    <3>4. IsCompliant(Points(Vm0050Mark, e), Vm0050Flags(e)) BY <2>2, <3>1, <3>3
    <3> QED BY <3>1, <3>3, <3>4, Vm0050NearlyMet
  <2> QED BY <2>1, <2>2 DEF CompliantIsNearlyMet
<1> QED BY <1>1, VerdictInit, VerdictNext, ExcessComesFromCharcoal, PTL
    DEF CalculationsSpec, CalculationsHold

-----------------------------------------------------------------------------
(* Accounts.  What a request found is stale when it writes; the unique index and the  *)
(* row lock of an invitation are what remains true in between.                        *)

UserType == [email : Persons \cup {"none"}, hash : {"keyed", "legacy"},
             by : Invites \cup {"none"}, password : BOOLEAN]
InviteType == [email : Persons \cup {"none"}, used : BOOLEAN, expired : BOOLEAN]
CallerType == [at : {"idle", "insert", "update", "invite", "accept", "link", "oauth"},
               e : Persons \cup {"none"}, row : Rows \cup {"none"}, invite : Invites \cup {"none"}]

AccountTypes ==
    /\ users \in [Rows -> UserType \cup {NoUser}]
    /\ invites \in [Invites -> InviteType]
    /\ caller \in [Callers -> CallerType]

\* A row that is to be changed exists; an invitation that is being accepted is unused, and
\* one request alone accepts it.
CallersWait ==
    /\ \A c \in Callers :
          /\ caller[c].at = "update" => caller[c].row \in Taken
          /\ caller[c].at = "accept" => caller[c].invite \in Invites /\ ~invites[caller[c].invite].used
          /\ caller[c].invite # "none" => caller[c].at = "accept"
    /\ \A c, d \in Callers : caller[c].invite = caller[d].invite /\ c # d => caller[c].invite = "none"

InvitedOnce == \A i \in Invites :
    /\ \A u, v \in Taken : users[u].by = i /\ users[v].by = i => u = v
    /\ (\E u \in Taken : users[u].by = i) <=> invites[i].used

AccountsInv == AccountTypes /\ CallersWait /\ OneKeyedAccountPerAddress /\ InvitedOnce
               /\ EverybodyCanSignIn

\* An existing row has the type of a row.
LEMMA TakenIs == ASSUME AccountTypes, NEW u \in Taken PROVE u \in Rows /\ users[u] \in UserType
BY DEF AccountTypes, Taken

\* A row is a row of a user.
LEMMA RowType ==
    ASSUME NEW e \in Persons \cup {"none"}, NEW by \in Invites \cup {"none"}, NEW p \in BOOLEAN
    PROVE  /\ Row(e, by, p) \in UserType /\ Row(e, by, p) # NoUser
           /\ Row(e, by, p).email = e /\ Row(e, by, p).hash = "keyed"
           /\ Row(e, by, p).by = by /\ Row(e, by, p).password = p
BY DEF Row, UserType, NoUser


LEMMA AccountsStart == AccountsInit => AccountsInv
<1> SUFFICES ASSUME AccountsInit PROVE AccountsInv OBVIOUS
<1>1. PICK old \in UserType :
        /\ old.by = "none" /\ old.password
        /\ \E first : users \in {[u \in Rows |-> NoUser],
                                 [u \in Rows |-> IF u = first THEN old ELSE NoUser]}
  <2>1. (CHOOSE e \in Persons : TRUE) \in Persons BY AccountsAssumption
  <2> DEFINE legacy == [email |-> CHOOSE e \in Persons : TRUE, hash |-> "legacy", by |-> "none",
                        password |-> TRUE]
             one == CHOOSE u \in Rows : TRUE
  <2>2. legacy \in UserType /\ legacy.by = "none" /\ legacy.password BY <2>1 DEF UserType
  <2>3. users \in {[u \in Rows |-> NoUser], [u \in Rows |-> IF u = one THEN legacy ELSE NoUser]}
    BY DEF AccountsInit
  <2> HIDE DEF legacy, one
  <2> QED BY <2>2, <2>3
<1>2. \A u, v \in Taken : u = v /\ users[u] = old
  BY <1>1 DEF Taken
<1>3. AccountTypes
  BY <1>1 DEF AccountsInit, AccountTypes, InviteType, CallerType, NoInvite, NoCaller
<1>4. CallersWait BY DEF AccountsInit, CallersWait, NoCaller
<1>5. OneKeyedAccountPerAddress BY <1>2 DEF OneKeyedAccountPerAddress
<1>6. InvitedOnce BY <1>1, <1>2, AccountsAssumption DEF InvitedOnce, AccountsInit, NoInvite
<1>7. EverybodyCanSignIn BY <1>1, <1>2 DEF EverybodyCanSignIn
<1> QED BY <1>3, <1>4, <1>5, <1>6, <1>7 DEF AccountsInv

\* A request that begins, or ends without writing a row.
LEMMA AccountsAsk ==
    ASSUME AccountsInv, NEW c \in Callers, NEW f \in CallerType, Wait(c, f),
           f.at = "update" => f.row \in Taken,
           f.at = "accept" => /\ f.invite \in Invites /\ ~invites[f.invite].used
                              /\ \A d \in Callers : caller[d].invite # f.invite,
           f.invite # "none" => f.at = "accept",
           UNCHANGED <<users, invites>>, links \subseteq links'
    PROVE  AccountsInv'
<1>1. caller' \in [Callers -> CallerType] /\ caller'[c] = f
      /\ \A d \in Callers \ {c} : caller'[d] = caller[d]
  BY DEF Wait, AccountsInv, AccountTypes
<1>2. AccountTypes' BY <1>1 DEF AccountsInv, AccountTypes
<1>3. CallersWait' BY <1>1 DEF AccountsInv, CallersWait, Taken
<1>4. OneKeyedAccountPerAddress' /\ InvitedOnce' /\ EverybodyCanSignIn'
  BY DEF AccountsInv, OneKeyedAccountPerAddress, InvitedOnce, EverybodyCanSignIn, Taken
<1> QED BY <1>2, <1>3, <1>4 DEF AccountsInv

\* Nothing is asked for.
LEMMA NoCallerIs == NoCaller \in CallerType /\ NoCaller.at = "idle" /\ NoCaller.invite = "none"
BY DEF NoCaller, CallerType

\* What the callers rely on stays when rows and invitations only come, and the request
\* that accepts an invitation is done with it.
LEMMA CallersKeep ==
    ASSUME AccountsInv, NEW c \in Callers, Wait(c, NoCaller), Taken \subseteq Taken',
           \A i \in Invites : invites[i].used = invites'[i].used \/ caller[c].invite = i
    PROVE  CallersWait' /\ caller' \in [Callers -> CallerType]
<1>1. caller' \in [Callers -> CallerType] /\ caller'[c] = NoCaller
      /\ \A d \in Callers \ {c} : caller'[d] = caller[d]
  BY NoCallerIs DEF Wait, AccountsInv, AccountTypes
<1>2. ASSUME NEW d \in Callers
      PROVE  /\ caller'[d].at = "update" => caller'[d].row \in Taken'
             /\ caller'[d].at = "accept" => /\ caller'[d].invite \in Invites
                                            /\ ~invites'[caller'[d].invite].used
             /\ caller'[d].invite # "none" => caller'[d].at = "accept"
  <2>1. CASE d = c BY <1>1, <2>1, NoCallerIs
  <2>2. CASE d # c
    <3>1. caller'[d] = caller[d] BY <1>1, <2>2
    <3>2. caller[d].at = "accept" => caller[d].invite # caller[c].invite
      BY <2>2, AccountsAssumption DEF AccountsInv, CallersWait
    <3> QED BY <3>1, <3>2 DEF AccountsInv, CallersWait
  <2> QED BY <2>1, <2>2
<1>3. \A d, x \in Callers : caller'[d].invite = caller'[x].invite /\ d # x => caller'[d].invite = "none"
  BY <1>1, NoCallerIs DEF AccountsInv, CallersWait
<1> QED BY <1>1, <1>2, <1>3 DEF CallersWait

\* A new row: its address was free of keyed hashes, it comes from an unused invitation or
\* from none, and it has a password or a link.
LEMMA AddKeeps ==
    ASSUME AccountsInv, NEW e \in Persons \cup {"none"}, NEW by \in Invites \cup {"none"},
           NEW p \in BOOLEAN, Add(Row(e, by, p)), Unique(e, "none"), links \subseteq links',
           invites' \in [Invites -> InviteType],
           by # "none" => ~invites[by].used,
           \A i \in Invites : invites'[i].used <=> invites[i].used \/ i = by,
           p \/ \E l \in links' : l.user = NewRow
    PROVE  /\ AccountTypes' \/ caller' \notin [Callers -> CallerType]
           /\ Taken \subseteq Taken'
           /\ OneKeyedAccountPerAddress' /\ InvitedOnce' /\ EverybodyCanSignIn'
<1> DEFINE n == NewRow
           row == Row(e, by, p)
<1>1. n \in Rows /\ n \notin Taken
  BY DEF Add, NewRow, Taken
<1>2. users' = [users EXCEPT ![n] = row]
  BY DEF Add
<1>3. /\ row \in UserType /\ row # NoUser /\ row.email = e /\ row.hash = "keyed"
      /\ row.by = by /\ row.password = p
  BY RowType
<1> HIDE DEF n, row
<1>4. /\ users' \in [Rows -> UserType \cup {NoUser}] /\ users'[n] = row
      /\ \A u \in Rows \ {n} : users'[u] = users[u]
  BY <1>1, <1>2, <1>3 DEF AccountsInv, AccountTypes
<1>5. Taken' = Taken \cup {n}
  BY <1>1, <1>3, <1>4 DEF Taken
<1>6. \A u \in Taken : users'[u] = users[u]
  BY <1>1, <1>4 DEF Taken
<1>7. ASSUME NEW u \in Taken, users[u].email = e PROVE users[u].hash = "legacy"
  <2>1. u # "none" /\ users[u] \in UserType BY TakenIs, AccountsAssumption DEF AccountsInv
  <2> QED BY <1>7, <2>1 DEF Unique, Found, UserType
<1>8. OneKeyedAccountPerAddress'
  BY <1>3, <1>4, <1>5, <1>6, <1>7 DEF AccountsInv, OneKeyedAccountPerAddress
<1>9. InvitedOnce'
  <2> SUFFICES ASSUME NEW i \in Invites
               PROVE  /\ \A u, v \in Taken' : users'[u].by = i /\ users'[v].by = i => u = v
                      /\ (\E u \in Taken' : users'[u].by = i) <=> invites'[i].used
    BY DEF InvitedOnce
  <2>1. CASE i = by
    <3>1. ~\E u \in Taken : users[u].by = i
      BY <2>1, AccountsAssumption DEF AccountsInv, InvitedOnce
    <3> QED BY <1>3, <1>4, <1>5, <1>6, <2>1, <3>1
  <2>2. CASE i # by
    BY <1>3, <1>4, <1>5, <1>6, <2>2 DEF AccountsInv, InvitedOnce
  <2> QED BY <2>1, <2>2
<1>10. EverybodyCanSignIn'
  BY <1>3, <1>4, <1>5, <1>6 DEF AccountsInv, EverybodyCanSignIn, n
<1> QED BY <1>4, <1>5, <1>8, <1>9, <1>10 DEF AccountTypes

LEMMA InsertKeeps == ASSUME AccountsInv, NEW c \in Callers, InsertUser(c) PROVE AccountsInv'
<1>1. caller[c].e \in Persons \cup {"none"} BY DEF AccountsInv, AccountTypes, CallerType
<1>2. invites' \in [Invites -> InviteType] /\ UNCHANGED <<invites, links>> /\ Wait(c, NoCaller)
  BY DEF AccountsInv, AccountTypes, InsertUser
<1>3. CASE Unique(caller[c].e, "none")
  <2>1. Add(Row(caller[c].e, "none", TRUE)) BY <1>3 DEF InsertUser
  <2>2. /\ AccountTypes' \/ caller' \notin [Callers -> CallerType]
        /\ Taken \subseteq Taken'
        /\ OneKeyedAccountPerAddress' /\ InvitedOnce' /\ EverybodyCanSignIn'
    BY <1>1, <1>2, <1>3, <2>1, AddKeeps, AccountsAssumption
  <2> QED BY <1>2, <2>2, CallersKeep DEF AccountsInv
<1>4. CASE ~Unique(caller[c].e, "none")
  BY <1>2, <1>4, NoCallerIs, AccountsAsk DEF InsertUser
<1> QED BY <1>3, <1>4

LEMMA CommitInviteKeeps == ASSUME AccountsInv, NEW c \in Callers, CommitInvite(c) PROVE AccountsInv'
<1>1. caller[c].e \in Persons \cup {"none"} BY DEF AccountsInv, AccountTypes, CallerType
<1>2. caller[c].invite \in Invites /\ ~invites[caller[c].invite].used
  BY DEF AccountsInv, CallersWait, CommitInvite
<1>3. CASE Unique(caller[c].e, "none")
  <2>1. /\ Add(Row(caller[c].e, caller[c].invite, TRUE)) /\ UNCHANGED links /\ Wait(c, NoCaller)
        /\ invites' = [invites EXCEPT ![caller[c].invite].used = TRUE]
    BY <1>3 DEF CommitInvite
  <2>2. /\ invites' \in [Invites -> InviteType]
        /\ \A i \in Invites : invites'[i].used <=> invites[i].used \/ i = caller[c].invite
    BY <1>2, <2>1 DEF AccountsInv, AccountTypes, InviteType
  <2>3. /\ AccountTypes' \/ caller' \notin [Callers -> CallerType]
        /\ Taken \subseteq Taken'
        /\ OneKeyedAccountPerAddress' /\ InvitedOnce' /\ EverybodyCanSignIn'
    BY <1>1, <1>2, <1>3, <2>1, <2>2, AddKeeps
  <2>4. \A i \in Invites : invites[i].used = invites'[i].used \/ caller[c].invite = i
    <3> SUFFICES ASSUME NEW i \in Invites, i # caller[c].invite PROVE invites'[i] = invites[i]
      OBVIOUS
    <3> QED BY <2>1 DEF AccountsInv, AccountTypes
  <2> QED BY <2>1, <2>3, <2>4, CallersKeep DEF AccountsInv
<1>4. CASE ~Unique(caller[c].e, "none")
  BY <1>4, NoCallerIs, AccountsAsk DEF CommitInvite
<1> QED BY <1>3, <1>4

LEMMA OAuthKeeps == ASSUME AccountsInv, NEW c \in Callers, OAuthUser(c) PROVE AccountsInv'
<1>1. caller[c].e \in Persons \cup {"none"} BY DEF AccountsInv, AccountTypes, CallerType
<1>2. invites' \in [Invites -> InviteType] /\ UNCHANGED invites /\ Wait(c, NoCaller)
  BY DEF AccountsInv, AccountTypes, OAuthUser
<1>3. CASE Unique(caller[c].e, "none")
  <2>1. Add(Row(caller[c].e, "none", FALSE)) /\ links' = links \cup {LinkRow(caller[c].e, NewRow)}
    BY <1>3 DEF OAuthUser
  <2>l. LinkRow(caller[c].e, NewRow).user = NewRow BY DEF LinkRow
  <2>2. \E l \in links' : l.user = NewRow BY <2>1, <2>l
  <2>3. /\ AccountTypes' \/ caller' \notin [Callers -> CallerType]
        /\ Taken \subseteq Taken'
        /\ OneKeyedAccountPerAddress' /\ InvitedOnce' /\ EverybodyCanSignIn'
    BY <1>1, <1>2, <1>3, <2>1, <2>2, AddKeeps, AccountsAssumption
  <2> QED BY <1>2, <2>3, CallersKeep DEF AccountsInv
<1>4. CASE ~Unique(caller[c].e, "none")
  BY <1>2, <1>4, NoCallerIs, AccountsAsk DEF OAuthUser
<1> QED BY <1>3, <1>4

\* A row that changes keeps the invitation it came from, and has a keyed hash of an
\* address nobody else has one of.
LEMMA ChangeKeeps ==
    ASSUME AccountsInv, NEW u \in Taken, NEW row \in UserType, users' = [users EXCEPT ![u] = row],
           row.by = users[u].by, users[u].password => row.password,
           \/ row.hash = users[u].hash /\ row.email = users[u].email
           \/ Unique(row.email, u),
           UNCHANGED <<invites, links>>, caller' \in [Callers -> CallerType]
    PROVE  /\ AccountTypes' /\ Taken \subseteq Taken'
           /\ OneKeyedAccountPerAddress' /\ InvitedOnce' /\ EverybodyCanSignIn'
<1>1. /\ users' \in [Rows -> UserType \cup {NoUser}] /\ users'[u] = row /\ u \in Rows
      /\ \A v \in Rows \ {u} : users'[v] = users[v]
  BY DEF AccountsInv, AccountTypes, Taken
<1>2. row # NoUser BY DEF UserType, NoUser
<1>3. Taken' = Taken
  BY <1>1, <1>2 DEF Taken
<1>4. \A v \in Taken : v # u => users'[v] = users[v]
  BY <1>1 DEF Taken
<1>5. ASSUME NEW v \in Taken, v # u, users[v].email = row.email, Unique(row.email, u)
      PROVE  users[v].hash = "legacy"
  <2>1. users[v] \in UserType BY TakenIs DEF AccountsInv
  <2> QED BY <1>5, <2>1 DEF Unique, Found, UserType
<1>6. OneKeyedAccountPerAddress'
  <2> SUFFICES ASSUME NEW v \in Taken, NEW w \in Taken, v # w, users'[v].email = users'[w].email
               PROVE  "legacy" \in {users'[v].hash, users'[w].hash}
    BY <1>3 DEF OneKeyedAccountPerAddress
  <2>1. CASE v # u /\ w # u BY <1>4, <2>1 DEF AccountsInv, OneKeyedAccountPerAddress
  <2>2. CASE v = u BY <1>1, <1>4, <1>5, <2>2 DEF AccountsInv, OneKeyedAccountPerAddress
  <2>3. CASE w = u BY <1>1, <1>4, <1>5, <2>3 DEF AccountsInv, OneKeyedAccountPerAddress
  <2> QED BY <2>1, <2>2, <2>3
<1>7. InvitedOnce'
  BY <1>1, <1>3, <1>4 DEF AccountsInv, InvitedOnce
<1>8. EverybodyCanSignIn'
  BY <1>1, <1>3, <1>4 DEF AccountsInv, EverybodyCanSignIn
<1> QED BY <1>1, <1>3, <1>6, <1>7, <1>8 DEF AccountTypes, AccountsInv

LEMMA WriteKeeps == ASSUME AccountsInv, NEW c \in Callers, WriteUser(c) PROVE AccountsInv'
<1> DEFINE u == caller[c].row
           e == caller[c].e
<1>1. u \in Taken /\ e \in Persons \cup {"none"} /\ Wait(c, NoCaller) /\ UNCHANGED <<invites, links>>
  BY DEF AccountsInv, CallersWait, AccountTypes, CallerType, WriteUser
<1>2. CASE Unique(e, u)
  <2>1. users[u] \in UserType BY <1>1, TakenIs DEF AccountsInv
  <2>2. /\ Readdressed(u, e) \in UserType /\ Readdressed(u, e).by = users[u].by
        /\ Readdressed(u, e).password = users[u].password /\ Readdressed(u, e).email = e
    BY <1>1, <2>1 DEF Readdressed, UserType
  <2>3. users' = [users EXCEPT ![u] = Readdressed(u, e)] BY <1>2 DEF WriteUser
  <2>4. caller' \in [Callers -> CallerType]
    BY <1>1, NoCallerIs DEF Wait, AccountsInv, AccountTypes
  <2> HIDE DEF u, e
  <2>5. /\ AccountTypes' /\ Taken \subseteq Taken'
        /\ OneKeyedAccountPerAddress' /\ InvitedOnce' /\ EverybodyCanSignIn'
    BY <1>1, <1>2, <2>2, <2>3, <2>4, ChangeKeeps
  <2> QED BY <1>1, <2>5, CallersKeep DEF AccountsInv
<1>3. CASE ~Unique(e, u)
  BY <1>1, <1>3, NoCallerIs, AccountsAsk DEF WriteUser
<1> QED BY <1>2, <1>3

LEMMA HealKeeps == ASSUME AccountsInv, NEW u \in Rows, HealHash(u) \/ ResetPassword(u) PROVE AccountsInv'
<1>1. u \in Taken /\ users[u] \in UserType /\ UNCHANGED <<invites, links, caller>>
      /\ caller' \in [Callers -> CallerType]
  BY TakenIs DEF HealHash, ResetPassword, AccountsInv, AccountTypes
<1>2. PICK row \in UserType :
        /\ users' = [users EXCEPT ![u] = row]
        /\ row.by = users[u].by /\ (users[u].password => row.password)
        /\ \/ row.hash = users[u].hash /\ row.email = users[u].email
           \/ Unique(row.email, u)
  <2>1. CASE HealHash(u)
    <3> DEFINE row == [users[u] EXCEPT !.hash = "keyed"]
    <3>1. /\ row \in UserType /\ row.by = users[u].by /\ row.password = users[u].password
          /\ row.email = users[u].email
      BY <1>1 DEF UserType
    <3>2. users' = [users EXCEPT ![u] = row] /\ Unique(users[u].email, u) BY <2>1 DEF HealHash
    <3> HIDE DEF row
    <3> QED BY <3>1, <3>2
  <2>2. CASE ResetPassword(u)
    <3> DEFINE row == [users[u] EXCEPT !.password = TRUE]
    <3>1. /\ row \in UserType /\ row.by = users[u].by /\ row.password
          /\ row.email = users[u].email /\ row.hash = users[u].hash
      BY <1>1 DEF UserType
    <3>2. users' = [users EXCEPT ![u] = row] BY <2>2 DEF ResetPassword
    <3> HIDE DEF row
    <3> QED BY <3>1, <3>2
  <2> QED BY <2>1, <2>2
<1>3. /\ AccountTypes' /\ Taken \subseteq Taken'
      /\ OneKeyedAccountPerAddress' /\ InvitedOnce' /\ EverybodyCanSignIn'
  BY <1>1, <1>2, ChangeKeeps
<1> QED BY <1>1, <1>3 DEF AccountsInv, CallersWait

\* Invitations come unused and expire.
LEMMA InviteKeeps ==
    ASSUME AccountsInv, invites' \in [Invites -> InviteType],
           \A i \in Invites : invites'[i].used = invites[i].used,
           UNCHANGED <<users, links>>, caller' \in [Callers -> CallerType],
           CallersWait'
    PROVE  AccountsInv'
BY DEF AccountsInv, AccountTypes, OneKeyedAccountPerAddress, InvitedOnce, EverybodyCanSignIn, Taken

LEMMA InsertInviteKeeps == ASSUME AccountsInv, NEW c \in Callers, InsertInvite(c) PROVE AccountsInv'
<1>0. UNCHANGED <<users, links>> /\ Wait(c, NoCaller) BY DEF InsertInvite
<1>1. CASE UNCHANGED invites BY <1>0, <1>1, NoCallerIs, AccountsAsk
<1>2. ASSUME invites' # invites PROVE AccountsInv'
  <2> DEFINE i == CHOOSE i \in Invites : invites[i] = NoInvite
  <2>1. i \in Invites /\ invites[i] = NoInvite
    BY <1>2 DEF InsertInvite
  <2>2. invites' = [invites EXCEPT ![i] = [NoInvite EXCEPT !.email = caller[c].e]]
    BY <1>2 DEF InsertInvite
  <2> HIDE DEF i
  <2>3. caller[c].e \in Persons \cup {"none"} BY DEF AccountsInv, AccountTypes, CallerType
  <2>4. /\ [NoInvite EXCEPT !.email = caller[c].e] \in InviteType
        /\ [NoInvite EXCEPT !.email = caller[c].e].used = FALSE /\ NoInvite.used = FALSE
    BY <2>3 DEF NoInvite, InviteType
  <2>5. invites' \in [Invites -> InviteType] /\ \A j \in Invites : invites'[j].used = invites[j].used
    BY <2>1, <2>2, <2>4 DEF AccountsInv, AccountTypes
  <2>6. CallersWait' /\ caller' \in [Callers -> CallerType]
    BY <1>0, <2>5, CallersKeep DEF Taken
  <2> QED BY <1>0, <2>5, <2>6, InviteKeeps
<1> QED BY <1>1, <1>2

LEMMA ExpireKeeps == ASSUME AccountsInv, NEW i \in Invites, InviteExpires(i) PROVE AccountsInv'
<1>1. invites' \in [Invites -> InviteType] /\ \A j \in Invites : invites'[j].used = invites[j].used
  BY DEF InviteExpires, AccountsInv, AccountTypes, InviteType
<1>2. UNCHANGED <<users, links, caller>> BY DEF InviteExpires
<1>3. CallersWait' BY <1>1, <1>2 DEF AccountsInv, CallersWait, Taken
<1> QED BY <1>1, <1>2, <1>3, InviteKeeps DEF AccountsInv, AccountTypes

\* Only an account with a password loses a link.
LEMMA UnlinkKeeps == ASSUME AccountsInv, NEW c \in Callers, NEW l \in links, Unlink(c, l) PROVE AccountsInv'
<1>1. UNCHANGED <<users, invites, caller>> /\ links' = links \ {l} /\ users[l.user].password
  BY DEF Unlink
<1>2. EverybodyCanSignIn'
  BY <1>1 DEF AccountsInv, EverybodyCanSignIn, Taken
<1> QED BY <1>1, <1>2 DEF AccountsInv, AccountTypes, CallersWait, OneKeyedAccountPerAddress, InvitedOnce, Taken

\* Everything that only asks.
LEMMA AsksKeep ==
    ASSUME AccountsInv, NEW c \in Callers,
           \/ \E e \in Persons : \/ Register(c, e) \/ CreateUser(c, e) \/ InviteUser(c, e)
                                 \/ OAuthCallback(c, e) \/ \E u \in Rows : UpdateUser(c, u, e)
           \/ \E i \in Invites : AcceptInvite(c, i)
           \/ CallerDies(c) \/ LinkExisting(c)
    PROVE  AccountsInv'
<1>1. ASSUME NEW e \in Persons, Register(c, e) \/ CreateUser(c, e) \/ InviteUser(c, e) PROVE AccountsInv'
  <2>1. PICK at \in {"insert", "invite"} : Asks(c, at, e) /\ UNCHANGED <<users, invites, links>>
    BY <1>1 DEF Register, CreateUser, InviteUser
  <2> DEFINE f == [NoCaller EXCEPT !.at = at, !.e = e]
  <2>2. f \in CallerType /\ f.at = at /\ f.invite = "none" BY DEF NoCaller, CallerType
  <2>3. Wait(c, f) BY <2>1 DEF Asks
  <2> HIDE DEF f
  <2> QED BY <2>1, <2>2, <2>3, AccountsAsk
<1>2. ASSUME NEW e \in Persons, OAuthCallback(c, e) PROVE AccountsInv'
  <2>1. CASE Found(e, {"keyed"}) = {}
    <3> DEFINE f == [NoCaller EXCEPT !.at = "oauth", !.e = e]
    <3>1. f \in CallerType /\ f.at = "oauth" /\ f.invite = "none" BY DEF NoCaller, CallerType
    <3>2. Wait(c, f) /\ UNCHANGED <<users, invites, links>> BY <1>2, <2>1 DEF OAuthCallback, Asks
    <3> HIDE DEF f
    <3> QED BY <3>1, <3>2, AccountsAsk
  <2>2. ASSUME NEW u \in Found(e, {"keyed"}),
               Wait(c, [NoCaller EXCEPT !.at = "link", !.e = e, !.row = u])
        PROVE  AccountsInv'
    <3> DEFINE f == [NoCaller EXCEPT !.at = "link", !.e = e, !.row = u]
    <3>1. u \in Rows BY DEF Found, Taken
    <3>2. f \in CallerType /\ f.at = "link" /\ f.invite = "none" BY <3>1 DEF NoCaller, CallerType
    <3>3. Wait(c, f) /\ UNCHANGED <<users, invites, links>> BY <1>2, <2>2 DEF OAuthCallback
    <3> HIDE DEF f
    <3> QED BY <3>2, <3>3, AccountsAsk
  <2> QED BY <1>2, <2>1, <2>2 DEF OAuthCallback
<1>3. ASSUME NEW e \in Persons, NEW u \in Rows, UpdateUser(c, u, e) PROVE AccountsInv'
  <2> DEFINE f == [NoCaller EXCEPT !.at = "update", !.e = e, !.row = u]
  <2>1. f \in CallerType /\ f.at = "update" /\ f.invite = "none" /\ f.row = u BY DEF NoCaller, CallerType
  <2>2. Wait(c, f) /\ u \in Taken /\ UNCHANGED <<users, invites, links>> BY <1>3 DEF UpdateUser
  <2> HIDE DEF f
  <2> QED BY <2>1, <2>2, AccountsAsk
<1>4. ASSUME NEW i \in Invites, AcceptInvite(c, i) PROVE AccountsInv'
  <2> DEFINE f == [NoCaller EXCEPT !.at = "accept", !.e = invites[i].email, !.invite = i]
  <2>0. invites[i] \in InviteType BY DEF AccountsInv, AccountTypes
  <2>1. f \in CallerType /\ f.at = "accept" /\ f.invite = i BY <2>0 DEF NoCaller, CallerType, InviteType
  <2>2. /\ Wait(c, f) /\ ~invites[i].used /\ UNCHANGED <<users, invites, links>>
        /\ \A d \in Callers : caller[d].invite # i
    BY <1>4 DEF AcceptInvite, RowLocked
  <2> HIDE DEF f
  <2> QED BY <2>1, <2>2, AccountsAsk
<1>5. CASE CallerDies(c) \/ LinkExisting(c)
  <2>1. Wait(c, NoCaller) /\ UNCHANGED <<users, invites>> /\ links \subseteq links'
    BY <1>5 DEF CallerDies, LinkExisting
  <2> QED BY <2>1, NoCallerIs, AccountsAsk
<1> QED BY <1>1, <1>2, <1>3, <1>4, <1>5

\* Every step keeps the invariant.
LEMMA AccountsStep == AccountsInv /\ [AccountsNext]_accountVars => AccountsInv'
<1> SUFFICES ASSUME AccountsInv, [AccountsNext]_accountVars PROVE AccountsInv' OBVIOUS
<1>1. CASE UNCHANGED accountVars
  BY <1>1 DEF accountVars, AccountsInv, AccountTypes, CallersWait, OneKeyedAccountPerAddress, InvitedOnce,
              EverybodyCanSignIn, Taken
<1>2. ASSUME NEW c \in Callers,
             \/ \E e \in Persons : Register(c, e) \/ CreateUser(c, e) \/ InviteUser(c, e) \/ OAuthCallback(c, e)
                                \/ \E u \in Rows : UpdateUser(c, u, e)
             \/ \E i \in Invites : AcceptInvite(c, i)
             \/ \E l \in links : Unlink(c, l)
             \/ InsertUser(c) \/ WriteUser(c) \/ InsertInvite(c) \/ CommitInvite(c)
             \/ LinkExisting(c) \/ OAuthUser(c) \/ CallerDies(c)
      PROVE  AccountsInv'
  BY <1>2, AsksKeep, UnlinkKeeps, InsertKeeps, WriteKeeps, InsertInviteKeeps, CommitInviteKeeps, OAuthKeeps
<1> QED BY <1>1, <1>2, HealKeeps, ExpireKeeps DEF AccountsNext

\* api/auth.py, api/oauth.py, api/users.py: whatever requests overlap, no two accounts have
\* keyed hashes of one address, an invitation is used exactly when it became an account, and
\* it becomes one, and every account can be signed in to.
THEOREM AccountsAreSound == AccountsSpec => []AccountsHold
<1>1. AccountsInv => AccountsHold
  <2> SUFFICES ASSUME AccountsInv PROVE InviteOnce BY DEF AccountsInv, AccountsHold
  <2> SUFFICES ASSUME NEW i \in Invites
               PROVE  LET of == {u \in Taken : users[u].by = i}
                      IN Cardinality(of) <= 1 /\ (of # {} <=> invites[i].used)
    BY DEF InviteOnce
  <2> DEFINE of == {u \in Taken : users[u].by = i}
  <2>1. \A u, v \in of : u = v BY DEF AccountsInv, InvitedOnce
  <2>2. of # {} <=> invites[i].used BY DEF AccountsInv, InvitedOnce
  <2> HIDE DEF of
  <2>3. Cardinality(of) <= 1 BY <2>1, AtMostOne
  <2> QED BY <2>2, <2>3 DEF of
<1> QED BY AccountsStart, AccountsStep, <1>1, PTL DEF AccountsSpec

-----------------------------------------------------------------------------
(* Sessions.  A request that ends everything knows the sessions of its beginning; each of  *)
(* them is gone, still in its list, in its hands, or taken out of the index by another     *)
(* request.  A token is replaced once, because its rotation starts from a live token and   *)
(* leaves it revoked, and no token is live again.                                          *)

AuthPlaces == {"idle", "wrong", "right", "mfa", "issue", "commit", "rotate", "get", "srem", "delete",
               "members", "each", "revoke", "ended"}
RequestType == [at : AuthPlaces, op : {"none", "logout", "revoke", "admin", "all"},
                k : Sids \cup {"none"}, failed : Nat, lock : {"none", "past", "future"},
                left : SUBSET Sids, was : [sessions : SUBSET Sids, tokens : SUBSET Sids]]

AuthTypes ==
    /\ account \in [active : BOOLEAN, failed : Nat, lock : {"none", "past", "future"}]
    /\ token \in [Sids -> {"none", "live", "revoked"}]
    /\ parent \in [Sids -> Sids \cup {"none", "unused"}]
    /\ session \subseteq Sids /\ index \subseteq Sids
    /\ request \in [AuthRequests -> RequestType]
    /\ wrong \in Nat

\* What a request may rely on.  Ending everything:
Destroying == {"get", "srem", "delete"}
KnowsSessions(f) ==
    /\ f.was.sessions \cap Unused = {}
    /\ f.at = "members" => f.op = "all" /\ f.k \notin f.was.sessions
    /\ f.op = "all" /\ f.at \in Destroying \cup {"each", "revoke", "ended"} =>
         f.was.sessions \cap session \subseteq
           cut \cup f.left \cup (IF f.at \in Destroying THEN {f.k} ELSE {})
    /\ f.at \in {"each", "ended"} => f.op = "all"
    /\ f.at \in Destroying => f.op # "none"
    /\ f.at = "revoke" => f.op \in {"logout", "revoke", "all"}
    /\ f.at \in {"revoke", "ended"} /\ f.op = "all" => f.left = {}
    /\ f.at \in Destroying \cup {"commit", "rotate"} => f.k \in Sids

\* tokens:
KnowsTokens(f) ==
    /\ \A k \in f.was.tokens : token[k] # "none"
    /\ f.at = "ended" => f.was.tokens \cap Live = {}
    /\ f.at = "commit" => token[f.k] = "none" /\ parent[f.k] # "unused"
    /\ f.at = "rotate" => token[f.k] # "none"
    /\ f.at = "issue" /\ f.k # "none" => token[f.k] = "revoked"
    /\ f.at \in {"wrong", "right", "mfa"} => f.k = "none"

\* the count of wrong passwords:
KnowsFailures(f) == f.at = "wrong" => f.failed <= wrong

Knows(f) == KnowsSessions(f) /\ KnowsTokens(f) /\ KnowsFailures(f)

SessionsListed == session \subseteq index \cup cut /\ session \cap Unused = {}

TokensFollow == /\ \A k \in Unused : token[k] = "none"
                /\ \A k, c \in Sids : parent[c] = k => token[k] = "revoked"

\* A request that is replacing the token k.
Replacing(f, k) == f.at \in {"rotate", "issue"} /\ f.k = k

RotatesOnce ==
    \A k \in Sids \ raced :
        /\ \A c, d \in Sids : parent[c] = k /\ parent[d] = k => c = d
        /\ \A q, r \in AuthRequests : Replacing(request[q], k) /\ Replacing(request[r], k) => q = r
        /\ \A q \in AuthRequests, c \in Sids : Replacing(request[q], k) => parent[c] # k

CommitsApart == \A q, r \in AuthRequests :
    request[q].at = "commit" /\ request[r].at = "commit" /\ request[q].k = request[r].k => q = r

SessionsInv == /\ AuthTypes /\ SessionsListed /\ TokensFollow /\ RotatesOnce /\ CommitsApart
               /\ NoFalseLockout
               /\ \A r \in AuthRequests : Knows(request[r])

-----------------------------------------------------------------------------
\* The count that is left after a success bounds what the others have read.
LEMMA MaxSnapIs ==
    ASSUME SessionsInv, NEW r
    PROVE  /\ MaxSnap(r) \in Nat
           /\ \A q \in AuthRequests \ {r} : request[q].at = "wrong" => request[q].failed <= MaxSnap(r)
<1> DEFINE seen == {0} \cup {request[q].failed : q \in {p \in AuthRequests \ {r} : request[p].at = "wrong"}}
<1>1. \A q \in AuthRequests : request[q].failed \in Nat /\ (request[q].at = "wrong" => request[q].failed <= wrong)
  BY DEF SessionsInv, AuthTypes, RequestType, Knows, KnowsFailures
<1>2. seen \in SUBSET Nat /\ seen # {} /\ wrong \in Nat /\ \A n \in seen : n <= wrong
  BY <1>1 DEF SessionsInv, AuthTypes
<1>3. \A q \in AuthRequests \ {r} : request[q].at = "wrong" => request[q].failed \in seen
  OBVIOUS
<1>4. MaxSnap(r) = CHOOSE n \in seen : \A m \in seen : m <= n BY DEF MaxSnap
<1> HIDE DEF seen
<1>5. \E n \in seen : \A m \in seen : m <= n BY <1>2, LargestOf
<1>6. MaxSnap(r) \in seen /\ \A m \in seen : m <= MaxSnap(r) BY <1>4, <1>5
<1> QED BY <1>2, <1>3, <1>6

\* What a step does to the tokens and sessions when others rely on them.
Calm ==
    /\ \A k \in Sids : /\ token[k] # "none" => token'[k] # "none"
                       /\ token[k] = "revoked" => token'[k] = "revoked"
                       /\ token'[k] = "live" => token[k] # "revoked"
                       /\ parent[k] # "unused" => parent'[k] # "unused"
                       /\ k \in session' \ cut' => parent[k] = "unused" \/ k \in session \ cut

\* What the others know stays true.
LEMMA OthersKnow ==
    ASSUME SessionsInv, AuthTypes', Calm, NEW q \in AuthRequests,
           request[q].at = "wrong" => request[q].failed <= wrong',
           request[q].at = "commit" => token'[request[q].k] = "none"
    PROVE  Knows(request[q])'  \/ request'[q] # request[q]
<1> SUFFICES ASSUME request'[q] = request[q] PROVE Knows(request[q])' OBVIOUS
<1>1. request[q] \in RequestType /\ Knows(request[q]) BY DEF SessionsInv, AuthTypes
<1>2. KnowsSessions(request[q])'
  <2>1. request[q].was.sessions \cap Unused' = {}
    BY <1>1 DEF Knows, KnowsSessions, Calm, Unused, RequestType
  <2>2. \A k \in request[q].was.sessions \cap session' : k \in cut' \/ k \in session \ cut
    BY <1>1 DEF Knows, KnowsSessions, Calm, Unused, RequestType
  <2> QED BY <1>1, <2>1, <2>2 DEF Knows, KnowsSessions, Unused
<1>3. KnowsTokens(request[q])'
  BY <1>1 DEF Knows, KnowsTokens, KnowsSessions, Calm, Live, RequestType, AuthTypes, SessionsInv
<1>4. KnowsFailures(request[q])' BY <1>1 DEF Knows, KnowsFailures
<1> QED BY <1>2, <1>3, <1>4 DEF Knows

-----------------------------------------------------------------------------
\* One request moves on to f: what there is to show of it.
LEMMA StepKeeps ==
    ASSUME SessionsInv, NEW r \in AuthRequests, NEW f \in RequestType, Step(r, f),
           AuthTypes' \/ request' \notin [AuthRequests -> RequestType],
           Calm, SessionsListed', TokensFollow', RotatesOnce', NoFalseLockout',
           Knows(f)' \/ request'[r] # f,
           \A q \in AuthRequests \ {r} :
              /\ request[q].at = "wrong" => request[q].failed <= wrong'
              /\ request[q].at = "commit" => /\ token'[request[q].k] = "none"
                                             /\ f.at = "commit" => f.k # request[q].k
    PROVE  SessionsInv'
<1>1. /\ request' \in [AuthRequests -> RequestType] /\ request'[r] = f
      /\ \A q \in AuthRequests \ {r} : request'[q] = request[q]
  BY DEF SessionsInv, AuthTypes, Step
<1>2. AuthTypes' BY <1>1
<1>3. ASSUME NEW q \in AuthRequests PROVE Knows(request[q])'
  <2>1. CASE q = r
    <3>1. Knows(f)' BY <1>1
    <3> QED BY <1>1, <2>1, <3>1 DEF Knows, KnowsSessions, KnowsTokens, KnowsFailures
  <2>2. CASE q # r BY <1>1, <1>2, <2>2, OthersKnow
  <2> QED BY <2>1, <2>2
<1>4. CommitsApart' BY <1>1 DEF SessionsInv, CommitsApart
<1> QED BY <1>2, <1>3, <1>4 DEF SessionsInv

\* A request that does not begin to replace a token, while no token changes hands.
LEMMA RotationStays ==
    ASSUME SessionsInv, NEW r \in AuthRequests, NEW f \in RequestType, Step(r, f),
           UNCHANGED parent, raced \subseteq raced',
           f.at \in {"rotate", "issue"} /\ f.k \in Sids => Replacing(request[r], f.k)
    PROVE  RotatesOnce'
<1>1. request'[r] = f /\ \A q \in AuthRequests \ {r} : request'[q] = request[q]
  BY DEF SessionsInv, AuthTypes, Step
<1>2. \A q \in AuthRequests, k \in Sids : Replacing(request'[q], k) => Replacing(request[q], k)
  BY <1>1 DEF Replacing
<1> QED BY <1>2 DEF SessionsInv, RotatesOnce, Replacing

\* Steps that leave tokens and sessions alone.
LEMMA QuietKeeps ==
    ASSUME SessionsInv, NEW r \in AuthRequests, NEW f \in RequestType, Step(r, f),
           UNCHANGED <<token, session, index, parent, cut>>, raced \subseteq raced',
           account' \in [active : BOOLEAN, failed : Nat, lock : {"none", "past", "future"}],
           wrong' \in Nat, NoFalseLockout',
           \A q \in AuthRequests \ {r} : request[q].at = "wrong" => request[q].failed <= wrong',
           f.at # "commit", RotatesOnce', Knows(f)' \/ request'[r] # f
    PROVE  SessionsInv'
<1>1. AuthTypes' \/ request' \notin [AuthRequests -> RequestType] BY DEF SessionsInv, AuthTypes
<1>2. Calm BY DEF Calm
<1>3. SessionsListed' /\ TokensFollow' BY DEF SessionsInv, SessionsListed, TokensFollow, Unused
<1>4. \A q \in AuthRequests : request[q].at = "commit" => token'[request[q].k] = "none"
  BY DEF SessionsInv, Knows, KnowsTokens
<1> QED BY <1>1, <1>2, <1>3, <1>4, StepKeeps

\* Quiet steps that leave the account alone as well, and begin no replacement.
LEMMA MovesKeep ==
    ASSUME SessionsInv, NEW r \in AuthRequests, NEW f \in RequestType, Step(r, f),
           UNCHANGED <<account, token, session, index, parent, raced, cut, wrong>>,
           f.at \in {"rotate", "issue"} /\ f.k \in Sids => Replacing(request[r], f.k),
           f.at # "commit", Knows(f)
    PROVE  SessionsInv'
<1>1. RotatesOnce' BY RotationStays
<1>2. Knows(f)' BY DEF Knows, KnowsSessions, KnowsTokens, KnowsFailures, Unused, Live
<1>3. NoFalseLockout' BY DEF SessionsInv, NoFalseLockout
<1>4. \A q \in AuthRequests : request[q].at = "wrong" => request[q].failed <= wrong'
  BY DEF SessionsInv, Knows, KnowsFailures
<1>5. /\ account' \in [active : BOOLEAN, failed : Nat, lock : {"none", "past", "future"}]
      /\ wrong' \in Nat
  BY DEF SessionsInv, AuthTypes
<1> QED BY <1>1, <1>2, <1>3, <1>4, <1>5, QuietKeeps

\* A request that is over knows nothing.
LEMMA NoRequestIs ==
    /\ NoRequest \in RequestType /\ Knows(NoRequest) /\ Knows(NoRequest)' /\ NoRequest.at = "idle"
BY DEF NoRequest, RequestType, AuthPlaces, Knows, KnowsSessions, KnowsTokens, KnowsFailures, Destroying, Live

\* What a request is when it moves on.
LEMMA ToIs ==
    ASSUME SessionsInv, NEW r \in AuthRequests, NEW at \in AuthPlaces
    PROVE  /\ request[r] \in RequestType /\ Knows(request[r]) /\ To(r, at) \in RequestType
           /\ To(r, at).at = at /\ To(r, at).op = request[r].op /\ To(r, at).k = request[r].k
           /\ To(r, at).left = request[r].left /\ To(r, at).was = request[r].was
BY DEF SessionsInv, AuthTypes, To, RequestType

-----------------------------------------------------------------------------
(* Signing in. *)
LEMMA LoginReadKeeps == ASSUME SessionsInv, NEW r \in AuthRequests, LoginRead(r) PROVE SessionsInv'
<1>1. PICK at \in {"wrong", "right"} :
        Step(r, [NoRequest EXCEPT !.at = at, !.failed = account.failed, !.lock = account.lock])
  BY DEF LoginRead
<1> DEFINE f == [NoRequest EXCEPT !.at = at, !.failed = account.failed, !.lock = account.lock]
<1>2. account.failed \in Nat /\ account.lock \in {"none", "past", "future"} /\ account.failed <= wrong
  BY DEF SessionsInv, AuthTypes, NoFalseLockout
<1>3. /\ f \in RequestType /\ f.at = at /\ f.failed = account.failed /\ f.k = "none" /\ f.op = "none"
      /\ f.was = [sessions |-> {}, tokens |-> {}]
  BY <1>2 DEF NoRequest, RequestType, AuthPlaces
<1>4. Step(r, f) /\ UNCHANGED <<account, token, session, index, parent, raced, cut, wrong>>
  BY <1>1 DEF LoginRead
<1> HIDE DEF f
<1>5. Knows(f) BY <1>2, <1>3 DEF Knows, KnowsSessions, KnowsTokens, KnowsFailures, Destroying
<1> QED BY <1>3, <1>4, <1>5, MovesKeep

LEMMA LoginWrongKeeps == ASSUME SessionsInv, NEW r \in AuthRequests, LoginWrong(r) PROVE SessionsInv'
<1> USE NoRequestIs
<1>1. /\ request[r].at = "wrong" /\ request[r].failed \in Nat /\ request[r].failed <= wrong /\ wrong \in Nat
      /\ wrong' = wrong + 1
      /\ Step(r, NoRequest) /\ UNCHANGED <<token, session, index, parent, raced, cut>>
  BY DEF LoginWrong, SessionsInv, AuthTypes, RequestType, Knows, KnowsFailures
<1>2. /\ account' \in [active : BOOLEAN, failed : Nat, lock : {"none", "past", "future"}]
      /\ account'.failed = request[r].failed + 1
  <2>1. PICK n \in Nat : n = request[r].failed + 1 BY <1>1
  <2>2. PICK lock \in {"none", "past", "future"} : lock = IF Locks(n) THEN "future" ELSE account.lock
    BY DEF SessionsInv, AuthTypes
  <2>3. account' = [account EXCEPT !.failed = n, !.lock = lock] BY <2>1, <2>2 DEF LoginWrong
  <2> QED BY <2>1, <2>3 DEF SessionsInv, AuthTypes
<1>3. NoFalseLockout' /\ wrong' \in Nat BY <1>1, <1>2 DEF NoFalseLockout
<1>4. \A q \in AuthRequests : request[q].at = "wrong" => request[q].failed <= wrong'
  <2> SUFFICES ASSUME NEW q \in AuthRequests, request[q].at = "wrong" PROVE request[q].failed <= wrong'
    OBVIOUS
  <2>1. request[q].failed \in Nat /\ request[q].failed <= wrong
    BY DEF SessionsInv, AuthTypes, RequestType, Knows, KnowsFailures
  <2> QED BY <1>1, <2>1
<1>5. RotatesOnce' BY <1>1, RotationStays
<1> QED BY <1>1, <1>2, <1>3, <1>4, <1>5, QuietKeeps

LEMMA LoginRightKeeps == ASSUME SessionsInv, NEW r \in AuthRequests, LoginRight(r) PROVE SessionsInv'
<1> DEFINE f == [NoRequest EXCEPT !.at = IF UseMfa THEN "mfa" ELSE "issue"]
<1>1. /\ f \in RequestType /\ f.at \in {"mfa", "issue"} /\ f.k = "none" /\ f.op = "none"
      /\ f.was = [sessions |-> {}, tokens |-> {}]
  BY DEF NoRequest, RequestType, AuthPlaces
<1>2. Step(r, f) /\ UNCHANGED <<token, session, index, parent, raced, cut>>
  BY DEF LoginRight
<1> HIDE DEF f
<1>3. Knows(f)' BY <1>1 DEF Knows, KnowsSessions, KnowsTokens, KnowsFailures, Destroying
<1>4. /\ account' \in [active : BOOLEAN, failed : Nat, lock : {"none", "past", "future"}]
      /\ account'.failed = ResetCounter(r)
      /\ account.failed \in Nat /\ wrong \in Nat /\ account.failed <= wrong
  BY DEF LoginRight, SessionsInv, AuthTypes, ResetCounter, NoFalseLockout
<1>5. /\ wrong' \in Nat /\ NoFalseLockout'
      /\ \A q \in AuthRequests \ {r} : request[q].at = "wrong" => request[q].failed <= wrong'
  <2>1. CASE request[r].failed = 0
    BY <1>4, <2>1 DEF LoginRight, ResetCounter, NoFalseLockout, SessionsInv, Knows, KnowsFailures
  <2>2. CASE request[r].failed # 0
    <3>1. wrong' = MaxSnap(r) /\ account'.failed = 0 BY <1>4, <2>2 DEF LoginRight, ResetCounter
    <3> QED BY <3>1, MaxSnapIs DEF NoFalseLockout
  <2> QED BY <2>1, <2>2
<1>6. RotatesOnce' BY <1>1, <1>2, RotationStays, SessionsAssumption
<1> QED BY <1>1, <1>2, <1>3, <1>4, <1>5, <1>6, QuietKeeps

LEMMA VerifyMfaKeeps == ASSUME SessionsInv, NEW r \in AuthRequests, VerifyMfa(r) PROVE SessionsInv'
<1>1. UNCHANGED <<account, token, session, index, parent, raced, cut, wrong>> /\ request[r].at = "mfa"
  BY DEF VerifyMfa
<1>2. CASE Step(r, NoRequest) BY <1>1, <1>2, NoRequestIs, MovesKeep
<1>3. CASE Step(r, To(r, "issue"))
  <2> DEFINE f == To(r, "issue")
  <2>1. /\ f \in RequestType /\ f.at = "issue" /\ f.k = request[r].k /\ f.op = request[r].op
        /\ f.was = request[r].was /\ Knows(request[r])
    BY ToIs DEF AuthPlaces
  <2> HIDE DEF f
  <2>2. f.k = "none" BY <1>1, <2>1 DEF Knows, KnowsTokens
  <2>3. Knows(f) BY <1>1, <2>1, <2>2 DEF Knows, KnowsSessions, KnowsTokens, KnowsFailures, Destroying
  <2> QED BY <1>1, <1>3, <2>1, <2>2, <2>3, MovesKeep, SessionsAssumption DEF f
<1> QED BY <1>2, <1>3 DEF VerifyMfa

\* Session, index entry and parent of a new sign-in come in one transaction.
LEMMA CreateSessionKeeps == ASSUME SessionsInv, NEW r \in AuthRequests, CreateSession(r) PROVE SessionsInv'
<1> DEFINE first == CHOOSE k \in Unused : TRUE
<1>1. first \in Unused BY DEF CreateSession
<1> HIDE DEF first
<1>k. PICK k \in Unused : k = first BY <1>1
<1>2. /\ session' = session \cup {k} /\ index' = index \cup {k}
      /\ parent' = [parent EXCEPT ![k] = request[r].k]
      /\ Step(r, [To(r, "commit") EXCEPT !.k = k])
      /\ request[r].at = "issue" /\ UNCHANGED <<account, token, raced, cut, wrong>>
  BY <1>k DEF CreateSession, Listed, first
<1>3. /\ k \in Sids /\ parent[k] = "unused" /\ token[k] = "none" /\ k \notin session
  BY DEF Unused, SessionsInv, TokensFollow, SessionsListed
<1>4. /\ To(r, "commit") \in RequestType /\ Knows(request[r]) /\ To(r, "commit").at = "commit"
      /\ To(r, "commit").op = request[r].op /\ To(r, "commit").was = request[r].was
  BY ToIs DEF AuthPlaces
<1>5. PICK f \in RequestType : Step(r, f) /\ f.at = "commit" /\ f.k = k /\ f.was = request[r].was
  <2> DEFINE g == [To(r, "commit") EXCEPT !.k = k]
  <2>1. g \in RequestType /\ g.at = "commit" /\ g.k = k /\ g.was = request[r].was
    BY <1>3, <1>4 DEF RequestType
  <2>2. Step(r, g) BY <1>2
  <2> HIDE DEF g
  <2> QED BY <2>1, <2>2
<1>6. /\ request[r].k \in Sids \cup {"none"} /\ (request[r].k # "none" => token[request[r].k] = "revoked")
      /\ request[r].k # k /\ request[r].k # "unused"
  BY <1>2, <1>3, ToIs, SessionsAssumption DEF Knows, KnowsTokens, RequestType, AuthPlaces
<1>7. /\ parent' \in [Sids -> Sids \cup {"none", "unused"}] /\ parent'[k] = request[r].k
      /\ \A c \in Sids \ {k} : parent'[c] = parent[c]
  BY <1>2, <1>3, <1>6 DEF SessionsInv, AuthTypes
<1>8. Unused' = Unused \ {k} BY <1>3, <1>6, <1>7 DEF Unused
<1>9. AuthTypes' \/ request' \notin [AuthRequests -> RequestType]
  BY <1>2, <1>3, <1>7 DEF SessionsInv, AuthTypes
<1>10. Calm BY <1>2, <1>3, <1>6, <1>7 DEF Calm
<1>11. SessionsListed' BY <1>2, <1>3, <1>8 DEF SessionsInv, SessionsListed
<1>12. TokensFollow'
  BY <1>2, <1>3, <1>6, <1>7, <1>8, SessionsAssumption DEF SessionsInv, TokensFollow
<1>13. RotatesOnce'
  <2>1. request'[r] = f /\ \A q \in AuthRequests \ {r} : request'[q] = request[q]
    BY <1>5 DEF SessionsInv, AuthTypes, Step
  <2>2. \A q \in AuthRequests, i \in Sids : Replacing(request'[q], i) => Replacing(request[q], i) /\ q # r
    BY <1>5, <2>1 DEF Replacing
  <2>3. \A i \in Sids : request[r].k = i => Replacing(request[r], i) BY <1>2 DEF Replacing
  <2> SUFFICES ASSUME NEW i \in Sids \ raced'
               PROVE  /\ \A c, d \in Sids : parent'[c] = i /\ parent'[d] = i => c = d
                      /\ \A p, q \in AuthRequests : Replacing(request'[p], i) /\ Replacing(request'[q], i) => p = q
                      /\ \A q \in AuthRequests, c \in Sids : Replacing(request'[q], i) => parent'[c] # i
    BY DEF RotatesOnce, Replacing
  <2>4. i \in Sids \ raced BY <1>2
  <2>5. \A c, d \in Sids : parent'[c] = i /\ parent'[d] = i => c = d
    BY <1>7, <2>3, <2>4 DEF SessionsInv, RotatesOnce
  <2>6. \A p, q \in AuthRequests : Replacing(request'[p], i) /\ Replacing(request'[q], i) => p = q
    BY <2>2, <2>4 DEF SessionsInv, RotatesOnce
  <2>7. \A q \in AuthRequests, c \in Sids : Replacing(request'[q], i) => parent'[c] # i
    BY <1>7, <2>2, <2>3, <2>4 DEF SessionsInv, RotatesOnce
  <2> QED BY <2>5, <2>6, <2>7
<1>14. NoFalseLockout' BY <1>2 DEF SessionsInv, NoFalseLockout
<1>15. Knows(f)'
  <2>1. KnowsSessions(f)'
    BY <1>4, <1>5, <1>8, <1>3 DEF Knows, KnowsSessions, Destroying
  <2>2. KnowsTokens(f)'
    BY <1>2, <1>3, <1>4, <1>5, <1>6, <1>7 DEF Knows, KnowsTokens
  <2>3. KnowsFailures(f)' BY <1>5 DEF KnowsFailures
  <2> QED BY <2>1, <2>2, <2>3 DEF Knows
<1>16. \A q \in AuthRequests \ {r} :
          /\ request[q].at = "wrong" => request[q].failed <= wrong'
          /\ request[q].at = "commit" => token'[request[q].k] = "none" /\ f.k # request[q].k
  BY <1>2, <1>3, <1>5 DEF SessionsInv, Knows, KnowsFailures, KnowsTokens
<1> QED BY <1>2, <1>5, <1>9, <1>10, <1>11, <1>12, <1>13, <1>14, <1>15, <1>16, StepKeeps

\* Tokens that change: some that are live are revoked, or one that was never there is live.
LEMMA TokensKeep ==
    ASSUME SessionsInv, NEW r \in AuthRequests, NEW f \in RequestType, Step(r, f),
           UNCHANGED <<account, session, index, parent, raced, cut, wrong>>,
           token' \in [Sids -> {"none", "live", "revoked"}],
           \A k \in Sids : \/ token'[k] = token[k]
                           \/ token[k] = "live" /\ token'[k] = "revoked"
                           \/ /\ token[k] = "none" /\ request[r].at = "commit" /\ request[r].k = k,
           f.at # "commit", Knows(f)' \/ request'[r] # f,
           f.at \in {"rotate", "issue"} /\ f.k \in Sids => Replacing(request[r], f.k)
    PROVE  SessionsInv'
<1>1. RotatesOnce' BY RotationStays
<1>2. AuthTypes' \/ request' \notin [AuthRequests -> RequestType] BY DEF SessionsInv, AuthTypes
<1>3. request[r].at = "commit" => parent[request[r].k] # "unused"
  BY DEF SessionsInv, Knows, KnowsTokens
<1>5. ASSUME NEW k \in Sids
      PROVE  /\ token[k] = "none" /\ token'[k] # "none" => request[r].at = "commit" /\ request[r].k = k
             /\ token[k] = "revoked" => token'[k] = "revoked"
             /\ token[k] # "none" => token'[k] # "none"
  OBVIOUS
<1>4. Calm BY <1>5 DEF Calm
<1>6. SessionsListed' BY DEF SessionsInv, SessionsListed, Unused
<1>7. TokensFollow'
  <2>1. Unused' = Unused BY DEF Unused
  <2>2. \A k \in Unused : k \in Sids /\ token'[k] = "none"
    BY <1>3, <1>5 DEF SessionsInv, TokensFollow, Unused
  <2> QED BY <1>5, <2>1, <2>2 DEF SessionsInv, TokensFollow
<1>8. NoFalseLockout' BY DEF SessionsInv, NoFalseLockout
<1>9. ASSUME NEW q \in AuthRequests \ {r}
      PROVE  /\ request[q].at = "wrong" => request[q].failed <= wrong'
             /\ request[q].at = "commit" => token'[request[q].k] = "none"
  <2>1. Knows(request[q]) BY DEF SessionsInv
  <2>2. request[q].at = "commit" => /\ request[q].k \in Sids /\ token[request[q].k] = "none"
                                    /\ (request[r].at = "commit" => request[r].k # request[q].k)
    BY <2>1 DEF Knows, KnowsSessions, KnowsTokens, SessionsInv, CommitsApart, Destroying
  <2> QED BY <1>5, <2>1, <2>2 DEF Knows, KnowsFailures
<1> QED BY <1>1, <1>2, <1>4, <1>6, <1>7, <1>8, <1>9, StepKeeps

LEMMA CommitTokensKeeps == ASSUME SessionsInv, NEW r \in AuthRequests, CommitTokens(r) PROVE SessionsInv'
<1>1. /\ request[r].at = "commit" /\ request[r].k \in Sids /\ token[request[r].k] = "none"
      /\ token' = [token EXCEPT ![request[r].k] = "live"] /\ Step(r, NoRequest)
      /\ UNCHANGED <<account, session, index, parent, raced, cut, wrong>>
  BY DEF CommitTokens, SessionsInv, Knows, KnowsSessions, KnowsTokens
<1>2. /\ token' \in [Sids -> {"none", "live", "revoked"}]
      /\ \A k \in Sids : token'[k] = token[k] \/ (token[k] = "none" /\ request[r].k = k)
  BY <1>1 DEF SessionsInv, AuthTypes
<1>3. PICK f \in RequestType : Step(r, f) /\ f.at = "idle" /\ f = NoRequest BY <1>1, NoRequestIs
<1>4. Knows(f)'
  <2>1. Knows(NoRequest)' BY NoRequestIs
  <2> QED BY <1>3, <2>1 DEF Knows, KnowsSessions, KnowsTokens, KnowsFailures
<1>5. \A k \in Sids : \/ token'[k] = token[k]
                      \/ token[k] = "live" /\ token'[k] = "revoked"
                      \/ token[k] = "none" /\ request[r].at = "commit" /\ request[r].k = k
  BY <1>1, <1>2
<1> QED BY <1>1, <1>2, <1>3, <1>4, <1>5, TokensKeep

-----------------------------------------------------------------------------
(* Rotation. *)
LEMMA RevokedIs ==
    ASSUME SessionsInv, NEW ks, RevokeEach(ks)
    PROVE  /\ token' \in [Sids -> {"none", "live", "revoked"}]
           /\ \A k \in Sids : \/ token'[k] = token[k] /\ (token[k] = "live" => k \notin ks)
                              \/ token[k] = "live" /\ token'[k] = "revoked"
BY DEF SessionsInv, AuthTypes, RevokeEach

LEMMA RotateKeeps == ASSUME SessionsInv, NEW r \in AuthRequests, Rotate(r) PROVE SessionsInv'
<1>1. /\ request[r].at = "rotate" /\ RevokeEach({request[r].k}) /\ Step(r, To(r, "issue"))
      /\ UNCHANGED <<account, session, index, parent, raced, cut, wrong>>
  BY DEF Rotate
<1>2. PICK f \in RequestType :
        /\ Step(r, f) /\ f.at = "issue" /\ f.k = request[r].k /\ f.op = request[r].op
        /\ f.was = request[r].was /\ Knows(request[r])
  BY <1>1, ToIs DEF AuthPlaces
<1>3. f.k \in Sids /\ token[f.k] # "none" BY <1>1, <1>2 DEF Knows, KnowsSessions, KnowsTokens
<1>4. token[f.k] \in {"none", "live", "revoked"} BY <1>3 DEF SessionsInv, AuthTypes
<1>5. token'[f.k] = "revoked" BY <1>1, <1>2, <1>3, <1>4, RevokedIs
<1>6. Knows(f)'
  <2>1. KnowsSessions(f)' BY <1>1, <1>2 DEF Knows, KnowsSessions, Destroying, Unused
  <2>2. \A k \in f.was.tokens : k \in Sids /\ token'[k] # "none"
    BY <1>1, <1>2, RevokedIs DEF Knows, KnowsTokens, RequestType
  <2>3. KnowsTokens(f)' BY <1>2, <1>5, <2>2 DEF KnowsTokens
  <2>4. KnowsFailures(f)' BY <1>2 DEF KnowsFailures
  <2> QED BY <2>1, <2>3, <2>4 DEF Knows
<1>7. Replacing(request[r], f.k) BY <1>1, <1>2 DEF Replacing
<1>8. /\ token' \in [Sids -> {"none", "live", "revoked"}]
      /\ \A k \in Sids : \/ token'[k] = token[k]
                         \/ token[k] = "live" /\ token'[k] = "revoked"
                         \/ token[k] = "none" /\ request[r].at = "commit" /\ request[r].k = k
  BY <1>1, RevokedIs
<1> QED BY <1>1, <1>2, <1>6, <1>7, <1>8, TokensKeep

\* Nobody's request moves.
LEMMA StillKeeps ==
    ASSUME SessionsInv, UNCHANGED <<request, parent, raced>>, AuthTypes', Calm, SessionsListed',
           \A k \in Sids : token[k] = "none" => token'[k] = "none",
           NoFalseLockout',
           \A q \in AuthRequests : request[q].at = "wrong" => request[q].failed <= wrong'
    PROVE  SessionsInv'
<1>1. RotatesOnce' /\ CommitsApart' BY DEF SessionsInv, RotatesOnce, CommitsApart, Replacing
<1>2. TokensFollow'
  BY DEF SessionsInv, TokensFollow, Unused, Calm
<1>3. ASSUME NEW q \in AuthRequests PROVE Knows(request[q])'
  <2>1. request[q].at = "commit" => token'[request[q].k] = "none"
    BY DEF SessionsInv, Knows, KnowsTokens, KnowsSessions, Destroying
  <2> QED BY <2>1, OthersKnow
<1> QED BY <1>1, <1>2, <1>3 DEF SessionsInv

LEMMA ValidateKeeps ==
    ASSUME SessionsInv, NEW r \in AuthRequests, NEW k \in Sids, ValidateRefreshToken(r, k)
    PROVE  SessionsInv'
<1>1. CASE token[k] # "live"
  <2>1. RevokeEach(Sids) /\ UNCHANGED <<account, session, index, request, parent, raced, cut, wrong>>
    BY <1>1 DEF ValidateRefreshToken, FindsToken
  <2>2. AuthTypes' BY <2>1, RevokedIs DEF SessionsInv, AuthTypes
  <2>3. Calm BY <2>1, RevokedIs DEF Calm
  <2>4. SessionsListed' BY <2>1 DEF SessionsInv, SessionsListed, Unused
  <2>5. \A i \in Sids : token[i] = "none" => token'[i] = "none" BY <2>1, RevokedIs
  <2>6. NoFalseLockout' /\ \A q \in AuthRequests : request[q].at = "wrong" => request[q].failed <= wrong'
    BY <2>1 DEF SessionsInv, NoFalseLockout, Knows, KnowsFailures
  <2> QED BY <2>1, <2>2, <2>3, <2>4, <2>5, <2>6, StillKeeps
<1>2. CASE token[k] = "live"
  <2>1. PICK f \in RequestType :
          /\ Step(r, f) /\ f.at = "rotate" /\ f.k = k /\ f.op = "none"
          /\ f.was = [sessions |-> {}, tokens |-> {}]
    <3> DEFINE f == [NoRequest EXCEPT !.at = "rotate", !.k = k]
    <3>1. /\ f \in RequestType /\ f.at = "rotate" /\ f.k = k /\ f.op = "none"
          /\ f.was = [sessions |-> {}, tokens |-> {}]
      BY DEF NoRequest, RequestType, AuthPlaces
    <3>2. Step(r, f) BY <1>2 DEF ValidateRefreshToken, FindsToken
    <3> HIDE DEF f
    <3> QED BY <3>1, <3>2
  <2>2. /\ UNCHANGED <<account, token, session, index, parent, cut, wrong>> /\ raced \subseteq raced'
        /\ k \in raced' \/ ~\E q \in AuthRequests : request[q].at = "rotate" /\ request[q].k = k
    BY <1>2 DEF ValidateRefreshToken, FindsToken
  <2>3. Knows(f)'
    BY <1>2, <2>1, <2>2 DEF Knows, KnowsSessions, KnowsTokens, KnowsFailures, Destroying
  <2>4. request'[r] = f /\ \A q \in AuthRequests \ {r} : request'[q] = request[q]
    BY <2>1 DEF SessionsInv, AuthTypes, Step
  <2>5. ~\E c \in Sids : parent[c] = k BY <1>2 DEF SessionsInv, TokensFollow
  <2>6. \A q \in AuthRequests : request[q].at = "issue" => request[q].k # k
    BY <1>2, SessionsAssumption DEF SessionsInv, Knows, KnowsTokens
  <2>7. RotatesOnce'
    <3> SUFFICES ASSUME NEW i \in Sids \ raced'
                 PROVE  /\ \A c, d \in Sids : parent[c] = i /\ parent[d] = i => c = d
                        /\ \A p, q \in AuthRequests : Replacing(request'[p], i) /\ Replacing(request'[q], i) => p = q
                        /\ \A q \in AuthRequests, c \in Sids : Replacing(request'[q], i) => parent[c] # i
      BY <2>2 DEF RotatesOnce, Replacing
    <3>1. i \in Sids \ raced BY <2>2
    <3>2. CASE i = k
      <4>1. \A q \in AuthRequests : Replacing(request'[q], i) => q = r
        BY <2>2, <2>4, <2>6, <3>2 DEF Replacing
      <4> QED BY <2>5, <3>2, <4>1
    <3>3. CASE i # k
      <4>1. \A q \in AuthRequests : Replacing(request'[q], i) => Replacing(request[q], i)
        BY <2>1, <2>4, <3>3 DEF Replacing
      <4> QED BY <3>1, <4>1 DEF SessionsInv, RotatesOnce
    <3> QED BY <3>2, <3>3
  <2>8. /\ account' \in [active : BOOLEAN, failed : Nat, lock : {"none", "past", "future"}]
        /\ wrong' \in Nat /\ NoFalseLockout'
        /\ \A q \in AuthRequests : request[q].at = "wrong" => request[q].failed <= wrong'
    BY <2>2 DEF SessionsInv, AuthTypes, NoFalseLockout, Knows, KnowsFailures
  <2> QED BY <2>1, <2>2, <2>3, <2>7, <2>8, QuietKeeps
<1> QED BY <1>1, <1>2

-----------------------------------------------------------------------------
(* Ending sessions. *)
LEMMA EndOneKeeps == ASSUME SessionsInv, NEW r \in AuthRequests, NEW k \in Sids, EndOne(r, k) PROVE SessionsInv'
<1>1. PICK op \in {"logout", "revoke", "admin"} : Step(r, [NoRequest EXCEPT !.at = "get", !.op = op, !.k = k])
  BY DEF EndOne
<1>2. PICK f \in RequestType :
        /\ Step(r, f) /\ f.at = "get" /\ f.k = k /\ f.op = op
        /\ f.was = [sessions |-> {}, tokens |-> {}]
  <2> DEFINE f == [NoRequest EXCEPT !.at = "get", !.op = op, !.k = k]
  <2>1. /\ f \in RequestType /\ f.at = "get" /\ f.k = k /\ f.op = op
        /\ f.was = [sessions |-> {}, tokens |-> {}]
    BY DEF NoRequest, RequestType, AuthPlaces
  <2>2. Step(r, f) BY <1>1
  <2> HIDE DEF f
  <2> QED BY <2>1, <2>2
<1>3. Knows(f) BY <1>2 DEF Knows, KnowsSessions, KnowsTokens, KnowsFailures, Destroying
<1>4. UNCHANGED <<account, token, session, index, parent, raced, cut, wrong>> BY DEF EndOne
<1> QED BY <1>2, <1>3, <1>4, MovesKeep

LEMMA EndAllKeeps == ASSUME SessionsInv, NEW r \in AuthRequests, EndAll(r) PROVE SessionsInv'
<1>1. PICK op \in {"logout_all", "force", "deactivate", "reset"}, k \in Sids \cup {"none"} :
        /\ Step(r, [NoRequest EXCEPT !.at = "members", !.op = "all", !.k = k,
                          !.was = [sessions |-> session \ {k}, tokens |-> Live]])
        /\ account' = CASE op = "deactivate" -> [account EXCEPT !.active = FALSE]
                        [] op = "reset" -> [account EXCEPT !.failed = 0, !.lock = "none"]
                        [] OTHER -> account
        /\ wrong' = IF op = "reset" THEN MaxSnap(r) ELSE wrong
  BY DEF EndAll
<1>2. PICK f \in RequestType :
        /\ Step(r, f) /\ f.at = "members" /\ f.k = k /\ f.op = "all"
        /\ f.was = [sessions |-> session \ {k}, tokens |-> Live]
  <2> DEFINE was == [sessions |-> session \ {k}, tokens |-> Live]
  <2>1. was \in [sessions : SUBSET Sids, tokens : SUBSET Sids]
    BY DEF SessionsInv, AuthTypes, Live
  <2> DEFINE f == [NoRequest EXCEPT !.at = "members", !.op = "all", !.k = k, !.was = was]
  <2>2. Step(r, f) BY <1>1
  <2> HIDE DEF was
  <2>3. f \in RequestType /\ f.at = "members" /\ f.k = k /\ f.op = "all" /\ f.was = was
    BY <2>1 DEF NoRequest, RequestType, AuthPlaces
  <2> HIDE DEF f
  <2> QED BY <2>2, <2>3 DEF was
<1>3. UNCHANGED <<token, session, index, parent, raced, cut>> BY DEF EndAll
<1>4. f.was.sessions = session \ {k} /\ f.was.tokens = Live BY <1>2
<1>5. Knows(f)'
  <2>1. f.was.sessions \cap Unused' = {} BY <1>3, <1>4 DEF SessionsInv, SessionsListed, Unused
  <2>2. KnowsSessions(f)' BY <1>2, <1>4, <2>1 DEF KnowsSessions, Destroying
  <2>3. \A i \in f.was.tokens : token'[i] # "none" BY <1>3, <1>4 DEF Live
  <2>4. KnowsTokens(f)' BY <1>2, <2>3 DEF KnowsTokens
  <2> QED BY <1>2, <2>2, <2>4 DEF Knows, KnowsFailures
<1>6. RotatesOnce' BY <1>2, <1>3, RotationStays
<1>7. account.failed \in Nat /\ account.failed <= wrong /\ wrong \in Nat
  BY DEF SessionsInv, AuthTypes, NoFalseLockout
<1>8. account' \in [active : BOOLEAN, failed : Nat, lock : {"none", "past", "future"}]
  BY <1>1 DEF SessionsInv, AuthTypes
<1>9. /\ wrong' \in Nat /\ NoFalseLockout'
      /\ \A q \in AuthRequests \ {r} : request[q].at = "wrong" => request[q].failed <= wrong'
  <2>1. CASE op = "reset"
    <3>1. wrong' = MaxSnap(r) /\ account'.failed = 0
      BY <1>1, <2>1 DEF SessionsInv, AuthTypes
    <3> QED BY <3>1, MaxSnapIs DEF NoFalseLockout
  <2>2. CASE op # "reset"
    <3>1. wrong' = wrong /\ account'.failed = account.failed
      BY <1>1, <2>2 DEF SessionsInv, AuthTypes
    <3> QED BY <1>7, <3>1 DEF NoFalseLockout, SessionsInv, Knows, KnowsFailures
  <2> QED BY <2>1, <2>2
<1> QED BY <1>2, <1>3, <1>5, <1>6, <1>8, <1>9, QuietKeeps

LEMMA MembersKeeps == ASSUME SessionsInv, NEW r \in AuthRequests, Members(r) PROVE SessionsInv'
<1> DEFINE left == index \ {request[r].k}
<1>1. /\ request[r].at = "members" /\ Step(r, [To(r, "each") EXCEPT !.left = left, !.k = "none"])
      /\ UNCHANGED <<account, token, session, index, parent, raced, cut, wrong>>
  BY DEF Members
<1>2. PICK f \in RequestType :
        /\ Step(r, f) /\ f.at = "each" /\ f.k = "none" /\ f.op = request[r].op /\ f.left = left
        /\ f.was = request[r].was /\ Knows(request[r])
  <2> DEFINE f == [To(r, "each") EXCEPT !.left = left, !.k = "none"]
  <2>1. left \subseteq Sids BY DEF SessionsInv, AuthTypes
  <2> HIDE DEF left
  <2>2. /\ f \in RequestType /\ f.at = "each" /\ f.k = "none" /\ f.op = request[r].op /\ f.left = left
        /\ f.was = request[r].was /\ Knows(request[r])
    <3>1. PICK g \in RequestType : /\ g = To(r, "each") /\ g.at = "each" /\ g.op = request[r].op
                                   /\ g.was = request[r].was /\ Knows(request[r])
      BY ToIs DEF AuthPlaces
    <3>2. PICK more \in SUBSET Sids : more = left BY <2>1
    <3>3. f = [g EXCEPT !.left = more, !.k = "none"] BY <3>1, <3>2
    <3> HIDE DEF f
    <3> QED BY <3>1, <3>2, <3>3 DEF RequestType
  <2>3. Step(r, f) BY <1>1 DEF left
  <2> HIDE DEF f
  <2> QED BY <2>2, <2>3
<1>3. Knows(f)
  <2>1. f.op = "all" /\ request[r].k \notin f.was.sessions /\ f.was.sessions \cap Unused = {}
    BY <1>1, <1>2 DEF Knows, KnowsSessions
  <2>2. f.was.sessions \cap session \subseteq cut \cup f.left
    BY <1>2, <2>1 DEF SessionsInv, SessionsListed
  <2>3. KnowsSessions(f) BY <1>2, <2>1, <2>2 DEF KnowsSessions, Destroying
  <2> QED BY <1>2, <2>3 DEF Knows, KnowsTokens, KnowsFailures
<1> QED BY <1>1, <1>2, <1>3, MovesKeep

LEMMA EachSessionKeeps == ASSUME SessionsInv, NEW r \in AuthRequests, EachSession(r) PROVE SessionsInv'
<1>1. /\ request[r].at = "each" /\ UNCHANGED <<account, token, session, index, parent, raced, cut, wrong>>
      /\ Knows(request[r]) /\ request[r].op = "all"
  BY DEF EachSession, SessionsInv, Knows, KnowsSessions
<1>2. CASE request[r].left = {}
  <2>1. PICK f \in RequestType :
          /\ Step(r, f) /\ f.at = "revoke" /\ f.op = request[r].op /\ f.left = request[r].left
          /\ f.was = request[r].was
    BY <1>2, ToIs DEF EachSession, AuthPlaces
  <2>2. Knows(f)
    BY <1>1, <1>2, <2>1 DEF Knows, KnowsSessions, KnowsTokens, KnowsFailures, Destroying
  <2> QED BY <1>1, <2>1, <2>2, MovesKeep
<1>3. ASSUME NEW k \in request[r].left, Step(r, [To(r, "get") EXCEPT !.k = k, !.left = @ \ {k}])
      PROVE  SessionsInv'
  <2>0. k \in Sids BY DEF SessionsInv, AuthTypes, RequestType
  <2>1. PICK f \in RequestType :
          /\ Step(r, f) /\ f.at = "get" /\ f.op = request[r].op /\ f.left = request[r].left \ {k}
          /\ f.was = request[r].was /\ f.k = k
    <3> DEFINE f == [To(r, "get") EXCEPT !.k = k, !.left = @ \ {k}]
    <3>1. /\ f \in RequestType /\ f.at = "get" /\ f.op = request[r].op /\ f.left = request[r].left \ {k}
          /\ f.was = request[r].was /\ f.k = k
      <4>1. PICK g \in RequestType : /\ g = To(r, "get") /\ g.at = "get" /\ g.op = request[r].op
                                     /\ g.was = request[r].was /\ g.left = request[r].left
        BY ToIs DEF AuthPlaces
      <4>2. f = [g EXCEPT !.k = k, !.left = g.left \ {k}] BY <4>1
      <4> HIDE DEF f
      <4> QED BY <2>0, <4>1, <4>2 DEF RequestType
    <3>2. Step(r, f) BY <1>3
    <3> HIDE DEF f
    <3> QED BY <3>1, <3>2
  <2>2. Knows(f)
    <3>1. f.was.sessions \cap session \subseteq cut \cup f.left \cup {f.k}
      BY <1>1, <2>1 DEF Knows, KnowsSessions, Destroying
    <3>2. KnowsSessions(f) BY <1>1, <2>0, <2>1, <3>1 DEF Knows, KnowsSessions, Destroying
    <3> QED BY <1>1, <2>1, <3>2 DEF Knows, KnowsTokens, KnowsFailures
  <2> QED BY <1>1, <2>1, <2>2, MovesKeep
<1> QED BY <1>2, <1>3 DEF EachSession

LEMMA DestroyGetKeeps == ASSUME SessionsInv, NEW r \in AuthRequests, DestroyGet(r) PROVE SessionsInv'
<1>1. /\ request[r].at = "get" /\ UNCHANGED <<account, token, session, index, parent, raced, cut, wrong>>
      /\ Knows(request[r])
  BY DEF DestroyGet, SessionsInv
<1>2. PICK at \in {"srem", "delete"} : Step(r, To(r, at)) BY DEF DestroyGet
<1>3. PICK f \in RequestType :
        /\ Step(r, f) /\ f.at = at /\ f.op = request[r].op /\ f.left = request[r].left
        /\ f.was = request[r].was /\ f.k = request[r].k
  BY <1>2, ToIs DEF AuthPlaces
<1>4. Knows(f)
  BY <1>1, <1>3 DEF Knows, KnowsSessions, KnowsTokens, KnowsFailures, Destroying
<1> QED BY <1>1, <1>3, <1>4, MovesKeep

\* Sessions that leave the index or the store.
LEMMA StoreKeeps ==
    ASSUME SessionsInv, NEW r \in AuthRequests, NEW f \in RequestType, Step(r, f),
           UNCHANGED <<account, token, parent, raced, wrong>>,
           session' \subseteq session, index' \subseteq index, SessionsListed',
           \A k \in session' \ cut' : k \in session \ cut,
           f.at \notin {"rotate", "issue", "commit"}, Knows(f)' \/ request'[r] # f
    PROVE  SessionsInv'
<1>1. AuthTypes' \/ request' \notin [AuthRequests -> RequestType] BY DEF SessionsInv, AuthTypes
<1>2. Calm BY DEF Calm
<1>3. TokensFollow' BY DEF SessionsInv, TokensFollow, Unused
<1>4. RotatesOnce' BY RotationStays
<1>5. NoFalseLockout' BY DEF SessionsInv, NoFalseLockout
<1>6. \A q \in AuthRequests : /\ request[q].at = "wrong" => request[q].failed <= wrong'
                              /\ request[q].at = "commit" => token'[request[q].k] = "none"
  BY DEF SessionsInv, Knows, KnowsFailures, KnowsTokens
<1> QED BY <1>1, <1>2, <1>3, <1>4, <1>5, <1>6, StepKeeps

LEMMA DestroySremKeeps == ASSUME SessionsInv, NEW r \in AuthRequests, DestroySrem(r) PROVE SessionsInv'
<1>1. /\ request[r].at = "srem" /\ UNCHANGED <<account, token, session, parent, raced, wrong>>
      /\ index' = index \ {request[r].k} /\ cut' = cut \cup {request[r].k} /\ Step(r, To(r, "delete"))
      /\ Knows(request[r])
  BY DEF DestroySrem, SessionsInv
<1>2. PICK f \in RequestType :
        /\ Step(r, f) /\ f.at = "delete" /\ f.op = request[r].op /\ f.left = request[r].left
        /\ f.was = request[r].was /\ f.k = request[r].k
  BY <1>1, ToIs DEF AuthPlaces
<1>3. Knows(f)'
  <2>1. KnowsSessions(f)' BY <1>1, <1>2 DEF Knows, KnowsSessions, Destroying, Unused
  <2>2. KnowsTokens(f)' BY <1>1, <1>2 DEF Knows, KnowsTokens
  <2> QED BY <1>2, <2>1, <2>2 DEF Knows, KnowsFailures
<1>4. SessionsListed' BY <1>1 DEF SessionsInv, SessionsListed, Unused
<1> QED BY <1>1, <1>2, <1>3, <1>4, StoreKeeps

LEMMA DestroyDeleteKeeps == ASSUME SessionsInv, NEW r \in AuthRequests, DestroyDelete(r) PROVE SessionsInv'
<1>1. /\ request[r].at = "delete" /\ UNCHANGED <<account, token, index, parent, raced, wrong>>
      /\ session' = session \ {request[r].k} /\ cut' = cut \ {request[r].k} /\ Step(r, AfterDestroy(r))
      /\ Knows(request[r])
  BY DEF DestroyDelete, SessionsInv
<1>2. SessionsListed' /\ \A k \in session' \ cut' : k \in session \ cut
  BY <1>1 DEF SessionsInv, SessionsListed, Unused
<1>3. PICK f \in RequestType :
        /\ Step(r, f) /\ f.at \in {"revoke", "each", "idle"} /\ Knows(f)'
  <2>1. CASE request[r].op \in {"logout", "revoke"}
    <3>1. PICK f \in RequestType :
            Step(r, f) /\ f.at = "revoke" /\ f.op = request[r].op /\ f.was = request[r].was
      BY <1>1, <2>1, ToIs DEF AfterDestroy, AuthPlaces
    <3>2. KnowsSessions(f)' BY <1>1, <2>1, <3>1 DEF Knows, KnowsSessions, Destroying, Unused
    <3>3. KnowsTokens(f)' BY <1>1, <3>1 DEF Knows, KnowsTokens
    <3> QED BY <3>1, <3>2, <3>3 DEF Knows, KnowsFailures
  <2>2. CASE request[r].op = "admin"
    <3>1. PICK f \in RequestType : Step(r, f) /\ f.at = "idle" /\ f = NoRequest
      BY <1>1, <2>2, NoRequestIs DEF AfterDestroy
    <3>2. Knows(NoRequest)' BY NoRequestIs
    <3>3. Knows(f)' BY <3>1, <3>2 DEF Knows, KnowsSessions, KnowsTokens, KnowsFailures
    <3> QED BY <3>1, <3>3
  <2>3. CASE request[r].op \notin {"logout", "revoke", "admin"}
    <3> DEFINE g == [To(r, "each") EXCEPT !.k = "none"]
    <3>0. PICK e \in RequestType :
            /\ e = To(r, "each") /\ e.at = "each" /\ e.op = request[r].op
            /\ e.was = request[r].was /\ e.left = request[r].left
      BY ToIs DEF AuthPlaces
    <3>1. /\ g \in RequestType /\ g.at = "each" /\ g.k = "none" /\ g.op = request[r].op
          /\ g.was = request[r].was /\ g.left = request[r].left
      <4>1. g = [e EXCEPT !.k = "none"] BY <3>0
      <4> HIDE DEF g
      <4> QED BY <3>0, <4>1 DEF RequestType
    <3>2. Step(r, g) BY <1>1, <2>3 DEF AfterDestroy
    <3> HIDE DEF g
    <3>3. PICK f \in RequestType :
            /\ Step(r, f) /\ f.at = "each" /\ f.k = "none" /\ f.op = request[r].op
            /\ f.was = request[r].was /\ f.left = request[r].left
      BY <3>1, <3>2
    <3>a. request[r].op \in {"none", "all"} BY <2>3 DEF SessionsInv, AuthTypes, RequestType
    <3>4. f.op = "all" => f.was.sessions \cap session' \subseteq cut' \cup f.left
      BY <1>1, <3>3 DEF Knows, KnowsSessions, Destroying
    <3>5. KnowsSessions(f)' BY <1>1, <3>3, <3>4, <3>a DEF Knows, KnowsSessions, Destroying, Unused
    <3>6. KnowsTokens(f)' BY <1>1, <3>3 DEF Knows, KnowsTokens
    <3> QED BY <3>3, <3>5, <3>6 DEF Knows, KnowsFailures
  <2> QED BY <2>1, <2>2, <2>3
<1> QED BY <1>1, <1>2, <1>3, StoreKeeps

LEMMA RevokeTokensKeeps == ASSUME SessionsInv, NEW r \in AuthRequests, RevokeTokens(r) PROVE SessionsInv'
<1>1. /\ request[r].at = "revoke" /\ UNCHANGED <<account, session, index, parent, raced, cut, wrong>>
      /\ Knows(request[r]) /\ request[r].op \in {"logout", "revoke", "all"}
  BY DEF RevokeTokens, SessionsInv, Knows, KnowsSessions
<1>2. PICK ks : RevokeEach(ks) /\ (request[r].op # "logout" => ks = Sids)
  BY DEF RevokeTokens
<1>3. /\ token' \in [Sids -> {"none", "live", "revoked"}]
      /\ \A k \in Sids : \/ token'[k] = token[k]
                         \/ token[k] = "live" /\ token'[k] = "revoked"
                         \/ token[k] = "none" /\ request[r].at = "commit" /\ request[r].k = k
      /\ \A k \in Sids : token[k] # "none" => token'[k] # "none"
      /\ request[r].op = "all" => \A k \in Sids : token'[k] # "live"
  BY <1>2, RevokedIs
<1>4. CASE request[r].op \in {"logout", "revoke"}
  <2>1. PICK f \in RequestType : Step(r, f) /\ f.at = "idle" /\ f = NoRequest
    BY <1>4, NoRequestIs DEF RevokeTokens
  <2>2. Knows(NoRequest)' BY NoRequestIs
  <2>3. Knows(f)' BY <2>1, <2>2 DEF Knows, KnowsSessions, KnowsTokens, KnowsFailures
  <2> QED BY <1>1, <1>3, <2>1, <2>3, TokensKeep
<1>5. CASE request[r].op = "all"
  <2>1. PICK f \in RequestType :
          /\ Step(r, f) /\ f.at = "ended" /\ f.op = "all" /\ f.was = request[r].was
          /\ f.left = request[r].left
    BY <1>5, ToIs DEF RevokeTokens, AuthPlaces
  <2>2. KnowsSessions(f)' BY <1>1, <1>5, <2>1 DEF Knows, KnowsSessions, Destroying, Unused
  <2>3. \A k \in f.was.tokens : k \in Sids /\ token'[k] # "none"
    BY <1>1, <1>3, <2>1 DEF Knows, KnowsTokens, RequestType
  <2>4. KnowsTokens(f)' BY <1>3, <1>5, <2>1, <2>3 DEF KnowsTokens, Live
  <2>5. Knows(f)' BY <2>1, <2>2, <2>4 DEF Knows, KnowsFailures
  <2> QED BY <1>1, <1>3, <2>1, <2>5, TokensKeep
<1> QED BY <1>1, <1>4, <1>5

LEMMA AnsweredKeeps ==
    ASSUME SessionsInv, NEW r \in AuthRequests, Answered(r) \/ RequestDies(r) PROVE SessionsInv'
<1>1. Step(r, NoRequest) /\ UNCHANGED <<account, token, session, index, parent, raced, cut, wrong>>
  BY DEF Answered, RequestDies
<1> QED BY <1>1, NoRequestIs, MovesKeep

LEMMA ElsewhereKeeps ==
    ASSUME SessionsInv,
           \/ \E r \in AuthRequests : ListSessions(r)
           \/ ReactivateUser \/ LockPasses \/ \E k \in Sids : SessionExpires(k)
    PROVE  SessionsInv'
<1>0. /\ account.failed \in Nat /\ account.failed <= wrong /\ wrong \in Nat
      /\ \A q \in AuthRequests : request[q].at = "wrong" => request[q].failed <= wrong
  BY DEF SessionsInv, AuthTypes, NoFalseLockout, Knows, KnowsFailures
<1>1. UNCHANGED <<request, token, parent, raced>> /\ session' \subseteq session /\ index' \subseteq index
      /\ \A k \in session' \ cut' : k \in session \ cut
  BY DEF ListSessions, ReactivateUser, LockPasses, SessionExpires
<1>2. SessionsListed'
  BY DEF ListSessions, ReactivateUser, LockPasses, SessionExpires, SessionsInv, SessionsListed, Unused
<1>3. account' \in [active : BOOLEAN, failed : Nat, lock : {"none", "past", "future"}]
  <2>1. account \in [active : BOOLEAN, failed : Nat, lock : {"none", "past", "future"}]
    BY DEF SessionsInv, AuthTypes
  <2>2. CASE ReactivateUser BY <2>1, <2>2 DEF ReactivateUser
  <2>3. CASE LockPasses BY <2>1, <2>3 DEF LockPasses
  <2>4. CASE UNCHANGED account BY <2>1, <2>4
  <2> QED BY <2>2, <2>3, <2>4 DEF ListSessions, SessionExpires
<1>4. /\ wrong' \in Nat /\ NoFalseLockout'
      /\ \A q \in AuthRequests : request[q].at = "wrong" => request[q].failed <= wrong'
  <2>1. CASE ReactivateUser
    <3>1. account'.failed = 0 /\ wrong' = MaxSnap("none")
      BY <2>1 DEF ReactivateUser, SessionsInv, AuthTypes
    <3>2. "none" \notin AuthRequests BY SessionsAssumption
    <3> QED BY <3>1, <3>2, MaxSnapIs DEF NoFalseLockout
  <2>2. CASE ~ReactivateUser
    <3>1. wrong' = wrong /\ account'.failed = account.failed
      BY <2>2 DEF ListSessions, LockPasses, SessionExpires, SessionsInv, AuthTypes
    <3> QED BY <1>0, <3>1 DEF NoFalseLockout
  <2> QED BY <2>1, <2>2
<1>5. AuthTypes' BY <1>1, <1>3, <1>4 DEF SessionsInv, AuthTypes
<1>6. Calm BY <1>1 DEF Calm
<1> QED BY <1>1, <1>2, <1>4, <1>5, <1>6, StillKeeps

LEMMA SessionsStart == AuthInit => SessionsInv
<1> SUFFICES ASSUME AuthInit PROVE SessionsInv OBVIOUS
<1>1. FirstSid \in Sids BY SessionsAssumption DEF FirstSid
<1>2. AuthTypes BY <1>1, NoRequestIs DEF AuthInit, AuthTypes
<1>3. Unused = Sids \ {FirstSid} BY <1>1, SessionsAssumption DEF AuthInit, Unused
<1>4. SessionsListed BY <1>3 DEF AuthInit, SessionsListed
<1>5. TokensFollow BY <1>3, SessionsAssumption DEF AuthInit, TokensFollow
<1>6. \A r \in AuthRequests : request[r] = NoRequest BY DEF AuthInit
<1>7. RotatesOnce
  <2>1. \A c, k \in Sids : parent[c] # k BY SessionsAssumption DEF AuthInit
  <2> QED BY <1>6, <2>1, NoRequestIs DEF RotatesOnce, Replacing
<1>8. CommitsApart BY <1>6, NoRequestIs DEF CommitsApart
<1>9. NoFalseLockout BY DEF AuthInit, NoFalseLockout
<1> QED BY <1>2, <1>4, <1>5, <1>6, <1>7, <1>8, <1>9, NoRequestIs DEF SessionsInv

\* Every step keeps the invariant.
LEMMA SessionsStep == SessionsInv /\ [AuthNext]_authVars => SessionsInv'
<1> SUFFICES ASSUME SessionsInv, [AuthNext]_authVars PROVE SessionsInv' OBVIOUS
<1>1. CASE UNCHANGED authVars
  <2>1. AuthTypes' /\ SessionsListed' /\ NoFalseLockout'
    BY <1>1 DEF authVars, SessionsInv, AuthTypes, SessionsListed, NoFalseLockout, Unused
  <2>2. Calm BY <1>1 DEF authVars, Calm
  <2>3. \A q \in AuthRequests : request[q].at = "wrong" => request[q].failed <= wrong'
    BY <1>1 DEF authVars, SessionsInv, Knows, KnowsFailures
  <2> QED BY <1>1, <2>1, <2>2, <2>3, StillKeeps DEF authVars
<1>2. ASSUME NEW r \in AuthRequests, LoginStep(r) \/ RotationStep(r) PROVE SessionsInv'
  BY <1>2, LoginReadKeeps, LoginWrongKeeps, LoginRightKeeps, VerifyMfaKeeps, CreateSessionKeeps,
     CommitTokensKeeps, ValidateKeeps, RotateKeeps DEF LoginStep, RotationStep
<1>3. ASSUME NEW r \in AuthRequests, EndingStep(r) PROVE SessionsInv'
  BY <1>3, EndOneKeeps, EndAllKeeps, MembersKeeps, EachSessionKeeps, DestroyGetKeeps, DestroySremKeeps,
     DestroyDeleteKeeps, RevokeTokensKeeps, AnsweredKeeps, ElsewhereKeeps DEF EndingStep
<1>4. ASSUME NEW r \in AuthRequests, RequestDies(r) PROVE SessionsInv'
  BY <1>4, AnsweredKeeps
<1>5. CASE AccountStep \/ \E k \in Sids : SessionExpires(k)
  BY <1>5, ElsewhereKeeps DEF AccountStep
<1> QED BY <1>1, <1>2, <1>3, <1>4, <1>5 DEF AuthNext

\* api/auth.py, auth/sessions.py: what was ended is gone, nobody is locked out for wrong
\* passwords before a success, and a token that no two requests validated at once is
\* replaced at most once, for any number of requests and sign-ins and any order of their steps.
THEOREM SessionsAreSound == AuthSpec => []SessionsHold
<1>1. SessionsInv => SessionsHold
  <2> SUFFICES ASSUME SessionsInv PROVE EndedIsGone /\ RotationIsLinear BY DEF SessionsInv, SessionsHold
  <2>1. EndedIsGone
    BY DEF SessionsInv, Knows, KnowsSessions, KnowsTokens, EndedIsGone, Destroying
  <2>2. ASSUME NEW k \in Sids, k \notin raced PROVE Cardinality({c \in Sids : parent[c] = k}) <= 1
    <3>1. \A c, d \in {c \in Sids : parent[c] = k} : c = d BY <2>2 DEF SessionsInv, RotatesOnce
    <3> QED BY <3>1, AtMostOne
  <2>3. RotationIsLinear BY <2>2 DEF RotationIsLinear
  <2> QED BY <2>1, <2>3
<1> QED BY SessionsStart, SessionsStep, <1>1, PTL DEF AuthSpec

-----------------------------------------------------------------------------
(* Registers.  Stamps are given once, in whatever order the rows that carry them are *)
(* committed; a commit changes no column but its own, and a request whose column has *)
(* not changed since it was read has taken a later time than the one in it.          *)

ConsentRow == [type : ConsentTypes, granted : BOOLEAN, at : Nat]
AllStatuses == {"received", "under_review", "fulfilled", "detected", "contained",
                "notified_regulator", "notified_subjects", "resolved"}
Kinds2 == {"dsr", "breach"}
StampRow == [Stamping -> Nat]
TicketRow == [status : AllStatuses, stamps : StampRow]
Reading == [at : {"read"}, kind : Kinds2, status : AllStatuses, seen : TicketRow]
Writing == [at : {"patch"}, kind : Kinds2, status : AllStatuses, seen : TicketRow, now : Nat]
Desk == {Away} \cup [at : {"consent"}, row : ConsentRow] \cup Reading \cup Writing

RegisterTypes ==
    /\ consents \in Seq(ConsentRow) /\ clock \in Nat
    /\ desk \in [Clerks -> Desk]
    /\ ticket \in [Kinds2 -> TicketRow] /\ committed \in [Kinds2 -> [Stamping -> SUBSET Nat]]

\* What is stored has been stamped, and so has what is read; a request that is to write
\* has taken its time after it read.
TimesAreOrdered ==
    /\ \A kind \in Kinds2 : \A s \in Stamping : ticket[kind].stamps[s] <= clock
    /\ \A k \in Clerks : desk[k] \in Reading =>
          \A s \in Stamping : desk[k].seen.stamps[s] <= clock
    /\ \A k \in Clerks : desk[k] \in Writing =>
          /\ desk[k].now <= clock
          /\ \A s \in Stamping : desk[k].seen.stamps[s] < desk[k].now

\* No stamp is given twice: neither to stored rows, nor to rows that are still to be stored.
StampsDiffer ==
    /\ \A i \in DOMAIN consents : consents[i].at <= clock
    /\ \A i, j \in DOMAIN consents : consents[i].at = consents[j].at => i = j
    /\ \A k \in Clerks : desk[k].at = "consent" =>
          /\ desk[k].row.at <= clock
          /\ \A i \in DOMAIN consents : consents[i].at # desk[k].row.at
          /\ \A m \in Clerks : desk[m].at = "consent" /\ desk[m].row.at = desk[k].row.at => m = k

RegistersInv == RegisterTypes /\ TimesAreOrdered /\ StampsDiffer /\ StampsAreKept

\* A stored row is one.
LEMMA StoredIs ==
    ASSUME RegistersInv, NEW i \in DOMAIN consents
    PROVE  consents[i] \in ConsentRow /\ consents[i].at \in Nat /\ consents[i].at <= clock
<1>1. consents[i] \in ConsentRow BY ElementOfSeq, LenProperties DEF RegistersInv, RegisterTypes
<1> QED BY <1>1 DEF RegistersInv, StampsDiffer, ConsentRow

\* Nothing has been stamped at first.
LEMMA RegistersStart == RegistersInit => RegistersInv
<1> SUFFICES ASSUME RegistersInit PROVE RegistersInv OBVIOUS
<1>1. consents \in Seq(ConsentRow) /\ consents = <<>> BY DEF RegistersInit
<1>2. RegisterTypes
  <2>0. Unstamped \in StampRow BY DEF Unstamped, StampRow
  <2>1. ticket \in [Kinds2 -> TicketRow]
    BY <2>0 DEF RegistersInit, Kinds2, TicketRow, AllStatuses
  <2>2. committed \in [Kinds2 -> [Stamping -> SUBSET Nat]] BY DEF RegistersInit, Kinds2
  <2>3. desk \in [Clerks -> Desk] BY DEF RegistersInit, Desk
  <2> QED BY <1>1, <2>1, <2>2, <2>3 DEF RegistersInit, RegisterTypes
<1>3. StampsDiffer BY <1>1 DEF StampsDiffer, RegistersInit, Away
<1>4. StampsAreKept BY DEF RegistersInit, StampsAreKept
<1>5. TimesAreOrdered
  <2>1. \A k \in Clerks : desk[k] \notin Reading /\ desk[k] \notin Writing
    BY DEF RegistersInit, Away, Reading, Writing
  <2>2. \A kind \in Kinds2 : ticket[kind].stamps = Unstamped BY DEF RegistersInit, Kinds2
  <2>3. \A kind \in Kinds2 : \A s \in Stamping : ticket[kind].stamps[s] = 0
    BY <2>2 DEF Unstamped
  <2> QED BY <2>1, <2>3 DEF TimesAreOrdered, RegistersInit
<1> QED BY <1>2, <1>3, <1>4, <1>5 DEF RegistersInv

\* Times stay in order as the clock goes on, for all who neither read nor write anew.
LEMMA TimesGoOn ==
    ASSUME RegisterTypes, TimesAreOrdered, RegisterTypes', ticket' = ticket, clock <= clock',
           \A k \in Clerks : desk'[k] \in Reading \cup Writing => desk'[k] = desk[k]
    PROVE  TimesAreOrdered'
<1>1. clock \in Nat /\ clock' \in Nat BY DEF RegisterTypes
<1>2. \A kind \in Kinds2 : \A s \in Stamping : ticket[kind].stamps[s] \in Nat
  BY DEF RegisterTypes, TicketRow, StampRow
<1>3. \A k \in Clerks : desk[k] \in Reading \cup Writing =>
        \A s \in Stamping : desk[k].seen.stamps[s] \in Nat
  BY DEF RegisterTypes, Reading, Writing, TicketRow, StampRow
<1>4. \A k \in Clerks : desk[k] \in Writing => desk[k].now \in Nat BY DEF Writing
<1>5. \A kind \in Kinds2 : \A s \in Stamping : ticket'[kind].stamps[s] <= clock'
  BY <1>1, <1>2 DEF TimesAreOrdered
<1>6. \A k \in Clerks : desk'[k] \in Reading => \A s \in Stamping : desk'[k].seen.stamps[s] <= clock'
  BY <1>1, <1>3 DEF TimesAreOrdered
<1>7. \A k \in Clerks : desk'[k] \in Writing =>
        desk'[k].now <= clock' /\ \A s \in Stamping : desk'[k].seen.stamps[s] < desk'[k].now
  BY <1>1, <1>3, <1>4 DEF TimesAreOrdered
<1> QED BY <1>5, <1>6, <1>7 DEF TimesAreOrdered

\* A flushed row has a stamp of its own.
LEMMA FlushKeeps ==
    ASSUME RegistersInv, NEW k \in Clerks, NEW t \in ConsentTypes, NEW g \in BOOLEAN,
           FlushConsent(k, t, g)
    PROVE  RegistersInv'
<1>1. PICK n \in Nat : n = clock + 1 /\ clock' = n /\ clock < n
  BY DEF FlushConsent, RegistersInv, RegisterTypes
<1> DEFINE row == [type |-> t, granted |-> g, at |-> n]
           d == [at |-> "consent", row |-> row]
<1>2. row \in ConsentRow /\ row.at = n BY <1>1 DEF ConsentRow
<1> HIDE DEF row
<1>3. d \in Desk /\ d \notin Reading /\ d \notin Writing /\ d.at = "consent" /\ d.row = row
  BY <1>2 DEF Desk, Reading, Writing
<1> USE DEF row
<1>4. desk' = [desk EXCEPT ![k] = d] BY <1>1 DEF FlushConsent
<1> HIDE DEF row, d
<1>5. desk' \in [Clerks -> Desk] BY <1>3, <1>4 DEF RegistersInv, RegisterTypes
<1>6. RegisterTypes' BY <1>1, <1>5 DEF FlushConsent, RegistersInv, RegisterTypes
<1>7. desk'[k] = d /\ \A m \in Clerks \ {k} : desk'[m] = desk[m]
  BY <1>4 DEF RegistersInv, RegisterTypes
<1>8. \A m \in Clerks : desk[m].at = "consent" => desk[m].row.at \in Nat /\ desk[m].row.at <= clock
  BY DEF RegistersInv, RegisterTypes, StampsDiffer, Desk, ConsentRow, Away, Reading, Writing
<1>9. \A i \in DOMAIN consents : consents[i].at \in Nat /\ consents[i].at <= clock
  BY StoredIs
<1>10. StampsDiffer'
  <2>1. consents' = consents BY DEF FlushConsent
  <2>0. clock \in Nat /\ n = clock + 1 BY <1>1 DEF RegistersInv, RegisterTypes
  <2>2. \A i \in DOMAIN consents : consents[i].at <= n /\ consents[i].at # n BY <2>0, <1>9
  <2>3. \A m \in Clerks : desk[m].at = "consent" => desk[m].row.at <= n /\ desk[m].row.at # n
    BY <2>0, <1>8
  <2>4. ASSUME NEW m \in Clerks, desk'[m].at = "consent"
        PROVE  /\ desk'[m].row.at <= n
               /\ \A i \in DOMAIN consents : consents[i].at # desk'[m].row.at
               /\ \A l \in Clerks : desk'[l].at = "consent" /\ desk'[l].row.at = desk'[m].row.at => l = m
    <3>1. CASE m = k BY <1>2, <1>3, <1>7, <2>2, <2>3, <3>1
    <3>2. CASE m # k BY <1>2, <1>3, <1>7, <2>3, <2>4, <3>2 DEF RegistersInv, StampsDiffer
    <3> QED BY <3>1, <3>2
  <2> QED BY <1>1, <2>1, <2>2, <2>4 DEF RegistersInv, StampsDiffer
<1>11. StampsAreKept' BY DEF FlushConsent, RegistersInv, StampsAreKept
<1>12. TimesAreOrdered'
  <2>1. clock <= clock' BY <1>1 DEF RegistersInv, RegisterTypes
  <2>2. ticket' = ticket BY DEF FlushConsent
  <2>3. \A m \in Clerks : desk'[m] \in Reading \cup Writing => desk'[m] = desk[m] BY <1>3, <1>7
  <2> QED BY <1>6, <2>1, <2>2, <2>3, TimesGoOn DEF RegistersInv
<1> QED BY <1>6, <1>10, <1>11, <1>12 DEF RegistersInv

\* A commit stores the row with the stamp it was flushed with.
LEMMA ConsentKeeps ==
    ASSUME RegistersInv, NEW k \in Clerks, CommitConsent(k) PROVE RegistersInv'
<1>1. PICK row \in ConsentRow : row = desk[k].row /\ desk[k].at = "consent"
  BY DEF CommitConsent, RegistersInv, RegisterTypes, Desk, Away, Reading, Writing
<1>2. /\ consents' = Append(consents, row) /\ consents \in Seq(ConsentRow)
      /\ desk' = [desk EXCEPT ![k] = Away] /\ UNCHANGED <<clock, ticket, committed, contested>>
  BY <1>1 DEF CommitConsent, RegistersInv, RegisterTypes
<1>3. PICK n \in Nat : n = Len(consents) /\ DOMAIN consents = 1..n BY <1>2
<1>4. /\ consents' \in Seq(ConsentRow) /\ DOMAIN consents' = 1..(n + 1)
      /\ consents'[n + 1] = row /\ \A i \in 1..n : consents'[i] = consents[i]
  BY <1>2, <1>3, AppendProperties
<1>5. desk' \in [Clerks -> Desk] /\ desk'[k] = Away /\ \A m \in Clerks \ {k} : desk'[m] = desk[m]
  BY <1>2 DEF RegistersInv, RegisterTypes, Desk
<1>6. RegisterTypes' BY <1>2, <1>4, <1>5 DEF RegistersInv, RegisterTypes
<1>7. StampsDiffer'
  <2>1. row.at <= clock /\ \A i \in 1..n : consents[i].at # row.at /\ consents[i].at <= clock
    BY <1>1, <1>3 DEF RegistersInv, StampsDiffer
  <2>2. \A i \in 1..(n + 1) : i # n + 1 => i \in 1..n BY <1>3
  <2>3. \A i \in 1..(n + 1) : consents'[i].at <= clock BY <1>4, <2>1, <2>2
  <2>4. \A i, j \in 1..(n + 1) : consents'[i].at = consents'[j].at => i = j
    BY <1>3, <1>4, <2>1, <2>2 DEF RegistersInv, StampsDiffer
  <2>5. ASSUME NEW m \in Clerks, desk'[m].at = "consent"
        PROVE  /\ desk'[m].row.at <= clock
               /\ \A i \in 1..(n + 1) : consents'[i].at # desk'[m].row.at
               /\ \A l \in Clerks : desk'[l].at = "consent" /\ desk'[l].row.at = desk'[m].row.at => l = m
    <3>1. m # k /\ desk[m].at = "consent" /\ desk'[m] = desk[m] BY <1>5, <2>5 DEF Away
    <3>2. desk[m].row.at # row.at BY <1>1, <3>1 DEF RegistersInv, StampsDiffer
    <3>3. \A i \in 1..n : consents[i].at # desk[m].row.at BY <1>3, <3>1 DEF RegistersInv, StampsDiffer
    <3>4. \A l \in Clerks : desk'[l].at = "consent" => desk'[l] = desk[l] BY <1>5 DEF Away
    <3> QED BY <1>4, <2>2, <3>1, <3>2, <3>3, <3>4 DEF RegistersInv, StampsDiffer
  <2> QED BY <1>2, <1>4, <2>3, <2>4, <2>5 DEF StampsDiffer
<1>8. StampsAreKept' BY <1>2 DEF RegistersInv, StampsAreKept
<1>9. TimesAreOrdered'
  <2>1. Away \notin Reading /\ Away \notin Writing BY DEF Away, Reading, Writing
  <2>2. clock <= clock' BY <1>2 DEF RegistersInv, RegisterTypes
  <2> QED BY <1>2, <1>5, <1>6, <2>1, <2>2, TimesGoOn DEF RegistersInv
<1> QED BY <1>6, <1>7, <1>8, <1>9 DEF RegistersInv

\* A request that goes away, or reads or stamps a ticket, holds no consent.
LEMMA DeskKeeps ==
    ASSUME RegistersInv, NEW k \in Clerks, NEW d \in Desk, d.at # "consent",
           desk' = [desk EXCEPT ![k] = d], clock' \in Nat, clock <= clock',
           UNCHANGED <<consents, ticket, committed, contested>>,
           d \in Reading => \A s \in Stamping : d.seen.stamps[s] <= clock',
           d \in Writing => d.now <= clock' /\ \A s \in Stamping : d.seen.stamps[s] < d.now
    PROVE  RegistersInv'
<1>1. desk' \in [Clerks -> Desk] /\ desk'[k] = d /\ \A m \in Clerks \ {k} : desk'[m] = desk[m]
  BY DEF RegistersInv, RegisterTypes
<1>2. \A m \in Clerks : desk'[m].at = "consent" => desk'[m] = desk[m] BY <1>1
<1>3. RegisterTypes' BY <1>1 DEF RegistersInv, RegisterTypes
<1>4. StampsDiffer'
  <2>1. clock \in Nat BY DEF RegistersInv, RegisterTypes
  <2>2. \A i \in DOMAIN consents : consents[i].at \in Nat /\ consents[i].at <= clock BY StoredIs
  <2>3. \A m \in Clerks : desk[m].at = "consent" => desk[m].row.at \in Nat /\ desk[m].row.at <= clock
    BY DEF RegistersInv, RegisterTypes, StampsDiffer, Desk, ConsentRow, Away, Reading, Writing
  <2>4. \A i \in DOMAIN consents : consents[i].at <= clock' BY <2>1, <2>2
  <2>5. \A m \in Clerks : desk[m].at = "consent" => desk[m].row.at <= clock' BY <2>1, <2>3
  <2> QED BY <1>2, <2>4, <2>5 DEF RegistersInv, StampsDiffer
<1>5. TimesAreOrdered'
  <2> DEFINE D == [desk EXCEPT ![k] = Away]
  <2>1. clock \in Nat BY DEF RegistersInv, RegisterTypes
  <2>2. \A kind \in Kinds2 : \A s \in Stamping :
          ticket[kind].stamps[s] \in Nat /\ ticket[kind].stamps[s] <= clock
    BY DEF RegistersInv, RegisterTypes, TicketRow, StampRow, TimesAreOrdered
  <2>3. \A kind \in Kinds2 : \A s \in Stamping : ticket'[kind].stamps[s] <= clock' BY <2>1, <2>2
  <2>4. ASSUME NEW m \in Clerks, desk'[m] \in Reading
        PROVE  \A s \in Stamping : desk'[m].seen.stamps[s] <= clock'
    <3>1. CASE m = k BY <1>1, <2>4, <3>1
    <3>2. CASE m # k
      <4>1. desk'[m] = desk[m] /\ desk[m] \in Reading BY <1>1, <2>4, <3>2
      <4>2. \A s \in Stamping : desk[m].seen.stamps[s] \in Nat BY <4>1 DEF Reading, TicketRow, StampRow
      <4>3. \A s \in Stamping : desk[m].seen.stamps[s] <= clock BY <4>1 DEF RegistersInv, TimesAreOrdered
      <4> QED BY <2>1, <4>1, <4>2, <4>3
    <3> QED BY <3>1, <3>2
  <2>5. ASSUME NEW m \in Clerks, desk'[m] \in Writing
        PROVE  desk'[m].now <= clock' /\ \A s \in Stamping : desk'[m].seen.stamps[s] < desk'[m].now
    <3>1. CASE m = k BY <1>1, <2>5, <3>1
    <3>2. CASE m # k
      <4>1. desk'[m] = desk[m] /\ desk[m] \in Writing BY <1>1, <2>5, <3>2
      <4>2. desk[m].now \in Nat BY <4>1 DEF Writing
      <4>3. desk[m].now <= clock /\ \A s \in Stamping : desk[m].seen.stamps[s] < desk[m].now
        BY <4>1 DEF RegistersInv, TimesAreOrdered
      <4> QED BY <2>1, <4>1, <4>2, <4>3
    <3> QED BY <3>1, <3>2
  <2> QED BY <2>3, <2>4, <2>5 DEF TimesAreOrdered
<1> QED BY <1>3, <1>4, <1>5 DEF RegistersInv, StampsAreKept

\* A commit of a ticket sets its own stamp, to a later time than the one it has read.
LEMMA TicketKeeps ==
    ASSUME RegistersInv, NEW k \in Clerks, CommitTicket(k) PROVE RegistersInv'
<1>0. desk[k] \in Writing
  BY DEF CommitTicket, RegistersInv, RegisterTypes, Desk, Away, Reading, Writing
<1>1. PICK kind \in Kinds2, status \in AllStatuses, seen \in TicketRow, now \in Nat :
        kind = desk[k].kind /\ status = desk[k].status /\ seen = desk[k].seen /\ now = desk[k].now
  BY <1>0 DEF Writing
<1>2. /\ now <= clock /\ clock \in Nat /\ seen.stamps \in StampRow
      /\ \A s \in Stamping : seen.stamps[s] < now
  BY <1>0, <1>1 DEF RegistersInv, RegisterTypes, TimesAreOrdered, TicketRow
<1>3. PICK old \in StampRow : old = ticket[kind].stamps BY DEF RegistersInv, RegisterTypes, TicketRow
<1>4. PICK new \in StampRow : new = [old EXCEPT ![status] = now] BY DEF StampRow
<1>5. PICK row \in TicketRow : row = ChangedColumns(seen, ticket[kind], status, now) /\ row.stamps = new
  <2>1. ticket[kind] \in TicketRow BY DEF RegistersInv, RegisterTypes
  <2>2. ChangedColumns(seen, ticket[kind], status, now) \in TicketRow
    BY <1>3, <1>4, <2>1 DEF ChangedColumns, TicketRow
  <2> QED BY <1>3, <1>4, <2>2 DEF ChangedColumns
<1>6. PICK was \in [Stamping -> SUBSET Nat] : was = committed[kind] BY DEF RegistersInv, RegisterTypes
<1>7. PICK given \in [Stamping -> SUBSET Nat] :
        given = [s \in Stamping |-> IF s = status THEN was[s] \cup {now} ELSE was[s]]
  OBVIOUS
<1>8. /\ ticket' = [ticket EXCEPT ![kind] = row]
      /\ committed' = [committed EXCEPT ![kind] = given]
      /\ desk' = [desk EXCEPT ![k] = Away] /\ UNCHANGED <<consents, clock>>
  BY <1>1, <1>5, <1>6, <1>7 DEF CommitTicket
<1>9. contested' = contested \cup {s \in Stamping \cap {status} : seen.stamps[s] # old[s]}
  BY <1>1, <1>3 DEF CommitTicket
<1>10. /\ ticket' \in [Kinds2 -> TicketRow] /\ committed' \in [Kinds2 -> [Stamping -> SUBSET Nat]]
       /\ ticket'[kind] = row /\ committed'[kind] = given
       /\ \A l \in Kinds2 \ {kind} : ticket'[l] = ticket[l] /\ committed'[l] = committed[l]
  BY <1>8 DEF RegistersInv, RegisterTypes
<1>11. \A s \in Stamping : new[s] = (IF s = status THEN now ELSE old[s]) BY <1>4 DEF StampRow
<1>12. StampsAreKept'
  <2>1. \A l \in Kinds2 : \A s \in Stamping : committed[l][s] # {} =>
          /\ ticket[l].stamps[s] \in committed[l][s]
          /\ s \notin contested => \A t \in committed[l][s] : t <= ticket[l].stamps[s]
    BY DEF RegistersInv, RegisterTypes, StampsAreKept
  <2>2. ASSUME NEW l \in Kinds2, NEW s \in Stamping, committed'[l][s] # {}
        PROVE  /\ ticket'[l].stamps[s] \in committed'[l][s]
               /\ s \notin contested' => \A t \in committed'[l][s] : t <= ticket'[l].stamps[s]
    <3>1. CASE l # kind BY <1>9, <1>10, <2>1, <2>2, <3>1
    <3>2. CASE l = kind /\ s # status
      <4>1. ticket'[l].stamps[s] = old[s] /\ committed'[l][s] = was[s]
        BY <1>5, <1>7, <1>10, <1>11, <3>2
      <4> QED BY <1>3, <1>6, <1>9, <2>1, <2>2, <3>2, <4>1
    <3>3. CASE l = kind /\ s = status
      <4>1. ticket'[l].stamps[s] = now /\ committed'[l][s] = was[s] \cup {now}
        BY <1>5, <1>7, <1>10, <1>11, <3>3
      <4>2. ASSUME s \notin contested', NEW t \in was[s] PROVE t <= now
        <5>1. s \notin contested /\ seen.stamps[s] = old[s] BY <1>9, <3>3, <4>2
        <5>2. t <= old[s] BY <1>3, <1>6, <2>1, <3>3, <4>2, <5>1
        <5>3. old[s] < now BY <1>2, <5>1
        <5>4. t \in Nat /\ old[s] \in Nat BY DEF StampRow
        <5> QED BY <5>2, <5>3, <5>4
      <4> QED BY <4>1, <4>2
    <3> QED BY <3>1, <3>2, <3>3
  <2>3. DOMAIN ticket' = Kinds2 BY <1>10
  <2> QED BY <2>2, <2>3 DEF StampsAreKept
<1>13. /\ desk' \in [Clerks -> Desk] /\ desk'[k] = Away /\ \A m \in Clerks \ {k} : desk'[m] = desk[m]
  BY <1>8 DEF RegistersInv, RegisterTypes, Desk
<1>14. \A m \in Clerks : desk'[m].at = "consent" => desk'[m] = desk[m] BY <1>13 DEF Away
<1>15. StampsDiffer' BY <1>8, <1>14 DEF RegistersInv, StampsDiffer
<1>16. RegisterTypes' BY <1>8, <1>10, <1>13 DEF RegistersInv, RegisterTypes
<1>17. TimesAreOrdered'
  <2>1. \A l \in Kinds2 : \A s \in Stamping : ticket[l].stamps[s] <= clock
    BY DEF RegistersInv, TimesAreOrdered
  <2>2. \A s \in Stamping : new[s] <= clock BY <1>2, <1>3, <1>11, <2>1
  <2>3. \A l \in Kinds2 : \A s \in Stamping : ticket'[l].stamps[s] <= clock BY <1>5, <1>10, <2>1, <2>2
  <2>4. Away \notin Reading /\ Away \notin Writing BY DEF Away, Reading, Writing
  <2>5. \A m \in Clerks : desk'[m] \in Reading \cup Writing => desk'[m] = desk[m] BY <1>13, <2>4
  <2> QED BY <1>8, <2>3, <2>5 DEF RegistersInv, TimesAreOrdered
<1> QED BY <1>12, <1>15, <1>16, <1>17 DEF RegistersInv

\* Who goes away leaves the rest as it is.
LEMMA GoneKeeps == ASSUME RegistersInv, NEW k \in Clerks, ClerkGone(k) PROVE RegistersInv'
<1>1. Away \in Desk /\ Away.at # "consent" /\ Away \notin Reading /\ Away \notin Writing
  BY DEF Away, Desk, Reading, Writing
<1>2. clock' \in Nat /\ clock <= clock' BY DEF ClerkGone, RegistersInv, RegisterTypes
<1> QED BY <1>1, <1>2, DeskKeeps DEF ClerkGone

\* What is read has been stamped.
LEMMA ReadKeeps ==
    ASSUME RegistersInv, NEW k \in Clerks, NEW kind \in DOMAIN ticket, NEW st \in TicketStatuses[kind],
           ReadTicket(k, kind, st)
    PROVE  RegistersInv'
<1>1. kind \in Kinds2 /\ st \in AllStatuses
  BY DEF RegistersInv, RegisterTypes, TicketStatuses, Kinds2, AllStatuses
<1>2. PICK row \in TicketRow : row = ticket[kind] BY <1>1 DEF RegistersInv, RegisterTypes
<1>3. PICK d \in Reading : d = [at |-> "read", kind |-> kind, status |-> st, seen |-> row]
  BY <1>1 DEF Reading
<1>4. /\ desk' = [desk EXCEPT ![k] = d] /\ UNCHANGED <<consents, clock, ticket, committed, contested>>
  BY <1>2, <1>3 DEF ReadTicket
<1>5. d \in Desk /\ d.at # "consent" /\ d \notin Writing /\ d.seen = row BY <1>3 DEF Desk, Reading, Writing
<1>6. clock' \in Nat /\ clock <= clock' BY <1>4 DEF RegistersInv, RegisterTypes
<1>7. \A s \in Stamping : d.seen.stamps[s] <= clock'
  BY <1>1, <1>2, <1>4, <1>5 DEF RegistersInv, TimesAreOrdered
<1> QED BY <1>4, <1>5, <1>6, <1>7, DeskKeeps

\* The time of a request comes after all it has read.
LEMMA StampKeeps == ASSUME RegistersInv, NEW k \in Clerks, StampTicket(k) PROVE RegistersInv'
<1>0. desk[k] \in Reading
  BY DEF StampTicket, RegistersInv, RegisterTypes, Desk, Away, Reading, Writing
<1>1. PICK kind \in Kinds2, status \in AllStatuses, seen \in TicketRow :
        kind = desk[k].kind /\ status = desk[k].status /\ seen = desk[k].seen
  BY <1>0 DEF Reading
<1>2. PICK n \in Nat : n = clock + 1 /\ clock' = n /\ clock <= n
  BY DEF StampTicket, RegistersInv, RegisterTypes
<1>3. PICK d \in Writing :
        d = [at |-> "patch", kind |-> kind, status |-> status, seen |-> seen, now |-> n]
  BY DEF Writing
<1>4. desk' = [desk EXCEPT ![k] = d] /\ UNCHANGED <<consents, ticket, committed, contested>>
  BY <1>1, <1>2, <1>3 DEF StampTicket
<1>5. d \in Desk /\ d.at # "consent" /\ d \notin Reading /\ d.now = n /\ d.seen = seen
  BY <1>3 DEF Desk, Reading, Writing
<1>6. \A s \in Stamping : seen.stamps[s] \in Nat /\ seen.stamps[s] <= clock
  BY <1>0, <1>1 DEF RegistersInv, TimesAreOrdered, TicketRow, StampRow
<1>7. clock \in Nat BY DEF RegistersInv, RegisterTypes
<1>8. n <= clock' /\ \A s \in Stamping : seen.stamps[s] < n BY <1>2, <1>6, <1>7
<1> QED BY <1>2, <1>4, <1>5, <1>8, DeskKeeps

\* Every step keeps the stamps.
LEMMA RegistersStep == RegistersInv /\ [RegistersNext]_registerVars => RegistersInv'
<1> SUFFICES ASSUME RegistersInv, [RegistersNext]_registerVars PROVE RegistersInv' OBVIOUS
<1>1. CASE ConsentsNext BY <1>1, FlushKeeps, ConsentKeeps, GoneKeeps DEF ConsentsNext
<1>2. CASE TicketsNext
  BY <1>2, ReadKeeps, StampKeeps, TicketKeeps, GoneKeeps DEF TicketsNext
<1>3. CASE ConflictsNext \/ VersionsNext \/ UNCHANGED registerVars
  <2>1. UNCHANGED <<consents, clock, desk, ticket, committed, contested>>
    BY <1>3 DEF ConflictsNext, VersionsNext, registerVars, DiscloseConflict, CheckIndependence,
                ReviewConflict, CreateVersion
  <2> QED BY <2>1 DEF RegistersInv, RegisterTypes, TimesAreOrdered, StampsDiffer, StampsAreKept
<1> QED BY <1>1, <1>2, <1>3 DEF RegistersNext

\* api/compliance.py: for any overlapping requests and any order of their commits a consent
\* that stands was given after every revocation, and each stamp of a ticket is a time that a
\* request to its own status took, the last of them unless such requests overlap.
THEOREM RegistersAreKept == RegistersSpec => []RegistersHold
<1>1. RegistersInv => RegistersHold
  <2> SUFFICES ASSUME RegistersInv PROVE RevocationSticks BY DEF RegistersInv, RegistersHold
  <2> SUFFICES ASSUME NEW t \in ConsentTypes, HasConsent(t)
               PROVE  \E g \in Of(t) : /\ consents[g].granted
                                       /\ \A r \in Of(t) : ~consents[r].granted => consents[r].at < consents[g].at
    BY DEF RevocationSticks
  <2>1. \A i \in Of(t) : consents[i].at \in Nat /\ consents[i].at <= clock /\ i \in DOMAIN consents
    BY StoredIs DEF Of
  <2>2. clock \in Nat BY DEF RegistersInv, RegisterTypes
  <2> DEFINE S == {consents[i].at : i \in Of(t)}
  <2>3. S \in SUBSET Nat /\ S # {} /\ \A s \in S : s <= clock BY <2>1 DEF HasConsent
  <2>4. PICK i \in Of(t) : \A j \in Of(t) : consents[i].at >= consents[j].at
    <3>1. PICK m \in S : \A s \in S : s <= m
      <4> HIDE DEF S
      <4> QED BY <2>2, <2>3, LargestOf
    <3>2. PICK i \in Of(t) : consents[i].at = m OBVIOUS
    <3>3. \A j \in Of(t) : consents[j].at <= m BY <3>1
    <3> QED BY <2>1, <3>2, <3>3
  <2> DEFINE g == LatestConsent(t)
  <2>5. g \in Of(t) /\ \A j \in Of(t) : consents[g].at >= consents[j].at BY <2>4 DEF LatestConsent
  <2>6. consents[g].granted BY DEF HasConsent
  <2>7. ASSUME NEW r \in Of(t), ~consents[r].granted PROVE consents[r].at < consents[g].at
    <3>1. r # g BY <2>6, <2>7
    <3>2. consents[r].at # consents[g].at BY <2>1, <2>5, <3>1 DEF RegistersInv, StampsDiffer
    <3> QED BY <2>1, <2>5, <3>2
  <2> QED BY <2>5, <2>6, <2>7
<1> QED BY RegistersStart, RegistersStep, <1>1, PTL DEF RegistersSpec

-----------------------------------------------------------------------------
(* Matching.  What a run has loaded is what it suggests from; what has been eligible all *)
(* the while was a candidate when it loaded, and is saved or still to be saved.          *)

MatchRun == [at : {"idle", "running", "done", "dead"}, loaded : [Pairs -> Fits],
             todo : SUBSET Pairs, steady : SUBSET Pairs]

MatchingInv ==
    /\ active \subseteq Listings /\ willing \subseteq Buyers /\ fits \in [Pairs -> Fits]
    /\ matching \in [Runs -> MatchRun]
    /\ \A s \in suggestions : s.met \in SUBSET Criteria /\ Viable(s.met)
    /\ \A r \in Runs :
          /\ \A p \in matching[r].todo : Viable(matching[r].loaded[p])
          /\ matching[r].at = "running" =>
                \A p \in matching[r].steady \ matching[r].todo : \E s \in suggestions : s.pair = p
    /\ RunsLeaveNoneOut

\* No run has begun.
LEMMA MatchingStart == MatchingInit => MatchingInv
<1> SUFFICES ASSUME MatchingInit PROVE MatchingInv OBVIOUS
<1>1. \A r \in Runs : matching[r] = [at |-> "idle", loaded |-> fits, todo |-> {}, steady |-> {}]
  BY DEF MatchingInit
<1>2. matching \in [Runs -> MatchRun] BY DEF MatchingInit, MatchRun
<1> QED BY <1>1, <1>2 DEF MatchingInit, MatchingInv, RunsLeaveNoneOut

\* A change only takes pairs out of what has been eligible all the while.
LEMMA FitsKeep ==
    ASSUME MatchingInv, NEW eligible, matching' = Steady(eligible),
           active' \subseteq Listings, willing' \subseteq Buyers, fits' \in [Pairs -> Fits],
           UNCHANGED suggestions
    PROVE  MatchingInv'
<1>1. ASSUME NEW r \in Runs
      PROVE  /\ matching'[r] \in MatchRun /\ matching'[r].at = matching[r].at
             /\ matching'[r].loaded = matching[r].loaded /\ matching'[r].todo = matching[r].todo
             /\ matching'[r].steady \subseteq matching[r].steady
  <2>1. PICK m \in MatchRun : m = matching[r] BY DEF MatchingInv
  <2>2. matching'[r] = [m EXCEPT !.steady = @ \cap eligible] BY <2>1 DEF Steady
  <2> QED BY <2>1, <2>2 DEF MatchRun
<1>2. matching' \in [Runs -> MatchRun] BY <1>1 DEF Steady
<1> QED BY <1>1, <1>2 DEF MatchingInv, RunsLeaveNoneOut

\* What one run does to itself.
LEMMA RunKeeps ==
    ASSUME MatchingInv, NEW r \in Runs, NEW m \in MatchRun, matching' = [matching EXCEPT ![r] = m],
           UNCHANGED <<active, willing, fits>>, suggestions \subseteq suggestions',
           \A s \in suggestions' \ suggestions : s.met \in SUBSET Criteria /\ Viable(s.met),
           \A p \in m.todo : Viable(m.loaded[p]),
           m.at = "running" => \A p \in m.steady \ m.todo : \E s \in suggestions' : s.pair = p,
           m.at = "done" => \A p \in m.steady : \E s \in suggestions' : s.pair = p
    PROVE  MatchingInv'
<1>1. matching' \in [Runs -> MatchRun] /\ matching'[r] = m /\ \A q \in Runs \ {r} : matching'[q] = matching[q]
  BY DEF MatchingInv
<1>2. ASSUME NEW q \in Runs
      PROVE  /\ \A p \in matching'[q].todo : Viable(matching'[q].loaded[p])
             /\ matching'[q].at = "running" =>
                   \A p \in matching'[q].steady \ matching'[q].todo : \E s \in suggestions' : s.pair = p
             /\ matching'[q].at = "done" => \A p \in matching'[q].steady : \E s \in suggestions' : s.pair = p
  <2>1. CASE q = r BY <1>1, <2>1
  <2>2. CASE q # r BY <1>1, <2>2 DEF MatchingInv, RunsLeaveNoneOut
  <2> QED BY <2>1, <2>2
<1>3. \A s \in suggestions' : s.met \in SUBSET Criteria /\ Viable(s.met) BY DEF MatchingInv
<1> QED BY <1>1, <1>2, <1>3 DEF MatchingInv, RunsLeaveNoneOut

\* Every step keeps what runs know.
LEMMA MatchingStep == MatchingInv /\ [MatchingNext]_matchingVars => MatchingInv'
<1> SUFFICES ASSUME MatchingInv, [MatchingNext]_matchingVars PROVE MatchingInv' OBVIOUS
<1>1. ASSUME NEW b \in Buyers, NEW t \in BOOLEAN, NEW met \in Fits, ChangeProfile(b, t, met)
      PROVE  MatchingInv'
  <2>1. fits' \in [Pairs -> Fits] /\ willing' \subseteq Buyers BY <1>1 DEF ChangeProfile, MatchingInv
  <2> QED BY <1>1, <2>1, FitsKeep DEF ChangeProfile, MatchingInv
<1>2. ASSUME NEW l \in Listings, ChangeListing(l) PROVE MatchingInv'
  <2>1. active' \subseteq Listings BY <1>2 DEF ChangeListing, MatchingInv
  <2> QED BY <1>2, <2>1, FitsKeep DEF ChangeListing, MatchingInv
<1>3. ASSUME NEW r \in Runs, StartRun(r) PROVE MatchingInv'
  <2> DEFINE e == Candidates(fits, willing)
             m == [at |-> "running", loaded |-> fits, todo |-> e, steady |-> e]
  <2>1. e \in SUBSET Pairs /\ \A p \in e : Viable(fits[p]) BY DEF Candidates, MatchingInv, Pairs
  <2>2. m \in MatchRun /\ m.at = "running" /\ m.loaded = fits /\ m.todo = e /\ m.steady = e
    BY <2>1 DEF MatchRun, MatchingInv
  <2>3. matching' = [matching EXCEPT ![r] = m] BY <1>3 DEF StartRun, Candidates
  <2>4. UNCHANGED <<active, willing, fits, suggestions>> BY <1>3 DEF StartRun
  <2> HIDE DEF e, m
  <2> QED BY <2>1, <2>2, <2>3, <2>4, RunKeeps
<1>4. ASSUME NEW r \in Runs, NEW p \in Pairs, SaveMatch(r, p) PROVE MatchingInv'
  <2>1. PICK g \in MatchRun : g = matching[r] BY DEF MatchingInv
  <2> DEFINE m == [g EXCEPT !.todo = @ \ {p}]
             n == [pair |-> p, met |-> g.loaded[p]]
  <2>2. /\ m \in MatchRun /\ m.at = "running" /\ m.loaded = g.loaded /\ m.todo = g.todo \ {p}
        /\ m.steady = g.steady /\ g.at = "running" /\ p \in g.todo
    BY <1>4, <2>1 DEF MatchRun, SaveMatch
  <2>3. /\ matching' = [matching EXCEPT ![r] = m] /\ suggestions' = suggestions \cup {n}
        /\ UNCHANGED <<active, willing, fits>>
    BY <1>4, <2>1 DEF SaveMatch
  <2>4. n.pair = p /\ n.met \in SUBSET Criteria /\ Viable(n.met)
    BY <2>1, <2>2, MatchingAssumption DEF MatchRun, MatchingInv
  <2>5. \A q \in g.steady \ g.todo : \E s \in suggestions : s.pair = q BY <2>1, <2>2 DEF MatchingInv
  <2>6. \A q \in g.todo : Viable(g.loaded[q]) BY <2>1 DEF MatchingInv
  <2> HIDE DEF m, n
  <2>7. \A q \in m.steady \ m.todo : \E s \in suggestions' : s.pair = q BY <2>2, <2>3, <2>4, <2>5
  <2> QED BY <2>2, <2>3, <2>4, <2>6, <2>7, RunKeeps
<1>5. ASSUME NEW r \in Runs, FinishRun(r) \/ RunDies(r) PROVE MatchingInv'
  <2>1. PICK g \in MatchRun : g = matching[r] BY DEF MatchingInv
  <2>2. PICK place \in {"done", "dead"} :
          /\ matching' = [matching EXCEPT ![r] = [g EXCEPT !.at = place]]
          /\ place = "done" => g.todo = {}
    BY <1>5, <2>1 DEF FinishRun, RunDies
  <2> DEFINE m == [g EXCEPT !.at = place]
  <2>3. m \in MatchRun /\ m.at = place /\ m.loaded = g.loaded /\ m.todo = g.todo /\ m.steady = g.steady
    BY DEF MatchRun
  <2>4. /\ g.at = "running" /\ UNCHANGED <<active, willing, fits, suggestions>>
    BY <1>5, <2>1 DEF FinishRun, RunDies
  <2>5. /\ \A q \in g.steady \ g.todo : \E s \in suggestions : s.pair = q
        /\ \A q \in g.todo : Viable(g.loaded[q])
    BY <2>1, <2>4 DEF MatchingInv
  <2>6. matching' = [matching EXCEPT ![r] = m] BY <2>2
  <2> HIDE DEF m
  <2>7. m.at # "running" /\ \A q \in m.todo : Viable(m.loaded[q]) BY <2>3, <2>5
  <2>8. m.at = "done" => \A q \in m.steady : \E s \in suggestions' : s.pair = q BY <2>2, <2>3, <2>4, <2>5
  <2> QED BY <2>3, <2>4, <2>6, <2>7, <2>8, RunKeeps
<1>6. CASE UNCHANGED matchingVars BY <1>6 DEF matchingVars, MatchingInv, RunsLeaveNoneOut
<1> QED BY <1>1, <1>2, <1>3, <1>4, <1>5, <1>6 DEF MatchingNext

\* matching_engine.py: for any listings, profiles, overlapping runs and changes a suggestion
\* rests on the heavy criteria, and a run that ends has left out nothing that was eligible.
THEOREM SuggestionsAreSound == MatchingSpec => []SuggestionsHold
<1>1. MatchingInv => SuggestionsHold
  <2> SUFFICES ASSUME MatchingInv, NEW s \in suggestions
               PROVE  \/ {"methodology", "price"} \subseteq s.met
                      \/ {"timeline", "location"} \subseteq s.met /\ s.met \cap {"methodology", "price"} # {}
    BY DEF MatchingInv, SuggestionsHold, SuggestionsAgree
  <2>1. Score(s.met) >= 60 BY DEF MatchingInv, Viable
  <2>2. Score(s.met) = (IF "methodology" \in s.met THEN 30 ELSE 0) + (IF "price" \in s.met THEN 30 ELSE 0)
                       + (IF "timeline" \in s.met THEN 20 ELSE 0) + (IF "location" \in s.met THEN 20 ELSE 0)
    BY DEF Score, Weight
  <2> QED BY <2>1, <2>2
<1> QED BY MatchingStart, MatchingStep, <1>1, PTL DEF MatchingSpec

-----------------------------------------------------------------------------
(* Learning.  No auto-advance is recorded below the default, so that what is learned from  *)
(* reversed ones is not below it either; and only an item that someone judged has a human   *)
(* decision, so that the pairs of a report are no more than the judged items.              *)

AnyProject == Projects \cup {CHOOSE p \in Projects : TRUE}
DecisionRow == [action : RoutingActions \cup HumanActions, project : AnyProject, score : Nat, item : Nat]
ReviewRow == [project : AnyProject, status : {"pending", "closed", "deleted"},
              feedback : {"none", "reject", "escalate", "approve"}]
AdvanceType == [at : {"idle", "routed", "linked", "decided", "held"}, project : AnyProject, score : Nat,
                tier : RoutingActions \cup {"none"}, item : Nat]
ResolvingType == [item : Nat, verdict : HumanActions \cup {"none"}, stored : BOOLEAN]
ReportType == [paired : Nat, overridden : Nat, reasons : Nat, noted : Nat]

LearningTypes ==
    /\ decisions \in Seq(DecisionRow) /\ reviews \in Seq(ReviewRow)
    /\ advancing \in [Advancers -> AdvanceType]
    /\ resolving \in [Reviewers -> ResolvingType]
    /\ \A r \in Reviewers : /\ resolving[r].item # 0 => resolving[r].item \in DOMAIN reviews
                            /\ resolving[r].stored => /\ resolving[r].item \in judged
                                                      /\ resolving[r].verdict \in HumanActions
    /\ advances \subseteq Nat /\ judged \subseteq DOMAIN reviews

AutoIsEarned ==
    /\ \A i \in DOMAIN decisions : decisions[i].action = "auto_advance" => decisions[i].score >= 95
    /\ \A a \in Advancers : /\ advancing[a].at \in {"routed", "linked"} => advancing[a].tier # "none"
                            /\ advancing[a].at = "routed" /\ advancing[a].tier = "auto_advance" =>
                                  advancing[a].score >= 95
                            /\ advancing[a].at = "linked" => advancing[a].tier # "auto_advance"
    /\ \A s \in advances : s >= 95

HumansDecide == \A i \in DOMAIN decisions :
    decisions[i].action \in HumanActions => decisions[i].item \in judged \cup {0}

LearningInv == LearningTypes /\ AutoIsEarned /\ HumansDecide /\ weekly.report \in ReportType /\ ReviewsCountOnce

\* Rows of the two tables.
LEMMA RowsAre ==
    ASSUME LearningInv
    PROVE  /\ \A i \in DOMAIN decisions : decisions[i] \in DecisionRow /\ decisions[i].score \in Nat
           /\ \A i \in DOMAIN reviews : reviews[i] \in ReviewRow
           /\ DOMAIN decisions = 1..Len(decisions) /\ DOMAIN reviews = 1..Len(reviews)
           /\ Len(decisions) \in Nat /\ Len(reviews) \in Nat
<1>1. decisions \in Seq(DecisionRow) /\ reviews \in Seq(ReviewRow) BY DEF LearningInv, LearningTypes
<1>2. \A i \in DOMAIN decisions : decisions[i] \in DecisionRow BY <1>1, ElementOfSeq, LenProperties
<1>3. \A i \in DOMAIN reviews : reviews[i] \in ReviewRow BY <1>1, ElementOfSeq, LenProperties
<1> QED BY <1>1, <1>2, <1>3, LenProperties DEF DecisionRow

\* Every reading of the threshold is between the default and the maximum.
LEMMA ThresholdsAreHigh ==
    ASSUME LearningInv, NEW bar \in EffectiveThresholds PROVE bar \in Nat /\ bar >= 95 /\ bar <= 99
<1>1. CASE ReversedScores = {} BY <1>1 DEF EffectiveThresholds, SuggestedThreshold, DefaultThreshold
<1>2. CASE ReversedScores # {}
  <2>1. \A s \in ReversedScores : s \in Nat /\ s >= 95
    BY RowsAre DEF ReversedScores, ReversedAdvances, LearningInv, AutoIsEarned
  <2>2. PICK n \in ReversedScores : \A s \in ReversedScores : n <= s
    <3>1. ReversedScores \in SUBSET Nat BY <2>1
    <3> QED BY <1>2, <3>1, LeastOf
  <2>3. Lowest(ReversedScores) \in ReversedScores BY <2>2 DEF Lowest
  <2>4. Lowest(ReversedScores) \in Nat /\ Lowest(ReversedScores) >= 95 BY <2>1, <2>3
  <2>5. Clamped(Lowest(ReversedScores)) \in Nat /\ Clamped(Lowest(ReversedScores)) >= 95
        /\ Clamped(Lowest(ReversedScores)) <= 99
    BY <2>4 DEF Clamped, ThresholdMin, ThresholdMax
  <2>6. SuggestedThreshold = Clamped(Lowest(ReversedScores)) BY <1>2 DEF SuggestedThreshold
  <2> QED BY <2>5, <2>6 DEF EffectiveThresholds, DefaultThreshold
<1> QED BY <1>1, <1>2

\* As long as no judged item is forgotten the report stands.
LEMMA ReportStands ==
    ASSUME LearningInv, NEW n \in Nat, judged' \subseteq 1..n, judged \subseteq judged', UNCHANGED weekly
    PROVE  ReviewsCountOnce'
<1>1. PICK S \in SUBSET (1..n) : S = judged' OBVIOUS
<1>2. IsFiniteSet(1..n) BY FS_Interval
<1>3. IsFiniteSet(S) BY <1>2, FS_Subset
<1>4. Cardinality(judged) <= Cardinality(S) /\ IsFiniteSet(judged) BY <1>1, <1>3, FS_Subset
<1>5. Cardinality(judged) \in Nat /\ Cardinality(S) \in Nat BY <1>3, <1>4, FS_CardinalityType
<1>6. weekly.report.overridden <= weekly.report.paired /\ weekly.report.paired <= Cardinality(judged)
      /\ weekly.report.paired \in Nat
  BY DEF LearningInv, ReviewsCountOnce, ReportType
<1>7. weekly.report.paired <= Cardinality(S) BY <1>4, <1>5, <1>6
<1> QED BY <1>1, <1>6, <1>7 DEF ReviewsCountOnce

\* What an advance does to itself.
LEMMA AdvanceKeeps ==
    ASSUME LearningInv, NEW a \in Advancers, NEW v \in AdvanceType, advancing' = [advancing EXCEPT ![a] = v],
           v.at \in {"routed", "linked"} => v.tier # "none",
           v.at = "routed" /\ v.tier = "auto_advance" => v.score >= 95,
           v.at = "linked" => v.tier # "auto_advance",
           advances' \subseteq Nat, \A s \in advances' : s >= 95,
           UNCHANGED <<decisions, reviews, resolving, judged, weekly>>
    PROVE  LearningInv'
<1>1. advancing' \in [Advancers -> AdvanceType] /\ advancing'[a] = v
      /\ \A b \in Advancers \ {a} : advancing'[b] = advancing[b]
  BY DEF LearningInv, LearningTypes
<1>2. AutoIsEarned' BY <1>1 DEF LearningInv, AutoIsEarned
<1>3. LearningTypes' BY <1>1 DEF LearningInv, LearningTypes
<1> QED BY <1>2, <1>3 DEF LearningInv, HumansDecide, ReviewsCountOnce

\* A decision of an advance is stored.
LEMMA RecordKeeps ==
    ASSUME LearningInv, NEW a \in Advancers, NEW d \in DecisionRow, decisions' = Append(decisions, d),
           d.action \in RoutingActions, d.action = "auto_advance" => d.score >= 95,
           advancing' = [advancing EXCEPT ![a].at = "decided"],
           UNCHANGED <<reviews, resolving, advances, judged, weekly>>
    PROVE  LearningInv'
<1>1. PICK n \in Nat : n = Len(decisions) /\ DOMAIN decisions = 1..n BY RowsAre
<1>2. /\ decisions' \in Seq(DecisionRow) /\ DOMAIN decisions' = 1..(n + 1)
      /\ decisions'[n + 1] = d /\ \A i \in 1..n : decisions'[i] = decisions[i]
  BY <1>1, AppendProperties DEF LearningInv, LearningTypes
<1>3. \A i \in 1..(n + 1) : i = n + 1 \/ i \in 1..n BY <1>1
<1>4. PICK w \in AdvanceType : w = advancing[a] BY DEF LearningInv, LearningTypes
<1> DEFINE v == [w EXCEPT !.at = "decided"]
<1>5. v \in AdvanceType /\ v.at = "decided" BY DEF AdvanceType
<1>6. advancing' = [advancing EXCEPT ![a] = v] BY <1>4
<1> HIDE DEF v
<1>7. advancing' \in [Advancers -> AdvanceType] /\ advancing'[a] = v
      /\ \A b \in Advancers \ {a} : advancing'[b] = advancing[b]
  BY <1>5, <1>6 DEF LearningInv, LearningTypes
<1>8. AutoIsEarned'
  <2>1. \A i \in 1..(n + 1) : decisions'[i].action = "auto_advance" => decisions'[i].score >= 95
    BY <1>1, <1>2, <1>3 DEF LearningInv, AutoIsEarned
  <2> QED BY <1>2, <1>5, <1>7, <2>1 DEF LearningInv, AutoIsEarned
<1>9. HumansDecide'
  <2>1. d.action \notin HumanActions BY DEF RoutingActions, HumanActions, OverrideActions
  <2> QED BY <1>1, <1>2, <1>3, <2>1 DEF LearningInv, HumansDecide
<1>10. LearningTypes' BY <1>2, <1>7 DEF LearningInv, LearningTypes
<1> QED BY <1>8, <1>9, <1>10 DEF LearningInv, ReviewsCountOnce

\* An item is queued.
LEMMA QueueKeeps ==
    ASSUME LearningInv, NEW a \in Advancers, QueueReview(a) PROVE LearningInv'
<1>1. PICK n \in Nat : n = Len(reviews) /\ DOMAIN reviews = 1..n BY RowsAre
<1>2. PICK w \in AdvanceType : w = advancing[a] /\ w.at = "routed" /\ w.tier # "auto_advance"
  BY DEF QueueReview, LearningInv, LearningTypes
<1> DEFINE row == [project |-> w.project, status |-> "pending", feedback |-> "none"]
           v == [w EXCEPT !.at = "linked", !.item = n + 1]
<1>3. row \in ReviewRow BY DEF ReviewRow, AdvanceType
<1>4. v \in AdvanceType /\ v.at = "linked" /\ v.tier = w.tier /\ v.score = w.score
  <2>1. n + 1 \in Nat BY <1>1
  <2> QED BY <2>1 DEF AdvanceType
<1>5. /\ advancing' = [advancing EXCEPT ![a] = v] /\ reviews' = Append(reviews, row)
      /\ UNCHANGED <<decisions, resolving, advances, judged, weekly>>
  BY <1>1, <1>2 DEF QueueReview, LearningInv, LearningTypes
<1> HIDE DEF row, v
<1>6. /\ reviews' \in Seq(ReviewRow) /\ DOMAIN reviews' = 1..(n + 1)
      /\ \A i \in 1..n : reviews'[i] = reviews[i]
  BY <1>1, <1>3, <1>5, AppendProperties DEF LearningInv, LearningTypes
<1>7. \A i \in 1..n : i \in 1..(n + 1) BY <1>1
<1>8. advancing' \in [Advancers -> AdvanceType] /\ advancing'[a] = v
      /\ \A b \in Advancers \ {a} : advancing'[b] = advancing[b]
  BY <1>4, <1>5 DEF LearningInv, LearningTypes
<1>9. AutoIsEarned' BY <1>2, <1>4, <1>5, <1>8 DEF LearningInv, AutoIsEarned
<1>10. HumansDecide' BY <1>1, <1>5, <1>6, <1>7 DEF LearningInv, HumansDecide
<1>11. judged \subseteq 1..(n + 1) BY <1>1, <1>7 DEF LearningInv, LearningTypes
<1>14. n + 1 \in Nat BY <1>1
<1>12. ReviewsCountOnce' BY <1>5, <1>11, <1>14, ReportStands
<1>13. LearningTypes' BY <1>1, <1>5, <1>6, <1>7, <1>8 DEF LearningInv, LearningTypes
<1> QED BY <1>5, <1>9, <1>10, <1>12, <1>13 DEF LearningInv

\* What a resolving request has read or stored.
LEMMA ResolvingIs ==
    ASSUME LearningInv, NEW r \in Reviewers, NEW v \in ResolvingType, resolving' = [resolving EXCEPT ![r] = v],
           v.item # 0 => v.item \in DOMAIN reviews',
           v.stored => v.item \in judged' /\ v.verdict \in HumanActions,
           DOMAIN reviews \subseteq DOMAIN reviews', judged \subseteq judged'
    PROVE  /\ resolving' \in [Reviewers -> ResolvingType]
           /\ \A s \in Reviewers : /\ resolving'[s].item # 0 => resolving'[s].item \in DOMAIN reviews'
                                   /\ resolving'[s].stored => /\ resolving'[s].item \in judged'
                                                              /\ resolving'[s].verdict \in HumanActions
<1>1. /\ resolving' \in [Reviewers -> ResolvingType] /\ resolving'[r] = v
      /\ \A s \in Reviewers \ {r} : resolving'[s] = resolving[s]
  BY DEF LearningInv, LearningTypes
<1>2. ASSUME NEW s \in Reviewers
      PROVE  /\ resolving'[s].item # 0 => resolving'[s].item \in DOMAIN reviews'
             /\ resolving'[s].stored => resolving'[s].item \in judged' /\ resolving'[s].verdict \in HumanActions
  <2>1. CASE s = r BY <1>1, <2>1
  <2>2. CASE s # r BY <1>1, <2>2 DEF LearningInv, LearningTypes
  <2> QED BY <2>1, <2>2
<1> QED BY <1>1, <1>2

\* A person decides: the item is stored.
LEMMA ResolveKeeps ==
    ASSUME LearningInv, NEW r \in Reviewers, NEW verdict \in HumanActions, ResolveItem(r, verdict)
    PROVE  LearningInv'
<1>1. PICK n \in Nat : n = Len(reviews) /\ DOMAIN reviews = 1..n BY RowsAre
<1>2. PICK w \in ResolvingType : w = resolving[r] BY DEF LearningInv, LearningTypes
<1>3. PICK i \in DOMAIN reviews : w.item = i /\ i \in Nat
  BY <1>1, <1>2 DEF ResolveItem, LearningInv, LearningTypes
<1>4. PICK row \in ReviewRow : row = reviews[i] BY RowsAre
<1> DEFINE now == [row EXCEPT !.status = "closed", !.feedback = Feedback(verdict)]
           v == [w EXCEPT !.stored = TRUE, !.verdict = verdict]
<1>5. now \in ReviewRow
  <2>1. Feedback(verdict) \in {"reject", "escalate", "approve"}
    BY DEF Feedback, HumanActions, OverrideActions
  <2> QED BY <2>1 DEF ReviewRow
<1>6. v \in ResolvingType /\ v.item = i /\ v.verdict = verdict BY <1>3 DEF ResolvingType
<1>7. /\ reviews' = [reviews EXCEPT ![i] = now] /\ resolving' = [resolving EXCEPT ![r] = v]
      /\ judged' = judged \cup {i} /\ UNCHANGED <<decisions, advancing, advances, weekly>>
  <2>1. /\ reviews' = [reviews EXCEPT ![i].status = "closed", ![i].feedback = Feedback(verdict)]
        /\ resolving' = [resolving EXCEPT ![r].stored = TRUE, ![r].verdict = verdict]
        /\ judged' = judged \cup {i} /\ UNCHANGED <<decisions, advancing, advances, weekly>>
    BY <1>2, <1>3 DEF ResolveItem
  <2>2. reviews' = [reviews EXCEPT ![i] = now] BY <1>4, <2>1
  <2>3. resolving' = [resolving EXCEPT ![r] = v] BY <1>2, <2>1
  <2> QED BY <2>1, <2>2, <2>3
<1> HIDE DEF now, v
<1>8. reviews' \in Seq(ReviewRow) /\ DOMAIN reviews' = DOMAIN reviews
  BY <1>5, <1>7, ExceptSeq DEF LearningInv, LearningTypes
<1>9. judged' \subseteq DOMAIN reviews' BY <1>7, <1>8 DEF LearningInv, LearningTypes
<1>10. HumansDecide' BY <1>7 DEF LearningInv, HumansDecide
<1>11. AutoIsEarned' BY <1>7 DEF LearningInv, AutoIsEarned
<1>12. ReviewsCountOnce' BY <1>1, <1>7, <1>8, <1>9, ReportStands
<1>13. v.item # 0 => v.item \in DOMAIN reviews' BY <1>6, <1>8
<1>14. v.stored => v.item \in judged' /\ v.verdict \in HumanActions BY <1>6, <1>7
<1>15. judged \subseteq judged' /\ DOMAIN reviews \subseteq DOMAIN reviews' BY <1>7, <1>8
<1>16. /\ resolving' \in [Reviewers -> ResolvingType]
       /\ \A s \in Reviewers : /\ resolving'[s].item # 0 => resolving'[s].item \in DOMAIN reviews'
                               /\ resolving'[s].stored => /\ resolving'[s].item \in judged'
                                                          /\ resolving'[s].verdict \in HumanActions
  BY <1>6, <1>7, <1>13, <1>14, <1>15, ResolvingIs
<1>17. LearningTypes' BY <1>7, <1>8, <1>9, <1>16 DEF LearningInv, LearningTypes
<1> QED BY <1>7, <1>10, <1>11, <1>12, <1>17 DEF LearningInv

\* The decision follows.
LEMMA VerdictKeeps ==
    ASSUME LearningInv, NEW r \in Reviewers, RecordVerdict(r) PROVE LearningInv'
<1>1. PICK n \in Nat : n = Len(decisions) /\ DOMAIN decisions = 1..n BY RowsAre
<1>2. PICK i \in judged, verdict \in HumanActions : resolving[r].item = i /\ resolving[r].verdict = verdict
  BY DEF RecordVerdict, LearningInv, LearningTypes
<1>3. i \in DOMAIN reviews /\ i \in Nat BY RowsAre DEF LearningInv, LearningTypes
<1>4. PICK row \in ReviewRow : row = reviews[i] BY <1>3, RowsAre
<1> DEFINE d == Decision(verdict, row.project, 0, i)
<1>5. d \in DecisionRow /\ d.action = verdict /\ d.item = i BY <1>3 DEF Decision, DecisionRow, ReviewRow
<1>6. decisions' = Append(decisions, d) /\ resolving' = [resolving EXCEPT ![r] = NoReview]
      /\ UNCHANGED <<reviews, advancing, advances, judged, weekly>>
  BY <1>2, <1>4 DEF RecordVerdict
<1> HIDE DEF d
<1>7. /\ decisions' \in Seq(DecisionRow) /\ DOMAIN decisions' = 1..(n + 1)
      /\ decisions'[n + 1] = d /\ \A j \in 1..n : decisions'[j] = decisions[j]
  BY <1>1, <1>5, <1>6, AppendProperties DEF LearningInv, LearningTypes
<1>8. \A j \in 1..(n + 1) : j = n + 1 \/ j \in 1..n BY <1>1
<1>9. HumansDecide'
  <2>1. ASSUME NEW j \in 1..(n + 1), decisions'[j].action \in HumanActions
        PROVE  decisions'[j].item \in judged \cup {0}
    <3>1. CASE j = n + 1 BY <1>5, <1>7, <3>1
    <3>2. CASE j \in 1..n BY <1>1, <1>7, <2>1, <3>2 DEF LearningInv, HumansDecide
    <3> QED BY <1>8, <3>1, <3>2
  <2> QED BY <1>6, <1>7, <2>1 DEF HumansDecide
<1>10. AutoIsEarned'
  <2>1. d.action # "auto_advance" BY <1>5 DEF HumanActions, OverrideActions
  <2> QED BY <1>1, <1>6, <1>7, <1>8, <2>1 DEF LearningInv, AutoIsEarned
<1>11. NoReview \in ResolvingType /\ NoReview.item = 0 /\ NoReview.stored = FALSE BY DEF NoReview, ResolvingType
<1>12. /\ resolving' \in [Reviewers -> ResolvingType]
       /\ \A s \in Reviewers : /\ resolving'[s].item # 0 => resolving'[s].item \in DOMAIN reviews'
                               /\ resolving'[s].stored => /\ resolving'[s].item \in judged'
                                                          /\ resolving'[s].verdict \in HumanActions
  BY <1>6, <1>11, ResolvingIs
<1>13. LearningTypes' BY <1>6, <1>7, <1>12 DEF LearningInv, LearningTypes
<1> QED BY <1>6, <1>9, <1>10, <1>13 DEF LearningInv, ReviewsCountOnce

\* A request reads an item, or gives up.
LEMMA ReviewReadKeeps ==
    ASSUME LearningInv, NEW r \in Reviewers, NEW v \in ResolvingType, resolving' = [resolving EXCEPT ![r] = v],
           v.item # 0 => v.item \in DOMAIN reviews, ~v.stored,
           UNCHANGED <<decisions, reviews, advancing, advances, judged, weekly>>
    PROVE  LearningInv'
<1>1. /\ resolving' \in [Reviewers -> ResolvingType]
      /\ \A s \in Reviewers : /\ resolving'[s].item # 0 => resolving'[s].item \in DOMAIN reviews'
                              /\ resolving'[s].stored => /\ resolving'[s].item \in judged'
                                                         /\ resolving'[s].verdict \in HumanActions
  BY ResolvingIs
<1>2. LearningTypes' BY <1>1 DEF LearningInv, LearningTypes
<1> QED BY <1>2 DEF LearningInv, AutoIsEarned, HumansDecide, ReviewsCountOnce

\* An operator sets a status.
LEMMA PatchKeeps ==
    ASSUME LearningInv, NEW i \in DOMAIN reviews, NEW status \in {"pending", "closed"}, PatchItem(i, status)
    PROVE  LearningInv'
<1>1. PICK row \in ReviewRow : row = reviews[i] BY RowsAre
<1> DEFINE now == [row EXCEPT !.status = status]
<1>2. now \in ReviewRow BY DEF ReviewRow
<1>3. reviews' = [reviews EXCEPT ![i] = now] /\ UNCHANGED <<decisions, advancing, resolving, advances, judged, weekly>>
  BY <1>1 DEF PatchItem
<1> HIDE DEF now
<1>4. reviews' \in Seq(ReviewRow) /\ DOMAIN reviews' = DOMAIN reviews
  BY <1>2, <1>3, ExceptSeq DEF LearningInv, LearningTypes
<1>5. LearningTypes' BY <1>3, <1>4 DEF LearningInv, LearningTypes
<1> QED BY <1>3, <1>5 DEF LearningInv, AutoIsEarned, HumansDecide, ReviewsCountOnce

\* A deleted item takes the links to it away.
LEMMA DeleteKeeps ==
    ASSUME LearningInv, NEW i \in DOMAIN reviews, DeleteItem(i) PROVE LearningInv'
<1>1. PICK row \in ReviewRow : row = reviews[i] BY RowsAre
<1>2. PICK n \in Nat : n = Len(decisions) /\ DOMAIN decisions = 1..n BY RowsAre
<1>3. PICK d : d = decisions' OBVIOUS
<1> DEFINE now == [row EXCEPT !.status = "deleted", !.feedback = "none"]
<1>4. now \in ReviewRow BY DEF ReviewRow
<1>5. /\ reviews' = [reviews EXCEPT ![i] = now]
      /\ d = [j \in 1..n |-> [decisions[j] EXCEPT !.item = IF decisions[j].item = i THEN 0 ELSE @]]
      /\ UNCHANGED <<advancing, resolving, advances, judged, weekly>>
  <2>1. reviews' = [reviews EXCEPT ![i].status = "deleted", ![i].feedback = "none"] BY DEF DeleteItem
  <2>2. reviews' = [reviews EXCEPT ![i] = now] BY <1>1, <2>1
  <2> QED BY <1>2, <1>3, <2>2 DEF DeleteItem
<1> HIDE DEF now
<1>6. reviews' \in Seq(ReviewRow) /\ DOMAIN reviews' = DOMAIN reviews
  BY <1>4, <1>5, ExceptSeq DEF LearningInv, LearningTypes
<1>7. \A j \in 1..n : /\ d[j] \in DecisionRow /\ d[j].action = decisions[j].action
                      /\ d[j].score = decisions[j].score /\ d[j].item \in {decisions[j].item, 0}
  <2> SUFFICES ASSUME NEW j \in 1..n
               PROVE  /\ d[j] \in DecisionRow /\ d[j].action = decisions[j].action
                      /\ d[j].score = decisions[j].score /\ d[j].item \in {decisions[j].item, 0}
    OBVIOUS
  <2>1. PICK t \in DecisionRow : t = decisions[j] BY <1>2, RowsAre
  <2>2. PICK k \in Nat : k = (IF t.item = i THEN 0 ELSE t.item) /\ k \in {t.item, 0} BY DEF DecisionRow
  <2>3. d[j] = [t EXCEPT !.item = k] BY <1>5, <2>1, <2>2
  <2> QED BY <2>1, <2>2, <2>3 DEF DecisionRow
<1>8. d \in Seq(DecisionRow) /\ DOMAIN d = 1..n
  <2>1. DOMAIN d = 1..n BY <1>5
  <2>2. d \in [1..n -> DecisionRow] BY <1>5, <1>7
  <2> QED BY <2>1, <2>2
<1>9. AutoIsEarned'
  <2>1. \A j \in DOMAIN d : d[j].action = "auto_advance" => d[j].score >= 95
    BY <1>2, <1>7, <1>8 DEF LearningInv, AutoIsEarned
  <2> QED BY <1>3, <1>5, <2>1 DEF LearningInv, AutoIsEarned
<1>10. HumansDecide' BY <1>2, <1>3, <1>5, <1>7, <1>8 DEF LearningInv, HumansDecide
<1>11. LearningTypes' BY <1>3, <1>5, <1>6, <1>8 DEF LearningInv, LearningTypes
<1> QED BY <1>5, <1>9, <1>10, <1>11 DEF LearningInv, ReviewsCountOnce

\* A report pairs each decided item once.
LEMMA WeeklyKeeps ==
    ASSUME LearningInv, WeeklyReport PROVE LearningInv'
<1>1. PICK from \in 1..(Len(decisions) + 1) :
        weekly' = [made |-> weekly.made + 1, report |-> [paired |-> Cardinality(PairedVerdicts(from)),
                          overridden |-> Cardinality({i \in PairedVerdicts(from) : decisions[i].action \in OverrideActions}),
                          reasons |-> Cardinality(TopReasons), noted |-> Cardinality(Overridden)]]
  BY DEF WeeklyReport
<1> DEFINE S == {k \in DOMAIN reviews : VerdictsOn(k, from) # {}}
           T == PairedVerdicts(from)
           f == [k \in S |-> FirstOf(VerdictsOn(k, from))]
<1>2. IsFiniteSet(DOMAIN reviews)
  <2>1. PICK n \in Nat : DOMAIN reviews = 1..n BY RowsAre
  <2>2. IsFiniteSet(1..n) BY <2>1, FS_Interval
  <2> QED BY <2>1, <2>2
<1>3. S \subseteq judged
  <2>1. ASSUME NEW k \in S PROVE k \in judged
    <3>1. PICK i \in from..Len(decisions) : decisions[i].item = k /\ decisions[i].action \in HumanActions
      BY DEF VerdictsOn
    <3>2. i \in DOMAIN decisions BY <1>1, RowsAre
    <3>3. k # 0 BY RowsAre
    <3> QED BY <3>1, <3>2, <3>3 DEF LearningInv, HumansDecide
  <2> QED BY <2>1
<1>4. IsFiniteSet(judged) BY <1>2, FS_Subset DEF LearningInv, LearningTypes
<1>5. IsFiniteSet(S) /\ Cardinality(S) <= Cardinality(judged) BY <1>3, <1>4, FS_Subset
<1>6. f \in Surjection(S, T) BY DEF PairedVerdicts, Surjection
<1>7. IsFiniteSet(TopReasons) /\ IsFiniteSet(Overridden) BY <1>2, FS_Subset DEF TopReasons, Overridden
<1> HIDE DEF S, T, f
<1>8. IsFiniteSet(T) /\ Cardinality(T) <= Cardinality(S) BY <1>5, <1>6, FS_Surjection
<1> DEFINE O == {i \in T : decisions[i].action \in OverrideActions}
<1>9. IsFiniteSet(O) /\ Cardinality(O) <= Cardinality(T) BY <1>8, FS_Subset
<1>10. /\ Cardinality(T) \in Nat /\ Cardinality(O) \in Nat /\ Cardinality(S) \in Nat
       /\ Cardinality(judged) \in Nat /\ Cardinality(TopReasons) \in Nat /\ Cardinality(Overridden) \in Nat
  BY <1>4, <1>5, <1>7, <1>8, <1>9, FS_CardinalityType
<1>11. /\ weekly'.report.paired = Cardinality(T) /\ weekly'.report.overridden = Cardinality(O)
       /\ weekly'.report = [paired |-> Cardinality(T), overridden |-> Cardinality(O),
                            reasons |-> Cardinality(TopReasons), noted |-> Cardinality(Overridden)]
  BY <1>1 DEF T
<1>12. weekly'.report \in ReportType BY <1>10, <1>11 DEF ReportType
<1>13. Cardinality(T) <= Cardinality(judged) BY <1>5, <1>8, <1>10
<1>14. UNCHANGED <<decisions, reviews, advancing, resolving, advances, judged>> BY DEF WeeklyReport
<1>16. ReviewsCountOnce' BY <1>9, <1>11, <1>13, <1>14 DEF ReviewsCountOnce
<1> QED BY <1>12, <1>14, <1>16 DEF LearningInv, LearningTypes, AutoIsEarned, HumansDecide

\* Nothing has been learned at first.
LEMMA LearningStart == LearningInit => LearningInv
<1> SUFFICES ASSUME LearningInit PROVE LearningInv OBVIOUS
<1>1. decisions = <<>> /\ reviews = <<>> /\ decisions \in Seq(DecisionRow) /\ reviews \in Seq(ReviewRow)
  BY DEF LearningInit
<1>2. IdleAdvance \in AdvanceType /\ IdleAdvance.at = "idle" BY DEF IdleAdvance, AdvanceType, AnyProject
<1>3. NoReview \in ResolvingType /\ NoReview.item = 0 /\ NoReview.stored = FALSE
  BY DEF NoReview, ResolvingType
<1>4. LearningTypes BY <1>1, <1>2, <1>3 DEF LearningInit, LearningTypes
<1>5. AutoIsEarned BY <1>1, <1>2 DEF LearningInit, AutoIsEarned
<1>6. weekly.report = NoReport BY DEF LearningInit
<1>7. judged = {} BY DEF LearningInit
<1>8. ReviewsCountOnce /\ weekly.report \in ReportType
  BY <1>6, <1>7, FS_EmptySet DEF ReviewsCountOnce, NoReport, ReportType
<1> QED BY <1>1, <1>4, <1>5, <1>8 DEF LearningInv, HumansDecide

\* Every step keeps the invariant.
LEMMA LearningStep == LearningInv /\ [LearningNext]_learningVars => LearningInv'
<1> SUFFICES ASSUME LearningInv, [LearningNext]_learningVars PROVE LearningInv' OBVIOUS
<1>0. advances \subseteq Nat /\ \A s \in advances : s >= 95 BY DEF LearningInv, LearningTypes, AutoIsEarned
<1>a. IdleAdvance \in AdvanceType /\ IdleAdvance.at = "idle" BY DEF IdleAdvance, AdvanceType, AnyProject
<1>1. ASSUME NEW a \in Advancers, Route(a) PROVE LearningInv'
  <2>1. PICK p \in Projects, s \in Confidences, bar \in EffectiveThresholds :
          advancing' = [advancing EXCEPT ![a] =
              [at |-> "routed", project |-> p, score |-> s, item |-> 0,
               tier |-> IF s >= bar THEN "auto_advance"
                        ELSE IF s >= ThresholdMin THEN "queued_for_review" ELSE "escalated"]]
    BY <1>1 DEF Route
  <2>2. s \in Nat /\ bar \in Nat /\ bar >= 95 BY LearningAssumption, ThresholdsAreHigh
  <2> DEFINE v == [at |-> "routed", project |-> p, score |-> s, item |-> 0,
                   tier |-> IF s >= bar THEN "auto_advance"
                            ELSE IF s >= ThresholdMin THEN "queued_for_review" ELSE "escalated"]
  <2>3. v \in AdvanceType /\ v.at = "routed" /\ v.tier # "none" BY <2>2 DEF AdvanceType, AnyProject, RoutingActions
  <2>4. v.tier = "auto_advance" => v.score >= 95 BY <2>2
  <2>5. UNCHANGED <<decisions, reviews, resolving, advances, judged, weekly>> BY <1>1 DEF Route
  <2> HIDE DEF v
  <2> QED BY <1>0, <2>1, <2>3, <2>4, <2>5, AdvanceKeeps DEF v
<1>2. ASSUME NEW a \in Advancers, RecordAutoAdvance(a) PROVE LearningInv'
  <2>1. PICK w \in AdvanceType : w = advancing[a] BY DEF LearningInv, LearningTypes
  <2>2. w.at = "routed" /\ w.tier = "auto_advance" /\ w.score >= 95 /\ w.score \in Nat /\ w.project \in AnyProject
    BY <1>2, <2>1 DEF RecordAutoAdvance, LearningInv, AutoIsEarned, AdvanceType
  <2> DEFINE d == Decision("auto_advance", w.project, w.score, 0)
  <2>3. d \in DecisionRow /\ d.action \in RoutingActions /\ d.score >= 95
    BY <2>2 DEF Decision, DecisionRow, RoutingActions
  <2> HIDE DEF d
  <2>4. decisions' = Append(decisions, d) /\ advancing' = [advancing EXCEPT ![a].at = "decided"]
        /\ UNCHANGED <<reviews, resolving, advances, judged, weekly>>
    BY <1>2, <2>1 DEF RecordAutoAdvance, d
  <2> QED BY <2>3, <2>4, RecordKeeps
<1>3. ASSUME NEW a \in Advancers, RecordQueued(a) PROVE LearningInv'
  <2>1. PICK w \in AdvanceType : w = advancing[a] BY DEF LearningInv, LearningTypes
  <2>2. w.tier \in RoutingActions /\ w.tier # "auto_advance" /\ w.score \in Nat /\ w.project \in AnyProject /\ w.item \in Nat
    BY <1>3, <2>1 DEF RecordQueued, LearningInv, AutoIsEarned, AdvanceType
  <2> DEFINE d == Decision(w.tier, w.project, w.score, w.item)
  <2>3. d \in DecisionRow /\ d.action \in RoutingActions /\ d.action # "auto_advance"
    BY <2>2 DEF Decision, DecisionRow
  <2> HIDE DEF d
  <2>4. decisions' = Append(decisions, d) /\ advancing' = [advancing EXCEPT ![a].at = "decided"]
        /\ UNCHANGED <<reviews, resolving, advances, judged, weekly>>
    BY <1>3, <2>1 DEF RecordQueued, d
  <2> QED BY <2>3, <2>4, RecordKeeps
<1>4. ASSUME NEW a \in Advancers, CheckAdvance(a) PROVE LearningInv'
  <2>1. PICK w \in AdvanceType : w = advancing[a] BY DEF LearningInv, LearningTypes
  <2>2. PICK bar \in EffectiveThresholds :
          IF w.score >= bar
          THEN advances' = advances \cup {w.score} /\ advancing' = [advancing EXCEPT ![a] = IdleAdvance]
          ELSE advancing' = [advancing EXCEPT ![a].at = "held"] /\ UNCHANGED advances
    BY <1>4, <2>1 DEF CheckAdvance
  <2>3. bar \in Nat /\ bar >= 95 /\ w.score \in Nat BY ThresholdsAreHigh DEF AdvanceType
  <2>4. UNCHANGED <<decisions, reviews, resolving, judged, weekly>> BY <1>4 DEF CheckAdvance
  <2>5. CASE w.score >= bar
    <3>1. advances' \subseteq Nat /\ \A s \in advances' : s >= 95 BY <1>0, <2>2, <2>3, <2>5
    <3> QED BY <1>a, <2>2, <2>4, <2>5, <3>1, AdvanceKeeps
  <2>6. CASE ~(w.score >= bar)
    <3> DEFINE v == [w EXCEPT !.at = "held"]
    <3>1. v \in AdvanceType /\ v.at = "held" /\ advancing' = [advancing EXCEPT ![a] = v]
      BY <2>1, <2>2, <2>6 DEF AdvanceType
    <3> HIDE DEF v
    <3> QED BY <1>0, <2>2, <2>4, <2>6, <3>1, AdvanceKeeps
  <2> QED BY <2>5, <2>6
<1>5. ASSUME NEW a \in Advancers, LeaveAdvance(a) PROVE LearningInv'
  BY <1>0, <1>a, <1>5, AdvanceKeeps DEF LeaveAdvance
<1>6. ASSUME NEW r \in Reviewers, ReadReview(r) PROVE LearningInv'
  <2>1. PICK i \in DOMAIN reviews : resolving' = [resolving EXCEPT ![r] = [NoReview EXCEPT !.item = i]]
    BY <1>6 DEF ReadReview
  <2> DEFINE v == [NoReview EXCEPT !.item = i]
  <2>2. i \in Nat BY RowsAre
  <2>3. v \in ResolvingType /\ v.item = i /\ v.stored = FALSE BY <2>2 DEF NoReview, ResolvingType
  <2>4. UNCHANGED <<decisions, reviews, advancing, advances, judged, weekly>> BY <1>6 DEF ReadReview
  <2> QED BY <2>1, <2>3, <2>4, ReviewReadKeeps
<1>8. ASSUME NEW r \in Reviewers, ReviewerStops(r) PROVE LearningInv'
  <2>1. NoReview \in ResolvingType /\ NoReview.item = 0 /\ NoReview.stored = FALSE BY DEF NoReview, ResolvingType
  <2> QED BY <1>8, <2>1, ReviewReadKeeps DEF ReviewerStops
<1>9. ASSUME NEW r \in Reviewers, NEW v \in Verdicts, ResolveItem(r, v) PROVE LearningInv'
  BY <1>9, LearningAssumption, ResolveKeeps
<1>7. CASE UNCHANGED learningVars
  BY <1>7 DEF learningVars, LearningInv, LearningTypes, AutoIsEarned, HumansDecide, ReviewsCountOnce
<1> QED BY <1>1, <1>2, <1>3, <1>4, <1>5, <1>6, <1>7, <1>8, <1>9, QueueKeeps, VerdictKeeps, PatchKeeps, DeleteKeeps,
           WeeklyKeeps
       DEF LearningNext

\* learning/service.py: whatever people reverse and whenever thresholds are read no transition
\* is committed below the default, and a report counts at most one review for an item that a
\* reviewer decided, however often operators reopen it.
THEOREM LearningIsSound == LearningSpec => []LearningHolds
<1>1. LearningInv => LearningHolds
  <2> SUFFICES ASSUME LearningInv PROVE GateNeverLoosened BY DEF LearningInv, LearningHolds
  <2>1. EffectiveThresholds \subseteq DefaultThreshold..ThresholdMax
    BY ThresholdsAreHigh DEF DefaultThreshold, ThresholdMax
  <2> QED BY <2>1 DEF LearningInv, AutoIsEarned, GateNeverLoosened, DefaultThreshold
<1> QED BY LearningStart, LearningStep, <1>1, PTL DEF LearningSpec

-----------------------------------------------------------------------------
(* Agents.  A result carries what its agent has read, so that nothing but the arithmetic  *)
(* of the scores decides what it may say.                                                  *)

CalcRow == [compliance : Int, odd : {"no", "doubtful", "negative_leakage"}, born : Nat]
ReportRow == [status : {"draft", "approved", "submitted", "vvb_approved"}, passed : BOOLEAN, born : Nat]

AgentTypes == /\ sources \in [{"pending", "valid", "flagged"} -> Nat]
              /\ calcs \in Seq(CalcRow) /\ reports \in Seq(ReportRow)

AgentsInv == AgentTypes /\ AgentsAdvanceOnEvidence

\* The larger of two numbers is one of them and no less than either.
LEMMA FlooredIs ==
    ASSUME NEW x \in Int, NEW y \in Int
    PROVE  /\ Floored(x, y) \in Int /\ Floored(x, y) >= x /\ Floored(x, y) >= y
           /\ x \in Nat => Floored(x, y) \in Nat
           /\ y \in Nat => Floored(x, y) \in Nat
           /\ Floored(x, y) = x \/ Floored(x, y) = y
<1>1. \E m \in {x, y} : \A k \in {x, y} : m >= k
  <2>1. CASE x >= y BY <2>1
  <2>2. CASE ~(x >= y) BY <2>2
  <2> QED BY <2>1, <2>2
<1>2. Max({x, y}) \in {x, y} /\ \A k \in {x, y} : Max({x, y}) >= k BY <1>1 DEF Max
<1> QED BY <1>2 DEF Floored

\* The smaller of two numbers is one of them and no more than either.
LEMMA CappedIs ==
    ASSUME NEW x \in Int, NEW y \in Int
    PROVE  /\ Capped(x, y) \in Int /\ Capped(x, y) <= x /\ Capped(x, y) <= y
           /\ Capped(x, y) = x \/ Capped(x, y) = y
<1>1. \E m \in {x, y} : \A k \in {x, y} : m <= k
  <2>1. CASE x <= y BY <2>1
  <2>2. CASE ~(x <= y) BY <2>2
  <2> QED BY <2>1, <2>2
<1>2. Min({x, y}) \in {x, y} /\ \A k \in {x, y} : Min({x, y}) <= k BY <1>1 DEF Min
<1> QED BY <1>2 DEF Capped

\* A blended score of 0.95 has engines of 0.875 behind it.
LEMMA BlendAgrees ==
    ASSUME NEW e \in Int, NEW mark, mark # NoModel => mark \in 0..100
    PROVE  /\ Blend(e, mark) \in Int
           /\ Blend(e, mark) >= 95000 => e >= 8750
<1>1. PICK f \in Int : f = Floored(e, 0) /\ (f = e \/ f = 0) BY FlooredIs
<1>2. PICK h \in Int : h = Capped(f, 10000) /\ h <= f BY <1>1, CappedIs
<1>3. h >= 8750 => e >= 8750 BY <1>1, <1>2
<1>4. Blend(e, mark) = IF mark = NoModel THEN 10 * h ELSE 4 * h + 600 * mark BY <1>1, <1>2 DEF Blend
<1>5. CASE mark = NoModel BY <1>2, <1>3, <1>4, <1>5
<1>6. CASE mark # NoModel BY <1>2, <1>3, <1>4, <1>6
<1> QED BY <1>5, <1>6

\* The marks of the model.
LEMMA MarksAre == ASSUME NEW mark \in Marks \cup {NoModel} PROVE mark # NoModel => mark \in 0..100
BY AgentsAssumption

\* The quotient of two natural numbers.
LEMMA QuotientIs ==
    ASSUME NEW a \in Nat, NEW b \in Nat, b > 0
    PROVE  a \div b \in Nat /\ (a \div b) * b <= a
  OBVIOUS

\* What is at most k times as much has a quotient of at most k.
LEMMA QuotientAtMost ==
    ASSUME NEW a \in Nat, NEW b \in Nat, b > 0, NEW k \in Nat, a <= k * b
    PROVE  a \div b <= k
<1>1. PICK q \in Nat : q = a \div b /\ q * b <= a BY QuotientIs
<1>2. q * b <= k * b BY <1>1
<1>3. SUFFICES ASSUME q - k >= 1 PROVE FALSE BY <1>1
<1>4. PICK d \in Nat : q = k + d /\ d >= 1 BY <1>3
<1>5. (k + d) * b = k * b + d * b BY <1>4
<1>6. d * b > 0 BY <1>4
<1> QED BY <1>2, <1>4, <1>5, <1>6

\* What a result says for itself.
LEMMA ResultSays ==
    ASSUME NEW agent, NEW status, NEW confidence, NEW engines, NEW cited
    PROVE  LET r == Result(agent, status, confidence, engines, cited)
           IN /\ r.agent = agent /\ r.confidence = confidence /\ r.engines = engines /\ r.cited = cited
              /\ Advances(r) => confidence >= 95000
              /\ Advances(Graded(agent, confidence, engines, cited)) => confidence >= 95000
              /\ Graded(agent, confidence, engines, cited).agent = agent
              /\ Graded(agent, confidence, engines, cited).engines = engines
              /\ Graded(agent, confidence, engines, cited).cited = cited
BY DEF Result, Graded, Advances

\* Nothing to route, or too little to route it on, moves no project.
LEMMA NothingAdvances ==
    ASSUME last' = NoResult \/ \E agent : last' = NoData(agent)
    PROVE  AgentsAdvanceOnEvidence'
<1>1. last'.confidence \in {0, 60000} BY DEF NoResult, NoData, Result
<1>2. ~Advances(last') BY <1>1 DEF Advances
<1>3. EnginesMustAgree' /\ SurvivingFlagsHold' BY <1>2 DEF EnginesMustAgree, SurvivingFlagsHold
<1>4. CalculatedFromValid' BY <1>2 DEF CalculatedFromValid
<1>5. CleanReportsAdvance' BY <1>2 DEF CleanReportsAdvance
<1>6. LiaisonOnFreshReport' /\ OnboardingNeedsHuman' BY <1>2 DEF LiaisonOnFreshReport, OnboardingNeedsHuman
<1> QED BY <1>3, <1>4, <1>5, <1>6 DEF AgentsAdvanceOnEvidence

\* The sources that are counted.
LEMMA SourcesAre ==
    ASSUME AgentTypes
    PROVE  /\ sources["pending"] \in Nat /\ sources["valid"] \in Nat /\ sources["flagged"] \in Nat
           /\ SourceCount \in Nat
BY DEF AgentTypes, SourceCount

\* Ingestion.
LEMMA IngestionHolds == ASSUME AgentsInv, IngestionAgent PROVE AgentsInv'
<1>1. PICK inFiles \in 0..1, mark \in Marks \cup {NoModel} :
        LET complete   == IF upload = "processing" THEN 0 ELSE 10000
            anomalies  == inFiles + sources["flagged"]
            engines    == Floored(complete - Capped(1000 * anomalies, 4000), 0)
            confidence == Blend(engines, mark)
            graded     == Graded("ingestion", confidence, engines, {})
        IN last' = IF upload = "none" /\ SourceCount = 0 THEN NoData("ingestion")
                   ELSE IF upload = "failed" THEN [graded EXCEPT !.status = "queued_for_review"]
                   ELSE graded
  BY DEF IngestionAgent
<1> DEFINE complete == IF upload = "processing" THEN 0 ELSE 10000
           cost == Capped(1000 * (inFiles + sources["flagged"]), 4000)
           engines == Floored(complete - cost, 0)
           graded == Graded("ingestion", Blend(engines, mark), engines, {})
<1>2. complete \in Int OBVIOUS
<1>3. cost \in Int
  <2>1. PICK x \in Int : x = 1000 * (inFiles + sources["flagged"]) BY SourcesAre DEF AgentsInv
  <2>2. Capped(x, 4000) \in Int BY CappedIs
  <2> QED BY <2>1, <2>2
<1>4. last' \in {NoData("ingestion"), graded, [graded EXCEPT !.status = "queued_for_review"]} BY <1>1
<1> HIDE DEF complete, cost
<1>5. engines \in Int
  <2>1. complete - cost \in Int BY <1>2, <1>3
  <2> QED BY <2>1, FlooredIs
<1> HIDE DEF engines
<1>6. Blend(engines, mark) \in Int /\ (Blend(engines, mark) >= 95000 => engines >= 8750)
  BY <1>5, MarksAre, BlendAgrees
<1>7. last'.agent = "ingestion" /\ (Advances(last') => last'.engines >= 8750)
  BY <1>4, <1>6 DEF Graded, Result, Advances, NoData
<1>8. AgentsAdvanceOnEvidence'
  BY <1>7 DEF AgentsAdvanceOnEvidence, EnginesMustAgree, SurvivingFlagsHold, CalculatedFromValid,
              CleanReportsAdvance, LiaisonOnFreshReport, OnboardingNeedsHuman
<1> QED BY <1>8 DEF AgentsInv, AgentTypes, IngestionAgent

\* Validation.  A flag that survives caps the confidence below 0.95.
LEMMA ValidationHolds == ASSUME AgentsInv, ValidationAgent PROVE AgentsInv'
<1>1. PICK thin \in 0..SourceCount, screened \in 1..4, smooth \in BOOLEAN, odd \in LatestOdd :
        \E replied \in BOOLEAN, dismissed, confirmed \in SUBSET RedFlags(smooth, odd) :
            last' = IF SourceCount = 0 THEN NoData("validation")
                    ELSE ValidationResult(thin, screened, RedFlags(smooth, odd), replied, dismissed, confirmed)
  BY DEF ValidationAgent
<1>2. PICK replied \in BOOLEAN, dismissed, confirmed \in SUBSET RedFlags(smooth, odd) :
            last' = IF SourceCount = 0 THEN NoData("validation")
                    ELSE ValidationResult(thin, screened, RedFlags(smooth, odd), replied, dismissed, confirmed)
  BY <1>1
<1> DEFINE raised == RedFlags(smooth, odd)
           surviving == IF replied THEN raised \ dismissed ELSE raised
           engines == 4000 + 3000 - (3000 * thin) \div Floored(SourceCount, 1) + 750 * screened
           mark == IF replied THEN ReviewMark(raised, confirmed) ELSE NoModel
           blended == Blend(engines, mark)
           confidence == IF surviving = {} THEN blended ELSE Capped(blended, 90000)
<1>0. UNCHANGED <<sources, calcs, reports>> BY DEF ValidationAgent
<1>3. CASE SourceCount = 0
  <2>1. last' = NoData("validation") BY <1>2, <1>3
  <2>2. AgentsAdvanceOnEvidence' BY <2>1, NothingAdvances
  <2> QED BY <1>0, <2>2 DEF AgentsInv, AgentTypes
<1>4. CASE SourceCount # 0
  <2>1. \E status : last' = Result("validation", status, confidence, engines, surviving)
    BY <1>2, <1>4 DEF ValidationResult, Surviving
  <2>2. engines \in Int
    <3>1. SourceCount \in Nat BY SourcesAre DEF AgentsInv
    <3>2. Floored(SourceCount, 1) \in Nat /\ Floored(SourceCount, 1) > 0 BY <3>1, FlooredIs
    <3>3. 3000 * thin \in Nat BY <3>1
    <3>4. (3000 * thin) \div Floored(SourceCount, 1) \in Nat BY <3>2, <3>3, QuotientIs
    <3> QED BY <3>4
  <2>3. mark # NoModel => mark \in 0..100
    <3>1. IsFiniteSet({"smooth_activity_data", "missing_baseline", "negative_leakage"})
      <4>1. IsFiniteSet({"smooth_activity_data"}) BY FS_Singleton
      <4>2. IsFiniteSet({"smooth_activity_data"} \cup {"missing_baseline"}) BY <4>1, FS_AddElement
      <4>3. IsFiniteSet(({"smooth_activity_data"} \cup {"missing_baseline"}) \cup {"negative_leakage"})
        BY <4>2, FS_AddElement
      <4>4. ({"smooth_activity_data"} \cup {"missing_baseline"}) \cup {"negative_leakage"}
              = {"smooth_activity_data", "missing_baseline", "negative_leakage"} OBVIOUS
      <4> QED BY <4>3, <4>4
    <3>2. raised \subseteq {"smooth_activity_data", "missing_baseline", "negative_leakage"} BY DEF RedFlags
    <3>3. IsFiniteSet(raised) BY <3>1, <3>2, FS_Subset
    <3>4. CASE raised = {} BY <3>4 DEF ReviewMark
    <3>5. CASE raised # {}
      <4>1. IsFiniteSet(confirmed) /\ Cardinality(confirmed) <= Cardinality(raised) BY <3>3, FS_Subset
      <4>2. Cardinality(raised) \in Nat /\ Cardinality(confirmed) \in Nat BY <3>3, <4>1, FS_CardinalityType
      <4>3. Cardinality(raised) > 0 BY <3>3, <3>5, <4>2, FS_EmptySet
      <4> DEFINE all == Cardinality(raised)
                 some == Cardinality(confirmed)
      <4>4. (50 * some) \div all \in Nat
        <5>1. 50 * some \in Nat BY <4>2
        <5> QED BY <4>2, <4>3, <5>1, QuotientIs
      <4>5. ((50 * some) \div all) <= 50
        <5>1. PICK n \in Nat, k \in Nat : n = all /\ k = 50 * some BY <4>2
        <5>2. k <= 50 * n /\ n > 0 BY <4>1, <4>2, <4>3, <5>1
        <5>3. k \div n <= 50 BY <5>2, QuotientAtMost
        <5> QED BY <5>1, <5>3
      <4> QED BY <3>5, <4>4, <4>5 DEF ReviewMark
    <3> QED BY <3>4, <3>5
  <2> HIDE DEF engines, mark, raised, surviving
  <2>4. blended \in Int /\ (blended >= 95000 => engines >= 8750) BY <2>2, <2>3, BlendAgrees
  <2> HIDE DEF blended
  <2>5. surviving # {} => confidence <= 90000 /\ confidence \in Int BY <2>4, CappedIs
  <2>6. confidence \in Int /\ (confidence >= 95000 => engines >= 8750 /\ surviving = {}) BY <2>4, <2>5
  <2> HIDE DEF confidence
  <2>7. /\ last'.agent = "validation" /\ (Advances(last') => last'.engines >= 8750)
        /\ last'.cited # {} => ~Advances(last')
    BY <2>1, <2>6 DEF Result, Advances
  <2>8. AgentsAdvanceOnEvidence'
    BY <2>7 DEF AgentsAdvanceOnEvidence, EnginesMustAgree, SurvivingFlagsHold, CalculatedFromValid,
                CleanReportsAdvance, LiaisonOnFreshReport, OnboardingNeedsHuman
  <2> QED BY <1>0, <2>8 DEF AgentsInv, AgentTypes
<1> QED BY <1>3, <1>4

\* Rows of the two tables.
LEMMA AgentRows ==
    ASSUME AgentTypes
    PROVE  /\ Len(calcs) \in Nat /\ DOMAIN calcs = 1..Len(calcs)
           /\ \A i \in 1..Len(calcs) : calcs[i] \in CalcRow
           /\ Len(reports) \in Nat /\ DOMAIN reports = 1..Len(reports)
           /\ \A i \in 1..Len(reports) : reports[i] \in ReportRow
<1>1. calcs \in Seq(CalcRow) /\ reports \in Seq(ReportRow) BY DEF AgentTypes
<1> QED BY <1>1, ElementOfSeq, LenProperties

\* Calculation.  Without valid sources the engines stay below 0.875.
LEMMA CalculationHolds == ASSUME AgentsInv, CalculationAgent PROVE AgentsInv'
<1>1. PICK c \in Compliances, certainty \in {60, 100}, fnrb \in {1350, 1400, 1500}, born \in Births :
        /\ last = NoResult /\ Len(calcs) < MaxCalcs
        /\ calcs' = Append(calcs, [compliance |-> c, odd |-> "no", born |-> born])
        /\ \/ \E mark \in Marks \cup {NoModel} : last' = CalculationResult(certainty, c, fnrb, mark)
           \/ UNCHANGED last
        /\ UNCHANGED <<upload, sources, reports>>
  BY DEF CalculationAgent
<1>2. c \in Nat /\ c <= 100 /\ born \in Nat BY AgentsAssumption
<1>3. AgentTypes'
  <2>1. [compliance |-> c, odd |-> "no", born |-> born] \in CalcRow BY <1>2 DEF CalcRow
  <2>2. calcs' \in Seq(CalcRow) BY <1>1, <2>1, AppendProperties DEF AgentsInv, AgentTypes
  <2> QED BY <1>1, <2>2 DEF AgentsInv, AgentTypes
<1>4. CASE UNCHANGED last
  <2>1. last' = NoResult BY <1>1, <1>4
  <2> QED BY <1>3, <2>1, NothingAdvances DEF AgentsInv
<1>5. ASSUME NEW mark \in Marks \cup {NoModel}, last' = CalculationResult(certainty, c, fnrb, mark)
      PROVE  AgentsInv'
  <2> DEFINE engines == 30 * certainty + 30 * c + fnrb + Coverage
             bad == sources["valid"] = 0 \/ 8 * sources["valid"] < 5 * SourceCount
             cited == IF bad THEN {"unvalidated"} ELSE {}
  <2>0. last' = Graded("calculation", Blend(engines, mark), engines, cited) BY <1>5 DEF CalculationResult
  <2>1. /\ SourceCount \in Nat /\ sources["valid"] \in Nat /\ sources["valid"] <= SourceCount
    BY SourcesAre DEF AgentsInv, SourceCount
  <2>2. Coverage \in Nat /\ (Coverage >= 1250 => ~bad)
    <3>1. CASE SourceCount = 0 BY <3>1 DEF Coverage
    <3>2. CASE SourceCount # 0
      <4>1. PICK a \in Nat, n \in Nat : a = sources["valid"] /\ n = SourceCount BY <2>1
      <4>2. PICK q \in Nat : q = (2000 * a) \div n /\ q * n <= 2000 * a
        <5>1. 2000 * a \in Nat /\ n > 0 BY <3>2, <4>1
        <5> QED BY <5>1, QuotientIs
      <4>3. q >= 1250 => 1250 * n <= 2000 * a
        <5>1. q >= 1250 => 1250 * n <= q * n BY <4>1
        <5> QED BY <4>1, <4>2, <5>1
      <4>4. Coverage = q BY <3>2, <4>1, <4>2 DEF Coverage
      <4> QED BY <3>2, <4>1, <4>3, <4>4
    <3> QED BY <3>1, <3>2
  <2> HIDE DEF bad
  <2>3. engines \in Int /\ (engines >= 8750 => Coverage >= 1250) BY <1>1, <1>2, <2>2
  <2> HIDE DEF engines
  <2>4. Blend(engines, mark) \in Int /\ (Blend(engines, mark) >= 95000 => engines >= 8750)
    BY <2>3, MarksAre, BlendAgrees
  <2>5. /\ last'.agent = "calculation" /\ last'.engines = engines /\ last'.cited = cited
        /\ Advances(last') => engines >= 8750
    BY <2>0, <2>4 DEF Graded, Result, Advances
  <2>6. CalculatedFromValid' BY <2>2, <2>3, <2>5 DEF CalculatedFromValid
  <2>7. AgentsAdvanceOnEvidence'
    BY <2>5, <2>6 DEF AgentsAdvanceOnEvidence, EnginesMustAgree, SurvivingFlagsHold,
                      CleanReportsAdvance, LiaisonOnFreshReport, OnboardingNeedsHuman
  <2> QED BY <1>3, <2>7 DEF AgentsInv
<1> QED BY <1>1, <1>4, <1>5

\* Quality control.
LEMMA QualityHolds == ASSUME AgentsInv, QualityControlAgent PROVE AgentsInv'
<1> DEFINE doubtful == Cardinality({i \in 1..Len(calcs) : calcs[i].odd = "doubtful"})
           samples == 3 * Len(calcs) + 2 * SourceCount
<1>1. PICK bad \in 0..2, mark \in Marks \cup {NoModel} :
        LET passed   == Floored(samples - bad - doubtful, 0)
            engines  == 6000 + (4000 * passed) \div Floored(samples, 1)
        IN last' = Result("quality_control", "completed", Blend(engines, mark), engines, {})
  BY DEF QualityControlAgent
<1>2. doubtful \in Nat
  <2>1. IsFiniteSet(1..Len(calcs)) BY AgentRows, FS_Interval DEF AgentsInv
  <2>2. IsFiniteSet({i \in 1..Len(calcs) : calcs[i].odd = "doubtful"}) BY <2>1, FS_Subset
  <2> QED BY <2>2, FS_CardinalityType
<1>3. samples \in Nat BY SourcesAre, AgentRows DEF AgentsInv
<1> HIDE DEF doubtful, samples
<1>4. Floored(samples - bad - doubtful, 0) \in Nat
  <2>1. PICK x \in Int : x = samples - bad - doubtful BY <1>2, <1>3
  <2>2. Floored(x, 0) \in Nat BY FlooredIs
  <2> QED BY <2>1, <2>2
<1>5. PICK engines \in Int :
        last' = Result("quality_control", "completed", Blend(engines, mark), engines, {})
  <2>1. PICK p \in Nat : p = Floored(samples - bad - doubtful, 0) BY <1>4
  <2>2. PICK n \in Nat : n = Floored(samples, 1) /\ n > 0 BY <1>3, FlooredIs
  <2>3. 4000 * p \in Nat BY <2>1
  <2>4. (4000 * p) \div n \in Nat BY <2>2, <2>3, QuotientIs
  <2>5. 6000 + (4000 * p) \div n \in Int BY <2>4
  <2> QED BY <1>1, <2>1, <2>2, <2>5
<1>6. Blend(engines, mark) \in Int /\ (Blend(engines, mark) >= 95000 => engines >= 8750)
  BY MarksAre, BlendAgrees
<1>7. last'.agent = "quality_control" /\ (Advances(last') => last'.engines >= 8750)
  BY <1>5, <1>6 DEF Result, Advances
<1>8. AgentsAdvanceOnEvidence'
  BY <1>7 DEF AgentsAdvanceOnEvidence, EnginesMustAgree, SurvivingFlagsHold, CalculatedFromValid,
              CleanReportsAdvance, LiaisonOnFreshReport, OnboardingNeedsHuman
<1> QED BY <1>8 DEF AgentsInv, AgentTypes, QualityControlAgent

\* Reporting.  With an issue or a warning the engines stay below 0.875, if the compliance is
\* a percentage.
LEMMA ReportingHolds == ASSUME AgentsInv, ReportingAgent PROVE AgentsInv'
<1>1. PICK issues \in BOOLEAN, warned \in BOOLEAN, linked \in BOOLEAN, mark \in Marks \cup {NoModel} :
        /\ \/ calcs = <<>> /\ last' = NoData("reporting") /\ UNCHANGED reports
           \/ \E i \in Newest(calcs, DOMAIN calcs), born \in Births :
                 /\ last' = ReportResult(calcs[i].compliance, issues, warned, linked, mark)
                 /\ reports' = Append(reports, [status |-> "draft", passed |-> ~issues, born |-> born])
        /\ UNCHANGED <<upload, sources, calcs>>
  BY DEF ReportingAgent
<1>2. CASE last' = NoData("reporting") /\ UNCHANGED reports
  <2>1. AgentsAdvanceOnEvidence' BY <1>2, NothingAdvances
  <2> QED BY <1>1, <1>2, <2>1 DEF AgentsInv, AgentTypes
<1>3. ASSUME NEW i \in Newest(calcs, DOMAIN calcs), NEW born \in Births,
             last' = ReportResult(calcs[i].compliance, issues, warned, linked, mark),
             reports' = Append(reports, [status |-> "draft", passed |-> ~issues, born |-> born])
      PROVE  AgentsInv'
  <2>1. PICK c \in Int : c = calcs[i].compliance
    <3>1. i \in 1..Len(calcs) BY AgentRows DEF AgentsInv, Newest
    <3>2. calcs[i] \in CalcRow BY <3>1, AgentRows DEF AgentsInv
    <3> QED BY <3>2 DEF CalcRow
  <2>2. PICK gates \in 0..4 : /\ gates = GatesPassed(issues, warned, linked)
                              /\ issues => gates <= 2
                              /\ warned => gates <= 3
    BY DEF GatesPassed
  <2> DEFINE engines == (5500 * gates) \div 4 + 30 * c + IF warned THEN 1350 ELSE 1500
             cited == (IF issues THEN {"issues"} ELSE {}) \cup (IF warned THEN {"warnings"} ELSE {})
                      \cup (IF c < 59 THEN {"not_compliant"} ELSE {})
                      \cup (IF c > 100 THEN {"overrated"} ELSE {})
  <2>3. last' = Graded("reporting", Blend(engines, mark), engines, cited)
    BY <1>3, <2>1, <2>2 DEF ReportResult
  <2>4. reports' \in Seq(ReportRow)
    <3>1. [status |-> "draft", passed |-> ~issues, born |-> born] \in ReportRow
      BY AgentsAssumption DEF ReportRow
    <3> QED BY <1>3, <3>1, AppendProperties DEF AgentsInv, AgentTypes
  <2>5. PICK share \in Nat : /\ share = (5500 * gates) \div 4 /\ share <= 5500
                             /\ issues => share <= 2750
                             /\ warned => share <= 4125
    <3>1. gates \in {0, 1, 2, 3, 4} BY <2>2
    <3>2. (5500 * 0) \div 4 = 0 /\ (5500 * 1) \div 4 = 1375 /\ (5500 * 2) \div 4 = 2750
          /\ (5500 * 3) \div 4 = 4125 /\ (5500 * 4) \div 4 = 5500 OBVIOUS
    <3>3. (5500 * gates) \div 4 \in {0, 1375, 2750, 4125, 5500} BY <3>1, <3>2
    <3>a. (issues => gates \in {0, 1, 2}) /\ (warned => gates \in {0, 1, 2, 3}) BY <2>2, <3>1
    <3>4. issues => (5500 * gates) \div 4 \in {0, 1375, 2750} BY <3>2, <3>a
    <3>5. warned => (5500 * gates) \div 4 \in {0, 1375, 2750, 4125} BY <3>2, <3>a
    <3> QED BY <3>3, <3>4, <3>5
  <2>6. engines \in Int BY <2>5
  <2>7. engines >= 8750 => c >= 59 /\ (c <= 100 => ~issues /\ ~warned)
    <3>1. CASE issues BY <2>1, <2>5, <3>1
    <3>2. CASE warned BY <2>1, <2>5, <3>2
    <3>3. CASE ~issues /\ ~warned BY <2>1, <2>5, <3>3
    <3> QED BY <3>1, <3>2, <3>3
  <2>a. c >= 59 => "not_compliant" \notin cited OBVIOUS
  <2>b. c <= 100 /\ c >= 59 /\ ~issues /\ ~warned => cited = {} BY <2>1
  <2>c. ~(c <= 100) => "overrated" \in cited BY <2>1
  <2> HIDE DEF engines, cited
  <2>8. Blend(engines, mark) \in Int /\ (Blend(engines, mark) >= 95000 => engines >= 8750)
    BY <2>6, MarksAre, BlendAgrees
  <2>9. /\ last'.agent = "reporting" /\ last'.engines = engines /\ last'.cited = cited
        /\ Advances(last') => engines >= 8750
    BY <2>3, <2>8 DEF Graded, Result, Advances
  <2>10. CleanReportsAdvance'
    <3>1. SUFFICES ASSUME engines >= 8750
                   PROVE  "not_compliant" \notin cited /\ ("overrated" \notin cited => cited = {})
      BY <2>9 DEF CleanReportsAdvance
    <3> QED BY <2>7, <2>a, <2>b, <2>c, <3>1
  <2>11. AgentsAdvanceOnEvidence'
    BY <2>9, <2>10 DEF AgentsAdvanceOnEvidence, EnginesMustAgree, SurvivingFlagsHold,
                       CalculatedFromValid, LiaisonOnFreshReport, OnboardingNeedsHuman
  <2> QED BY <1>1, <2>4, <2>11 DEF AgentsInv, AgentTypes
<1> QED BY <1>1, <1>2, <1>3

\* The registry.
LEMMA LiaisonHolds == ASSUME AgentsInv, VVBLiaisonAgent PROVE AgentsInv'
<1>0. UNCHANGED <<upload, sources, calcs, reports>> BY DEF VVBLiaisonAgent
<1>1. PICK wait \in Waits : \/ last' = NoData("vvb_liaison")
                            \/ \E i \in Tracked : last' = LiaisonResult(reports[i], wait)
  BY DEF VVBLiaisonAgent
<1>2. CASE last' = NoData("vvb_liaison")
  <2>1. AgentsAdvanceOnEvidence' BY <1>2, NothingAdvances
  <2> QED BY <1>0, <2>1 DEF AgentsInv, AgentTypes
<1>3. ASSUME NEW i \in Tracked, last' = LiaisonResult(reports[i], wait) PROVE AgentsInv'
  <2>1. i \in 1..Len(reports) BY AgentRows DEF AgentsInv, Tracked, Newest
  <2>3. PICK r \in ReportRow : r = reports[i] BY <2>1, AgentRows DEF AgentsInv
  <2> DEFINE engines == 50 * Freshness(r.status, wait) + 3000 + 20 * IF r.passed THEN 100 ELSE 70
             late == r.status = "submitted" /\ wait # "wait"
             cited == (IF late THEN {"late"} ELSE {}) \cup (IF r.passed THEN {} ELSE {"failed_gates"})
             graded == Graded("vvb_liaison", 10 * engines, engines, cited)
  <2>4. last' \in {graded, [graded EXCEPT !.status = "queued_for_review"]}
    BY <1>3, <2>3 DEF LiaisonResult
  <2>5. Freshness(r.status, wait) \in {50, 70, 90, 100} /\ (late => Freshness(r.status, wait) \in {50, 70})
    BY <1>1 DEF Freshness, Waits
  <2>6. engines \in Int /\ (engines >= 9500 => ~late /\ r.passed) BY <2>5
  <2>7. ~late /\ r.passed => cited = {} OBVIOUS
  <2> HIDE DEF engines, late, cited
  <2>8. last'.agent = "vvb_liaison" /\ last'.cited = cited /\ last'.confidence = 10 * engines
    BY <2>4 DEF Graded, Result
  <2>9. Advances(last') => engines >= 9500 BY <2>6, <2>8 DEF Advances
  <2>10. AgentsAdvanceOnEvidence'
    BY <2>6, <2>7, <2>8, <2>9
       DEF AgentsAdvanceOnEvidence, EnginesMustAgree, Blended, SurvivingFlagsHold, CalculatedFromValid,
           CleanReportsAdvance, LiaisonOnFreshReport, OnboardingNeedsHuman
  <2> QED BY <1>0, <2>10 DEF AgentsInv, AgentTypes
<1> QED BY <1>1, <1>2, <1>3

\* The client.
LEMMA ClientHolds == ASSUME AgentsInv, ClientSuccessAgent PROVE AgentsInv'
<1>0. UNCHANGED <<upload, sources, calcs, reports>> BY DEF ClientSuccessAgent
<1>1. PICK owned \in BOOLEAN, idle \in {0, 2000, 3500}, tickets \in 0..2, talks \in 0..1, answers \in 0..2 :
        LET rate    == IF talks = 0 THEN 0 ELSE answers \div talks
            risk    == ChurnRisk(owned, idle, tickets) + 1000 * (1 - rate)
            engines == Capped(10000 - Floored(risk, 0), 10000)
            cited   == IF rate > 1 THEN {"answers_exceed_talks"} ELSE {}
        IN last' = Result("client_success", "completed", 10 * engines, engines, cited)
  BY DEF ClientSuccessAgent
<1>2. PICK rate \in Int : rate = IF talks = 0 THEN 0 ELSE answers \div talks
  <2>1. CASE talks = 0 BY <2>1
  <2>2. CASE talks = 1
    <3>1. answers \div talks \in Int BY <2>2
    <3> QED BY <2>2, <3>1
  <2> QED BY <1>1, <2>1, <2>2
<1>3. PICK risk \in Int : /\ risk = ChurnRisk(owned, idle, tickets) + 1000 * (1 - rate)
                          /\ rate <= 1 => risk >= 1000
  <2>1. PICK paid \in Int : paid = Capped(1000 * tickets, 2000) /\ paid >= 0
    <3>1. PICK t \in Nat : t = 1000 * tickets BY <1>1
    <3>2. t \in Int /\ t >= 0 BY <3>1
    <3>3. Capped(t, 2000) \in Int /\ (Capped(t, 2000) = t \/ Capped(t, 2000) = 2000) BY <3>2, CappedIs
    <3>4. Capped(t, 2000) >= 0 BY <3>2, <3>3
    <3> QED BY <3>1, <3>3, <3>4
  <2>2. PICK due \in Int : due = ChurnRisk(owned, idle, tickets) /\ due >= 1000
    <3>1. idle \in Int /\ idle >= 0 BY <1>1
    <3>2. ChurnRisk(owned, idle, tickets) = 1000 + (IF owned THEN 0 ELSE 2500) + idle + paid
      BY <2>1 DEF ChurnRisk
    <3> QED BY <2>1, <3>1, <3>2
  <2> QED BY <1>2, <2>2
<1>4. PICK m \in Int : m = Floored(risk, 0) /\ m >= risk BY FlooredIs
<1>5. PICK engines \in Int : engines = Capped(10000 - m, 10000) /\ engines <= 10000 - m
  <2>1. PICK x \in Int : x = 10000 - m BY <1>4
  <2>2. Capped(x, 10000) \in Int /\ Capped(x, 10000) <= x BY CappedIs
  <2> QED BY <2>1, <2>2
<1>6. last' = Result("client_success", "completed", 10 * engines, engines,
                     IF rate > 1 THEN {"answers_exceed_talks"} ELSE {})
  BY <1>1, <1>2, <1>3, <1>4, <1>5
<1>7. rate <= 1 => 10 * engines < 95000 BY <1>3, <1>4, <1>5
<1>8. /\ last'.agent = "client_success"
      /\ Advances(last') => "answers_exceed_talks" \in last'.cited
  BY <1>2, <1>6, <1>7 DEF Result, Advances
<1>9. AgentsAdvanceOnEvidence'
  BY <1>8 DEF AgentsAdvanceOnEvidence, EnginesMustAgree, Blended, SurvivingFlagsHold,
              CalculatedFromValid, CleanReportsAdvance, LiaisonOnFreshReport, OnboardingNeedsHuman
<1> QED BY <1>0, <1>9 DEF AgentsInv, AgentTypes

\* Whatever else happens to the project takes the result away.
LEMMA OthersHold ==
    ASSUME AgentsInv,
           \/ FileMoves \/ SourceArrives \/ SourceJudged \/ RecordCalculation \/ ReviseCalculation
           \/ ReportMoves \/ Routed \/ ReportingFails
    PROVE  AgentsInv'
<1>1. last' = NoResult \/ last' = Result("reporting", "failed", 0, 0, {})
  BY DEF FileMoves, SourceArrives, SourceJudged, RecordCalculation, ReviseCalculation, ReportMoves, Routed, ReportingFails
<1>2. ~Advances(last') BY <1>1 DEF NoResult, Result, Advances
<1>3. AgentsAdvanceOnEvidence'
  BY <1>2 DEF AgentsAdvanceOnEvidence, EnginesMustAgree, SurvivingFlagsHold, CalculatedFromValid,
              CleanReportsAdvance, LiaisonOnFreshReport, OnboardingNeedsHuman
<1>4. sources' \in [{"pending", "valid", "flagged"} -> Nat]
  <2>1. CASE UNCHANGED sources BY <2>1 DEF AgentsInv, AgentTypes
  <2>2. CASE SourceArrives BY <2>2 DEF AgentsInv, AgentTypes, SourceArrives
  <2>3. CASE SourceJudged
    <3>1. PICK was \in {"pending", "flagged"}, is \in {"valid", "flagged"} :
            /\ was # is /\ sources[was] > 0
            /\ sources' = [sources EXCEPT ![was] = @ - 1, ![is] = @ + 1]
      BY <2>3 DEF SourceJudged
    <3>2. sources[was] - 1 \in Nat /\ sources[is] + 1 \in Nat BY <3>1 DEF AgentsInv, AgentTypes
    <3> QED BY <3>1, <3>2 DEF AgentsInv, AgentTypes
  <2> QED BY <2>1, <2>2, <2>3 DEF FileMoves, RecordCalculation, ReviseCalculation, ReportMoves, Routed, ReportingFails
<1>5. calcs' \in Seq(CalcRow)
  <2>1. CASE UNCHANGED calcs BY <2>1 DEF AgentsInv, AgentTypes
  <2>2. CASE RecordCalculation
    <3>1. PICK f \in Figures, born \in Births :
            calcs' = Append(calcs, [compliance |-> f.compliance, odd |-> f.odd, born |-> born])
      BY <2>2 DEF RecordCalculation
    <3>2. f \in [compliance : Int, odd : {"no", "doubtful", "negative_leakage"}] /\ born \in Nat
      BY AgentsAssumption
    <3>3. [compliance |-> f.compliance, odd |-> f.odd, born |-> born] \in CalcRow BY <3>2 DEF CalcRow
    <3> QED BY <3>1, <3>3, AppendProperties DEF AgentsInv, AgentTypes
  <2>3. CASE ReviseCalculation
    <3>1. PICK i \in DOMAIN calcs, f \in Figures :
            calcs' = [calcs EXCEPT ![i].compliance = f.compliance, ![i].odd = f.odd]
      BY <2>3 DEF ReviseCalculation
    <3>2. f \in [compliance : Int, odd : {"no", "doubtful", "negative_leakage"}] BY AgentsAssumption
    <3>3. PICK row \in CalcRow : row = calcs[i] BY AgentRows DEF AgentsInv
    <3> DEFINE now == [row EXCEPT !.compliance = f.compliance, !.odd = f.odd]
    <3>4. now \in CalcRow BY <3>2 DEF CalcRow
    <3>5. calcs' = [calcs EXCEPT ![i] = now] BY <3>1, <3>3
    <3> HIDE DEF now
    <3> QED BY <3>4, <3>5, ExceptSeq DEF AgentsInv, AgentTypes
  <2> QED BY <2>1, <2>2, <2>3 DEF FileMoves, SourceArrives, SourceJudged, ReportMoves, Routed, ReportingFails
<1>6. reports' \in Seq(ReportRow)
  <2>1. CASE UNCHANGED reports BY <2>1 DEF AgentsInv, AgentTypes
  <2>2. CASE ReportMoves
    <3>1. PICK i \in 1..Len(reports), s \in {"approved", "submitted", "vvb_approved"} :
            reports' = [reports EXCEPT ![i].status = s]
      BY <2>2 DEF ReportMoves
    <3>2. PICK row \in ReportRow : row = reports[i] BY AgentRows DEF AgentsInv
    <3>3. [row EXCEPT !.status = s] \in ReportRow BY DEF ReportRow
    <3>4. reports' = [reports EXCEPT ![i] = [row EXCEPT !.status = s]] BY <3>1, <3>2
    <3> QED BY <3>3, <3>4, AgentRows, ExceptSeq DEF AgentsInv, AgentTypes
  <2> QED BY <2>1, <2>2 DEF FileMoves, SourceArrives, SourceJudged, RecordCalculation, ReviseCalculation, Routed, ReportingFails
<1> QED BY <1>3, <1>4, <1>5, <1>6 DEF AgentsInv, AgentTypes

\* Nothing has been recorded at first.
LEMMA AgentsStart == AgentsInit => AgentsInv
<1> SUFFICES ASSUME AgentsInit PROVE AgentsInv OBVIOUS
<1>1. AgentTypes BY DEF AgentsInit, AgentTypes
<1>2. ~Advances(last) BY DEF AgentsInit, NoResult, Advances
<1>3. AgentsAdvanceOnEvidence
  BY <1>2 DEF AgentsAdvanceOnEvidence, EnginesMustAgree, SurvivingFlagsHold, CalculatedFromValid,
              CleanReportsAdvance, LiaisonOnFreshReport, OnboardingNeedsHuman
<1> QED BY <1>1, <1>3 DEF AgentsInv

\* Every step keeps the invariant.
LEMMA AgentsStep == AgentsInv /\ [AgentsNext]_agentsVars => AgentsInv'
<1> SUFFICES ASSUME AgentsInv, [AgentsNext]_agentsVars PROVE AgentsInv' OBVIOUS
<1>1. CASE AgentsNext
  BY <1>1, IngestionHolds, ValidationHolds, CalculationHolds, QualityHolds, ReportingHolds,
     LiaisonHolds, ClientHolds, OthersHold DEF AgentsNext
<1>2. CASE UNCHANGED agentsVars
  <2>1. UNCHANGED <<upload, sources, calcs, reports, last>> BY <1>2 DEF agentsVars
  <2>3. AgentsAdvanceOnEvidence'
    BY <2>1 DEF AgentsInv, AgentsAdvanceOnEvidence, EnginesMustAgree, SurvivingFlagsHold,
        CalculatedFromValid, CleanReportsAdvance, LiaisonOnFreshReport, OnboardingNeedsHuman, Advances
  <2> QED BY <2>1, <2>3 DEF AgentsInv, AgentTypes
<1> QED BY <1>1, <1>2

\* Whatever the sources, the calculations, the reports and the replies of the model, no agent
\* moves a project on without the evidence its transition presupposes: the engines of a
\* blended score, no red flag that survived, valid sources, clean reports, a fresh report at
\* the registry, and a person for the client (agents/).
THEOREM AgentsAreGrounded == AgentsSpec => []AgentsAdvanceOnEvidence
<1>1. AgentsInv => AgentsAdvanceOnEvidence BY DEF AgentsInv
<1> QED BY <1>1, AgentsStart, AgentsStep, PTL DEF AgentsSpec

-----------------------------------------------------------------------------
(* Portal.  A document that asked for a run is still on its way to one, or read by one;   *)
(* the run under way, if no other was beside it, knows what the application says is       *)
(* missing and whether an item is open.                                                   *)

AppStatus == {"intake", "documents_pending", "approved", "gaps", "pre_audit"}
OpenApplication == [status : AppStatus, missing : BOOLEAN, ran : BOOLEAN]
ApplicationRow == OpenApplication \cup {Gone}
VisitPlace == {"none", "store", "trigger", "publish", "end"}
VisitRecord == [at : VisitPlace, ran : BOOLEAN, status : AppStatus \cup {"none"}, run : Pipelines \cup {"none"}]
PipePlace == {"none", "pending", "queued", "collect", "classify", "ask", "commit", "notify", "done", "failed"}
PipeRecord == [at : PipePlace, tries : Nat, read : SUBSET Documents, status : AppStatus \cup {"none"},
               missing : BOOLEAN, open : BOOLEAN, found : SUBSET Documents]
Kinds == {"none", "fetched", "pdd", "other"}

PortalTypes ==
    /\ application \in ApplicationRow
    /\ documents \in [Documents -> Kinds]
    /\ applicant \in [Requests -> VisitRecord]
    /\ pipeline \in [Pipelines -> PipeRecord]
    /\ handOffs \in [pending : Nat, handled : Nat]
    /\ portalFaults \in Nat
    /\ portalFaults = 0 => application # Gone

\* An upload is stored once, and who publishes a run is the only one who has it.
Publishes(r) == applicant[r].at = "publish"
VisitsFit ==
    /\ \A d \in Documents : applicant[d].at \in {"none", "store"} => documents[d] = "none"
    /\ \A r \in Requests : Publishes(r) =>
           applicant[r].run \in Pipelines /\ pipeline[applicant[r].run].at = "pending"
    /\ \A r, s \in Requests : Publishes(r) /\ Publishes(s) /\ applicant[r].run = applicant[s].run => r = s

\* Run p will read document d, or has read it and not committed, or has failed.
Serves(p, d) ==
    \/ pipeline[p].at \in {"queued", "collect", "classify", "failed"}
    \/ pipeline[p].at \in {"ask", "commit"} /\ d \in pipeline[p].read

UploadsAreServed ==
    \A d \in Documents :
        portalFaults = 0 /\ documents[d] = "fetched" /\ applicant[d].ran =>
            applicant[d].at \in {"trigger", "publish"} \/ \E p \in Pipelines : Serves(p, d)

\* Without overlap one run is under way; what it has read of the application still holds.
RunsAlone ==
    ~overlapped => \A p, q \in Active : p = q

OpenIsKnown ==
    ~overlapped => /\ handOffs.pending <= 1
                   /\ \A p \in Pipelines : pipeline[p].at = "commit" /\ handOffs.pending > 0 => pipeline[p].open

MissingIsKnown ==
    ~overlapped /\ portalFaults = 0 =>
        /\ \A p \in Pipelines : pipeline[p].at = "commit" => pipeline[p].missing = application.missing
        /\ \A p \in Pipelines : pipeline[p].at = "notify" => (pipeline[p].found = {}) = application.missing
        /\ (\A p \in Pipelines : pipeline[p].at # "notify") => Informed

PortalInv == PortalTypes /\ VisitsFit /\ UploadsAreServed /\ RunsAlone /\ OpenIsKnown /\ MissingIsKnown

LEMMA PortalRecords ==
    /\ Gone \in ApplicationRow /\ NoVisit \in VisitRecord /\ NoPipeline \in PipeRecord
    /\ NoVisit.at = "none" /\ NoVisit.ran = FALSE /\ NoPipeline.at = "none"
BY DEF NoVisit, NoPipeline, ApplicationRow, VisitRecord, PipeRecord, AppStatus, VisitPlace, PipePlace

\* Documents and operators ask for a run.
LEMMA RequestKindsOfPortal == Documents \subseteq Requests /\ "operator" \in Requests
BY DEF Requests

\* Records one column of which changes.
LEMMA VisitColumns ==
    ASSUME NEW v \in VisitRecord, NEW place \in VisitPlace, NEW theRun \in Pipelines
    PROVE  /\ [v EXCEPT !.at = place] \in VisitRecord
           /\ [v EXCEPT !.at = place].at = place /\ [v EXCEPT !.at = place].ran = v.ran
           /\ [v EXCEPT !.at = place].run = v.run
           /\ [v EXCEPT !.at = place, !.run = theRun] \in VisitRecord
           /\ [v EXCEPT !.at = place, !.run = theRun].at = place
           /\ [v EXCEPT !.at = place, !.run = theRun].ran = v.ran
           /\ [v EXCEPT !.at = place, !.run = theRun].run = theRun
           /\ [NoVisit EXCEPT !.at = place, !.ran = v.ran] \in VisitRecord
           /\ [NoVisit EXCEPT !.at = place, !.ran = v.ran].at = place
           /\ [NoVisit EXCEPT !.at = place, !.ran = v.ran].ran = v.ran
           /\ [NoVisit EXCEPT !.at = place, !.status = v.status] \in VisitRecord
           /\ [NoVisit EXCEPT !.at = place, !.status = v.status].at = place
BY DEF VisitRecord, NoVisit, VisitPlace, AppStatus

LEMMA PipeColumns ==
    ASSUME NEW v \in PipeRecord, NEW place \in PipePlace
    PROVE  /\ [v EXCEPT !.at = place] \in PipeRecord
           /\ [v EXCEPT !.at = place].at = place /\ [v EXCEPT !.at = place].read = v.read
           /\ [v EXCEPT !.at = place].found = v.found
           /\ [NoPipeline EXCEPT !.at = place] \in PipeRecord
           /\ [NoPipeline EXCEPT !.at = place].at = place
BY DEF PipeRecord, NoPipeline, PipePlace, AppStatus

LEMMA ApplicationColumns ==
    ASSUME NEW a \in OpenApplication, NEW s \in AppStatus, NEW gaps \in BOOLEAN
    PROVE  /\ [a EXCEPT !.status = s] \in ApplicationRow /\ [a EXCEPT !.status = s] # Gone
           /\ [a EXCEPT !.status = s].missing = a.missing
           /\ [a EXCEPT !.ran = TRUE, !.status = s] \in ApplicationRow /\ [a EXCEPT !.ran = TRUE, !.status = s] # Gone
           /\ [a EXCEPT !.ran = TRUE, !.status = s].missing = a.missing
           /\ [a EXCEPT !.missing = gaps, !.status = s] \in ApplicationRow
           /\ [a EXCEPT !.missing = gaps, !.status = s] # Gone
           /\ [a EXCEPT !.missing = gaps, !.status = s].missing = gaps
BY DEF OpenApplication, ApplicationRow, Gone, AppStatus

AtWork == {"collect", "classify", "ask", "commit", "notify"}

\* The run p is written; what it has read goes with it.
LEMMA PipeWritten ==
    ASSUME PortalInv, NEW p \in Pipelines, NEW v \in PipeRecord, Pipe(p, v), UNCHANGED applicant,
           pipeline[p].at # "pending",
           application' \in ApplicationRow, portalFaults' \in Nat,
           portalFaults' = 0 => portalFaults = 0 /\ application' # Gone,
           documents' \in [Documents -> Kinds],
           \A d \in Documents : /\ documents[d] = "none" => documents'[d] = "none"
                                /\ documents'[d] = "fetched" => documents[d] = "fetched",
           portalFaults' = 0 => \A d \in Documents : documents'[d] = "fetched" /\ Serves(p, d) =>
               \/ v.at \in {"queued", "collect", "classify", "failed"}
               \/ v.at \in {"ask", "commit"} /\ d \in v.read,
           handOffs' \in [pending : Nat, handled : Nat],
           ~overlapped' => ~overlapped,
           ~overlapped' /\ v.at \in AtWork => Active \subseteq {p},
           ~overlapped' => /\ handOffs'.pending <= 1
                           /\ v.at = "commit" /\ handOffs'.pending > 0 => v.open
                           /\ handOffs'.pending <= handOffs.pending \/ Active \subseteq {p},
           ~overlapped' /\ portalFaults' = 0 =>
               /\ v.at = "commit" => v.missing = application'.missing
               /\ v.at = "notify" => (v.found = {}) = application'.missing
               /\ application'.missing = application.missing \/ Active \subseteq {p}
               /\ v.at # "notify" /\ (\A q \in Pipelines \ {p} : pipeline[q].at # "notify") =>
                      Informed'
    PROVE  PortalInv'
<1>1. PortalTypes BY DEF PortalInv
<1>2. /\ pipeline' \in [Pipelines -> PipeRecord] /\ pipeline'[p] = v
      /\ \A q \in Pipelines \ {p} : pipeline'[q] = pipeline[q]
  BY <1>1 DEF PortalTypes, Pipe
<1>3. PortalTypes' BY <1>1, <1>2 DEF PortalTypes
<1>4. VisitsFit'
  <2>1. \A r \in Requests : Publishes(r) => applicant[r].run # p BY DEF PortalInv, VisitsFit
  <2> QED BY <1>2, <2>1 DEF PortalInv, VisitsFit, Publishes
<1>5. UploadsAreServed'
  <2> SUFFICES ASSUME NEW d \in Documents, portalFaults' = 0, documents'[d] = "fetched", applicant'[d].ran
               PROVE  applicant'[d].at \in {"trigger", "publish"} \/ \E q \in Pipelines : Serves(q, d)'
    BY DEF UploadsAreServed
  <2>1. applicant[d].at \in {"trigger", "publish"} \/ \E q \in Pipelines : Serves(q, d)
    BY DEF PortalInv, UploadsAreServed
  <2>2. CASE applicant[d].at \in {"trigger", "publish"} BY <2>2
  <2>3. ASSUME NEW q \in Pipelines, Serves(q, d) PROVE Serves(q, d)'
    <3>1. CASE q = p BY <1>2, <2>3, <3>1 DEF Serves
    <3>2. CASE q # p BY <1>2, <2>3, <3>2 DEF Serves
    <3> QED BY <3>1, <3>2
  <2> QED BY <2>1, <2>2, <2>3
<1>6. \A q \in Pipelines \ {p} : pipeline'[q].at \in AtWork <=> q \in Active BY <1>2 DEF AtWork, Active
<1>7. RunsAlone'
  <2> SUFFICES ASSUME ~overlapped', NEW q \in Active', NEW s \in Active' PROVE q = s BY DEF RunsAlone
  <2>1. q \in Pipelines /\ s \in Pipelines /\ pipeline'[q].at \in AtWork /\ pipeline'[s].at \in AtWork
    BY DEF Active, AtWork
  <2>2. CASE v.at \in AtWork BY <1>6, <2>1, <2>2
  <2>3. CASE v.at \notin AtWork
    <3>1. q # p /\ s # p BY <1>2, <2>1, <2>3
    <3>2. q \in Active /\ s \in Active BY <1>6, <2>1, <3>1
    <3> QED BY <3>2 DEF PortalInv, RunsAlone
  <2> QED BY <2>2, <2>3
<1>8. OpenIsKnown'
  <2> SUFFICES ASSUME ~overlapped', NEW q \in Pipelines, pipeline'[q].at = "commit", handOffs'.pending > 0
               PROVE  pipeline'[q].open
    BY DEF OpenIsKnown
  <2>1. CASE q = p BY <1>2, <2>1
  <2>2. CASE q # p
    <3>1. q \in Active BY <1>6, <2>2 DEF AtWork
    <3>2. handOffs.pending > 0 BY <1>1, <2>2, <3>1 DEF PortalTypes
    <3> QED BY <1>2, <2>2, <3>2 DEF PortalInv, OpenIsKnown
  <2> QED BY <2>1, <2>2
<1>9. MissingIsKnown'
  <2> SUFFICES ASSUME ~overlapped', portalFaults' = 0
               PROVE  /\ \A q \in Pipelines : pipeline'[q].at = "commit" => pipeline'[q].missing = application'.missing
                      /\ \A q \in Pipelines : pipeline'[q].at = "notify" => (pipeline'[q].found = {}) = application'.missing
                      /\ (\A q \in Pipelines : pipeline'[q].at # "notify") => Informed'
    BY DEF MissingIsKnown
  <2>1. ASSUME NEW q \in Pipelines, q # p, pipeline'[q].at \in {"commit", "notify"}
        PROVE  pipeline'[q] = pipeline[q] /\ application'.missing = application.missing
    <3>1. q \in Active BY <1>6, <2>1 DEF AtWork
    <3> QED BY <1>2, <2>1, <3>1
  <2>2. \A q \in Pipelines : pipeline'[q].at = "commit" => pipeline'[q].missing = application'.missing
    <3> SUFFICES ASSUME NEW q \in Pipelines, pipeline'[q].at = "commit" PROVE pipeline'[q].missing = application'.missing
      OBVIOUS
    <3>1. CASE q = p BY <1>2, <3>1
    <3>2. CASE q # p BY <2>1, <3>2 DEF PortalInv, MissingIsKnown
    <3> QED BY <3>1, <3>2
  <2>3. \A q \in Pipelines : pipeline'[q].at = "notify" => (pipeline'[q].found = {}) = application'.missing
    <3> SUFFICES ASSUME NEW q \in Pipelines, pipeline'[q].at = "notify"
                 PROVE  (pipeline'[q].found = {}) = application'.missing
      OBVIOUS
    <3>1. CASE q = p BY <1>2, <3>1
    <3>2. CASE q # p BY <2>1, <3>2 DEF PortalInv, MissingIsKnown
    <3> QED BY <3>1, <3>2
  <2>4. (\A q \in Pipelines : pipeline'[q].at # "notify") => Informed' BY <1>2
  <2> QED BY <2>2, <2>3, <2>4
<1> QED BY <1>3, <1>4, <1>5, <1>7, <1>8, <1>9 DEF PortalInv

\* A request that is over keeps whether its application had a run.
LEMMA VisitOver ==
    ASSUME NEW a \in VisitRecord
    PROVE  /\ [NoVisit EXCEPT !.at = "end", !.ran = a.ran] \in VisitRecord
           /\ [NoVisit EXCEPT !.at = "end", !.ran = a.ran].at = "end"
           /\ [NoVisit EXCEPT !.at = "end", !.ran = a.ran].ran = a.ran
BY DEF VisitRecord, VisitPlace, NoVisit, AppStatus

\* The request r is written; a run changes only on its way to the workers.
LEMMA VisitWritten ==
    ASSUME PortalInv, NEW r \in Requests, NEW v \in VisitRecord, Visit(r, v),
           pipeline' \in [Pipelines -> PipeRecord],
           \A q \in Pipelines : \/ pipeline'[q] = pipeline[q]
                                \/ pipeline[q].at \in {"none", "pending"} /\ pipeline'[q].at \in {"pending", "queued"},
           application' \in ApplicationRow, portalFaults' \in Nat,
           portalFaults' = 0 => portalFaults = 0 /\ application' # Gone,
           application'.missing = application.missing,
           documents' \in [Documents -> Kinds],
           \A d \in Documents : d # r => documents'[d] = documents[d],
           r \in Documents /\ v.at \in {"none", "store"} => documents'[r] = "none",
           v.at = "publish" => /\ v.run \in Pipelines /\ pipeline'[v.run].at = "pending"
                               /\ pipeline[v.run].at # "pending",
           \A s \in Requests \ {r} : Publishes(s) => pipeline'[applicant[s].run].at = "pending",
           r \in Documents /\ portalFaults' = 0 /\ documents'[r] = "fetched" /\ v.ran =>
               v.at \in {"trigger", "publish"} \/ \E q \in Pipelines : Serves(q, r)',
           UNCHANGED <<handOffs, told, unsent, overlapped>>
    PROVE  PortalInv'
<1>1. PortalTypes BY DEF PortalInv
<1>2. /\ applicant' \in [Requests -> VisitRecord] /\ applicant'[r] = v
      /\ \A s \in Requests \ {r} : applicant'[s] = applicant[s]
  BY <1>1 DEF PortalTypes, Visit
<1>3. PortalTypes' BY <1>1, <1>2 DEF PortalTypes
<1>4. VisitsFit'
  <2>1. \A d \in Documents : applicant'[d].at \in {"none", "store"} => documents'[d] = "none"
    BY <1>2, RequestKindsOfPortal DEF PortalInv, VisitsFit
  <2>2. ASSUME NEW s \in Requests, Publishes(s)'
        PROVE  applicant'[s].run \in Pipelines /\ pipeline'[applicant'[s].run].at = "pending"
    <3>1. CASE s = r BY <1>2, <2>2, <3>1 DEF Publishes
    <3>2. CASE s # r BY <1>2, <2>2, <3>2 DEF Publishes, PortalInv, VisitsFit
    <3> QED BY <3>1, <3>2
  <2>3. ASSUME NEW s \in Requests, NEW t \in Requests, Publishes(s)', Publishes(t)', applicant'[s].run = applicant'[t].run
        PROVE  s = t
    <3>1. \A u \in Requests \ {r} : Publishes(u)' => Publishes(u) /\ pipeline[applicant[u].run].at = "pending"
      BY <1>2 DEF Publishes, PortalInv, VisitsFit
    <3>2. \A u \in Requests \ {r} : Publishes(r)' /\ Publishes(u)' => applicant'[u].run # applicant'[r].run
      BY <1>2, <3>1 DEF Publishes
    <3>3. CASE s # r /\ t # r BY <1>2, <2>3, <3>1, <3>3 DEF PortalInv, VisitsFit
    <3> QED BY <2>3, <3>2, <3>3
  <2> QED BY <2>1, <2>2, <2>3 DEF VisitsFit
<1>5. UploadsAreServed'
  <2> SUFFICES ASSUME NEW d \in Documents, portalFaults' = 0, documents'[d] = "fetched", applicant'[d].ran
               PROVE  applicant'[d].at \in {"trigger", "publish"} \/ \E q \in Pipelines : Serves(q, d)'
    BY DEF UploadsAreServed
  <2>1. CASE d = r BY <1>2, <2>1
  <2>2. CASE d # r
    <3>1. applicant[d].at \in {"trigger", "publish"} \/ \E q \in Pipelines : Serves(q, d)
      BY <1>2, <2>2, RequestKindsOfPortal DEF PortalInv, UploadsAreServed
    <3>2. \A q \in Pipelines : Serves(q, d) => Serves(q, d)' BY DEF Serves
    <3> QED BY <1>2, <2>2, <3>1, <3>2, RequestKindsOfPortal
  <2> QED BY <2>1, <2>2
<1>6. \A q \in Pipelines : \/ pipeline'[q] = pipeline[q]
                           \/ pipeline'[q].at \notin AtWork /\ pipeline[q].at \notin AtWork
  <2>1. \A q \in Pipelines : pipeline[q].at \in {"none", "pending"} => pipeline[q].at \notin AtWork BY DEF AtWork
  <2>2. \A q \in Pipelines : pipeline'[q].at \in {"pending", "queued"} => pipeline'[q].at \notin AtWork
    BY DEF AtWork
  <2> SUFFICES ASSUME NEW q \in Pipelines
               PROVE  \/ pipeline'[q] = pipeline[q]
                      \/ pipeline'[q].at \notin AtWork /\ pipeline[q].at \notin AtWork
    OBVIOUS
  <2>3. CASE pipeline'[q] = pipeline[q] BY <2>3
  <2>4. CASE pipeline[q].at \in {"none", "pending"} /\ pipeline'[q].at \in {"pending", "queued"}
    BY <2>1, <2>2, <2>4
  <2> QED BY <2>3, <2>4
<1>7. \A q \in Pipelines : q \in Active' => q \in Active /\ pipeline'[q] = pipeline[q] BY <1>6 DEF Active, AtWork
<1>8. RunsAlone'
  <2>1. Active' \subseteq Active BY <1>7 DEF Active
  <2> QED BY <2>1 DEF PortalInv, RunsAlone
<1>9. \A q \in Pipelines : pipeline'[q].at \in {"commit", "notify"} => pipeline'[q] = pipeline[q] BY <1>6 DEF AtWork
<1>10. \A q \in Pipelines : pipeline[q].at \in {"commit", "notify"} => pipeline'[q] = pipeline[q] BY <1>6 DEF AtWork
<1>11. OpenIsKnown' BY <1>9 DEF PortalInv, OpenIsKnown
<1>12. MissingIsKnown'
  <2> SUFFICES ASSUME ~overlapped', portalFaults' = 0
               PROVE  /\ \A q \in Pipelines : pipeline'[q].at = "commit" => pipeline'[q].missing = application'.missing
                      /\ \A q \in Pipelines : pipeline'[q].at = "notify" => (pipeline'[q].found = {}) = application'.missing
                      /\ (\A q \in Pipelines : pipeline'[q].at # "notify") => Informed'
    BY DEF MissingIsKnown
  <2>1. ~overlapped /\ portalFaults = 0 OBVIOUS
  <2>2. \A q \in Pipelines : pipeline'[q].at = "commit" => pipeline'[q].missing = application'.missing
    BY <1>9, <2>1 DEF PortalInv, MissingIsKnown
  <2>3. \A q \in Pipelines : pipeline'[q].at = "notify" => (pipeline'[q].found = {}) = application'.missing
    <3> SUFFICES ASSUME NEW q \in Pipelines, pipeline'[q].at = "notify"
                 PROVE  (pipeline'[q].found = {}) = application'.missing
      OBVIOUS
    <3>1. pipeline'[q] = pipeline[q] BY <1>9
    <3> QED BY <2>1, <3>1 DEF PortalInv, MissingIsKnown
  <2>4. ASSUME \A q \in Pipelines : pipeline'[q].at # "notify" PROVE Informed'
    <3>1. \A q \in Pipelines : pipeline[q].at # "notify" BY <1>10, <2>4
    <3>2. Informed BY <2>1, <3>1 DEF PortalInv, MissingIsKnown
    <3> QED BY <2>1, <3>2 DEF Informed
  <2> QED BY <2>2, <2>3, <2>4
<1> QED BY <1>3, <1>4, <1>5, <1>8, <1>11, <1>12 DEF PortalInv

LEMMA PortalStarts == PortalInit => PortalInv
<1> SUFFICES ASSUME PortalInit PROVE PortalInv OBVIOUS
<1>1. /\ application = [status |-> "intake", missing |-> FALSE, ran |-> FALSE]
      /\ \A d \in Documents : documents[d] = "none"
      /\ \A r \in Requests : applicant[r] = NoVisit /\ applicant[r].at = "none"
      /\ \A p \in Pipelines : pipeline[p] = NoPipeline /\ pipeline[p].at = "none"
      /\ told = FALSE /\ handOffs = [pending |-> 0, handled |-> 0] /\ portalFaults = 0
  BY PortalRecords DEF PortalInit
<1>2. PortalTypes
  BY <1>1, PortalRecords DEF PortalInit, PortalTypes, OpenApplication, ApplicationRow, AppStatus, Kinds, Gone
<1>3. VisitsFit BY <1>1 DEF VisitsFit, Publishes
<1>4. UploadsAreServed BY <1>1 DEF UploadsAreServed
<1>5. Active = {} BY <1>1 DEF Active
<1>6. RunsAlone BY <1>5 DEF RunsAlone
<1>7. handOffs.pending = 0 /\ Informed BY <1>1 DEF Informed
<1>8. \A p \in Pipelines : pipeline[p].at # "commit" /\ pipeline[p].at # "notify" BY <1>1
<1>9. OpenIsKnown BY <1>7, <1>8 DEF OpenIsKnown
<1>10. MissingIsKnown BY <1>7, <1>8 DEF MissingIsKnown
<1> QED BY <1>2, <1>3, <1>4, <1>6, <1>9, <1>10 DEF PortalInv

LEMMA UploadKept == ASSUME PortalInv, NEW d \in Documents, Upload(d) PROVE PortalInv'
<1>1. d \in Requests /\ PortalTypes BY RequestKindsOfPortal DEF PortalInv
<1>2. PICK v : v = [NoVisit EXCEPT !.at = "store", !.ran = application.ran, !.status = application.status] OBVIOUS
<1>3. v \in VisitRecord /\ v.at = "store"
  BY <1>1, <1>2 DEF Upload, NoVisit, VisitRecord, VisitPlace, PortalTypes, ApplicationRow, OpenApplication
<1>4. documents[d] = "none" BY DEF Upload, PortalInv, VisitsFit
<1>5. Visit(d, v) BY <1>2 DEF Upload
<1> QED BY <1>1, <1>3, <1>4, <1>5, VisitWritten DEF Upload, PortalInv, VisitsFit, PortalTypes

LEMMA RefuseUploadKept == ASSUME PortalInv, NEW d \in Documents, RefuseUpload(d) PROVE PortalInv'
<1>1. d \in Requests /\ PortalTypes BY RequestKindsOfPortal DEF PortalInv
<1>2. documents[d] = "none" BY DEF RefuseUpload, PortalInv, VisitsFit
<1>3. NoVisit \in VisitRecord /\ NoVisit.at = "none" BY PortalRecords
<1> QED BY <1>1, <1>2, <1>3, VisitWritten DEF RefuseUpload, PortalInv, VisitsFit, PortalTypes

LEMMA StoreDocumentKept == ASSUME PortalInv, NEW d \in Documents, StoreDocument(d) PROVE PortalInv'
<1>1. d \in Requests /\ PortalTypes BY RequestKindsOfPortal DEF PortalInv
<1>2. PICK a \in VisitRecord : a = applicant[d] BY <1>1 DEF PortalTypes
<1>3. PICK v \in VisitRecord : Visit(d, v) /\ v.at \in {"trigger", "end"} /\ (v.ran => v.at = "trigger")
  <2>1. [a EXCEPT !.at = "trigger"] \in VisitRecord /\ [a EXCEPT !.at = "trigger"].at = "trigger"
    BY DEF VisitRecord, VisitPlace
  <2>3. CASE a.ran BY <1>2, <2>1, <2>3 DEF StoreDocument, Retriggers
  <2>4. CASE ~a.ran BY <1>2, <2>4, VisitOver DEF StoreDocument, Retriggers, VisitEnds
  <2> QED BY <2>3, <2>4
<1>4. /\ documents' \in [Documents -> Kinds] /\ \A e \in Documents : e # d => documents'[e] = documents[e]
      /\ documents'[d] = "fetched"
  BY <1>1 DEF StoreDocument, PortalTypes, Kinds
<1>5. UNCHANGED <<application, pipeline, handOffs, told, unsent, overlapped, portalFaults>> BY DEF StoreDocument
<1> QED BY <1>1, <1>3, <1>4, <1>5, VisitWritten DEF PortalInv, VisitsFit, PortalTypes

LEMMA TriggerPipelineKept == ASSUME PortalInv, TriggerPipeline PROVE PortalInv'
<1>1. "operator" \in Requests /\ PortalTypes BY RequestKindsOfPortal DEF PortalInv
<1>2. PICK v : v = [NoVisit EXCEPT !.at = "trigger", !.status = application.status] OBVIOUS
<1>3. v \in VisitRecord /\ v.at = "trigger"
  BY <1>1, <1>2 DEF TriggerPipeline, NoVisit, VisitRecord, VisitPlace, PortalTypes, ApplicationRow, OpenApplication
<1>4. Visit("operator", v) BY <1>2 DEF TriggerPipeline
<1>5. UNCHANGED <<application, documents, pipeline, handOffs, told, unsent, overlapped, portalFaults>> BY DEF TriggerPipeline
<1> QED BY <1>1, <1>3, <1>4, <1>5, VisitWritten, PortalAssumption DEF PortalInv, VisitsFit, PortalTypes

LEMMA FreshIsFree == ASSUME FreePipelines # {} PROVE FreshRun \in FreePipelines
BY DEF FreshRun

LEMMA QueueRunKept == ASSUME PortalInv, NEW r \in Requests, QueueRun(r) PROVE PortalInv'
<1>1. PortalTypes BY DEF PortalInv
<1>2. PICK a \in VisitRecord : a = applicant[r] BY <1>1 DEF PortalTypes
<1>3. UNCHANGED <<documents, handOffs, told, unsent, overlapped, portalFaults>> /\ a.at = "trigger"
  BY <1>2 DEF QueueRun
<1>4. r \in Documents => a.at \notin {"none", "store"} BY <1>3
<1>5. CASE application = Gone
  <2>1. PICK v \in VisitRecord : Visit(r, v) /\ v.at = "end"
    BY <1>2, <1>5, VisitOver DEF QueueRun, VisitEnds
  <2>2. UNCHANGED <<application, pipeline>> /\ portalFaults # 0 BY <1>1, <1>5 DEF QueueRun, PortalTypes
  <2> QED BY <1>1, <1>3, <2>1, <2>2, VisitWritten DEF PortalInv, VisitsFit, PortalTypes
<1>6. CASE application # Gone
  <2>1. PICK theRun \in Pipelines : theRun = FreshRun /\ pipeline[theRun] = NoPipeline
    BY FreshIsFree DEF QueueRun, FreePipelines
  <2>2. PICK v \in VisitRecord : Visit(r, v) /\ v.at = "publish" /\ v.run = theRun /\ v.ran = a.ran
    <3>1. "publish" \in VisitPlace BY DEF VisitPlace
    <3>2. PICK e : e = [a EXCEPT !.at = "publish", !.run = theRun] OBVIOUS
    <3>3. Visit(r, e) BY <1>2, <1>6, <2>1, <3>2 DEF QueueRun
    <3>4. e \in VisitRecord /\ e.at = "publish" /\ e.run = theRun /\ e.ran = a.ran
      BY <3>1, <3>2 DEF VisitRecord
    <3> QED BY <3>3, <3>4
  <2>3. PICK w \in PipeRecord : Pipe(theRun, w) /\ w.at = "pending"
    <3>1. "pending" \in PipePlace BY DEF PipePlace
    <3> QED BY <1>6, <2>1, <3>1, PipeColumns, PortalRecords DEF QueueRun, PipeAt
  <2>4. /\ pipeline' \in [Pipelines -> PipeRecord] /\ pipeline'[theRun] = w
        /\ \A q \in Pipelines \ {theRun} : pipeline'[q] = pipeline[q]
    BY <1>1, <2>3 DEF PortalTypes, Pipe
  <2>5. PICK row \in OpenApplication : row = application BY <1>1, <1>6 DEF PortalTypes, ApplicationRow
  <2>6. application' \in ApplicationRow /\ application' # Gone /\ application'.missing = application.missing
    <3>1. row.status \in AppStatus /\ "documents_pending" \in AppStatus BY DEF OpenApplication, AppStatus
    <3>2. PICK s \in AppStatus : application' = [row EXCEPT !.ran = TRUE, !.status = s]
      BY <1>6, <2>5, <3>1 DEF QueueRun, Saved
    <3> QED BY <2>5, <3>2, ApplicationColumns
  <2>7. pipeline[theRun].at = "none" BY <2>1, PortalRecords
  <2>8. \A q \in Pipelines : \/ pipeline'[q] = pipeline[q]
                             \/ pipeline[q].at \in {"none", "pending"} /\ pipeline'[q].at \in {"pending", "queued"}
    BY <2>3, <2>4, <2>7
  <2>9. \A t \in Requests \ {r} : Publishes(t) => pipeline'[applicant[t].run].at = "pending"
    BY <2>4, <2>7 DEF PortalInv, VisitsFit
  <2> QED BY <1>1, <1>3, <2>2, <2>3, <2>4, <2>6, <2>7, <2>8, <2>9, VisitWritten DEF PortalTypes
<1> QED BY <1>5, <1>6

LEMMA PublishRunKept == ASSUME PortalInv, NEW r \in Requests, PublishRun(r) PROVE PortalInv'
<1>1. PortalTypes BY DEF PortalInv
<1>2. PICK a \in VisitRecord : a = applicant[r] BY <1>1 DEF PortalTypes
<1>3. PICK theRun \in Pipelines : theRun = applicant[r].run /\ pipeline[theRun].at = "pending"
  BY DEF PublishRun, Publishes, PortalInv, VisitsFit
<1>4. PICK w \in PipeRecord : Pipe(theRun, w) /\ w.at = "queued"
  <2>1. "queued" \in PipePlace /\ pipeline[theRun] \in PipeRecord BY <1>1 DEF PipePlace, PortalTypes
  <2> QED BY <1>3, <2>1, PipeColumns DEF PublishRun, PipeAt
<1>5. /\ pipeline' \in [Pipelines -> PipeRecord] /\ pipeline'[theRun] = w
      /\ \A q \in Pipelines \ {theRun} : pipeline'[q] = pipeline[q]
  BY <1>1, <1>4 DEF PortalTypes, Pipe
<1>6. PICK v \in VisitRecord : Visit(r, v) /\ v.at = "end" BY <1>2, VisitOver DEF PublishRun, VisitEnds
<1>7. UNCHANGED <<application, documents, handOffs, told, unsent, overlapped, portalFaults>> BY DEF PublishRun
<1>8. \A s \in Requests \ {r} : Publishes(s) => pipeline'[applicant[s].run].at = "pending"
  <2>1. Publishes(r) BY DEF PublishRun, Publishes
  <2> QED BY <1>3, <1>5, <2>1 DEF PortalInv, VisitsFit
<1>9. \E q \in Pipelines : Serves(q, r)' BY <1>4, <1>5 DEF Serves
<1>10. \A q \in Pipelines : \/ pipeline'[q] = pipeline[q]
                            \/ pipeline[q].at \in {"none", "pending"} /\ pipeline'[q].at \in {"pending", "queued"}
  BY <1>3, <1>4, <1>5
<1> QED BY <1>1, <1>5, <1>6, <1>7, <1>8, <1>9, <1>10, VisitWritten DEF PortalTypes

LEMMA VisitDiesKept == ASSUME PortalInv, NEW r \in Requests, VisitDies(r) PROVE PortalInv'
<1>1. PortalTypes BY DEF PortalInv
<1>2. PICK a \in VisitRecord : a = applicant[r] BY <1>1 DEF PortalTypes
<1>3. PICK v \in VisitRecord : Visit(r, v) /\ v.at = "end" BY <1>2, VisitOver DEF VisitDies, VisitEnds
<1>4. portalFaults' \in Nat /\ portalFaults' # 0 BY <1>1 DEF VisitDies, PortalTypes
<1>5. UNCHANGED <<application, documents, pipeline, handOffs, told, unsent, overlapped>> BY DEF VisitDies
<1> QED BY <1>1, <1>3, <1>4, <1>5, VisitWritten DEF PortalInv, VisitsFit, PortalTypes

LEMMA UpdateApplicationKept == ASSUME PortalInv, UpdateApplication PROVE PortalInv'
<1>1. PICK row \in OpenApplication : row = application
  BY DEF UpdateApplication, PortalInv, PortalTypes, ApplicationRow
<1>2. application' \in ApplicationRow /\ application' # Gone /\ application'.missing = application.missing
  <2>1. "approved" \in AppStatus BY DEF AppStatus
  <2> QED BY <1>1, <2>1, ApplicationColumns DEF UpdateApplication
<1>3. UNCHANGED <<documents, applicant, pipeline, handOffs, told, unsent, overlapped, portalFaults>> BY DEF UpdateApplication
<1>4. PortalTypes' BY <1>2, <1>3 DEF PortalInv, PortalTypes
<1>5. VisitsFit' BY <1>3 DEF PortalInv, VisitsFit, Publishes
<1>6. UploadsAreServed' BY <1>3 DEF PortalInv, UploadsAreServed, Serves
<1>7. RunsAlone' BY <1>3 DEF PortalInv, RunsAlone, Active
<1>8. OpenIsKnown' BY <1>3 DEF PortalInv, OpenIsKnown
<1>9. MissingIsKnown' BY <1>2, <1>3 DEF PortalInv, MissingIsKnown, Informed
<1> QED BY <1>4, <1>5, <1>6, <1>7, <1>8, <1>9 DEF PortalInv

LEMMA DeleteApplicationKept == ASSUME PortalInv, DeleteApplication PROVE PortalInv'
<1>1. /\ application' = Gone /\ portalFaults' \in Nat /\ portalFaults' # 0
      /\ documents' = [d \in Documents |-> "none"]
  BY DEF DeleteApplication, PortalInv, PortalTypes
<1>2. UNCHANGED <<applicant, pipeline, handOffs, told, unsent, overlapped>> BY DEF DeleteApplication
<1>3. PortalTypes' BY <1>1, <1>2, PortalRecords DEF PortalInv, PortalTypes, Kinds
<1>4. VisitsFit' BY <1>1, <1>2 DEF PortalInv, VisitsFit, Publishes
<1>5. UploadsAreServed' BY <1>1 DEF UploadsAreServed
<1>6. RunsAlone' BY <1>2 DEF PortalInv, RunsAlone, Active
<1>7. OpenIsKnown' BY <1>2 DEF PortalInv, OpenIsKnown
<1>8. MissingIsKnown' BY <1>1 DEF MissingIsKnown
<1> QED BY <1>3, <1>4, <1>5, <1>6, <1>7, <1>8 DEF PortalInv

LEMMA HandleItemKept == ASSUME PortalInv, HandleItem PROVE PortalInv'
<1>1. /\ handOffs' \in [pending : Nat, handled : Nat] /\ handOffs.pending \in Nat
      /\ handOffs'.pending = handOffs.pending - 1 /\ handOffs.pending > 0
  BY DEF HandleItem, PortalInv, PortalTypes
<1>2. UNCHANGED <<application, documents, applicant, pipeline, told, unsent, overlapped, portalFaults>> BY DEF HandleItem
<1>3. PortalTypes' BY <1>1, <1>2 DEF PortalInv, PortalTypes
<1>4. VisitsFit' BY <1>2 DEF PortalInv, VisitsFit, Publishes
<1>5. UploadsAreServed' BY <1>2 DEF PortalInv, UploadsAreServed, Serves
<1>6. RunsAlone' BY <1>2 DEF PortalInv, RunsAlone, Active
<1>7. OpenIsKnown' BY <1>1, <1>2 DEF PortalInv, OpenIsKnown
<1>8. MissingIsKnown' BY <1>2 DEF PortalInv, MissingIsKnown, Informed
<1> QED BY <1>3, <1>4, <1>5, <1>6, <1>7, <1>8 DEF PortalInv

\* What the steps of a run leave alone.
LEMMA PipeFacts ==
    ASSUME PortalInv, NEW p \in Pipelines
    PROVE  /\ PortalTypes /\ pipeline[p] \in PipeRecord
           /\ portalFaults = 0 => application # Gone
           /\ p \in Active <=> pipeline[p].at \in AtWork
           /\ ~overlapped /\ p \in Active => Active \subseteq {p}
           /\ ~overlapped => handOffs.pending <= 1
           /\ \A d \in Documents : documents[d] \in Kinds
           /\ handOffs.pending \in Nat
<1>1. PortalTypes BY DEF PortalInv
<1>2. p \in Active <=> pipeline[p].at \in AtWork BY DEF Active, AtWork
<1>3. ~overlapped /\ p \in Active => Active \subseteq {p} BY DEF PortalInv, RunsAlone
<1>4. ~overlapped => handOffs.pending <= 1 BY DEF PortalInv, OpenIsKnown
<1> QED BY <1>1, <1>2, <1>3, <1>4 DEF PortalTypes

\* A run that reads documents again or is over serves nobody less.
LEMMA PipeMoves ==
    ASSUME PortalInv, NEW p \in Pipelines, NEW v \in PipeRecord, Pipe(p, v),
           pipeline[p].at \in AtWork,
           v.at \in AtWork \cup {"done", "failed"},
           application' \in ApplicationRow, application'.missing = application.missing,
           portalFaults' \in Nat,
           portalFaults' = 0 => portalFaults = 0 /\ application' # Gone,
           UNCHANGED <<documents, applicant, handOffs, told, unsent, overlapped>>,
           portalFaults' = 0 => \A d \in Documents : documents[d] = "fetched" /\ Serves(p, d) =>
               \/ v.at \in {"queued", "collect", "classify", "failed"}
               \/ v.at \in {"ask", "commit"} /\ d \in v.read,
           v.at = "commit" => (v.open <=> handOffs.pending > 0) /\ v.missing = application.missing,
           v.at # "notify", pipeline[p].at = "notify" => portalFaults' # 0
    PROVE  PortalInv'
<1>1. PortalTypes BY DEF PortalInv
<1>2. pipeline[p].at # "pending" BY DEF AtWork
<1>3. documents' \in [Documents -> Kinds] /\ handOffs' \in [pending : Nat, handled : Nat] BY <1>1 DEF PortalTypes
<1>4. ~overlapped => Active \subseteq {p} /\ handOffs.pending <= 1 BY PipeFacts
<1>5. ~overlapped /\ portalFaults' = 0 => Informed'
  <2> SUFFICES ASSUME ~overlapped, portalFaults' = 0 PROVE Informed' OBVIOUS
  <2>1. \A q \in Pipelines : pipeline[q].at # "notify" BY <1>4 DEF Active
  <2>2. Informed BY <2>1 DEF PortalInv, MissingIsKnown
  <2> QED BY <2>2 DEF Informed
<1> QED BY <1>1, <1>2, <1>3, <1>4, <1>5, PipeWritten

LEMMA IntakeKept == ASSUME PortalInv, NEW p \in Pipelines, Intake(p) PROVE PortalInv'
<1>1. PortalTypes /\ pipeline[p] \in PipeRecord BY PipeFacts
<1>2. PICK v \in PipeRecord : Pipe(p, v) /\ v.at \in {"failed", "collect"}
  <2>1. "failed" \in PipePlace /\ "collect" \in PipePlace BY DEF PipePlace
  <2>2. PICK e : e = IF application = Gone THEN "failed" ELSE "collect" OBVIOUS
  <2>3. e \in PipePlace /\ e \in {"failed", "collect"} BY <2>1, <2>2
  <2>4. Pipe(p, [pipeline[p] EXCEPT !.at = e]) BY <2>2 DEF Intake, PipeAt
  <2> QED BY <1>1, <2>3, <2>4, PipeColumns
<1>3. UNCHANGED <<application, documents, applicant, handOffs, told, unsent, portalFaults>>
      /\ overlapped' = (overlapped \/ Active # {}) /\ pipeline[p].at = "queued"
  BY DEF Intake
<1>4. ~overlapped' => ~overlapped /\ Active = {} BY <1>3
<1>5. ~overlapped' => handOffs.pending <= 1 BY <1>4, PipeFacts
<1>6. ~overlapped' /\ portalFaults' = 0 => Informed'
  <2> SUFFICES ASSUME ~overlapped', portalFaults' = 0 PROVE Informed' OBVIOUS
  <2>1. \A q \in Pipelines : pipeline[q].at # "notify" BY <1>4 DEF Active
  <2>2. Informed BY <1>3, <1>4, <2>1 DEF PortalInv, MissingIsKnown
  <2> QED BY <1>3, <2>2 DEF Informed
<1>7. application' \in ApplicationRow /\ portalFaults' \in Nat /\ (portalFaults' = 0 => application' # Gone)
      /\ documents' \in [Documents -> Kinds] /\ handOffs' \in [pending : Nat, handled : Nat]
  BY <1>1, <1>3 DEF PortalTypes
<1> QED BY <1>1, <1>2, <1>3, <1>4, <1>5, <1>6, <1>7, PipeWritten

LEMMA CollectKept == ASSUME PortalInv, NEW p \in Pipelines, Collect(p) PROVE PortalInv'
<1>1. PortalTypes /\ pipeline[p] \in PipeRecord BY PipeFacts
<1>2. UNCHANGED <<documents, applicant, handOffs, told, unsent, overlapped, portalFaults>> /\ pipeline[p].at = "collect"
  BY DEF Collect
<1>3. CASE application = Gone
  <2>1. PICK v \in PipeRecord : Pipe(p, v) /\ v.at = "failed"
    <3>1. "failed" \in PipePlace BY DEF PipePlace
    <3> QED BY <1>1, <1>3, <3>1, PipeColumns DEF Collect, PipeEnds
  <2>2. UNCHANGED application BY <1>3 DEF Collect
  <2> QED BY <1>1, <1>2, <2>1, <2>2, PipeMoves DEF AtWork, PortalTypes
<1>4. CASE application # Gone
  <2>1. PICK v \in PipeRecord : Pipe(p, v) /\ v.at = "classify"
    <3>1. "classify" \in PipePlace BY DEF PipePlace
    <3> QED BY <1>1, <1>4, <3>1, PipeColumns DEF Collect, PipeAt
  <2>2. PICK row \in OpenApplication : row = application BY <1>1, <1>4 DEF PortalTypes, ApplicationRow
  <2>3. application' \in ApplicationRow /\ application' # Gone /\ application'.missing = application.missing
    <3>1. "documents_pending" \in AppStatus BY DEF AppStatus
    <3>2. application' = [row EXCEPT !.status = "documents_pending"] BY <1>4, <2>2 DEF Collect
    <3> QED BY <2>2, <3>1, <3>2, ApplicationColumns
  <2> QED BY <1>1, <1>2, <2>1, <2>3, PipeMoves DEF AtWork, PortalTypes
<1> QED BY <1>3, <1>4

LEMMA ReadDocumentsKept == ASSUME PortalInv, NEW p \in Pipelines, ReadDocuments(p) PROVE PortalInv'
<1>1. PortalTypes /\ pipeline[p] \in PipeRecord BY PipeFacts
<1>2. UNCHANGED <<application, documents, applicant, handOffs, told, unsent, overlapped, portalFaults>>
      /\ pipeline[p].at = "classify"
  BY DEF ReadDocuments
<1>3. PICK t \in PipeRecord : t = pipeline[p] BY <1>1
<1>4. PICK v : v = [t EXCEPT !.at = "ask", !.read = {d \in Documents : documents[d] # "none"}] OBVIOUS
<1>5. Pipe(p, v) BY <1>3, <1>4 DEF ReadDocuments
<1>6. v \in PipeRecord /\ v.at = "ask" /\ v.read = {d \in Documents : documents[d] # "none"}
  BY <1>4 DEF PipeRecord, PipePlace
<1>7. \A d \in Documents : documents[d] = "fetched" => d \in v.read BY <1>6
<1> QED BY <1>1, <1>2, <1>5, <1>6, <1>7, PipeMoves DEF AtWork, PortalTypes

LEMMA StepFailsKept ==
    ASSUME PortalInv, NEW p \in Pipelines, StepFails(p, "classify"), pipeline[p].at \in {"ask", "commit"},
           UNCHANGED <<application, documents, applicant, handOffs, told, unsent, overlapped, portalFaults>>
    PROVE  PortalInv'
<1>1. PortalTypes /\ pipeline[p] \in PipeRecord BY PipeFacts
<1>2. PICK t \in PipeRecord : t = pipeline[p] BY <1>1
<1>3. PICK v \in PipeRecord : Pipe(p, v) /\ v.at \in {"classify", "failed"}
  <2>1. CASE t.tries + 1 < StepTries
    <3>1. PICK v : v = [t EXCEPT !.at = "classify", !.tries = @ + 1] OBVIOUS
    <3>2. t.tries \in Nat BY DEF PipeRecord
    <3>3. t.tries + 1 \in Nat BY <3>2
    <3>4. v \in PipeRecord /\ v.at = "classify" BY <3>1, <3>3 DEF PipeRecord, PipePlace
    <3> QED BY <1>2, <2>1, <3>1, <3>4 DEF StepFails
  <2>2. CASE ~(t.tries + 1 < StepTries)
    <3>1. "failed" \in PipePlace BY DEF PipePlace
    <3> QED BY <1>2, <2>2, <3>1, PipeColumns DEF StepFails, PipeEnds
  <2> QED BY <2>1, <2>2
<1> QED BY <1>1, <1>3, PipeMoves DEF AtWork, PortalTypes

LEMMA ModelFailsKept == ASSUME PortalInv, NEW p \in Pipelines, ModelFails(p) PROVE PortalInv'
BY StepFailsKept DEF ModelFails

LEMMA ReadApplicationKept == ASSUME PortalInv, NEW p \in Pipelines, ReadApplication(p) PROVE PortalInv'
<1>1. PortalTypes /\ pipeline[p] \in PipeRecord BY PipeFacts
<1>2. UNCHANGED <<application, documents, applicant, handOffs, told, unsent, overlapped, portalFaults>>
      /\ pipeline[p].at = "ask"
  BY DEF ReadApplication
<1>3. PICK t \in PipeRecord : t = pipeline[p] BY <1>1
<1>4. PICK hits \in SUBSET (pipeline[p].read \cap Pdds) :
          IF application = Gone /\ pipeline[p].read = {} THEN PipeEnds(p, "done")
          ELSE IF application = Gone \/ (hits # {} /\ handOffs.pending > 1) THEN StepFails(p, "classify")
          ELSE Pipe(p, [pipeline[p] EXCEPT !.at = "commit", !.status = application.status,
                          !.missing = application.missing, !.open = AnItemIsOpen, !.found = hits])
  BY DEF ReadApplication
<1>5. CASE application = Gone /\ pipeline[p].read = {}
  <2>1. PICK v \in PipeRecord : Pipe(p, v) /\ v.at = "done"
    <3>1. "done" \in PipePlace BY DEF PipePlace
    <3> QED BY <1>1, <1>4, <1>5, <3>1, PipeColumns DEF PipeEnds
  <2>2. portalFaults # 0 BY <1>1, <1>5 DEF PortalTypes
  <2> QED BY <1>1, <1>2, <2>1, <2>2, PipeMoves DEF AtWork, PortalTypes
<1>6. CASE StepFails(p, "classify") BY <1>2, <1>6, StepFailsKept
<1>7. CASE application # Gone /\ ~StepFails(p, "classify")
  <2>1. PICK row \in OpenApplication : row = application BY <1>1, <1>7 DEF PortalTypes, ApplicationRow
  <2>2. PICK v : v = [t EXCEPT !.at = "commit", !.status = row.status, !.missing = row.missing,
                               !.open = AnItemIsOpen, !.found = hits]
    OBVIOUS
  <2>3. Pipe(p, v) BY <1>3, <1>4, <1>7, <2>1, <2>2
  <2>4. AnItemIsOpen \in BOOLEAN /\ hits \in SUBSET Documents BY <1>1, <1>4 DEF AnItemIsOpen, PipeRecord
  <2>5. v \in PipeRecord BY <2>2, <2>4 DEF PipeRecord, PipePlace, OpenApplication
  <2>6. v.at = "commit" /\ v.missing = application.missing /\ v.open = AnItemIsOpen /\ v.read = t.read
    BY <2>1, <2>2 DEF PipeRecord
  <2>7. v.open <=> handOffs.pending > 0 BY <2>6 DEF AnItemIsOpen
  <2>8. \A d \in Documents : Serves(p, d) => d \in v.read BY <1>2, <1>3, <2>6 DEF Serves
  <2> QED BY <1>1, <1>2, <2>3, <2>5, <2>6, <2>7, <2>8, PipeMoves DEF AtWork, PortalTypes
<1> QED BY <1>4, <1>5, <1>6, <1>7

LEMMA CommitFindingsKept == ASSUME PortalInv, NEW p \in Pipelines, CommitFindings(p) PROVE PortalInv'
<1>1. PortalTypes /\ pipeline[p] \in PipeRecord /\ handOffs.pending \in Nat BY PipeFacts
<1>2. UNCHANGED <<applicant, told, unsent, overlapped, portalFaults>> /\ pipeline[p].at = "commit" BY DEF CommitFindings
<1>3. PICK t \in PipeRecord : t = pipeline[p] BY <1>1
<1>4. PICK missing \in BOOLEAN : missing = (t.found = {}) OBVIOUS
<1>5. CASE application = Gone \/ \E d \in t.read : documents[d] = "none"
  <2>1. StepFails(p, "classify") /\ UNCHANGED <<application, documents, handOffs>>
    BY <1>3, <1>5 DEF CommitFindings
  <2> QED BY <1>2, <2>1, StepFailsKept
<1>6. CASE ~(application = Gone \/ \E d \in t.read : documents[d] = "none")
  <2>1. PICK row \in OpenApplication : row = application BY <1>1, <1>6 DEF PortalTypes, ApplicationRow
  <2>2. PICK gaps \in {missing, Saved(t.missing, missing, row.missing)}, s \in {"gaps", "pre_audit", row.status} :
            application' = [row EXCEPT !.missing = gaps, !.status = s]
    BY <1>3, <1>4, <1>6, <2>1 DEF CommitFindings, Saved
  <2>3. gaps \in BOOLEAN /\ s \in AppStatus /\ (t.missing = row.missing => gaps = missing)
    <3>1. t.missing \in BOOLEAN /\ row.missing \in BOOLEAN BY Zenon DEF PipeRecord, OpenApplication
    <3>2. row.status \in AppStatus BY DEF OpenApplication
    <3>3. gaps \in BOOLEAN BY <2>2, <3>1, Zenon DEF Saved
    <3>4. t.missing = row.missing => gaps = missing BY <2>2, Zenon DEF Saved
    <3> QED BY <2>2, <3>2, <3>3, <3>4 DEF AppStatus
  <2>4. application' \in ApplicationRow /\ application' # Gone /\ application'.missing = gaps
    <3>1. PICK e : e = [row EXCEPT !.missing = gaps, !.status = s] OBVIOUS
    <3>2. e \in ApplicationRow /\ e # Gone /\ e.missing = gaps 
      <4>1. e \in OpenApplication /\ e.status = s BY <2>3, <3>1 DEF OpenApplication
      <4>2. e.missing = gaps BY <3>1 DEF OpenApplication
      <4>3. s # "gone" BY <2>3 DEF AppStatus
      <4> QED BY <4>1, <4>2, <4>3 DEF ApplicationRow, Gone
    <3> QED BY <2>2, <3>1, <3>2
  <2>5. documents' = [d \in Documents |-> IF d \notin t.read THEN documents[d]
                                         ELSE IF d \in t.found THEN "pdd" ELSE "other"]
    BY <1>3, <1>6 DEF CommitFindings
  <2>6. /\ documents' \in [Documents -> Kinds]
        /\ \A d \in Documents : /\ documents[d] = "none" => documents'[d] = "none"
                                /\ documents'[d] = "fetched" => documents[d] = "fetched"
                                /\ d \in t.read => documents'[d] # "fetched"
    BY <1>1, <1>6, <2>5 DEF PortalTypes, Kinds
  <2>7. \A d \in Documents : documents'[d] = "fetched" => ~Serves(p, d)
    <3>1. \A d \in Documents : Serves(p, d) => d \in t.read BY <1>2, <1>3 DEF Serves
    <3>2. \A d \in Documents : d \in t.read => documents'[d] # "fetched" BY <2>6
    <3> QED BY <3>1, <3>2
  <2>8. handOffs' = IF missing \/ t.open THEN handOffs ELSE [handOffs EXCEPT !.pending = @ + 1]
    BY <1>3, <1>4, <1>6 DEF CommitFindings
  <2>9. handOffs' \in [pending : Nat, handled : Nat] BY <1>1, <2>8 DEF PortalTypes
  <2>10. ~overlapped => handOffs'.pending <= 1
    <3> SUFFICES ASSUME ~overlapped PROVE handOffs'.pending <= 1 OBVIOUS
    <3>1. handOffs.pending <= 1 /\ (handOffs.pending > 0 => t.open) BY <1>2, <1>3 DEF PortalInv, OpenIsKnown
    <3>2. CASE t.open BY <2>8, <3>1, <3>2
    <3>3. CASE ~t.open
      <4>1. handOffs.pending = 0 BY <1>1, <3>1, <3>3
      <4>2. handOffs'.pending \in {0, 1} BY <1>1, <2>8, <4>1 DEF PortalTypes
      <4> QED BY <4>2
    <3> QED BY <3>2, <3>3
  <2>11. ~overlapped => Active \subseteq {p} BY <1>2, PipeFacts DEF AtWork
  <2>12. ~overlapped /\ portalFaults = 0 => t.missing = row.missing /\ (told = row.missing \/ unsent)
    <3> SUFFICES ASSUME ~overlapped, portalFaults = 0 PROVE t.missing = row.missing /\ (told = row.missing \/ unsent) OBVIOUS
    <3>1. \A q \in Pipelines : pipeline[q].at # "notify" BY <1>2, <2>11 DEF Active
    <3>2. t.missing = row.missing /\ Informed BY <1>2, <1>3, <2>1, <3>1 DEF PortalInv, MissingIsKnown
    <3> QED BY <2>1, <3>2 DEF Informed
  <2>13. PICK v \in PipeRecord : /\ Pipe(p, v) /\ v.at \in {"notify", "done"}
                                 /\ v.at = "notify" => v.found = t.found
                                 /\ v.at = "done" => t.missing = missing
    <3>1. "notify" \in PipePlace /\ "done" \in PipePlace BY DEF PipePlace
    <3>2. CASE MissingChanged(p) BY <1>3, <1>6, <3>1, <3>2, PipeColumns DEF CommitFindings, PipeAt
    <3>3. CASE ~MissingChanged(p)
      <4>1. t.missing = missing
        <5>1. t.missing \in BOOLEAN BY Zenon DEF PipeRecord
        <5>2. ~(t.missing # (t.found = {})) BY <1>3, <3>3, Zenon DEF MissingChanged
        <5> QED BY <1>4, <5>1, <5>2, Zenon
      <4>2. PipeEnds(p, "done") BY <1>3, <1>6, <3>3 DEF CommitFindings
      <4> QED BY <1>3, <3>1, <4>1, <4>2, PipeColumns DEF PipeEnds
    <3> QED BY <3>2, <3>3
  <2>14. ~overlapped /\ portalFaults = 0 =>
             /\ v.at = "notify" => (v.found = {}) = application'.missing
             /\ v.at # "notify" => told = application'.missing \/ unsent
    <3>1. v.at = "notify" => (v.found = {}) = missing BY <1>4, <2>13, Zenon
    <3>2. v.at # "notify" => t.missing = missing BY <2>13
    <3> QED BY <2>3, <2>4, <2>12, <3>1, <3>2, Zenon
  <2>15. /\ portalFaults' \in Nat
         /\ portalFaults' = 0 => portalFaults = 0 /\ application' # Gone
         /\ ~overlapped' => ~overlapped
         /\ ~overlapped' /\ v.at \in AtWork => Active \subseteq {p}
         /\ ~overlapped' => handOffs'.pending <= 1
    BY <1>1, <1>2, <2>4, <2>10, <2>11 DEF PortalTypes
  <2>16. ~overlapped' => /\ v.at = "commit" /\ handOffs'.pending > 0 => v.open
                         /\ handOffs'.pending <= handOffs.pending \/ Active \subseteq {p}
    BY <1>2, <2>11, <2>13
  <2>17. ~overlapped' /\ portalFaults' = 0 =>
             /\ v.at = "commit" => v.missing = application'.missing
             /\ v.at = "notify" => (v.found = {}) = application'.missing
             /\ application'.missing = application.missing \/ Active \subseteq {p}
             /\ v.at # "notify" /\ (\A q \in Pipelines \ {p} : pipeline[q].at # "notify") =>
                    Informed'
    <3>1. v.at # "commit" BY <2>13
    <3>2. UNCHANGED <<told, unsent, overlapped, portalFaults>> BY <1>2
    <3>3. ~overlapped' => Active \subseteq {p} BY <2>11, <3>2
    <3>4. ~overlapped' /\ portalFaults' = 0 /\ v.at = "notify" => (v.found = {}) = application'.missing
      BY <2>14, <3>2, Zenon
    <3>5. ~overlapped' /\ portalFaults' = 0 /\ v.at # "notify" => Informed'
      <4>1. Informed' <=> (told = application'.missing \/ unsent) BY <3>2 DEF Informed
      <4> QED BY <2>14, <3>2, <4>1, Zenon
    <3> HIDE <2>14
    <3> QED BY <3>1, <3>3, <3>4, <3>5, Zenon
  <2>18. UNCHANGED applicant /\ pipeline[p].at # "pending" BY <1>2
  <2> QED BY <2>4, <2>6, <2>7, <2>9, <2>13, <2>15, <2>16, <2>17, <2>18, PipeWritten
<1> QED BY <1>5, <1>6

LEMMA NotifyGapChangeKept == ASSUME PortalInv, NEW p \in Pipelines, NotifyGapChange(p) PROVE PortalInv'
<1>1. PortalTypes /\ pipeline[p] \in PipeRecord BY PipeFacts
<1>2. UNCHANGED <<application, documents, applicant, handOffs, overlapped, portalFaults>>
      /\ pipeline[p].at = "notify" /\ (told' = (pipeline[p].found = {}) \/ unsent')
  BY DEF NotifyGapChange
<1>3. PICK v \in PipeRecord : Pipe(p, v) /\ v.at = "done"
  <2>1. "done" \in PipePlace BY DEF PipePlace
  <2> QED BY <1>1, <2>1, PipeColumns DEF NotifyGapChange, PipeEnds
<1>4. ~overlapped => Active \subseteq {p} /\ handOffs.pending <= 1 BY <1>2, PipeFacts DEF AtWork
<1>5. ~overlapped /\ portalFaults = 0 => Informed' BY <1>2 DEF PortalInv, MissingIsKnown, Informed
<1>6. \A d \in Documents : ~Serves(p, d) BY <1>2 DEF Serves
<1> QED BY <1>1, <1>2, <1>3, <1>4, <1>5, <1>6, PipeWritten DEF PortalTypes

LEMMA PipelineDiesKept == ASSUME PortalInv, NEW p \in Pipelines, PipelineDies(p) PROVE PortalInv'
<1>1. PortalTypes /\ pipeline[p] \in PipeRecord BY PipeFacts
<1>2. UNCHANGED <<application, documents, applicant, handOffs, told, unsent, overlapped>> BY DEF PipelineDies
<1>3. portalFaults' \in Nat /\ portalFaults' # 0 BY <1>1 DEF PipelineDies, PortalTypes
<1>4. PICK v \in PipeRecord : Pipe(p, v) /\ v.at = "failed"
  <2>1. "failed" \in PipePlace BY DEF PipePlace
  <2> QED BY <1>1, <2>1, PipeColumns DEF PipelineDies, PipeEnds
<1>5. pipeline[p].at \in AtWork BY PipeFacts DEF PipelineDies
<1> QED BY <1>1, <1>2, <1>3, <1>4, <1>5, PipeMoves DEF PortalTypes

LEMMA PortalStep == PortalInv /\ [PortalNext]_portalVars => PortalInv'
<1> SUFFICES ASSUME PortalInv, [PortalNext]_portalVars PROVE PortalInv' OBVIOUS
<1>1. ASSUME NEW d \in Documents, Upload(d) \/ RefuseUpload(d) \/ StoreDocument(d) PROVE PortalInv'
  BY <1>1, UploadKept, RefuseUploadKept, StoreDocumentKept
<1>2. ASSUME NEW r \in Requests, QueueRun(r) \/ PublishRun(r) \/ VisitDies(r) PROVE PortalInv'
  BY <1>2, QueueRunKept, PublishRunKept, VisitDiesKept
<1>3. CASE TriggerPipeline \/ UpdateApplication \/ DeleteApplication \/ HandleItem
  BY <1>3, TriggerPipelineKept, UpdateApplicationKept, DeleteApplicationKept, HandleItemKept
<1>4. ASSUME NEW p \in Pipelines, Intake(p) \/ Collect(p) \/ ReadDocuments(p) \/ ModelFails(p) PROVE PortalInv'
  BY <1>4, IntakeKept, CollectKept, ReadDocumentsKept, ModelFailsKept
<1>5. ASSUME NEW p \in Pipelines, ReadApplication(p) \/ CommitFindings(p) \/ NotifyGapChange(p) \/ PipelineDies(p)
      PROVE PortalInv'
  BY <1>5, ReadApplicationKept, CommitFindingsKept, NotifyGapChangeKept, PipelineDiesKept
<1>6. CASE UNCHANGED portalVars
  <2>1. UNCHANGED <<application, documents, applicant, pipeline, handOffs, told, unsent, overlapped, portalFaults>>
    BY <1>6 DEF portalVars
  <2>2. PortalTypes' BY <2>1 DEF PortalInv, PortalTypes
  <2>3. VisitsFit' BY <2>1 DEF PortalInv, VisitsFit, Publishes
  <2>4. UploadsAreServed' BY <2>1 DEF PortalInv, UploadsAreServed, Serves
  <2>5. RunsAlone' BY <2>1 DEF PortalInv, RunsAlone, Active
  <2>6. OpenIsKnown' BY <2>1 DEF PortalInv, OpenIsKnown
  <2>7. MissingIsKnown' BY <2>1 DEF PortalInv, MissingIsKnown, Informed
  <2> QED BY <2>2, <2>3, <2>4, <2>5, <2>6, <2>7 DEF PortalInv
<1> QED BY <1>1, <1>2, <1>3, <1>4, <1>5, <1>6 DEF PortalNext

LEMMA ServedBySettled == PortalInv => ApplicantIsServed
<1> SUFFICES ASSUME PortalInv PROVE ApplicantIsServed OBVIOUS
<1>1. UploadsAreClassified
  <2> SUFFICES ASSUME PortalSettled, NEW d \in Documents, documents[d] = "fetched", applicant[d].ran PROVE FALSE
    BY DEF UploadsAreClassified
  <2>1. applicant[d].at \notin {"trigger", "publish"} BY RequestKindsOfPortal DEF PortalSettled
  <2>2. \A p \in Pipelines : ~Serves(p, d) BY DEF PortalSettled, Serves
  <2>3. portalFaults = 0 BY DEF PortalSettled
  <2> QED BY <2>1, <2>2, <2>3 DEF PortalInv, UploadsAreServed
<1>2. ToldWhatIsMissing BY DEF PortalInv, MissingIsKnown, PortalSettled, ToldWhatIsMissing
<1>3. OneHandOff BY DEF PortalInv, OpenIsKnown, OneHandOff
<1> QED BY <1>1, <1>2, <1>3 DEF ApplicantIsServed

\* What a settled application owes its applicant: no document that asked for a run is left
\* unclassified, and without overlapping runs the last mail says what is missing and the
\* application waits for a reviewer once (api/applications.py, validation_engine/executors.py).
THEOREM ApplicantsAreServed == PortalSpec => []ApplicantIsServed
<1>1. PortalInit => PortalInv BY PortalStarts
<1>2. PortalInv /\ [PortalNext]_portalVars => PortalInv' BY PortalStep
<1>3. PortalInv => ApplicantIsServed BY ServedBySettled
<1> QED BY <1>1, <1>2, <1>3, PTL DEF PortalSpec

-----------------------------------------------------------------------------
(* Journeys.  What a tick has seen to stays true while others work: runs and snapshots    *)
(* are never taken back, and a day that is below the threshold stays below it.            *)

JourneyNames == {JourneyOrder[n] : n \in DOMAIN JourneyOrder}
RunStatus == {"pending", "queued", "running", "completed", "failed", "unknown_service"}
JourneyRun == [journey : JourneyNames, actor : Nat, status : RunStatus, day : Nat]
TickPlace == {"idle", "actor", "check", "create", "delay", "store"}
TickRecord == [at : TickPlace, n : Nat \ {0}, actor : Nat, began : Nat, day : Nat, below : BOOLEAN,
               streak : Nat]

JourneyTypes ==
    /\ today \in Nat \ {0} /\ actors \in Nat
    /\ journeyRuns \in Seq(JourneyRun)
    /\ tick \in [WorkerChildren -> TickRecord]
    /\ snapshots \subseteq [day : Nat \ {0}, below : BOOLEAN]

\* Journey m has a run since day b.
Covered(m, b) == \E i \in DOMAIN journeyRuns :
                     journeyRuns[i].journey = JourneyOrder[m] /\ journeyRuns[i].day \in b..today

\* What a tick of child c has seen to, at each of its places.
LoopFits(c) ==
    /\ tick[c].began <= today
    /\ \A m \in DOMAIN JourneyOrder : m < tick[c].n => Covered(m, tick[c].began)
    /\ tick[c].at = "create" => tick[c].n \in DOMAIN JourneyOrder
    /\ tick[c].at = "delay" =>
           /\ tick[c].n \in DOMAIN JourneyOrder /\ tick[c].day \in DOMAIN journeyRuns
           /\ journeyRuns[tick[c].day].journey = JourneyOrder[tick[c].n]
           /\ journeyRuns[tick[c].day].day \in tick[c].began..today
    /\ tick[c].at = "store" => tick[c].n > Len(JourneyOrder)
StreakFits(c) ==
    tick[c].at = "store" =>
        \A e \in (tick[c].day - tick[c].streak + 1)..tick[c].day :
            DayBelow(e, snapshots \cup {[day |-> tick[c].day, below |-> tick[c].below]})
TickFits(c) == tick[c].at # "idle" => LoopFits(c) /\ StreakFits(c)

JourneysInv ==
    /\ JourneyTypes
    /\ \A i \in DOMAIN journeyRuns : journeyRuns[i].day <= today
    /\ \A c \in WorkerChildren : TickFits(c)

\* No run is lost, or moved to another day or journey.
RunsStay ==
    \A i \in DOMAIN journeyRuns :
        /\ i \in DOMAIN journeyRuns' /\ journeyRuns'[i].journey = journeyRuns[i].journey
        /\ journeyRuns'[i].day = journeyRuns[i].day

LEMMA JourneysAreOrdered ==
    /\ Len(JourneyOrder) \in Nat /\ DOMAIN JourneyOrder = 1..Len(JourneyOrder)
    /\ \A n \in DOMAIN JourneyOrder : JourneyOrder[n] \in JourneyNames
<1>1. JourneyOrder \in Seq(STRING) BY JourneysAssumption
<1>2. Len(JourneyOrder) \in Nat /\ DOMAIN JourneyOrder = 1..Len(JourneyOrder) BY <1>1, LenProperties
<1> QED BY <1>2 DEF JourneyNames

LEMMA RunsAreRecords ==
    ASSUME JourneysInv
    PROVE  /\ Len(journeyRuns) \in Nat /\ DOMAIN journeyRuns = 1..Len(journeyRuns)
           /\ \A i \in DOMAIN journeyRuns :
                  /\ journeyRuns[i] \in JourneyRun /\ journeyRuns[i].day \in Nat
                  /\ journeyRuns[i].day <= today
<1>1. journeyRuns \in Seq(JourneyRun) BY DEF JourneysInv, JourneyTypes
<1>2. Len(journeyRuns) \in Nat /\ DOMAIN journeyRuns = 1..Len(journeyRuns) BY <1>1, LenProperties
<1>3. \A i \in DOMAIN journeyRuns : journeyRuns[i] \in JourneyRun BY <1>1, <1>2, ElementOfSeq
<1> QED BY <1>2, <1>3 DEF JourneyRun, JourneysInv

\* A step writes at most ticks that fit, loses no run and no snapshot.
LEMMA JourneysWritten ==
    ASSUME JourneysInv, JourneyTypes', RunsStay, today <= today', snapshots \subseteq snapshots',
           \A i \in DOMAIN journeyRuns' : journeyRuns'[i].day <= today',
           \A c \in WorkerChildren : tick'[c] = tick[c] \/ TickFits(c)'
    PROVE  JourneysInv'
<1>1. \A m, b : Covered(m, b) /\ b \in Nat => Covered(m, b)'
  <2> SUFFICES ASSUME NEW m, NEW b \in Nat, Covered(m, b) PROVE Covered(m, b)' OBVIOUS
  <2>1. PICK i \in DOMAIN journeyRuns : journeyRuns[i].journey = JourneyOrder[m] /\ journeyRuns[i].day \in b..today
    BY DEF Covered
  <2>2. journeyRuns[i].day \in b..today' BY <2>1 DEF JourneysInv, JourneyTypes
  <2> QED BY <2>1, <2>2 DEF Covered, RunsStay
<1>2. ASSUME NEW c \in WorkerChildren, tick'[c] = tick[c] PROVE TickFits(c)'
  <2> SUFFICES ASSUME tick[c].at # "idle" PROVE LoopFits(c)' /\ StreakFits(c)' BY <1>2 DEF TickFits
  <2>1. LoopFits(c) /\ StreakFits(c) BY DEF JourneysInv, TickFits
  <2>2. tick[c].began \in Nat /\ tick[c].n \in Nat /\ today \in Nat /\ today' \in Nat
    BY DEF JourneysInv, JourneyTypes, TickRecord
  <2>3. LoopFits(c)'
    <3>1. tick'[c].began <= today' BY <1>2, <2>1, <2>2 DEF LoopFits
    <3>2. \A m \in DOMAIN JourneyOrder : m < tick'[c].n => Covered(m, tick[c].began)'
      <4> SUFFICES ASSUME NEW m \in DOMAIN JourneyOrder, m < tick[c].n PROVE Covered(m, tick[c].began)'
        BY <1>2
      <4>1. Covered(m, tick[c].began) BY <2>1 DEF LoopFits
      <4>2. PICK b \in Nat : b = tick[c].began BY <2>2
      <4>3. Covered(m, b)' BY <1>1, <4>1, <4>2
      <4> QED BY <1>2, <4>2, <4>3
    <3>3. ASSUME tick[c].at = "delay"
          PROVE  /\ tick[c].n \in DOMAIN JourneyOrder /\ tick[c].day \in DOMAIN journeyRuns'
                 /\ journeyRuns'[tick[c].day].journey = JourneyOrder[tick[c].n]
                 /\ journeyRuns'[tick[c].day].day \in tick[c].began..today'
      <4>1. /\ tick[c].n \in DOMAIN JourneyOrder /\ tick[c].day \in DOMAIN journeyRuns
            /\ journeyRuns[tick[c].day].journey = JourneyOrder[tick[c].n]
            /\ journeyRuns[tick[c].day].day \in tick[c].began..today
        BY <2>1, <3>3 DEF LoopFits
      <4>2. journeyRuns[tick[c].day].day \in tick[c].began..today' BY <2>2, <4>1
      <4> QED BY <4>1, <4>2 DEF RunsStay
    <3>4. tick'[c].at = "create" => tick'[c].n \in DOMAIN JourneyOrder BY <1>2, <2>1 DEF LoopFits
    <3>5. tick'[c].at = "store" => tick'[c].n > Len(JourneyOrder) BY <1>2, <2>1 DEF LoopFits
    <3>6. tick'[c].at = "delay" =>
              /\ tick'[c].n \in DOMAIN JourneyOrder /\ tick'[c].day \in DOMAIN journeyRuns'
              /\ journeyRuns'[tick'[c].day].journey = JourneyOrder[tick'[c].n]
              /\ journeyRuns'[tick'[c].day].day \in tick'[c].began..today'
      BY <1>2, <3>3
    <3> QED BY <3>1, <3>2, <3>4, <3>5, <3>6 DEF LoopFits
  <2>4. StreakFits(c)' BY <1>2, <2>1 DEF StreakFits, DayBelow
  <2> QED BY <2>3, <2>4
<1> QED BY <1>2 DEF JourneysInv

\* A step of child c writes its tick.
LEMMA TickGoes ==
    ASSUME JourneysInv, NEW c \in WorkerChildren, NEW v \in TickRecord, Goes(c, v)
    PROVE  /\ tick' \in [WorkerChildren -> TickRecord] /\ tick'[c] = v
           /\ \A d \in WorkerChildren : d # c => tick'[d] = tick[d]
BY DEF Goes, JourneysInv, JourneyTypes

\* The same, for a step that writes no run and no snapshot.
LEMMA TickWritten ==
    ASSUME JourneysInv, NEW c \in WorkerChildren, NEW v \in TickRecord, Goes(c, v), actors' \in Nat,
           UNCHANGED <<today, journeyRuns, snapshots>>, TickFits(c)'
    PROVE  JourneysInv'
<1>1. /\ tick' \in [WorkerChildren -> TickRecord] /\ tick'[c] = v
      /\ \A d \in WorkerChildren : d # c => tick'[d] = tick[d]
  BY TickGoes
<1>2. JourneyTypes' BY <1>1 DEF JourneysInv, JourneyTypes
<1>3. RunsStay BY DEF RunsStay
<1>4. \A d \in WorkerChildren : tick'[d] = tick[d] \/ TickFits(d)' BY <1>1
<1>5. today <= today' BY DEF JourneysInv, JourneyTypes
<1>6. \A i \in DOMAIN journeyRuns' : journeyRuns'[i].day <= today' BY DEF JourneysInv
<1> QED BY <1>2, <1>3, <1>4, <1>5, <1>6, JourneysWritten

\* A tick that goes on without having seen to more.
LEMMA TickMoved ==
    ASSUME JourneysInv, NEW c \in WorkerChildren, NEW v \in TickRecord, Goes(c, v), actors' \in Nat,
           UNCHANGED <<today, journeyRuns, snapshots>>,
           v.at \in {"idle", "actor", "check"} \/ (v.at = "create" /\ v.n \in DOMAIN JourneyOrder),
           \/ v.n = 1 /\ v.began <= today
           \/ v.n = tick[c].n /\ v.began = tick[c].began /\ tick[c].at # "idle"
           \/ /\ v.n = tick[c].n + 1 /\ v.began = tick[c].began /\ tick[c].at # "idle"
              /\ tick[c].n \in DOMAIN JourneyOrder => Covered(tick[c].n, tick[c].began)
    PROVE  JourneysInv'
<1>1. tick'[c] = v BY TickGoes
<1>2. v.n \in Nat /\ tick[c].n \in Nat /\ v.began \in Nat /\ tick[c].began \in Nat
  BY DEF TickRecord, JourneysInv, JourneyTypes
<1>3. tick[c].at # "idle" => LoopFits(c) BY DEF JourneysInv, TickFits
<1>4. v.began <= today BY <1>3 DEF LoopFits
<1>5. \A m \in DOMAIN JourneyOrder : m < v.n => Covered(m, v.began)
  <2> SUFFICES ASSUME NEW m \in DOMAIN JourneyOrder, m < v.n PROVE Covered(m, v.began) OBVIOUS
  <2>1. m \in Nat /\ m >= 1 BY JourneysAreOrdered
  <2>2. CASE v.n = 1 BY <2>1, <2>2
  <2>3. CASE v.n = tick[c].n /\ v.began = tick[c].began /\ tick[c].at # "idle" BY <1>3, <2>3 DEF LoopFits
  <2>4. CASE /\ v.n = tick[c].n + 1 /\ v.began = tick[c].began /\ tick[c].at # "idle"
             /\ tick[c].n \in DOMAIN JourneyOrder => Covered(tick[c].n, tick[c].began)
    <3>1. m < tick[c].n \/ m = tick[c].n BY <1>2, <2>1, <2>4
    <3> QED BY <1>3, <2>4, <3>1 DEF LoopFits
  <2> QED BY <2>2, <2>3, <2>4
<1>6. UNCHANGED <<journeyRuns, today>> OBVIOUS
<1>7. \A m, b : Covered(m, b)' <=> Covered(m, b) BY <1>6 DEF Covered
<1>8. LoopFits(c)' BY <1>1, <1>4, <1>5, <1>6, <1>7 DEF LoopFits
<1>9. StreakFits(c)' BY <1>1 DEF StreakFits
<1>10. TickFits(c)' BY <1>8, <1>9 DEF TickFits
<1> QED BY <1>10, TickWritten

LEMMA JourneysStart == JourneysInit => JourneysInv
<1> SUFFICES ASSUME JourneysInit PROVE JourneysInv OBVIOUS
<1>1. NoTick \in TickRecord /\ NoTick.at = "idle" BY DEF NoTick, TickRecord, TickPlace
<1>2. journeyRuns = <<>> /\ journeyRuns \in Seq(JourneyRun) /\ Len(journeyRuns) = 0 BY EmptySeq DEF JourneysInit
<1>3. DOMAIN journeyRuns = {} BY <1>2
<1>4. \A c \in WorkerChildren : tick[c].at = "idle" BY <1>1 DEF JourneysInit
<1>5. JourneyTypes BY <1>1, <1>2 DEF JourneysInit, JourneyTypes
<1> QED BY <1>3, <1>4, <1>5 DEF JourneysInv, TickFits

LEMMA BeginTickKept == ASSUME JourneysInv, NEW c \in WorkerChildren, BeginTick(c) PROVE JourneysInv'
<1>1. PICK a \in IF actors = 0 THEN {0} ELSE 1..actors :
          Goes(c, [NoTick EXCEPT !.at = IF a = 0 THEN "actor" ELSE "check", !.actor = a, !.began = today])
  BY DEF BeginTick
<1>2. a \in Nat /\ today \in Nat BY DEF JourneysInv, JourneyTypes
<1>3. PICK v : v = [NoTick EXCEPT !.at = IF a = 0 THEN "actor" ELSE "check", !.actor = a, !.began = today] OBVIOUS
<1>4. v \in TickRecord /\ v.at \in {"actor", "check"} /\ v.n = 1 /\ v.began = today
  <2>1. PICK place \in {"actor", "check"} : place = IF a = 0 THEN "actor" ELSE "check" OBVIOUS
  <2>2. v = [NoTick EXCEPT !.at = place, !.actor = a, !.began = today] BY <1>3, <2>1
  <2>3. v = [at |-> place, n |-> 1, actor |-> a, began |-> today, day |-> 0, below |-> FALSE, streak |-> 0]
    BY <2>2 DEF NoTick
  <2> QED BY <1>2, <2>3 DEF TickRecord, TickPlace
<1>5. UNCHANGED <<today, journeyRuns, snapshots, actors>> BY DEF BeginTick
<1>6. actors' \in Nat /\ v.began <= today BY <1>2, <1>4, <1>5 DEF JourneysInv, JourneyTypes
<1> QED BY <1>1, <1>3, <1>4, <1>5, <1>6, TickMoved

LEMMA CreateActorKept == ASSUME JourneysInv, NEW c \in WorkerChildren, CreateActor(c) PROVE JourneysInv'
<1>1. PICK t \in TickRecord : t = tick[c] BY DEF JourneysInv, JourneyTypes
<1>2. actors \in Nat /\ actors' \in Nat /\ actors + 1 \in Nat BY DEF CreateActor, JourneysInv, JourneyTypes
<1>3. PICK v : v = [t EXCEPT !.at = "check", !.actor = actors + 1] OBVIOUS
<1>4. v \in TickRecord /\ v.at = "check" /\ v.n = t.n /\ v.began = t.began
  BY <1>2, <1>3 DEF TickRecord, TickPlace
<1>5. Goes(c, v) /\ UNCHANGED <<today, journeyRuns, snapshots>> /\ t.at = "actor" BY <1>1, <1>3 DEF CreateActor
<1> QED BY <1>1, <1>2, <1>4, <1>5, TickMoved

\* A tick that turns to the next journey.
LEMMA NextColumns ==
    ASSUME NEW t \in TickRecord
    PROVE  /\ [t EXCEPT !.at = "check", !.n = @ + 1] \in TickRecord
           /\ [t EXCEPT !.at = "check", !.n = @ + 1].at = "check"
           /\ [t EXCEPT !.at = "check", !.n = @ + 1].n = t.n + 1
           /\ [t EXCEPT !.at = "check", !.n = @ + 1].began = t.began
<1>1. t.n \in Nat \ {0} BY DEF TickRecord
<1>2. t.n + 1 \in Nat \ {0} BY <1>1
<1>3. PICK m \in Nat \ {0} : m = t.n + 1 BY <1>2
<1>4. PICK v : v = [t EXCEPT !.at = "check", !.n = @ + 1] OBVIOUS
<1>5. v = [t EXCEPT !.at = "check", !.n = m] BY <1>3, <1>4
<1>6. v \in TickRecord /\ v.at = "check" /\ v.n = m /\ v.began = t.began BY <1>5 DEF TickRecord, TickPlace
<1> QED BY <1>3, <1>4, <1>6

LEMMA CheckJourneyKept == ASSUME JourneysInv, NEW c \in WorkerChildren, CheckJourney(c) PROVE JourneysInv'
<1>1. PICK t \in TickRecord : t = tick[c] BY DEF JourneysInv, JourneyTypes
<1>2. /\ UNCHANGED <<today, journeyRuns, snapshots, actors>> /\ t.at = "check"
      /\ t.n \in DOMAIN JourneyOrder
  <2>1. t.n \in Nat \ {0} BY DEF TickRecord
  <2> QED BY <1>1, <2>1, JourneysAreOrdered DEF CheckJourney
<1>3. actors' \in Nat BY <1>2 DEF JourneysInv, JourneyTypes
<1>4. CASE HasInflightRun(JourneyOrder[t.n])
  <2>1. PICK i \in DOMAIN journeyRuns : journeyRuns[i].journey = JourneyOrder[t.n] /\ journeyRuns[i].day >= today
    BY <1>4 DEF HasInflightRun
  <2>2. t.began <= today /\ t.began \in Nat /\ today \in Nat
    BY <1>1, <1>2 DEF JourneysInv, TickFits, LoopFits, JourneyTypes, TickRecord
  <2>3. journeyRuns[i].day \in t.began..today BY <2>1, <2>2, RunsAreRecords
  <2>4. Covered(t.n, t.began) BY <2>1, <2>3 DEF Covered
  <2>5. PICK v : v = [t EXCEPT !.at = "check", !.n = @ + 1] OBVIOUS
  <2>6. Goes(c, v) BY <1>1, <1>4, <2>5 DEF CheckJourney, NextJourney
  <2>7. v \in TickRecord /\ v.at = "check" /\ v.n = t.n + 1 /\ v.began = t.began BY <2>5, NextColumns
  <2> QED BY <1>1, <1>2, <1>3, <2>4, <2>6, <2>7, TickMoved
<1>5. CASE ~HasInflightRun(JourneyOrder[t.n])
  <2>1. PICK v : v = [t EXCEPT !.at = "create"] OBVIOUS
  <2>2. Goes(c, v) BY <1>1, <1>5, <2>1 DEF CheckJourney, GoesTo
  <2>3. v \in TickRecord /\ v.at = "create" /\ v.n = t.n /\ v.began = t.began BY <2>1 DEF TickRecord, TickPlace
  <2> QED BY <1>1, <1>2, <1>3, <2>2, <2>3, TickMoved
<1> QED BY <1>4, <1>5

LEMMA RunCreated ==
    ASSUME JourneysInv, NEW row \in JourneyRun, row.day = today, journeyRuns' = Append(journeyRuns, row),
           UNCHANGED today
    PROVE  /\ journeyRuns' \in Seq(JourneyRun) /\ Len(journeyRuns) + 1 \in DOMAIN journeyRuns'
           /\ journeyRuns'[Len(journeyRuns) + 1] = row /\ RunsStay
           /\ \A i \in DOMAIN journeyRuns' : journeyRuns'[i].day <= today'
<1>1. journeyRuns \in Seq(JourneyRun) /\ today \in Nat BY DEF JourneysInv, JourneyTypes
<1>2. /\ journeyRuns' \in Seq(JourneyRun) /\ Len(journeyRuns') = Len(journeyRuns) + 1
      /\ \A i \in 1..Len(journeyRuns) : journeyRuns'[i] = journeyRuns[i]
      /\ journeyRuns'[Len(journeyRuns) + 1] = row
  BY <1>1, AppendProperties
<1>3. DOMAIN journeyRuns' = 1..(Len(journeyRuns) + 1) BY <1>2, LenProperties
<1>4. Len(journeyRuns) \in Nat /\ DOMAIN journeyRuns = 1..Len(journeyRuns) BY RunsAreRecords
<1>5. RunsStay BY <1>2, <1>3, <1>4 DEF RunsStay
<1>6. ASSUME NEW i \in DOMAIN journeyRuns' PROVE journeyRuns'[i].day <= today'
  <2>1. CASE i = Len(journeyRuns) + 1 BY <1>1, <1>2, <2>1
  <2>2. CASE i # Len(journeyRuns) + 1
    <3>1. i \in DOMAIN journeyRuns BY <1>3, <1>4, <2>2
    <3> QED BY <1>2, <1>4, <3>1 DEF JourneysInv
  <2> QED BY <2>1, <2>2
<1> QED BY <1>2, <1>3, <1>4, <1>5, <1>6

LEMMA CreateRunKept == ASSUME JourneysInv, NEW c \in WorkerChildren, CreateRun(c) PROVE JourneysInv'
<1>1. PICK t \in TickRecord : t = tick[c] BY DEF JourneysInv, JourneyTypes
<1>2. UNCHANGED <<today, actors, snapshots>> /\ t.at = "create" BY <1>1 DEF CreateRun
<1>3. LoopFits(c) /\ t.n \in DOMAIN JourneyOrder BY <1>1, <1>2 DEF JourneysInv, TickFits, LoopFits
<1>4. t.began \in Nat /\ today \in Nat /\ t.began <= today /\ t.actor \in Nat
  BY <1>1, <1>3 DEF JourneysInv, JourneyTypes, TickRecord, LoopFits
<1>5. PICK row : row = [journey |-> JourneyOrder[t.n], actor |-> t.actor, status |-> "pending", day |-> today] OBVIOUS
<1>6. row \in JourneyRun /\ row.day = today /\ row.journey = JourneyOrder[t.n]
  <2>1. PICK j \in JourneyNames : j = JourneyOrder[t.n] BY <1>3, JourneysAreOrdered
  <2>2. row = [journey |-> j, actor |-> t.actor, status |-> "pending", day |-> today] BY <1>5, <2>1
  <2> QED BY <1>4, <2>1, <2>2 DEF JourneyRun, RunStatus
<1>7. journeyRuns' = Append(journeyRuns, row) BY <1>1, <1>5 DEF CreateRun
<1>8. PICK newest \in Nat : newest = Len(journeyRuns) + 1 BY RunsAreRecords
<1>9. /\ journeyRuns' \in Seq(JourneyRun) /\ newest \in DOMAIN journeyRuns' /\ journeyRuns'[newest] = row /\ RunsStay
      /\ \A i \in DOMAIN journeyRuns' : journeyRuns'[i].day <= today'
  BY <1>2, <1>6, <1>7, <1>8, RunCreated
<1>10. PICK v : v = [t EXCEPT !.at = "delay", !.day = newest] OBVIOUS
<1>11. v \in TickRecord /\ v.at = "delay" /\ v.n = t.n /\ v.began = t.began /\ v.day = newest
  BY <1>8, <1>10 DEF TickRecord, TickPlace
<1>12. Goes(c, v) BY <1>1, <1>8, <1>10 DEF CreateRun
<1>13. /\ tick' \in [WorkerChildren -> TickRecord] /\ tick'[c] = v
       /\ \A d \in WorkerChildren : d # c => tick'[d] = tick[d]
  BY <1>11, <1>12, TickGoes
<1>14. JourneyTypes' BY <1>2, <1>9, <1>13 DEF JourneysInv, JourneyTypes
<1>15. ASSUME NEW m \in DOMAIN JourneyOrder, m < t.n PROVE Covered(m, t.began)'
  <2>1. Covered(m, t.began) BY <1>1, <1>3, <1>15 DEF LoopFits
  <2>2. PICK i \in DOMAIN journeyRuns : journeyRuns[i].journey = JourneyOrder[m] /\ journeyRuns[i].day \in t.began..today
    BY <2>1 DEF Covered
  <2> QED BY <1>2, <1>9, <2>2 DEF Covered, RunsStay
<1>16. LoopFits(c)'
  <2>1. journeyRuns'[newest].day \in t.began..today' BY <1>2, <1>4, <1>6, <1>9
  <2> QED BY <1>2, <1>3, <1>4, <1>6, <1>9, <1>11, <1>13, <1>15, <2>1 DEF LoopFits
<1>17. TickFits(c)' BY <1>11, <1>13, <1>16 DEF TickFits, StreakFits
<1>18. \A d \in WorkerChildren : tick'[d] = tick[d] \/ TickFits(d)' BY <1>13, <1>17
<1>19. today <= today' /\ snapshots \subseteq snapshots' BY <1>2, <1>4
<1> QED BY <1>9, <1>14, <1>18, <1>19, JourneysWritten

LEMMA RunChanged ==
    ASSUME JourneysInv, NEW i \in DOMAIN journeyRuns, NEW s \in RunStatus, RunIs(i, s), UNCHANGED today
    PROVE  /\ journeyRuns' \in Seq(JourneyRun) /\ RunsStay
           /\ \A k \in DOMAIN journeyRuns' : journeyRuns'[k].day <= today'
<1>1. journeyRuns \in Seq(JourneyRun) BY DEF JourneysInv, JourneyTypes
<1>2. Len(journeyRuns) \in Nat /\ DOMAIN journeyRuns = 1..Len(journeyRuns) /\ journeyRuns[i] \in JourneyRun
  BY RunsAreRecords
<1>3. PICK t \in JourneyRun : t = journeyRuns[i] BY <1>2
<1>4. PICK row : row = [t EXCEPT !.status = s] OBVIOUS
<1>5. row \in JourneyRun /\ row.journey = t.journey /\ row.day = t.day BY <1>4 DEF JourneyRun
<1>6. journeyRuns' = [journeyRuns EXCEPT ![i] = row] BY <1>3, <1>4 DEF RunIs
<1>7. /\ journeyRuns' \in Seq(JourneyRun) /\ Len(journeyRuns') = Len(journeyRuns)
      /\ \A k \in 1..Len(journeyRuns) : journeyRuns'[k] = IF k = i THEN row ELSE journeyRuns[k]
  BY <1>1, <1>2, <1>5, <1>6, ExceptSeq
<1>8. DOMAIN journeyRuns' = DOMAIN journeyRuns BY <1>2, <1>7, LenProperties
<1>9. RunsStay BY <1>2, <1>3, <1>5, <1>7, <1>8 DEF RunsStay
<1>10. \A k \in DOMAIN journeyRuns' : journeyRuns'[k].day <= today' BY <1>8, <1>9 DEF RunsStay, JourneysInv
<1> QED BY <1>7, <1>9, <1>10

LEMMA DelayKept == ASSUME JourneysInv, NEW c \in WorkerChildren, Delay(c) PROVE JourneysInv'
<1>1. PICK t \in TickRecord : t = tick[c] BY DEF JourneysInv, JourneyTypes
<1>2. UNCHANGED <<today, actors, snapshots>> /\ t.at = "delay" BY <1>1 DEF Delay
<1>3. LoopFits(c) BY <1>1, <1>2 DEF JourneysInv, TickFits
<1>4. /\ t.n \in DOMAIN JourneyOrder /\ t.day \in DOMAIN journeyRuns
      /\ journeyRuns[t.day].journey = JourneyOrder[t.n] /\ journeyRuns[t.day].day \in t.began..today
      /\ t.began <= today
  BY <1>1, <1>2, <1>3 DEF LoopFits
<1>5. /\ journeyRuns' \in Seq(JourneyRun) /\ RunsStay
      /\ \A k \in DOMAIN journeyRuns' : journeyRuns'[k].day <= today'
  <2>1. RunIs(t.day, "queued") /\ "queued" \in RunStatus BY <1>1 DEF Delay, RunStatus
  <2> QED BY <1>2, <1>4, <2>1, RunChanged
<1>6. PICK m \in Nat \ {0} : m = t.n + 1
  <2>1. t.n \in Nat BY DEF TickRecord
  <2> QED BY <2>1
<1>7. PICK v : v = [t EXCEPT !.at = "check", !.n = m, !.day = 0] OBVIOUS
<1>8. v \in TickRecord /\ v.at = "check" /\ v.n = m /\ v.began = t.began BY <1>7 DEF TickRecord, TickPlace
<1>9. Goes(c, v) BY <1>1, <1>6, <1>7 DEF Delay
<1>10. /\ tick' \in [WorkerChildren -> TickRecord] /\ tick'[c] = v
       /\ \A d \in WorkerChildren : d # c => tick'[d] = tick[d]
  BY <1>8, <1>9, TickGoes
<1>11. JourneyTypes' BY <1>2, <1>5, <1>10 DEF JourneysInv, JourneyTypes
<1>12. ASSUME NEW k \in DOMAIN JourneyOrder, k < m PROVE Covered(k, t.began)'
  <2>1. CASE k = t.n BY <1>2, <1>4, <1>5, <2>1 DEF Covered, RunsStay
  <2>2. CASE k # t.n
    <3>1. k \in Nat /\ t.n \in Nat BY JourneysAreOrdered DEF TickRecord
    <3>2. Covered(k, t.began) BY <1>1, <1>3, <1>6, <1>12, <2>2, <3>1 DEF LoopFits
    <3>3. PICK i \in DOMAIN journeyRuns : journeyRuns[i].journey = JourneyOrder[k] /\ journeyRuns[i].day \in t.began..today
      BY <3>2 DEF Covered
    <3> QED BY <1>2, <1>5, <3>3 DEF Covered, RunsStay
  <2> QED BY <2>1, <2>2
<1>13. LoopFits(c)' BY <1>2, <1>4, <1>8, <1>10, <1>12 DEF LoopFits
<1>14. TickFits(c)' BY <1>8, <1>10, <1>13 DEF TickFits, StreakFits
<1>15. \A d \in WorkerChildren : tick'[d] = tick[d] \/ TickFits(d)' BY <1>10, <1>14
<1>16. today <= today' /\ snapshots \subseteq snapshots' BY <1>2 DEF JourneysInv, JourneyTypes
<1> QED BY <1>5, <1>11, <1>15, <1>16, JourneysWritten

\* A set of day counts closed downward holds its own size.
LEMMA ClosedHoldsItsSize ==
    ASSUME NEW d \in Nat, NEW D \in SUBSET (1..d), \A k \in D : \A m \in 1..k : m \in D
    PROVE  Cardinality(D) \in Nat /\ (Cardinality(D) = 0 \/ Cardinality(D) \in D)
<1>1. IsFiniteSet(1..d) BY FS_Interval
<1>2. IsFiniteSet(D) BY <1>1, FS_Subset
<1>3. PICK m \in Nat : m = Cardinality(D) BY <1>2, FS_CardinalityType
<1>4. ASSUME m # 0, m \notin D PROVE FALSE
  <2>1. m >= 1 /\ m - 1 \in Nat BY <1>4
  <2>2. D \in SUBSET (1..(m - 1))
    <3> SUFFICES ASSUME NEW k \in D PROVE k <= m - 1 /\ k \in Nat /\ k >= 1 OBVIOUS
    <3>1. k \in Nat /\ k >= 1 OBVIOUS
    <3>2. k < m
      <4> SUFFICES ASSUME k >= m PROVE FALSE BY <3>1
      <4>1. m \in 1..k BY <2>1, <3>1
      <4> QED BY <1>4, <4>1
    <3> QED BY <3>1, <3>2
  <2>3. IsFiniteSet(1..(m - 1)) /\ Cardinality(1..(m - 1)) = m - 1
    <3>1. IsFiniteSet(1..(m - 1)) BY <2>1, FS_Interval
    <3>2. Cardinality(1..(m - 1)) = IF 1 > m - 1 THEN 0 ELSE (m - 1) - 1 + 1 BY <2>1, FS_Interval
    <3> QED BY <2>1, <3>1, <3>2
  <2>4. PICK S : S = 1..(m - 1) OBVIOUS
  <2>5. Cardinality(D) <= Cardinality(S) BY <2>2, <2>3, <2>4, FS_Subset
  <2>6. m <= m - 1 BY <1>3, <2>3, <2>4, <2>5
  <2> QED BY <2>1, <2>6
<1> QED BY <1>3, <1>4

\* The streak of a day: every day of it is below the threshold, and it is as long as can be.
LEMMA StreakIs ==
    ASSUME NEW d \in Nat, NEW shots
    PROVE  /\ StreakFromDailyScores(d, shots) \in Nat
           /\ \A e \in (d - StreakFromDailyScores(d, shots) + 1)..d : DayBelow(e, shots)
           /\ \A m \in 1..d : (\A e \in (d - m + 1)..d : DayBelow(e, shots)) => StreakFromDailyScores(d, shots) >= m
<1> DEFINE D == {k \in 1..d : \A e \in (d - k + 1)..d : DayBelow(e, shots)}
<1>1. \A k \in D : \A m \in 1..k : m \in D
  <2> SUFFICES ASSUME NEW k \in D, NEW m \in 1..k PROVE m \in D OBVIOUS
  <2>1. m \in 1..d /\ \A e \in (d - m + 1)..d : e \in (d - k + 1)..d OBVIOUS
  <2> QED BY <2>1
<1>2. D \in SUBSET (1..d) OBVIOUS
<1>3. Cardinality(D) = StreakFromDailyScores(d, shots) BY DEF StreakFromDailyScores
<1>4. \A k \in D : \A e \in (d - k + 1)..d : DayBelow(e, shots) OBVIOUS
<1>5. \A m \in 1..d : (\A e \in (d - m + 1)..d : DayBelow(e, shots)) => m \in D OBVIOUS
<1> HIDE DEF D
<1>6. PICK n \in Nat : n = Cardinality(D) /\ (n = 0 \/ n \in D) BY <1>1, <1>2, ClosedHoldsItsSize
<1>7. \A e \in (d - n + 1)..d : DayBelow(e, shots) BY <1>4, <1>6
<1>8. ASSUME NEW m \in D PROVE n >= m
  <2>1. 1..m \in SUBSET D BY <1>1, <1>8
  <2>2. IsFiniteSet(1..d) BY FS_Interval
  <2>3. IsFiniteSet(D) BY <1>2, <2>2, FS_Subset
  <2>4. m \in Nat /\ m >= 1 BY <1>2
  <2>5. Cardinality(1..m) = IF 1 > m THEN 0 ELSE m - 1 + 1 BY <2>4, FS_Interval
  <2>6. Cardinality(1..m) <= Cardinality(D) BY <2>1, <2>3, FS_Subset
  <2> QED BY <1>6, <2>4, <2>5, <2>6
<1> QED BY <1>3, <1>5, <1>6, <1>7, <1>8

LEMMA ComputeSnapshotKept == ASSUME JourneysInv, NEW c \in WorkerChildren, ComputeSnapshot(c) PROVE JourneysInv'
<1>1. PICK t \in TickRecord : t = tick[c] BY DEF JourneysInv, JourneyTypes
<1>2. UNCHANGED <<today, journeyRuns, actors, snapshots>> /\ t.at = "check" /\ t.n > Len(JourneyOrder)
  BY <1>1 DEF ComputeSnapshot
<1>3. PICK below \in BOOLEAN :
          Goes(c, [tick[c] EXCEPT !.at = "store", !.day = today, !.below = below,
                !.streak = StreakFromDailyScores(today, snapshots \cup {[day |-> today, below |-> below]})])
  BY DEF ComputeSnapshot
<1>4. today \in Nat /\ actors' \in Nat BY <1>2 DEF JourneysInv, JourneyTypes
<1>5. PICK shots : shots = snapshots \cup {[day |-> today, below |-> below]} OBVIOUS
<1>6. PICK streak \in Nat : /\ streak = StreakFromDailyScores(today, shots)
                            /\ \A e \in (today - streak + 1)..today : DayBelow(e, shots)
  BY <1>4, StreakIs
<1>7. PICK v : v = [t EXCEPT !.at = "store", !.day = today, !.below = below, !.streak = streak] OBVIOUS
<1>8. Goes(c, v) BY <1>1, <1>3, <1>5, <1>6, <1>7
<1>9. v \in TickRecord BY <1>4, <1>7 DEF TickRecord, TickPlace
<1>10. v.at = "store" /\ v.n = t.n /\ v.began = t.began /\ v.day = today /\ v.below = below /\ v.streak = streak
  BY <1>7 DEF TickRecord
<1>11. tick'[c] = v BY <1>8, <1>9, TickGoes
<1>12. LoopFits(c) BY <1>1, <1>2 DEF JourneysInv, TickFits
<1>13. \A m, b : Covered(m, b)' <=> Covered(m, b) BY <1>2 DEF Covered
<1>14. LoopFits(c)' BY <1>1, <1>2, <1>10, <1>11, <1>12, <1>13 DEF LoopFits
<1>15. StreakFits(c)' BY <1>2, <1>5, <1>6, <1>10, <1>11 DEF StreakFits
<1>16. TickFits(c)' BY <1>14, <1>15 DEF TickFits
<1> QED BY <1>2, <1>4, <1>8, <1>9, <1>16, TickWritten

LEMMA StoreSnapshotKept == ASSUME JourneysInv, NEW c \in WorkerChildren, StoreSnapshot(c) PROVE JourneysInv'
<1>1. PICK t \in TickRecord : t = tick[c] BY DEF JourneysInv, JourneyTypes
<1>2. UNCHANGED <<today, journeyRuns, actors>> BY DEF StoreSnapshot
<1>3. PICK shot : shot = [day |-> today, below |-> t.below] OBVIOUS
<1>4. shot \in [day : Nat \ {0}, below : BOOLEAN]
  <2>1. t.below \in BOOLEAN BY Zenon DEF TickRecord
  <2>2. today \in Nat \ {0} BY DEF JourneysInv, JourneyTypes
  <2> QED BY <1>3, <2>1, <2>2
<1>5. snapshots' = snapshots \cup {shot} BY <1>1, <1>3 DEF StoreSnapshot
<1>6. NoTick \in TickRecord /\ NoTick.at = "idle" BY DEF NoTick, TickRecord, TickPlace
<1>7. /\ tick' \in [WorkerChildren -> TickRecord] /\ tick'[c] = NoTick
      /\ \A d \in WorkerChildren : d # c => tick'[d] = tick[d]
  BY <1>6, TickGoes DEF StoreSnapshot
<1>8. JourneyTypes' BY <1>2, <1>4, <1>5, <1>7 DEF JourneysInv, JourneyTypes
<1>9. RunsStay BY <1>2 DEF RunsStay
<1>10. \A d \in WorkerChildren : tick'[d] = tick[d] \/ TickFits(d)' BY <1>6, <1>7 DEF TickFits
<1>11. today <= today' BY <1>2 DEF JourneysInv, JourneyTypes
<1>12. \A i \in DOMAIN journeyRuns' : journeyRuns'[i].day <= today' BY <1>2 DEF JourneysInv
<1> QED BY <1>5, <1>8, <1>9, <1>10, <1>11, <1>12, JourneysWritten

LEMMA ExecuteRunKept ==
    ASSUME JourneysInv, NEW c \in WorkerChildren, NEW i \in DOMAIN journeyRuns, ExecuteRun(c, i)
    PROVE  JourneysInv'
<1>1. UNCHANGED <<today, actors, tick, snapshots>> BY DEF ExecuteRun
<1>2. PICK s \in RunStatus : RunIs(i, s)
  <2>1. PICK s : s = IF c \notin registered THEN "unknown_service"
                     ELSE IF /\ journeyRuns[i].journey \in AccountJourneys
                             /\ <<journeyRuns[i].journey, journeyRuns[i].actor>> \in accounts
                          THEN "failed" ELSE "completed"
    OBVIOUS
  <2>2. s \in {"unknown_service", "failed", "completed"} BY <2>1
  <2>3. RunIs(i, s) BY <2>1 DEF ExecuteRun
  <2> QED BY <2>2, <2>3 DEF RunStatus
<1>3. /\ journeyRuns' \in Seq(JourneyRun) /\ RunsStay
      /\ \A k \in DOMAIN journeyRuns' : journeyRuns'[k].day <= today'
  BY <1>1, <1>2, RunChanged
<1>4. JourneyTypes' BY <1>1, <1>3 DEF JourneysInv, JourneyTypes
<1>5. today <= today' /\ snapshots \subseteq snapshots' BY <1>1 DEF JourneysInv, JourneyTypes
<1>6. \A d \in WorkerChildren : tick'[d] = tick[d] BY <1>1
<1> QED BY <1>3, <1>4, <1>5, <1>6, JourneysWritten

LEMMA ChildDiesKept == ASSUME JourneysInv, NEW c \in WorkerChildren, ChildDies(c) PROVE JourneysInv'
<1>1. UNCHANGED <<today, actors, snapshots>> BY DEF ChildDies
<1>2. CASE tick[c].at # "idle" /\ Goes(c, NoTick) /\ UNCHANGED journeyRuns
  <2>1. NoTick \in TickRecord /\ NoTick.at = "idle" BY DEF NoTick, TickRecord, TickPlace
  <2>2. TickFits(c)' BY <1>2, <2>1, TickGoes DEF TickFits
  <2>3. actors' \in Nat BY <1>1 DEF JourneysInv, JourneyTypes
  <2> QED BY <1>1, <1>2, <2>1, <2>2, <2>3, TickWritten
<1>3. CASE UNCHANGED tick /\ \E i \in DOMAIN journeyRuns : journeyRuns[i].status = "queued" /\ RunIs(i, "running")
  <2>1. PICK i \in DOMAIN journeyRuns : RunIs(i, "running") BY <1>3
  <2>2. "running" \in RunStatus BY DEF RunStatus
  <2>3. /\ journeyRuns' \in Seq(JourneyRun) /\ RunsStay
        /\ \A k \in DOMAIN journeyRuns' : journeyRuns'[k].day <= today'
    BY <1>1, <2>1, <2>2, RunChanged
  <2>4. JourneyTypes' BY <1>1, <1>3, <2>3 DEF JourneysInv, JourneyTypes
  <2>5. today <= today' /\ snapshots \subseteq snapshots' BY <1>1 DEF JourneysInv, JourneyTypes
  <2>6. \A d \in WorkerChildren : tick'[d] = tick[d] BY <1>3
  <2> QED BY <2>3, <2>4, <2>5, <2>6, JourneysWritten
<1> QED BY <1>2, <1>3 DEF ChildDies

LEMMA MidnightKept == ASSUME JourneysInv, Midnight PROVE JourneysInv'
<1>1. UNCHANGED <<journeyRuns, actors, tick, snapshots>> /\ today' = today + 1 BY DEF Midnight
<1>2. today \in Nat /\ today' \in Nat \ {0} /\ today <= today' BY <1>1 DEF JourneysInv, JourneyTypes
<1>3. JourneyTypes' BY <1>1, <1>2 DEF JourneysInv, JourneyTypes
<1>4. RunsStay BY <1>1 DEF RunsStay
<1>5. \A i \in DOMAIN journeyRuns' : journeyRuns'[i].day <= today' BY <1>1, RunsAreRecords, <1>2
<1>6. \A d \in WorkerChildren : tick'[d] = tick[d] BY <1>1
<1> QED BY <1>1, <1>2, <1>3, <1>4, <1>5, <1>6, JourneysWritten

LEMMA JourneysStep == JourneysInv /\ [JourneysNext]_journeyVars => JourneysInv'
<1> SUFFICES ASSUME JourneysInv, [JourneysNext]_journeyVars PROVE JourneysInv' OBVIOUS
<1>1. ASSUME NEW c \in WorkerChildren, BeginTick(c) \/ CreateActor(c) \/ CheckJourney(c) \/ CreateRun(c)
      PROVE  JourneysInv'
  BY <1>1, BeginTickKept, CreateActorKept, CheckJourneyKept, CreateRunKept
<1>2. ASSUME NEW c \in WorkerChildren, Delay(c) \/ ComputeSnapshot(c) \/ StoreSnapshot(c) \/ ChildDies(c)
      PROVE  JourneysInv'
  BY <1>2, DelayKept, ComputeSnapshotKept, StoreSnapshotKept, ChildDiesKept
<1>3. ASSUME NEW c \in WorkerChildren, NEW i \in DOMAIN journeyRuns, ExecuteRun(c, i) PROVE JourneysInv'
  BY <1>3, ExecuteRunKept
<1>4. CASE Midnight BY <1>4, MidnightKept
<1>5. CASE UNCHANGED journeyVars
  <2>1. UNCHANGED <<today, journeyRuns, actors, tick, snapshots>> BY <1>5 DEF journeyVars
  <2>2. JourneyTypes' BY <2>1 DEF JourneysInv, JourneyTypes
  <2>3. RunsStay BY <2>1 DEF RunsStay
  <2>4. today <= today' /\ \A d \in WorkerChildren : tick'[d] = tick[d] BY <2>1 DEF JourneysInv, JourneyTypes
  <2>5. \A i \in DOMAIN journeyRuns' : journeyRuns'[i].day <= today' BY <2>1 DEF JourneysInv
  <2> QED BY <2>1, <2>2, <2>3, <2>4, <2>5, JourneysWritten
<1> QED BY <1>1, <1>2, <1>3, <1>4, <1>5 DEF JourneysNext

LEMMA FreshBySeen == JourneysInv => SnapshotsAreFresh
<1> SUFFICES ASSUME JourneysInv, NEW c \in WorkerChildren, NEW n \in DOMAIN JourneyOrder, tick[c].at = "store"
             PROVE  \E i \in DOMAIN journeyRuns : /\ journeyRuns[i].journey = JourneyOrder[n]
                                                  /\ journeyRuns[i].day \in tick[c].began..today
  BY DEF SnapshotsAreFresh
<1>1. LoopFits(c) BY DEF JourneysInv, TickFits
<1>2. n \in 1..Len(JourneyOrder) /\ Len(JourneyOrder) \in Nat BY JourneysAreOrdered
<1>3. tick[c].n \in Nat BY DEF JourneysInv, JourneyTypes, TickRecord
<1>4. n < tick[c].n BY <1>1, <1>2, <1>3 DEF LoopFits
<1> QED BY <1>1, <1>4 DEF LoopFits, Covered

LEMMA EarnedByStreak == JourneysInv => StreaksAreEarned
BY DEF JourneysInv, TickFits, StreakFits, StreaksAreEarned

LEMMA BlockedByStreak == JourneysInv => StreaksBlock
<1> SUFFICES ASSUME JourneysInv, \A e \in (today - StreakLimit + 1)..today : DayBelow(e, snapshots) PROVE Streaks
  BY DEF StreaksBlock, GateBlocks
<1>1. today \in Nat /\ today >= 1 /\ StreakLimit \in Nat BY JourneysAssumption DEF JourneysInv, JourneyTypes
<1>2. PICK streak \in Nat : streak = StreakFromDailyScores(today, History) BY <1>1, StreakIs
<1>3. CASE StreakLimit = 0 BY <1>2, <1>3 DEF Streaks
<1>4. CASE StreakLimit # 0
  <2>1. \A e \in (today - StreakLimit + 1)..today : e >= 1
    <3> SUFFICES ASSUME NEW e \in (today - StreakLimit + 1)..today PROVE e >= 1 OBVIOUS
    <3>1. PICK s \in snapshots : s.day = e BY DEF DayBelow
    <3>2. s.day \in Nat \ {0} BY DEF JourneysInv, JourneyTypes
    <3> QED BY <3>1, <3>2
  <2>2. today - StreakLimit + 1 \in (today - StreakLimit + 1)..today BY <1>1, <1>4
  <2>3. StreakLimit \in 1..today BY <1>1, <1>4, <2>1, <2>2
  <2>4. \A e \in (today - StreakLimit + 1)..today : DayBelow(e, History)
    <3> SUFFICES ASSUME NEW e \in (today - StreakLimit + 1)..today PROVE DayBelow(e, History) OBVIOUS
    <3>1. PICK s \in snapshots : s.day = e /\ s.below BY DEF DayBelow
    <3>2. s \in History BY <1>1, <3>1 DEF History
    <3> QED BY <3>1, <3>2 DEF DayBelow
  <2>5. StreakFromDailyScores(today, History) >= StreakLimit BY <1>1, <2>3, <2>4, StreakIs
  <2> QED BY <2>5 DEF Streaks
<1> QED BY <1>3, <1>4

(* The batch: of the rows met of a household, the first is the one rejected, as soon as   *)
(* there is another.                                                                      *)
SyncInv ==
    /\ offline \in Seq(Captured) /\ nextRow \in 1..(Len(offline) + 1)
    /\ seenRow \in [Captured -> Nat]
    /\ \A h \in Captured : /\ seenRow[h] < nextRow
                           /\ \A i \in DOMAIN offline : offline[i] = h /\ i < nextRow => seenRow[h] \in 1..i
                           /\ seenRow[h] # 0 => offline[seenRow[h]] = h
    /\ \A i \in DOMAIN offline : i \in rejected <=>
           i = seenRow[offline[i]] /\ \E j \in DOMAIN offline : i < j /\ j < nextRow /\ offline[j] = offline[i]

LEMMA SyncStarts == SyncInit => SyncInv
<1> SUFFICES ASSUME SyncInit PROVE SyncInv OBVIOUS
<1>1. PICK n \in 1..MaxBatch : offline \in [1..n -> Captured] BY DEF SyncInit
<1>2. n \in Nat OBVIOUS
<1>3. offline \in Seq(Captured) BY <1>1, <1>2
<1>4. Len(offline) \in Nat /\ DOMAIN offline = 1..Len(offline) BY <1>3, LenProperties
<1>5. nextRow = 1 /\ rejected = {} /\ seenRow = [h \in Captured |-> 0] BY DEF SyncInit
<1>6. \A i \in DOMAIN offline : ~(i < nextRow) BY <1>4, <1>5
<1>7. \A i \in DOMAIN offline : offline[i] \in Captured BY <1>1
<1>8. \A i \in DOMAIN offline : i # seenRow[offline[i]] BY <1>4, <1>5, <1>7
<1> QED BY <1>3, <1>4, <1>5, <1>6, <1>8 DEF SyncInv

LEMMA SyncStep == SyncInv /\ [SyncNext]_syncVars => SyncInv'
<1> SUFFICES ASSUME SyncInv, [SyncNext]_syncVars PROVE SyncInv' OBVIOUS
<1>1. /\ offline \in Seq(Captured) /\ nextRow \in 1..(Len(offline) + 1) /\ nextRow \in Nat
      /\ Len(offline) \in Nat /\ DOMAIN offline = 1..Len(offline)
      /\ \A i \in DOMAIN offline : offline[i] \in Captured
  BY LenProperties, ElementOfSeq DEF SyncInv
<1>2. CASE UNCHANGED syncVars BY <1>2 DEF SyncInv, syncVars
<1>3. CASE SyncRow
  <2>1. nextRow \in DOMAIN offline BY <1>1, <1>3 DEF SyncRow
  <2>2. PICK h \in Captured : h = offline[nextRow] BY <1>1, <2>1
  <2>3. nextRow' = nextRow + 1 /\ UNCHANGED offline BY <1>3 DEF SyncRow
  <2>4. nextRow' \in 1..(Len(offline') + 1) BY <1>1, <2>1, <2>3
  <2>5. CASE seenRow[h] # 0
    <3>1. rejected' = rejected \cup {seenRow[h]} /\ UNCHANGED seenRow BY <1>3, <2>2, <2>5 DEF SyncRow, Older
    <3>2. seenRow[h] \in Nat /\ seenRow[h] < nextRow /\ offline[seenRow[h]] = h BY <2>5 DEF SyncInv
    <3>3. ASSUME NEW k \in Captured
          PROVE  /\ seenRow'[k] < nextRow'
                 /\ \A i \in DOMAIN offline' : offline'[i] = k /\ i < nextRow' => seenRow'[k] \in 1..i
                 /\ seenRow'[k] # 0 => offline'[seenRow'[k]] = k
      <4>1. seenRow[k] \in Nat /\ seenRow[k] < nextRow BY DEF SyncInv
      <4>2. seenRow'[k] < nextRow' BY <1>1, <2>3, <3>1, <4>1
      <4>3. ASSUME NEW i \in DOMAIN offline, offline[i] = k, i < nextRow + 1 PROVE seenRow[k] \in 1..i
        <5>1. CASE i = nextRow BY <1>1, <2>2, <2>5, <3>2, <4>3, <5>1
        <5>2. CASE i # nextRow
          <6>1. i < nextRow BY <1>1, <4>3, <5>2
          <6> QED BY <4>3, <6>1 DEF SyncInv
        <5> QED BY <5>1, <5>2
      <4> QED BY <2>3, <3>1, <4>2, <4>3 DEF SyncInv
    <3>4. ASSUME NEW i \in DOMAIN offline
          PROVE  i \in rejected' <=>
                     i = seenRow[offline[i]] /\ \E j \in DOMAIN offline : i < j /\ j < nextRow + 1 /\ offline[j] = offline[i]
      <4>1. ASSUME i \in rejected'
            PROVE  i = seenRow[offline[i]] /\ \E j \in DOMAIN offline : i < j /\ j < nextRow + 1 /\ offline[j] = offline[i]
        <5>1. CASE i \in rejected
          <6>1. PICK j \in DOMAIN offline : i < j /\ j < nextRow /\ offline[j] = offline[i] BY <5>1 DEF SyncInv
          <6>2. j < nextRow + 1 BY <1>1, <6>1
          <6> QED BY <5>1, <6>1, <6>2 DEF SyncInv
        <5>2. CASE i = seenRow[h]
          <6>1. nextRow < nextRow + 1 BY <1>1
          <6> QED BY <2>1, <2>2, <3>2, <5>2, <6>1
        <5> QED BY <3>1, <4>1, <5>1, <5>2
      <4>2. ASSUME i = seenRow[offline[i]], NEW j \in DOMAIN offline, i < j, j < nextRow + 1, offline[j] = offline[i]
            PROVE  i \in rejected'
        <5>1. CASE j = nextRow BY <2>2, <3>1, <4>2, <5>1
        <5>2. CASE j # nextRow
          <6>1. j < nextRow BY <1>1, <4>2, <5>2
          <6> QED BY <3>1, <4>2, <6>1 DEF SyncInv
        <5> QED BY <5>1, <5>2
      <4> QED BY <4>1, <4>2
    <3> QED BY <1>1, <2>3, <2>4, <3>1, <3>3, <3>4 DEF SyncInv
  <2>6. CASE seenRow[h] = 0
    <3>1. UNCHANGED rejected /\ seenRow' = [seenRow EXCEPT ![h] = nextRow] BY <1>3, <2>2, <2>6 DEF SyncRow
    <3>2. seenRow' \in [Captured -> Nat] /\ seenRow'[h] = nextRow /\ \A k \in Captured : k # h => seenRow'[k] = seenRow[k]
      BY <1>1, <3>1 DEF SyncInv
    <3>3. \A i \in DOMAIN offline : offline[i] = h => i >= nextRow
      <4> SUFFICES ASSUME NEW i \in DOMAIN offline, offline[i] = h, i < nextRow PROVE FALSE BY <1>1
      <4>1. seenRow[h] \in 1..i BY DEF SyncInv
      <4> QED BY <2>6, <4>1
    <3>4. ASSUME NEW k \in Captured
          PROVE  /\ seenRow'[k] < nextRow'
                 /\ \A i \in DOMAIN offline' : offline'[i] = k /\ i < nextRow' => seenRow'[k] \in 1..i
                 /\ seenRow'[k] # 0 => offline'[seenRow'[k]] = k
      <4>1. CASE k = h
        <5>1. seenRow'[k] < nextRow' BY <1>1, <2>3, <3>2, <4>1
        <5>2. \A i \in DOMAIN offline' : offline'[i] = k /\ i < nextRow' => seenRow'[k] \in 1..i
          BY <1>1, <2>3, <3>2, <3>3, <4>1
        <5> QED BY <2>2, <2>3, <3>2, <4>1, <5>1, <5>2
      <4>2. CASE k # h
        <5>1. seenRow[k] \in Nat /\ seenRow[k] < nextRow BY DEF SyncInv
        <5>2. seenRow'[k] < nextRow' BY <1>1, <2>3, <3>2, <4>2, <5>1
        <5>3. ASSUME NEW i \in DOMAIN offline, offline[i] = k, i < nextRow + 1 PROVE seenRow[k] \in 1..i
          <6>1. i # nextRow BY <2>2, <4>2, <5>3
          <6>2. i < nextRow BY <1>1, <5>3, <6>1
          <6> QED BY <5>3, <6>2 DEF SyncInv
        <5> QED BY <2>3, <3>2, <4>2, <5>2, <5>3 DEF SyncInv
      <4> QED BY <4>1, <4>2
    <3>5. ASSUME NEW i \in DOMAIN offline
          PROVE  i \in rejected' <=>
                     i = seenRow'[offline[i]] /\ \E j \in DOMAIN offline : i < j /\ j < nextRow + 1 /\ offline[j] = offline[i]
      <4>1. CASE offline[i] = h
        <5>1. i \notin rejected
          <6> SUFFICES ASSUME i \in rejected PROVE FALSE OBVIOUS
          <6>1. i = 0 BY <2>6, <4>1 DEF SyncInv
          <6> QED BY <1>1, <6>1
        <5>2. ~\E j \in DOMAIN offline : i < j /\ j < nextRow + 1 /\ offline[j] = offline[i]
          <6> SUFFICES ASSUME NEW j \in DOMAIN offline, i < j, j < nextRow + 1, offline[j] = h PROVE FALSE BY <4>1
          <6>1. i >= nextRow BY <3>3, <4>1
          <6> QED BY <1>1, <6>1
        <5> QED BY <3>1, <5>1, <5>2
      <4>2. CASE offline[i] # h
        <5>1. seenRow'[offline[i]] = seenRow[offline[i]] BY <1>1, <3>2, <4>2
        <5>2. \A j \in DOMAIN offline : offline[j] = offline[i] => (j < nextRow + 1 <=> j < nextRow)
          BY <1>1, <2>2, <4>2
        <5>3. i \in rejected <=>
                 i = seenRow[offline[i]] /\ \E j \in DOMAIN offline : i < j /\ j < nextRow /\ offline[j] = offline[i]
          BY DEF SyncInv
        <5> QED BY <3>1, <5>1, <5>2, <5>3
      <4> QED BY <4>1, <4>2
    <3> QED BY <1>1, <2>3, <2>4, <3>2, <3>4, <3>5 DEF SyncInv
  <2> QED BY <2>5, <2>6
<1> QED BY <1>2, <1>3 DEF SyncNext

LEMMA SurvivesBySync == SyncInv => NewestSurvives
<1> SUFFICES ASSUME SyncInv, nextRow > Len(offline), NEW i \in DOMAIN offline
             PROVE  /\ RowsOf(offline[i]) \ rejected # {}
                    /\ Cardinality(RowsOf(offline[i])) <= 2 => (i \notin rejected <=> \A j \in RowsOf(offline[i]) : j <= i)
  BY DEF NewestSurvives
<1>1. Len(offline) \in Nat /\ DOMAIN offline = 1..Len(offline) /\ offline[i] \in Captured
  BY LenProperties, ElementOfSeq DEF SyncInv
<1>2. PICK rows : rows = RowsOf(offline[i]) OBVIOUS
<1>3. rows \in SUBSET Nat /\ i \in rows /\ (\A j \in rows : j <= Len(offline)) BY <1>1, <1>2 DEF RowsOf
<1>4. \A j \in rows : j \in rejected => \E k \in rows : j < k BY <1>2 DEF RowsOf, SyncInv
<1>5. rows \ rejected # {}
  <2>1. PICK n \in rows : \A m \in rows : m <= n BY <1>1, <1>3, LargestOf
  <2>2. ~\E k \in rows : n < k BY <1>3, <2>1
  <2> QED BY <1>4, <2>1, <2>2
<1>6. ASSUME Cardinality(rows) <= 2 PROVE i \notin rejected <=> \A j \in rows : j <= i
  <2>1. ASSUME i \in rejected PROVE ~\A j \in rows : j <= i BY <1>3, <1>4, <2>1
  <2>2. ASSUME i \notin rejected, NEW j \in rows, ~(j <= i) PROVE FALSE
    <3>1. j \in DOMAIN offline /\ offline[j] = offline[i] /\ i < j /\ j < nextRow /\ i < nextRow
      BY <1>1, <1>2, <1>3, <2>2 DEF RowsOf, SyncInv
    <3>2. PICK k \in Nat : k = seenRow[offline[i]] BY <1>1 DEF SyncInv
    <3>3. k # i BY <2>2, <3>1, <3>2 DEF SyncInv
    <3>4. k \in 1..i /\ offline[k] = offline[i] BY <1>1, <3>1, <3>2 DEF SyncInv
    <3>5. k \in rows BY <1>1, <1>2, <3>4 DEF RowsOf
    <3>6. k # i /\ k # j /\ i # j BY <1>3, <3>1, <3>3, <3>4
    <3>7. IsFiniteSet(rows) BY <1>1, <1>3, FS_BoundedSetOfNaturals
    <3>8. Cardinality({k, i, j}) = 3
      <4>1. IsFiniteSet({k}) /\ Cardinality({k}) = 1 BY FS_Singleton
      <4>2. PICK one : one = {k} OBVIOUS
      <4>3. i \notin one /\ IsFiniteSet(one) /\ Cardinality(one) = 1 BY <3>6, <4>1, <4>2
      <4>4. IsFiniteSet(one \cup {i}) /\ Cardinality(one \cup {i}) = 1 + 1 BY <4>3, FS_AddElement
      <4>5. PICK two : two = one \cup {i} OBVIOUS
      <4>6. j \notin two /\ IsFiniteSet(two) /\ Cardinality(two) = 2 BY <3>6, <4>2, <4>4, <4>5
      <4>7. Cardinality(two \cup {j}) = 2 + 1 BY <4>6, FS_AddElement
      <4>8. two \cup {j} = {k, i, j} BY <4>2, <4>5
      <4>9. Cardinality({k, i, j}) = 2 + 1 BY <4>7, <4>8
      <4> QED BY <4>9
    <3>9. Cardinality({k, i, j}) <= Cardinality(rows) BY <1>3, <3>5, <3>7, FS_Subset
    <3>10. Cardinality(rows) \in Nat BY <3>7, FS_CardinalityType
    <3> QED BY <1>6, <3>8, <3>9, <3>10
  <2> QED BY <2>1, <2>2
<1> QED BY <1>2, <1>5, <1>6

\* A stored score was computed over runs of every journey, its streak is one the snapshots
\* show, a streak blocks the gate, and a batch keeps the newest row of every household
\* (tasks/validation_jobs.py, validation_engine/health.py, journey_service.py).
THEOREM JourneysAreSound == JourneysSpec => []JourneysHold
<1>1. JourneysInit => JourneysInv BY JourneysStart
<1>2. JourneysInv /\ [JourneysNext]_journeyVars => JourneysInv' BY JourneysStep
<1>3. SyncInit => SyncInv BY SyncStarts
<1>4. SyncInv /\ [SyncNext]_syncVars => SyncInv' BY SyncStep
<1>5. JourneysInv /\ SyncInv => JourneysHold
  BY FreshBySeen, EarnedByStreak, BlockedByStreak, SurvivesBySync DEF JourneysHold
<1> QED BY <1>1, <1>2, <1>3, <1>4, <1>5, PTL DEF JourneysSpec

-----------------------------------------------------------------------------
(* Knowledge.  The windows over a text, and what the requests that ingest it hold: the    *)
(* chunks one of them has inserted are there together or not at all.                      *)

LEMMA StepFitsWindow == ChunkStep \in Nat \ {0} /\ ChunkStep <= ChunkSize /\ ChunkSize \in Nat \ {0}
BY KnowledgeAssumption DEF ChunkStep

\* The window start at or before a word: the multiple of the step next below it.
LEMMA StartBefore ==
    ASSUME NEW w \in Nat
    PROVE  \E s \in Nat : s <= w /\ w < s + ChunkStep /\ s % ChunkStep = 0
<1>1. PICK t \in Nat \ {0} : t = ChunkStep BY StepFitsWindow
<1>2. w = t * (w \div t) + (w % t) /\ w \div t \in Nat OBVIOUS
<1>3. w % t \in 0..(t - 1) BY Z3
<1>4. PICK q \in Nat : q = w \div t BY <1>2
<1>5. PICK r \in 0..(t - 1) : r = w % t BY <1>3
<1>6. w = t * q + r BY <1>2, <1>4, <1>5
<1>7. PICK s \in Nat : s = t * q BY Z3
<1>8. s <= w /\ w < s + t BY <1>5, <1>6, <1>7
<1>9. s = q * t + 0 BY <1>7, Z3
<1>10. s % t = 0 BY <1>9, RestIs
<1> QED BY <1>1, <1>8, <1>10

\* The windows cover the text, and each ends after the one before it.
LEMMA WindowsCover ==
    ASSUME NEW n \in Nat
    PROVE  /\ ChunkStarts(n) \subseteq Nat
           /\ \A w \in 0..(n - 1) : \E s \in ChunkStarts(n) : s <= w /\ w < s + ChunkSize
           /\ \A s, t \in ChunkStarts(n) : s < t => s + ChunkSize < n
<1>1. ChunkSize \in Nat \ {0} /\ ChunkStep \in Nat \ {0} /\ ChunkStep <= ChunkSize BY StepFitsWindow
<1>2. CASE n = 0 BY <1>2 DEF ChunkStarts
<1>3. CASE n # 0 /\ n <= ChunkSize
  <2>1. ChunkStarts(n) = {0} BY <1>3 DEF ChunkStarts
  <2> QED BY <1>1, <1>3, <2>1
<1>4. CASE n > ChunkSize
  <2>1. ChunkStarts(n) = {s \in 0..(n - 1) : s % ChunkStep = 0 /\ \A t \in 0..(s - 1) :
                                                    t % ChunkStep = 0 => t + ChunkSize < n}
    BY <1>1, <1>4 DEF ChunkStarts
  <2>2. \A s, t \in ChunkStarts(n) : s < t => s + ChunkSize < n
    <3> SUFFICES ASSUME NEW s \in ChunkStarts(n), NEW t \in ChunkStarts(n), s < t PROVE s + ChunkSize < n
      OBVIOUS
    <3>1. s \in 0..(t - 1) /\ s % ChunkStep = 0 BY <2>1
    <3> QED BY <2>1, <3>1
  <2>3. ASSUME NEW w \in 0..(n - 1) PROVE \E s \in ChunkStarts(n) : s <= w /\ w < s + ChunkSize
    <3>1. PICK s \in Nat : s <= w /\ w < s + ChunkStep /\ s % ChunkStep = 0 BY StartBefore
    <3> DEFINE Late == {t \in 0..(s - 1) : t % ChunkStep = 0 /\ ~(t + ChunkSize < n)}
    <3>2. CASE Late = {}
      <4>1. \A t \in 0..(s - 1) : t % ChunkStep = 0 => t + ChunkSize < n BY <3>2
      <4>2. s \in 0..(n - 1) BY <3>1
      <4>3. s \in ChunkStarts(n) BY <2>1, <3>1, <4>1, <4>2
      <4>4. w < s + ChunkSize BY <1>1, <3>1
      <4> QED BY <3>1, <4>3, <4>4
    <3>3. CASE Late # {}
      <4>1. Late \in SUBSET Nat OBVIOUS
      <4>2. PICK t \in Late : \A u \in Late : t <= u BY <3>3, <4>1, LeastOf
      <4>3. t \in 0..(s - 1) /\ t % ChunkStep = 0 /\ ~(t + ChunkSize < n) OBVIOUS
      <4>4. \A u \in 0..(t - 1) : u % ChunkStep = 0 => u + ChunkSize < n
        <5> SUFFICES ASSUME NEW u \in 0..(t - 1), u % ChunkStep = 0, ~(u + ChunkSize < n) PROVE FALSE OBVIOUS
        <5>1. u \in Late BY <4>3
        <5>2. t <= u BY <4>2, <5>1
        <5> QED BY <4>3, <5>2
      <4>5. t \in 0..(n - 1) BY <3>1, <4>3
      <4>6. t \in ChunkStarts(n) BY <2>1, <4>3, <4>4, <4>5
      <4>7. t <= w /\ w < t + ChunkSize BY <1>1, <3>1, <4>3
      <4> QED BY <4>6, <4>7
    <3> QED BY <3>2, <3>3
  <2> QED BY <2>1, <2>2, <2>3
<1> QED BY <1>1, <1>2, <1>3, <1>4

ChunkRow == [by : Ingests, document : Ids, words : Nat, start : Nat]
IngestPlace == {"idle", "read", "flushed", "deleting", "embedding", "done", "failed"}
Started == {"read", "flushed", "deleting", "embedding"}
IngestRecord == [at : IngestPlace, id : Ids, text : Texts \cup {None}, seen : Texts \cup {None},
                 locks : BOOLEAN, victims : SUBSET ChunkRow, deleted : SUBSET ChunkRow]

\* Of the chunks a request inserts, S holds all or none.
Whole(S) ==
    /\ \A c \in S : c \in ChunksOf(c.by, ingest[c.by].id, ingest[c.by].text) /\ ingest[c.by].at = "done"
    /\ \A i \in Ingests : (\E c \in S : c.by = i) => ChunksOf(i, ingest[i].id, ingest[i].text) \subseteq S

KnowledgeTypes ==
    /\ library \in [Ids -> Texts \cup {None}]
    /\ chunks \in SUBSET ChunkRow
    /\ ingest \in [Ingests -> IngestRecord]
    /\ \A i \in Ingests : ingest[i].at # "idle" /\ ingest[i].at # "failed" => ingest[i].text \in Texts
    /\ \A i \in Ingests : ingest[i].at = "idle" => ~ingest[i].locks /\ ingest[i].deleted = {}
    /\ removals \in Nat

ChunksAreWhole ==
    /\ Whole(chunks)
    /\ \A i \in Ingests : Whole(ingest[i].victims) /\ Whole(ingest[i].deleted)

\* Nobody but lockers overlaps, and all hold the one document.
OnlyDocument(id) == Stored \subseteq {id}
LockersOverlap ==
    \A i, j \in Underway : i # j => ingest[i].seen \notin {None, ingest[i].text}
HeldDocument ==
    \A i \in Underway : OnlyDocument(ingest[i].id)
Consistent ==
    /\ \A id, other \in Stored : id = other
    /\ Stored = {} => chunks = {}
    /\ \A id \in Stored : \E i \in Ingests : chunks = ChunksOf(i, id, library[id])
    /\ \A c \in chunks : c.document \in Stored

\* What a request that is under way has read and deleted of it.
IngestFits(i) ==
    /\ ingest[i].seen = None => Stored = {} /\ ingest[i].id = i
    /\ ingest[i].seen = ingest[i].text => library[ingest[i].id] \in {None, ingest[i].seen}
    /\ ingest[i].at = "read" => ~ingest[i].locks
    /\ ingest[i].at # "read" => (ingest[i].locks <=> ingest[i].seen \notin {None, ingest[i].text})
    /\ ingest[i].locks => library[ingest[i].id] # None /\ \A j \in Underway \ {i} : ingest[j].at = "read"
    /\ ingest[i].at \in {"read", "flushed"} => ingest[i].deleted = {}
    /\ ingest[i].at = "deleting" => chunks \subseteq ingest[i].victims /\ ingest[i].deleted = {}
    /\ ingest[i].at = "embedding" => ingest[i].deleted = chunks

OneText ==
    ~unlocked => /\ LockersOverlap /\ HeldDocument /\ Consistent
                 /\ \A i \in Underway : IngestFits(i)

KnowledgeInv == KnowledgeTypes /\ ChunksAreWhole /\ OneText

LEMMA NoneIsNoText == None \notin Texts /\ Texts \subseteq Nat
BY KnowledgeAssumption DEF None

LEMMA ChunksAre ==
    ASSUME NEW i \in Ingests, NEW id \in Ids, NEW n \in Texts
    PROVE  /\ ChunksOf(i, id, n) \in SUBSET ChunkRow
           /\ \A c \in ChunksOf(i, id, n) : /\ c.by = i /\ c.document = id /\ c.words = n
                                            /\ c.start \in ChunkStarts(n)
           /\ {c.start : c \in ChunksOf(i, id, n)} = ChunkStarts(n)
           /\ ChunkStarts(n) = {} => ChunksOf(i, id, n) = {}
<1>1. n \in Nat BY NoneIsNoText
<1>2. ChunkStarts(n) \subseteq Nat BY <1>1, WindowsCover
<1>3. ChunksOf(i, id, n) = {[by |-> i, document |-> id, words |-> n, start |-> s] : s \in ChunkStarts(n)}
  BY DEF ChunksOf
<1>4. ChunksOf(i, id, n) \in SUBSET ChunkRow BY <1>1, <1>2, <1>3 DEF ChunkRow
<1>5. \A c \in ChunksOf(i, id, n) : c.by = i /\ c.document = id /\ c.words = n /\ c.start \in ChunkStarts(n)
  BY <1>3
<1>6. ASSUME NEW s \in ChunkStarts(n) PROVE \E c \in ChunksOf(i, id, n) : c.start = s
  <2>1. PICK c : c = [by |-> i, document |-> id, words |-> n, start |-> s] OBVIOUS
  <2>2. c \in ChunksOf(i, id, n) /\ c.start = s BY <1>3, <2>1
  <2> QED BY <2>2
<1>7. {c.start : c \in ChunksOf(i, id, n)} = ChunkStarts(n) BY <1>5, <1>6
<1>8. ChunkStarts(n) = {} => ChunksOf(i, id, n) = {} BY <1>3
<1> QED BY <1>4, <1>5, <1>7, <1>8

\* What is whole stays so while the requests that inserted it stay done.
LEMMA WholeStays ==
    ASSUME NEW S, Whole(S),
           \A i \in Ingests : ingest[i].at = "done" =>
               ingest'[i].at = "done" /\ ingest'[i].id = ingest[i].id /\ ingest'[i].text = ingest[i].text,
           S \subseteq ChunkRow
    PROVE  Whole(S)'
<1>1. \A c \in S : c.by \in Ingests BY DEF ChunkRow
<1> QED BY <1>1 DEF Whole

LEMMA WholeParts ==
    ASSUME KnowledgeTypes, NEW S \in SUBSET ChunkRow, NEW T \in SUBSET ChunkRow, Whole(S), Whole(T)
    PROVE  Whole(S \cap T) /\ Whole(S \ T)
<1>1. ASSUME NEW i \in Ingests, NEW c \in S, c.by = i, NEW d \in ChunksOf(i, ingest[i].id, ingest[i].text)
      PROVE  d.by = i
  BY DEF ChunksOf
<1>2. Whole(S \cap T) BY DEF Whole
<1>3. ASSUME NEW i \in Ingests, NEW c \in S \ T, c.by = i
      PROVE  ChunksOf(i, ingest[i].id, ingest[i].text) \subseteq S \ T
  <2>1. ChunksOf(i, ingest[i].id, ingest[i].text) \subseteq S BY <1>3 DEF Whole
  <2>2. ASSUME NEW d \in ChunksOf(i, ingest[i].id, ingest[i].text), d \in T PROVE FALSE
    <3>1. d.by = i BY <1>1, <1>3
    <3>2. ChunksOf(i, ingest[i].id, ingest[i].text) \subseteq T BY <2>2, <3>1 DEF Whole
    <3>3. c \in ChunksOf(i, ingest[i].id, ingest[i].text) BY <1>3 DEF Whole
    <3> QED BY <1>3, <3>2, <3>3
  <2> QED BY <2>1, <2>2
<1>4. Whole(S \ T) BY <1>3 DEF Whole
<1> QED BY <1>2, <1>4

\* The rows of one document are whole: the chunks of a request have one document.
LEMMA WholeDocument ==
    ASSUME NEW S, Whole(S), NEW id PROVE Whole({c \in S : c.document = id})
<1>1. ASSUME NEW i \in Ingests, NEW c \in S, c.by = i, NEW d \in ChunksOf(i, ingest[i].id, ingest[i].text)
      PROVE  d.document = c.document
  <2>1. c \in ChunksOf(i, ingest[i].id, ingest[i].text) BY <1>1 DEF Whole
  <2> QED BY <2>1 DEF ChunksOf
<1> QED BY <1>1 DEF Whole

\* A step that writes the request i and no other.
LEMMA IngestWritten ==
    ASSUME KnowledgeTypes, NEW i \in Ingests, NEW v \in IngestRecord, ingest' = [ingest EXCEPT ![i] = v]
    PROVE  /\ ingest' \in [Ingests -> IngestRecord] /\ ingest'[i] = v
           /\ \A j \in Ingests : j # i => ingest'[j] = ingest[j]
BY DEF KnowledgeTypes

LEMMA UnderwayIs == KnowledgeTypes => Underway = {i \in Ingests : ingest[i].at \in Started}
BY DEF KnowledgeTypes, Underway, IngestRecord, IngestPlace, Started

\* The same, for the rows that are there together or not at all.
LEMMA WholeWritten ==
    ASSUME KnowledgeTypes, ChunksAreWhole, NEW i \in Ingests, NEW v \in IngestRecord,
           ingest' = [ingest EXCEPT ![i] = v], ingest[i].at # "done",
           Whole(chunks)' \/ UNCHANGED chunks,
           Whole(v.victims), Whole(v.deleted)
    PROVE  ChunksAreWhole'
<1>1. /\ ingest' \in [Ingests -> IngestRecord] /\ ingest'[i] = v
      /\ \A j \in Ingests : j # i => ingest'[j] = ingest[j]
  BY IngestWritten
<1>2. \A j \in Ingests : ingest[j].at = "done" =>
          ingest'[j].at = "done" /\ ingest'[j].id = ingest[j].id /\ ingest'[j].text = ingest[j].text
  BY <1>1
<1>3. ASSUME NEW S, S \subseteq ChunkRow, Whole(S) PROVE Whole(S)' BY <1>2, <1>3, WholeStays
<1>4. chunks \subseteq ChunkRow /\ v.victims \subseteq ChunkRow /\ v.deleted \subseteq ChunkRow
      /\ \A j \in Ingests : ingest[j].victims \subseteq ChunkRow /\ ingest[j].deleted \subseteq ChunkRow
  BY DEF KnowledgeTypes, IngestRecord
<1>5. Whole(chunks)'
  <2>1. CASE UNCHANGED chunks
    <3>1. PICK S : S = chunks OBVIOUS
    <3>2. Whole(S)' BY <1>3, <1>4, <3>1 DEF ChunksAreWhole
    <3>3. chunks' = S BY <2>1, <3>1
    <3> QED BY <3>2, <3>3 DEF Whole
  <2> QED BY <2>1
<1>6. ASSUME NEW j \in Ingests PROVE Whole(ingest[j].victims)' /\ Whole(ingest[j].deleted)'
  <2>1. PICK S, T : S = ingest'[j].victims /\ T = ingest'[j].deleted OBVIOUS
  <2>2. Whole(S) /\ Whole(T) /\ S \subseteq ChunkRow /\ T \subseteq ChunkRow
    <3>1. CASE j = i BY <1>1, <1>4, <2>1, <3>1
    <3>2. CASE j # i BY <1>1, <1>4, <2>1, <3>2 DEF ChunksAreWhole
    <3> QED BY <3>1, <3>2
  <2>3. Whole(S)' /\ Whole(T)' BY <1>3, <2>2
  <2> QED BY <2>1, <2>3 DEF Whole
<1> QED BY <1>5, <1>6 DEF ChunksAreWhole

LEMMA NothingIsWhole == Whole({})
BY DEF Whole

LEMMA KnowledgeStarts == KnowledgeInit => KnowledgeInv
<1> SUFFICES ASSUME KnowledgeInit PROVE KnowledgeInv OBVIOUS
<1>1. /\ library = [id \in Ids |-> None] /\ chunks = {} /\ removals = 0
      /\ ingest = [i \in Ingests |-> [at |-> "idle", id |-> i, text |-> None, seen |-> None,
                                      locks |-> FALSE, victims |-> {}, deleted |-> {}]]
  BY DEF KnowledgeInit
<1>2. ingest \in [Ingests -> IngestRecord] BY <1>1 DEF IngestRecord, IngestPlace, Ids
<1>3. \A i \in Ingests : ingest[i].at = "idle" /\ ingest[i].victims = {} /\ ingest[i].deleted = {} BY <1>1
<1>4. KnowledgeTypes BY <1>1, <1>2, <1>3 DEF KnowledgeTypes
<1>5. ChunksAreWhole BY <1>1, <1>3, NothingIsWhole DEF ChunksAreWhole
<1>6. Underway = {} /\ Stored = {} BY <1>1, <1>3 DEF Underway, Stored
<1>7. OneText BY <1>1, <1>6 DEF OneText, LockersOverlap, HeldDocument, Consistent
<1> QED BY <1>4, <1>5, <1>7 DEF KnowledgeInv

\* Where only the request i moves on, and the document and its chunks stay.
LEMMA OneTextMoves ==
    ASSUME KnowledgeInv, NEW i \in Ingests, NEW v \in IngestRecord, ingest' = [ingest EXCEPT ![i] = v],
           UNCHANGED <<library, chunks, unlocked>>, i \in Underway,
           v.id = ingest[i].id, v.seen = ingest[i].seen, v.text = ingest[i].text,
           ~unlocked /\ v.at \in Started => IngestFits(i)',
           v.at \in IngestPlace \ {"idle"},
           v.at \in Started => v.at # "read",
           v.at \in Started /\ ingest[i].at = "read" /\ v.locks =>
               \A j \in Underway \ {i} : ~unlocked => ingest[j].at = "read",
           v.at \in Started /\ ingest[i].at # "read" => v.locks = ingest[i].locks
    PROVE  OneText'
<1> SUFFICES ASSUME ~unlocked PROVE /\ LockersOverlap' /\ HeldDocument' /\ Consistent'
                                    /\ \A j \in Underway' : IngestFits(j)'
  BY DEF OneText
<1>1. KnowledgeTypes /\ LockersOverlap /\ HeldDocument /\ Consistent /\ \A j \in Underway : IngestFits(j)
  BY DEF KnowledgeInv, OneText
<1>2. /\ ingest'[i] = v /\ \A j \in Ingests : j # i => ingest'[j] = ingest[j]
  BY <1>1, IngestWritten
<1>3. Underway' \subseteq Underway /\ (i \in Underway' => v.at \in Started)
  BY <1>1, <1>2 DEF Underway, Started, IngestRecord, IngestPlace
<1>4. UNCHANGED Stored BY DEF Stored
<1>5. LockersOverlap' BY <1>1, <1>2, <1>3 DEF LockersOverlap, Underway
<1>6. HeldDocument' BY <1>1, <1>2, <1>3, <1>4 DEF HeldDocument, OnlyDocument, Underway
<1>7. Consistent' BY <1>1, <1>4 DEF Consistent
<1>8. ASSUME NEW j \in Underway', j # i PROVE IngestFits(j)'
  <2>1. IngestFits(j) /\ j \in Underway /\ j \in Ingests BY <1>1, <1>3, <1>8 DEF Underway
  <2>2. ingest'[j] = ingest[j] BY <1>2, <1>8, <2>1
  <2>3. ingest[j].locks => \A k \in Underway' \ {j} : ingest'[k].at = "read"
    <3> SUFFICES ASSUME ingest[j].locks, NEW k \in Underway' \ {j} PROVE ingest'[k].at = "read" OBVIOUS
    <3>1. \A u \in Underway \ {j} : ingest[u].at = "read" BY <2>1 DEF IngestFits
    <3>2. CASE k # i BY <1>2, <1>3, <3>1, <3>2 DEF Underway
    <3>3. CASE k = i
      <4>1. ingest[i].at = "read" /\ v.at \in Started BY <1>3, <1>8, <3>1, <3>3
      <4>2. ingest[j].at # "read" BY <2>1 DEF IngestFits
      <4>3. v.locks
        <5>1. IngestFits(i)' BY <4>1
        <5>2. ingest[i].seen \notin {None, ingest[i].text} BY <1>1, <1>8, <2>1 DEF LockersOverlap
        <5> QED BY <1>2, <4>1, <5>1, <5>2 DEF IngestFits
      <4> QED BY <1>8, <2>1, <4>1, <4>2, <4>3
    <3> QED BY <3>2, <3>3
  <2> QED BY <1>4, <2>1, <2>2, <2>3 DEF IngestFits
<1>9. i \in Underway' => IngestFits(i)' BY <1>3
<1> QED BY <1>5, <1>6, <1>7, <1>8, <1>9

LEMMA KnowledgeTyped ==
    ASSUME KnowledgeInv, NEW i \in Ingests, NEW v \in IngestRecord, ingest' = [ingest EXCEPT ![i] = v],
           library' \in [Ids -> Texts \cup {None}], chunks' \in SUBSET ChunkRow, UNCHANGED removals,
           v.at # "idle", v.at # "failed" => v.text \in Texts
    PROVE  KnowledgeTypes'
<1>1. KnowledgeTypes BY DEF KnowledgeInv
<1>2. /\ ingest' \in [Ingests -> IngestRecord] /\ ingest'[i] = v
      /\ \A j \in Ingests : j # i => ingest'[j] = ingest[j]
  BY <1>1, IngestWritten
<1> QED BY <1>1, <1>2 DEF KnowledgeTypes

\* What is known of a request that is under way.
LEMMA UnderwayFacts ==
    ASSUME KnowledgeInv, NEW i \in Ingests, ingest[i].at \in Started
    PROVE  /\ i \in Underway /\ KnowledgeTypes /\ ChunksAreWhole /\ ingest[i].text \in Texts
           /\ Whole(ingest[i].victims) /\ Whole(ingest[i].deleted)
           /\ ~unlocked => /\ IngestFits(i) /\ Stored \subseteq {ingest[i].id} /\ Consistent /\ LockersOverlap
                           /\ \A j \in Underway : IngestFits(j) /\ Stored \subseteq {ingest[j].id}
<1>1. i \in Underway BY DEF Started, Underway
<1>2. KnowledgeTypes /\ ChunksAreWhole BY DEF KnowledgeInv
<1>3. ingest[i].text \in Texts BY <1>2 DEF KnowledgeTypes, Started
<1>4. ~unlocked => /\ IngestFits(i) /\ Stored \subseteq {ingest[i].id} /\ Consistent /\ LockersOverlap
                   /\ \A j \in Underway : IngestFits(j) /\ Stored \subseteq {ingest[j].id}
  BY <1>1 DEF KnowledgeInv, OneText, HeldDocument, OnlyDocument
<1> QED BY <1>1, <1>2, <1>3, <1>4 DEF ChunksAreWhole

LEMMA ReadDocumentKept ==
    ASSUME KnowledgeInv, NEW i \in Ingests, NEW n \in Texts, ReadDocument(i, n) PROVE KnowledgeInv'
<1>1. KnowledgeTypes /\ ChunksAreWhole /\ OneText BY DEF KnowledgeInv
<1>2. PICK t \in IngestRecord : t = ingest[i] /\ t.at = "idle" BY <1>1 DEF KnowledgeTypes, ReadDocument
<1>3. UNCHANGED <<library, chunks, removals>> BY DEF ReadDocument
<1>4. Underway = {j \in Ingests : ingest[j].at \in Started} BY <1>1, UnderwayIs
<1>5. CASE Cardinality(Stored) > 1
  <2>1. PICK v : v = [t EXCEPT !.at = "failed"] OBVIOUS
  <2>2. v \in IngestRecord /\ v.at = "failed" /\ v.victims = t.victims /\ v.deleted = t.deleted
    BY <2>1 DEF IngestRecord, IngestPlace
  <2>3. ingest' = [ingest EXCEPT ![i] = v] BY <1>2, <1>5, <2>1 DEF ReadDocument
  <2>4. KnowledgeTypes' BY <1>1, <1>3, <2>2, <2>3, KnowledgeTyped DEF KnowledgeTypes
  <2>5. ChunksAreWhole'
    <3>1. Whole(v.victims) /\ Whole(v.deleted) BY <1>1, <1>2, <2>2 DEF ChunksAreWhole
    <3> QED BY <1>1, <1>2, <1>3, <2>2, <2>3, <3>1, WholeWritten
  <2>6. OneText'
    <3> SUFFICES ASSUME ~unlocked' PROVE FALSE BY DEF OneText
    <3>1. ~unlocked BY DEF ReadDocument
    <3>2. \A id, other \in Stored : id = other BY <1>1, <3>1 DEF OneText, Consistent
    <3>3. IsFiniteSet(Stored) /\ Cardinality(Stored) <= 1 /\ Cardinality(Stored) \in Nat
      <4>1. CASE Stored = {} BY <4>1, FS_EmptySet
      <4>2. CASE Stored # {}
        <5>1. PICK u : Stored = {u} BY <3>2, <4>2
        <5>2. IsFiniteSet({u}) /\ Cardinality({u}) = 1 BY FS_Singleton
        <5> QED BY <5>1, <5>2
      <4> QED BY <4>1, <4>2
    <3> QED BY <1>5, <3>3
  <2> QED BY <2>4, <2>5, <2>6 DEF KnowledgeInv
<1>6. CASE ~(Cardinality(Stored) > 1)
  <2>1. PICK id \in Ids : id = IF Stored = {} THEN i ELSE CHOOSE d \in Stored : TRUE BY DEF Stored, Ids
  <2>2. PICK seen \in Texts \cup {None} : seen = library[id] BY <1>1 DEF KnowledgeTypes
  <2>3. PICK v : v = [t EXCEPT !.at = "read", !.id = id, !.text = n, !.seen = seen] OBVIOUS
  <2>4. /\ v \in IngestRecord /\ v.at = "read" /\ v.victims = t.victims /\ v.deleted = t.deleted
        /\ v.id = id /\ v.text = n /\ v.seen = seen /\ v.locks = t.locks
    BY <2>2, <2>3 DEF IngestRecord, IngestPlace
  <2>5. ingest' = [ingest EXCEPT ![i] = v] BY <1>2, <1>6, <2>1, <2>2, <2>3 DEF ReadDocument
  <2>6. /\ ingest' \in [Ingests -> IngestRecord] /\ ingest'[i] = v
        /\ \A j \in Ingests : j # i => ingest'[j] = ingest[j]
    BY <1>1, <2>4, <2>5, IngestWritten
  <2>7. KnowledgeTypes' BY <1>1, <1>3, <2>4, <2>5, KnowledgeTyped DEF KnowledgeTypes
  <2>8. ChunksAreWhole'
    <3>1. Whole(v.victims) /\ Whole(v.deleted) BY <1>1, <1>2, <2>4 DEF ChunksAreWhole
    <3> QED BY <1>1, <1>2, <1>3, <2>4, <2>5, <3>1, WholeWritten
  <2>9. OneText'
    <3> SUFFICES ASSUME ~unlocked' PROVE /\ LockersOverlap' /\ HeldDocument' /\ Consistent'
                                         /\ \A j \in Underway' : IngestFits(j)'
      BY DEF OneText
    <3>1. ~unlocked /\ LockersOverlap /\ HeldDocument /\ Consistent /\ \A j \in Underway : IngestFits(j)
      BY <1>1 DEF OneText, ReadDocument
    <3>2. Underway = {} \/ \A j \in Underway \cup {i} : ingest'[j].seen \notin {ingest'[j].text, None}
      BY DEF ReadDocument
    <3>3. Underway' = Underway \cup {i} /\ i \notin Underway
      BY <1>2, <1>4, <2>4, <2>6, <2>7, UnderwayIs DEF Underway, Started
    <3>4. UNCHANGED Stored BY <1>3 DEF Stored
    <3>5. id \in Stored \/ (Stored = {} /\ id = i) BY <2>1
    <3>6. Stored \subseteq {id} BY <3>1, <3>5 DEF Consistent
    <3>7. LockersOverlap' BY <3>2, <3>3, <2>6 DEF LockersOverlap
    <3>8. HeldDocument'
      <4>1. \A j \in Underway : Stored \subseteq {ingest[j].id} BY <3>1 DEF HeldDocument, OnlyDocument
      <4> QED BY <2>4, <2>6, <3>3, <3>4, <3>6, <4>1, <1>4 DEF HeldDocument, OnlyDocument
    <3>9. Consistent' BY <1>3, <3>1, <3>4 DEF Consistent
    <3>10. IngestFits(i)'
      <4>1. ~t.locks /\ t.deleted = {} BY <1>1, <1>2 DEF KnowledgeTypes
      <4>2. seen = None => Stored = {} BY <2>2, <3>5 DEF Stored
      <4> QED BY <1>3, <2>2, <2>4, <2>6, <3>4, <3>5, <4>1, <4>2 DEF IngestFits
    <3>11. ASSUME NEW j \in Underway PROVE IngestFits(j)'
      <4>1. j \in Ingests /\ ingest'[j] = ingest[j] BY <1>4, <2>6, <3>3
      <4>2. \A k \in Underway' \ {j} : (k \in Underway \ {j} /\ ingest'[k] = ingest[k]) \/ (k = i /\ ingest'[k].at = "read")
        BY <1>4, <2>4, <2>6, <3>3
      <4>3. IngestFits(j) BY <3>1
      <4>4. UNCHANGED <<library, chunks, Stored>> BY <1>3, <3>4
      <4>5. ingest[j].locks => \A k \in Underway' \ {j} : ingest'[k].at = "read" BY <4>2, <4>3 DEF IngestFits
      <4> QED BY <4>1, <4>3, <4>4, <4>5 DEF IngestFits
    <3> QED BY <3>3, <3>7, <3>8, <3>9, <3>10, <3>11
  <2> QED BY <2>7, <2>8, <2>9 DEF KnowledgeInv
<1> QED BY <1>5, <1>6

LEMMA FlushKept == ASSUME KnowledgeInv, NEW i \in Ingests, Flush(i) PROVE KnowledgeInv'
<1>1. ingest[i].at = "read" /\ UNCHANGED <<library, chunks, unlocked, removals>> BY DEF Flush
<1>2. /\ i \in Underway /\ KnowledgeTypes /\ ChunksAreWhole /\ ingest[i].text \in Texts
      /\ Whole(ingest[i].victims) /\ Whole(ingest[i].deleted)
      /\ ~unlocked => /\ IngestFits(i) /\ Stored \subseteq {ingest[i].id} /\ LockersOverlap
                      /\ \A j \in Underway : IngestFits(j) /\ Stored \subseteq {ingest[j].id}
  BY <1>1, UnderwayFacts DEF Started
<1>3. PICK t \in IngestRecord : t = ingest[i] BY <1>2 DEF KnowledgeTypes
<1>4. PICK v \in IngestRecord :
          /\ ingest' = [ingest EXCEPT ![i] = v] /\ v.id = t.id /\ v.seen = t.seen /\ v.text = t.text
          /\ v.victims = t.victims /\ v.deleted = t.deleted
          /\ \/ v.at = "failed"
             \/ v.at = "flushed" /\ t.seen \in {None, t.text} /\ v.locks = t.locks
             \/ /\ v.at = "flushed" /\ t.seen \notin {None, t.text} /\ v.locks = TRUE
                /\ LockIsFree(i) /\ library[t.id] # None
  <2>1. CASE t.seen \in {None, t.text}
    <3>1. PICK v : v = [t EXCEPT !.at = "flushed"] OBVIOUS
    <3>2. ingest' = [ingest EXCEPT ![i] = v] BY <1>3, <2>1, <3>1 DEF Flush
    <3>3. /\ v \in IngestRecord /\ v.id = t.id /\ v.seen = t.seen /\ v.text = t.text
          /\ v.victims = t.victims /\ v.deleted = t.deleted /\ v.at = "flushed" /\ v.locks = t.locks
      BY <3>1 DEF IngestRecord, IngestPlace
    <3> QED BY <2>1, <3>2, <3>3
  <2>2. CASE t.seen \notin {None, t.text} /\ library[t.id] = None
    <3>1. PICK v : v = [t EXCEPT !.at = "failed"] OBVIOUS
    <3>2. ingest' = [ingest EXCEPT ![i] = v] BY <1>3, <2>2, <3>1 DEF Flush
    <3>3. /\ v \in IngestRecord /\ v.id = t.id /\ v.seen = t.seen /\ v.text = t.text
          /\ v.victims = t.victims /\ v.deleted = t.deleted /\ v.at = "failed"
      BY <3>1 DEF IngestRecord, IngestPlace
    <3> QED BY <3>2, <3>3
  <2>3. CASE t.seen \notin {None, t.text} /\ library[t.id] # None
    <3>1. PICK v : v = [t EXCEPT !.at = "flushed", !.locks = TRUE] OBVIOUS
    <3>2. ingest' = [ingest EXCEPT ![i] = v] /\ LockIsFree(i) BY <1>3, <2>3, <3>1 DEF Flush
    <3>3. /\ v \in IngestRecord /\ v.id = t.id /\ v.seen = t.seen /\ v.text = t.text
          /\ v.victims = t.victims /\ v.deleted = t.deleted /\ v.at = "flushed" /\ v.locks = TRUE
      BY <3>1 DEF IngestRecord, IngestPlace
    <3> QED BY <2>3, <3>2, <3>3
  <2> QED BY <2>1, <2>2, <2>3
<1>5. /\ ingest' \in [Ingests -> IngestRecord] /\ ingest'[i] = v
      /\ \A j \in Ingests : j # i => ingest'[j] = ingest[j]
  BY <1>2, <1>4, IngestWritten
<1>6. KnowledgeTypes' BY <1>1, <1>2, <1>3, <1>4, KnowledgeTyped DEF KnowledgeTypes
<1>7. ChunksAreWhole' BY <1>1, <1>2, <1>3, <1>4, WholeWritten
<1>8. ~unlocked /\ v.locks /\ v.at = "flushed" => \A j \in Underway \ {i} : ingest[j].at = "read"
  <2> SUFFICES ASSUME ~unlocked, v.locks, v.at = "flushed", NEW j \in Underway \ {i} PROVE ingest[j].at = "read"
    OBVIOUS
  <2>1. ~t.locks BY <1>1, <1>2, <1>3 DEF IngestFits
  <2>2. t.seen \notin {None, t.text} /\ LockIsFree(i) /\ library[t.id] # None BY <1>4, <2>1
  <2>3. j \in Ingests /\ IngestFits(j) /\ Stored \subseteq {ingest[j].id} BY <1>2 DEF Underway
  <2>4. ASSUME ingest[j].at # "read" PROVE FALSE
    <3>1. ingest[j].seen \notin {None, ingest[j].text} BY <1>2 DEF LockersOverlap
    <3>2. ingest[j].locks BY <2>3, <2>4, <3>1 DEF IngestFits
    <3>3. t.id \in Stored
      <4>1. t.id \in Ids BY DEF IngestRecord
      <4> QED BY <2>2, <4>1 DEF Stored
    <3>4. ingest[j].id = ingest[i].id BY <1>3, <2>3, <3>3
    <3> QED BY <2>2, <3>2, <3>4 DEF LockIsFree
  <2> QED BY <2>4
<1>9. ~unlocked /\ v.at \in Started => IngestFits(i)'
  <2> SUFFICES ASSUME ~unlocked, v.at \in Started PROVE IngestFits(i)' OBVIOUS
  <2>1. v.at = "flushed" BY <1>4 DEF Started
  <2>2. IngestFits(i) /\ ~t.locks BY <1>1, <1>2, <1>3 DEF IngestFits
  <2>3. UNCHANGED Stored BY <1>1 DEF Stored
  <2>4. \A j \in Underway' \ {i} : j \in Underway /\ ingest'[j] = ingest[j] BY <1>5 DEF Underway
  <2>5. v.locks => library[v.id] # None /\ \A j \in Underway' \ {i} : ingest'[j].at = "read"
    BY <1>4, <1>8, <2>1, <2>2, <2>4
  <2>6. v.locks <=> v.seen \notin {None, v.text} BY <1>4, <2>1, <2>2
  <2> QED BY <1>1, <1>3, <1>4, <1>5, <2>1, <2>2, <2>3, <2>5, <2>6 DEF IngestFits
<1>10. OneText'
  <2>1. v.at \in IngestPlace \ {"idle"} /\ v.at # "read" BY <1>4 DEF IngestPlace
  <2>2. v.at \in Started => v.at = "flushed" BY <1>4 DEF Started
  <2> QED BY <1>1, <1>2, <1>3, <1>4, <1>8, <1>9, <2>1, <2>2, OneTextMoves
<1> QED BY <1>6, <1>7, <1>10 DEF KnowledgeInv

\* Where nothing is stored but the document of the request, its rows are all the rows.
LEMMA ItsRows ==
    ASSUME Consistent, NEW id, Stored \subseteq {id}
    PROVE  {c \in chunks : c.document = id} = chunks
BY DEF Consistent

LEMMA StartDeleteKept == ASSUME KnowledgeInv, NEW i \in Ingests, StartDelete(i) PROVE KnowledgeInv'
<1>1. ingest[i].at = "flushed" /\ UNCHANGED <<library, chunks, unlocked, removals>> BY DEF StartDelete
<1>2. /\ i \in Underway /\ KnowledgeTypes /\ ChunksAreWhole /\ ingest[i].text \in Texts
      /\ Whole(ingest[i].victims) /\ Whole(ingest[i].deleted)
      /\ ~unlocked => IngestFits(i) /\ Stored \subseteq {ingest[i].id} /\ Consistent
  BY <1>1, UnderwayFacts DEF Started
<1>3. PICK t \in IngestRecord : t = ingest[i] BY <1>2 DEF KnowledgeTypes
<1>4. PICK R : R = {c \in chunks : c.document = t.id} OBVIOUS
<1>5. R \in SUBSET ChunkRow BY <1>2, <1>4 DEF KnowledgeTypes
<1>6. PICK v : v = [t EXCEPT !.at = "deleting", !.victims = R] OBVIOUS
<1>7. /\ v \in IngestRecord /\ v.id = t.id /\ v.seen = t.seen /\ v.text = t.text
      /\ v.victims = R /\ v.deleted = t.deleted /\ v.at = "deleting" /\ v.locks = t.locks
  BY <1>5, <1>6 DEF IngestRecord, IngestPlace
<1>8. ingest' = [ingest EXCEPT ![i] = v] BY <1>3, <1>4, <1>6 DEF StartDelete
<1>9. /\ ingest' \in [Ingests -> IngestRecord] /\ ingest'[i] = v
      /\ \A j \in Ingests : j # i => ingest'[j] = ingest[j]
  BY <1>2, <1>7, <1>8, IngestWritten
<1>10. KnowledgeTypes' BY <1>1, <1>2, <1>3, <1>7, <1>8, KnowledgeTyped DEF KnowledgeTypes
<1>11. ChunksAreWhole'
  <2>1. Whole(R) BY <1>2, <1>4, WholeDocument DEF ChunksAreWhole
  <2> QED BY <1>1, <1>2, <1>3, <1>7, <1>8, <2>1, WholeWritten
<1>12. ~unlocked => IngestFits(i)'
  <2> SUFFICES ASSUME ~unlocked PROVE IngestFits(i)' OBVIOUS
  <2>1. IngestFits(i) /\ R = chunks BY <1>2, <1>3, <1>4, ItsRows
  <2>2. UNCHANGED Stored BY <1>1 DEF Stored
  <2>3. \A j \in Underway' \ {i} : j \in Underway \ {i} /\ ingest'[j] = ingest[j] BY <1>9 DEF Underway
  <2>4. v.locks => \A j \in Underway' \ {i} : ingest'[j].at = "read" BY <1>3, <1>7, <2>1, <2>3 DEF IngestFits
  <2> QED BY <1>1, <1>3, <1>7, <1>9, <2>1, <2>2, <2>4 DEF IngestFits
<1>13. OneText'
  <2>1. v.at \in IngestPlace \ {"idle"} /\ v.at # "read" BY <1>7 DEF IngestPlace
  <2> QED BY <1>1, <1>2, <1>3, <1>7, <1>8, <1>12, <2>1, OneTextMoves
<1> QED BY <1>10, <1>11, <1>13 DEF KnowledgeInv

LEMMA FinishDeleteKept == ASSUME KnowledgeInv, NEW i \in Ingests, FinishDelete(i) PROVE KnowledgeInv'
<1>1. ingest[i].at = "deleting" /\ UNCHANGED <<library, chunks, unlocked, removals>> BY DEF FinishDelete
<1>2. /\ i \in Underway /\ KnowledgeTypes /\ ChunksAreWhole /\ ingest[i].text \in Texts
      /\ Whole(ingest[i].victims) /\ Whole(ingest[i].deleted)
      /\ ~unlocked => IngestFits(i) /\ Stored \subseteq {ingest[i].id} /\ Consistent
  BY <1>1, UnderwayFacts DEF Started
<1>3. PICK t \in IngestRecord : t = ingest[i] BY <1>2 DEF KnowledgeTypes
<1>4. PICK R : R = t.victims \cap chunks OBVIOUS
<1>5. R \in SUBSET ChunkRow BY <1>2, <1>4 DEF KnowledgeTypes
<1>6. PICK v : v = [t EXCEPT !.at = "embedding", !.deleted = R] OBVIOUS
<1>7. /\ v \in IngestRecord /\ v.id = t.id /\ v.seen = t.seen /\ v.text = t.text
      /\ v.victims = t.victims /\ v.deleted = R /\ v.at = "embedding" /\ v.locks = t.locks
  BY <1>5, <1>6 DEF IngestRecord, IngestPlace
<1>8. ingest' = [ingest EXCEPT ![i] = v] BY <1>3, <1>4, <1>6 DEF FinishDelete
<1>9. /\ ingest' \in [Ingests -> IngestRecord] /\ ingest'[i] = v
      /\ \A j \in Ingests : j # i => ingest'[j] = ingest[j]
  BY <1>2, <1>7, <1>8, IngestWritten
<1>10. KnowledgeTypes' BY <1>1, <1>2, <1>3, <1>7, <1>8, KnowledgeTyped DEF KnowledgeTypes
<1>11. ChunksAreWhole'
  <2>1. t.victims \in SUBSET ChunkRow /\ chunks \in SUBSET ChunkRow BY <1>2 DEF KnowledgeTypes, IngestRecord
  <2>2. Whole(R) BY <1>2, <1>3, <1>4, <2>1, WholeParts DEF ChunksAreWhole
  <2> QED BY <1>1, <1>2, <1>3, <1>7, <1>8, <2>2, WholeWritten
<1>12. ~unlocked => IngestFits(i)'
  <2> SUFFICES ASSUME ~unlocked PROVE IngestFits(i)' OBVIOUS
  <2>1. IngestFits(i) BY <1>2
  <2>2. R = chunks BY <1>1, <1>3, <1>4, <2>1 DEF IngestFits
  <2>3. UNCHANGED Stored BY <1>1 DEF Stored
  <2>4. \A j \in Underway' \ {i} : j \in Underway \ {i} /\ ingest'[j] = ingest[j] BY <1>9 DEF Underway
  <2>5. v.locks => \A j \in Underway' \ {i} : ingest'[j].at = "read" BY <1>3, <1>7, <2>1, <2>4 DEF IngestFits
  <2> QED BY <1>1, <1>3, <1>7, <1>9, <2>1, <2>2, <2>3, <2>5 DEF IngestFits
<1>13. OneText'
  <2>1. v.at \in IngestPlace \ {"idle"} /\ v.at # "read" BY <1>7 DEF IngestPlace
  <2> QED BY <1>1, <1>2, <1>3, <1>7, <1>8, <1>12, <2>1, OneTextMoves
<1> QED BY <1>10, <1>11, <1>13 DEF KnowledgeInv

\* The ingestion of the request i ends: what it holds afterwards.
LEMMA IngestEnds ==
    ASSUME KnowledgeTypes, NEW i \in Ingests, NEW how \in {"done", "failed"}, EndIngest(i, how)
    PROVE  \E v \in IngestRecord :
               /\ ingest' = [ingest EXCEPT ![i] = v] /\ v.at = how /\ v.id = ingest[i].id
               /\ v.text = ingest[i].text /\ v.seen = ingest[i].seen
               /\ v.locks = FALSE /\ v.victims = {} /\ v.deleted = {}
<1>1. PICK t \in IngestRecord : t = ingest[i] BY DEF KnowledgeTypes
<1>2. PICK v : v = [t EXCEPT !.at = how, !.locks = FALSE, !.victims = {}, !.deleted = {}] OBVIOUS
<1>3. v \in IngestRecord /\ v.at = how /\ v.id = t.id /\ v.text = t.text /\ v.seen = t.seen
      /\ v.locks = FALSE /\ v.victims = {} /\ v.deleted = {}
  BY <1>2 DEF IngestRecord, IngestPlace
<1>4. ingest' = [ingest EXCEPT ![i] = v] BY <1>1, <1>2 DEF EndIngest
<1> QED BY <1>1, <1>3, <1>4

\* A request that fails leaves the document and its rows to the others.
LEMMA FailureKept ==
    ASSUME KnowledgeInv, NEW i \in Ingests, ingest[i].at = "embedding", EndIngest(i, "failed"),
           UNCHANGED <<library, chunks, unlocked, removals>>
    PROVE  KnowledgeInv'
<1>1. /\ i \in Underway /\ KnowledgeTypes /\ ChunksAreWhole /\ ingest[i].text \in Texts
  BY UnderwayFacts DEF Started
<1>2. PICK v \in IngestRecord :
          /\ ingest' = [ingest EXCEPT ![i] = v] /\ v.at = "failed" /\ v.id = ingest[i].id
          /\ v.text = ingest[i].text /\ v.seen = ingest[i].seen
          /\ v.locks = FALSE /\ v.victims = {} /\ v.deleted = {}
  BY <1>1, IngestEnds
<1>3. KnowledgeTypes' BY <1>1, <1>2, KnowledgeTyped DEF KnowledgeTypes
<1>4. ChunksAreWhole' BY <1>1, <1>2, WholeWritten, NothingIsWhole
<1>5. OneText' BY <1>1, <1>2, OneTextMoves DEF Started, IngestPlace
<1> QED BY <1>3, <1>4, <1>5 DEF KnowledgeInv

LEMMA EmbeddingFailsKept == ASSUME KnowledgeInv, NEW i \in Ingests, EmbeddingFails(i) PROVE KnowledgeInv'
BY FailureKept DEF EmbeddingFails

\* What a request inserts is whole once it is done, beside what it has not deleted.
LEMMA WholeWithNew ==
    ASSUME NEW i \in Ingests, NEW S, Whole(S)', S \subseteq ChunkRow,
           ingest'[i].at = "done", NEW N, N = ChunksOf(i, ingest'[i].id, ingest'[i].text), chunks' = S \cup N
    PROVE  Whole(chunks)'
<1>1. \A c \in N : c.by = i BY DEF ChunksOf
<1>2. \A c \in chunks' : c \in ChunksOf(c.by, ingest'[c.by].id, ingest'[c.by].text) /\ ingest'[c.by].at = "done"
  BY <1>1 DEF Whole
<1>3. \A j \in Ingests : (\E c \in chunks' : c.by = j) => ChunksOf(j, ingest'[j].id, ingest'[j].text) \subseteq chunks'
  <2> SUFFICES ASSUME NEW j \in Ingests, NEW c \in chunks', c.by = j
               PROVE  ChunksOf(j, ingest'[j].id, ingest'[j].text) \subseteq chunks'
    OBVIOUS
  <2>1. CASE c \in S BY <2>1 DEF Whole
  <2>2. CASE c \in N BY <1>1, <2>2
  <2> QED BY <2>1, <2>2
<1> QED BY <1>2, <1>3 DEF Whole

\* The document is the text that was committed, and nobody is in the way of it.
LEMMA OneTextCommitted ==
    ASSUME KnowledgeInv, NEW i \in Ingests, ingest[i].at = "embedding", ~unlocked, UNCHANGED unlocked,
           NEW v \in IngestRecord, ingest' = [ingest EXCEPT ![i] = v], v.at = "done",
           NEW id, id = ingest[i].id, NEW n, n = ingest[i].text,
           ~(ingest[i].seen # None /\ library[id] = None /\ ChunkStarts(n) # {}),
           library' = IF ingest[i].seen = None \/ ingest[i].locks
                      THEN [library EXCEPT ![id] = n] ELSE library,
           chunks' = (chunks \ ingest[i].deleted) \cup ChunksOf(i, id, n)
    PROVE  OneText'
<1>1. /\ i \in Underway /\ KnowledgeTypes /\ n \in Texts
      /\ IngestFits(i) /\ Stored \subseteq {id} /\ Consistent /\ LockersOverlap
      /\ \A j \in Underway : IngestFits(j) /\ Stored \subseteq {ingest[j].id}
  BY UnderwayFacts DEF Started
<1>2. id \in Ids /\ library \in [Ids -> Texts \cup {None}] /\ n # None
  BY <1>1, NoneIsNoText DEF KnowledgeTypes, IngestRecord
<1>3. chunks' = ChunksOf(i, id, n) BY <1>1 DEF IngestFits
<1>4. /\ \A j \in Ingests : j # i => ingest'[j] = ingest[j]
      /\ ingest'[i].at = "done"
  BY <1>1, IngestWritten
<1>5. Underway' = Underway \ {i} BY <1>4 DEF Underway
<1>6. CASE ingest[i].seen = None
  <2>1. Stored = {} BY <1>1, <1>6 DEF IngestFits
  <2>2. library' = [library EXCEPT ![id] = n] BY <1>6
  <2>3. Stored' = {id} /\ library'[id] = n BY <1>2, <2>1, <2>2 DEF Stored
  <2>4. Underway' = {} BY <1>1, <1>5, <1>6 DEF LockersOverlap
  <2>5. \A c \in chunks' : c.document = id BY <1>3 DEF ChunksOf
  <2>6. Consistent' BY <1>3, <2>3, <2>5 DEF Consistent
  <2> QED BY <2>4, <2>6 DEF OneText, LockersOverlap, HeldDocument
<1>7. CASE ingest[i].locks
  <2>1. id \in Stored BY <1>1, <1>2, <1>7 DEF IngestFits, Stored
  <2>2. library' = [library EXCEPT ![id] = n] BY <1>7
  <2>3. Stored' = {id} /\ library'[id] = n BY <1>1, <1>2, <2>1, <2>2 DEF Stored
  <2>4. \A c \in chunks' : c.document = id BY <1>3 DEF ChunksOf
  <2>5. Consistent' BY <1>3, <2>3, <2>4 DEF Consistent
  <2>6. HeldDocument' BY <1>1, <1>4, <1>5, <2>1, <2>3 DEF HeldDocument, OnlyDocument, Underway
  <2>7. LockersOverlap' BY <1>1, <1>4, <1>5 DEF LockersOverlap, Underway
  <2>8. ASSUME NEW j \in Underway' PROVE IngestFits(j)'
    <3>1. j \in Underway \ {i} /\ j \in Ingests /\ ingest'[j] = ingest[j] BY <1>4, <1>5 DEF Underway
    <3>2. ingest[j].at = "read" BY <1>1, <1>7, <3>1 DEF IngestFits
    <3>3. ingest[j].seen # None /\ ingest[j].seen # ingest[j].text BY <1>1, <3>1 DEF LockersOverlap
    <3>4. IngestFits(j) BY <1>1, <3>1
    <3>5. ~ingest[j].locks /\ ingest[j].deleted = {} BY <3>2, <3>4 DEF IngestFits
    <3> QED BY <3>1, <3>2, <3>3, <3>5 DEF IngestFits
  <2> QED BY <2>5, <2>6, <2>7, <2>8 DEF OneText
<1>8. CASE ingest[i].seen # None /\ ~ingest[i].locks
  <2>1. ingest[i].seen = n /\ library[id] \in {None, n} BY <1>1, <1>8 DEF IngestFits
  <2>2. UNCHANGED <<library, Stored>> BY <1>8 DEF Stored
  <2>3. Underway' = {} BY <1>1, <1>5, <2>1 DEF LockersOverlap
  <2>4. \A c \in chunks' : c.document = id BY <1>3 DEF ChunksOf
  <2>5. CASE library[id] = n
    <3>1. id \in Stored BY <1>2, <2>5 DEF Stored
    <3>2. Stored' = {id} /\ library'[id] = n BY <1>1, <2>2, <2>5, <3>1
    <3>3. Consistent' BY <1>3, <2>4, <3>2 DEF Consistent
    <3> QED BY <2>3, <3>3 DEF OneText, LockersOverlap, HeldDocument
  <2>6. CASE library[id] = None
    <3>1. Stored' = {} BY <1>1, <2>2, <2>6 DEF Stored
    <3>2. chunks' = {} BY <1>3, <1>8, <2>6 DEF ChunksOf
    <3>3. Consistent' BY <3>1, <3>2 DEF Consistent
    <3> QED BY <2>3, <3>3 DEF OneText, LockersOverlap, HeldDocument
  <2> QED BY <2>1, <2>5, <2>6
<1> QED BY <1>6, <1>7, <1>8

LEMMA CommitIngestKept == ASSUME KnowledgeInv, NEW i \in Ingests, CommitIngest(i) PROVE KnowledgeInv'
<1>1. ingest[i].at = "embedding" /\ UNCHANGED <<unlocked, removals>> BY DEF CommitIngest
<1>2. /\ i \in Underway /\ KnowledgeTypes /\ ChunksAreWhole /\ ingest[i].text \in Texts
      /\ Whole(ingest[i].deleted)
  BY <1>1, UnderwayFacts DEF Started
<1>3. PICK id, n : id = ingest[i].id /\ n = ingest[i].text OBVIOUS
<1>4. id \in Ids /\ n \in Texts /\ ingest[i].deleted \in SUBSET ChunkRow BY <1>2, <1>3 DEF KnowledgeTypes, IngestRecord
<1>5. CASE ingest[i].seen # None /\ library[id] = None /\ ChunkStarts(n) # {}
  BY <1>1, <1>3, <1>5, FailureKept DEF CommitIngest
<1>6. CASE ~(ingest[i].seen # None /\ library[id] = None /\ ChunkStarts(n) # {})
  <2>1. /\ EndIngest(i, "done")
        /\ library' = IF ingest[i].seen = None \/ ingest[i].locks
                      THEN [library EXCEPT ![id] = n] ELSE library
        /\ chunks' = (chunks \ ingest[i].deleted) \cup ChunksOf(i, id, n)
    BY <1>3, <1>6 DEF CommitIngest
  <2>2. PICK v \in IngestRecord :
            /\ ingest' = [ingest EXCEPT ![i] = v] /\ v.at = "done" /\ v.id = id
            /\ v.text = n /\ v.seen = ingest[i].seen
            /\ v.locks = FALSE /\ v.victims = {} /\ v.deleted = {}
    BY <1>2, <1>3, <2>1, IngestEnds
  <2>3. /\ ingest'[i] = v /\ \A j \in Ingests : j # i => ingest'[j] = ingest[j]
    BY <1>2, <2>2, IngestWritten
  <2>4. PICK S \in SUBSET ChunkRow : S = chunks \ ingest[i].deleted BY <1>2 DEF KnowledgeTypes
  <2>5. ChunksOf(i, id, n) \in SUBSET ChunkRow BY <1>4, ChunksAre
  <2>6. KnowledgeTypes'
    <3>1. library' \in [Ids -> Texts \cup {None}] BY <1>2, <1>4, <2>1 DEF KnowledgeTypes
    <3>2. chunks' \in SUBSET ChunkRow BY <2>1, <2>4, <2>5
    <3> QED BY <1>1, <1>4, <2>2, <3>1, <3>2, KnowledgeTyped
  <2>7. Whole(S)
    <3>1. chunks \in SUBSET ChunkRow BY <1>2 DEF KnowledgeTypes
    <3> QED BY <1>2, <1>4, <2>4, <3>1, WholeParts DEF ChunksAreWhole
  <2>8. Whole(S)'
    <3>1. \A j \in Ingests : ingest[j].at = "done" =>
            ingest'[j].at = "done" /\ ingest'[j].id = ingest[j].id /\ ingest'[j].text = ingest[j].text
      BY <1>1, <2>3
    <3> QED BY <2>7, <3>1, WholeStays
  <2>9. Whole(chunks)' BY <2>1, <2>2, <2>3, <2>4, <2>8, WholeWithNew
  <2>10. ChunksAreWhole' BY <1>1, <1>2, <2>2, <2>9, WholeWritten, NothingIsWhole
  <2>11. OneText'
    <3>1. CASE unlocked BY <1>1, <3>1 DEF OneText
    <3>2. CASE ~unlocked BY <1>1, <1>3, <1>6, <2>1, <2>2, <3>2, OneTextCommitted
    <3> QED BY <3>1, <3>2
  <2> QED BY <2>6, <2>10, <2>11 DEF KnowledgeInv
<1> QED BY <1>5, <1>6

LEMMA RemoveDocumentKept == ASSUME KnowledgeInv, NEW id \in Ids, RemoveDocument(id) PROVE KnowledgeInv'
<1>1. /\ KnowledgeTypes /\ ChunksAreWhole /\ OneText /\ library[id] # None
      /\ \A i \in Underway : ingest[i].id = id => ~ingest[i].locks /\ ingest[i].deleted = {}
      /\ library' = [library EXCEPT ![id] = None] /\ chunks' = {c \in chunks : c.document # id}
      /\ removals' = removals + 1 /\ UNCHANGED <<ingest, unlocked>>
  BY DEF KnowledgeInv, RemoveDocument
<1>2. library \in [Ids -> Texts \cup {None}] /\ chunks \in SUBSET ChunkRow BY <1>1 DEF KnowledgeTypes
<1>3. KnowledgeTypes' BY <1>1 DEF KnowledgeTypes
<1>4. \A S : S \subseteq ChunkRow /\ Whole(S) => Whole(S)' BY <1>1, WholeStays
<1>5. Whole(chunks)'
  <2>1. PICK R : R = {c \in chunks : c.document = id} OBVIOUS
  <2>2. Whole(R) /\ R \in SUBSET ChunkRow BY <1>1, <1>2, <2>1, WholeDocument DEF ChunksAreWhole
  <2>3. PICK S : S = chunks \ R OBVIOUS
  <2>4. Whole(S) /\ S \subseteq ChunkRow BY <1>1, <1>2, <2>2, <2>3, WholeParts DEF ChunksAreWhole
  <2>5. Whole(S)' BY <1>4, <2>4
  <2>6. chunks' = S BY <1>1, <2>1, <2>3
  <2> QED BY <2>5, <2>6 DEF Whole
<1>6. ChunksAreWhole'
  <2>1. ASSUME NEW i \in Ingests PROVE Whole(ingest[i].victims)' /\ Whole(ingest[i].deleted)'
    BY <1>1 DEF ChunksAreWhole, Whole
  <2> QED BY <1>5, <2>1 DEF ChunksAreWhole
<1>7. OneText'
  <2> SUFFICES ASSUME ~unlocked PROVE OneText' BY <1>1 DEF OneText
  <2>1. LockersOverlap /\ HeldDocument /\ Consistent /\ \A j \in Underway : IngestFits(j) BY <1>1 DEF OneText
  <2>2. id \in Stored /\ Stored \subseteq {id} BY <1>1, <2>1 DEF Stored, Consistent
  <2>3. Stored' = {} BY <1>1, <1>2, <2>2 DEF Stored
  <2>4. chunks' = {} BY <1>1, <2>1, <2>2 DEF Consistent
  <2>5. UNCHANGED Underway BY <1>1 DEF Underway
  <2>6. LockersOverlap' BY <1>1, <2>1, <2>5 DEF LockersOverlap
  <2>7. HeldDocument' BY <2>3 DEF HeldDocument, OnlyDocument
  <2>8. Consistent' BY <2>3, <2>4 DEF Consistent
  <2>9. ASSUME NEW j \in Underway PROVE IngestFits(j)'
    <3>1. IngestFits(j) /\ ingest'[j] = ingest[j] BY <1>1, <2>1
    <3>2. ingest[j].id = id BY <2>1, <2>2 DEF HeldDocument, OnlyDocument
    <3>3. ~ingest[j].locks /\ ingest[j].deleted = {} /\ library'[id] = None BY <1>1, <1>2, <3>2
    <3>4. ingest'[j].at # "read" => (ingest'[j].locks <=> ingest'[j].seen \notin {None, ingest'[j].text})
      BY <3>1 DEF IngestFits
    <3> QED BY <2>3, <2>4, <3>1, <3>2, <3>3, <3>4 DEF IngestFits
  <2> QED BY <2>5, <2>6, <2>7, <2>8, <2>9 DEF OneText
<1> QED BY <1>3, <1>6, <1>7 DEF KnowledgeInv

LEMMA KnowledgeStep == ASSUME KnowledgeInv, [KnowledgeNext]_knowledgeVars PROVE KnowledgeInv'
<1>1. ASSUME NEW i \in Ingests, NEW n \in Texts, ReadDocument(i, n) PROVE KnowledgeInv' BY <1>1, ReadDocumentKept
<1>2. ASSUME NEW i \in Ingests, Flush(i) PROVE KnowledgeInv' BY <1>2, FlushKept
<1>3. ASSUME NEW i \in Ingests, StartDelete(i) PROVE KnowledgeInv' BY <1>3, StartDeleteKept
<1>4. ASSUME NEW i \in Ingests, FinishDelete(i) PROVE KnowledgeInv' BY <1>4, FinishDeleteKept
<1>5. ASSUME NEW i \in Ingests, EmbeddingFails(i) PROVE KnowledgeInv' BY <1>5, EmbeddingFailsKept
<1>6. ASSUME NEW i \in Ingests, CommitIngest(i) PROVE KnowledgeInv' BY <1>6, CommitIngestKept
<1>7. ASSUME NEW id \in Ids, RemoveDocument(id) PROVE KnowledgeInv' BY <1>7, RemoveDocumentKept
<1>8. CASE UNCHANGED knowledgeVars
  BY <1>8 DEF knowledgeVars, KnowledgeInv, KnowledgeTypes, ChunksAreWhole, Whole, OneText, LockersOverlap,
              HeldDocument, OnlyDocument, Consistent, IngestFits, Underway, Stored
<1> QED BY <1>1, <1>2, <1>3, <1>4, <1>5, <1>6, <1>7, <1>8 DEF KnowledgeNext

LEMMA WholeIsRead == KnowledgeInv => LibraryHolds
<1> SUFFICES ASSUME KnowledgeInv PROVE ReplacedUnlessUnchanged /\ ChunksCoverText BY DEF LibraryHolds
<1>1. KnowledgeTypes /\ Whole(chunks) /\ OneText BY DEF KnowledgeInv, ChunksAreWhole
<1>2. ReplacedUnlessUnchanged
  <2> SUFFICES ASSUME ~unlocked PROVE Cardinality(Stored) <= 1 /\ \A id \in Stored : \E i \in Ingests :
                                                                 chunks = ChunksOf(i, id, library[id])
    BY DEF ReplacedUnlessUnchanged
  <2>1. Consistent BY <1>1 DEF OneText
  <2>2. Cardinality(Stored) <= 1
    <3>1. CASE Stored = {} BY <3>1, FS_EmptySet
    <3>2. CASE Stored # {}
      <4>1. PICK u : Stored = {u} BY <2>1, <3>2 DEF Consistent
      <4>2. Cardinality({u}) = 1 BY FS_Singleton
      <4> QED BY <4>1, <4>2
    <3> QED BY <3>1, <3>2
  <2> QED BY <2>1, <2>2 DEF Consistent
<1>3. ChunksCoverText
  <2> SUFFICES ASSUME NEW i \in Ingests
               PROVE  LET starts == {c.start : c \in {c \in chunks : c.by = i}}
                          n == ingest[i].text
                          Ends(s) == IF s + ChunkSize < n THEN s + ChunkSize ELSE n
                      IN starts # {} => /\ \A w \in 0..(n - 1) : \E s \in starts : s <= w /\ w < s + ChunkSize
                                        /\ \A s, t \in starts : s < t => Ends(s) < Ends(t)
    BY DEF ChunksCoverText
  <2> DEFINE starts == {c.start : c \in {c \in chunks : c.by = i}}
             n == ingest[i].text
             Ends(s) == IF s + ChunkSize < n THEN s + ChunkSize ELSE n
  <2> SUFFICES ASSUME starts # {}
               PROVE  /\ \A w \in 0..(n - 1) : \E s \in starts : s <= w /\ w < s + ChunkSize
                      /\ \A s, t \in starts : s < t => Ends(s) < Ends(t)
    OBVIOUS
  <2>1. PICK c \in chunks : c.by = i OBVIOUS
  <2>2. ingest[i].at = "done" /\ ingest[i].id \in Ids BY <1>1, <2>1 DEF Whole, KnowledgeTypes, IngestRecord
  <2>3. n \in Texts /\ n \in Nat BY <1>1, <2>2, NoneIsNoText DEF KnowledgeTypes
  <2>4. PICK N : N = ChunksOf(i, ingest[i].id, n) OBVIOUS
  <2>5. /\ {d \in chunks : d.by = i} = N
    <3>1. N \subseteq chunks BY <1>1, <2>1, <2>4 DEF Whole
    <3>2. \A d \in N : d.by = i BY <2>4 DEF ChunksOf
    <3>3. \A d \in chunks : d.by = i => d \in N BY <1>1, <2>4 DEF Whole
    <3> QED BY <3>1, <3>2, <3>3
  <2>6. {d.start : d \in N} = ChunkStarts(n) BY <2>2, <2>3, <2>4, ChunksAre
  <2>7. starts = ChunkStarts(n) BY <2>5, <2>6
  <2>8. /\ starts \subseteq Nat
        /\ \A w \in 0..(n - 1) : \E s \in starts : s <= w /\ w < s + ChunkSize
        /\ \A s, t \in starts : s < t => s + ChunkSize < n
    BY <2>3, <2>7, WindowsCover
  <2>9. ASSUME NEW s \in starts, NEW t \in starts, s < t
        PROVE  Ends(s) < Ends(t)
    <3>1. s \in Nat /\ t \in Nat /\ s + ChunkSize < n /\ ChunkSize \in Nat BY <2>8, <2>9, StepFitsWindow
    <3> QED BY <2>3, <2>9, <3>1
  <2> QED BY <2>8, <2>9
<1> QED BY <1>2, <1>3

\* Whatever the requests that ingest a document do at once, and whenever it is deleted: as
\* long as row locks order them there is one text with exactly its chunks, and the windows
\* of a text cover every word of it (knowledge/service.py:95, :40).
THEOREM LibraryIsSound == KnowledgeSpec => []LibraryHolds
<1>1. KnowledgeInit => KnowledgeInv BY KnowledgeStarts
<1>2. KnowledgeInv /\ [KnowledgeNext]_knowledgeVars => KnowledgeInv' BY KnowledgeStep
<1>3. KnowledgeInv => LibraryHolds BY WholeIsRead
<1> QED BY <1>1, <1>2, <1>3, PTL DEF KnowledgeSpec

-----------------------------------------------------------------------------
(* MerkleTree.  The levels, the indices and the hashes along a path are recursive        *)
(* functions; what holds at each step of them holds at the first one where it could fail. *)

ListedLeaves(s) == Len(s) \in Nat \ {0} /\ DOMAIN s = 1..Len(s)

\* The recursive functions that the operators choose.
Levels(leaves, n, g) == g = [k \in 0..n |-> IF k = 0 THEN leaves ELSE Above(g[k - 1])]
Indices(i, n, g) == g = [k \in 0..n |-> IF k = 0 THEN i ELSE g[k - 1] \div 2]
HashOver(step, h) == IF step.isRight THEN Combined(step.sibling, h) ELSE Combined(h, step.sibling)
Hashes(leaf, path, n, g) == g = [k \in 0..n |-> IF k = 0 THEN leaf ELSE HashOver(path[k], g[k - 1])]

LEMMA LevelsExist == ASSUME NEW leaves, NEW n \in Nat PROVE \E g : Levels(leaves, n, g)
<1> SUFFICES ASSUME \A g : ~Levels(leaves, n, g) PROVE FALSE OBVIOUS
<1>1. PICK bad : bad = {k \in Nat : \A g : ~Levels(leaves, k, g)} OBVIOUS
<1>2. bad \in SUBSET Nat /\ bad # {} BY <1>1
<1>3. PICK m \in bad : \A k \in bad : m <= k BY <1>2, LeastOf
<1>4. m \in Nat BY <1>2
<1>5. m # 0
  <2>1. PICK g : g = [k \in 0..0 |-> leaves] OBVIOUS
  <2>2. Levels(leaves, 0, g) BY <2>1 DEF Levels
  <2> QED BY <1>1, <1>3, <2>2
<1>6. PICK g : Levels(leaves, m - 1, g) BY <1>1, <1>3, <1>4, <1>5
<1>7. PICK h : h = [k \in 0..m |-> IF k = m THEN Above(g[m - 1]) ELSE g[k]] OBVIOUS
<1>8. Levels(leaves, m, h)
  <2>1. DOMAIN g = 0..(m - 1) /\ g[0] = leaves /\ \A k \in 1..(m - 1) : g[k] = Above(g[k - 1])
    BY <1>4, <1>5, <1>6 DEF Levels
  <2>2. \A k \in 0..m : h[k] = IF k = 0 THEN leaves ELSE Above(h[k - 1])
    <3> SUFFICES ASSUME NEW k \in 0..m PROVE h[k] = IF k = 0 THEN leaves ELSE Above(h[k - 1]) OBVIOUS
    <3>1. CASE k = 0 BY <1>4, <1>5, <1>7, <2>1, <3>1
    <3>2. CASE k # 0 /\ k # m
      <4>1. h[k] = g[k] /\ h[k - 1] = g[k - 1] /\ k \in 1..(m - 1) BY <1>4, <1>7, <3>2
      <4> QED BY <2>1, <3>2, <4>1
    <3>3. CASE k # 0 /\ k = m
      <4>1. h[k] = Above(g[m - 1]) /\ h[k - 1] = g[k - 1] BY <1>4, <1>7, <3>3
      <4> QED BY <3>3, <4>1
    <3> QED BY <3>1, <3>2, <3>3
  <2> QED BY <1>7, <2>2 DEF Levels
<1> QED BY <1>1, <1>3, <1>8

LEMMA IndicesExist == ASSUME NEW i, NEW n \in Nat PROVE \E g : Indices(i, n, g)
<1> SUFFICES ASSUME \A g : ~Indices(i, n, g) PROVE FALSE OBVIOUS
<1>1. PICK bad : bad = {k \in Nat : \A g : ~Indices(i, k, g)} OBVIOUS
<1>2. bad \in SUBSET Nat /\ bad # {} BY <1>1
<1>3. PICK m \in bad : \A k \in bad : m <= k BY <1>2, LeastOf
<1>4. m \in Nat BY <1>2
<1>5. m # 0
  <2>1. PICK g : g = [k \in 0..0 |-> i] OBVIOUS
  <2>2. Indices(i, 0, g) BY <2>1 DEF Indices
  <2> QED BY <1>1, <1>3, <2>2
<1>6. PICK g : Indices(i, m - 1, g) BY <1>1, <1>3, <1>4, <1>5
<1>7. PICK h : h = [k \in 0..m |-> IF k = m THEN g[m - 1] \div 2 ELSE g[k]] OBVIOUS
<1>8. Indices(i, m, h)
  <2>1. DOMAIN g = 0..(m - 1) /\ g[0] = i /\ \A k \in 1..(m - 1) : g[k] = g[k - 1] \div 2
    BY <1>4, <1>5, <1>6 DEF Indices
  <2>2. \A k \in 0..m : h[k] = IF k = 0 THEN i ELSE h[k - 1] \div 2
    <3> SUFFICES ASSUME NEW k \in 0..m PROVE h[k] = IF k = 0 THEN i ELSE h[k - 1] \div 2 OBVIOUS
    <3>1. CASE k = 0 BY <1>4, <1>5, <1>7, <2>1, <3>1
    <3>2. CASE k # 0 /\ k # m
      <4>1. h[k] = g[k] /\ h[k - 1] = g[k - 1] /\ k \in 1..(m - 1) BY <1>4, <1>7, <3>2
      <4> QED BY <2>1, <3>2, <4>1
    <3>3. CASE k # 0 /\ k = m
      <4>1. h[k] = g[m - 1] \div 2 /\ h[k - 1] = g[k - 1] BY <1>4, <1>7, <3>3
      <4> QED BY <3>3, <4>1
    <3> QED BY <3>1, <3>2, <3>3
  <2> QED BY <1>7, <2>2 DEF Indices
<1> QED BY <1>1, <1>3, <1>8

LEMMA HashesExist == ASSUME NEW leaf, NEW path, NEW n \in Nat PROVE \E g : Hashes(leaf, path, n, g)
<1> SUFFICES ASSUME \A g : ~Hashes(leaf, path, n, g) PROVE FALSE OBVIOUS
<1>1. PICK bad : bad = {k \in Nat : \A g : ~Hashes(leaf, path, k, g)} OBVIOUS
<1>2. bad \in SUBSET Nat /\ bad # {} BY <1>1
<1>3. PICK m \in bad : \A k \in bad : m <= k BY <1>2, LeastOf
<1>4. m \in Nat BY <1>2
<1>5. m # 0
  <2>1. PICK g : g = [k \in 0..0 |-> leaf] OBVIOUS
  <2>2. Hashes(leaf, path, 0, g) BY <2>1 DEF Hashes
  <2> QED BY <1>1, <1>3, <2>2
<1>6. PICK g : Hashes(leaf, path, m - 1, g) BY <1>1, <1>3, <1>4, <1>5
<1>7. PICK h : h = [k \in 0..m |-> IF k = m THEN HashOver(path[m], g[m - 1]) ELSE g[k]] OBVIOUS
<1>8. Hashes(leaf, path, m, h)
  <2>1. DOMAIN g = 0..(m - 1) /\ g[0] = leaf /\ \A k \in 1..(m - 1) : g[k] = HashOver(path[k], g[k - 1])
    BY <1>4, <1>5, <1>6 DEF Hashes
  <2>2. \A k \in 0..m : h[k] = IF k = 0 THEN leaf ELSE HashOver(path[k], h[k - 1])
    <3> SUFFICES ASSUME NEW k \in 0..m PROVE h[k] = IF k = 0 THEN leaf ELSE HashOver(path[k], h[k - 1]) OBVIOUS
    <3>1. CASE k = 0 BY <1>4, <1>5, <1>7, <2>1, <3>1
    <3>2. CASE k # 0 /\ k # m
      <4>1. h[k] = g[k] /\ h[k - 1] = g[k - 1] /\ k \in 1..(m - 1) BY <1>4, <1>7, <3>2
      <4> QED BY <2>1, <3>2, <4>1
    <3>3. CASE k # 0 /\ k = m
      <4>1. h[k] = HashOver(path[m], g[m - 1]) /\ h[k - 1] = g[k - 1] BY <1>4, <1>7, <3>3
      <4> QED BY <3>3, <4>1
    <3> QED BY <3>1, <3>2, <3>3
  <2> QED BY <1>7, <2>2 DEF Hashes
<1> QED BY <1>1, <1>3, <1>8

(* The tree *)

\* Every node of a level has its parent in the one above, the last of an odd number alone.
LEMMA AboveIs ==
    ASSUME NEW level, ListedLeaves(level)
    PROVE  /\ ListedLeaves(Above(level)) /\ Len(Above(level)) = (Len(level) + 1) \div 2
           /\ \A n \in 1..((Len(level) + 1) \div 2) :
                 Above(level)[n] = Combined(level[2*n - 1], level[IF 2*n <= Len(level) THEN 2*n ELSE 2*n - 1])
<1>1. PICK n \in Nat \ {0} : n = Len(level) BY DEF ListedLeaves
<1>2. PICK m \in Nat : m = (n + 1) \div 2 /\ m # 0 BY <1>1
<1>3. PICK f : f = Above(level) OBVIOUS
<1>4. f = [k \in 1..m |-> Combined(level[2*k - 1], level[IF 2*k <= n THEN 2*k ELSE 2*k - 1])]
  BY <1>1, <1>2, <1>3 DEF Above
<1>5. PICK S : S = {f[k] : k \in 1..m} OBVIOUS
<1>6. f \in [1..m -> S] BY <1>4, <1>5
<1>7. f \in Seq(S) /\ Len(f) = m BY <1>2, <1>6
<1> QED BY <1>1, <1>2, <1>3, <1>4, <1>7 DEF ListedLeaves

LEMMA LevelsFit ==
    ASSUME NEW leaves, ListedLeaves(leaves), NEW levels, levels = LevelsOver(leaves)
    PROVE  /\ DOMAIN levels = 0..Len(leaves) /\ levels[0] = leaves
           /\ \A k \in 1..Len(leaves) : levels[k] = Above(levels[k - 1])
           /\ \A k \in 0..Len(leaves) : /\ ListedLeaves(levels[k])
                                        /\ Len(levels[k]) = 1 \/ Len(levels[k]) + k <= Len(leaves)
<1>1. PICK n \in Nat \ {0} : n = Len(leaves) BY DEF ListedLeaves
<1>2. levels = CHOOSE g : Levels(leaves, n, g) BY <1>1 DEF LevelsOver, Levels
<1>3. Levels(leaves, n, levels) BY <1>1, <1>2, LevelsExist
<1>4. DOMAIN levels = 0..n /\ levels[0] = leaves /\ \A k \in 1..n : levels[k] = Above(levels[k - 1])
  BY <1>1, <1>3 DEF Levels
<1>5. PICK bad : bad = {k \in 0..n : ~(ListedLeaves(levels[k]) /\ (Len(levels[k]) = 1 \/ Len(levels[k]) + k <= n))}
  OBVIOUS
<1>6. bad = {}
  <2> SUFFICES ASSUME bad # {} PROVE FALSE OBVIOUS
  <2>1. bad \in SUBSET Nat BY <1>5
  <2>2. PICK m \in bad : \A k \in bad : m <= k BY <2>1, LeastOf
  <2>3. m \in 0..n BY <1>5
  <2>4. m # 0 BY <1>1, <1>4, <1>5, <2>2
  <2>5. m - 1 \in 0..n /\ m - 1 \notin bad BY <2>2, <2>3, <2>4
  <2>6. ListedLeaves(levels[m - 1]) /\ (Len(levels[m - 1]) = 1 \/ Len(levels[m - 1]) + (m - 1) <= n) BY <1>5, <2>5
  <2>7. PICK s \in Nat \ {0} : s = Len(levels[m - 1]) BY <2>6 DEF ListedLeaves
  <2>a. levels[m] = Above(levels[m - 1]) BY <1>4, <2>3, <2>4
  <2>8. ListedLeaves(levels[m]) /\ Len(levels[m]) = (s + 1) \div 2 BY <2>6, <2>7, <2>a, AboveIs
  <2>b. (s + 1) \div 2 = 1 \/ (s + 1) \div 2 <= s - 1 OBVIOUS
  <2>9. (s + 1) \div 2 = 1 \/ (s + 1) \div 2 + m <= n
    <3>1. m \in Nat /\ (s + 1) \div 2 \in Nat BY <2>3
    <3>2. CASE s = 1 BY <3>2
    <3>3. CASE s # 1
      <4>1. PICK half \in Nat : half = (s + 1) \div 2 BY <3>1
      <4>2. s + (m - 1) <= n BY <2>6, <2>7, <3>3
      <4>3. half = 1 \/ half <= s - 1 BY <2>b, <4>1
      <4>4. half = 1 \/ half + m <= n BY <3>1, <4>2, <4>3
      <4> QED BY <4>1, <4>4
    <3> QED BY <3>2, <3>3
  <2> QED BY <1>5, <2>2, <2>8, <2>9
<1> QED BY <1>1, <1>4, <1>5, <1>6

LEMMA DepthFits ==
    ASSUME NEW leaves, ListedLeaves(leaves), NEW levels, levels = LevelsOver(leaves)
    PROVE  /\ Depth(levels) \in 0..Len(leaves) /\ Len(levels[Depth(levels)]) = 1
           /\ \A e \in 0..(Depth(levels) - 1) : Len(levels[e]) > 1
<1>1. PICK n \in Nat \ {0} : n = Len(leaves) BY DEF ListedLeaves
<1>2. DOMAIN levels = 0..n /\ \A k \in 0..n : ListedLeaves(levels[k]) /\ (Len(levels[k]) = 1 \/ Len(levels[k]) + k <= n)
  BY <1>1, LevelsFit
<1>3. PICK S : S = {d \in 0..n : Len(levels[d]) = 1} OBVIOUS
<1>4. n \in S
  <2>1. ListedLeaves(levels[n]) /\ (Len(levels[n]) = 1 \/ Len(levels[n]) + n <= n) BY <1>1, <1>2
  <2>2. PICK s \in Nat \ {0} : s = Len(levels[n]) BY <2>1 DEF ListedLeaves
  <2> QED BY <1>1, <1>3, <2>1, <2>2
<1>5. S \in SUBSET Nat BY <1>3
<1>6. PICK d \in S : \A e \in S : d <= e BY <1>4, <1>5, LeastOf
<1>7. \A e \in 0..(d - 1) : Len(levels[e]) > 1
  <2> SUFFICES ASSUME NEW e \in 0..(d - 1) PROVE Len(levels[e]) > 1 OBVIOUS
  <2>1. e \in 0..n /\ e \notin S BY <1>3, <1>6
  <2>2. PICK s \in Nat \ {0} : s = Len(levels[e]) BY <1>2, <2>1 DEF ListedLeaves
  <2>3. Len(levels[e]) # 1 BY <1>3, <2>1
  <2>4. s # 1 BY <2>2, <2>3
  <2>5. s > 1 BY <2>4
  <2> QED BY <2>2, <2>5
<1>8. d \in DOMAIN levels /\ Len(levels[d]) = 1 BY <1>2, <1>3
<1>9. /\ Depth(levels) \in DOMAIN levels /\ Len(levels[Depth(levels)]) = 1
      /\ \A e \in 0..(Depth(levels) - 1) : Len(levels[e]) > 1
  BY <1>7, <1>8 DEF Depth
<1> QED BY <1>1, <1>2, <1>9

LEMMA IndexFits ==
    ASSUME NEW leaves, ListedLeaves(leaves), NEW levels, levels = LevelsOver(leaves),
           NEW i \in 0..(Len(leaves) - 1), NEW d, d = Depth(levels), NEW own, own = IndexUp(i, d)
    PROVE  /\ own[0] = i /\ \A k \in 1..d : own[k] = own[k - 1] \div 2
           /\ \A k \in 0..d : own[k] \in 0..(Len(levels[k]) - 1)
<1>1. PICK n \in Nat \ {0} : n = Len(leaves) BY DEF ListedLeaves
<1>2. d \in 0..n BY <1>1, DepthFits
<1>3. own = CHOOSE g : Indices(i, d, g) BY DEF IndexUp, Indices
<1>a. d \in Nat BY <1>2
<1>b. \E g : Indices(i, d, g) BY <1>a, IndicesExist
<1>4. Indices(i, d, own) BY <1>3, <1>b
<1>5. own[0] = i /\ \A k \in 1..d : own[k] = own[k - 1] \div 2 BY <1>2, <1>4 DEF Indices
<1>6. PICK bad : bad = {k \in 0..d : own[k] \notin 0..(Len(levels[k]) - 1)} OBVIOUS
<1>7. bad = {}
  <2> SUFFICES ASSUME bad # {} PROVE FALSE OBVIOUS
  <2>1. bad \in SUBSET Nat BY <1>6
  <2>2. PICK m \in bad : \A k \in bad : m <= k BY <2>1, LeastOf
  <2>3. m \in 0..d BY <1>6
  <2>4. m # 0 BY <1>5, <1>6, <2>2, LevelsFit
  <2>a. m \in 1..d BY <1>2, <2>3, <2>4
  <2>5. m - 1 \in 0..d /\ m - 1 \notin bad BY <1>2, <2>2, <2>a
  <2>b. m \in 1..n /\ m - 1 \in 0..n BY <1>2, <2>a
  <2>6. ListedLeaves(levels[m - 1]) /\ levels[m] = Above(levels[m - 1]) BY <1>1, <2>b, LevelsFit
  <2>7. PICK s \in Nat \ {0} : s = Len(levels[m - 1]) BY <2>6 DEF ListedLeaves
  <2>8. Len(levels[m]) = (s + 1) \div 2 BY <2>6, <2>7, AboveIs
  <2>9. PICK x \in 0..(s - 1) : x = own[m - 1] BY <1>6, <2>5, <2>7
  <2>10. own[m] = x \div 2 BY <1>5, <2>9, <2>a
  <2>11. x \div 2 \in 0..((s + 1) \div 2 - 1)
    <3>1. x \in Nat /\ s \in Nat /\ x <= s - 1 OBVIOUS
    <3> QED BY <3>1, Z3
  <2> QED BY <1>6, <2>2, <2>8, <2>10, <2>11
<1> QED BY <1>5, <1>6, <1>7
\* The parent of the node at an index, from that node and its sibling.
LEMMA PairIs ==
    ASSUME NEW level, ListedLeaves(level), NEW x \in 0..(Len(level) - 1)
    PROVE  Above(level)[x \div 2 + 1] =
               IF x % 2 = 1 THEN Combined(NodeAt(level, Flipped(x)), level[x + 1])
               ELSE Combined(level[x + 1], NodeAt(level, Flipped(x)))
<1>1. PICK s \in Nat \ {0} : s = Len(level) BY DEF ListedLeaves
<1>2. PICK n \in Nat : n = x \div 2 + 1 BY <1>1
<1>3. n \in 1..((s + 1) \div 2)
  <2>1. x \in Nat /\ x <= s - 1 BY <1>1
  <2> QED BY <1>2, <2>1, Z3
<1>4. Above(level)[n] = Combined(level[2*n - 1], level[IF 2*n <= s THEN 2*n ELSE 2*n - 1])
  BY <1>1, <1>3, AboveIs
<1>5. x \in Nat /\ (x % 2 = 0 \/ x % 2 = 1) BY <1>1
<1>6. CASE x % 2 = 1
  <2>1. x = 2*n - 1 BY <1>2, <1>5, <1>6
  <2>2. Flipped(x) = x - 1 BY <1>6 DEF Flipped
  <2>3. NodeAt(level, x - 1) = level[x] BY <1>1, <1>5, <2>1 DEF NodeAt
  <2>4. 2*n <= s BY <1>1, <2>1
  <2> QED BY <1>2, <1>4, <1>6, <2>1, <2>2, <2>3, <2>4
<1>7. CASE x % 2 = 0
  <2>1. x = 2*n - 2 BY <1>2, <1>5, <1>7
  <2>2. Flipped(x) = x + 1 BY <1>7 DEF Flipped
  <2>3. NodeAt(level, x + 1) = level[IF 2*n <= s THEN 2*n ELSE 2*n - 1] BY <1>1, <1>5, <2>1 DEF NodeAt
  <2>4. level[x + 1] = level[2*n - 1] BY <2>1
  <2> QED BY <1>2, <1>4, <1>7, <2>2, <2>3, <2>4
<1> QED BY <1>5, <1>6, <1>7

\* A path leads from a leaf to the root exactly if it is the leaf it was made for.
LEMMA PathsLead ==
    ASSUME NEW leaves, ListedLeaves(leaves), NEW i \in 0..(Len(leaves) - 1), NEW leaf
    PROVE  ReachedFrom(leaf, ProofPath(leaves, i)) = RootOf(leaves) <=> leaf = leaves[i + 1]
<1>1. PICK n \in Nat \ {0} : n = Len(leaves) BY DEF ListedLeaves
<1>2. PICK levels : levels = LevelsOver(leaves) OBVIOUS
<1>3. PICK d \in 0..n : d = Depth(levels) BY <1>1, <1>2, DepthFits
<1>4. PICK own : own = IndexUp(i, d) OBVIOUS
<1>5. PICK path : path = ProofPath(leaves, i) OBVIOUS
<1>6. d \in Nat /\ i \in Nat /\ i < n BY <1>1
<1>7. path = [k \in 1..d |-> [sibling |-> NodeAt(levels[k - 1], Flipped(own[k - 1])), isRight |-> own[k - 1] % 2 = 1]]
  BY <1>2, <1>3, <1>4, <1>5 DEF ProofPath
<1>8. Len(path) = d
  <2>1. PICK S : S = {path[k] : k \in 1..d} OBVIOUS
  <2>2. path \in [1..d -> S] BY <1>7, <2>1
  <2> QED BY <1>6, <2>2
<1>9. PICK up : up = HashesUp(leaf, path) OBVIOUS
<1>10. Hashes(leaf, path, d, up)
  <2>1. up = CHOOSE g : Hashes(leaf, path, d, g) BY <1>8, <1>9 DEF HashesUp, Hashes, HashOver
  <2>2. \E g : Hashes(leaf, path, d, g) BY <1>6, HashesExist
  <2> QED BY <2>1, <2>2
<1>11. up[0] = leaf /\ \A k \in 1..d : up[k] = HashOver(path[k], up[k - 1]) BY <1>6, <1>10 DEF Hashes
<1>12. /\ levels[0] = leaves /\ \A k \in 1..n : levels[k] = Above(levels[k - 1])
       /\ \A k \in 0..n : ListedLeaves(levels[k])
  BY <1>1, <1>2, LevelsFit
<1>13. /\ own[0] = i /\ \A k \in 1..d : own[k] = own[k - 1] \div 2
       /\ \A k \in 0..d : own[k] \in 0..(Len(levels[k]) - 1)
  BY <1>2, <1>3, <1>4, IndexFits
<1>14. own[d] = 0
  <2>1. Len(levels[d]) = 1 BY <1>2, <1>3, DepthFits
  <2>2. d \in 0..d BY <1>6
  <2>3. own[d] \in 0..(Len(levels[d]) - 1) BY <1>13, <2>2
  <2> QED BY <2>1, <2>3
<1>15. RootOf(leaves) = levels[d][own[d] + 1]
  <2>1. RootOf(leaves) = levels[d][1] BY <1>2, <1>3 DEF RootOf
  <2> QED BY <1>14, <2>1
<1>16. ReachedFrom(leaf, path) = up[d] BY <1>8, <1>9 DEF ReachedFrom
<1>17. leaves[i + 1] = levels[0][own[0] + 1] BY <1>12, <1>13
\* Each level: the parent of the node on the way, and the hash that the path makes.
<1>18. ASSUME NEW k \in 1..d
       PROVE  /\ up[k - 1] = levels[k - 1][own[k - 1] + 1] <=> up[k] = levels[k][own[k] + 1]
  <2>1. k \in 1..n /\ k - 1 \in 0..n /\ k - 1 \in 0..d BY <1>6
  <2>2. PICK x : x = own[k - 1] /\ x \in 0..(Len(levels[k - 1]) - 1) BY <1>13, <2>1
  <2>3. PICK s : s = NodeAt(levels[k - 1], Flipped(x)) OBVIOUS
  <2>4. PICK node : node = levels[k - 1][x + 1] OBVIOUS
  <2>5. levels[k][own[k] + 1] = IF x % 2 = 1 THEN Combined(s, node) ELSE Combined(node, s)
    <3>1. levels[k] = Above(levels[k - 1]) /\ ListedLeaves(levels[k - 1]) BY <1>12, <2>1
    <3>2. own[k] = x \div 2 BY <1>13, <2>2
    <3> QED BY <2>2, <2>3, <2>4, <3>1, <3>2, PairIs
  <2>6. up[k] = IF x % 2 = 1 THEN Combined(s, up[k - 1]) ELSE Combined(up[k - 1], s)
    <3>0. PICK b \in BOOLEAN : b = (x % 2 = 1) OBVIOUS
    <3>1. path[k] = [sibling |-> s, isRight |-> b] BY <1>7, <2>2, <2>3, <3>0
    <3>2. path[k].sibling = s /\ (path[k].isRight <=> x % 2 = 1)
      <4>1. path[k].sibling = s /\ path[k].isRight = b BY <3>1
      <4> QED BY <3>0, <4>1
    <3>3. up[k] = HashOver(path[k], up[k - 1]) BY <1>11
    <3> QED BY <3>2, <3>3 DEF HashOver
  <2>7. \A a, b, c, e : Combined(a, b) = Combined(c, e) => a = c /\ b = e BY DEF Combined
  <2>8. node = levels[k - 1][own[k - 1] + 1] BY <2>2, <2>4
  <2>9. CASE x % 2 = 1
    <3>1. up[k] = Combined(s, up[k - 1]) /\ levels[k][own[k] + 1] = Combined(s, node) BY <2>5, <2>6, <2>9
    <3> QED BY <2>7, <2>8, <3>1
  <2>10. CASE x % 2 # 1
    <3>1. up[k] = Combined(up[k - 1], s) /\ levels[k][own[k] + 1] = Combined(node, s) BY <2>5, <2>6, <2>10
    <3> QED BY <2>7, <2>8, <3>1
  <2> QED BY <2>9, <2>10
<1>19. ASSUME leaf = leaves[i + 1] PROVE up[d] = levels[d][own[d] + 1]
  <2>1. PICK bad : bad = {k \in 0..d : up[k] # levels[k][own[k] + 1]} OBVIOUS
  <2>2. bad = {}
    <3> SUFFICES ASSUME bad # {} PROVE FALSE OBVIOUS
    <3>1. bad \in SUBSET Nat BY <2>1
    <3>2. PICK m \in bad : \A k \in bad : m <= k BY <3>1, LeastOf
    <3>3. m \in 0..d /\ m # 0 BY <1>11, <1>17, <1>19, <2>1
    <3>4. m \in 1..d /\ m - 1 \in 0..d BY <1>6, <3>3
    <3>5. m - 1 \notin bad BY <3>2, <3>4
    <3> QED BY <1>18, <2>1, <3>2, <3>4, <3>5
  <2>3. d \in 0..d BY <1>6
  <2> QED BY <2>1, <2>2, <2>3
<1>20. ASSUME up[d] = levels[d][own[d] + 1] PROVE leaf = leaves[i + 1]
  <2>1. PICK good : good = {k \in 0..d : up[k] = levels[k][own[k] + 1]} OBVIOUS
  <2>2. d \in good BY <1>6, <1>20, <2>1
  <2>3. good \in SUBSET Nat BY <2>1
  <2>4. PICK m \in good : \A k \in good : m <= k BY <2>2, <2>3, LeastOf
  <2>5. m = 0
    <3> SUFFICES ASSUME m # 0 PROVE FALSE OBVIOUS
    <3>1. m \in 1..d /\ m - 1 \in 0..d BY <1>6, <2>1
    <3>2. m - 1 \in good BY <1>18, <2>1, <2>4, <3>1
    <3> QED BY <2>4, <3>1, <3>2
  <2> QED BY <1>11, <1>17, <2>1, <2>4, <2>5
<1> QED BY <1>5, <1>15, <1>16, <1>19, <1>20

(* The run *)

ProofRow == [content : Contents, index : Int]

PayloadsOf(root) == {Payload(root, time) : time \in 1..MaxAnchors}
AnchorRow == [tx : Nat, root : {merkleRoot}]

MerkleInv ==
    /\ stored \in Seq(ProofRow)
    /\ sealing = "capture" => merkleRoot = NoHash /\ radixTx = 0 /\ anchored = <<>> /\ anchors = <<>>
    /\ stored # <<>> /\ sealing # "capture" =>
          /\ merkleRoot = RootOf(Leaves)
          /\ \A i \in DOMAIN stored : stored[i].index = i - 1
    /\ anchored \in Seq(PayloadsOf(merkleRoot)) /\ radixTx \in 0..Len(anchored)
    /\ anchors \in Seq(AnchorRow)

LEMMA ProofsStored ==
    ASSUME MerkleInv
    PROVE  /\ Len(stored) \in Nat /\ DOMAIN stored = 1..Len(stored)
           /\ \A i \in DOMAIN stored : stored[i] \in ProofRow
           /\ stored # <<>> => Len(stored) # 0
BY LenProperties, ElementOfSeq, EmptySeq DEF MerkleInv

LEMMA LeavesAre ==
    ASSUME MerkleInv, stored # <<>>
    PROVE  /\ ListedLeaves(Leaves) /\ Len(Leaves) = Len(stored)
           /\ \A i \in DOMAIN stored : Leaves[i] = Leaf(stored[i].content)
<1>1. PICK n \in Nat \ {0} : n = Len(stored) /\ DOMAIN stored = 1..n BY ProofsStored
<1>2. PICK f : f = Leaves OBVIOUS
<1>3. f = [i \in 1..n |-> Leaf(stored[i].content)] BY <1>1, <1>2 DEF Leaves
<1>4. PICK S : S = {f[i] : i \in 1..n} OBVIOUS
<1>5. f \in [1..n -> S] BY <1>3, <1>4
<1>6. Len(f) = n BY <1>5
<1> QED BY <1>1, <1>2, <1>3, <1>6 DEF ListedLeaves

\* After the tree is built nothing of it changes until the run is archived.
LEMMA MerkleStays ==
    ASSUME MerkleInv, UNCHANGED <<stored, merkleRoot>>, sealing # "capture", sealing' # "capture",
           anchored' \in Seq(PayloadsOf(merkleRoot)), radixTx' \in 0..Len(anchored'),
           anchors' \in Seq(AnchorRow)
    PROVE  MerkleInv'
<1>1. Leaves' = Leaves /\ AnchorRow' = AnchorRow BY DEF Leaves, AnchorRow
<1> QED BY <1>1 DEF MerkleInv

LEMMA CaptureKept == ASSUME MerkleInv, NEW c \in Contents, CaptureStepProof(c) PROVE MerkleInv'
<1>1. PICK row : row = [content |-> c, index |-> Unindexed] OBVIOUS
<1>2. row \in ProofRow BY <1>1 DEF ProofRow, Unindexed
<1>3. /\ stored' = Append(stored, row) /\ sealing = "capture"
      /\ UNCHANGED <<merkleRoot, radixTx, anchored, anchors, sealing>>
  BY <1>1 DEF CaptureStepProof
<1>4. stored' \in Seq(ProofRow) BY <1>2, <1>3, AppendProperties DEF MerkleInv
<1>5. AnchorRow' = AnchorRow BY <1>3 DEF AnchorRow
<1> QED BY <1>3, <1>4, <1>5 DEF MerkleInv

LEMMA BuildKept == ASSUME MerkleInv, BuildMerkleTree PROVE MerkleInv'
<1>1. /\ sealing = "capture" /\ sealing' = "anchor" /\ merkleRoot' = RootOf(Leaves) /\ stored' = Indexed
      /\ UNCHANGED <<radixTx, anchored, anchors>>
  BY DEF BuildMerkleTree
<1>2. PICK n \in Nat : n = Len(stored) /\ DOMAIN stored = 1..n BY ProofsStored
<1>3. PICK s : s = stored' OBVIOUS
<1>4. s = [i \in 1..n |-> [stored[i] EXCEPT !.index = i - 1]] BY <1>1, <1>2, <1>3 DEF Indexed
<1>5. \A i \in 1..n : s[i] \in ProofRow /\ s[i].index = i - 1 /\ s[i].content = stored[i].content
  <2> SUFFICES ASSUME NEW i \in 1..n
               PROVE  s[i] \in ProofRow /\ s[i].index = i - 1 /\ s[i].content = stored[i].content
    OBVIOUS
  <2>1. PICK t \in ProofRow : t = stored[i] BY <1>2, ProofsStored
  <2>2. s[i] = [t EXCEPT !.index = i - 1] BY <1>4, <2>1
  <2> QED BY <2>1, <2>2 DEF ProofRow
<1>6. s \in Seq(ProofRow) /\ DOMAIN s = 1..n BY <1>4, <1>5
<1>7. Leaves' = Leaves
  <2>1. CASE stored = <<>>
    <3>1. n = 0 BY <1>2, <2>1
    <3>2. s = <<>> BY <1>4, <3>1
    <3> QED BY <1>3, <2>1, <3>2 DEF Leaves
  <2>2. CASE stored # <<>>
    <3>1. n # 0 BY <1>2, <2>2, ProofsStored
    <3>2. s # <<>>
      <4>1. 1 \in DOMAIN s BY <1>6, <3>1
      <4> QED BY <4>1
    <3>3. Leaves = [i \in 1..n |-> Leaf(stored[i].content)] BY <1>2, <2>2 DEF Leaves
    <3>4. Leaves' = [i \in 1..n |-> Leaf(s[i].content)] BY <1>3, <1>6, <3>2 DEF Leaves
    <3> QED BY <1>5, <3>3, <3>4
  <2> QED BY <2>1, <2>2
<1>8. anchored' = <<>> /\ radixTx' = 0 /\ anchors' = <<>> BY <1>1 DEF MerkleInv
<1>9. anchored' \in Seq(PayloadsOf(merkleRoot')) /\ radixTx' \in 0..Len(anchored') /\ anchors' \in Seq(AnchorRow')
  BY <1>8, EmptySeq
<1>10. \A i \in DOMAIN stored' : stored'[i].index = i - 1 BY <1>3, <1>5, <1>6
<1> QED BY <1>1, <1>3, <1>6, <1>7, <1>9, <1>10 DEF MerkleInv

\* A transaction's payload is of the root; only the last one is referred to.
LEMMA AnchorKept == ASSUME MerkleInv, AnchorToRadix PROVE MerkleInv'
<1>1. /\ sealing \in {"anchor", "done"} /\ Len(anchored) < MaxAnchors
      /\ anchored' = Append(anchored, Payload(merkleRoot, Len(anchored) + 1))
      /\ radixTx' \in {radixTx, Len(anchored) + 1} /\ sealing' \in {"record", "done"}
      /\ UNCHANGED <<stored, merkleRoot, anchors>>
  BY DEF AnchorToRadix
<1>2. PICK n \in Nat : n = Len(anchored) BY LenProperties DEF MerkleInv
<1>3. MaxAnchors \in Nat BY MerkleAssumption
<1>4. n + 1 \in 1..MaxAnchors BY <1>1, <1>2, <1>3
<1>5. Payload(merkleRoot, n + 1) \in PayloadsOf(merkleRoot) BY <1>4 DEF PayloadsOf
<1>6. anchored' \in Seq(PayloadsOf(merkleRoot)) /\ Len(anchored') = n + 1
  BY <1>1, <1>2, <1>5, AppendProperties DEF MerkleInv
<1>7. radixTx' \in 0..(n + 1)
  <2>1. radixTx \in 0..n BY <1>2 DEF MerkleInv
  <2> QED BY <1>1, <1>2, <2>1
<1>8. anchors' \in Seq(AnchorRow) BY <1>1 DEF MerkleInv
<1>9. sealing # "capture" /\ sealing' # "capture" BY <1>1
<1> QED BY <1>1, <1>6, <1>7, <1>8, <1>9, MerkleStays

LEMMA RecordKept == ASSUME MerkleInv, RecordAnchor PROVE MerkleInv'
<1>1. /\ sealing = "record" /\ sealing' = "done" /\ anchors' = Append(anchors, [tx |-> radixTx, root |-> merkleRoot])
      /\ UNCHANGED <<stored, merkleRoot, radixTx, anchored>>
  BY DEF RecordAnchor
<1>2. PICK row : row = [tx |-> radixTx, root |-> merkleRoot] OBVIOUS
<1>3. radixTx \in Nat
  <2>1. PICK n \in Nat : n = Len(anchored) BY LenProperties DEF MerkleInv
  <2> QED BY <2>1 DEF MerkleInv
<1>4. row \in AnchorRow BY <1>2, <1>3 DEF AnchorRow
<1>5. anchors' \in Seq(AnchorRow) BY <1>1, <1>2, <1>4, AppendProperties DEF MerkleInv
<1>6. anchored' \in Seq(PayloadsOf(merkleRoot)) /\ radixTx' \in 0..Len(anchored') BY <1>1 DEF MerkleInv
<1> QED BY <1>1, <1>5, <1>6, MerkleStays

LEMMA AnchoringFailureKept == ASSUME MerkleInv, AnchoringFails PROVE MerkleInv'
<1>1. /\ UNCHANGED <<stored, merkleRoot, radixTx, anchored, anchors>>
      /\ sealing # "capture" /\ sealing' # "capture"
  BY DEF AnchoringFails
<1>2. /\ anchored' \in Seq(PayloadsOf(merkleRoot)) /\ radixTx' \in 0..Len(anchored')
      /\ anchors' \in Seq(AnchorRow)
  BY <1>1 DEF MerkleInv
<1> QED BY <1>1, <1>2, MerkleStays

LEMMA ArchiveKept == ASSUME MerkleInv, ArchiveRun PROVE MerkleInv'
<1>1. /\ stored' = <<>> /\ anchors' = <<>> /\ sealing' # "capture"
      /\ UNCHANGED <<merkleRoot, radixTx, anchored>>
  BY DEF ArchiveRun
<1>2. stored' \in Seq(ProofRow) /\ anchors' \in Seq(AnchorRow') BY <1>1, EmptySeq
<1>3. anchored' \in Seq(PayloadsOf(merkleRoot')) /\ radixTx' \in 0..Len(anchored') BY <1>1 DEF MerkleInv
<1> QED BY <1>1, <1>2, <1>3 DEF MerkleInv

LEMMA MerkleStep == MerkleInv /\ [MerkleNext]_merkleVars => MerkleInv'
<1> SUFFICES ASSUME MerkleInv, [MerkleNext]_merkleVars PROVE MerkleInv' OBVIOUS
<1>1. CASE MerkleNext
  BY <1>1, CaptureKept, BuildKept, AnchorKept, RecordKept, AnchoringFailureKept, ArchiveKept DEF MerkleNext
<1>2. CASE UNCHANGED merkleVars BY <1>2 DEF merkleVars, MerkleInv, Leaves, AnchorRow
<1> QED BY <1>1, <1>2

LEMMA MerkleStarts == MerkleInit => MerkleInv
<1> SUFFICES ASSUME MerkleInit PROVE MerkleInv OBVIOUS
<1>1. /\ stored = <<>> /\ merkleRoot = NoHash /\ radixTx = 0 /\ anchored = <<>> /\ anchors = <<>>
      /\ sealing = "capture"
  BY DEF MerkleInit
<1>2. stored \in Seq(ProofRow) /\ anchored \in Seq(PayloadsOf(merkleRoot)) /\ anchors \in Seq(AnchorRow)
  BY <1>1, EmptySeq
<1>3. radixTx \in 0..Len(anchored) BY <1>1, EmptySeq
<1> QED BY <1>1, <1>2, <1>3 DEF MerkleInv

LEMMA PathsAreTrue == MerkleInv => PathsVerify
<1> SUFFICES ASSUME MerkleInv, merkleRoot # NoHash, NEW i \in DOMAIN stored, NEW c \in Contents
             PROVE  ReachedFrom(Leaf(c), ProofPath(Leaves, stored[i].index)) = merkleRoot <=> c = stored[i].content
  BY DEF PathsVerify
<1>1. sealing # "capture" BY DEF MerkleInv
<1>3. PICK n \in Nat : n = Len(stored) /\ DOMAIN stored = 1..n BY ProofsStored
<1>4. stored # <<>> BY <1>3
<1>2. merkleRoot = RootOf(Leaves) /\ stored[i].index = i - 1 BY <1>1, <1>4 DEF MerkleInv
<1>5. ListedLeaves(Leaves) /\ Len(Leaves) = n /\ Leaves[i] = Leaf(stored[i].content) BY <1>3, <1>4, LeavesAre
<1>6. i - 1 \in 0..(n - 1) /\ (i - 1) + 1 = i BY <1>3
<1>7. ReachedFrom(Leaf(c), ProofPath(Leaves, i - 1)) = RootOf(Leaves) <=> Leaf(c) = Leaves[i]
  BY <1>5, <1>6, PathsLead
<1>8. Leaf(c) = Leaf(stored[i].content) <=> c = stored[i].content BY DEF Leaf
<1> QED BY <1>2, <1>5, <1>7, <1>8

\* The hashes with an index that a certificate lists give the leaves again, in their order,
\* whatever anchors are listed beside them.
LEMMA RebuiltIs == ASSUME MerkleInv, sealing # "capture", stored # <<>> PROVE Rebuilt = Leaves
<1>1. PICK n \in Nat \ {0} : n = Len(stored) /\ DOMAIN stored = 1..n BY ProofsStored
<1>2. PICK m \in Nat : m = Len(anchors) /\ DOMAIN anchors = 1..m BY LenProperties DEF MerkleInv
<1>3. PICK a : a = [i \in 1..n |-> [hash |-> Leaf(stored[i].content), index |-> stored[i].index]] OBVIOUS
<1>4. PICK b : b = [j \in 1..m |-> [hash |-> AnchorHash(anchors[j].root, anchors[j].tx), index |-> Unindexed]]
  OBVIOUS
<1>5. PICK listed : listed = Certificate.listed OBVIOUS
<1>6. listed = a \o b BY <1>1, <1>2, <1>3, <1>4, <1>5 DEF Certificate
<1>7. PICK S : S = {a[i] : i \in 1..n} \cup {b[j] : j \in 1..m} OBVIOUS
<1>8. a \in Seq(S) /\ Len(a) = n
  <2>1. a \in [1..n -> S] BY <1>3, <1>7
  <2> QED BY <2>1
<1>9. b \in Seq(S) /\ Len(b) = m
  <2>1. b \in [1..m -> S] BY <1>4, <1>7
  <2> QED BY <2>1
<1>10. /\ listed \in Seq(S) /\ Len(listed) = n + m
       /\ \A i \in 1..(n + m) : listed[i] = IF i <= n THEN a[i] ELSE b[i - n]
  BY <1>6, <1>8, <1>9, ConcatProperties
<1>11. DOMAIN listed = 1..(n + m) BY <1>10, LenProperties
<1>12. \A k \in 1..n : a[k].index = k - 1 /\ a[k].hash = Leaf(stored[k].content)
  BY <1>1, <1>3 DEF MerkleInv
<1>13. PICK leaves : leaves = {r \in {listed[i] : i \in DOMAIN listed} : r.index # Unindexed} OBVIOUS
<1>14. leaves = {a[k] : k \in 1..n}
  <2>1. ASSUME NEW r \in leaves PROVE r \in {a[k] : k \in 1..n}
    <3>1. PICK i \in 1..(n + m) : r = listed[i] BY <1>11, <1>13, <2>1
    <3>2. CASE i <= n
      <4>1. i \in 1..n /\ r = a[i] BY <1>10, <3>1, <3>2
      <4> QED BY <4>1
    <3>3. CASE ~(i <= n)
      <4>1. i - n \in 1..m /\ r = b[i - n] BY <1>10, <3>1, <3>3
      <4>2. r.index = Unindexed BY <1>4, <4>1
      <4> QED BY <1>13, <2>1, <4>2
    <3> QED BY <3>2, <3>3
  <2>2. ASSUME NEW k \in 1..n PROVE a[k] \in leaves
    <3>1. k \in 1..(n + m) /\ listed[k] = a[k] BY <1>10
    <3>2. a[k].index # Unindexed BY <1>12 DEF Unindexed
    <3> QED BY <1>11, <1>13, <3>1, <3>2
  <2> QED BY <2>1, <2>2
<1>15. \A k \in 1..n : (CHOOSE r \in leaves : r.index = k - 1) = a[k]
  <2> SUFFICES ASSUME NEW k \in 1..n, NEW h, h = CHOOSE r \in leaves : r.index = k - 1
               PROVE  h = a[k]
    OBVIOUS
  <2>1. a[k] \in leaves /\ a[k].index = k - 1 BY <1>12, <1>14
  <2>2. h \in leaves /\ h.index = k - 1 BY <2>1
  <2>3. PICK i \in 1..n : h = a[i] BY <1>14, <2>2
  <2>4. i - 1 = k - 1 BY <1>12, <2>2, <2>3
  <2>5. i = k BY <2>4
  <2> QED BY <2>3, <2>5
<1>16. {r.index + 1 : r \in leaves} = 1..n
  <2>1. {r.index + 1 : r \in leaves} = {a[k].index + 1 : k \in 1..n} BY <1>14
  <2>2. \A k \in 1..n : a[k].index + 1 = k BY <1>12
  <2> QED BY <2>1, <2>2
<1>17. Rebuilt = [k \in 1..n |-> Leaf(stored[k].content)]
  <2>1. Rebuilt = [k \in {r.index + 1 : r \in leaves} |-> (CHOOSE r \in leaves : r.index = k - 1).hash]
    BY <1>5, <1>13 DEF Rebuilt
  <2> QED BY <1>12, <1>15, <1>16, <2>1
<1> QED BY <1>1, <1>17 DEF Leaves

LEMMA CertificatesAreTrue == MerkleInv => CertificateVerifies
<1> SUFFICES ASSUME MerkleInv PROVE CertificateVerifies OBVIOUS
<1>1. Certificate.root = merkleRoot /\ Certificate.tx = radixTx BY DEF Certificate
<1>2. ASSUME merkleRoot # NoHash, stored # <<>> PROVE RootOf(Rebuilt) = merkleRoot
  <2>1. sealing # "capture" BY <1>2 DEF MerkleInv
  <2> QED BY <1>2, <2>1, RebuiltIs DEF MerkleInv
<1>3. ASSUME radixTx # 0 PROVE \E time \in 1..MaxAnchors : anchored[radixTx] = Payload(merkleRoot, time)
  <2>1. PICK n \in Nat : n = Len(anchored) BY LenProperties DEF MerkleInv
  <2>2. anchored \in Seq(PayloadsOf(merkleRoot)) /\ radixTx \in 1..Len(anchored)
    BY <1>3, <2>1 DEF MerkleInv
  <2>3. anchored[radixTx] \in PayloadsOf(merkleRoot) BY <2>2, ElementOfSeq
  <2> QED BY <2>3 DEF PayloadsOf
<1> QED BY <1>1, <1>2, <1>3 DEF CertificateVerifies

\* validation_engine/proofs.py: for any number of captured proofs, each of them and nothing else
\* verifies at its index against the stored root, a certificate's indexed hashes give that root
\* whatever anchors it lists beside them, and its transaction is of a payload with that root.
THEOREM ProofsAreSound == MerkleSpec => []ProofsVerify
<1>1. MerkleSpec => []MerkleInv BY MerkleStarts, MerkleStep, PTL DEF MerkleSpec
<1>2. MerkleInv => ProofsVerify BY PathsAreTrue, CertificatesAreTrue DEF ProofsVerify
<1> QED BY <1>1, <1>2, PTL
=============================================================================
