------------------------------ MODULE Journeys ------------------------------
(***************************************************************************)
(* The synthetic journeys: run_synthetic_validation queues a run of each   *)
(* and stores a health snapshot (tasks/validation_jobs.py, validation_     *)
(* engine/health.py), the children of the worker execute the runs with the *)
(* journey service they have registered (journey_service.py), and the      *)
(* deploy gate judges what was stored (scripts/pre_deploy_check.py).       *)
(* Ticks overlap: beat sends the next while one runs, and a failed one is  *)
(* retried.  Time is the UTC day.  Beside it the journey service takes in  *)
(* batches captured offline (sync_offline_batch): from the oldest row to   *)
(* the newest, a household captured twice keeping the newer one.           *)
(***************************************************************************)
EXTENDS Integers, Sequences, FiniteSets

CONSTANTS WorkerChildren,   \* processes of the Celery worker, one task at a time
          JourneyOrder,     \* the journeys, in the order of the templates
          AccountJourneys,  \* those that register an account named after their actor
          StreakLimit,      \* STREAK_LIMIT
          Captured,         \* households captured offline
          MaxDays, MaxTicks, MaxJourneyRuns, MaxBeatFaults, MaxBatch   \* bounds

ASSUME JourneysAssumption == JourneyOrder \in Seq(STRING) /\ StreakLimit \in Nat

VARIABLES today,
          journeyRuns,  \* validation_runs: [journey, actor, status, day]
          actors,       \* number of service actors
          accounts,     \* users registered: <<journey, actor>>
          registered,   \* children that know the journey service
          tick,         \* [at, n, actor, began, day, below, streak] of each child's tick
          snapshots,    \* validation_health_snapshots: [day, below]; the streak is only shown
          ticks,        \* number of ticks begun
          beatFaults,
          offline,      \* a batch captured offline: the household of each row, oldest first
          nextRow,      \* the row of it that is looked at
          seenRow,      \* seen: the row kept for each household met, or 0
          rejected,     \* rows whose validation_status is rejected
          superseded    \* conflicts_resolved

journeyVars == <<today, journeyRuns, actors, accounts, registered, tick, snapshots, ticks, beatFaults>>
syncVars == <<offline, nextRow, seenRow, rejected, superseded>>

NoTick == [at |-> "idle", n |-> 1, actor |-> 0, began |-> 0, day |-> 0, below |-> FALSE, streak |-> 0]

JourneysInit ==
    /\ today = 1 /\ journeyRuns = <<>> /\ actors = 0 /\ accounts = {} /\ registered = {}
    /\ tick = [c \in WorkerChildren |-> NoTick] /\ snapshots = {}
    /\ ticks = 0 /\ beatFaults = 0

Goes(c, v) == tick' = [tick EXCEPT ![c] = v]
GoesTo(c, place) == Goes(c, [tick[c] EXCEPT !.at = place])
NextJourney(c) == Goes(c, [tick[c] EXCEPT !.at = "check", !.n = @ + 1])

(************************ a tick *******************************************)
\* get_or_create_default_actor looks for an actor; the one used least is any of them.
BeginTick(c) ==
    /\ tick[c].at = "idle" /\ ticks < MaxTicks /\ ticks' = ticks + 1
    /\ registered' = registered \cup {c}
    /\ \E a \in IF actors = 0 THEN {0} ELSE 1..actors :
          Goes(c, [NoTick EXCEPT !.at = IF a = 0 THEN "actor" ELSE "check", !.actor = a, !.began = today])
    /\ UNCHANGED <<today, journeyRuns, actors, accounts, snapshots, beatFaults>>

CreateActor(c) ==
    /\ tick[c].at = "actor"
    /\ actors' = actors + 1
    /\ Goes(c, [tick[c] EXCEPT !.at = "check", !.actor = actors + 1])
    /\ UNCHANGED <<today, journeyRuns, accounts, registered, snapshots, ticks, beatFaults>>

InFlight(i) == journeyRuns[i].status \in {"pending", "queued", "running"}

\* Slip: any run that is under way blocks its journey, however old.
HasInflightEver(j) == \E i \in DOMAIN journeyRuns : journeyRuns[i].journey = j /\ InFlight(i)

\* Only runs created since midnight count.
HasInflightRun(j) ==
    \E i \in DOMAIN journeyRuns : journeyRuns[i].journey = j /\ InFlight(i) /\ journeyRuns[i].day >= today

CheckJourney(c) ==
    /\ tick[c].at = "check" /\ tick[c].n <= Len(JourneyOrder)
    /\ IF HasInflightRun(JourneyOrder[tick[c].n]) THEN NextJourney(c) ELSE GoesTo(c, "create")
    /\ UNCHANGED <<today, journeyRuns, actors, accounts, registered, snapshots, ticks, beatFaults>>

CreateRun(c) ==
    /\ tick[c].at = "create" /\ Len(journeyRuns) < MaxJourneyRuns
    /\ journeyRuns' = Append(journeyRuns, [journey |-> JourneyOrder[tick[c].n], actor |-> tick[c].actor,
                                           status |-> "pending", day |-> today])
    /\ Goes(c, [tick[c] EXCEPT !.at = "delay", !.day = Len(journeyRuns) + 1])
    /\ UNCHANGED <<today, actors, accounts, registered, snapshots, ticks, beatFaults>>

RunIs(i, s) == journeyRuns' = [journeyRuns EXCEPT ![i].status = s]

Delay(c) ==
    /\ tick[c].at = "delay"
    /\ RunIs(tick[c].day, "queued")
    /\ Goes(c, [tick[c] EXCEPT !.at = "check", !.n = @ + 1, !.day = 0])
    /\ UNCHANGED <<today, actors, accounts, registered, snapshots, ticks, beatFaults>>

(************************ health *******************************************)
\* The last 24 hours: all of today's runs and the later ones of yesterday, from run k on.
Window(k) == {i \in DOMAIN journeyRuns : \/ journeyRuns[i].day = today
                                         \/ journeyRuns[i].day = today - 1 /\ i >= k}
Ended(k, outcomes) == {i \in Window(k) : journeyRuns[i].status \in outcomes}
Failures == {"failed", "unknown_service"}

\* round(60 % of the success rate + 40) < 90, when remediations and escalations are at their best.
JourneysBelow(k) == LET ended == Cardinality(Ended(k, Failures \cup {"completed"}))
                    IN 600 * Cardinality(Ended(k, {"completed"})) < 495 * ended

DayBelow(d, shots) == \E s \in shots : s.day = d /\ s.below

\* Consecutive days up to d whose worst snapshot is below the threshold.
StreakFromDailyScores(d, shots) ==
    Cardinality({k \in 1..d : \A e \in (d - k + 1)..d : DayBelow(e, shots)})

\* The score of today's journeys; remediations and escalations may pull it down.
ComputeSnapshot(c) ==
    /\ tick[c].at = "check" /\ tick[c].n > Len(JourneyOrder)
    /\ \E k \in 1..(Len(journeyRuns) + 1), below \in BOOLEAN :
          /\ JourneysBelow(k) => below
          /\ Goes(c, [tick[c] EXCEPT !.at = "store", !.day = today, !.below = below,
                !.streak = StreakFromDailyScores(today, snapshots \cup {[day |-> today, below |-> below]})])
    /\ UNCHANGED <<today, journeyRuns, actors, accounts, registered, snapshots, ticks, beatFaults>>

StoreSnapshot(c) ==
    /\ tick[c].at = "store"
    /\ snapshots' = snapshots \cup {[day |-> today, below |-> tick[c].below]}
    /\ Goes(c, NoTick)
    /\ UNCHANGED <<today, journeyRuns, actors, accounts, registered, ticks, beatFaults>>

(************************ the runs *****************************************)
\* A child that has run no tick does not know the service; an account is registered once.
ExecuteRun(c, i) ==
    /\ tick[c].at = "idle" /\ journeyRuns[i].status = "queued"
    /\ LET account == <<journeyRuns[i].journey, journeyRuns[i].actor>>
           named == journeyRuns[i].journey \in AccountJourneys
       IN /\ RunIs(i, IF c \notin registered THEN "unknown_service"
                      ELSE IF named /\ account \in accounts THEN "failed" ELSE "completed")
          /\ accounts' = IF named /\ c \in registered THEN accounts \cup {account} ELSE accounts
    /\ UNCHANGED <<today, actors, registered, tick, snapshots, ticks, beatFaults>>

\* The child dies: its run stays running, and the one that replaces it knows no service.
ChildDies(c) ==
    /\ beatFaults < MaxBeatFaults /\ beatFaults' = beatFaults + 1
    /\ registered' = registered \ {c}
    /\ \/ tick[c].at # "idle" /\ Goes(c, NoTick) /\ UNCHANGED journeyRuns
       \/ /\ tick[c].at = "idle" /\ UNCHANGED tick
          /\ \E i \in DOMAIN journeyRuns : journeyRuns[i].status = "queued" /\ RunIs(i, "running")
    /\ UNCHANGED <<today, actors, accounts, snapshots, ticks>>

Midnight == /\ today < MaxDays /\ today' = today + 1
            /\ UNCHANGED <<journeyRuns, actors, accounts, registered, tick, snapshots, ticks, beatFaults>>

(************************ the gate *****************************************)

\* recent_snapshots: seven days back from now reach into the eighth.
History == {s \in snapshots : s.day > today - StreakLimit}

Streaks == StreakFromDailyScores(today, History) >= StreakLimit
GateBlocks(k) ==
    \/ snapshots = {} \/ Streaks
    \/ \E j \in DOMAIN JourneyOrder :
          \/ \E i \in Ended(k, Failures) : journeyRuns[i].journey = JourneyOrder[j]
          \/ ~\E i \in Ended(k, {"completed"}) : journeyRuns[i].journey = JourneyOrder[j]

JourneysNext ==
    \/ \E c \in WorkerChildren :
          \/ BeginTick(c) \/ CreateActor(c) \/ CheckJourney(c) \/ CreateRun(c) \/ Delay(c)
          \/ ComputeSnapshot(c) \/ StoreSnapshot(c) \/ ChildDies(c)
          \/ \E i \in DOMAIN journeyRuns : ExecuteRun(c, i)
    \/ Midnight

(************************ an offline batch *********************************)
SyncInit ==
    /\ offline \in UNION {[1..n -> Captured] : n \in 1..MaxBatch}
    /\ nextRow = 1 /\ seenRow = [h \in Captured |-> 0] /\ rejected = {} /\ superseded = 0

\* The row met first is the one rejected.
Older(row) == seenRow[offline[row]]

SyncRow ==
    /\ nextRow <= Len(offline)
    /\ IF seenRow[offline[nextRow]] # 0
       THEN /\ rejected' = rejected \cup {Older(nextRow)} /\ superseded' = superseded + 1
            /\ UNCHANGED seenRow
       ELSE /\ seenRow' = [seenRow EXCEPT ![offline[nextRow]] = nextRow]
            /\ UNCHANGED <<rejected, superseded>>
    /\ nextRow' = nextRow + 1
    /\ UNCHANGED offline

SyncNext == SyncRow

RowsOf(h) == {i \in DOMAIN offline : offline[i] = h}

JourneysSpec == JourneysInit /\ SyncInit /\ [][JourneysNext]_journeyVars /\ [][SyncNext]_syncVars

(************************ properties ***************************************)
\* A tick that stores a snapshot has seen to it that every journey has a run since the
\* midnight it began after, also when a run of the day before is stuck
\* (tasks/validation_jobs.py:51).
SnapshotsAreFresh ==
    \A c \in WorkerChildren, n \in DOMAIN JourneyOrder :
        tick[c].at = "store" =>
            \E i \in DOMAIN journeyRuns : /\ journeyRuns[i].journey = JourneyOrder[n]
                                          /\ journeyRuns[i].day \in tick[c].began..today

\* A streak stored on the day it was computed is one the snapshots show, whatever
\* overlapping ticks have stored meanwhile (validation_engine/health.py:192).
StreaksAreEarned ==
    \A c \in WorkerChildren :
        tick[c].at = "store" /\ tick[c].day = today =>
            \A e \in (today - tick[c].streak + 1)..today :
                DayBelow(e, snapshots \cup {[day |-> today, below |-> tick[c].below]})

\* Nothing is deployed on the last day of a streak: the rolling history is long enough
\* (scripts/pre_deploy_check.py:118).
StreaksBlock ==
    /\ \A e \in (today - StreakLimit + 1)..today : DayBelow(e, snapshots)
    => \A k \in 1..(Len(journeyRuns) + 1) : GateBlocks(k)

\* No household is lost, and one captured at most twice keeps exactly its newest row
\* (validation_engine/journey_service.py:310); a third row would leave two.
NewestSurvives ==
    nextRow > Len(offline) =>
        \A i \in DOMAIN offline :
            LET rows == RowsOf(offline[i])
            IN /\ rows \ rejected # {}
               /\ Cardinality(rows) <= 2 => (i \notin rejected <=> \A j \in rows : j <= i)

\* What the gate is shown and what a batch keeps is the newest there is (journey_service.py,
\* health.py, pre_deploy_check.py).
JourneysHold == SnapshotsAreFresh /\ StreaksAreEarned /\ StreaksBlock /\ NewestSurvives

\* journey_service.py:454 ("registration happens there", at worker start): whoever executes
\* a journey knows its service.
ServiceIsKnown == \A i \in DOMAIN journeyRuns : journeyRuns[i].status # "unknown_service"
=============================================================================
