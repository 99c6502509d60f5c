----------------------------- MODULE BeatLeader -----------------------------
(***************************************************************************)
(* Leader election of the Celery Beat pods (tasks/beat_scheduler.py): one  *)
(* Redis key with a time to live, taken with SET NX, prolonged by a GET    *)
(* and an EXPIRE, released on close.  Only the leader ticks.               *)
(***************************************************************************)
EXTENDS Integers, FiniteSets

CONSTANTS Schedulers,
          MaxPeriods,      \* bound: periods of the one schedule entry
          MaxCrashes       \* bound: pods closed or killed, and outages of Redis

\* No pod identifies itself with the words that stand for no owner and for a dead one.
ASSUME BeatAssumption == Schedulers \cap {"none", "stale"} = {}

VARIABLES lockKey,         \* Redis: the owner of celery_beat:leader_lock, or "none"
          redisUp,
          beat,            \* each pod: "idle", "mine" between GET and EXPIRE, "ticking", "down"
          isLeader,
          period,          \* the wall clock in periods of the entry
          lastRun,         \* last_run_at of the entry, which every pod keeps for itself
          sent,            \* history: how often the task of each period was sent
          keyLapsed,       \* history: the key expired under its owner
          crashes

beatVars == <<lockKey, redisUp, beat, isLeader, period, lastRun, sent, keyLapsed, crashes>>

BeatInit == /\ lockKey = "none" /\ redisUp = TRUE
            /\ beat = [s \in Schedulers |-> "idle"] /\ isLeader = [s \in Schedulers |-> FALSE]
            /\ period = 0 /\ lastRun = [s \in Schedulers |-> 0]
            /\ sent = [n \in 0..MaxPeriods |-> 0] /\ keyLapsed = FALSE /\ crashes = 0

Leads(s) == beat' = [beat EXCEPT ![s] = "ticking"] /\ isLeader' = [isLeader EXCEPT ![s] = TRUE]
Waits(s) == beat' = [beat EXCEPT ![s] = "idle"] /\ isLeader' = [isLeader EXCEPT ![s] = FALSE]

\* Slip: any owner of the key counts as this pod.
TakesAnyKey(s) ==
    /\ beat[s] = "idle" /\ redisUp
    /\ IF lockKey = "none" THEN lockKey' = s /\ Leads(s)
       ELSE /\ beat' = [beat EXCEPT ![s] = "mine"] /\ UNCHANGED <<lockKey, isLeader>>
    /\ UNCHANGED <<redisUp, period, lastRun, sent, keyLapsed, crashes>>

\* SET NX EX, then GET: the key is taken, found to be this pod's, or another's.
AcquireOrGet(s) ==
    /\ beat[s] = "idle" /\ redisUp
    /\ CASE lockKey = "none" -> lockKey' = s /\ Leads(s)
         [] lockKey = s      -> beat' = [beat EXCEPT ![s] = "mine"] /\ UNCHANGED <<lockKey, isLeader>>
         [] OTHER            -> Waits(s) /\ UNCHANGED lockKey
    /\ UNCHANGED <<redisUp, period, lastRun, sent, keyLapsed, crashes>>

\* EXPIRE prolongs whatever key is there, and none if it is gone.
Extend(s) ==
    /\ beat[s] = "mine" /\ redisUp /\ Leads(s)
    /\ UNCHANGED <<lockKey, redisUp, period, lastRun, sent, keyLapsed, crashes>>

\* A RedisError: fail closed.
LockError(s) ==
    /\ beat[s] \in {"idle", "mine"} /\ ~redisUp
    /\ beat[s] = "mine" \/ isLeader[s]
    /\ Waits(s)
    /\ UNCHANGED <<lockKey, redisUp, period, lastRun, sent, keyLapsed, crashes>>

\* Scheduler.tick sends what is due by the pod's own last_run_at.
Tick(s) ==
    /\ beat[s] = "ticking"
    /\ beat' = [beat EXCEPT ![s] = "idle"]
    /\ lastRun' = [lastRun EXCEPT ![s] = period]
    /\ sent' = IF lastRun[s] < period THEN [sent EXCEPT ![period] = IF @ < 2 THEN @ + 1 ELSE @] ELSE sent
    /\ UNCHANGED <<lockKey, redisUp, isLeader, period, keyLapsed, crashes>>

\* GET and DELETE of the own key.
Close(s) ==
    /\ beat[s] = "idle" /\ crashes < MaxCrashes /\ crashes' = crashes + 1
    /\ lockKey' = IF isLeader[s] /\ redisUp /\ lockKey = s THEN "none" ELSE lockKey
    /\ beat' = [beat EXCEPT ![s] = "down"] /\ isLeader' = [isLeader EXCEPT ![s] = FALSE]
    /\ UNCHANGED <<redisUp, period, lastRun, sent, keyLapsed>>

PodDies(s) ==
    /\ beat[s] # "down" /\ crashes < MaxCrashes /\ crashes' = crashes + 1
    /\ beat' = [beat EXCEPT ![s] = "down"] /\ isLeader' = [isLeader EXCEPT ![s] = FALSE]
    /\ UNCHANGED <<lockKey, redisUp, period, lastRun, sent, keyLapsed>>

\* A new process has a new identifier: a key it left behind is another's until it
\* expires.  Its entries count as run when it starts.
PodStarts(s) ==
    /\ beat[s] = "down"
    /\ beat' = [beat EXCEPT ![s] = "idle"]
    /\ lastRun' = [lastRun EXCEPT ![s] = period]
    /\ lockKey' = IF lockKey = s THEN "stale" ELSE lockKey
    /\ UNCHANGED <<redisUp, isLeader, period, sent, keyLapsed, crashes>>

KeyExpires == /\ lockKey # "none" /\ lockKey' = "none"
              /\ keyLapsed' = (keyLapsed \/ (lockKey \in Schedulers /\ beat[lockKey] # "down"))
              /\ UNCHANGED <<redisUp, beat, isLeader, period, lastRun, sent, crashes>>

RedisFails == /\ redisUp /\ redisUp' = FALSE /\ crashes < MaxCrashes /\ crashes' = crashes + 1
              /\ UNCHANGED <<lockKey, beat, isLeader, period, lastRun, sent, keyLapsed>>

RedisReturns == /\ ~redisUp /\ redisUp' = TRUE
                /\ UNCHANGED <<lockKey, beat, isLeader, period, lastRun, sent, keyLapsed, crashes>>

NextPeriod == /\ period < MaxPeriods /\ period' = period + 1
              /\ UNCHANGED <<lockKey, redisUp, beat, isLeader, lastRun, sent, keyLapsed, crashes>>

Election(s) == AcquireOrGet(s) \/ Extend(s) \/ Tick(s)

BeatNext == \/ \E s \in Schedulers : Election(s) \/ LockError(s) \/ Close(s) \/ PodDies(s) \/ PodStarts(s)
            \/ KeyExpires \/ RedisFails \/ RedisReturns \/ NextPeriod

BeatSpec == BeatInit /\ [][BeatNext]_beatVars

\* Every pod loops, the kubelet restarts it, Redis comes back, and a key nobody
\* prolongs expires.
BeatFairness == /\ \A s \in Schedulers : WF_beatVars(Election(s)) /\ WF_beatVars(PodStarts(s))
                /\ WF_beatVars(RedisReturns) /\ WF_beatVars(KeyExpires)

-----------------------------------------------------------------------------
(* Properties *)

\* _acquire_or_refresh_lock: two pods tick at the same time only after the key
\* expired under the pod that believed to hold it.
LeadersTickAlone ==
    Cardinality({s \in Schedulers : beat[s] = "ticking"}) > 1 => keyLapsed

\* beat_scheduler.py, "Prevents multiple Celery Beat pods from running duplicate
\* scheduled tasks": the task of a period is sent once, unless the key lapsed.
SentOnce == ~keyLapsed => \A n \in 0..MaxPeriods : sent[n] <= 1

=============================================================================
