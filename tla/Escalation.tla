----------------------------- MODULE Escalation -----------------------------
(***************************************************************************)
(* Escalation events (escalations/service.py) raised by agents, sent over  *)
(* the channels of their priority by whichever process dispatches them     *)
(* (the raiser, the P0 and P1 beat tasks, the P1 message of two hours      *)
(* later), and acknowledged or resolved by operators.  A dispatcher works  *)
(* on the rows it loaded: it sends channel by channel, and at the end of   *)
(* an event stores the whole channels_sent of its copy.                    *)
(***************************************************************************)
EXTENDS Integers, Sequences, FiniteSets

CONSTANTS Events, Operators,
          Raisers, Workers,  \* sessions that raise events, and that run the tasks
          Adapters,          \* channels with an adapter in the registry
          Configured,        \* of these, the ones with credentials and a recipient
          P0_BATCH_LIMIT, P1_BATCH_LIMIT,
          MaxDeaths          \* bound: sessions that die

Channels == {"whatsapp", "sms", "email", "in_app"}
Dispatchers == Raisers \cup Workers

ASSUME EscalationAssumption == /\ Configured \subseteq Adapters /\ Adapters \subseteq Channels
                               /\ IsFiniteSet(Events)
PRIORITY_CHANNELS == << <<"whatsapp", "sms", "email", "in_app">>, <<"email", "in_app">>, <<>> >>

\* A channel without an adapter is passed over.
WithAdapter(chans) == SelectSeq(chans, LAMBDA c : c \in Adapters)
ChannelsOf(p) == WithAdapter(PRIORITY_CHANNELS[p + 1])
EscalationStatus == {"open", "acknowledged", "resolved"}

\* A record of channels_sent: a success is fresh for P0_REDELIVER_WINDOW.
SendRecord == {"none", "failed", "fresh", "old"}

EscalationEvent == [status : EscalationStatus, priority : 0..2, acknowledged_by : BOOLEAN,
                    resolved_by : BOOLEAN, channels_sent : [Channels -> SendRecord]]
NoEvent == [status |-> "none"]

VARIABLES esc,       \* row of each event, or NoEvent
          created_at,  \* how many events were raised before each event was, and itself
          job,       \* what each dispatcher works on
          p1_sla,    \* events with a send_p1_escalations message to come
          hand,      \* what each operator's request has loaded
          decided,   \* <<event, action>> of the recorded decisions
          deaths,    \* sessions that died so far
          unexplained  \* history: changes whose session died before its decision

escVars == <<esc, created_at, job, p1_sla, hand, decided, deaths, unexplained>>

Idle == [task |-> "idle"]
Unloaded == [act |-> "none"]

EscInit == /\ esc = [e \in Events |-> NoEvent] /\ created_at = [e \in Events |-> 0]
           /\ job = [d \in Dispatchers |-> Idle] /\ p1_sla = {}
           /\ hand = [o \in Operators |-> Unloaded]
           /\ decided = {} /\ deaths = 0 /\ unexplained = {}

-----------------------------------------------------------------------------
(* Dispatch *)

Open(p) == {e \in Events : esc[e].status = "open" /\ esc[e].priority = p}
Batch(S, limit) == {e \in S : Cardinality({f \in S : created_at[f] < created_at[e]}) < limit}
Oldest(S) == CHOOSE e \in S : \A f \in S : created_at[e] <= created_at[f]

\* Any success among the records of a copy.
AnySuccess(sent) == \E c \in Channels : sent[c] \in {"fresh", "old"}

\* Most recent successful send; only whether it lies in the last minute matters.
LatestIsFresh(sent) == \E c \in Channels : sent[c] = "fresh"

\* The open rows of a priority that were not sent of late, or never.
Quiet(p) == {e \in Open(p) : ~LatestIsFresh(esc[e].channels_sent)}
Unsent(p) == {e \in Open(p) : ~AnySuccess(esc[e].channels_sent)}

\* The rows to dispatch, oldest first, with the channels_sent they were loaded with.
Work(task, es, sent) ==
    IF es = {} THEN Idle
    ELSE [task |-> task, at |-> Oldest(es), todo |-> ChannelsOf(esc[Oldest(es)].priority),
          sent |-> [e \in es |-> sent[e]]]
Loaded(task, es) == Work(task, es, [e \in es |-> esc[e].channels_sent])

RaiseEscalation(d, e, p) ==
    /\ job[d] = Idle /\ esc[e] = NoEvent
    /\ LET none == [c \in Channels |-> "none"] IN
       /\ esc' = [esc EXCEPT ![e] = [status |-> "open", priority |-> p, acknowledged_by |-> FALSE,
                                     resolved_by |-> FALSE, channels_sent |-> none]]
       /\ job' = [job EXCEPT ![d] =
            [task |-> "raise", at |-> e, todo |-> ChannelsOf(p), sent |-> [f \in {e} |-> none]]]
    /\ created_at' = [created_at EXCEPT ![e] = Cardinality({f \in Events : esc[f] # NoEvent}) + 1]
    /\ UNCHANGED <<p1_sla, hand, decided, deaths, unexplained>>

\* Slip: the task goes for the rows whose last send is recent.
DispatchP0Inverted(d) ==
    /\ job[d] = Idle
    /\ LET due == Batch(Open(0), P0_BATCH_LIMIT) \ Quiet(0) IN
       due # {} /\ job' = [job EXCEPT ![d] = Loaded("p0", due)]
    /\ UNCHANGED <<esc, created_at, p1_sla, hand, decided, deaths, unexplained>>

DispatchP0(d) ==
    /\ job[d] = Idle
    /\ LET due == Batch(Open(0), P0_BATCH_LIMIT) \cap Quiet(0) IN
       due # {} /\ job' = [job EXCEPT ![d] = Loaded("p0", due)]
    /\ UNCHANGED <<esc, created_at, p1_sla, hand, decided, deaths, unexplained>>

\* The beat task takes the open P1 rows without a success.
SendP1Beat(d) ==
    /\ job[d] = Idle
    /\ LET due == Batch(Open(1), P1_BATCH_LIMIT) \cap Unsent(1) IN
       due # {} /\ job' = [job EXCEPT ![d] = Loaded("p1", due)]
    /\ UNCHANGED <<esc, created_at, p1_sla, hand, decided, deaths, unexplained>>

\* The message of the service takes its one row, sent or not, if it is open.
\* It is acknowledged late: a worker that dies leaves it in the queue.
SendP1Sla(d, e) ==
    /\ job[d] = Idle /\ e \in p1_sla
    /\ \/ /\ esc[e].status = "open"
          /\ job' = [job EXCEPT ![d] = Loaded("p1_sla", {e})]
          /\ UNCHANGED p1_sla
       \/ /\ esc[e].status # "open"
          /\ p1_sla' = p1_sla \ {e}
          /\ UNCHANGED job
    /\ UNCHANGED <<esc, created_at, hand, decided, deaths, unexplained>>

\* What a channel adapter's send may return: never an exception.
Outcomes(c) == IF c \in Configured THEN {"fresh", "failed"} ELSE {"failed"}

\* One adapter of the loop; the record goes into the dispatcher's copy.
SendTo(d, outcome) ==
    /\ job[d] # Idle /\ job[d].todo # <<>>
    /\ outcome \in Outcomes(Head(job[d].todo))
    /\ job' = [job EXCEPT ![d].todo = Tail(@), ![d].sent[job[d].at][Head(job[d].todo)] = outcome]
    /\ UNCHANGED <<esc, created_at, p1_sla, hand, decided, deaths, unexplained>>

\* After the last channel: the whole copy is stored (an unchanged one is not
\* written), and the dispatcher goes on to the next row it loaded.
StoreSent(d) ==
    /\ job[d] # Idle /\ job[d].todo = <<>>
    /\ LET e == job[d].at sent == job[d].sent IN
       /\ esc' = IF ChannelsOf(esc[e].priority) = <<>> THEN esc
                 ELSE [esc EXCEPT ![e].channels_sent = sent[e]]
       /\ job' = [job EXCEPT ![d] = Work(job[d].task, DOMAIN sent \ {e}, sent)]
       /\ \/ /\ job[d].task = "raise" /\ esc[e].priority = 1
             /\ p1_sla' = p1_sla \cup {e}
          \/ /\ job[d].task = "p1_sla"
             /\ p1_sla' = p1_sla \ {e}
          \/ /\ job[d].task # "p1_sla"      \* also: the broker refuses the message
             /\ UNCHANGED p1_sla
    /\ UNCHANGED <<created_at, hand, decided, deaths, unexplained>>

DispatcherDies(d) ==
    /\ job[d] # Idle /\ deaths < MaxDeaths
    /\ job' = [job EXCEPT ![d] = Idle] /\ deaths' = deaths + 1
    /\ UNCHANGED <<esc, created_at, p1_sla, hand, decided, unexplained>>

\* A minute: what was fresh is old, in the rows and in the loaded copies.
Aged(sent) == [c \in Channels |-> IF sent[c] = "fresh" THEN "old" ELSE sent[c]]
Minute ==
    /\ \E e \in Events : esc[e] # NoEvent /\ LatestIsFresh(esc[e].channels_sent)
    /\ esc' = [e \in Events |-> IF esc[e] = NoEvent THEN NoEvent
                                ELSE [esc[e] EXCEPT !.channels_sent = Aged(@)]]
    /\ job' = [d \in Dispatchers |-> IF job[d] = Idle THEN Idle
                 ELSE [job[d] EXCEPT !.sent = [e \in DOMAIN @ |-> Aged(@[e])]]]
    /\ UNCHANGED <<created_at, p1_sla, hand, decided, deaths, unexplained>>

-----------------------------------------------------------------------------
(* Operators: load and check, commit, record the decision *)

\* get_event and the check of the status, for acknowledge or resolve.
Load(o, e, act) ==
    /\ hand[o] = Unloaded /\ esc[e] # NoEvent
    /\ esc[e].status # "resolved"
    /\ hand' = [hand EXCEPT ![o] = [act |-> act, event |-> e, status |-> esc[e].status, at |-> "loaded"]]
    /\ UNCHANGED <<esc, created_at, job, p1_sla, decided, deaths, unexplained>>

Committed(o) == [hand EXCEPT ![o].at = "committed"]

\* UPDATE names the status column only if it differs from the loaded one.
Acknowledge(o) ==
    /\ hand[o].act = "acknowledge" /\ hand[o].at = "loaded"
    /\ LET h == hand[o] IN
       esc' = [esc EXCEPT ![h.event].acknowledged_by = TRUE,
                          ![h.event].status = IF h.status = "open" THEN "acknowledged" ELSE @]
    /\ hand' = Committed(o)
    /\ UNCHANGED <<created_at, job, p1_sla, decided, deaths, unexplained>>

Resolve(o) ==
    /\ hand[o].act = "resolve" /\ hand[o].at = "loaded"
    /\ LET h == hand[o] IN
       esc' = [esc EXCEPT ![h.event].status = "resolved", ![h.event].resolved_by = TRUE,
                          ![h.event].acknowledged_by = TRUE]
    /\ hand' = Committed(o)
    /\ UNCHANGED <<created_at, job, p1_sla, decided, deaths, unexplained>>

\* Slip: the decision of a resolution is recorded as an acknowledgement.
RecordAck(o) ==
    /\ hand[o] # Unloaded /\ hand[o].at = "committed"
    /\ decided' = decided \cup {<<hand[o].event, "acknowledge">>}
    /\ hand' = [hand EXCEPT ![o] = Unloaded]
    /\ UNCHANGED <<esc, created_at, job, p1_sla, deaths, unexplained>>

\* record_decision, a second commit; then the event is published.
Record(o) ==
    /\ hand[o] # Unloaded /\ hand[o].at = "committed"
    /\ decided' = decided \cup {<<hand[o].event, hand[o].act>>}
    /\ hand' = [hand EXCEPT ![o] = Unloaded]
    /\ UNCHANGED <<esc, created_at, job, p1_sla, deaths, unexplained>>

RequestDies(o) ==
    /\ hand[o] # Unloaded /\ deaths < MaxDeaths
    /\ unexplained' = IF hand[o].at = "committed"
                      THEN unexplained \cup {<<hand[o].event, hand[o].act>>} ELSE unexplained
    /\ hand' = [hand EXCEPT ![o] = Unloaded] /\ deaths' = deaths + 1
    /\ UNCHANGED <<esc, created_at, job, p1_sla, decided>>

-----------------------------------------------------------------------------
EscNext ==
    \/ \E d \in Raisers, e \in Events, p \in 0..2 : RaiseEscalation(d, e, p)
    \/ \E d \in Workers : DispatchP0(d) \/ SendP1Beat(d) \/ \E e \in Events : SendP1Sla(d, e)
    \/ \E d \in Dispatchers : StoreSent(d) \/ DispatcherDies(d)
    \/ \E d \in Dispatchers, outcome \in {"fresh", "failed"} : SendTo(d, outcome)
    \/ \E o \in Operators, e \in Events, act \in {"acknowledge", "resolve"} : Load(o, e, act)
    \/ \E o \in Operators : Acknowledge(o) \/ Resolve(o) \/ Record(o) \/ RequestDies(o)
    \/ Minute

EscSpec == EscInit /\ [][EscNext]_escVars

\* The beat starts its tasks again and again, workers keep working, time
\* passes, and the in-app push, tried for ever, works at some time.
EscFairness ==
    /\ WF_escVars(Minute)
    /\ \A d \in Workers :
          /\ SF_escVars(DispatchP0(d)) /\ WF_escVars(StoreSent(d))
          /\ WF_escVars(\E outcome \in {"fresh", "failed"} : SendTo(d, outcome))
          /\ SF_escVars(job[d] # Idle /\ job[d].todo # <<>> /\ Head(job[d].todo) = "in_app"
                        /\ SendTo(d, "fresh"))

-----------------------------------------------------------------------------
(* The health score, in tenths of a point *)

NoData == -1       \* a component without rows to compute it from
RoundHalfEven(n, d) ==
    LET q == n \div d r == n % d IN
    IF 2 * r > d \/ (2 * r = d /\ q % 2 = 1) THEN q + 1 ELSE q
OpenCount(p) == Cardinality(Open(p))

OpenScore == LET s == 1000 - 250 * OpenCount(0) - 100 * OpenCount(1) - 20 * OpenCount(2)
             IN IF s < 0 THEN 0 ELSE s
DepthScore(n) == IF 50 * n > 1000 THEN 0 ELSE 1000 - 50 * n

\* The weighted mean of the available components, rounded to a whole number.
HealthScore(conf, depth, rate, runs) ==
    LET weight(w, s) == IF s = NoData THEN 0 ELSE w
        weights == weight(30, conf) + 50 + weight(10, rate) + weight(10, runs)
        points == weight(30, conf) * conf + 30 * OpenScore + 20 * DepthScore(depth)
                  + weight(10, rate) * rate + weight(10, runs) * runs
    IN RoundHalfEven(points, 10 * weights)

-----------------------------------------------------------------------------
(* Properties *)

\* The row shows that the event was acknowledged, or resolved; and what is known of it.
HandlingShown(e, act) ==
    /\ esc[e] # NoEvent
    /\ \/ act = "resolve" /\ esc[e].resolved_by
       \/ act = "acknowledge" /\ esc[e].status = "acknowledged"
HandlingExplained(e, act) ==
    \/ <<e, act>> \in decided \cup unexplained
    \/ \E o \in Operators : hand[o] # Unloaded /\ hand[o].event = e
                            /\ hand[o].act = act /\ hand[o].at = "committed"

\* service.py acknowledge and resolve, two commits each, in any interleaving
\* and with sessions that die: a status other than open, and the fields of the
\* person who resolved, have their decision in the chain, or a request that is
\* about to record it, or one that died before it could.
HandlingIsAudited ==
    \A e \in Events, act \in {"acknowledge", "resolve"} : HandlingShown(e, act) => HandlingExplained(e, act)

\* api/escalations.py health_score: however few components have data and
\* however well they do, a full score is reported only while no escalation is
\* open and nothing waits for review.
FullScoreMeansQuiet ==
    \A conf \in {NoData, 1000}, depth \in 0..1, rate \in {NoData, 1000}, runs \in {NoData, 1000} :
        HealthScore(conf, depth, rate, runs) = 100 =>
            depth = 0 /\ \A e \in Events : esc[e].status # "open"

\* escalations/service.py, api/escalations.py: whoever handled an event is on record, and
\* the dashboard is not quiet about one that nobody handled.
EscalationsHold ==
    /\ \A e \in Events : esc[e] = NoEvent \/ esc[e] \in EscalationEvent
    /\ HandlingIsAudited /\ FullScoreMeansQuiet

\* service.py:4-5, escalation_jobs.py dispatch_p0_escalations: an open P0 event that nobody
\* handles has a channel that succeeded on record, and gets one again whenever the record
\* is lost: to a dispatch that died, to the stale copy that another dispatch stores, to a
\* later send of the same channel that failed.
P0SentUntilSuccess ==
    \A e \in Events :
        []<>(\/ esc[e] = NoEvent \/ esc[e].status # "open"
             \/ esc[e].priority # 0 \/ AnySuccess(esc[e].channels_sent))
=============================================================================
