--------------------------- MODULE LifecycleProofs --------------------------
(***************************************************************************)
(* ReachedIsEarned for any number of sessions, any scores, thresholds,     *)
(* operators and faults.  A task works on copies: it may write the status  *)
(* of a project that has long moved on.  What makes the property hold is   *)
(* that the copy was a status of the project once, that its goal follows   *)
(* it in the pipeline, and that a task decides with one score for each     *)
(* agent of that state.                                                    *)
(***************************************************************************)
EXTENDS Lifecycle, SequenceTheorems, TLAPS

\* Agents, as the tables and the operators name them.
Names == Agents \cup {"ingestion", "client_success", "validation", "calculation",
                     "quality_control", "reporting", "vvb_liaison"}

CallType == [kind : {"none", "advance", "manual", "patch", "trigger"}, retries : Int,
             seen : States, goal : States, todo : Seq(Names), scores : Seq(Int),
             queued : SUBSET Names, steps : Int, visited : SUBSET States]

Types == /\ status \in States
         /\ bar \in [Agents -> Bars]
         /\ pc \in [Sessions -> {"idle", "enter", "dispatch", "agent", "route", "write"}]
         /\ call \in [Sessions -> CallType]

\* How many agents a session has dealt with or has still to do: the first of those
\* that are left has its score already when the session is in "route".
Handled(scores, todo, at) == Len(scores) + Len(todo) - (IF at = "route" THEN 1 ELSE 0)

Counted(s) == Handled(call[s].scores, call[s].todo, pc[s]) = Len(RequiredAgents[call[s].seen])

\* What an advance task has in hand.
Underway(s) ==
    /\ pc[s] \in {"agent", "route"} => call[s].todo # <<>>
    /\ pc[s] = "write" => call[s].kind # "advance"
    /\ pc[s] # "idle" /\ call[s].kind = "advance" => call[s].seen \in reached
    /\ pc[s] \in {"dispatch", "agent", "route"} /\ call[s].kind = "advance" =>
         /\ call[s].seen \in DOMAIN Pipeline /\ call[s].goal = Pipeline[call[s].seen]
         /\ Counted(s)

IInv == /\ Types
        /\ status \in reached
        /\ \A s \in Sessions : Underway(s)
        /\ ReachedIsEarned

-----------------------------------------------------------------------------
(* Facts about the tables. *)

\* The states, the agents each requires and what follows it.
LEMMA StatesAre ==
    /\ States = {"onboarding", "data_collection", "calculation", "review", "submitted",
                 "verified", "monitoring", "rejected"}
    /\ DOMAIN Pipeline = States \ {"rejected"}
BY DEF States, RequiredAgents, Pipeline

\* What follows a state is a state.
LEMMA PipelineType == \A st \in DOMAIN Pipeline : Pipeline[st] \in States
BY StatesAre DEF Pipeline

\* Short tuples are sequences.
LEMMA TuplesAre ==
    ASSUME NEW S, NEW a \in S, NEW b \in S
    PROVE  <<a, b>> \in Seq(S) /\ <<a>> \in Seq(S) /\ <<>> \in Seq(S)
OBVIOUS

\* Every state requires a sequence of agents.
LEMMA AgentsType ==
    /\ \A st \in States : RequiredAgents[st] \in Seq(Names)
    /\ \A st \in States : \A i \in DOMAIN RequiredAgents[st] : RequiredAgents[st][i] \in Agents
<1>1. ASSUME NEW st \in States, NEW i \in DOMAIN RequiredAgents[st]
      PROVE  RequiredAgents[st][i] \in Agents
  BY DEF Agents
<1>2. ASSUME NEW st \in States PROVE RequiredAgents[st] \in Seq(Names)
  <2> DEFINE names == {"ingestion", "client_success", "validation", "calculation",
                       "quality_control", "reporting", "vvb_liaison"}
  <2>0. \A a, b \in names : /\ <<a, b>> \in Seq(Names) /\ <<a>> \in Seq(Names)
                             /\ <<>> \in Seq(Names)
    <3>1. names \subseteq Names
      BY DEF Names
    <3> HIDE DEF names
    <3> QED BY <3>1, TuplesAre
  <2>1. CASE st \in {"onboarding", "monitoring"}
    <3>1. RequiredAgents[st] = <<"ingestion", "client_success">>
      BY <2>1 DEF RequiredAgents
    <3> QED BY <3>1, <2>0
  <2>2. CASE st = "data_collection"
    <3>1. RequiredAgents[st] = <<"validation", "ingestion">>
      BY <2>2 DEF RequiredAgents
    <3> QED BY <3>1, <2>0
  <2>3. CASE st = "calculation"
    <3>1. RequiredAgents[st] = <<"calculation", "quality_control">>
      BY <2>3 DEF RequiredAgents
    <3> QED BY <3>1, <2>0
  <2>4. CASE st = "verified"
    <3>1. RequiredAgents[st] = <<"client_success", "quality_control">>
      BY <2>4 DEF RequiredAgents
    <3> QED BY <3>1, <2>0
  <2>5. CASE st = "review"
    <3>1. RequiredAgents[st] = <<"reporting">>
      BY <2>5 DEF RequiredAgents
    <3> QED BY <3>1, <2>0
  <2>6. CASE st = "submitted"
    <3>1. RequiredAgents[st] = <<"vvb_liaison">>
      BY <2>6 DEF RequiredAgents
    <3> QED BY <3>1, <2>0
  <2>7. CASE st = "rejected"
    <3>1. RequiredAgents[st] = <<>>
      BY <2>7 DEF RequiredAgents
    <3> QED BY <3>1, <2>0
  <2> QED BY StatesAre, <2>1, <2>2, <2>3, <2>4, <2>5, <2>6, <2>7
<1> QED BY <1>1, <1>2

\* Confidences are whole percents.
LEMMA ScoresAre == \A n \in Scores : n \in Int
<1>1. \A n \in Scores : n \in 0..100
  BY LifecycleAssumption
<1> QED BY <1>1

\* No threshold is below 95, and a lowest one exists.
LEMMA BarsAre == /\ \A b \in Bars : b \in Int /\ b >= 95
                 /\ \E b \in Bars : \A c \in Bars : b <= c
<1>1. /\ \A b \in Bars : b = 95 \/ b = 96 \/ b = 97 \/ b = 98 \/ b = 99
      /\ Bars # {}
  BY LifecycleAssumption
<1>2. \E b \in Bars : \A c \in Bars : b <= c
  <2>1. CASE 95 \in Bars
    BY <1>1, <2>1
  <2>2. CASE 95 \notin Bars /\ 96 \in Bars
    BY <1>1, <2>2
  <2>3. CASE 95 \notin Bars /\ 96 \notin Bars /\ 97 \in Bars
    BY <1>1, <2>3
  <2>4. CASE 95 \notin Bars /\ 96 \notin Bars /\ 97 \notin Bars
    BY <1>1, <2>4
  <2> QED BY <2>1, <2>2, <2>3, <2>4
<1> QED BY <1>1, <1>2

-----------------------------------------------------------------------------
(* Steps. *)

\* The session that moves has the invariant, so has the property, and the copies
\* of the others keep theirs, because what was reached stays reached.
LEMMA Assemble ==
    ASSUME IInv, NEW s \in Sessions, Types', status' \in reached', reached \subseteq reached',
           \A q \in Sessions \ {s} : pc'[q] = pc[q] /\ call'[q] = call[q],
           Underway(s)', ReachedIsEarned'
    PROVE  IInv'
<1>1. ASSUME NEW q \in Sessions, q # s PROVE Underway(q)'
  BY <1>1 DEF IInv, Underway, Counted
<1> QED BY <1>1 DEF IInv

\* A step that leaves the history alone keeps what it says.
LEMMA SameHistory == ASSUME ReachedIsEarned, UNCHANGED history PROVE ReachedIsEarned'
BY DEF ReachedIsEarned, history

\* A call of which nothing is in hand.
LEMMA NoCallType == NoCall \in CallType
BY StatesAre, TuplesAre DEF NoCall, CallType

LEMMA InitInv == Init => IInv
<1> SUFFICES ASSUME Init PROVE IInv
  OBVIOUS
<1>1. Types
  <2>1. (CHOOSE b \in Bars : \A c \in Bars : b <= c) \in Bars
    BY BarsAre
  <2> QED BY <2>1, NoCallType, LifecycleAssumption DEF Init, Types
<1>2. ReachedIsEarned
  BY DEF Init, ReachedIsEarned
<1>3. \A s \in Sessions : Underway(s)
  BY DEF Init, Underway, NoCall
<1> QED BY <1>1, <1>2, <1>3 DEF Init, IInv

\* A session that ends what it does has nothing in hand.
LEMMA EndInv ==
    ASSUME IInv, NEW s \in Sessions, EndCall(s), UNCHANGED <<status, bar, history>>
    PROVE  IInv'
<1>1. Types'
  BY NoCallType DEF IInv, Types, EndCall
<1>2. Underway(s)'
  BY DEF IInv, Types, Underway, EndCall, NoCall
<1>3. \A q \in Sessions \ {s} : pc'[q] = pc[q] /\ call'[q] = call[q]
  BY DEF IInv, Types, EndCall
<1> QED BY <1>1, <1>2, <1>3, Assemble, SameHistory DEF IInv, history

\* Taking a message, editing by hand and running one agent start with what is there.
LEMMA BeginInv ==
    ASSUME IInv, NEW s \in Sessions, NEW c \in CallType, NEW to,
           call' = [call EXCEPT ![s] = c], pc' = [pc EXCEPT ![s] = to],
           \/ to = "enter" /\ c.seen = status
           \/ to = "write" /\ c.kind # "advance"
           \/ to = "dispatch" /\ c.kind # "advance",
           UNCHANGED <<status, bar, history>>
    PROVE  IInv'
<1>1. Types'
  BY DEF IInv, Types
<1>2. Underway(s)'
  BY DEF IInv, Types, Underway, history
<1>3. \A q \in Sessions \ {s} : pc'[q] = pc[q] /\ call'[q] = call[q]
  BY DEF IInv, Types
<1> QED BY <1>1, <1>2, <1>3, Assemble, SameHistory DEF IInv, history

\* Answers and routings, counted.
LEMMA NoneHandled ==
    ASSUME NEW todo \in Seq(Names) PROVE Handled(<<>>, todo, "dispatch") = Len(todo)
BY LenProperties DEF Handled

LEMMA AppendMoves ==
    ASSUME NEW scores \in Seq(Int), NEW todo \in Seq(Names), NEW n \in Int
    PROVE  /\ Append(scores, n) \in Seq(Int)
           /\ Handled(Append(scores, n), todo, "route") = Handled(scores, todo, "agent")
BY LenProperties DEF Handled

LEMMA TailMoves ==
    ASSUME NEW scores \in Seq(Int), NEW todo \in Seq(Names), todo # <<>>
    PROVE  Handled(scores, Tail(todo), "dispatch") = Handled(scores, todo, "route")
BY HeadTailProperties, LenProperties DEF Handled

\* Entering the loop sets the goal that follows what the task has seen.
LEMMA EnterInv == ASSUME IInv, NEW s \in Sessions, Enter(s) PROVE IInv'
<1> DEFINE c == [call[s] EXCEPT !.goal = Pipeline[call[s].seen],
                                !.todo = RequiredAgents[call[s].seen], !.scores = <<>>,
                                !.queued = {}, !.visited = @ \cup {call[s].seen}]
<1>1. call[s] \in CallType /\ pc[s] = "enter" /\ call[s].seen \in DOMAIN Pipeline
  BY StatesAre DEF IInv, Types, Enter, MayAdvance, SteadyStates, CallType
<1>2. /\ c \in CallType /\ c.kind = call[s].kind /\ c.seen = call[s].seen
      /\ c.goal = Pipeline[c.seen] /\ c.todo = RequiredAgents[c.seen] /\ c.scores = <<>>
  BY <1>1, StatesAre, PipelineType, AgentsType, TuplesAre DEF CallType
<1>3. /\ call' = [call EXCEPT ![s] = c] /\ pc' = [pc EXCEPT ![s] = "dispatch"]
      /\ UNCHANGED <<status, bar, history>>
  BY DEF Enter
<1> HIDE DEF c
<1>4. Types'
  BY <1>2, <1>3 DEF IInv, Types
<1>5. call'[s] = c /\ pc'[s] = "dispatch" /\ reached' = reached
  BY <1>3 DEF IInv, Types, history
<1>6. Counted(s)'
  <2>1. Handled(<<>>, RequiredAgents[c.seen], "dispatch") = Len(RequiredAgents[c.seen])
    BY <1>1, <1>2, StatesAre, AgentsType, NoneHandled
  <2> QED BY <1>2, <1>5, <2>1 DEF Counted
<1>7. Underway(s)'
  BY <1>1, <1>2, <1>5, <1>6 DEF IInv, Underway
<1>8. \A q \in Sessions \ {s} : pc'[q] = pc[q] /\ call'[q] = call[q]
  BY <1>3 DEF IInv, Types
<1> QED BY <1>3, <1>4, <1>7, <1>8, Assemble, SameHistory DEF IInv, history

\* A session that moves within its list of agents and keeps count of them.
LEMMA MoveInv ==
    ASSUME IInv, NEW s \in Sessions, NEW c \in CallType, NEW to \in {"agent", "route", "dispatch"},
           pc[s] \in {"dispatch", "agent", "route"},
           call' = [call EXCEPT ![s] = c], pc' = [pc EXCEPT ![s] = to],
           UNCHANGED <<status, bar, history>>,
           c.kind = call[s].kind, c.seen = call[s].seen, c.goal = call[s].goal,
           to # "dispatch" => c.todo # <<>>,
           Handled(c.scores, c.todo, to) = Handled(call[s].scores, call[s].todo, pc[s])
    PROVE  IInv'
<1>1. Types'
  BY DEF IInv, Types
<1>2. /\ call'[s] = c /\ pc'[s] = to /\ reached' = reached
      /\ call[s] \in CallType /\ Underway(s)
  BY DEF IInv, Types, history
<1>4. call[s].kind = "advance" => Counted(s)'
  BY <1>2 DEF Underway, Counted
<1>5. Underway(s)'
  BY <1>2, <1>4 DEF Underway
<1>6. \A q \in Sessions \ {s} : pc'[q] = pc[q] /\ call'[q] = call[q]
  BY DEF IInv, Types
<1> QED BY <1>1, <1>5, <1>6, Assemble, SameHistory DEF IInv, history

\* Dispatching, the agent's answer and its routing move one agent from todo to scores.
LEMMA StartInv == ASSUME IInv, NEW s \in Sessions, StartAgent(s) PROVE IInv'
<1>1. /\ call[s] \in CallType /\ call' = [call EXCEPT ![s] = call[s]]
      /\ pc[s] = "dispatch" /\ call[s].todo # <<>>
      /\ pc' = [pc EXCEPT ![s] = "agent"] /\ UNCHANGED <<status, bar, history>>
  BY DEF IInv, Types, StartAgent
<1>2. Handled(call[s].scores, call[s].todo, "agent") =
      Handled(call[s].scores, call[s].todo, "dispatch")
  BY DEF Handled
<1> QED BY <1>1, <1>2, MoveInv

LEMMA ReturnInv ==
    ASSUME IInv, NEW s \in Sessions, NEW n \in Scores, AgentReturns(s, n) PROVE IInv'
<1> DEFINE c == [call[s] EXCEPT !.scores = Append(call[s].scores, n)]
<1>0. n \in Int
  BY ScoresAre
<1>1. call[s] \in CallType /\ call[s].scores \in Seq(Int)
  BY DEF IInv, Types, CallType
<1>2. /\ Append(call[s].scores, n) \in Seq(Int)
      /\ Handled(Append(call[s].scores, n), call[s].todo, "route") =
         Handled(call[s].scores, call[s].todo, "agent")
  BY <1>0, <1>1, AppendMoves DEF CallType
<1>3. /\ c \in CallType /\ c.kind = call[s].kind /\ c.seen = call[s].seen
      /\ c.goal = call[s].goal /\ c.todo = call[s].todo
      /\ c.scores = Append(call[s].scores, n)
  BY <1>1, <1>2 DEF CallType
<1>4. /\ pc[s] = "agent" /\ call[s].todo # <<>>
      /\ call' = [call EXCEPT ![s] = c] /\ pc' = [pc EXCEPT ![s] = "route"]
      /\ UNCHANGED <<status, bar, history>>
  BY DEF IInv, Underway, AgentReturns
<1> HIDE DEF c
<1> QED BY <1>2, <1>3, <1>4, MoveInv

LEMMA RouteInv == ASSUME IInv, NEW s \in Sessions, Route(s) PROVE IInv'
<1>1. /\ call[s] \in CallType /\ call[s].todo \in Seq(Names) /\ call[s].todo # <<>>
      /\ call[s].queued \subseteq Names /\ pc[s] = "route"
  BY DEF IInv, Types, CallType, Underway, Route
<1>2. /\ Head(call[s].todo) \in Names /\ Tail(call[s].todo) \in Seq(Names)
      /\ Handled(call[s].scores, Tail(call[s].todo), "dispatch") =
         Handled(call[s].scores, call[s].todo, "route")
  BY <1>1, HeadTailProperties, TailMoves DEF CallType
<1>3. PICK queued \in SUBSET Names :
        call' = [call EXCEPT ![s].todo = Tail(@), ![s].queued = queued]
  BY <1>1, <1>2 DEF Route
<1> DEFINE c == [call[s] EXCEPT !.todo = Tail(call[s].todo), !.queued = queued]
<1>4. /\ c \in CallType /\ c.kind = call[s].kind /\ c.seen = call[s].seen
      /\ c.goal = call[s].goal /\ c.todo = Tail(call[s].todo)
      /\ c.scores = call[s].scores
  BY <1>1, <1>2 DEF CallType
<1>5. /\ call' = [call EXCEPT ![s] = c] /\ pc' = [pc EXCEPT ![s] = "dispatch"]
      /\ UNCHANGED <<status, bar, history>>
  BY <1>3 DEF Route
<1> HIDE DEF c
<1> QED BY <1>1, <1>2, <1>4, <1>5, MoveInv

\* A task that decides has a score for each agent of the state, and none below 95.
LEMMA DecisionIsBacked ==
    ASSUME IInv, NEW s \in Sessions, Transition(s)
    PROVE  /\ call[s].seen \in reached \cap cleared'
           /\ call[s].seen \in DOMAIN Pipeline /\ call[s].goal = Pipeline[call[s].seen]
<1>1. /\ call[s] \in CallType /\ Underway(s) /\ pc[s] = "dispatch"
      /\ call[s].kind = "advance" /\ call[s].todo = <<>>
  BY DEF IInv, Types, Transition
<1>2. /\ call[s].seen \in reached /\ Counted(s)
      /\ call[s].seen \in DOMAIN Pipeline /\ call[s].goal = Pipeline[call[s].seen]
  BY <1>1 DEF Underway
<1>3. PICK scores \in Seq(Int) : scores = call[s].scores
  BY <1>1 DEF CallType
<1>4. PICK agents \in Seq(Names) : agents = RequiredAgents[call[s].seen]
  BY <1>1, AgentsType DEF CallType
<1>5. Len(scores) = Len(agents)
  <2>1. Handled(scores, <<>>, "dispatch") = Len(agents)
    BY <1>1, <1>2, <1>3, <1>4 DEF Counted
  <2>2. Handled(scores, <<>>, "dispatch") = Len(scores)
    BY <1>3, LenProperties DEF Handled
  <2> QED BY <2>1, <2>2
<1>6. ASSUME NEW i \in DOMAIN scores PROVE scores[i] >= 95
  <2>1. i \in DOMAIN agents
    BY <1>5, <1>6, LenProperties
  <2>2. agents[i] \in Agents
    BY <1>1, <1>4, <2>1, AgentsType DEF CallType
  <2>3. bar[agents[i]] \in Bars
    BY <2>2 DEF IInv, Types
  <2>4. scores[i] >= bar[agents[i]]
    BY <1>3, <1>4 DEF Transition, AllClear
  <2>5. scores[i] \in Int /\ bar[agents[i]] \in Int /\ bar[agents[i]] >= 95
    BY <1>6, <2>3, BarsAre
  <2> QED BY <2>4, <2>5
<1>7. cleared' = cleared \cup {call[s].seen}
  BY <1>3, <1>6 DEF Transition
<1> QED BY <1>2, <1>7

LEMMA TransitionInv == ASSUME IInv, NEW s \in Sessions, Transition(s) PROVE IInv'
<1>0. call[s].steps \in Int
  BY DEF IInv, Types, CallType
<1>n. PICK n \in Int : n = call[s].steps - 1
  BY <1>0
<1> DEFINE c == [call[s] EXCEPT !.seen = call[s].goal, !.steps = n]
<1>1. call[s] \in CallType /\ call[s].goal \in States
  BY DEF IInv, Types, CallType
<1>2. c \in CallType /\ c.seen = call[s].goal
  BY <1>1 DEF CallType
<1>3. /\ call' = [call EXCEPT ![s] = c] /\ pc' = [pc EXCEPT ![s] = "enter"]
      /\ status' = call[s].goal /\ reached' = reached \cup {call[s].goal}
      /\ cleared \subseteq cleared' /\ UNCHANGED <<bar, edited>>
  BY <1>n DEF Transition
<1> HIDE DEF c
<1>4. Types'
  BY <1>1, <1>2, <1>3 DEF IInv, Types
<1>5. Underway(s)'
  BY <1>2, <1>3 DEF IInv, Types, Underway
<1>6. \A q \in Sessions \ {s} : pc'[q] = pc[q] /\ call'[q] = call[q]
  BY <1>3 DEF IInv, Types
<1>7. ReachedIsEarned'
  <2> SUFFICES ASSUME NEW st \in reached' \ (InitStates \cup edited')
               PROVE  \E prior \in reached' \cap cleared' : Pipeline[prior] = st
    BY DEF ReachedIsEarned
  <2>1. CASE st = call[s].goal
    BY <1>3, <2>1, DecisionIsBacked
  <2>2. CASE st \in reached
    BY <1>3, <2>2 DEF IInv, ReachedIsEarned
  <2> QED BY <1>3, <2>1, <2>2
<1> QED BY <1>3, <1>4, <1>5, <1>6, <1>7, Assemble

\* What an operator writes is remembered as written by an operator.
LEMMA WriteInv == ASSUME IInv, NEW s \in Sessions, WriteEdit(s) PROVE IInv'
<1>1. /\ call[s] \in CallType /\ call[s].kind # "advance" /\ call[s].goal \in States
      /\ status \in States /\ status \in reached
  BY DEF IInv, Types, CallType, Underway, WriteEdit
<1>2. /\ status' \in {status, call[s].goal} /\ reached' = reached \cup {status'}
      /\ edited' = edited \cup {status'} /\ UNCHANGED <<bar, cleared>>
  BY DEF WriteEdit
<1>3. PICK c \in CallType, to \in {"idle", "dispatch"} :
        /\ call' = [call EXCEPT ![s] = c] /\ pc' = [pc EXCEPT ![s] = to]
        /\ c.kind # "advance"
  <2>1. CASE call[s].kind = "patch"
    BY <2>1, NoCallType DEF WriteEdit, EndCall, NoCall
  <2>2. CASE call[s].kind # "patch"
    <3> DEFINE c == [call[s] EXCEPT !.todo = RequiredAgents[call[s].goal]]
    <3>1. c \in CallType /\ c.kind = call[s].kind
      BY <1>1, AgentsType DEF CallType
    <3>2. call' = [call EXCEPT ![s] = c] /\ pc' = [pc EXCEPT ![s] = "dispatch"]
      BY <2>2 DEF WriteEdit
    <3> HIDE DEF c
    <3> QED BY <1>1, <3>1, <3>2
  <2> QED BY <2>1, <2>2
<1>4. Types'
  BY <1>1, <1>2, <1>3 DEF IInv, Types
<1>5. Underway(s)'
  BY <1>3 DEF IInv, Types, Underway
<1>6. \A q \in Sessions \ {s} : pc'[q] = pc[q] /\ call'[q] = call[q]
  BY <1>3 DEF IInv, Types
<1>7. ReachedIsEarned'
  BY <1>2 DEF IInv, ReachedIsEarned
<1> QED BY <1>2, <1>4, <1>5, <1>6, <1>7, Assemble

\* Steps of no session.
LEMMA OtherInv ==
    ASSUME IInv, UNCHANGED <<status, pc, call, history>>, bar' \in [Agents -> Bars]
    PROVE  IInv'
BY SameHistory DEF IInv, Types, Underway, Counted, history

\* The steps that start something.
LEMMA StartsInv ==
    ASSUME IInv, NEW s \in Sessions,
           \/ \E r \in 0..MaxRetries : Take(s, r)
           \/ \E to \in Patches : Patch(s, to)
           \/ \E t \in Triggers : Trigger(s, t)
           \/ \E a \in ManualRuns : RunAgent(s, a)
    PROVE  IInv'
<1> USE NoCallType
<1>1. status \in States /\ MaxSteps \in Int
  BY LifecycleAssumption DEF IInv, Types
<1>2. ASSUME NEW r \in 0..MaxRetries, Take(s, r) PROVE IInv'
  <2> DEFINE c == [NoCall EXCEPT !.kind = "advance", !.retries = r, !.seen = status,
                                 !.steps = MaxSteps]
  <2>0. r \in Int
    BY <1>2
  <2>1. c \in CallType /\ c.seen = status
    BY <1>1, <2>0 DEF CallType
  <2>2. /\ call' = [call EXCEPT ![s] = c] /\ pc' = [pc EXCEPT ![s] = "enter"]
        /\ UNCHANGED <<status, bar, history>>
    BY <1>2 DEF Take
  <2> HIDE DEF c
  <2> QED BY <2>1, <2>2, BeginInv
<1>3. ASSUME NEW kind \in {"patch", "trigger"}, NEW goal \in States, StartEdit(s, kind, goal)
      PROVE  IInv'
  <2> DEFINE c == [NoCall EXCEPT !.kind = kind, !.seen = status, !.goal = goal]
  <2>1. c \in CallType /\ c.kind # "advance"
    BY <1>1 DEF CallType
  <2>2. /\ call' = [call EXCEPT ![s] = c] /\ pc' = [pc EXCEPT ![s] = "write"]
        /\ UNCHANGED <<status, bar, history>>
    BY <1>3 DEF StartEdit
  <2> HIDE DEF c
  <2> QED BY <2>1, <2>2, BeginInv
<1>4. ASSUME NEW to \in Patches, Patch(s, to) PROVE IInv'
  BY <1>3, <1>4, LifecycleAssumption DEF Patch
<1>5. ASSUME NEW t \in Triggers, Trigger(s, t) PROVE IInv'
  <2>1. (IF t \in DOMAIN TriggerStates THEN TriggerStates[t] ELSE status) \in States
    BY <1>1, StatesAre DEF TriggerStates
  <2> QED BY <1>3, <1>5, <2>1 DEF Trigger
<1>6. ASSUME NEW a \in ManualRuns, RunAgent(s, a) PROVE IInv'
  <2> DEFINE c == [NoCall EXCEPT !.kind = "manual", !.todo = <<a>>]
  <2>1. <<a>> \in Seq(Names)
    BY TuplesAre, LifecycleAssumption DEF Names
  <2>2. c \in CallType /\ c.kind # "advance"
    BY <2>1 DEF CallType
  <2>3. /\ call' = [call EXCEPT ![s] = c] /\ pc' = [pc EXCEPT ![s] = "dispatch"]
        /\ UNCHANGED <<status, bar, history>>
    BY <1>6 DEF RunAgent
  <2> HIDE DEF c
  <2> QED BY <2>2, <2>3, BeginInv
<1> QED BY <1>2, <1>4, <1>5, <1>6

\* Every step keeps the invariant.
LEMMA NextInv == IInv /\ [Next]_vars => IInv'
<1> SUFFICES ASSUME IInv, [Next]_vars PROVE IInv'
  OBVIOUS
<1>0. bar \in [Agents -> Bars]
  BY DEF IInv, Types
<1>1. CASE Scan \/ AgeOut \/ UNCHANGED vars
  BY <1>0, <1>1, OtherInv DEF Scan, AgeOut, vars, history
<1>2. ASSUME NEW i \in items, NEW v \in Verdicts, Resolve(i, v) PROVE IInv'
  BY <1>0, <1>2, OtherInv DEF Resolve
<1>3. ASSUME NEW a \in Learners, NEW b \in Bars, MoveBar(a, b) PROVE IInv'
  BY <1>0, <1>3, OtherInv DEF MoveBar
<1>4. ASSUME NEW s \in Sessions, Step(s) PROVE IInv'
  <2>1. CASE Stop(s) \/ Finish(s)
    BY <2>1, EndInv DEF Stop, Finish
  <2> QED BY <1>4, <2>1, StartsInv, EnterInv, StartInv, ReturnInv, RouteInv, TransitionInv,
             WriteInv DEF Step
<1>5. ASSUME NEW s \in Sessions, TaskFails(s) \/ WorkerLost(s) PROVE IInv'
  BY <1>5, EndInv DEF TaskFails, WorkerLost
<1>6. ASSUME NEW s \in Sessions,
             \/ \E to \in Patches : Patch(s, to)
             \/ \E t \in Triggers : Trigger(s, t)
             \/ \E a \in ManualRuns : RunAgent(s, a)
      PROVE  IInv'
  BY <1>6, StartsInv
<1> QED BY <1>1, <1>2, <1>3, <1>4, <1>5, <1>6 DEF Next

\* advance_project: a status no operator wrote was reached from the state that
\* precedes it, by a task that saw every agent of that state return 95 or more.
THEOREM StatusIsEarned == Spec => []ReachedIsEarned
<1>1. IInv => ReachedIsEarned
  BY DEF IInv
<1> QED BY <1>1, InitInv, NextInv, PTL DEF Spec

-----------------------------------------------------------------------------
(* Routing, while thresholds stand still.  An advance task holds the rest of the      *)
(* agents of its state, and has queued those of the routed ones that were below.      *)

\* How many agents of its state a task has routed.
RoutedOf(scores, at) == Len(scores) - (IF at = "route" THEN 1 ELSE 0)

IsRest(todo, agents, h) == \A i \in 1..Len(todo) : todo[i] = agents[h + i]

LowOnes(scores, agents, h) == {agents[i] : i \in {j \in 1..h : scores[j] < bar[agents[j]]}}

InOrder(c, at) ==
    LET agents == RequiredAgents[c.seen]
        h == RoutedOf(c.scores, at)
    IN  /\ IsRest(c.todo, agents, h) /\ c.queued = LowOnes(c.scores, agents, h)
        /\ at = "route" => c.scores # <<>>

RoutesInOrder(s) ==
    pc[s] \in {"dispatch", "agent", "route"} /\ call[s].kind = "advance" => InOrder(call[s], pc[s])

RoutingInv == IInv /\ \A s \in Sessions : RoutesInOrder(s)

\* What the session that moves has to show.
LEMMA RoutingStep ==
    ASSUME RoutingInv, IInv', NEW s \in Sessions, UNCHANGED bar, RoutesInOrder(s)',
           \A q \in Sessions \ {s} : pc'[q] = pc[q] /\ call'[q] = call[q]
    PROVE  RoutingInv'
<1>1. ASSUME NEW q \in Sessions, q # s PROVE RoutesInOrder(q)'
  BY <1>1 DEF RoutingInv, RoutesInOrder, InOrder, LowOnes
<1> QED BY <1>1 DEF RoutingInv

\* Nothing is routed yet.
LEMMA OrderStarts ==
    ASSUME NEW agents \in Seq(Names)
    PROVE  /\ RoutedOf(<<>>, "dispatch") = 0 /\ IsRest(agents, agents, 0)
           /\ LowOnes(<<>>, agents, 0) = {}
BY LenProperties DEF RoutedOf, IsRest, LowOnes

\* A score that is appended is not routed yet, and changes none that is.
LEMMA OrderReturns ==
    ASSUME NEW scores \in Seq(Int), NEW n \in Int, NEW agents \in Seq(Names)
    PROVE  /\ RoutedOf(Append(scores, n), "route") = RoutedOf(scores, "agent")
           /\ LowOnes(Append(scores, n), agents, RoutedOf(scores, "agent"))
              = LowOnes(scores, agents, RoutedOf(scores, "agent"))
<1>1. Len(scores) \in Nat /\ Len(Append(scores, n)) = Len(scores) + 1
  BY LenProperties
<1>2. \A j \in 1..Len(scores) : Append(scores, n)[j] = scores[j]
  BY <1>1
<1> QED BY <1>1, <1>2 DEF RoutedOf, LowOnes

\* What something is appended to is not empty.
LEMMA AppendIsNot ==
    ASSUME NEW scores \in Seq(Int), NEW n \in Int PROVE Append(scores, n) # <<>>
BY LenProperties

\* Routing takes the head of the list, whose score is the last one.
LEMMA OrderRoutes ==
    ASSUME NEW scores \in Seq(Int), NEW todo \in Seq(Names), NEW agents \in Seq(Names),
           todo # <<>>, scores # <<>>, IsRest(todo, agents, RoutedOf(scores, "route"))
    PROVE  LET h == RoutedOf(scores, "route")
               low == scores[Len(scores)] < bar[Head(todo)]
           IN  /\ RoutedOf(scores, "dispatch") = h + 1
               /\ IsRest(Tail(todo), agents, h + 1)
               /\ LowOnes(scores, agents, h + 1) =
                    LowOnes(scores, agents, h) \cup (IF low THEN {Head(todo)} ELSE {})
<1> DEFINE h == RoutedOf(scores, "route")
<1>1. /\ Len(scores) \in Nat /\ Len(todo) \in Nat /\ Len(scores) > 0 /\ Len(todo) > 0
      /\ h = Len(scores) - 1 /\ RoutedOf(scores, "dispatch") = Len(scores)
  BY LenProperties, EmptySeq DEF RoutedOf
<1>2. /\ Head(todo) = todo[1] /\ Tail(todo) \in Seq(Names) /\ Len(Tail(todo)) = Len(todo) - 1
      /\ \A i \in 1..Len(Tail(todo)) : Tail(todo)[i] = todo[i + 1]
  BY <1>1, HeadTailProperties, LenProperties
<1>3. Head(todo) = agents[h + 1]
  BY <1>1, <1>2 DEF IsRest
<1>4. IsRest(Tail(todo), agents, h + 1)
  <2> SUFFICES ASSUME NEW i \in 1..Len(Tail(todo)) PROVE Tail(todo)[i] = agents[h + 1 + i]
    BY DEF IsRest
  <2>1. i + 1 \in 1..Len(todo) /\ Tail(todo)[i] = todo[i + 1]
    BY <1>1, <1>2
  <2>2. todo[i + 1] = agents[h + (i + 1)]
    BY <2>1 DEF IsRest
  <2>3. h + (i + 1) = h + 1 + i
    BY <1>1, <2>1
  <2> QED BY <2>1, <2>2, <2>3
<1>5. 1..(h + 1) = 1..h \cup {h + 1} /\ h + 1 = Len(scores)
  BY <1>1
<1> HIDE DEF h
<1>6. LowOnes(scores, agents, h + 1) =
        LowOnes(scores, agents, h)
          \cup (IF scores[h + 1] < bar[agents[h + 1]] THEN {agents[h + 1]} ELSE {})
  BY <1>5 DEF LowOnes
<1> QED BY <1>1, <1>3, <1>4, <1>5, <1>6 DEF h

\* A call that is in order when its step is done.
LEMMA InOrderThen ==
    ASSUME NEW s \in Sessions, UNCHANGED bar, NEW agents, NEW scores, NEW todo, NEW queued, NEW at,
           RequiredAgents[call'[s].seen] = agents, call'[s].scores = scores,
           call'[s].todo = todo, call'[s].queued = queued, pc'[s] = at,
           IsRest(todo, agents, RoutedOf(scores, at)),
           queued = LowOnes(scores, agents, RoutedOf(scores, at)),
           at = "route" => scores # <<>>
    PROVE  RoutesInOrder(s)'
BY DEF RoutesInOrder, InOrder, LowOnes, IsRest, RoutedOf

\* A session that moves within its list: its new call is in order.
LEMMA RoutingMoves ==
    ASSUME RoutingInv, NEW s \in Sessions,
           Enter(s) \/ StartAgent(s) \/ (\E n \in Scores : AgentReturns(s, n)) \/ Route(s)
    PROVE  RoutesInOrder(s)'
<1>0. /\ call \in [Sessions -> CallType] /\ call[s] \in CallType /\ call[s].seen \in States
      /\ pc \in [Sessions -> {"idle", "enter", "dispatch", "agent", "route", "write"}]
      /\ Underway(s) /\ RoutesInOrder(s)
  BY DEF RoutingInv, IInv, Types, CallType
<1>1. PICK agents \in Seq(Names) : agents = RequiredAgents[call[s].seen]
  BY <1>0, AgentsType
<1>2. PICK scores \in Seq(Int), todo \in Seq(Names), queued \in SUBSET Names :
        scores = call[s].scores /\ todo = call[s].todo /\ queued = call[s].queued
  BY <1>0 DEF CallType
<1>3. CASE Enter(s)
  <2>1. /\ call'[s].seen = call[s].seen /\ call'[s].todo = agents /\ call'[s].scores = <<>>
        /\ call'[s].queued = {} /\ pc'[s] = "dispatch" /\ UNCHANGED bar
    BY <1>0, <1>1, <1>3 DEF Enter, CallType
  <2>2. PICK none : none = <<>>
    OBVIOUS
  <2>3. /\ RequiredAgents[call'[s].seen] = agents /\ IsRest(agents, agents, RoutedOf(none, "dispatch"))
        /\ LowOnes(none, agents, RoutedOf(none, "dispatch")) = {}
    BY <1>1, <2>1, <2>2, OrderStarts
  <2> QED BY <2>1, <2>2, <2>3, InOrderThen
<1>x. ASSUME ~Enter(s), call[s].kind = "advance"
      PROVE  /\ IsRest(todo, agents, RoutedOf(scores, pc[s]))
             /\ queued = LowOnes(scores, agents, RoutedOf(scores, pc[s]))
             /\ pc[s] = "route" => scores # <<>> /\ todo # <<>>
  BY <1>0, <1>1, <1>2, <1>x DEF RoutesInOrder, InOrder, StartAgent, AgentReturns, Route, Underway
<1>4. CASE StartAgent(s)
  <2>1. /\ call'[s] = call[s] /\ pc[s] = "dispatch" /\ pc'[s] = "agent" /\ UNCHANGED bar
    BY <1>0, <1>4 DEF StartAgent
  <2>2. RoutedOf(scores, "agent") = RoutedOf(scores, "dispatch") /\ ~Enter(s)
    BY <2>1 DEF RoutedOf, Enter
  <2>3. CASE call[s].kind = "advance"
    BY <1>1, <1>2, <1>x, <2>1, <2>2, <2>3, InOrderThen
  <2> QED BY <2>1, <2>3 DEF RoutesInOrder
<1>5. ASSUME NEW n \in Scores, AgentReturns(s, n) PROVE RoutesInOrder(s)'
  <2>1. /\ call'[s] = [call[s] EXCEPT !.scores = Append(call[s].scores, n)]
        /\ pc[s] = "agent" /\ pc'[s] = "route" /\ UNCHANGED bar
    BY <1>0, <1>5 DEF AgentReturns
  <2>2. /\ call'[s].seen = call[s].seen /\ call'[s].todo = todo
        /\ call'[s].queued = queued /\ call'[s].scores = Append(scores, n)
        /\ call'[s].kind = call[s].kind
    BY <1>0, <1>2, <2>1 DEF CallType
  <2>3. /\ RoutedOf(Append(scores, n), "route") = RoutedOf(scores, "agent")
        /\ LowOnes(Append(scores, n), agents, RoutedOf(scores, "agent"))
           = LowOnes(scores, agents, RoutedOf(scores, "agent"))
        /\ Append(scores, n) # <<>>
    BY ScoresAre, OrderReturns, AppendIsNot
  <2>4. CASE call[s].kind = "advance"
    <3>1. ~Enter(s) BY <2>1 DEF Enter
    <3>2. PICK more : more = Append(scores, n)
      OBVIOUS
    <3>3. /\ RequiredAgents[call'[s].seen] = agents /\ IsRest(todo, agents, RoutedOf(more, "route"))
          /\ queued = LowOnes(more, agents, RoutedOf(more, "route"))
      BY <1>1, <1>x, <2>1, <2>2, <2>3, <2>4, <3>1, <3>2
    <3> QED BY <2>1, <2>2, <2>3, <3>2, <3>3, InOrderThen
  <2> QED BY <2>2, <2>4 DEF RoutesInOrder
<1>6. CASE Route(s)
  <2> DEFINE low == scores[Len(scores)] < bar[Head(todo)]
  <2>1. PICK more : more = queued \cup (IF low THEN {Head(todo)} ELSE {})
    OBVIOUS
  <2>2. /\ call'[s].seen = call[s].seen /\ call'[s].todo = Tail(todo)
        /\ call'[s].queued = more /\ call'[s].scores = scores
        /\ call'[s].kind = call[s].kind
        /\ pc[s] = "route" /\ pc'[s] = "dispatch" /\ UNCHANGED bar
    BY <1>0, <1>2, <1>6, <2>1 DEF Route, BelowBar, CallType
  <2>3. CASE call[s].kind = "advance"
    <3>1. ~Enter(s) BY <2>2 DEF Enter
    <3>2. /\ IsRest(Tail(todo), agents, RoutedOf(scores, "dispatch"))
          /\ more = LowOnes(scores, agents, RoutedOf(scores, "dispatch"))
      BY <1>x, <2>1, <2>2, <2>3, <3>1, OrderRoutes
    <3> QED BY <1>1, <2>2, <3>2, InOrderThen
  <2> QED BY <2>2, <2>3 DEF RoutesInOrder
<1> QED BY <1>3, <1>4, <1>5, <1>6

\* A session that ends, starts or decides holds no list that is in use by advance.
LEMMA RoutingEnds ==
    ASSUME RoutingInv, IInv', NEW s \in Sessions, UNCHANGED bar,
           \A q \in Sessions \ {s} : pc'[q] = pc[q] /\ call'[q] = call[q],
           pc'[s] \notin {"dispatch", "agent", "route"} \/ call'[s].kind # "advance"
    PROVE  RoutingInv'
BY RoutingStep DEF RoutesInOrder

\* The bars move only for agents that learn.
LEMMA RoutingNext == ASSUME Learners = {}, RoutingInv, [Next]_vars PROVE RoutingInv'
<1>0. /\ IInv' /\ call \in [Sessions -> CallType]
      /\ pc \in [Sessions -> {"idle", "enter", "dispatch", "agent", "route", "write"}]
  BY NextInv DEF RoutingInv, IInv, Types
<1>1. CASE Scan \/ AgeOut \/ UNCHANGED vars \/ \E i \in items, v \in Verdicts : Resolve(i, v)
  BY <1>0, <1>1 DEF RoutingInv, RoutesInOrder, InOrder, LowOnes, Scan, AgeOut, vars, Resolve
<1>2. ASSUME NEW s \in Sessions,
             Enter(s) \/ StartAgent(s) \/ (\E n \in Scores : AgentReturns(s, n)) \/ Route(s)
      PROVE  RoutingInv'
  <2>1. /\ UNCHANGED bar /\ \A q \in Sessions \ {s} : pc'[q] = pc[q] /\ call'[q] = call[q]
    BY <1>0, <1>2 DEF Enter, StartAgent, AgentReturns, Route
  <2> QED BY <1>0, <1>2, <2>1, RoutingMoves, RoutingStep
<1>3. ASSUME NEW s \in Sessions,
             Stop(s) \/ Finish(s) \/ TaskFails(s) \/ WorkerLost(s) PROVE RoutingInv'
  <2>1. EndCall(s) /\ UNCHANGED bar
    BY <1>3 DEF Stop, Finish, TaskFails, WorkerLost
  <2>2. /\ \A q \in Sessions \ {s} : pc'[q] = pc[q] /\ call'[q] = call[q]
        /\ pc'[s] = "idle"
    BY <1>0, <2>1 DEF EndCall
  <2> QED BY <1>0, <2>1, <2>2, RoutingEnds
<1>4. ASSUME NEW s \in Sessions, Transition(s) PROVE RoutingInv'
  <2>1. /\ UNCHANGED bar /\ \A q \in Sessions \ {s} : pc'[q] = pc[q] /\ call'[q] = call[q]
        /\ pc'[s] = "enter"
    BY <1>0, <1>4 DEF Transition
  <2> QED BY <1>0, <2>1, RoutingEnds
<1>5. ASSUME NEW s \in Sessions, WriteEdit(s) PROVE RoutingInv'
  <2>1. /\ UNCHANGED bar /\ \A q \in Sessions \ {s} : pc'[q] = pc[q] /\ call'[q] = call[q]
        /\ pc'[s] = "idle" \/ call'[s].kind = call[s].kind
    BY <1>0, <1>5 DEF WriteEdit, EndCall, CallType
  <2>2. call[s].kind # "advance"
    BY <1>5 DEF RoutingInv, IInv, Underway, WriteEdit
  <2> QED BY <1>0, <2>1, <2>2, RoutingEnds
<1>6. ASSUME NEW s \in Sessions,
             \/ \E r \in 0..MaxRetries : Take(s, r)
             \/ \E to \in Patches : Patch(s, to)
             \/ \E t \in Triggers : Trigger(s, t)
             \/ \E a \in ManualRuns : RunAgent(s, a)
      PROVE  RoutingInv'
  <2>1. /\ UNCHANGED bar /\ \A q \in Sessions \ {s} : pc'[q] = pc[q] /\ call'[q] = call[q]
        /\ pc'[s] \in {"enter", "write"} \/ call'[s].kind = "manual"
    BY <1>0, <1>6 DEF Take, Patch, Trigger, StartEdit, RunAgent, NoCall
  <2> QED BY <1>0, <2>1, RoutingEnds
<1> QED BY <1>1, <1>2, <1>3, <1>4, <1>5, <1>6 DEF Next, Step

\* A task about to decide has routed every score it has.
LEMMA RoutingIsDecision == RoutingInv => RoutingMatchesDecision
<1> SUFFICES ASSUME RoutingInv, NEW s \in Sessions, pc[s] = "dispatch", call[s].kind = "advance"
             PROVE  call[s].queued = {RequiredAgents[call[s].seen][i] :
                          i \in {j \in DOMAIN call[s].scores :
                             call[s].scores[j] < bar[RequiredAgents[call[s].seen][j]]}}
  BY DEF RoutingMatchesDecision
<1>1. /\ InOrder(call[s], "dispatch") /\ call[s].scores \in Seq(Int)
  BY DEF RoutingInv, RoutesInOrder, IInv, Types, CallType
<1>2. DOMAIN call[s].scores = 1..RoutedOf(call[s].scores, "dispatch")
  BY <1>1, LenProperties DEF RoutedOf
<1> QED BY <1>1, <1>2 DEF InOrder, LowOnes

\* dispatch_agent and advance_project agree: as long as no threshold moves, a review item
\* waits for exactly the agents whose score keeps a deciding task from advancing.
THEOREM AdvancesAreRouted == ASSUME Learners = {} PROVE Spec => []AdvancesAreEarned
<1>1. Init => RoutingInv
  BY InitInv DEF RoutingInv, RoutesInOrder, Init
<1>2. RoutingInv /\ [Next]_vars => RoutingInv'
  BY RoutingNext
<1>3. RoutingInv => AdvancesAreEarned
  BY RoutingIsDecision DEF RoutingInv, IInv, AdvancesAreEarned
<1> QED BY <1>1, <1>2, <1>3, PTL DEF Spec

=============================================================================
