---------------------------- MODULE Conversation ----------------------------
\* The WhatsApp bot (services/whatsapp, api/whatsapp.py): the conversation of one
\* phone is a value in Redis that several processes read, change and write back,
\* each for the message it handles.  What is said in which words is left out.
EXTENDS Integers, Sequences, FiniteSets

CONSTANTS Handlers,      \* processes that handle messages at one time
          Questions,     \* the types of the survey's questions, in order
          TotalPhotos,   \* three in the code
          MaxMessages,   \* of a phone in a window
          MaxSent, MaxBotFaults \* bounds

ASSUME BotBounds ==
    /\ {TotalPhotos, MaxMessages, MaxSent, MaxBotFaults} \subseteq Nat
    /\ Questions \in Seq({"number", "choice", "image", "text"}) /\ Len(Questions) >= 2

VARIABLES conv,      \* the value under the key of the phone
          rate,      \* the counter of its messages, and whether it expires
          handling,  \* what each process is at
          completedSurveys,   \* the questions answered by the surveys that were completed
          botTally   \* messages and faults; disturbed: two handlings overlapped, or the
                     \* write of an answer or a photo failed

botVars == <<conv, rate, handling, completedSurveys, botTally>>

-----------------------------------------------------------------------------
(* Messages and their validation *)

\* What photo_validator.py finds of a picture.
Pictures == [sizeKb : {20, 800}, opens : {TRUE}, width : {800}, height : {600}, gps : {TRUE}]

PhotoValid(p) == p.sizeKb \in 50..10240 /\ p.opens /\ p.width >= 640 /\ p.height >= 480 /\ p.gps

\* A text is a command, an answer, one with a Swahili word, or anything else.
Texts == {"survey", "photos", "support", "cancel", "answer", "swahili", "other"}
Messages == [text : Texts] \cup [picture : Pictures]

IsText(m, t) == "text" \in DOMAIN m /\ m.text = t
IsPicture(m) == "picture" \in DOMAIN m

\* The text of a picture is empty, which every option contains.
ValidateChoiceResponse(m) == IsText(m, "answer") \/ IsPicture(m)
ValidateNumericResponse(m) == IsText(m, "answer")

Valid(type, m) == CASE type = "number" -> ValidateNumericResponse(m)
                    [] type = "choice" -> ValidateChoiceResponse(m)
                    [] type = "image"  -> IsPicture(m) /\ PhotoValid(m.picture)
                    [] type = "text"   -> ~IsPicture(m)

-----------------------------------------------------------------------------
(* State *)

DefaultState == [flow |-> "idle", step |-> 0, answered |-> {}, photos |-> 0, sw |-> FALSE]
Free == [at |-> "free"]

BotInit == /\ conv = DefaultState
           /\ rate = [count |-> 0, expires |-> FALSE]
           /\ handling = [h \in Handlers |-> Free]
           /\ completedSurveys = {}
           /\ botTally = [sent |-> 0, faults |-> 0, disturbed |-> FALSE]

Busy(h) == handling[h] # Free
BotFault == botTally.faults < MaxBotFaults
Failure == [botTally EXCEPT !.faults = @ + 1]

\* The operations of a handling, one after the other: those that read the
\* conversation first, and those that only write it.
Reading == {"context", "answer", "photo", "advance"}

\* Slip: a flow begins on top of what the conversation holds.
WrittenOnTop(op, question, s) ==
    CASE op = "answer"  -> [s EXCEPT !.answered = @ \cup {question}]
      [] op = "photo"   -> [s EXCEPT !.photos = @ + 1]
      [] op = "advance" -> [s EXCEPT !.step = @ + 1]
      [] op = "context" -> s
      [] op \in {"survey", "photos", "support"} -> [s EXCEPT !.flow = op]

\* What is written of s: the state just read, or the one the handling began with.
Written(op, question, s) ==
    CASE op = "answer"  -> [s EXCEPT !.answered = @ \cup {question}]
      [] op = "photo"   -> [s EXCEPT !.photos = @ + 1]
      [] op = "advance" -> [s EXCEPT !.step = @ + 1]
      [] op = "context" -> s
      [] op \in {"survey", "photos", "support"} -> [DefaultState EXCEPT !.flow = op, !.sw = s.sw]

-----------------------------------------------------------------------------
(* What a message makes the bot do, by the conversation as it was read *)

HandleIdleFlow(m) == IF IsPicture(m) THEN <<>>
                     ELSE CASE m.text = "survey" -> <<"survey", "context">>
                            [] m.text \in {"photos", "support"} -> <<m.text>>
                            [] OTHER -> <<>>

Finished(step) == step >= Len(Questions)

HandleSurveyFlow(m, s) ==
    IF IsText(m, "cancel") THEN <<"delete">>
    ELSE IF Finished(s.step) THEN <<"complete">>
    ELSE IF Valid(Questions[s.step + 1], m) THEN <<"answer", "advance", "complete">> ELSE <<>>

HandlePhotoFlow(m) ==
    IF IsText(m, "cancel") THEN <<"delete">>
    ELSE IF IsPicture(m) /\ PhotoValid(m.picture) THEN <<"photo", "advance", "collected">> ELSE <<>>

\* There is no cancelling a support flow: past its first step it only expires.
HandleSupportFlow(s) == IF s.step = 0 THEN <<"advance", "delete">> ELSE <<>>

\* What is left once the first of ops has written s.  Only the last question and the
\* last photo end a flow: the flow the message was routed by, whatever s has become.
After(ops, s) ==
    IF ops = <<"advance", "complete">> /\ ~Finished(s.step) THEN <<>>
    ELSE IF ops = <<"advance", "collected">> /\ s.photos < TotalPhotos THEN <<>>
    ELSE Tail(ops)

HandleMessage(m, s) ==
    CASE s.flow = "idle"    -> HandleIdleFlow(m)
      [] s.flow = "survey"  -> HandleSurveyFlow(m, s)
      [] s.flow = "photos"  -> HandlePhotoFlow(m)
      [] s.flow = "support" -> HandleSupportFlow(s)

-----------------------------------------------------------------------------
(* Actions *)

\* is_rate_limited: the first message of a window sets its end, in a second call.
\* A message that cannot be counted is handled.
CountMessage(h, m, counted) ==
    /\ ~Busy(h) /\ botTally.sent < MaxSent /\ (counted \/ BotFault)
    /\ rate' = IF counted THEN [rate EXCEPT !.count = @ + 1] ELSE rate
    /\ handling' = [handling EXCEPT ![h] = IF counted /\ rate'.count = 1 THEN [at |-> "expire", msg |-> m]
                                           ELSE IF counted /\ rate'.count > MaxMessages THEN Free
                                           ELSE [at |-> "route", msg |-> m]]
    /\ botTally' = [botTally EXCEPT !.sent = @ + 1, !.faults = IF counted THEN @ ELSE @ + 1,
                                    !.disturbed = @ \/ \E q \in Handlers : Busy(q)]
    /\ UNCHANGED <<conv, completedSurveys>>

SetExpiry(h, kept) ==
    /\ handling[h].at = "expire" /\ (kept \/ BotFault)
    /\ rate' = IF kept THEN [rate EXCEPT !.expires = rate.count > 0] ELSE rate
    /\ botTally' = IF kept THEN botTally ELSE Failure
    /\ handling' = [handling EXCEPT ![h].at = "route"]
    /\ UNCHANGED <<conv, completedSurveys>>

\* get_state answers with a new conversation when Redis does not answer.
Loaded(value, s) == value = s \/ (value = DefaultState /\ BotFault)
LoadTally(value) == IF value = conv THEN botTally ELSE Failure

\* The operations of h, the first of them next.  A question is that of the state
\* the message was routed by.
Works(h, ops, s) ==
    handling' = [handling EXCEPT ![h] =
        IF ops = <<>> THEN Free
        ELSE [at |-> IF Head(ops) \in Reading THEN "get" ELSE "set", ops |-> ops, state |-> s]]

RouteMessage(h, s) ==
    /\ handling[h].at = "route" /\ Loaded(s, conv) /\ botTally' = LoadTally(s)
    /\ LET m == handling[h].msg IN
       IF IsText(m, "swahili") /\ ~s.sw
       THEN handling' = [handling EXCEPT ![h] = [at |-> "language", msg |-> m, state |-> [s EXCEPT !.sw = TRUE]]]
       ELSE Works(h, HandleMessage(m, s), s)
    /\ UNCHANGED <<conv, rate, completedSurveys>>

\* set_state says nothing when it fails.
SetLanguage(h, kept) ==
    LET c == handling[h] IN
    /\ c.at = "language" /\ (kept \/ BotFault)
    /\ conv' = IF kept THEN c.state ELSE conv
    /\ botTally' = IF kept THEN botTally ELSE Failure
    /\ Works(h, HandleMessage(c.msg, c.state), c.state)
    /\ UNCHANGED <<rate, completedSurveys>>

GetState(h, s) ==
    /\ handling[h].at = "get" /\ Loaded(s, conv) /\ botTally' = LoadTally(s)
    /\ handling' = [handling EXCEPT ![h] = [at |-> "set", ops |-> @.ops, state |-> s, asked |-> @.state.step]]
    /\ UNCHANGED <<conv, rate, completedSurveys>>

SetState(h, kept) ==
    LET c == handling[h]
        op == Head(c.ops)
        question == (IF "asked" \in DOMAIN c THEN c.asked ELSE c.state.step) + 1
        s == Written(op, question, c.state) IN
    /\ c.at = "set" /\ op \notin {"delete", "collected", "complete"}
    /\ kept \/ BotFault
    /\ conv' = IF kept THEN s ELSE conv
    /\ botTally' = IF kept THEN botTally ELSE [Failure EXCEPT !.disturbed = @ \/ op \in {"answer", "photo"}]
    /\ Works(h, After(c.ops, s), s)
    /\ UNCHANGED <<rate, completedSurveys>>

\* A completed survey is what its handling last wrote.  delete_state says nothing when it fails.
DeleteState(h, done) ==
    LET c == handling[h] IN
    /\ c.at = "set" /\ Head(c.ops) \in {"delete", "collected", "complete"}
    /\ done \/ BotFault
    /\ conv' = IF done THEN DefaultState ELSE conv
    /\ botTally' = IF done THEN botTally ELSE Failure
    /\ completedSurveys' = IF Head(c.ops) = "complete" THEN completedSurveys \cup {c.state.answered} ELSE completedSurveys
    /\ handling' = [handling EXCEPT ![h] = Free]
    /\ UNCHANGED rate

HandlerDies(h) ==
    /\ Busy(h) /\ BotFault /\ handling' = [handling EXCEPT ![h] = Free]
    /\ botTally' = Failure
    /\ UNCHANGED <<conv, rate, completedSurveys>>

\* A day without a write, also in the middle of a handling; an hour after the first message.
StateExpires == /\ conv # DefaultState
                /\ conv' = DefaultState /\ UNCHANGED <<rate, handling, completedSurveys, botTally>>
RateExpires == /\ rate.expires /\ rate' = [count |-> 0, expires |-> FALSE]
               /\ UNCHANGED <<conv, handling, completedSurveys, botTally>>

HandlerStep(h) ==
    \/ \E s \in {conv, DefaultState} : RouteMessage(h, s) \/ GetState(h, s)
    \/ \E kept \in BOOLEAN : SetExpiry(h, kept) \/ SetLanguage(h, kept) \/ SetState(h, kept) \/ DeleteState(h, kept)

BotNext == \/ \E h \in Handlers : HandlerStep(h) \/ HandlerDies(h)
           \/ \E h \in Handlers, m \in Messages, counted \in BOOLEAN : CountMessage(h, m, counted)
           \/ StateExpires \/ RateExpires

BotSpec == BotInit /\ [][BotNext]_botVars

\* A handling goes on; keys expire; a day without a message is not certain.
BotFairness == (\A h \in Handlers : WF_botVars(HandlerStep(h))) /\ WF_botVars(RateExpires)

-----------------------------------------------------------------------------
(* Properties *)

\* bot.py _handle_survey_flow: a survey is completed when every question was
\* answered with a valid answer, however often the enumerator erred or began
\* again, whenever its state expired, a process died or a read of Redis failed:
\* unless two messages were handled at once or the write of an answer failed.
SurveysAreComplete == botTally.disturbed \/ completedSurveys \subseteq {1..Len(Questions)}

\* state_machine.py start_flow, store_response, store_photo, advance_step: a survey
\* stands at the first question it has no answer to, or at one whose answer was stored
\* by a process that got no further; a photo collection has counted no photo it does
\* not have; neither holds anything of the flow before it.
FlowsAreInStep ==
    \/ botTally.disturbed
    \/ /\ conv.flow = "survey" => /\ conv.photos = 0
                                  /\ conv.answered \in {1..conv.step, 1..(conv.step + 1)}
       /\ conv.flow = "photos" => conv.answered = {} /\ conv.photos >= conv.step

\* A survey is made of its own answers, all of them (whatsapp/bot.py).
ConversationsHold == SurveysAreComplete /\ FlowsAreInStep
=============================================================================
