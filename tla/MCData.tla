------------------------------- MODULE MCData -------------------------------
\* What comes in from the field and what is erased of it: uploads, readings, messages and
\* erasures share no row here.  One behaviour follows one of them.
EXTENDS Ingestion, Conversation, Erasure

VARIABLE focus

Row(lat) == [usage_hours |-> "ok", gps_latitude |-> lat, gps_longitude |-> "ok"]
Sheet(row, days) == [type |-> "csv", readable |-> TRUE, missing |-> FALSE, unparsed |-> FALSE,
                     rows |-> <<row>>, days |-> days]

\* Valid and flagged, above and below the threshold, and what cannot be processed.
MCContents ==
    {Sheet(Row("ok"), <<10, 20>>), Sheet(Row("out"), <<10, 20>>), Sheet(Row("ok"), <<500, 20>>),
     Sheet(Row("text"), <<10>>),
     [Sheet(Row("ok"), <<>>) EXCEPT !.readable = FALSE],
     [type |-> "pdf", pages |-> 4, text |-> 150], [type |-> "pdf", pages |-> 0, text |-> 0],
     [type |-> "image", readable |-> TRUE, gps |-> "ok", timestamp |-> TRUE, keyword |-> TRUE],
     [type |-> "unknown"]}

\* Complete, without counts, with two errors, and abnormal.
MCPayloads ==
    {[type |-> "iot", stove_id |-> "s", timestamp |-> "ok", cooking_events |-> 4, total_cooking_minutes |-> 120],
     [type |-> "iot", stove_id |-> "s", timestamp |-> "ok"],
     [type |-> "iot", timestamp |-> "bad", cooking_events |-> 4, total_cooking_minutes |-> 120],
     [type |-> "iot", stove_id |-> "s", timestamp |-> "ok", cooking_events |-> 2, total_cooking_minutes |-> 900]}

MCQuestions == <<"choice", "image">>

Talk(o, n) == [owner |-> o, n |-> n]
Response(i, h, e, c) == [id |-> i, household |-> h, enumerator |-> e, conversation |-> c]
LeadOf(i, dev) == [id |-> i, developer |-> dev]

\* More than a batch, with rows of the subject on both sides of its end; a conversation
\* of e1 that e3 has answered in, or none; a conversation of e3 with a ticket.
MCSurveys ==
    {<<Response(1, "h1", "e1", Talk("e1", 1)), Response(2, "h2", "e1", Talk("e1", 1)),
       Response(3, "h1", "e2", Talk("e2", 2)), Response(4, "h1", "e3", Talk("e1", 1))>>,
     <<Response(1, "h2", "e2", Talk("e2", 2)), Response(2, "h1", "e2", Talk("e2", 2)),
       Response(3, "h2", "e1", Talk("e1", 1))>>}
MCLeads == {<<LeadOf(1, "x"), LeadOf(2, "y"), LeadOf(3, "x")>>}
MCTickets == {Talk("e3", 3)}

MCAsked ==
    {[d \in ErasureRequests |-> IF d = "a" THEN [kind |-> p[1], subject |-> p[2]] ELSE [kind |-> p[3], subject |-> p[4]]] :
        p \in {<<"household", "h1", "enumerator", "e1">>, <<"household", "h1", "household", "h2">>,
               <<"developer", "x", "developer", "y">>,
               <<"user", "u1", "user", "u2">>}}

MCInit == /\ IngestInit /\ BotInit /\ ErasureInit
          /\ focus \in {"uploads", "readings", "messages", "erasure"}
          /\ focus # "readings" => \A r \in Readings : content[r] = CHOOSE p \in Payloads : TRUE
          /\ focus # "uploads" => \A f \in Files : content[f] = CHOOSE c \in Contents : TRUE
          /\ focus # "erasure" => surveys = CHOOSE s \in SurveyRows : TRUE
          /\ focus # "erasure" => asked = CHOOSE a \in Asked : TRUE
          /\ asked["a"].kind # "household" => surveys = CHOOSE s \in SurveyRows : TRUE

MCNext == /\ \/ /\ focus = "uploads" /\ (UploadNext \/ EditNext)
                /\ UNCHANGED <<botVars, erasureVars>>
             \/ /\ focus = "readings" /\ (ReadingNext \/ EditNext)
                /\ UNCHANGED <<botVars, erasureVars>>
             \/ focus = "messages" /\ BotNext /\ UNCHANGED <<ingestVars, erasureVars>>
             \/ focus = "erasure" /\ ErasureNext /\ UNCHANGED <<ingestVars, botVars>>
          /\ UNCHANGED focus

MCSpec == /\ MCInit /\ [][MCNext]_<<ingestVars, botVars, erasureVars, focus>>
          /\ IngestFairness /\ BotFairness /\ ErasureFairness
=============================================================================
