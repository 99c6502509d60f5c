------------------------------ MODULE Knowledge ------------------------------
(***************************************************************************)
(* Ingesting one methodology document, a (registry, methodology_id,        *)
(* version), into the knowledge base (knowledge/service.py): requests of   *)
(* several operators under READ COMMITTED.  Nothing makes the triple       *)
(* unique, and an UPDATE, with its row lock, is sent only when a column    *)
(* differs from what the request has read.  A text is its count of words.  *)
(***************************************************************************)
EXTENDS Integers, FiniteSets

CONSTANTS Ingests,      \* requests: each ingests one text
          Texts,        \* texts of the document, as their number of words
          ChunkSize, ChunkOverlap,
          MaxRemovals   \* bound: documents deleted by an administrator

ASSUME KnowledgeAssumption ==
    /\ Texts \subseteq Nat /\ ChunkSize \in Nat \ {0} /\ ChunkOverlap \in Nat /\ MaxRemovals \in Nat

VARIABLES library,      \* methodology_documents: the committed texts, by id
          chunks,       \* knowledge_chunks: the committed rows
          ingest,       \* what each request has read, written and deleted
          unlocked,     \* history: two requests overlapped that no row lock could order
          removals

knowledgeVars == <<library, chunks, ingest, unlocked, removals>>

None == -1
Ids == Ingests     \* a document is named after the request that inserted it

ChunkStep == IF ChunkSize > ChunkOverlap THEN ChunkSize - ChunkOverlap ELSE 1

\* chunk_text: where the windows over n words start.
ChunkStarts(n) ==
    IF n = 0 THEN {} ELSE IF n <= ChunkSize THEN {0}
    ELSE {s \in 0..(n - 1) : s % ChunkStep = 0 /\ \A t \in 0..(s - 1) :
                                                    t % ChunkStep = 0 => t + ChunkSize < n}

ChunksOf(i, id, n) == {[by |-> i, document |-> id, words |-> n, start |-> s] : s \in ChunkStarts(n)}

Underway == {i \in Ingests : ingest[i].at \notin {"idle", "done", "failed"}}

KnowledgeInit ==
    /\ library = [id \in Ids |-> None] /\ chunks = {} /\ unlocked = FALSE /\ removals = 0
    /\ ingest = [i \in Ingests |-> [at |-> "idle", id |-> i, text |-> None, seen |-> None,
                                    locks |-> FALSE, victims |-> {}, deleted |-> {}]]

Stored == {id \in Ids : library[id] # None}

\* scalar_one_or_none: two documents of one triple raise from now on.
ReadDocument(i, n) ==
    /\ ingest[i].at = "idle"
    /\ IF Cardinality(Stored) > 1
       THEN ingest' = [ingest EXCEPT ![i].at = "failed"]
       ELSE LET id == IF Stored = {} THEN i ELSE CHOOSE d \in Stored : TRUE
            IN ingest' = [ingest EXCEPT ![i].at = "read", ![i].id = id, ![i].text = n,
                                        ![i].seen = library[id]]
    /\ unlocked' = (\/ unlocked
                    \/ /\ Underway # {}
                       /\ \E j \in Underway \cup {i} : ingest'[j].seen \in {ingest'[j].text, None})
    /\ UNCHANGED <<library, chunks, removals>>

\* Slip: the row is not locked by its update.
NeverWaits(i) == TRUE

\* The update waits for the row lock of another.
LockIsFree(i) == \A j \in Underway \ {i} : ~(ingest[j].locks /\ ingest[j].id = ingest[i].id)

\* flush: INSERT, UPDATE of a row that is still there, or nothing at all.
Flush(i) ==
    /\ ingest[i].at = "read"
    /\ \/ /\ ingest[i].seen \in {None, ingest[i].text}
          /\ ingest' = [ingest EXCEPT ![i].at = "flushed"]
       \/ /\ ingest[i].seen \notin {None, ingest[i].text} /\ LockIsFree(i)
          /\ ingest' = IF library[ingest[i].id] = None
                       THEN [ingest EXCEPT ![i].at = "failed"]
                       ELSE [ingest EXCEPT ![i].at = "flushed", ![i].locks = TRUE]
    /\ UNCHANGED <<library, chunks, unlocked, removals>>

\* DELETE: its snapshot is taken when the statement starts ...
StartDelete(i) ==
    /\ ingest[i].at = "flushed"
    /\ ingest' = [ingest EXCEPT ![i].at = "deleting",
                                ![i].victims = {c \in chunks : c.document = ingest[i].id}]
    /\ UNCHANGED <<library, chunks, unlocked, removals>>

\* ... and it waits for the rows another request has deleted and not committed.
FinishDelete(i) ==
    /\ ingest[i].at = "deleting"
    /\ \A j \in Underway \ {i} : ingest[j].deleted \cap ingest[i].victims = {}
    /\ ingest' = [ingest EXCEPT ![i].at = "embedding",
                                ![i].deleted = ingest[i].victims \cap chunks]
    /\ UNCHANGED <<library, chunks, unlocked, removals>>

EndIngest(i, how) == ingest' = [ingest EXCEPT ![i].at = how, ![i].locks = FALSE,
                                          ![i].victims = {}, ![i].deleted = {}]

\* The embedder fails, or the request ends: all of it is rolled back.
EmbeddingFails(i) ==
    /\ ingest[i].at = "embedding"
    /\ EndIngest(i, "failed")
    /\ UNCHANGED <<library, chunks, unlocked, removals>>

\* The chunks are inserted and all is committed; the document they refer to must be there.
CommitIngest(i) ==
    /\ ingest[i].at = "embedding"
    /\ LET id == ingest[i].id
           n == ingest[i].text
           gone == ingest[i].seen # None /\ library[id] = None
       IN IF gone /\ ChunkStarts(n) # {}
          THEN EndIngest(i, "failed") /\ UNCHANGED <<library, chunks>>
          ELSE /\ EndIngest(i, "done")
               /\ library' = IF ingest[i].seen = None \/ ingest[i].locks
                               THEN [library EXCEPT ![id] = n] ELSE library
               /\ chunks' = (chunks \ ingest[i].deleted) \cup ChunksOf(i, id, n)
    /\ UNCHANGED <<unlocked, removals>>

\* delete_document, which no request that holds the row or its chunks can be in the way of.
RemoveDocument(id) ==
    /\ removals < MaxRemovals /\ library[id] # None
    /\ \A i \in Underway : ingest[i].id = id => ~ingest[i].locks /\ ingest[i].deleted = {}
    /\ library' = [library EXCEPT ![id] = None]
    /\ chunks' = {c \in chunks : c.document # id}
    /\ removals' = removals + 1
    /\ UNCHANGED <<ingest, unlocked>>

KnowledgeNext ==
    \/ \E i \in Ingests : \/ \E n \in Texts : ReadDocument(i, n)
                          \/ Flush(i) \/ StartDelete(i) \/ FinishDelete(i)
                          \/ EmbeddingFails(i) \/ CommitIngest(i)
    \/ \E id \in Ids : RemoveDocument(id)

KnowledgeSpec == KnowledgeInit /\ [][KnowledgeNext]_knowledgeVars

\* Ingesting a document again replaces it and its chunks (knowledge/service.py:95): there
\* is one document and the chunks are those of its text, also when requests that change
\* the row overlap; a request that changes nothing, or two first ones, take no lock.
ReplacedUnlessUnchanged ==
    ~unlocked => /\ Cardinality(Stored) <= 1
                 /\ \A id \in Stored : \E i \in Ingests : chunks = ChunksOf(i, id, library[id])

\* Every word of a text is in a window, and no window lies within the one before it, at
\* every length of the text (knowledge/service.py:40).
ChunksCoverText ==
    \A i \in Ingests :
        LET starts == {c.start : c \in {c \in chunks : c.by = i}}
            n == ingest[i].text
            Ends(s) == IF s + ChunkSize < n THEN s + ChunkSize ELSE n
        IN starts # {} => /\ \A w \in 0..(n - 1) : \E s \in starts : s <= w /\ w < s + ChunkSize
                          /\ \A s, t \in starts : s < t => Ends(s) < Ends(t)

\* A stored document is one text, all of it (knowledge/service.py).
LibraryHolds == ReplacedUnlessUnchanged /\ ChunksCoverText

\* A document has the chunks of its text and no others (the docstring at
\* knowledge/service.py:97 calls ingestion idempotent, whoever else ingests).
ChunksAreReplaced ==
    \A id \in Stored : \E i \in Ingests :
        {c \in chunks : c.document = id} = ChunksOf(i, id, library[id])
=============================================================================
