---------------------------- MODULE KnowledgeBase ----------------------------
(***************************************************************************)
(* The knowledge store: the ingestion that replaces knowledge_chunk        *)
(* (knowledge/ingest.py), the hybrid retrieval over it                     *)
(* (knowledge/retriever.py) and the governed search with its deadline      *)
(* (knowledge/driver.py).                                                  *)
(*                                                                         *)
(* TRUNCATE takes the table for itself; a SELECT shares it until its       *)
(* transaction ends.  Each search runs its retrieval on a thread of its    *)
(* own, which goes on when the deadline has answered for it.               *)
(***************************************************************************)
EXTENDS Naturals, FiniteSets

CONSTANTS
  Ingest,     \* runs of the ingestion
  Search,     \* calls of search_public_site
  MaxChunks,  \* bound on the chunks of a corpus
  TopK,       \* k of retrieve()
  PoolSize    \* max_size of the knowledge pool

Free == "none"
Warmer == "warm thread"   \* warm_knowledge_embedder

ASSUME KnowledgeAssumption ==
  /\ {MaxChunks, TopK, PoolSize} \subseteq Nat \ {0}
  /\ {Free, Warmer} \cap (Ingest \cup Search) = {}

VARIABLES
  chunks,      \* knowledge_chunk, committed
  ingest,      \* the ingestion runs
  tableLock,   \* the run that holds knowledge_chunk, or none
  reading,     \* retrievals with an open transaction on knowledge_chunk
  search,      \* the caller's side of a search
  retrieval,   \* the thread's side
  modelLock,   \* who holds _query_embedder_lock
  modelBuilds, \* how often the embedding model was constructed
  found,       \* KNOWLEDGE_SEARCH events, true
  missed       \* KNOWLEDGE_SEARCH events, false

storeVars == <<chunks, ingest, tableLock>>
modelVars == <<modelLock, modelBuilds>>
searchVars == <<search, found, missed>>
knowledgeVars == <<storeVars, reading, modelVars, searchVars, retrieval>>

\* RESTART IDENTITY: every corpus numbers its rows from 1.
Corpus(i, n) == {[of |-> i, id |-> k] : k \in 1..n}

Ids(rows) == {r.id : r \in rows}

(***************************************************************************)
(* Ingestion                                                               *)
(***************************************************************************)
\* load_corpus, chunk_corpus, check_boundaries and the embedding: n rows are
\* left to index, possibly none.
PrepareIngest(i, n) ==
  /\ ingest[i].at = "idle"
  /\ ingest' = [ingest EXCEPT ![i] = [at |-> "prepared", rows |-> n]]
  /\ UNCHANGED <<chunks, tableLock, reading, modelVars, searchVars, retrieval>>

\* TRUNCATE waits until nobody uses the table.
TruncateTable(i) ==
  /\ ingest[i].at = "prepared"
  /\ tableLock = Free /\ reading = {}
  /\ tableLock' = i
  /\ ingest' = [ingest EXCEPT ![i].at = "loading"]
  /\ UNCHANGED <<chunks, reading, modelVars, searchVars, retrieval>>

Reloaded(i) == Corpus(i, ingest[i].rows)

CommitIngest(i) ==
  /\ ingest[i].at = "loading"
  /\ chunks' = Reloaded(i)
  /\ tableLock' = Free
  /\ ingest' = [ingest EXCEPT ![i].at = "done"]
  /\ UNCHANGED <<reading, modelVars, searchVars, retrieval>>

\* The run raises or its process ends; Postgres undoes the transaction.
IngestFails(i) ==
  /\ ingest[i].at \in {"prepared", "loading"}
  /\ tableLock' = IF tableLock = i THEN Free ELSE tableLock
  /\ ingest' = [ingest EXCEPT ![i].at = "failed"]
  /\ UNCHANGED <<chunks, reading, modelVars, searchVars, retrieval>>

(***************************************************************************)
(* Retrieval, on the thread of a search                                    *)
(***************************************************************************)
At(s, stage) == retrieval[s].at = stage

\* Mutant: the connections of the pool are in autocommit mode, so that the
\* SELECT's lock ends with the statement.
HeldAfterFirstReadNever(s) == reading

HeldAfterFirstRead(s) == reading \cup {s}

\* A connection of the pool and the SELECT of every row; an empty table ends
\* the retrieval.
ReadAllRows(s) ==
  /\ At(s, "started")
  /\ tableLock = Free
  /\ Cardinality({t \in Search : At(t, "rows read")}) < PoolSize
  /\ retrieval' = [retrieval EXCEPT ![s] =
       IF chunks = {} THEN [at |-> "returned", result |-> {}]
       ELSE [at |-> "rows read", rows |-> chunks]]
  /\ reading' = IF chunks = {} THEN reading ELSE HeldAfterFirstRead(s)
  /\ UNCHANGED <<storeVars, modelVars, searchVars>>

\* The full-text ranking, whatever it matches, and the end of the transaction.
ReadRanking(s, ranked) ==
  /\ At(s, "rows read")
  /\ tableLock = Free
  /\ ranked \subseteq chunks
  /\ retrieval' = [retrieval EXCEPT ![s] =
       [at |-> "ranked", rows |-> retrieval[s].rows, ranked |-> ranked]]
  /\ reading' = reading \ {s}
  /\ UNCHANGED <<storeVars, modelVars, searchVars>>

ModelFree == modelLock = Free

\* _singleton_query_embed: construction, when it is due, and the embedding
\* itself are under one lock.
TakeModel(s) ==
  /\ At(s, "ranked")
  /\ ModelFree
  /\ modelLock' = s
  /\ retrieval' = [retrieval EXCEPT ![s].at =
       IF modelBuilds = 0 THEN "building" ELSE "embedding"]
  /\ UNCHANGED <<storeVars, reading, modelBuilds, searchVars>>

ModelBuilt(s) ==
  /\ At(s, "building")
  /\ modelBuilds' = modelBuilds + 1
  /\ retrieval' = [retrieval EXCEPT ![s].at = "embedding"]
  /\ UNCHANGED <<storeVars, reading, modelLock, searchVars>>

\* _rrf_fuse and the top k. Every row is embedded, so every id read is a
\* candidate; an id that is not among the rows read raises a KeyError.
Fuse(s, top) ==
  /\ At(s, "embedding")
  /\ LET r == retrieval[s]
         candidates == Ids(r.rows) \cup Ids(r.ranked) IN
       /\ top \subseteq candidates
       /\ Cardinality(top) = IF Cardinality(candidates) < TopK THEN Cardinality(candidates) ELSE TopK
       /\ retrieval' = [retrieval EXCEPT ![s] =
            IF top \subseteq Ids(r.rows)
            THEN [at |-> "returned", rows |-> r.rows, ranked |-> r.ranked,
                  result |-> {row \in r.rows : row.id \in top}]
            ELSE [at |-> "raised"]]
  /\ modelLock' = Free
  /\ UNCHANGED <<storeVars, reading, modelBuilds, searchVars>>

\* No database, no connection within the pool's timeout, no model, no embedding
\* from it: the context managers give everything back.
RetrievalRaises(s) ==
  /\ retrieval[s].at \in {"started", "rows read", "building", "embedding"}
  /\ retrieval' = [retrieval EXCEPT ![s] = [at |-> "raised"]]
  /\ reading' = reading \ {s}
  /\ modelLock' = IF modelLock = s THEN Free ELSE modelLock
  /\ UNCHANGED <<storeVars, modelBuilds, searchVars>>

\* warm_knowledge_embedder's thread, at the start of the process (here again
\* after it failed: as if another process had started).
WarmModel ==
  /\ modelLock = Free /\ modelBuilds = 0
  /\ modelLock' = Warmer
  /\ UNCHANGED <<storeVars, reading, modelBuilds, searchVars, retrieval>>

WarmedModel(ok) ==
  /\ modelLock = Warmer
  /\ modelLock' = Free
  /\ modelBuilds' = IF ok THEN modelBuilds + 1 ELSE modelBuilds
  /\ UNCHANGED <<storeVars, reading, searchVars, retrieval>>

(***************************************************************************)
(* The governed search                                                     *)
(***************************************************************************)
AskKnowledge(s) ==
  /\ search[s].at = "idle"
  /\ search' = [search EXCEPT ![s].at = "waiting"]
  /\ retrieval' = [retrieval EXCEPT ![s].at = "started"]
  /\ UNCHANGED <<storeVars, reading, modelVars, found, missed>>

\* An empty query is answered, and not counted.
BlankQuery(s) ==
  /\ search[s].at = "idle"
  /\ search' = [search EXCEPT ![s] = [at |-> "blank", result |-> {}]]
  /\ UNCHANGED <<storeVars, reading, modelVars, found, missed, retrieval>>

Miss(s) ==
  /\ search' = [search EXCEPT ![s] = [at |-> "answered", result |-> {}]]
  /\ missed' = missed + 1
  /\ UNCHANGED found

AnswerSearch(s) ==
  /\ search[s].at = "waiting"
  /\ \/ /\ At(s, "returned") /\ retrieval[s].result # {}
        /\ search' = [search EXCEPT ![s] = [at |-> "answered", result |-> retrieval[s].result]]
        /\ found' = found + 1
        /\ UNCHANGED missed
     \/ At(s, "returned") /\ retrieval[s].result = {} /\ Miss(s)
     \/ At(s, "raised") /\ Miss(s)
  /\ UNCHANGED <<storeVars, reading, modelVars, retrieval>>

\* The deadline passes; the thread is left to itself.
Deadline(s) ==
  /\ search[s].at = "waiting"
  /\ Miss(s)
  /\ UNCHANGED <<storeVars, reading, modelVars, retrieval>>

(***************************************************************************)
(* Specification                                                           *)
(***************************************************************************)
KnowledgeInit ==
  /\ chunks = {}
  /\ ingest = [i \in Ingest |-> [at |-> "idle", rows |-> 0]]
  /\ tableLock = Free
  /\ reading = {}
  /\ search = [s \in Search |-> [at |-> "idle", result |-> {}]]
  /\ retrieval = [s \in Search |-> [at |-> "idle"]]
  /\ modelLock = Free
  /\ modelBuilds = 0
  /\ found = 0
  /\ missed = 0

IngestStep(i) ==
  \/ \E n \in 0..MaxChunks : PrepareIngest(i, n)
  \/ TruncateTable(i)
  \/ CommitIngest(i)
  \/ IngestFails(i)

RetrievalStep(s) ==
  \/ ReadAllRows(s)
  \/ \E ranked \in SUBSET chunks : ReadRanking(s, ranked)
  \/ TakeModel(s)
  \/ ModelBuilt(s)
  \/ \E top \in SUBSET (1..MaxChunks) : Fuse(s, top)
  \/ RetrievalRaises(s)

SearchStep(s) ==
  \/ AskKnowledge(s)
  \/ BlankQuery(s)
  \/ AnswerSearch(s)
  \/ Deadline(s)

KnowledgeNext ==
  \/ \E i \in Ingest : IngestStep(i)
  \/ \E s \in Search : RetrievalStep(s) \/ SearchStep(s)
  \/ WarmModel
  \/ \E ok \in BOOLEAN : WarmedModel(ok)

KnowledgeSpec == KnowledgeInit /\ [][KnowledgeNext]_knowledgeVars

(***************************************************************************)
(* Properties                                                              *)
(***************************************************************************)
\* The rows a retrieval reads first and the ranking it reads second are of the
\* same corpus, although an ingestion may replace the table, ids included,
\* between any two statements (retriever.retrieve's two round trips).
RankedWhatWasRead ==
  \A s \in Search : "ranked" \in DOMAIN retrieval[s] => retrieval[s].ranked \subseteq retrieval[s].rows

\* The index always holds the corpus of one ingestion that committed, whole, and
\* nothing of the runs that failed or overlapped it
\* (ingest(): "re-running produces the identical corpus").
IndexIsOneCorpus ==
  chunks # {} => \E i \in Ingest : ingest[i].at = "done" /\ chunks = Corpus(i, ingest[i].rows)

\* The embedding model is constructed once in a process, whichever of the
\* searches and the warm-up thread come first (_query_embedder_lock).
ModelBuiltOnce == modelBuilds <= 1

\* Every search that is not blank is counted once, as found exactly when it
\* answered chunks, whatever its abandoned thread does later (_emit_found).
SearchesAreCounted ==
  LET answered == {s \in Search : search[s].at = "answered"} IN
    /\ found = Cardinality({s \in answered : search[s].result # {}})
    /\ found + missed = Cardinality(answered)

\* A search answers out of one corpus with one model, and is counted as it was
\* answered, while ingestions replace the table and deadlines abandon retrievals
\* (knowledge/retriever.py, driver.py, ingest.py).
SearchesAreSound ==
  RankedWhatWasRead /\ IndexIsOneCorpus /\ ModelBuiltOnce /\ SearchesAreCounted
=============================================================================
