----------------------------- MODULE FileSearch -----------------------------
(***************************************************************************)
(* search_my_files: the words (full text) are searched, then, if there is  *)
(* vector storage and the question can be embedded, the vectors; the two    *)
(* lists are fused by reciprocal rank and reranked.  Meanwhile files are    *)
(* ingested: a document may be found by words before it is by vectors       *)
(* (Ingest has the details).                                               *)
(*                                                                         *)
(* A chunk is a record: its document, its index there, and the bonus its    *)
(* text and file name earn for the question, in hundredths.                 *)
(***************************************************************************)
EXTENDS ToolCalls, RankFusion, SequencesExt

CONSTANTS
    Chunks,         \* the chunks of the documents there may be
    VectorStorage   \* whether pgvector is there: persistence_core's answers

\* A chunk is known by its document and its index; no list of chunks is longer than
\* the ranks there are shares for.
ASSUME ChunkAssumption ==
    /\ IsFiniteSet(Chunks) /\ Cardinality(Chunks) <= Ranks
    /\ \A k \in Chunks : k.document \in Nat /\ k.index \in Nat /\ k.bonus \in Nat
    /\ \A j, k \in Chunks : (j.document = k.document /\ j.index = k.index) => j = k

\* A question asks for so many excerpts, at least one.
ASSUME ExcerptAssumption ==
    \A r \in Rounds : \A c \in DOMAIN r :
        (r[c].tool = "search_my_files" /\ r[c].valid) => r[c].most \in Nat \ {0}

VARIABLES
    library,        \* documents.status: "absent", "fts_ready" or "ready"
    lookup          \* the state of each call's search

fileVars == <<library, lookup>>

NoLookup == [step |-> "off", words |-> <<>>, vectors |-> <<>>, rows |-> <<>>]

Documents == {k.document : k \in Chunks}

FileTypeOK ==
    /\ library \in [Documents -> {"absent", "fts_ready", "ready"}]
    /\ \A c \in Calls :
         /\ DOMAIN lookup[c] = DOMAIN NoLookup
         /\ lookup[c].step \in {"off", "words", "storage", "vectors", "rows", "told"}
         /\ lookup[c].words \in Seq(Chunks) /\ lookup[c].vectors \in Seq(Chunks)

FileInit ==
    /\ library \in [Documents -> {"absent", "ready"}]
    /\ lookup = [c \in Calls |-> NoLookup]

-----------------------------------------------------------------------------
\* Ingest stores the chunks of a document, then their vectors, if it can.
IngestStep ==
    /\ \E d \in Documents :
         \/ library[d] = "absent" /\ library' = [library EXCEPT ![d] = "fts_ready"]
         \/ library[d] = "fts_ready" /\ library' = [library EXCEPT ![d] = "ready"]
    /\ UNCHANGED <<lookup, toolVars>>

\* Any order of some of the chunks of documents with these statuses: what a query
\* matches and how it ranks is the database's.
Listed(statuses) ==
    UNION {SetToSeqs(S) : S \in SUBSET {k \in Chunks : library[k.document] \in statuses}}

Looks(c, step) == at[c] = "work" /\ Asked(c).tool = "search_my_files" /\ lookup[c].step = step

\* An empty question, one too long or a top_k out of range raises.
StartFiles(c) ==
    /\ Looks(c, "off")
    /\ IF Asked(c).valid
       THEN lookup' = [lookup EXCEPT ![c].step = "words"] /\ UNCHANGED toolVars
       ELSE lookup' = [lookup EXCEPT ![c].step = "told"] /\ Returns(c, Raised)
    /\ UNCHANGED library

\* search_fts_document_chunks; its PersistenceError is the tool's.
SearchWords(c) ==
    /\ Looks(c, "words")
    /\ \/ \E rows \in Listed({"fts_ready", "ready"}) :
            /\ lookup' = [lookup EXCEPT ![c].step = "storage", ![c].words = rows]
            /\ UNCHANGED toolVars
       \/ /\ lookup' = [lookup EXCEPT ![c].step = "told"]
          /\ Returns(c, Raised)
    /\ UNCHANGED library

\* vector_storage_available, whose PersistenceError discards the words, then
\* embed_query: without the one or the other, the words alone.
EmbedQuestion(c) ==
    /\ Looks(c, "storage")
    /\ \/ \E storage \in VectorStorage, embedded \in BOOLEAN :
            /\ lookup' = [lookup EXCEPT ![c].step =
                             IF storage /\ embedded THEN "vectors" ELSE "rows"]
            /\ UNCHANGED toolVars
       \/ /\ lookup' = [lookup EXCEPT ![c].step = "told"]
          /\ Returns(c, Raised)
    /\ UNCHANGED library

\* search_vector_document_chunks: its PersistenceError does the same.
SearchVectors(c) ==
    /\ Looks(c, "vectors")
    /\ \/ \E rows \in Listed({"ready"}) :
            /\ lookup' = [lookup EXCEPT ![c].step = "rows", ![c].vectors = rows]
            /\ UNCHANGED toolVars
       \/ /\ lookup' = [lookup EXCEPT ![c].step = "told"]
          /\ Returns(c, Raised)
    /\ UNCHANGED library

\* _hybrid_results: the chunks of both lists by score, then document and index.
RankIn(k, rows) == CHOOSE i \in 1..Len(rows) : rows[i] = k

PointsIn(k, rows) == IF k \in ToSet(rows) THEN Share(RankIn(k, rows)) ELSE 0

\* Mutant: the vectors' rank stands in for the words' instead of adding to it.
PointsOfTheBest(k, words, vectors) ==
    (IF k \in ToSet(vectors) THEN PointsIn(k, vectors) ELSE PointsIn(k, words))
    + Hundredths(k.bonus)

Points(k, words, vectors) == PointsIn(k, words) + PointsIn(k, vectors) + Hundredths(k.bonus)

Hybrid(c, words, vectors) ==
    LET points(k) == Points(k, words, vectors)
        before(j, k) == \/ points(j) > points(k)
                        \/ points(j) = points(k) /\ j.document < k.document
                        \/ points(j) = points(k) /\ j.document = k.document /\ j.index < k.index
        all == InOrder(ToSet(words) \cup ToSet(vectors), before)
    IN  SubSeq(all, 1, IF Len(all) < Asked(c).most THEN Len(all) ELSE Asked(c).most)

EndFiles(c) ==
    /\ Looks(c, "rows")
    /\ lookup' = [lookup EXCEPT ![c].step = "told",
                                ![c].rows = Hybrid(c, lookup[c].words, lookup[c].vectors)]
    /\ Returns(c, Returned(TRUE, "none"))
    /\ UNCHANGED library

FileStep(c) ==
    StartFiles(c) \/ SearchWords(c) \/ EmbedQuestion(c) \/ SearchVectors(c) \/ EndFiles(c)

-----------------------------------------------------------------------------
\* The excerpts the model is given: a chunk that both searches rank above another
\* one of no greater bonus is not given after it, nor left out for it; and a chunk
\* the words found is never lost because the vectors found others, unless there is
\* no room.
Over(j, k, words, vectors) ==
    /\ j.bonus >= k.bonus
    /\ \A list \in {words, vectors} :
         k \in ToSet(list) => j \in ToSet(list) /\ RankIn(j, list) < RankIn(k, list)

FairExcerpts(words, vectors, rows, most) ==
    /\ \A i \in 1..Len(rows) : \A j \in ToSet(words) :
         Over(j, rows[i], words, vectors) => \E h \in 1..(i - 1) : rows[h] = j
    /\ (rows # <<>> /\ Len(rows) < most) => ToSet(words) \subseteq ToSet(rows)

ExcerptsAreFair ==
    \A c \in Calls :
        FairExcerpts(lookup[c].words, lookup[c].vectors, lookup[c].rows, Asked(c).most)
=============================================================================
