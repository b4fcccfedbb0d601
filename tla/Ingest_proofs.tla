---------------------------- MODULE Ingest_proofs ----------------------------
(***************************************************************************)
(* Proofs about Ingest for any number of requests, files and contents, on  *)
(* databases with and without the unique index and pgvector.               *)
(*                                                                         *)
(* What ingest_document returns is a fact about rows that no other request *)
(* writes, so the argument is local: the invariant Kept says what each     *)
(* position of the handler has written, and only a position that owns no   *)
(* stored document ever deletes.                                           *)
(***************************************************************************)
EXTENDS Ingest, TLAPS

-----------------------------------------------------------------------------
(* Types                                                                   *)

PCs == {"idle", "create", "store", "undo", "undoing", "yield", "yielding",
        "winner", "tell", "embed", "mark_ready", "mark_doc", "mark_source",
        "done", "dead"}

\* A transaction's outcome is counted within the bound.
LEMMA CountedType ==
  ASSUME TypeOK, NEW o, Counted(o)
  PROVE  faults' \in 0..MaxFaults
BY FaultsType DEF Counted, TypeOK

\* Moving on keeps the types.
LEMMA GoesType ==
  ASSUME TypeOK, NEW u \in Upload, NEW next \in PCs, Goes(u, next)
  PROVE  /\ pc' \in [Upload -> PCs]
         /\ result' \in [Upload -> Results]
         /\ answer' \in [Request -> {-1, 0, 201, 202, 409, 415, 422, 500, 503}]
BY DEF Goes, TypeOK, PCs

\* Ending keeps the types.
LEMMA EndsType ==
  ASSUME TypeOK, NEW u \in Upload, NEW res \in Results, Ends(u, res)
  PROVE  /\ pc' \in [Upload -> PCs]
         /\ result' \in [Upload -> Results]
         /\ answer' \in [Request -> {-1, 0, 201, 202, 409, 415, 422, 500, 503}]
BY DEF Ends, TypeOK, PCs

\* The rows a step writes keep their types.
LEMMA TakesType ==
  ASSUME TypeOK, NEW u \in Upload, NEW o, NEW s \in DocStatus
  PROVE  /\ DocTakes(o, u, s) => doc' \in [Upload -> DocStatus]
         /\ SourceTakes(o, u, s) => source' \in [Upload -> DocStatus \cup {"pending"}]
BY DEF DocTakes, SourceTakes, TypeOK

\* The files of a request are uploads.
BatchesAreUploads == \A r \in Request : Files(r) \subseteq Upload

\* It holds by the type of Batch.
LEMMA BatchesType == BatchesAreUploads
BY BatchType DEF BatchesAreUploads, Files

\* Extraction makes a document searchable or empty.
LEMMA ExtractedType == \A u \in Upload : Extracted(u) \in {"fts_ready", "empty"}
BY DEF Extracted

\* The handler's part of the types
Places ==
  /\ pc' \in [Upload -> PCs]
  /\ result' \in [Upload -> Results]
  /\ answer' \in [Request -> {-1, 0, 201, 202, 409, 415, 422, 500, 503}]
  /\ faults' \in 0..MaxFaults

\* Every step keeps the types.
LEMMA StepTypeOK ==
  ASSUME TypeOK, UNCHANGED database, NEW u \in Upload, Step(u)
  PROVE  TypeOK'
<1>0. /\ \A next \in PCs : Goes(u, next) => pc' \in [Upload -> PCs] /\ result' \in [Upload -> Results]
           /\ answer' \in [Request -> {-1, 0, 201, 202, 409, 415, 422, 500, 503}]
      /\ \A res \in Results : Ends(u, res) => pc' \in [Upload -> PCs] /\ result' \in [Upload -> Results]
           /\ answer' \in [Request -> {-1, 0, 201, 202, 409, 415, 422, 500, 503}]
      /\ \A o : Counted(o) => faults' \in 0..MaxFaults
      /\ faults \in 0..MaxFaults
  BY GoesType, EndsType, CountedType DEF TypeOK
<1>0a. /\ \A o : \A s \in DocStatus : DocTakes(o, u, s) => doc' \in [Upload -> DocStatus]
       /\ \A o : \A s \in DocStatus : SourceTakes(o, u, s) => source' \in [Upload -> DocStatus \cup {"pending"}]
  BY TakesType
<1>q. ASSUME Places, blobs' \subseteq Content,
             source' \in [Upload -> DocStatus \cup {"pending"}],
             doc' \in [Upload -> DocStatus], seen' \in [Upload -> BOOLEAN]
      PROVE  TypeOK'
  BY <1>q DEF TypeOK, Places, PCs
<1>1. CASE Check(u)
  <2>1. Places
    BY <1>0, <1>1 DEF Check, Places, PCs, Results, Stored, Failed
  <2>2. QED
    BY <1>1, <1>q, <2>1 DEF Check, TypeOK, rows
<1>2. CASE Create(u)
  <2>1. Places
    BY <1>0, <1>2 DEF Create, Places, PCs, Results, Stored, Failed
  <2>2. blobs' \subseteq Content /\ source' \in [Upload -> DocStatus \cup {"pending"}]
    BY <1>2, ContentType DEF Create, TypeOK
  <2>3. QED
    BY <1>2, <1>q, <2>1, <2>2 DEF Create, TypeOK
<1>3. CASE Store(u)
  <2>1. Places
    BY <1>0, <1>3 DEF Store, Places, PCs
  <2>2. doc' \in [Upload -> DocStatus]
    BY <1>3, <1>0a, ExtractedType DEF Store, TypeOK, DocStatus
  <2>3. QED
    BY <1>3, <1>q, <2>1, <2>2 DEF Store, TypeOK
<1>4. CASE BeginDelete(u)
  <2>1. Places
    BY <1>0, <1>4 DEF BeginDelete, Places, PCs
  <2>2. QED
    BY <1>4, <1>q, <2>1 DEF BeginDelete, TypeOK, rows
<1>5. CASE EndDelete(u)
  <2>1. Places
    BY <1>0, <1>5 DEF EndDelete, Places, PCs, Results, Stored, Failed
  <2>2. blobs' \subseteq Content /\ source' \in [Upload -> DocStatus \cup {"pending"}]
    BY <1>5 DEF EndDelete, TypeOK, DocStatus
  <2>3. QED
    BY <1>5, <1>q, <2>1, <2>2 DEF EndDelete, TypeOK
<1>6. CASE Winner(u)
  <2>1. Places
    BY <1>0, <1>6 DEF Winner, Places, Results, Stored, Failed
  <2>2. QED
    BY <1>6, <1>q, <2>1 DEF Winner, TypeOK, rows
<1>7. CASE Tell(u)
  <2>1. Places
    BY <1>0, <1>7 DEF Tell, Places, PCs, Results, Stored, Failed
  <2>2. source' \in [Upload -> DocStatus \cup {"pending"}]
    BY <1>7, <1>0a, ExtractedType DEF Tell, DocStatus
  <2>3. QED
    BY <1>7, <1>q, <2>1, <2>2 DEF Tell, TypeOK
<1>8. CASE SkipEmbedding(u)
  <2>1. Places
    BY <1>0, <1>8 DEF SkipEmbedding, Places, Results, Stored, Failed
  <2>2. QED
    BY <1>8, <1>q, <2>1 DEF SkipEmbedding, TypeOK, rows
<1>9. CASE EmbeddingFails(u)
  <2>1. Places
    BY <1>0, <1>9 DEF EmbeddingFails, Places, PCs
  <2>2. QED
    BY <1>9, <1>q, <2>1 DEF EmbeddingFails, TypeOK, rows
<1>10. CASE StoreEmbeddings(u)
  <2>1. Places
    BY <1>0, <1>10 DEF StoreEmbeddings, Places, PCs, Results, Stored, Failed
  <2>2. doc' \in [Upload -> DocStatus]
    BY <1>10, <1>0a DEF StoreEmbeddings, DocStatus
  <2>3. QED
    BY <1>10, <1>q, <2>1, <2>2 DEF StoreEmbeddings, TypeOK
<1>11. CASE MarkReady(u)
  <2>1. Places
    BY <1>0, <1>11 DEF MarkReady, Places, Results, Stored, Failed
  <2>2. source' \in [Upload -> DocStatus \cup {"pending"}]
    BY <1>11, <1>0a DEF MarkReady, DocStatus
  <2>3. QED
    BY <1>11, <1>q, <2>1, <2>2 DEF MarkReady, TypeOK
<1>12. CASE MarkDocument(u)
  <2>1. Places
    BY <1>0, <1>12 DEF MarkDocument, Places, PCs, Results, Stored, Failed
  <2>2. doc' \in [Upload -> DocStatus]
    BY <1>12, <1>0a DEF MarkDocument, DocStatus
  <2>3. QED
    BY <1>12, <1>q, <2>1, <2>2 DEF MarkDocument, TypeOK
<1>13. CASE MarkSource(u)
  <2>1. Places
    BY <1>0, <1>13 DEF MarkSource, Places, Results, Stored, Failed
  <2>2. source' \in [Upload -> DocStatus \cup {"pending"}]
    BY <1>13, <1>0a DEF MarkSource, DocStatus
  <2>3. QED
    BY <1>13, <1>q, <2>1, <2>2 DEF MarkSource, TypeOK
<1>14. QED
  BY <1>1, <1>2, <1>3, <1>4, <1>5, <1>6, <1>7, <1>8, <1>9, <1>10, <1>11, <1>12, <1>13
     DEF Step

\* Every step of the system keeps the types.
LEMMA NextTypeOK == TypeOK /\ [Next]_vars => TypeOK'
<1> SUFFICES ASSUME TypeOK, [Next]_vars PROVE TypeOK'
  OBVIOUS
<1>1. CASE UNCHANGED vars
  BY <1>1 DEF vars, TypeOK
<1>2. ASSUME NEW r \in Request, Respond(r), UNCHANGED database PROVE TypeOK'
  <2>1. answer' \in [Request -> {-1, 0, 201, 202, 409, 415, 422, 500, 503}]
    BY <1>2 DEF Respond, ResponseStatus, StatusCode, TypeOK
  <2>2. QED
    BY <1>2, <2>1 DEF Respond, TypeOK, rows
<1>3. ASSUME NEW r \in Request, Crash(r), UNCHANGED database PROVE TypeOK'
  <2>1. faults' \in 0..MaxFaults
    BY <1>3, CountedType DEF Crash
  <2>2. pc' \in [Upload -> PCs] /\ seen' \in [Upload -> BOOLEAN]
    BY <1>3 DEF Crash, TypeOK, PCs
  <2>3. QED
    BY <1>3, <2>1, <2>2 DEF Crash, TypeOK, rows, PCs
<1>4. QED
  BY <1>1, <1>2, <1>3, StepTypeOK DEF Next

\* TypeOK: every variable keeps its type, whatever the bounds.
THEOREM TypeCorrect == Spec => []TypeOK
<1>1. Init => TypeOK
  BY FaultsType DEF Init, TypeOK, DocStatus, Results
<1>2. QED
  BY <1>1, NextTypeOK, PTL DEF Spec

-----------------------------------------------------------------------------
(* One document per content                                                *)

\* A document appears only through Store, and none disappears or changes content.
LEMMA DocumentsStay ==
  ASSUME TypeOK, Written, NEW u \in Upload, Step(u)
  PROVE  /\ \A v \in Upload : doc[v] # "absent" => doc'[v] # "absent"
         /\ \A v \in Upload : doc[v] = "absent" /\ doc'[v] # "absent"
              => v = u /\ (database.indexed => ~DocOf(ContentOf[u]))
<1>1. CASE Store(u)
  BY <1>1 DEF Store, DocTakes, TypeOK, Extracted
<1>2. CASE StoreEmbeddings(u)
  BY <1>2 DEF StoreEmbeddings, DocTakes, TypeOK, Written, Progress
<1>3. CASE MarkDocument(u)
  BY <1>3 DEF MarkDocument, DocTakes, TypeOK, Written, Progress
<1>4. CASE UNCHANGED doc
  BY <1>4
<1>5. QED
  BY <1>1, <1>2, <1>3, <1>4
     DEF Step, Check, Create, BeginDelete, EndDelete, Winner, Tell, SkipEmbedding,
         EmbeddingFails, MarkReady, MarkSource, rows

-----------------------------------------------------------------------------
(* The invariant Kept                                                      *)

\* Each step leaves the other uploads' rows, positions and results alone.
LEMMA StepIsLocal ==
  ASSUME TypeOK, NEW u \in Upload, Step(u), NEW v \in Upload \ {u}
  PROVE  /\ source'[v] = source[v] /\ doc'[v] = doc[v]
         /\ pc'[v] = pc[v] /\ result'[v] = result[v]
<1>1. /\ Check(u) \/ Create(u) \/ BeginDelete(u) \/ EndDelete(u) \/ Winner(u)
      => source'[v] = source[v] /\ doc'[v] = doc[v] /\ pc'[v] = pc[v] /\ result'[v] = result[v]
  BY DEF Check, Create, BeginDelete, EndDelete, Winner, Goes, Ends, rows, TypeOK
<1>2. /\ Store(u) \/ Tell(u) \/ SkipEmbedding(u) \/ EmbeddingFails(u)
      => source'[v] = source[v] /\ doc'[v] = doc[v] /\ pc'[v] = pc[v] /\ result'[v] = result[v]
  BY DEF Store, Tell, SkipEmbedding, EmbeddingFails, Goes, Ends, DocTakes, SourceTakes,
         rows, TypeOK
<1>3. /\ StoreEmbeddings(u) \/ MarkReady(u) \/ MarkDocument(u) \/ MarkSource(u)
      => source'[v] = source[v] /\ doc'[v] = doc[v] /\ pc'[v] = pc[v] /\ result'[v] = result[v]
  BY DEF StoreEmbeddings, MarkReady, MarkDocument, MarkSource, Goes, Ends, DocTakes,
         SourceTakes, rows, TypeOK
<1>4. QED
  BY <1>1, <1>2, <1>3 DEF Step

\* The statements before and after the document is stored keep what they know
\* about their own upload.
LEMMA StepKeepsOwn ==
  ASSUME TypeOK, Written, NEW u \in Upload, Step(u)
  PROVE  Progress(u)' /\ ResultIsTrue(u)'
<1>0. Progress(u) /\ ResultIsTrue(u)
  BY DEF Written
<1>1. CASE Check(u)
  BY <1>0, <1>1 DEF Check, Goes, Ends, rows, TypeOK, Progress, ResultIsTrue, Stored, Has
<1>2. CASE Create(u)
  BY <1>0, <1>2 DEF Create, Goes, Ends, TypeOK, Progress, ResultIsTrue, Stored, Has
<1>3. CASE Store(u)
  <2>1. doc'[u] = doc[u] \/ doc'[u] = Extracted(u)
    BY <1>3 DEF Store, DocTakes, TypeOK
  <2>2. pc'[u] = "tell" => Has(u)' /\ doc'[u] = Extracted(u)
    BY <1>0, <1>3 DEF Store, Goes, DocTakes, TypeOK, Progress, Has, Extracted
  <2>3. QED
    BY <1>0, <1>3, <2>1, <2>2 DEF Store, Goes, DocTakes, TypeOK, Progress, ResultIsTrue, Stored
<1>4. CASE BeginDelete(u)
  BY <1>0, <1>4 DEF BeginDelete, Goes, rows, TypeOK, Progress, ResultIsTrue, Stored, Has
<1>5. CASE EndDelete(u)
  BY <1>0, <1>5 DEF EndDelete, Goes, Ends, TypeOK, Progress, ResultIsTrue, Stored, Has
<1>6. CASE Winner(u)
  BY <1>0, <1>6 DEF Winner, Ends, rows, TypeOK, Progress, ResultIsTrue, Stored, Has
<1>7. CASE Tell(u)
  BY <1>0, <1>7 DEF Tell, Goes, Ends, SourceTakes, TypeOK, Progress, ResultIsTrue, Stored, Has, Extracted
<1>8. CASE SkipEmbedding(u)
  BY <1>0, <1>8 DEF SkipEmbedding, Ends, rows, TypeOK, Progress, ResultIsTrue, Stored, Has
<1>9. CASE EmbeddingFails(u)
  BY <1>0, <1>9 DEF EmbeddingFails, Goes, rows, TypeOK, Progress, ResultIsTrue, Stored, Has
<1>10. CASE StoreEmbeddings(u)
  BY <1>0, <1>10 DEF StoreEmbeddings, Goes, Ends, DocTakes, TypeOK, Progress, ResultIsTrue, Stored, Has
<1>11. CASE MarkReady(u)
  BY <1>0, <1>11 DEF MarkReady, Ends, SourceTakes, TypeOK, Progress, ResultIsTrue, Stored, Has
<1>12. CASE MarkDocument(u)
  BY <1>0, <1>12 DEF MarkDocument, Goes, Ends, DocTakes, TypeOK, Progress, ResultIsTrue, Stored, Has
<1>13. CASE MarkSource(u)
  BY <1>0, <1>13 DEF MarkSource, Ends, SourceTakes, TypeOK, Progress, ResultIsTrue, Stored, Has
<1>14. QED
  BY <1>1, <1>2, <1>3, <1>4, <1>5, <1>6, <1>7, <1>8, <1>9, <1>10, <1>11, <1>12, <1>13
     DEF Step

\* Written is preserved: a step keeps its own upload's part and leaves the others'.
LEMMA StepWritten ==
  ASSUME TypeOK, Written, NEW u \in Upload, Step(u)
  PROVE  Written'
<1>1. ASSUME NEW v \in Upload \ {u} PROVE Progress(v)' /\ ResultIsTrue(v)'
  <2>1. Progress(v) /\ ResultIsTrue(v)
    BY DEF Written
  <2>2. /\ source'[v] = source[v] /\ doc'[v] = doc[v]
        /\ pc'[v] = pc[v] /\ result'[v] = result[v]
    BY StepIsLocal
  <2>3. QED
    BY <2>1, <2>2 DEF Progress, ResultIsTrue, Has, Extracted
<1>2. QED
  BY <1>1, StepKeepsOwn DEF Written

\* Results are given once.
LEMMA ResultsStay ==
  ASSUME TypeOK, Written, NEW u \in Upload, Step(u), NEW v \in Upload, result[v] # "none"
  PROVE  result'[v] = result[v]
<1>1. CASE v # u
  BY <1>1, StepIsLocal
<1>2. CASE v = u
  <2>1. pc[u] = "done"
    BY <1>2 DEF Written, Progress
  <2>2. QED
    BY <2>1 DEF Step, Check, Create, Store, BeginDelete, EndDelete, Winner, Tell,
                SkipEmbedding, EmbeddingFails, StoreEmbeddings, MarkReady, MarkDocument,
                MarkSource
<1>3. QED
  BY <1>1, <1>2

\* An upload is called a duplicate of a document it found, and not of its own.
LEMMA StepDuplicates ==
  ASSUME TypeOK, Written, DuplicatesHaveTwins, NEW u \in Upload, Step(u)
  PROVE  DuplicatesHaveTwins'
<1> SUFFICES ASSUME NEW v \in Upload, result'[v] = "duplicate"
             PROVE  \E w \in Twins(v) : doc'[w] # "absent"
  BY DEF DuplicatesHaveTwins, Twins
<1>1. \E w \in Twins(v) : doc[w] # "absent"
  <2>1. CASE result[v] = "duplicate"
    BY <2>1 DEF DuplicatesHaveTwins
  <2>2. CASE result[v] # "duplicate"
    <3>1. v = u /\ (Check(u) \/ Winner(u)) /\ DocOf(ContentOf[u])
      <4>1. v = u
        BY <2>2, StepIsLocal
      <4>2. Check(u) \/ Winner(u)
        BY <2>2, <4>1 DEF Step, Create, Store, BeginDelete, EndDelete, Tell, SkipEmbedding,
           EmbeddingFails, StoreEmbeddings, MarkReady, MarkDocument, MarkSource, Goes, Ends,
           Extracted, TypeOK
      <4>3. DocOf(ContentOf[u])
        BY <2>2, <4>1, <4>2 DEF Check, Winner, Goes, Ends, TypeOK
      <4>4. QED
        BY <4>1, <4>2, <4>3
    <3>2. doc[u] = "absent"
      BY <3>1 DEF Check, Winner, Written, Progress
    <3>3. QED
      BY <3>1, <3>2 DEF DocOf, Twins
  <2>3. QED
    BY <2>1, <2>2
<1>2. QED
  BY <1>1, DocumentsStay DEF Twins

\* A blob is removed only when nobody references it at the commit.
LEMMA StepBlobs ==
  ASSUME TypeOK, Written, SourcesHaveBlobs, NEW u \in Upload, Step(u)
  PROVE  SourcesHaveBlobs'
<1> SUFFICES ASSUME NEW v \in Upload, source'[v] # "absent" PROVE ContentOf[v] \in blobs'
  BY DEF SourcesHaveBlobs
<1>1. CASE Create(u)
  BY <1>1 DEF Create, SourcesHaveBlobs, TypeOK
<1>2. CASE EndDelete(u)
  <2>1. source[v] # "absent"
    BY <1>2 DEF EndDelete, TypeOK
  <2>2. ContentOf[v] \in blobs
    BY <2>1 DEF SourcesHaveBlobs
  <2>3. CASE blobs' = blobs
    BY <2>2, <2>3
  <2>4. CASE blobs' # blobs
    <3>1. /\ blobs' = blobs \ {ContentOf[u]}
          /\ source' = [source EXCEPT ![u] = "absent"]
          /\ \A w \in Twins(u) : source[w] = "absent"
      BY <1>2, <2>4 DEF EndDelete
    <3>2. v # u /\ v \notin Twins(u)
      BY <2>1, <3>1 DEF TypeOK
    <3>3. QED
      BY <2>2, <3>1, <3>2 DEF Twins
  <2>5. QED
    BY <2>3, <2>4
<1>3. CASE Tell(u) \/ MarkReady(u) \/ MarkSource(u)
  <2>1. blobs' = blobs /\ source[u] # "absent"
    BY <1>3 DEF Tell, MarkReady, MarkSource, Written, Progress, Has
  <2>2. source[v] # "absent"
    BY <2>1, StepIsLocal
  <2>3. QED
    BY <2>1, <2>2 DEF SourcesHaveBlobs
<1>4. CASE UNCHANGED <<blobs, source>>
  BY <1>4 DEF SourcesHaveBlobs
<1>5. QED
  BY <1>1, <1>2, <1>3, <1>4
     DEF Step, Check, Store, BeginDelete, Winner, SkipEmbedding, EmbeddingFails,
         StoreEmbeddings, MarkDocument, rows

\* The initial states have written nothing.
LEMMA InitKept == Init => Kept
BY DEF Init, Kept, Written, Progress, ResultIsTrue, DuplicatesHaveTwins, SourcesHaveBlobs,
       AnswersFollowResults, Stored

\* What answers follow does not change: results are given once.
LEMMA StepAnswers ==
  ASSUME TypeOK, Written, BatchesAreUploads, AnswersFollowResults, NEW u \in Upload, Step(u)
  PROVE  AnswersFollowResults'
<1>1. answer' = answer
  BY DEF Step, Check, Create, Store, BeginDelete, EndDelete, Winner, Tell, SkipEmbedding,
         EmbeddingFails, StoreEmbeddings, MarkReady, MarkDocument, MarkSource, Goes, Ends
<1>2. QED
  BY <1>1, ResultsStay DEF AnswersFollowResults, BatchesAreUploads

\* Answering a request or losing its process changes no row and no result.
LEMMA RequestKept ==
  ASSUME TypeOK, Kept, NEW r \in Request, Respond(r) \/ Crash(r)
  PROVE  Kept'
<1>1. UNCHANGED <<blobs, source, doc, result>>
  BY DEF Respond, Crash, rows
<1>2. \A u \in Upload : pc'[u] = pc[u] \/ (pc[u] # "done" /\ pc'[u] = "dead")
  BY DEF Respond, Crash, TypeOK
<1>3. Written'
  <2>1. ASSUME NEW u \in Upload PROVE Progress(u)' /\ ResultIsTrue(u)'
    <3>1. Progress(u) /\ ResultIsTrue(u)
      BY DEF Kept, Written
    <3>2. QED
      BY <1>1, <1>2, <3>1 DEF Progress, ResultIsTrue, Has, Extracted
  <2>2. QED
    BY <2>1 DEF Written
<1>4. DuplicatesHaveTwins' /\ SourcesHaveBlobs'
  BY <1>1 DEF Kept, DuplicatesHaveTwins, SourcesHaveBlobs, Twins
<1>5. AnswersFollowResults'
  <2>1. CASE Crash(r)
    BY <1>1, <2>1 DEF Crash, Kept, AnswersFollowResults, TypeOK
  <2>2. CASE Respond(r)
    <3> DEFINE results == {result[u] : u \in Files(r)}
    <3>1. /\ answer' = [answer EXCEPT ![r] = ResponseStatus(results)]
          /\ "none" \notin results \/ results \cap Failed # {}
      BY <2>2 DEF Respond
    <3>2. /\ ResponseStatus(results) = 201 => results \subseteq {"ready"}
          /\ ResponseStatus(results) = 202 =>
               results \subseteq {"ready", "embedding_failed", "VECTOR_UNAVAILABLE"}
          /\ ResponseStatus(results) = 409 => "duplicate" \in results
      BY DEF ResponseStatus, StatusCode
    <3>3. ASSUME NEW q \in Request, q # r PROVE answer'[q] = answer[q]
      BY <3>1, <3>3 DEF TypeOK
    <3>4. answer'[r] = ResponseStatus(results)
      BY <3>1 DEF TypeOK
    <3>5. /\ answer'[r] = 201 => \A u \in Files(r) : result[u] = "ready"
          /\ answer'[r] = 202 => \A u \in Files(r) :
               result[u] \in {"ready", "embedding_failed", "VECTOR_UNAVAILABLE"}
          /\ answer'[r] = 409 => \E u \in Files(r) : result[u] = "duplicate"
      BY <3>2, <3>4
    <3>6. QED
      BY <1>1, <3>3, <3>5 DEF Kept, AnswersFollowResults
  <2>3. QED
    BY <2>1, <2>2
<1>6. QED
  BY <1>3, <1>4, <1>5 DEF Kept

\* Every step of the system preserves Kept.
LEMMA NextKept == TypeOK /\ Kept /\ [Next]_vars => Kept'
<1> SUFFICES ASSUME TypeOK, Kept, [Next]_vars PROVE Kept'
  OBVIOUS
<1>1. CASE UNCHANGED vars
  BY <1>1 DEF vars, Kept, Written, Progress, ResultIsTrue, Has, Extracted,
              DuplicatesHaveTwins, SourcesHaveBlobs, AnswersFollowResults, Twins
<1>2. ASSUME NEW u \in Upload, Step(u) PROVE Kept'
  BY <1>2, StepWritten, StepDuplicates, StepBlobs, StepAnswers, BatchesType DEF Kept
<1>3. QED
  BY <1>1, <1>2, RequestKept DEF Next

\* Kept is an invariant: positions, results, blobs and answers agree.
LEMMA KeptAlways == Spec => [](TypeOK /\ Kept)
<1>1. Init => TypeOK /\ Kept
  BY InitKept, FaultsType DEF Init, TypeOK, DocStatus, Results
<1>2. TypeOK /\ Kept /\ [Next]_vars => (TypeOK /\ Kept)'
  BY NextTypeOK, NextKept
<1>3. QED
  BY <1>1, <1>2, PTL DEF Spec

\* StoredFilesAreKept: a file reported as stored has its document, its source
\* and its bytes, for good.
THEOREM StoredFilesAlwaysKept == Spec => []StoredFilesAreKept
<1>1. TypeOK /\ Kept => StoredFilesAreKept
  BY DEF Kept, Written, ResultIsTrue, SourcesHaveBlobs, StoredFilesAreKept, Has
<1>2. QED
  BY <1>1, KeptAlways, PTL

\* AnswersAreTrue: the status of a request is true of all its files.
THEOREM AnswersAlwaysTrue == Spec => []AnswersAreTrue
<1>1. TypeOK /\ Kept => AnswersAreTrue
  <2> SUFFICES ASSUME TypeOK, Kept, NEW r \in Request
               PROVE  /\ answer[r] = 201 => \A u \in Files(r) : doc[u] = "ready"
                      /\ answer[r] = 202 => \A u \in Files(r) : doc[u] \in Searched
                      /\ answer[r] = 409 =>
                           \E u \in Files(r) : \E v \in Twins(u) : doc[v] # "absent"
    BY DEF AnswersAreTrue
  <2>1. Files(r) \subseteq Upload
    BY BatchesType DEF BatchesAreUploads
  <2>2. \A u \in Upload :
          /\ result[u] = "ready" => doc[u] = "ready"
          /\ result[u] = "embedding_failed" => doc[u] = "embedding_failed"
          /\ result[u] = "VECTOR_UNAVAILABLE" => doc[u] = "fts_ready"
    BY DEF Kept, Written, ResultIsTrue
  <2>3. answer[r] = 201 => \A u \in Files(r) : doc[u] = "ready"
    BY <2>1, <2>2 DEF Kept, AnswersFollowResults
  <2>4. answer[r] = 202 => \A u \in Files(r) : doc[u] \in Searched
    BY <2>1, <2>2 DEF Kept, AnswersFollowResults, Searched
  <2>5. answer[r] = 409 => \E u \in Files(r) : \E v \in Twins(u) : doc[v] # "absent"
    BY <2>1 DEF Kept, AnswersFollowResults, DuplicatesHaveTwins
  <2>6. QED
    BY <2>3, <2>4, <2>5
<1>2. QED
  BY <1>1, KeptAlways, PTL

\* A second document of a content is never inserted past the index.
LEMMA NextOneDocument == TypeOK /\ Kept /\ OneDocumentPerContent /\ [Next]_vars
                           => OneDocumentPerContent'
<1> SUFFICES ASSUME TypeOK, Kept, OneDocumentPerContent, [Next]_vars, database'.indexed,
                    NEW v \in Upload, NEW w \in Twins(v), doc'[v] # "absent"
             PROVE  doc'[w] = "absent"
  BY DEF OneDocumentPerContent, Twins
<1>1. UNCHANGED database
  BY DEF Next, vars
<1>2. CASE UNCHANGED doc
  BY <1>1, <1>2 DEF OneDocumentPerContent
<1>3. ASSUME NEW u \in Upload, Step(u) PROVE doc'[w] = "absent"
  <2>1. /\ \A x \in Upload : doc[x] = "absent" /\ doc'[x] # "absent"
             => x = u /\ ~DocOf(ContentOf[u])
    BY <1>1, <1>3, DocumentsStay DEF Kept
  <2>2. w \in Upload /\ w # v /\ ContentOf[w] = ContentOf[v]
    BY DEF Twins
  <2>3. CASE doc[v] # "absent"
    <3>1. doc[w] = "absent"
      BY <1>1, <2>3 DEF OneDocumentPerContent
    <3>2. QED
      BY <2>1, <2>2, <2>3, <3>1 DEF DocOf
  <2>4. CASE doc[v] = "absent"
    BY <2>1, <2>2, <2>4 DEF DocOf
  <2>5. QED
    BY <2>3, <2>4
<1>4. QED
  BY <1>2, <1>3 DEF Next, Respond, Crash, rows, vars

\* OneDocumentPerContent: where the unique index exists, no race gives a
\* content a second document.
THEOREM AlwaysOneDocumentPerContent == Spec => []OneDocumentPerContent
<1>1. Init => OneDocumentPerContent
  BY DEF Init, OneDocumentPerContent
<1>2. QED
  BY <1>1, NextOneDocument, KeptAlways, PTL DEF Spec

-----------------------------------------------------------------------------
(* Races settle                                                            *)

\* As long as nothing fails, a step keeps what is known of its own upload.
LEMMA FaultlessOwn ==
  ASSUME TypeOK, Kept, Settled, NEW u \in Upload, Step(u), faults' = 0
  PROVE  faults = 0 /\ Faultless(u)'
<1>0. /\ \A o : Counted(o) => o = "ok" /\ faults = 0
      /\ faults \in Nat
  BY FaultsType DEF Counted, TypeOK
<1>f. faults = 0
  BY <1>0 DEF Step, Check, Create, Store, BeginDelete, EndDelete, Winner, Tell, SkipEmbedding,
              EmbeddingFails, StoreEmbeddings, MarkReady, MarkDocument, MarkSource
<1> SUFFICES Faultless(u)'
  BY <1>f
<1>p. /\ Faultless(u) /\ Progress(u) /\ ResultIsTrue(u)
      /\ \A v \in Upload : doc[v] # "absent" => source[v] # "absent"
  BY <1>f DEF Settled, Kept, Written, Faultless
<1>t. (\E v \in Twins(u) : doc[v] # "absent") => (\E v \in Twins(u) : doc'[v] # "absent")
  BY DocumentsStay DEF Kept, Twins
<1>d. DocOf(ContentOf[u]) /\ doc[u] = "absent" => \E v \in Twins(u) : doc[v] # "absent"
  BY DEF DocOf, Twins
<1>1. CASE Check(u)
  BY <1>0, <1>1, <1>p, <1>t DEF Check, Goes, Ends, rows, TypeOK, Faultless, Progress
<1>2. CASE Create(u)
  <2>1. ~BlobIsGoing(ContentOf[u])
    BY <1>f DEF BlobIsGoing, Settled, Faultless
  <2>2. QED
    BY <1>0, <1>2, <1>p, <1>t, <2>1 DEF Create, Goes, Ends, TypeOK, Faultless, Progress
<1>3. CASE Store(u)
  <2>1. \/ /\ doc'[u] = Extracted(u) /\ pc'[u] = "tell"
        \/ /\ doc' = doc /\ pc'[u] = "yield" /\ DocOf(ContentOf[u])
    BY <1>0, <1>3 DEF Store, Goes, DocTakes, TypeOK
  <2>2. pc[u] = "store" /\ source' = source /\ result' = result /\ doc[u] = "absent"
    BY <1>3, <1>p DEF Store, Goes, Progress
  <2>3. QED
    BY <1>p, <1>t, <1>d, <2>1, <2>2 DEF Faultless
<1>4. CASE BeginDelete(u)
  <2>1. pc[u] = "yield" /\ pc'[u] = "yielding" /\ result' = result /\ UNCHANGED rows
    BY <1>4, <1>p DEF BeginDelete, Goes, TypeOK, Faultless
  <2>2. seen'[u]
    BY <1>4, <1>p, <2>1 DEF BeginDelete, TypeOK, Faultless, Twins
  <2>3. QED
    BY <1>p, <1>t, <2>1, <2>2 DEF Faultless, rows
<1>5. CASE EndDelete(u)
  <2>1. pc[u] = "yielding" /\ seen[u]
    BY <1>5, <1>p DEF EndDelete, Faultless
  <2>2. /\ source' = [source EXCEPT ![u] = "absent"] /\ doc' = doc
        /\ Goes(u, "winner")
    BY <1>0, <1>5, <2>1 DEF EndDelete
  <2>3. /\ source'[u] = "absent" /\ pc'[u] = "winner" /\ result'[u] = result[u]
        /\ doc[u] = "absent"
    BY <1>p, <2>1, <2>2 DEF Goes, TypeOK, Progress
  <2>4. QED
    BY <1>p, <1>t, <2>1, <2>2, <2>3 DEF Faultless
<1>6. CASE Winner(u)
  <2>1. DocOf(ContentOf[u])
    BY <1>6, <1>p DEF Winner, Faultless, DocOf, Twins
  <2>2. pc[u] = "winner" /\ Ends(u, "duplicate") /\ UNCHANGED rows
    BY <1>0, <1>6, <2>1 DEF Winner
  <2>3. QED
    BY <1>p, <2>2 DEF Ends, rows, TypeOK, Faultless, Progress
<1>7. CASE Tell(u)
  BY <1>0, <1>7, <1>p DEF Tell, Goes, Ends, SourceTakes, TypeOK, Faultless, Progress, Has, Extracted
<1>8. CASE SkipEmbedding(u)
  BY <1>0, <1>8, <1>p DEF SkipEmbedding, Ends, rows, TypeOK, Faultless, Progress
<1>9. CASE EmbeddingFails(u)
  BY <1>9, <1>p DEF EmbeddingFails, Goes, rows, TypeOK, Faultless, Progress
<1>10. CASE StoreEmbeddings(u)
  BY <1>0, <1>10, <1>p DEF StoreEmbeddings, Goes, Ends, DocTakes, TypeOK, Faultless, Progress, Has
<1>11. CASE MarkReady(u)
  BY <1>0, <1>11, <1>p DEF MarkReady, Ends, SourceTakes, TypeOK, Faultless, Progress
<1>12. CASE MarkDocument(u)
  BY <1>0, <1>12, <1>p DEF MarkDocument, Goes, Ends, DocTakes, TypeOK, Faultless, Progress, Has
<1>13. CASE MarkSource(u)
  BY <1>0, <1>13, <1>p DEF MarkSource, Ends, SourceTakes, TypeOK, Faultless, Progress
<1>14. QED
  BY <1>1, <1>2, <1>3, <1>4, <1>5, <1>6, <1>7, <1>8, <1>9, <1>10, <1>11, <1>12, <1>13
     DEF Step

\* What is known of the other uploads survives the step: documents stay, and
\* nobody else writes their rows.
LEMMA FaultlessOthers ==
  ASSUME TypeOK, Kept, Settled, faults = 0, NEW u \in Upload, Step(u), NEW v \in Upload \ {u}
  PROVE  Faultless(v)'
<1>1. Faultless(v)
  BY DEF Settled
<1>2. /\ source'[v] = source[v] /\ doc'[v] = doc[v]
      /\ pc'[v] = pc[v] /\ result'[v] = result[v]
  BY StepIsLocal
<1>3. seen'[v] = seen[v]
  BY DEF Step, Check, Create, Store, BeginDelete, EndDelete, Winner, Tell, SkipEmbedding,
         EmbeddingFails, StoreEmbeddings, MarkReady, MarkDocument, MarkSource, rows, TypeOK
<1>4. (\E w \in Twins(v) : doc[w] # "absent") => (\E w \in Twins(v) : doc'[w] # "absent")
  BY DocumentsStay DEF Kept, Twins
<1>5. QED
  BY <1>1, <1>2, <1>3, <1>4 DEF Faultless

\* Every blob keeps a source as long as nothing fails: a source that is removed
\* lost a race, so the winner's remains.
LEMMA BlobsStayReferenced ==
  ASSUME TypeOK, Kept, Settled, NEW u \in Upload, Step(u), faults' = 0
  PROVE  BlobsAreReferenced'
<1>f. faults = 0 /\ BlobsAreReferenced /\ \A v \in Upload : Faultless(v)
  BY FaultlessOwn DEF Settled
<1> SUFFICES ASSUME NEW v \in Upload, ContentOf[v] \in blobs' PROVE SourceOf(ContentOf[v])'
  BY DEF BlobsAreReferenced
<1>1. CASE Create(u)
  <2>1. CASE ContentOf[v] \in blobs
    <3>1. PICK w \in Upload : ContentOf[w] = ContentOf[v] /\ source[w] # "absent"
      BY <1>f, <2>1 DEF BlobsAreReferenced, SourceOf
    <3>2. source'[w] # "absent"
      BY <1>1, <3>1 DEF Create, TypeOK
    <3>3. QED
      BY <3>1, <3>2 DEF SourceOf
  <2>2. CASE ContentOf[v] \notin blobs
    <3>1. ContentOf[u] = ContentOf[v] /\ source'[u] # "absent"
      BY <1>1, <2>2 DEF Create, TypeOK
    <3>2. QED
      BY <3>1 DEF SourceOf
  <2>3. QED
    BY <2>1, <2>2
<1>2. CASE EndDelete(u)
  <2>1. pc[u] = "yielding" /\ seen[u]
    BY <1>2, <1>f DEF EndDelete, Faultless
  <2>2. ContentOf[v] \in blobs
    BY <1>2, <2>1 DEF EndDelete
  <2>3. PICK w \in Upload : ContentOf[w] = ContentOf[v] /\ source[w] # "absent"
    BY <1>f, <2>2 DEF BlobsAreReferenced, SourceOf
  <2>4. CASE w # u
    BY <2>3, <2>4, StepIsLocal DEF SourceOf
  <2>5. CASE w = u
    <3>1. PICK x \in Twins(u) : doc[x] # "absent"
      BY <1>f, <2>1 DEF Faultless
    <3>2. x \in Upload \ {u} /\ ContentOf[x] = ContentOf[v] /\ source[x] # "absent"
      BY <1>f, <2>3, <2>5, <3>1 DEF Faultless, Twins
    <3>3. QED
      BY <3>2, StepIsLocal DEF SourceOf
  <2>6. QED
    BY <2>4, <2>5
<1>3. CASE blobs' = blobs /\ \A w \in Upload : source[w] # "absent" => source'[w] # "absent"
  BY <1>3, <1>f DEF BlobsAreReferenced, SourceOf
<1>4. CASE Tell(u) \/ MarkReady(u) \/ MarkSource(u)
  <2>1. /\ blobs' = blobs
        /\ \A w \in Upload : source[w] # "absent" => source'[w] # "absent"
    BY <1>4 DEF Tell, MarkReady, MarkSource, SourceTakes, Extracted, TypeOK
  <2>2. QED
    BY <1>3, <2>1
<1>5. QED
  BY <1>1, <1>2, <1>3, <1>4
     DEF Step, Check, Store, BeginDelete, Winner, SkipEmbedding, EmbeddingFails,
         StoreEmbeddings, MarkDocument, rows

\* Every step preserves what holds as long as nothing fails.
LEMMA NextSettled == TypeOK /\ Kept /\ Settled /\ [Next]_vars => Settled'
<1> SUFFICES ASSUME TypeOK, Kept, Settled, [Next]_vars, faults' = 0
             PROVE  BlobsAreReferenced' /\ \A u \in Upload : Faultless(u)'
  BY DEF Settled
<1>1. ASSUME UNCHANGED <<blobs, source, doc, seen, pc, result, faults>>
      PROVE  BlobsAreReferenced' /\ \A u \in Upload : Faultless(u)'
  BY <1>1 DEF Settled, BlobsAreReferenced, SourceOf, Faultless, Twins
<1>2. ASSUME NEW u \in Upload, Step(u)
      PROVE  BlobsAreReferenced' /\ \A v \in Upload : Faultless(v)'
  <2>1. faults = 0 /\ Faultless(u)' /\ BlobsAreReferenced'
    BY <1>2, FaultlessOwn, BlobsStayReferenced
  <2>2. \A v \in Upload \ {u} : Faultless(v)'
    BY <1>2, <2>1, FaultlessOthers
  <2>3. QED
    BY <2>1, <2>2
<1>3. ASSUME NEW r \in Request, Crash(r) PROVE FALSE
  BY <1>3, FaultsType DEF Crash, Counted, TypeOK
<1>4. QED
  BY <1>1, <1>2, <1>3 DEF Next, Respond, rows, vars

\* RacesSettle: as long as nothing fails, racing uploads are all served and
\* leave a document and a source that agree, or nothing.
THEOREM RacesAlwaysSettle == Spec => []RacesSettle
<1>1. Init => Settled
  BY DEF Init, Settled, BlobsAreReferenced, Faultless
<1>2. TypeOK /\ Kept /\ Settled => RacesSettle
  <2> SUFFICES ASSUME TypeOK, Kept, Settled, faults = 0, NEW u \in Upload, result[u] # "none"
               PROVE  /\ result[u] # "error"
                      /\ source[u] = doc[u]
                      /\ SourceOf(ContentOf[u]) <=> ContentOf[u] \in blobs
    BY DEF RacesSettle
  <2>1. Faultless(u) /\ BlobsAreReferenced
    BY DEF Settled
  <2>2. pc[u] = "done"
    BY DEF Kept, Written, Progress
  <2>3. SourceOf(ContentOf[u]) => ContentOf[u] \in blobs
    BY DEF Kept, SourcesHaveBlobs, SourceOf
  <2>4. QED
    BY <2>1, <2>2, <2>3 DEF Faultless, BlobsAreReferenced
<1>3. QED
  BY <1>1, <1>2, KeptAlways, NextSettled, PTL DEF Spec

=============================================================================
