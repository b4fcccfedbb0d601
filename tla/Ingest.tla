------------------------------- MODULE Ingest -------------------------------
(***************************************************************************)
(* Uploading private files: POST /files/upload (server.py) ingests the     *)
(* files of a request one after the other, and ingest_document             *)
(* (my_files.py) writes each one's original (original_sources,             *)
(* original_source_blobs) and its searchable document (documents) in       *)
(* separate transactions, undoing the first when the second fails.         *)
(*                                                                         *)
(* Requests run concurrently, in one process or in several.  A transaction *)
(* is one action, except delete_original_source, whose view of the other   *)
(* sources may be stale when it commits: it is two.  The embedding         *)
(* provider may fail at any time; statements fail, lose their              *)
(* acknowledgement, and processes die, within MaxFaults.                   *)
(*                                                                         *)
(* A file is its content: names and types are screened before              *)
(* ingest_document and chunk texts are not modelled.  A document's chunks  *)
(* and embeddings are written with its status and stand for it.            *)
(***************************************************************************)
EXTENDS Integers, Sequences

CONSTANTS
  Upload,     \* one file of one request; draws a fresh document_id and source_id
  Request,    \* POST /files/upload requests
  Batch,      \* the files of each request, in order
  Content,    \* file contents up to sha256
  ContentOf,  \* the content of each upload
  Kind,       \* what extraction makes of each content
  MaxFaults

\* "void" is a text file of no bytes
Kinds == {"searchable", "empty", "invalid", "void"}

ASSUME ContentType == /\ ContentOf \in [Upload -> Content]
                      /\ Kind \in [Content -> Kinds]
ASSUME BatchType == Batch \in [Request -> Seq(Upload)]
ASSUME FaultsType == MaxFaults \in Nat

VARIABLES
  database, \* which optional parts its schema has
  blobs,    \* contents with a row in original_source_blobs
  source,   \* upload -> original_sources.extraction_status
  doc,      \* upload -> documents.status
  seen,     \* upload -> did its delete see another source of the content?
  pc,       \* upload -> the next statement of ingest_document
  result,   \* upload -> the status ingest_document returned, or raised
  answer,   \* request -> its HTTP status
  faults

rows == <<blobs, source, doc>>
vars == <<database, blobs, source, doc, seen, pc, result, answer, faults>>

DocStatus == {"absent", "empty", "fts_ready", "ready", "embedding_failed"}

\* What search_fts_document_chunks searches
Searched == {"fts_ready", "ready", "embedding_failed"}

Stored == {"empty", "ready", "embedding_failed", "VECTOR_UNAVAILABLE"}
Failed == {"error", "raised"}
Results == {"none", "duplicate", "invalid"} \cup Stored \cup Failed

Twins(u) == {v \in Upload \ {u} : ContentOf[v] = ContentOf[u]}
SourceOf(c) == \E v \in Upload : ContentOf[v] = c /\ source[v] # "absent"
DocOf(c) == \E v \in Upload : ContentOf[v] = c /\ doc[v] # "absent"

\* How a transaction ends for its caller; "lost" commits and reports an error
Outcome == {"ok", "lost", "err"}
Counted(o) ==
  /\ o # "ok" => faults < MaxFaults
  /\ faults' = IF o = "ok" THEN faults ELSE faults + 1

Goes(u, next) ==
  /\ pc' = [pc EXCEPT ![u] = next]
  /\ UNCHANGED <<result, answer>>

Ends(u, res) ==
  /\ pc' = [pc EXCEPT ![u] = "done"]
  /\ result' = [result EXCEPT ![u] = res]
  /\ UNCHANGED answer

\* A row takes a status, unless its statement failed
DocTakes(o, u, s) == doc' = IF o = "err" THEN doc ELSE [doc EXCEPT ![u] = s]
SourceTakes(o, u, s) == source' = IF o = "err" THEN source ELSE [source EXCEPT ![u] = s]

-----------------------------------------------------------------------------
(* ingest_document                                                         *)

Files(r) == {Batch[r][i] : i \in DOMAIN Batch[r]}

Earlier(u) == {v \in Upload : \E r \in Request : \E i, j \in DOMAIN Batch[r] :
                  j < i /\ Batch[r][j] = v /\ Batch[r][i] = u}

\* The files before it in its request were ingested without an exception
Turn(u) == \A v \in Earlier(u) : result[v] \notin {"none"} \cup Failed

\* validate_file_content, then find_document_by_hash
Check(u) ==
  /\ pc[u] = "idle"
  /\ Turn(u)
  /\ IF Kind[ContentOf[u]] = "invalid"
       THEN Ends(u, "invalid") /\ UNCHANGED faults
       ELSE \E o \in {"ok", "err"} :
              /\ Counted(o)
              /\ IF o = "err" THEN Ends(u, "error")
                 ELSE IF DocOf(ContentOf[u]) THEN Ends(u, "duplicate")
                 ELSE Goes(u, "create")
  /\ UNCHANGED <<rows, seen>>

\* A transaction that removes the blob of c is about to commit
BlobIsGoing(c) ==
  \E v \in Upload : ContentOf[v] = c /\ pc[v] \in {"undoing", "yielding"} /\ ~seen[v]

\* create_original_source: the blob unless it is there, and the source, which
\* references it.  While the blob is being removed the reference may fail.
Create(u) ==
  /\ pc[u] = "create"
  /\ LET c == ContentOf[u]
     IN IF Kind[c] = "void"
          THEN Ends(u, "raised") /\ UNCHANGED <<blobs, source, faults>>
          ELSE \E o \in Outcome :
                 /\ \/ Counted(o)
                    \/ o = "err" /\ BlobIsGoing(c) /\ UNCHANGED faults
                 /\ IF o = "err" THEN UNCHANGED <<blobs, source>>
                    ELSE /\ blobs' = blobs \cup {c}
                         /\ source' = [source EXCEPT ![u] = "pending"]
                 /\ IF o = "ok" THEN Goes(u, "store") ELSE Ends(u, "error")
  /\ UNCHANGED <<doc, seen>>

Extracted(u) == IF Kind[ContentOf[u]] = "searchable" THEN "fts_ready" ELSE "empty"

\* Mutant: no ON CONFLICT although the index exists
UncheckedStore(u) ==
  /\ pc[u] = "store"
  /\ \E o \in Outcome :
       /\ Counted(o)
       /\ DocTakes(o, u, Extracted(u))
       /\ Goes(u, IF o = "ok" THEN "tell" ELSE "undo")
  /\ UNCHANGED <<blobs, source, seen>>

\* store_document: with the unique index a second row for the hash is not
\* inserted, without it the earlier check is the only guard
Store(u) ==
  /\ pc[u] = "store"
  /\ LET conflict == database.indexed /\ DocOf(ContentOf[u])
     IN \E o \in Outcome :
          /\ Counted(o)
          /\ IF conflict THEN UNCHANGED doc ELSE DocTakes(o, u, Extracted(u))
          /\ Goes(u, IF o # "ok" THEN "undo" ELSE IF conflict THEN "yield" ELSE "tell")
  /\ UNCHANGED <<blobs, source, seen>>

\* Mutant: the blob is removed without looking for other sources
BlindBeginDelete(u) ==
  /\ pc[u] \in {"undo", "yield"}
  /\ seen' = [seen EXCEPT ![u] = FALSE]
  /\ Goes(u, IF pc[u] = "undo" THEN "undoing" ELSE "yielding")
  /\ UNCHANGED <<rows, faults>>

\* The statements of delete_original_source
BeginDelete(u) ==
  /\ pc[u] \in {"undo", "yield"}
  /\ seen' = [seen EXCEPT ![u] = \E v \in Twins(u) : source[v] # "absent"]
  /\ Goes(u, IF pc[u] = "undo" THEN "undoing" ELSE "yielding")
  /\ UNCHANGED <<rows, faults>>

\* Its commit, refused when a source has come to reference the blob it removes.
\* A failed removal fails the upload.
EndDelete(u) ==
  /\ pc[u] \in {"undoing", "yielding"}
  /\ LET refused == ~seen[u] /\ \E v \in Twins(u) : source[v] # "absent"
     IN \E o \in Outcome :
          /\ IF refused THEN o = "err" /\ UNCHANGED faults ELSE Counted(o)
          /\ IF o = "err" THEN UNCHANGED <<blobs, source>>
             ELSE /\ source' = [source EXCEPT ![u] = "absent"]
                  /\ blobs' = IF seen[u] THEN blobs ELSE blobs \ {ContentOf[u]}
          /\ IF o = "ok" /\ pc[u] = "yielding" THEN Goes(u, "winner")
             ELSE Ends(u, "error")
  /\ seen' = [seen EXCEPT ![u] = FALSE]
  /\ UNCHANGED doc

\* find_document_by_hash, to report the document that won
Winner(u) ==
  /\ pc[u] = "winner"
  /\ \E o \in {"ok", "err"} :
       /\ Counted(o)
       /\ Ends(u, IF o = "ok" /\ DocOf(ContentOf[u]) THEN "duplicate" ELSE "error")
  /\ UNCHANGED <<rows, seen>>

\* Mutant: a failed status update compensates by removing the original
UndoingTell(u) ==
  /\ pc[u] = "tell"
  /\ \E o \in Outcome :
       /\ Counted(o)
       /\ source' = [source EXCEPT ![u] = IF o = "err" THEN "absent" ELSE Extracted(u)]
  /\ IF Extracted(u) = "empty" THEN Ends(u, "empty") ELSE Goes(u, "embed")
  /\ UNCHANGED <<blobs, doc, seen>>

\* _set_source_status_after_commit: a failure is logged and forgotten
Tell(u) ==
  /\ pc[u] = "tell"
  /\ \E o \in Outcome :
       /\ Counted(o)
       /\ SourceTakes(o, u, Extracted(u))
  /\ IF Extracted(u) = "empty" THEN Ends(u, "empty") ELSE Goes(u, "embed")
  /\ UNCHANGED <<blobs, doc, seen>>

\* Without pgvector the document stays as it is
SkipEmbedding(u) ==
  /\ pc[u] = "embed"
  /\ ~database.vector
  /\ \E o \in {"ok", "err"} :
       /\ Counted(o)
       /\ Ends(u, IF o = "ok" THEN "VECTOR_UNAVAILABLE" ELSE "error")
  /\ UNCHANGED <<rows, seen>>

\* The provider cannot be loaded, or its vectors are not usable
EmbeddingFails(u) ==
  /\ pc[u] = "embed"
  /\ database.vector
  /\ Goes(u, "mark_doc")
  /\ UNCHANGED <<rows, seen, faults>>

\* store_document_embeddings
StoreEmbeddings(u) ==
  /\ pc[u] = "embed"
  /\ database.vector
  /\ \E o \in Outcome :
       /\ Counted(o)
       /\ DocTakes(o, u, "ready")
       /\ IF o = "ok" THEN Goes(u, "mark_ready") ELSE Ends(u, "error")
  /\ UNCHANGED <<blobs, source, seen>>

MarkReady(u) ==
  /\ pc[u] = "mark_ready"
  /\ \E o \in Outcome :
       /\ Counted(o)
       /\ SourceTakes(o, u, "ready")
       /\ Ends(u, IF o = "ok" THEN "ready" ELSE "error")
  /\ UNCHANGED <<blobs, doc, seen>>

\* After an embedding failure the document is marked, then its source
MarkDocument(u) ==
  /\ pc[u] = "mark_doc"
  /\ \E o \in Outcome :
       /\ Counted(o)
       /\ DocTakes(o, u, "embedding_failed")
       /\ IF o = "ok" THEN Goes(u, "mark_source") ELSE Ends(u, "error")
  /\ UNCHANGED <<blobs, source, seen>>

MarkSource(u) ==
  /\ pc[u] = "mark_source"
  /\ \E o \in Outcome :
       /\ Counted(o)
       /\ SourceTakes(o, u, "embedding_failed")
       /\ Ends(u, IF o = "ok" THEN "embedding_failed" ELSE "error")
  /\ UNCHANGED <<blobs, doc, seen>>

Step(u) ==
  \/ Check(u) \/ Create(u) \/ Store(u) \/ BeginDelete(u) \/ EndDelete(u) \/ Winner(u)
  \/ Tell(u) \/ SkipEmbedding(u) \/ EmbeddingFails(u) \/ StoreEmbeddings(u)
  \/ MarkReady(u) \/ MarkDocument(u) \/ MarkSource(u)

-----------------------------------------------------------------------------
(* files_upload                                                            *)

\* Mutant: what a file was not stored as is not looked at
LenientStatusCode(results) == IF results \cap {"embedding_failed", "VECTOR_UNAVAILABLE"} # {}
                              THEN 202 ELSE 201

\* _upload_response_status_code
StatusCode(results) ==
  IF ~ results \subseteq {"ready", "embedding_failed", "VECTOR_UNAVAILABLE"} THEN 422
  ELSE IF results \subseteq {"ready"} THEN 201
  ELSE 202

\* An exception, then a refused file, then a duplicate decides before the rest
ResponseStatus(results) ==
  IF "raised" \in results THEN 500
  ELSE IF "error" \in results THEN 503
  ELSE IF "invalid" \in results THEN 415
  ELSE IF "duplicate" \in results THEN 409
  ELSE StatusCode(results)

\* The request is answered when its files are done or one raised
Respond(r) ==
  LET results == {result[u] : u \in Files(r)}
  IN /\ answer[r] = 0
     /\ "none" \notin results \/ results \cap Failed # {}
     /\ answer' = [answer EXCEPT ![r] = ResponseStatus(results)]
     /\ UNCHANGED <<rows, seen, pc, result, faults>>

\* The process serving a request dies, or the request is cancelled; what it
\* had not committed is rolled back
Crash(r) ==
  /\ answer[r] = 0
  /\ Counted("err")
  /\ pc' = [u \in Upload |-> IF u \in Files(r) /\ pc[u] # "done" THEN "dead" ELSE pc[u]]
  /\ seen' = [u \in Upload |-> seen[u] /\ u \notin Files(r)]
  /\ answer' = [answer EXCEPT ![r] = -1]
  /\ UNCHANGED <<rows, result>>

\* Either may be missing, on a database older than them
Init ==
  /\ database \in [indexed : BOOLEAN, vector : BOOLEAN]
  /\ blobs = {}
  /\ source = [u \in Upload |-> "absent"]
  /\ doc = [u \in Upload |-> "absent"]
  /\ seen = [u \in Upload |-> FALSE]
  /\ pc = [u \in Upload |-> "idle"]
  /\ result = [u \in Upload |-> "none"]
  /\ answer = [r \in Request |-> 0]
  /\ faults = 0

Next ==
  /\ \/ \E u \in Upload : Step(u)
     \/ \E r \in Request : Respond(r) \/ Crash(r)
  /\ UNCHANGED database

Spec == Init /\ [][Next]_vars

-----------------------------------------------------------------------------
(* Properties                                                              *)

(***************************************************************************)
(* Types of the variables.                                                 *)
(***************************************************************************)
TypeOK ==
  /\ database \in [indexed : BOOLEAN, vector : BOOLEAN]
  /\ blobs \subseteq Content
  /\ source \in [Upload -> DocStatus \cup {"pending"}]
  /\ doc \in [Upload -> DocStatus]
  /\ seen \in [Upload -> BOOLEAN]
  /\ pc \in [Upload -> {"idle", "create", "store", "undo", "undoing", "yield", "yielding",
                        "winner", "tell", "embed", "mark_ready", "mark_doc", "mark_source",
                        "done", "dead"}]
  /\ result \in [Upload -> Results]
  /\ answer \in [Request -> {-1, 0, 201, 202, 409, 415, 422, 500, 503}]
  /\ faults \in 0..MaxFaults

(***************************************************************************)
(* Whatever failed on the way, a file reported as stored has its document, *)
(* its source and its bytes, and they are there to stay: the compensation  *)
(* of one upload never takes away what another has been told is kept.      *)
(***************************************************************************)
StoredFilesAreKept == \A u \in Upload : result[u] \in Stored =>
  /\ doc[u] # "absent"
  /\ source[u] # "absent"
  /\ ContentOf[u] \in blobs

(***************************************************************************)
(* "a duplicate upload racing past the application-level check cannot      *)
(* insert twice" (persistence_core.py:394): where the unique index exists, *)
(* a content has one document, however many uploads of it race.            *)
(***************************************************************************)
OneDocumentPerContent == database.indexed =>
  \A u \in Upload : doc[u] # "absent" => \A v \in Twins(u) : doc[v] = "absent"

(***************************************************************************)
(* Racing uploads of the same content are enough of a fault by themselves. *)
(* As long as nothing else fails, no upload is refused, and one that has   *)
(* ended leaves either nothing or a document and a source that agree: the  *)
(* loser of a race removes its source and not the winner's bytes.          *)
(***************************************************************************)
RacesSettle == faults = 0 => \A u \in Upload : result[u] # "none" =>
  /\ result[u] # "error"
  /\ source[u] = doc[u]
  /\ SourceOf(ContentOf[u]) <=> ContentOf[u] \in blobs

(***************************************************************************)
(* The status of a request tells the truth about all its files: 201, each  *)
(* is stored and searchable by its embeddings; 202, each is at least       *)
(* searchable by its text; 409, one of them has a document that another    *)
(* upload stored.                                                          *)
(***************************************************************************)
AnswersAreTrue == \A r \in Request :
  /\ answer[r] = 201 => \A u \in Files(r) : doc[u] = "ready"
  /\ answer[r] = 202 => \A u \in Files(r) : doc[u] \in Searched
  /\ answer[r] = 409 => \E u \in Files(r) : \E v \in Twins(u) : doc[v] # "absent"

(***************************************************************************)
(* "Only called once the document row referencing this source is           *)
(* committed, so the original must not be deleted from here on"            *)
(* (my_files.py:325).  A store_document that committed without its         *)
(* acknowledgement is taken for a failure, and the original is deleted.    *)
(***************************************************************************)
DocumentsKeepTheirOriginal == \A u \in Upload : doc[u] # "absent" => source[u] # "absent"

-----------------------------------------------------------------------------
(* The inductive invariant                                                 *)

Has(u) == doc[u] # "absent" /\ source[u] # "absent"

\* Where ingest_document is says what it has written
Progress(u) ==
  /\ pc[u] \in {"idle", "create", "store", "yield", "yielding", "winner"} => doc[u] = "absent"
  /\ pc[u] = "store" => source[u] # "absent"
  /\ pc[u] \in {"tell", "embed", "mark_doc", "mark_ready", "mark_source"} => Has(u)
  /\ pc[u] = "tell" => doc[u] = Extracted(u)
  /\ pc[u] \in {"embed", "mark_doc"} => doc[u] = "fts_ready"
  /\ pc[u] = "mark_ready" => doc[u] = "ready"
  /\ pc[u] = "mark_source" => doc[u] = "embedding_failed"
  /\ result[u] # "none" => pc[u] = "done"

\* What ingest_document returned is what the document's row says
ResultIsTrue(u) ==
  /\ result[u] \in Stored => Has(u)
  /\ result[u] \in {"empty", "ready", "embedding_failed"} => doc[u] = result[u]
  /\ result[u] = "VECTOR_UNAVAILABLE" => doc[u] = "fts_ready"

Written == \A u \in Upload : Progress(u) /\ ResultIsTrue(u)

DuplicatesHaveTwins == \A u \in Upload :
  result[u] = "duplicate" => \E v \in Twins(u) : doc[v] # "absent"

\* The foreign key
SourcesHaveBlobs == \A u \in Upload : source[u] # "absent" => ContentOf[u] \in blobs

\* A request was answered by the results of all its files
AnswersFollowResults == \A r \in Request :
  /\ answer[r] = 201 => \A u \in Files(r) : result[u] = "ready"
  /\ answer[r] = 202 => \A u \in Files(r) :
       result[u] \in {"ready", "embedding_failed", "VECTOR_UNAVAILABLE"}
  /\ answer[r] = 409 => \E u \in Files(r) : result[u] = "duplicate"

Kept == Written /\ DuplicatesHaveTwins /\ SourcesHaveBlobs /\ AnswersFollowResults

\* What an upload has written when nothing failed
Faultless(u) ==
  /\ pc[u] \notin {"undo", "undoing", "dead"}
  /\ result[u] # "error"
  /\ pc[u] \in {"idle", "create", "winner"} => source[u] = "absent"
  /\ pc[u] \in {"store", "yield", "yielding", "tell"} => source[u] = "pending"
  /\ pc[u] = "embed" => source[u] = "fts_ready"
  /\ pc[u] = "done" => result[u] # "none" /\ source[u] = doc[u]
  /\ doc[u] # "absent" => source[u] # "absent"
  /\ pc[u] \in {"yield", "yielding", "winner"} => \E v \in Twins(u) : doc[v] # "absent"
  /\ pc[u] = "yielding" => seen[u]

BlobsAreReferenced == \A u \in Upload : ContentOf[u] \in blobs => SourceOf(ContentOf[u])

Settled == faults = 0 => BlobsAreReferenced /\ \A u \in Upload : Faultless(u)

=============================================================================
