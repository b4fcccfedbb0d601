------------------------------ MODULE Startup ------------------------------
(***************************************************************************)
(* persistence_core: the connection pool of the process, the one-time      *)
(* schema initialisation that every first query goes through, and the      *)
(* background build of the full-text index.                                *)
(*                                                                         *)
(* A request that needs the database calls _get_pool: it creates the pool  *)
(* if there is none, then runs _ensure_policy_schema, whose statements     *)
(* commit one by one under _schema_lock.  The process may die anywhere;    *)
(* what is in the database stays.                                          *)
(***************************************************************************)
EXTENDS Requests

CONSTANTS
    Restarts        \* bound: how often the process may die

ASSUME StartupAssumption == Restarts \in Nat

VARIABLES
    \* the database
    base,           \* the six base tables exist
    column,         \* document_chunks.embedding exists
    policy,         \* the policy tables and the columns added to the base exist
    unique,         \* documents_file_hash_key exists
    index,          \* the full-text index: "none", "building", "invalid", "valid"
    \* the process
    pools,          \* pools created; _pool is None when there are none
    ready,          \* _schema_ready
    vectors,        \* _vector_storage_available
    lock,           \* holder of _schema_lock
    task,           \* _fts_index_task and where it is
    pc,             \* where each request is in _get_pool
    deaths          \* the times the process has died

databaseVars == <<base, column, policy, unique, index>>
processVars == <<pools, ready, vectors, lock, task, deaths>>
startupVars == <<databaseVars, processVars, pc>>

Ddl == {"base", "column", "policy", "unique"}
Building == {"check", "drop", "create", "build"}

StartupTypeOK ==
    /\ {base, column, policy, unique, ready, vectors} \subseteq BOOLEAN
    /\ index \in {"none", "building", "invalid", "valid"}
    /\ pools \in Nat
    /\ lock \in Handlers \cup {Nobody}
    /\ task \in Building \cup {"none", "done"}
    /\ pc \in [Handlers -> {"out", "ask", "connect", "lock", "served", "failed"} \cup Ddl]
    /\ deaths \in 0..Restarts

\* A new database.
StartupInit ==
    /\ base = FALSE /\ column = FALSE /\ policy = FALSE /\ unique = FALSE
    /\ index = "none"
    /\ pools = 0 /\ ready = FALSE /\ vectors = FALSE
    /\ lock = Nobody /\ task = "none"
    /\ pc = [r \in Handlers |-> "out"]
    /\ deaths = 0

Goes(r, where) == pc' = [pc EXCEPT ![r] = where]

-----------------------------------------------------------------------------
\* _get_pool and the first look at _schema_ready, with no await in between.
GetPool(r) ==
    /\ pc[r] = "ask"
    /\ Goes(r, IF pools = 0 THEN "connect" ELSE IF ready THEN "served" ELSE "lock")
    /\ UNCHANGED <<databaseVars, processVars>>

\* create_pool answers.  Handlers that found no pool each create one.
Connect(r) ==
    /\ pc[r] = "connect"
    /\ \/ /\ pools' = pools + 1
          /\ Goes(r, IF ready THEN "served" ELSE "lock")
       \/ /\ Goes(r, "failed")
          /\ UNCHANGED pools
    /\ UNCHANGED <<databaseVars, ready, vectors, lock, task, deaths>>

\* Mutant: no second look under the lock.
InitialisesAgain(r) == lock' = r /\ Goes(r, "base")

\* Under the lock: whoever waited while another initialised has nothing to do.
Enters(r) ==
    IF ready THEN Goes(r, "served") /\ UNCHANGED lock
             ELSE lock' = r /\ Goes(r, "base")

TakeLock(r) ==
    /\ pc[r] = "lock" /\ lock = Nobody
    /\ Enters(r)
    /\ UNCHANGED <<databaseVars, pools, ready, vectors, task, deaths>>

\* Mutant: the lock is not given back by a failure.
KeepsTheLock(r) == Goes(r, "failed") /\ UNCHANGED <<databaseVars, vectors, lock>>

\* A PersistenceError leaves the lock and the caller.
GivesUp(r) ==
    /\ Goes(r, "failed")
    /\ lock' = Nobody
    /\ UNCHANGED <<databaseVars, vectors>>

\* _ensure_base_schema: the extension may be missing, the tables may not.
BaseTables(r) ==
    /\ pc[r] = "base"
    /\ \/ /\ base' = TRUE
          /\ \/ Goes(r, "column") /\ UNCHANGED vectors
             \/ Goes(r, "policy") /\ vectors' = FALSE
          /\ UNCHANGED <<column, policy, unique, index, lock>>
       \/ GivesUp(r)
    /\ UNCHANGED <<pools, ready, task, deaths>>

\* The embedding column, which may fail too.
EmbeddingColumn(r) ==
    /\ pc[r] = "column"
    /\ \E added \in BOOLEAN :
         /\ column' = (column \/ added)
         /\ vectors' = added
    /\ Goes(r, "policy")
    /\ UNCHANGED <<base, policy, unique, index, pools, ready, lock, task, deaths>>

\* The policy tables: one execute, so all of it or nothing.
PolicyTables(r) ==
    /\ pc[r] = "policy"
    /\ \/ /\ policy' = TRUE
          /\ Goes(r, "unique")
          /\ UNCHANGED <<base, column, unique, index, vectors, lock>>
       \/ GivesUp(r)
    /\ UNCHANGED <<pools, ready, task, deaths>>

\* documents_file_hash_key, tolerated when old duplicates prevent it; then the
\* build is started and the schema is ready.
UniqueIndex(r) ==
    /\ pc[r] = "unique"
    /\ \E made \in BOOLEAN : unique' = (unique \/ made)
    /\ task' = IF task \in Building THEN task ELSE "check"
    /\ ready' = TRUE
    /\ lock' = Nobody
    /\ Goes(r, "served")
    /\ UNCHANGED <<base, column, policy, index, pools, vectors, deaths>>

-----------------------------------------------------------------------------
\* Mutant: an index of the name is an index.
TrustsTheName ==
    /\ task = "check"
    /\ task' \in {"create", "done"}
    /\ UNCHANGED index

\* _build_fts_index, after the check: a build that was cut must be dropped first.
Check ==
    /\ task = "check"
    /\ task' \in {IF index = "invalid" THEN "drop" ELSE "create", "done"}
    /\ UNCHANGED index

Drop ==
    /\ task = "drop"
    /\ \/ index' = "none" /\ task' = "create"
       \/ task' = "done" /\ UNCHANGED index

\* IF NOT EXISTS looks at the name alone.
Create ==
    /\ task = "create"
    /\ IF index = "none" THEN index' = "building" /\ task' = "build"
                         ELSE task' = "done" /\ UNCHANGED index

\* The build ends, or is cut by its timeout.
Built ==
    /\ task = "build"
    /\ index' \in {"valid", "invalid"}
    /\ task' = "done"

BuildStep ==
    /\ Check \/ Drop \/ Create \/ Built
    /\ UNCHANGED <<base, column, policy, unique, pools, ready, vectors, lock, pc, deaths>>

\* The process dies: its globals go, and a build under way is cut, unless PostgreSQL
\* still finishes it.
ProcessDies ==
    /\ deaths < Restarts
    /\ deaths' = deaths + 1
    /\ pools' = 0 /\ ready' = FALSE /\ vectors' = FALSE /\ lock' = Nobody /\ task' = "none"
    /\ index' \in IF index = "building" THEN {"invalid", "valid"} ELSE {index}
    /\ UNCHANGED <<base, column, policy, unique>>

SchemaStep(r) ==
    \/ GetPool(r) \/ Connect(r) \/ TakeLock(r)
    \/ BaseTables(r) \/ EmbeddingColumn(r) \/ PolicyTables(r) \/ UniqueIndex(r)

-----------------------------------------------------------------------------
\* A request is served only once the whole schema stands, and the schema is
\* ready only then; the index is never being built while a statement that
\* changes document_chunks runs; and vectors are offered only where the column
\* to keep them is.
SchemaStandsFirst ==
    /\ ready \/ (\E r \in Handlers : pc[r] = "served") => base /\ policy
    /\ task \in Building => \A r \in Handlers : pc[r] \notin Ddl
    /\ ready /\ vectors => column

\* What requests were told stands: while the process lives the answer of
\* vector_storage_available changes no more, and an index that works is not
\* dropped by it or by any later process; and the index that a build finds there and
\* leaves as it is works ("would silently skip forever": what an earlier build left
\* half made is never taken for one).
AnswersStand ==
    /\ ready /\ ready' => vectors' = vectors
    /\ index = "valid" => index' = "valid"
    /\ task = "create" /\ task' = "done" => index = "valid"

ServedAnswersStand == [][AnswersStand]_startupVars
=============================================================================
