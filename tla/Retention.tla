----------------------------- MODULE Retention -----------------------------
(***************************************************************************)
(* cleanup_retention against the runs that are being written while it      *)
(* works.  The tables have no foreign keys: a run, its session and the     *)
(* rows that bear its id are kept together by nothing but the order in     *)
(* which they are written and deleted.                                     *)
(*                                                                         *)
(* A cleanup is one transaction of several statements.  Each statement     *)
(* sees what is committed when it starts (READ COMMITTED), what it deletes *)
(* goes when the transaction commits, and rows it locked wait until then.  *)
(***************************************************************************)
EXTENDS Requests

CONSTANTS
    Sessions,       \* conversations
    TestSessions,   \* those the fault injection tests or probes have left
    Casts           \* what the requests may be: functions from Handlers

ASSUME RetentionAssumption == TestSessions \subseteq Sessions

VARIABLES
    cast,           \* what each request is
    scope,          \* agent_sessions: "none", "test" or "chat"
    run,            \* agent_runs: status and recovery_status
    rows,           \* the other rows of each run, by kind
    stage,          \* where the handler of each run is
    txn,            \* the transaction of each cleanup
    swept           \* history: runs at rest that a cleanup has deleted

retentionVars == <<cast, scope, run, rows, stage, txn, swept>>

\* A cleanup that is to remove test data as well, one that is not, and a chat.
Chats == {r \in Handlers : cast[r].kind = "chat"}
Cleanups == Handlers \ Chats
SessionOf(r) == cast[r].session

\* Checkpoints by age: of less than 30 days, of less than 90 days, older.
Checkpoints == {"fresh", "month", "quarter"}
Lasting == {"message", "event", "action"}

NoTxn == [step |-> "none", ids |-> {}, gone |-> {}, sessions |-> {}, resting |-> {}]

Steps == {"none", "select", "message", "checkpoint", "event", "action", "run", "sessions", "commit"}

Transactions == [step : Steps, ids : SUBSET Handlers,
                 gone : SUBSET (Handlers \X (Checkpoints \cup Lasting \cup {"run"})),
                 sessions : SUBSET Sessions, resting : SUBSET Handlers]

RetentionTypeOK ==
    /\ cast \in Casts
    /\ scope \in [Sessions -> {"none", "test", "chat"}]
    /\ run \in [Handlers -> {"none", "running", "orphaned", "succeeded", "failed"}]
    /\ rows \in [Handlers -> SUBSET (Checkpoints \cup Lasting)]
    /\ stage \in [Handlers -> {"none", "session", "running", "saved", "resumed", "finished",
                               "closed", "lost"}]
    /\ txn \in [Handlers -> Transactions]
    /\ swept \subseteq Handlers

RetentionInit ==
    /\ cast \in Casts
    /\ scope = [s \in Sessions |-> IF s \in TestSessions THEN "test" ELSE "none"]
    /\ run = [r \in Handlers |-> "none"]
    /\ rows = [r \in Handlers |-> {}]
    /\ stage = [r \in Handlers |-> "none"]
    /\ txn = [r \in Handlers |-> NoTxn]
    /\ swept = {}

-----------------------------------------------------------------------------
\* Mutant: without FOR UPDATE nobody waits for the runs a cleanup has chosen.
NeverLocked(r) == r \notin Handlers

\* Rows that a transaction holds until it ends.
RunLocked(r) == \E k \in Cleanups : r \in txn[k].ids

SessionHeld(s) == \E k \in Cleanups : s \in txn[k].sessions
Deleting(r, kind) == \E k \in Cleanups : <<r, kind>> \in txn[k].gone

\* A new row: it is not the row of its kind that a cleanup is deleting.
Inserts(r, kind) ==
    /\ rows' = [rows EXCEPT ![r] = @ \cup {kind}]
    /\ txn' = [k \in Handlers |-> [txn[k] EXCEPT !.gone = @ \ {<<r, kind>>}]]

\* ensure_session: a session that exists keeps its scope.
EnsureSession(r) ==
    /\ stage[r] = "none" /\ ~SessionHeld(SessionOf(r))
    /\ stage' = [stage EXCEPT ![r] = "session"]
    /\ scope' = [scope EXCEPT ![SessionOf(r)] = IF @ = "none" THEN "chat" ELSE @]
    /\ UNCHANGED <<cast, run, rows, txn, swept>>

\* create_run: an INSERT that looks at no session.
CreateRun(r) ==
    /\ stage[r] = "session"
    /\ stage' = [stage EXCEPT ![r] = "running"]
    /\ run' = [run EXCEPT ![r] = "running"]
    /\ UNCHANGED <<cast, scope, rows, txn, swept>>

\* record_run_checkpoint updates the run's row, so it waits for whoever locked it;
\* the row need not be there any more.
Checkpoint(r) ==
    /\ stage[r] \in {"running", "resumed"} /\ "fresh" \notin rows[r] /\ ~RunLocked(r)
    /\ Inserts(r, "fresh")
    /\ UNCHANGED <<cast, scope, run, stage, swept>>

\* record_tool_event and create_pending_action are INSERTs that wait for nobody.
Insert(r) ==
    /\ stage[r] = "running"
    /\ \E kind \in {"event", "action"} : kind \notin rows[r] /\ Inserts(r, kind)
    /\ UNCHANGED <<cast, scope, run, stage, swept>>

\* append_new_messages locks the session's row, if it has one.
AppendMessages(r) ==
    /\ stage[r] = "running" /\ ~SessionHeld(SessionOf(r))
    /\ Inserts(r, "message")
    /\ stage' = [stage EXCEPT ![r] = "saved"]
    /\ UNCHANGED <<cast, scope, run, swept>>

\* finish_run, an UPDATE of whatever row there is; "failed" may not get through.
FinishRun(r) ==
    /\ stage[r] \in {"running", "saved"} /\ ~RunLocked(r)
    /\ stage' = [stage EXCEPT ![r] = "finished"]
    /\ \E end \in {"failed", "none"} \cup IF stage[r] = "saved" THEN {"succeeded"} ELSE {} :
         run' = [run EXCEPT ![r] = IF @ = "none" \/ end = "none" THEN @ ELSE end]
    /\ UNCHANGED <<cast, scope, rows, txn, swept>>

\* The last checkpoint, whose failure is only logged.
Close(r) ==
    /\ stage[r] = "finished" /\ ~RunLocked(r)
    /\ stage' = [stage EXCEPT ![r] = "closed"]
    /\ Inserts(r, "fresh") \/ UNCHANGED <<rows, txn>>
    /\ UNCHANGED <<cast, scope, run, swept>>

ChatStep(r) ==
    /\ r \in Chats
    /\ EnsureSession(r) \/ CreateRun(r) \/ Checkpoint(r) \/ Insert(r)
         \/ AppendMessages(r) \/ FinishRun(r) \/ Close(r)

-----------------------------------------------------------------------------
\* The lease of a run nobody works on has run out.
Orphan(r) ==
    /\ stage[r] = "lost" /\ run[r] = "running" /\ ~RunLocked(r)
    /\ run' = [run EXCEPT ![r] = "orphaned"]
    /\ UNCHANGED <<cast, scope, rows, stage, txn, swept>>

\* claim_orphaned_run of a run whose messages are there.
Resume(r) ==
    /\ stage[r] = "lost" /\ run[r] = "orphaned" /\ "message" \in rows[r] /\ ~RunLocked(r)
    /\ run' = [run EXCEPT ![r] = "running"]
    /\ stage' = [stage EXCEPT ![r] = "resumed"]
    /\ UNCHANGED <<cast, scope, rows, txn, swept>>

\* Its tail: it is concluded, or released when something fails.
Conclude(r) ==
    /\ stage[r] = "resumed" /\ ~RunLocked(r)
    /\ \E end \in {"succeeded", "orphaned"} :
         /\ run' = [run EXCEPT ![r] = IF @ = "none" THEN @ ELSE end]
         /\ stage' = [stage EXCEPT ![r] = IF end = "succeeded" THEN "finished" ELSE "lost"]
    /\ UNCHANGED <<cast, scope, rows, txn, swept>>

Recovery(r) ==
    \/ Orphan(r) \/ Resume(r) \/ Conclude(r)
    \/ stage[r] \in {"resumed", "finished"} /\ (Checkpoint(r) \/ Close(r))

\* The checkpoints of a run at rest grow old.
Aged(kind) == CASE kind = "fresh" -> "month" [] kind \in {"month", "quarter"} -> "quarter"
                 [] kind \in Lasting -> kind

GrowOld(r) ==
    /\ stage[r] \in {"closed", "lost"} /\ rows[r] \cap {"fresh", "month"} # {}
    /\ \A kind \in Checkpoints : ~Deleting(r, kind)
    /\ rows' = [rows EXCEPT ![r] = {Aged(kind) : kind \in @}]
    /\ UNCHANGED <<cast, scope, run, stage, txn, swept>>

World(r) == r \in Chats /\ (Recovery(r) \/ GrowOld(r))

-----------------------------------------------------------------------------
\* The checkpoints past the age of their run's outcome.
OldEnough ==
    {p \in Chats \X {"month", "quarter"} :
        /\ p[2] \in rows[p[1]]
        /\ \/ run[p[1]] = "succeeded"
           \/ run[p[1]] \in {"failed", "orphaned"} /\ p[2] = "quarter"}

Sets(k, fields) == txn' = [txn EXCEPT ![k] = fields]

\* The statements in order; one that needs a row another holds waits.
DeleteOld(k) ==
    /\ txn[k].step = "none"
    /\ \A p \in OldEnough : ~Deleting(p[1], p[2])
    /\ Sets(k, [NoTxn EXCEPT !.gone = OldEnough,
                             !.step = IF cast[k].kind = "TEST_DATA_ONLY" THEN "select" ELSE "commit"])

\* Mutant: the runs are chosen by their sessions' age alone, whatever the scope.
AnyRuns == {r \in Chats : run[r] # "none" /\ scope[SessionOf(r)] # "none"}

TestRuns == {r \in Chats : run[r] # "none" /\ scope[SessionOf(r)] = "test"}

\* SELECT ... FOR UPDATE OF r.
SelectRuns(k) ==
    /\ txn[k].step = "select"
    /\ \A r \in TestRuns : ~RunLocked(r)
    /\ Sets(k, [txn[k] EXCEPT !.step = IF TestRuns = {} THEN "commit" ELSE "message",
                              !.ids = TestRuns,
                              !.resting = {r \in TestRuns : stage[r] \in {"closed", "lost"}}])

\* The tables that bear the runs' ids, in the order of the statements.
Kinds(table) == IF table = "checkpoint" THEN Checkpoints ELSE {table}
NextTable == [message |-> "checkpoint", checkpoint |-> "event", event |-> "action", action |-> "run"]

RowsOf(k) == {p \in txn[k].ids \X Kinds(txn[k].step) : p[2] \in rows[p[1]]}

DeleteRows(k) ==
    /\ txn[k].step \in DOMAIN NextTable
    /\ \A l \in Cleanups \ {k} : RowsOf(k) \cap txn[l].gone = {}
    /\ Sets(k, [txn[k] EXCEPT !.step = NextTable[@], !.gone = @ \cup RowsOf(k)])

DeleteRuns(k) ==
    /\ txn[k].step = "run"
    /\ Sets(k, [txn[k] EXCEPT !.step = "sessions", !.gone = @ \cup (txn[k].ids \X {"run"})])

\* The test sessions that have no run left.
DeleteSessions(k) ==
    /\ txn[k].step = "sessions"
    /\ LET emptied == {s \in Sessions :
                         /\ scope[s] = "test"
                         /\ \A r \in Chats : run[r] # "none" /\ SessionOf(r) = s
                                               => <<r, "run">> \in txn[k].gone}
       IN  /\ \A s \in emptied : ~SessionHeld(s)
           /\ Sets(k, [txn[k] EXCEPT !.step = "commit", !.sessions = emptied])

\* The audit event, and the commit.
Commit(k) ==
    /\ txn[k].step = "commit"
    /\ rows' = [r \in Handlers |-> {kind \in rows[r] : <<r, kind>> \notin txn[k].gone}]
    /\ run' = [r \in Handlers |-> IF <<r, "run">> \in txn[k].gone THEN "none" ELSE run[r]]
    /\ scope' = [s \in Sessions |-> IF s \in txn[k].sessions THEN "none" ELSE scope[s]]
    /\ swept' = swept \cup txn[k].resting
    /\ Sets(k, NoTxn)
    /\ UNCHANGED <<cast, stage>>

Statement(k) ==
    /\ k \in Cleanups
    /\ DeleteOld(k) \/ SelectRuns(k) \/ DeleteRows(k) \/ DeleteRuns(k) \/ DeleteSessions(k)
    /\ UNCHANGED <<cast, scope, run, rows, stage, swept>>

\* A statement fails, for one because two cleanups wait for each other, which the
\* database does not let last: the transaction rolls back.
RollBack(k) ==
    /\ k \in Cleanups /\ txn[k].step # "none"
    /\ Sets(k, NoTxn)
    /\ UNCHANGED <<cast, scope, run, rows, stage, swept>>

\* The process dies: the handlers with it, and the transactions roll back.
RetentionDies ==
    /\ stage' = [r \in Handlers |-> CASE stage[r] \in {"none", "closed"} -> stage[r]
                                     [] stage[r] = "session" -> "closed"
                                     [] stage[r] \notin {"none", "closed", "session"} -> "lost"]
    /\ txn' = [r \in Handlers |-> NoTxn]
    /\ UNCHANGED <<cast, scope, run, rows, swept>>

-----------------------------------------------------------------------------
\* A run of a test scope that was at rest when a cleanup chose it leaves nothing
\* behind: no row of any table, now or later, though a recovery may have tried to
\* take it up meanwhile.
RestingTestRunsLeaveNothing == \A r \in swept : run[r] = "none" /\ rows[r] = {}

\* In a conversation that no test has left, a cleanup takes nothing but checkpoints:
\* those of a succeeded run once they are a month old, any others only when they are
\* older; though the run may end or be recovered while the cleanup works.
SparesTheRest ==
    \A r \in Handlers : SessionOf(r) \notin TestSessions =>
      /\ rows[r] \cap Lasting \subseteq rows'[r]
      /\ run[r] # "none" => run'[r] # "none"
      /\ rows'[r] \cap Checkpoints = {} =>
           "fresh" \notin rows[r] /\ ("month" \in rows[r] => run[r] = "succeeded")

OnlyTestDataIsDeleted == [][SparesTheRest]_retentionVars
=============================================================================
