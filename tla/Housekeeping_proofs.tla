------------------------- MODULE Housekeeping_proofs -------------------------
(***************************************************************************)
(* What holds of Housekeeping for any number of requests, any clients and  *)
(* sessions, and any number of restarts.  The startup, the throttle and    *)
(* the tables have an invariant each; a step of one leaves the others'     *)
(* variables alone.                                                        *)
(***************************************************************************)
EXTENDS Housekeeping, TLAPS

-----------------------------------------------------------------------------
(* Retention: cleanups against runs, for any number of both.  What a       *)
(* cleanup has chosen stays chosen by it alone until it commits, and what  *)
(* it will take was its to take when it commits.                           *)

(***************************************************************************)
(* The runs: their status follows the stage of their handler, and only     *)
(* the sessions left by tests are of a test scope.                         *)
(***************************************************************************)
RunsAgree ==
    /\ \A s \in Sessions : scope[s] = "test" => s \in TestSessions
    /\ \A r \in Handlers : stage[r] \in {"none", "session"} => run[r] = "none"
    /\ \A r \in Handlers : stage[r] \in {"running", "saved", "resumed"} => run[r] \in {"running", "none"}
    /\ \A r \in swept : stage[r] \in {"closed", "lost"}

(***************************************************************************)
(* The transactions: two of them never hold the same run, and a run held   *)
(* exists and is a test's.  What is going either bears the id of a run     *)
(* held or is a checkpoint past its age.                                   *)
(***************************************************************************)
HoldsItsRuns ==
    /\ \A k \in Chats : txn[k].ids = {} /\ txn[k].gone = {} /\ txn[k].step = "none"
    /\ \A k \in Handlers : txn[k].step \in {"none", "select"} => txn[k].ids = {}
    /\ \A k, l \in Handlers : \A r \in txn[k].ids : r \in txn[l].ids => k = l
    /\ \A k \in Handlers : \A r \in txn[k].ids : run[r] # "none" /\ SessionOf(r) \in TestSessions
    /\ \A k \in Handlers : \A r \in Handlers :
         txn[k].step \in {"sessions", "commit"} /\ r \in txn[k].ids => <<r, "run">> \in txn[k].gone

TakesItsOwn ==
    \A k, r \in Handlers : \A kind \in Checkpoints \cup Lasting \cup {"run"} :
       <<r, kind>> \in txn[k].gone =>
          \/ r \in txn[k].ids
          \/ kind = "quarter"
          \/ kind = "month" /\ (run[r] = "succeeded" \/ SessionOf(r) \in TestSessions)

(***************************************************************************)
(* A run chosen at rest stays at rest, and each statement leaves none of   *)
(* the rows it was to delete.                                              *)
(***************************************************************************)
RestingGo ==
    \A k \in Handlers : \A r \in txn[k].resting :
       /\ r \in txn[k].ids
       /\ stage[r] \in {"closed", "lost"}
       /\ \A kind \in rows[r] :
            \/ <<r, kind>> \in txn[k].gone
            \/ txn[k].step = "message"
            \/ txn[k].step = "checkpoint" /\ kind # "message"
            \/ txn[k].step = "event" /\ kind \in Lasting \ {"message"}
            \/ txn[k].step = "action" /\ kind = "action"

\* Every request is about a conversation.
SessionsAreKnown == \A r \in Handlers : SessionOf(r) \in Sessions

RetentionInv ==
    RetentionTypeOK /\ SessionsAreKnown /\ RunsAgree /\ HoldsItsRuns /\ TakesItsOwn /\ RestingGo
      /\ RestingTestRunsLeaveNothing

(***************************************************************************)
(* A run that is held is locked, by a cleanup.                             *)
(***************************************************************************)
LEMMA HeldIsLocked ==
  ASSUME HoldsItsRuns, NEW k \in Handlers, NEW r \in txn[k].ids
  PROVE  RunLocked(r)
  BY DEF HoldsItsRuns, RunLocked, Cleanups

(***************************************************************************)
(* A row written by a run that is not at rest disturbs no transaction.     *)
(***************************************************************************)
LEMMA InsertKeeps ==
  ASSUME RetentionInv, NEW r \in Handlers, NEW kind \in Checkpoints \cup Lasting,
         Inserts(r, kind), stage[r] \notin {"closed", "lost"},
         UNCHANGED <<cast, scope, run, swept>>,
         NEW st \in {"running", "saved", "resumed", "closed"},
         stage' = [stage EXCEPT ![r] = st],
         st \in {"running", "saved", "resumed"} => run[r] \in {"running", "none"}
  PROVE  RetentionInv'
<1> USE DEF RetentionInv
<1>1. /\ rows' = [rows EXCEPT ![r] = @ \cup {kind}]
      /\ txn' = [k \in Handlers |-> [txn[k] EXCEPT !.gone = @ \ {<<r, kind>>}]]
  BY DEF Inserts
<1>2. \A k \in Handlers : /\ txn'[k].step = txn[k].step /\ txn'[k].ids = txn[k].ids
                          /\ txn'[k].resting = txn[k].resting
                          /\ txn'[k].gone = txn[k].gone \ {<<r, kind>>}
  BY <1>1 DEF RetentionTypeOK, Transactions
<1>3. RetentionTypeOK'
  <2>1. ASSUME NEW k \in Handlers
        PROVE  [txn[k] EXCEPT !.gone = @ \ {<<r, kind>>}] \in Transactions
    <3>1. txn[k] \in Transactions
      BY DEF RetentionTypeOK
    <3> QED
      BY <3>1 DEF Transactions
  <2>2. txn' \in [Handlers -> Transactions]
    BY <1>1, <2>1
  <2> QED
    BY <1>1, <2>2 DEF RetentionTypeOK
<1>4. RunsAgree'
  BY DEF RunsAgree, RetentionTypeOK
<1>5. HoldsItsRuns'
  BY <1>2 DEF HoldsItsRuns, Chats, SessionOf, Checkpoints, Lasting
<1>6. TakesItsOwn'
  BY <1>2 DEF TakesItsOwn, SessionOf
<1>7. RestingGo'
  <2> SUFFICES ASSUME NEW k \in Handlers, NEW q \in txn[k].resting
               PROVE  /\ q \in txn[k].ids
                      /\ stage'[q] \in {"closed", "lost"}
                      /\ \A c \in rows'[q] :
                           \/ <<q, c>> \in txn'[k].gone
                           \/ txn[k].step = "message"
                           \/ txn[k].step = "checkpoint" /\ c # "message"
                           \/ txn[k].step = "event" /\ c \in Lasting \ {"message"}
                           \/ txn[k].step = "action" /\ c = "action"
    BY <1>2 DEF RestingGo
  <2>1. q # r /\ q \in Handlers
    BY DEF RestingGo, RetentionTypeOK, Transactions
  <2>2. rows'[q] = rows[q] /\ stage'[q] = stage[q]
    BY <1>1, <2>1 DEF RetentionTypeOK
  <2>3. \A c : <<q, c>> \in txn[k].gone => <<q, c>> \in txn'[k].gone
    BY <1>2, <2>1
  <2> QED
    BY <2>2, <2>3 DEF RestingGo
<1>8. RestingTestRunsLeaveNothing'
  <2>1. r \notin swept
    BY DEF RunsAgree
  <2> QED
    BY <1>1, <2>1 DEF RestingTestRunsLeaveNothing, RetentionTypeOK
<1> QED
  BY <1>3, <1>4, <1>5, <1>6, <1>7, <1>8 DEF SessionsAreKnown, SessionOf

(***************************************************************************)
(* A change of one run's status and stage, by a handler or a recovery that *)
(* has the run's row to itself, disturbs no transaction.                   *)
(***************************************************************************)
LEMMA RunChangeKeeps ==
  ASSUME RetentionInv, NEW r \in Handlers, ~RunLocked(r), r \notin swept,
         UNCHANGED <<cast, scope, rows, txn, swept>>,
         NEW to \in {"none", "running", "orphaned", "succeeded", "failed"},
         run' = [run EXCEPT ![r] = to], run[r] = "succeeded" => to = "succeeded",
         NEW st \in {"none", "session", "running", "saved", "resumed", "finished", "closed", "lost"},
         stage' = [stage EXCEPT ![r] = st],
         st \in {"none", "session"} => to = "none",
         st \in {"running", "saved", "resumed"} => to \in {"running", "none"}
  PROVE  RetentionInv'
<1> USE DEF RetentionInv
<1>1. \A k \in Handlers : r \notin txn[k].ids
  BY HeldIsLocked
<1>2. RetentionTypeOK'
  BY DEF RetentionTypeOK
<1>3. RunsAgree'
  BY DEF RunsAgree, RetentionTypeOK
<1>4. HoldsItsRuns'
  BY <1>1 DEF HoldsItsRuns, Chats, SessionOf, RetentionTypeOK
<1>5. TakesItsOwn'
  BY DEF TakesItsOwn, RetentionTypeOK, SessionOf
<1>6. RestingGo'
  BY <1>1 DEF RestingGo, RetentionTypeOK
<1>7. RestingTestRunsLeaveNothing'
  BY DEF RestingTestRunsLeaveNothing, RetentionTypeOK
<1> QED
  BY <1>2, <1>3, <1>4, <1>5, <1>6, <1>7 DEF SessionsAreKnown, SessionOf

(***************************************************************************)
(* A statement that changes the transaction of one cleanup, by what the    *)
(* cleanup may hold and delete.                                            *)
(***************************************************************************)
LEMMA StatementKeeps ==
  ASSUME RetentionInv, NEW k \in Cleanups, NEW to \in Transactions,
         Sets(k, to), UNCHANGED <<cast, scope, run, rows, stage, swept>>,
         to.step \in {"none", "select"} => to.ids = {},
         \A l \in Handlers \ {k} : \A r \in to.ids : r \notin txn[l].ids,
         \A r \in to.ids : run[r] # "none" /\ SessionOf(r) \in TestSessions,
         \A r \in to.ids : to.step \in {"sessions", "commit"} => <<r, "run">> \in to.gone,
         \A r \in Handlers : \A kind \in Checkpoints \cup Lasting \cup {"run"} :
           <<r, kind>> \in to.gone =>
             \/ r \in to.ids
             \/ kind = "quarter"
             \/ kind = "month" /\ (run[r] = "succeeded" \/ SessionOf(r) \in TestSessions),
         \A r \in to.resting :
           /\ r \in to.ids
           /\ stage[r] \in {"closed", "lost"}
           /\ \A kind \in rows[r] :
                \/ <<r, kind>> \in to.gone
                \/ to.step = "message"
                \/ to.step = "checkpoint" /\ kind # "message"
                \/ to.step = "event" /\ kind \in Lasting \ {"message"}
                \/ to.step = "action" /\ kind = "action"
  PROVE  RetentionInv'
<1> USE DEF RetentionInv
<1>1. k \in Handlers /\ txn' = [txn EXCEPT ![k] = to]
  BY DEF Sets, Cleanups
<1>2. txn'[k] = to /\ \A l \in Handlers \ {k} : txn'[l] = txn[l]
  BY <1>1 DEF RetentionTypeOK
<1>3. RetentionTypeOK'
  BY <1>1 DEF RetentionTypeOK
<1>4. RunsAgree'
  BY DEF RunsAgree
<1>5. HoldsItsRuns'
  <2>1. \A l \in Chats' : l \in Handlers \ {k} /\ l \in Chats
    BY DEF Chats, Cleanups
  <2> QED
    BY <1>1, <1>2, <2>1 DEF HoldsItsRuns, SessionOf
<1>6. TakesItsOwn'
  BY <1>1, <1>2 DEF TakesItsOwn, SessionOf
<1>7. RestingGo'
  BY <1>1, <1>2 DEF RestingGo
<1>8. RestingTestRunsLeaveNothing'
  BY DEF RestingTestRunsLeaveNothing
<1> QED
  BY <1>3, <1>4, <1>5, <1>6, <1>7, <1>8 DEF SessionsAreKnown, SessionOf

(***************************************************************************)
(* The first statement takes only checkpoints past their age.              *)
(***************************************************************************)
LEMMA DeleteOldKeeps ==
  ASSUME RetentionInv, NEW k \in Cleanups, DeleteOld(k),
         UNCHANGED <<cast, scope, run, rows, stage, swept>>
  PROVE  RetentionInv'
<1> DEFINE to == [NoTxn EXCEPT !.gone = OldEnough,
                   !.step = IF cast[k].kind = "TEST_DATA_ONLY" THEN "select" ELSE "commit"]
<1>1. Sets(k, to)
  BY DEF DeleteOld
<1>2. OldEnough \subseteq Handlers \X (Checkpoints \cup Lasting \cup {"run"})
  BY DEF OldEnough, Chats, Checkpoints
<1>3. /\ to.ids = {} /\ to.resting = {} /\ to.gone = OldEnough /\ to.step \in {"select", "commit"}
      /\ to \in Transactions
  BY <1>2 DEF NoTxn, Transactions, Steps
<1>4. \A r \in Handlers : \A kind \in Checkpoints \cup Lasting \cup {"run"} :
        <<r, kind>> \in to.gone => kind = "quarter" \/ (kind = "month" /\ run[r] = "succeeded")
  BY <1>3 DEF OldEnough
<1> HIDE DEF to
<1> QED
  BY <1>1, <1>3, <1>4, StatementKeeps

(***************************************************************************)
(* The runs chosen were locked by nobody else, and are a test's.           *)
(***************************************************************************)
LEMMA SelectRunsKeeps ==
  ASSUME RetentionInv, NEW k \in Cleanups, SelectRuns(k),
         UNCHANGED <<cast, scope, run, rows, stage, swept>>
  PROVE  RetentionInv'
<1> DEFINE to == [txn[k] EXCEPT !.step = IF TestRuns = {} THEN "commit" ELSE "message",
                              !.ids = TestRuns,
                              !.resting = {r \in TestRuns : stage[r] \in {"closed", "lost"}}]
<1>1. Sets(k, to) /\ txn[k].step = "select" /\ \A r \in TestRuns : ~RunLocked(r)
  BY DEF SelectRuns
<1>2. k \in Handlers /\ txn[k] \in Transactions
  BY DEF RetentionInv, RetentionTypeOK, Cleanups
<1>3. TestRuns \subseteq Handlers /\ \A r \in TestRuns : run[r] # "none" /\ scope[SessionOf(r)] = "test"
  BY DEF TestRuns, Chats
<1>4. \A r \in TestRuns : SessionOf(r) \in TestSessions
  <2>1. \A r \in TestRuns : SessionOf(r) \in Sessions => SessionOf(r) \in TestSessions
    BY <1>3 DEF RetentionInv, RunsAgree
  <2> QED
    BY <1>3, <2>1 DEF RetentionInv, SessionsAreKnown
<1>5. /\ to \in Transactions /\ to.ids = TestRuns /\ to.gone = txn[k].gone
      /\ to.step = "message" \/ TestRuns = {}
      /\ to.step \in {"message", "commit"}
      /\ to.resting = {r \in TestRuns : stage[r] \in {"closed", "lost"}}
  BY <1>2, <1>3 DEF Transactions, Steps
<1>6. txn[k].ids = {}
  BY <1>1, <1>2 DEF RetentionInv, HoldsItsRuns
<1>7. \A l \in Handlers \ {k} : \A r \in to.ids : r \notin txn[l].ids
  BY <1>1, <1>5, HeldIsLocked DEF RetentionInv
<1>8. \A r \in Handlers : \A kind \in Checkpoints \cup Lasting \cup {"run"} :
        <<r, kind>> \in to.gone => \/ kind = "quarter"
                                   \/ kind = "month" /\ (run[r] = "succeeded" \/ SessionOf(r) \in TestSessions)
  BY <1>2, <1>5, <1>6 DEF RetentionInv, TakesItsOwn
<1> HIDE DEF to
<1> QED
  BY <1>1, <1>3, <1>4, <1>5, <1>7, <1>8, StatementKeeps

(***************************************************************************)
(* Each table gives up the rows of the runs held, whatever they were.      *)
(***************************************************************************)
LEMMA DeleteRowsKeeps ==
  ASSUME RetentionInv, NEW k \in Cleanups, DeleteRows(k),
         UNCHANGED <<cast, scope, run, rows, stage, swept>>
  PROVE  RetentionInv'
<1> DEFINE to == [txn[k] EXCEPT !.step = NextTable[@], !.gone = @ \cup RowsOf(k)]
<1>1. Sets(k, to) /\ txn[k].step \in {"message", "checkpoint", "event", "action"}
  BY DEF DeleteRows, NextTable
<1>2. k \in Handlers /\ txn[k] \in Transactions
  BY DEF RetentionInv, RetentionTypeOK, Cleanups
<1>3. RowsOf(k) \subseteq txn[k].ids \X (Checkpoints \cup Lasting \cup {"run"})
  BY <1>1 DEF RowsOf, Kinds, Lasting
<1>4. /\ to \in Transactions /\ to.ids = txn[k].ids /\ to.gone = txn[k].gone \cup RowsOf(k)
      /\ to.resting = txn[k].resting
      /\ to.step = NextTable[txn[k].step]
  <2>1. NextTable[txn[k].step] \in Steps
    BY <1>1 DEF NextTable, Steps
  <2>2. txn[k].gone \cup RowsOf(k) \subseteq Handlers \X (Checkpoints \cup Lasting \cup {"run"})
    BY <1>2, <1>3 DEF Transactions
  <2> QED
    BY <1>2, <2>1, <2>2 DEF Transactions
<1>5. to.step \in {"checkpoint", "event", "action", "run"}
  BY <1>1, <1>4 DEF NextTable
<1>6. \A r \in to.ids : /\ run[r] # "none" /\ SessionOf(r) \in TestSessions
                         /\ \A l \in Handlers \ {k} : r \notin txn[l].ids
  BY <1>2, <1>4 DEF RetentionInv, HoldsItsRuns
<1>7. \A r \in Handlers : \A kind \in Checkpoints \cup Lasting \cup {"run"} :
        <<r, kind>> \in to.gone => \/ r \in to.ids
                                   \/ kind = "quarter"
                                   \/ kind = "month" /\ (run[r] = "succeeded" \/ SessionOf(r) \in TestSessions)
  BY <1>2, <1>3, <1>4 DEF RetentionInv, TakesItsOwn
<1>8. \A r \in to.resting :
           /\ r \in to.ids
           /\ stage[r] \in {"closed", "lost"}
           /\ \A kind \in rows[r] :
                \/ <<r, kind>> \in to.gone
                \/ to.step = "message"
                \/ to.step = "checkpoint" /\ kind # "message"
                \/ to.step = "event" /\ kind \in Lasting \ {"message"}
                \/ to.step = "action" /\ kind = "action"
  <2> SUFFICES ASSUME NEW r \in txn[k].resting
               PROVE  /\ r \in txn[k].ids
                      /\ stage[r] \in {"closed", "lost"}
                      /\ \A kind \in rows[r] :
                           \/ <<r, kind>> \in to.gone
                           \/ to.step = "message"
                           \/ to.step = "checkpoint" /\ kind # "message"
                           \/ to.step = "event" /\ kind \in Lasting \ {"message"}
                           \/ to.step = "action" /\ kind = "action"
    BY <1>4
  <2>1. r \in txn[k].ids /\ stage[r] \in {"closed", "lost"} /\ r \in Handlers
    BY <1>2 DEF RetentionInv, RestingGo, Transactions
  <2>2. ASSUME NEW kind \in rows[r]
        PROVE  \/ <<r, kind>> \in to.gone
               \/ to.step = "checkpoint" /\ kind # "message"
               \/ to.step = "event" /\ kind \in Lasting \ {"message"}
               \/ to.step = "action" /\ kind = "action"
    <3>1. kind \in Checkpoints \cup Lasting
      BY <2>1 DEF RetentionInv, RetentionTypeOK
    <3>2. kind \in Kinds(txn[k].step) => <<r, kind>> \in RowsOf(k)
      BY <2>1 DEF RowsOf
    <3>3. <<r, kind>> \in txn[k].gone \cup RowsOf(k) => <<r, kind>> \in to.gone
      BY <1>4
    <3>4. txn[k].step = "message" => to.step = "checkpoint" /\ Kinds(txn[k].step) = {"message"}
      BY <1>4 DEF NextTable, Kinds
    <3>5. txn[k].step = "checkpoint" => to.step = "event" /\ Kinds(txn[k].step) = Checkpoints
      BY <1>4 DEF NextTable, Kinds
    <3>6. txn[k].step = "event" => to.step = "action" /\ Kinds(txn[k].step) = {"event"}
      BY <1>4 DEF NextTable, Kinds
    <3>7. txn[k].step = "action" => Kinds(txn[k].step) = {"action"}
      BY DEF Kinds
    <3>8. \/ <<r, kind>> \in txn[k].gone
          \/ txn[k].step = "message"
          \/ txn[k].step = "checkpoint" /\ kind # "message"
          \/ txn[k].step = "event" /\ kind \in Lasting \ {"message"}
          \/ txn[k].step = "action" /\ kind = "action"
      BY <1>2 DEF RetentionInv, RestingGo
    <3> HIDE DEF to
    <3> QED
      BY <3>1, <3>2, <3>3, <3>4, <3>5, <3>6, <3>7, <3>8 DEF Lasting
  <2> QED
    BY <2>1, <2>2
<1> HIDE DEF to
<1> QED
  BY <1>1, <1>4, <1>5, <1>6, <1>7, <1>8, StatementKeeps

(***************************************************************************)
(* The runs held go themselves, and then the sessions they leave empty.    *)
(***************************************************************************)
LEMMA DeleteRunsKeeps ==
  ASSUME RetentionInv, NEW k \in Cleanups, DeleteRuns(k),
         UNCHANGED <<cast, scope, run, rows, stage, swept>>
  PROVE  RetentionInv'
<1> DEFINE to == [txn[k] EXCEPT !.step = "sessions", !.gone = @ \cup (txn[k].ids \X {"run"})]
<1>1. Sets(k, to) /\ txn[k].step = "run"
  BY DEF DeleteRuns
<1>2. k \in Handlers /\ txn[k] \in Transactions
  BY DEF RetentionInv, RetentionTypeOK, Cleanups
<1>3. /\ to \in Transactions /\ to.ids = txn[k].ids /\ to.resting = txn[k].resting
      /\ to.gone = txn[k].gone \cup (txn[k].ids \X {"run"})
      /\ to.step = "sessions"
  <2>1. txn[k].gone \cup (txn[k].ids \X {"run"}) \subseteq Handlers \X (Checkpoints \cup Lasting \cup {"run"})
    BY <1>2 DEF Transactions
  <2> QED
    BY <1>2, <2>1 DEF Transactions, Steps
<1>4. \A r \in to.ids : /\ run[r] # "none" /\ SessionOf(r) \in TestSessions
                         /\ <<r, "run">> \in to.gone
                         /\ \A l \in Handlers \ {k} : r \notin txn[l].ids
  BY <1>2, <1>3 DEF RetentionInv, HoldsItsRuns
<1>5. \A r \in Handlers : \A kind \in Checkpoints \cup Lasting \cup {"run"} :
        <<r, kind>> \in to.gone => \/ r \in to.ids
                                   \/ kind = "quarter"
                                   \/ kind = "month" /\ (run[r] = "succeeded" \/ SessionOf(r) \in TestSessions)
  BY <1>2, <1>3 DEF RetentionInv, TakesItsOwn
<1>6. \A r \in to.resting :
        r \in to.ids /\ stage[r] \in {"closed", "lost"} /\ \A kind \in rows[r] : <<r, kind>> \in to.gone
  BY <1>1, <1>2, <1>3 DEF RetentionInv, RestingGo
<1> HIDE DEF to
<1> QED
  BY <1>3, <1>1, <1>4, <1>5, <1>6, StatementKeeps

(***************************************************************************)
(* The sessions are the last to be taken.                                  *)
(***************************************************************************)
LEMMA DeleteSessionsKeeps ==
  ASSUME RetentionInv, NEW k \in Cleanups, DeleteSessions(k),
         UNCHANGED <<cast, scope, run, rows, stage, swept>>
  PROVE  RetentionInv'
<1>1. txn[k].step = "sessions" /\ k \in Handlers /\ txn[k] \in Transactions
  BY DEF DeleteSessions, RetentionInv, RetentionTypeOK, Cleanups
<1>2. PICK emptied \in SUBSET Sessions :
        Sets(k, [txn[k] EXCEPT !.step = "commit", !.sessions = emptied])
  BY DEF DeleteSessions
<1> DEFINE to == [txn[k] EXCEPT !.step = "commit", !.sessions = emptied]
<1>3. Sets(k, to)
  BY <1>2
<1>4. /\ to \in Transactions /\ to.ids = txn[k].ids /\ to.resting = txn[k].resting
      /\ to.gone = txn[k].gone /\ to.step = "commit"
  BY <1>1 DEF Transactions, Steps
<1>5. \A r \in to.ids : /\ run[r] # "none" /\ SessionOf(r) \in TestSessions
                         /\ <<r, "run">> \in to.gone
                         /\ \A l \in Handlers \ {k} : r \notin txn[l].ids
  BY <1>1, <1>4 DEF RetentionInv, HoldsItsRuns, Transactions
<1>6. \A r \in Handlers : \A kind \in Checkpoints \cup Lasting \cup {"run"} :
        <<r, kind>> \in to.gone => \/ r \in to.ids
                                   \/ kind = "quarter"
                                   \/ kind = "month" /\ (run[r] = "succeeded" \/ SessionOf(r) \in TestSessions)
  BY <1>1, <1>4 DEF RetentionInv, TakesItsOwn
<1>7. \A r \in to.resting :
        r \in to.ids /\ stage[r] \in {"closed", "lost"} /\ \A kind \in rows[r] : <<r, kind>> \in to.gone
  BY <1>1, <1>4 DEF RetentionInv, RestingGo
<1> HIDE DEF to
<1> QED
  BY <1>3, <1>4, <1>5, <1>6, <1>7, StatementKeeps

(***************************************************************************)
(* A transaction that ends without effect lets go of everything.           *)
(***************************************************************************)
LEMMA RollBackKeeps ==
  ASSUME RetentionInv, NEW k \in Handlers, RollBack(k)
  PROVE  RetentionInv'
<1>1. Sets(k, NoTxn) /\ k \in Cleanups /\ UNCHANGED <<cast, scope, run, rows, stage, swept>>
  BY DEF RollBack
<1>2. /\ NoTxn \in Transactions /\ NoTxn.ids = {} /\ NoTxn.gone = {} /\ NoTxn.resting = {}
      /\ NoTxn.step = "none"
  BY DEF NoTxn, Transactions, Steps
<1> QED
  BY <1>1, <1>2, StatementKeeps

(***************************************************************************)
(* The commit: the runs held go with every row they have, and what other   *)
(* cleanups hold is untouched.                                             *)
(***************************************************************************)
LEMMA CommitKeeps ==
  ASSUME RetentionInv, NEW k \in Handlers, Commit(k)
  PROVE  RetentionInv'
<1> USE DEF RetentionInv
<1>1. /\ txn[k].step = "commit" /\ txn[k] \in Transactions
      /\ txn' = [txn EXCEPT ![k] = NoTxn]
      /\ rows' = [r \in Handlers |-> {kind \in rows[r] : <<r, kind>> \notin txn[k].gone}]
      /\ run' = [r \in Handlers |-> IF <<r, "run">> \in txn[k].gone THEN "none" ELSE run[r]]
      /\ scope' = [s \in Sessions |-> IF s \in txn[k].sessions THEN "none" ELSE scope[s]]
      /\ swept' = swept \cup txn[k].resting
      /\ cast' = cast /\ stage' = stage
  BY DEF Commit, Sets, RetentionTypeOK
<1>2. /\ NoTxn \in Transactions /\ NoTxn.ids = {} /\ NoTxn.gone = {} /\ NoTxn.resting = {}
      /\ NoTxn.step = "none"
  BY DEF NoTxn, Transactions, Steps
<1>3. txn'[k] = NoTxn /\ \A l \in Handlers \ {k} : txn'[l] = txn[l]
  BY <1>1 DEF RetentionTypeOK
<1>4. RetentionTypeOK'
  BY <1>1, <1>2 DEF RetentionTypeOK, Transactions
<1>5. RunsAgree'
  BY <1>1 DEF RunsAgree, RetentionTypeOK, RestingGo, Transactions
<1>6. \A r \in Handlers : run'[r] # run[r] => r \in txn[k].ids
  BY <1>1 DEF TakesItsOwn
<1>7. HoldsItsRuns'
  <2>1. Chats' = Chats /\ \A r : SessionOf(r)' = SessionOf(r)
    BY <1>1 DEF Chats, SessionOf
  <2>2. \A l \in Handlers : txn'[l].ids = {} \/ (l # k /\ txn'[l] = txn[l])
    BY <1>2, <1>3
  <2>3. \A l \in Handlers : \A r \in txn'[l].ids : run'[r] # "none" /\ SessionOf(r) \in TestSessions
    <3> SUFFICES ASSUME NEW l \in Handlers, NEW r \in txn'[l].ids
                 PROVE  run'[r] # "none" /\ SessionOf(r) \in TestSessions
      OBVIOUS
    <3>1. l # k /\ r \in txn[l].ids /\ r \in Handlers
      BY <2>2 DEF RetentionTypeOK, Transactions
    <3>2. r \notin txn[k].ids
      BY <3>1 DEF HoldsItsRuns
    <3> QED
      BY <1>6, <3>1, <3>2 DEF HoldsItsRuns
  <2>4. \A l \in Handlers :
          \/ txn'[l].step = "none" /\ txn'[l].ids = {} /\ txn'[l].gone = {}
          \/ txn'[l] = txn[l]
    BY <1>2, <1>3
  <2>5. Chats \subseteq Handlers
    BY DEF Chats
  <2>6. \A l \in Chats : txn'[l].ids = {} /\ txn'[l].gone = {} /\ txn'[l].step = "none"
    BY <2>4, <2>5 DEF HoldsItsRuns
  <2>7. \A l \in Handlers : txn'[l].step \in {"none", "select"} => txn'[l].ids = {}
    BY <2>4 DEF HoldsItsRuns
  <2>8. \A l, m \in Handlers : \A r \in txn'[l].ids : r \in txn'[m].ids => l = m
    BY <2>2 DEF HoldsItsRuns
  <2>9. \A l \in Handlers : \A r \in Handlers :
         txn'[l].step \in {"sessions", "commit"} /\ r \in txn'[l].ids => <<r, "run">> \in txn'[l].gone
    BY <2>4 DEF HoldsItsRuns
  <2> QED
    BY <2>1, <2>3, <2>6, <2>7, <2>8, <2>9 DEF HoldsItsRuns
<1>8. TakesItsOwn'
  <2>1. \A r : SessionOf(r)' = SessionOf(r)
    BY <1>1 DEF SessionOf
  <2>2. \A r \in Handlers : run'[r] = run[r] \/ SessionOf(r) \in TestSessions
    BY <1>6 DEF HoldsItsRuns
  <2> QED
    BY <1>2, <1>3, <2>1, <2>2 DEF TakesItsOwn
<1>9. RestingGo'
  <2>1. \A r \in Handlers : rows'[r] \subseteq rows[r]
    BY <1>1
  <2>2. \A l \in Handlers : txn[l].resting \subseteq Handlers
    BY DEF RetentionTypeOK, Transactions
  <2> QED
    BY <1>1, <1>2, <1>3, <2>1, <2>2 DEF RestingGo
<1>10. RestingTestRunsLeaveNothing'
  <2>1. \A r \in swept : run'[r] = "none" /\ rows'[r] = {}
    BY <1>1 DEF RestingTestRunsLeaveNothing, RetentionTypeOK
  <2>2. \A r \in txn[k].resting : run'[r] = "none" /\ rows'[r] = {}
    <3> SUFFICES ASSUME NEW r \in txn[k].resting
                 PROVE  run'[r] = "none" /\ rows'[r] = {}
      OBVIOUS
    <3>1. r \in Handlers /\ r \in txn[k].ids /\ \A kind \in rows[r] : <<r, kind>> \in txn[k].gone
      BY <1>1 DEF RestingGo, Transactions
    <3>2. <<r, "run">> \in txn[k].gone
      BY <1>1, <3>1 DEF HoldsItsRuns
    <3> QED
      BY <1>1, <3>1, <3>2
  <2> QED
    BY <1>1, <2>1, <2>2 DEF RestingTestRunsLeaveNothing
<1> QED
  BY <1>1, <1>4, <1>5, <1>7, <1>8, <1>9, <1>10 DEF SessionsAreKnown, SessionOf

(***************************************************************************)
(* A session written by ensure_session is no test's.                       *)
(***************************************************************************)
LEMMA EnsureSessionKeeps ==
  ASSUME RetentionInv, NEW r \in Handlers, EnsureSession(r)
  PROVE  RetentionInv'
<1> USE DEF RetentionInv
<1>1. /\ stage[r] = "none" /\ stage' = [stage EXCEPT ![r] = "session"]
      /\ scope' = [scope EXCEPT ![SessionOf(r)] = IF @ = "none" THEN "chat" ELSE @]
      /\ UNCHANGED <<cast, run, rows, txn, swept>>
  BY DEF EnsureSession
<1>2. \A q \in Handlers : q # r => stage'[q] = stage[q]
  BY <1>1 DEF RetentionTypeOK
<1>3. RetentionTypeOK'
  BY <1>1 DEF RetentionTypeOK, SessionsAreKnown
<1>4. RunsAgree'
  BY <1>1 DEF RunsAgree, RetentionTypeOK, SessionsAreKnown
<1>5. HoldsItsRuns'
  BY <1>1 DEF HoldsItsRuns, Chats, SessionOf
<1>6. TakesItsOwn'
  BY <1>1 DEF TakesItsOwn, SessionOf
<1>7. RestingGo'
  <2>1. \A k \in Handlers : r \notin txn[k].resting
    BY <1>1 DEF RestingGo
  <2>2. \A k \in Handlers : txn[k].resting \subseteq Handlers
    BY DEF RetentionTypeOK, Transactions
  <2> QED
    BY <1>1, <1>2, <2>1, <2>2 DEF RestingGo
<1>8. RestingTestRunsLeaveNothing'
  BY <1>1 DEF RestingTestRunsLeaveNothing
<1> QED
  BY <1>1, <1>3, <1>4, <1>5, <1>6, <1>7, <1>8 DEF SessionsAreKnown, SessionOf

(***************************************************************************)
(* Checkpoints that grow old are none of those a cleanup is deleting.      *)
(***************************************************************************)
LEMMA GrowOldKeeps ==
  ASSUME RetentionInv, NEW r \in Chats, GrowOld(r)
  PROVE  RetentionInv'
<1> USE DEF RetentionInv
<1>1. /\ stage[r] \in {"closed", "lost"} /\ rows[r] \cap {"fresh", "month"} # {}
      /\ \A kind \in Checkpoints : ~Deleting(r, kind)
      /\ rows' = [rows EXCEPT ![r] = {Aged(kind) : kind \in @}]
      /\ UNCHANGED <<cast, scope, run, stage, txn, swept>>
      /\ r \in Handlers
  BY DEF GrowOld, Chats
<1>2. \A kind \in Checkpoints : Aged(kind) \in Checkpoints
  BY DEF Aged, Checkpoints
<1>3. \A kind \in Lasting : Aged(kind) = kind
  BY DEF Aged, Lasting
<1>4. rows[r] \subseteq Checkpoints \cup Lasting /\ rows'[r] = {Aged(kind) : kind \in rows[r]}
  BY <1>1 DEF RetentionTypeOK
<1>5. \A q \in Handlers : q # r => rows'[q] = rows[q]
  BY <1>1 DEF RetentionTypeOK
<1>6. RetentionTypeOK'
  <2>1. {Aged(kind) : kind \in rows[r]} \subseteq Checkpoints \cup Lasting
    BY <1>2, <1>3, <1>4
  <2> QED
    BY <1>1, <2>1 DEF RetentionTypeOK
<1>7. RunsAgree'
  BY <1>1 DEF RunsAgree
<1>8. HoldsItsRuns'
  BY <1>1 DEF HoldsItsRuns, Chats, SessionOf
<1>9. TakesItsOwn'
  BY <1>1 DEF TakesItsOwn, SessionOf
<1>10. RestingGo'
  <2> SUFFICES ASSUME NEW k \in Handlers, NEW q \in txn[k].resting, NEW kind \in rows'[q]
               PROVE  \/ <<q, kind>> \in txn[k].gone
                      \/ txn[k].step = "message"
                      \/ txn[k].step = "checkpoint" /\ kind # "message"
                      \/ txn[k].step = "event" /\ kind \in Lasting \ {"message"}
                      \/ txn[k].step = "action" /\ kind = "action"
    BY <1>1 DEF RestingGo
  <2>1. CASE q # r
    <3>1. rows'[q] = rows[q]
      BY <1>5, <2>1 DEF RetentionTypeOK, Transactions
    <3> QED
      BY <3>1 DEF RestingGo
  <2>2. CASE q = r
    <3>1. PICK was \in rows[r] : kind = Aged(was)
      BY <1>4, <2>2
    <3>2. CASE was \in Lasting
      BY <1>3, <2>2, <3>1, <3>2 DEF RestingGo
    <3>3. CASE was \in Checkpoints
      <4>1. k \in Cleanups
        BY <2>2 DEF RestingGo, HoldsItsRuns, Cleanups
      <4>2. <<r, was>> \notin txn[k].gone
        BY <1>1, <3>3, <4>1 DEF Deleting
      <4>3. txn[k].step \in {"message", "checkpoint"}
        BY <2>2, <3>1, <3>3, <4>2 DEF RestingGo, Checkpoints, Lasting
      <4> QED
        BY <1>2, <3>1, <3>3, <4>3 DEF Checkpoints
    <3> QED
      BY <1>4, <3>1, <3>2, <3>3
  <2> QED
    BY <2>1, <2>2
<1>11. RestingTestRunsLeaveNothing'
  <2>1. r \notin swept
    BY <1>1 DEF RestingTestRunsLeaveNothing
  <2> QED
    BY <1>1, <1>5, <2>1 DEF RestingTestRunsLeaveNothing, RetentionTypeOK
<1> QED
  BY <1>1, <1>6, <1>7, <1>8, <1>9, <1>10, <1>11 DEF SessionsAreKnown, SessionOf

(***************************************************************************)
(* With the process go the transactions and the handlers.                  *)
(***************************************************************************)
LEMMA DyingKeeps ==
  ASSUME RetentionInv, RetentionDies
  PROVE  RetentionInv'
<1> USE DEF RetentionInv
<1>1. /\ txn' = [r \in Handlers |-> NoTxn]
      /\ UNCHANGED <<cast, scope, run, rows, swept>>
  BY DEF RetentionDies
<1>2. /\ NoTxn \in Transactions /\ NoTxn.ids = {} /\ NoTxn.gone = {} /\ NoTxn.resting = {}
      /\ NoTxn.step = "none"
  BY DEF NoTxn, Transactions, Steps
<1>3. \A r \in Handlers :
        /\ stage'[r] \in {"none", "closed", "lost"}
        /\ stage'[r] = "none" => stage[r] = "none"
        /\ stage[r] \in {"closed", "lost"} => stage'[r] = stage[r]
  BY DEF RetentionDies, RetentionTypeOK
<1>4. stage' \in [Handlers -> {"none", "closed", "lost"}]
  <2>1. \A r \in Handlers :
          (CASE stage[r] \in {"none", "closed"} -> stage[r]
             [] stage[r] = "session" -> "closed"
             [] stage[r] \notin {"none", "closed", "session"} -> "lost") \in {"none", "closed", "lost"}
    BY DEF RetentionTypeOK
  <2> QED
    BY <2>1 DEF RetentionDies
<1>5. RetentionTypeOK'
  BY <1>1, <1>2, <1>4 DEF RetentionTypeOK
<1>6. RunsAgree'
  BY <1>1, <1>3 DEF RunsAgree, RetentionTypeOK
<1>7. HoldsItsRuns'
  BY <1>1, <1>2 DEF HoldsItsRuns, Chats
<1>8. TakesItsOwn' /\ RestingGo' /\ RestingTestRunsLeaveNothing'
  BY <1>1, <1>2 DEF TakesItsOwn, RestingGo, RestingTestRunsLeaveNothing
<1> QED
  BY <1>1, <1>5, <1>6, <1>7, <1>8 DEF SessionsAreKnown, SessionOf

(***************************************************************************)
(* A run at rest in swept is neither running nor orphaned, so nobody takes *)
(* it up.                                                                  *)
(***************************************************************************)
LEMMA SweptRest ==
  ASSUME RetentionInv, NEW r \in Handlers,
         stage[r] \notin {"closed", "lost"} \/ run[r] # "none"
  PROVE  r \notin swept
  BY DEF RetentionInv, RunsAgree, RestingTestRunsLeaveNothing

(***************************************************************************)
(* Every step of a run's handler.                                          *)
(***************************************************************************)
LEMMA ChatKeeps ==
  ASSUME RetentionInv, NEW r \in Handlers, ChatStep(r)
  PROVE  RetentionInv'
<1>1. CASE EnsureSession(r)
  BY <1>1, EnsureSessionKeeps
<1>2. CASE CreateRun(r)
  <2>1. run[r] = "none"
    BY <1>2 DEF CreateRun, RetentionInv, RunsAgree
  <2>2. ~RunLocked(r)
    BY <2>1 DEF RunLocked, Cleanups, RetentionInv, HoldsItsRuns
  <2>3. r \notin swept
    BY <1>2, SweptRest DEF CreateRun
  <2> QED
    BY <1>2, <2>1, <2>2, <2>3, RunChangeKeeps DEF CreateRun
<1>3. CASE Checkpoint(r)
  <2>1. stage' = [stage EXCEPT ![r] = stage[r]] /\ "fresh" \in Checkpoints \cup Lasting
    BY <1>3 DEF Checkpoint, RetentionInv, RetentionTypeOK, Checkpoints
  <2>2. run[r] \in {"running", "none"}
    BY <1>3 DEF Checkpoint, RetentionInv, RunsAgree
  <2> QED
    BY <1>3, <2>1, <2>2, InsertKeeps DEF Checkpoint
<1>4. CASE Insert(r)
  <2>1. stage' = [stage EXCEPT ![r] = stage[r]]
    BY <1>4 DEF Insert, RetentionInv, RetentionTypeOK
  <2>2. run[r] \in {"running", "none"}
    BY <1>4 DEF Insert, RetentionInv, RunsAgree
  <2>3. PICK kind \in {"event", "action"} : Inserts(r, kind)
    BY <1>4 DEF Insert
  <2>4. kind \in Checkpoints \cup Lasting
    BY DEF Lasting
  <2> QED
    BY <1>4, <2>1, <2>2, <2>3, <2>4, InsertKeeps DEF Insert
<1>5. CASE AppendMessages(r)
  <2>1. run[r] \in {"running", "none"}
    BY <1>5 DEF AppendMessages, RetentionInv, RunsAgree
  <2>2. "message" \in Checkpoints \cup Lasting
    BY DEF Lasting
  <2> QED
    BY <1>5, <2>1, <2>2, InsertKeeps DEF AppendMessages
<1>6. CASE FinishRun(r)
  <2>1. run[r] \in {"running", "none"}
    BY <1>6 DEF FinishRun, RetentionInv, RunsAgree
  <2>2. PICK to \in {"none", "running", "failed", "succeeded"} : run' = [run EXCEPT ![r] = to]
    <3>1. PICK end \in {"failed", "none", "succeeded"} :
            run' = [run EXCEPT ![r] = IF run[r] = "none" \/ end = "none" THEN run[r] ELSE end]
      BY <1>6 DEF FinishRun
    <3> QED
      BY <2>1, <3>1
  <2>3. r \notin swept
    BY <1>6, SweptRest DEF FinishRun
  <2> QED
    BY <1>6, <2>1, <2>2, <2>3, RunChangeKeeps DEF FinishRun
<1>7. CASE Close(r)
  <2>1. CASE Inserts(r, "fresh")
    <3>1. "fresh" \in Checkpoints \cup Lasting
      BY DEF Checkpoints
    <3> QED
      BY <1>7, <2>1, <3>1, InsertKeeps DEF Close
  <2>2. CASE UNCHANGED <<rows, txn>>
    <3>1. /\ run[r] \in {"none", "running", "orphaned", "succeeded", "failed"}
          /\ run' = [run EXCEPT ![r] = run[r]]
      BY <1>7 DEF Close, RetentionInv, RetentionTypeOK
    <3>2. r \notin swept
      BY <1>7, SweptRest DEF Close
    <3> QED
      BY <1>7, <2>2, <3>1, <3>2, RunChangeKeeps DEF Close
  <2> QED
    BY <1>7, <2>1, <2>2 DEF Close
<1> QED
  BY <1>1, <1>2, <1>3, <1>4, <1>5, <1>6, <1>7 DEF ChatStep

(***************************************************************************)
(* What happens to a run that its handler has left.                        *)
(***************************************************************************)
LEMMA WorldKeeps ==
  ASSUME RetentionInv, NEW r \in Handlers, World(r)
  PROVE  RetentionInv'
<1>1. CASE Orphan(r)
  <2>1. stage' = [stage EXCEPT ![r] = "lost"] /\ r \notin swept
    BY <1>1, SweptRest DEF Orphan, RetentionInv, RetentionTypeOK
  <2> QED
    BY <1>1, <2>1, RunChangeKeeps DEF Orphan
<1>2. CASE Resume(r)
  <2>1. r \notin swept
    BY <1>2, SweptRest DEF Resume
  <2> QED
    BY <1>2, <2>1, RunChangeKeeps DEF Resume
<1>3. CASE Conclude(r)
  <2>1. run[r] \in {"running", "none"} /\ r \notin swept
    BY <1>3, SweptRest DEF Conclude, RetentionInv, RunsAgree
  <2>2. PICK end \in {"succeeded", "orphaned"} :
          /\ run' = [run EXCEPT ![r] = IF run[r] = "none" THEN run[r] ELSE end]
          /\ stage' = [stage EXCEPT ![r] = IF end = "succeeded" THEN "finished" ELSE "lost"]
    BY <1>3 DEF Conclude
  <2>3. PICK to \in {"none", "orphaned", "succeeded"} : run' = [run EXCEPT ![r] = to]
    BY <2>1, <2>2
  <2>4. PICK st \in {"finished", "lost"} : stage' = [stage EXCEPT ![r] = st]
    BY <2>2
  <2> QED
    BY <1>3, <2>1, <2>3, <2>4, RunChangeKeeps DEF Conclude
<1>4. CASE Checkpoint(r) \/ Close(r)
  BY <1>4, ChatKeeps DEF World, ChatStep
<1>5. CASE GrowOld(r)
  BY <1>5, GrowOldKeeps DEF World
<1> QED
  BY <1>1, <1>2, <1>3, <1>4, <1>5 DEF World, Recovery

(***************************************************************************)
(* Every statement of a cleanup.                                           *)
(***************************************************************************)
LEMMA CleanupKeeps ==
  ASSUME RetentionInv, NEW k \in Handlers, Statement(k)
  PROVE  RetentionInv'
  BY DeleteOldKeeps, SelectRunsKeeps, DeleteRowsKeeps, DeleteRunsKeeps, DeleteSessionsKeeps
     DEF Statement

(***************************************************************************)
(* Any step of runs and cleanups, and the end of the process, keep the     *)
(* invariant.                                                              *)
(***************************************************************************)
RetentionStep ==
    \/ \E r \in Handlers : ChatStep(r) \/ Statement(r) \/ Commit(r) \/ RollBack(r) \/ World(r)
    \/ RetentionDies
    \/ UNCHANGED retentionVars

LEMMA RetentionKeeps ==
  ASSUME RetentionInv, RetentionStep
  PROVE  RetentionInv'
<1>1. CASE UNCHANGED retentionVars
  BY <1>1 DEF retentionVars, RetentionInv, RetentionTypeOK, SessionsAreKnown, SessionOf, RunsAgree,
       HoldsItsRuns, TakesItsOwn, RestingGo, RestingTestRunsLeaveNothing, Chats
<1> QED
  BY <1>1, ChatKeeps, CleanupKeeps, CommitKeeps, RollBackKeeps, WorldKeeps, DyingKeeps
     DEF RetentionStep

(***************************************************************************)
(* On a database where the tests' sessions are the only ones.              *)
(***************************************************************************)
LEMMA RetentionStarts ==
  ASSUME RetentionInit, \A r \in Handlers : SessionOf(r) \in Sessions
  PROVE  RetentionInv
<1>1. /\ NoTxn \in Transactions /\ NoTxn.ids = {} /\ NoTxn.gone = {} /\ NoTxn.resting = {}
      /\ NoTxn.step = "none"
  BY DEF NoTxn, Transactions, Steps
<1>2. RetentionTypeOK
  BY <1>1 DEF RetentionInit, RetentionTypeOK
<1>3. RunsAgree
  BY DEF RetentionInit, RunsAgree
<1>4. HoldsItsRuns /\ TakesItsOwn /\ RestingGo /\ RestingTestRunsLeaveNothing
  BY <1>1 DEF RetentionInit, HoldsItsRuns, TakesItsOwn, RestingGo, RestingTestRunsLeaveNothing, Chats
<1> QED
  BY <1>2, <1>3, <1>4 DEF RetentionInv, SessionsAreKnown

(***************************************************************************)
(* What only grows is spared, and so are the runs.                         *)
(***************************************************************************)
LEMMA GrowthSpares ==
  ASSUME RetentionInv,
         \A r \in Handlers : rows[r] \subseteq rows'[r] /\ (run[r] # "none" => run'[r] # "none")
  PROVE  SparesTheRest
<1> SUFFICES ASSUME NEW r \in Handlers, rows'[r] \cap Checkpoints = {}
             PROVE  "fresh" \notin rows[r] /\ "month" \notin rows[r]
  BY DEF SparesTheRest
<1> QED
  BY DEF Checkpoints

(***************************************************************************)
(* The commit is the only step that deletes, and takes from no other than  *)
(* a test's conversation anything but checkpoints past their age.          *)
(***************************************************************************)
LEMMA CommitSpares ==
  ASSUME RetentionInv, NEW k \in Handlers, Commit(k)
  PROVE  SparesTheRest
<1> SUFFICES ASSUME NEW r \in Handlers, SessionOf(r) \notin TestSessions
             PROVE  /\ rows[r] \cap Lasting \subseteq rows'[r]
                    /\ run[r] # "none" => run'[r] # "none"
                    /\ rows'[r] \cap Checkpoints = {} =>
                         "fresh" \notin rows[r] /\ ("month" \in rows[r] => run[r] = "succeeded")
  BY DEF SparesTheRest
<1>1. /\ rows'[r] = {kind \in rows[r] : <<r, kind>> \notin txn[k].gone}
      /\ run'[r] = IF <<r, "run">> \in txn[k].gone THEN "none" ELSE run[r]
  BY DEF Commit
<1>2. r \notin txn[k].ids
  BY DEF RetentionInv, HoldsItsRuns
<1>3. \A kind \in Checkpoints \cup Lasting \cup {"run"} :
        <<r, kind>> \in txn[k].gone => kind = "quarter" \/ (kind = "month" /\ run[r] = "succeeded")
  BY <1>2 DEF RetentionInv, TakesItsOwn
<1>4. rows[r] \cap Lasting \subseteq rows'[r]
  BY <1>1, <1>3 DEF Lasting
<1>5. run[r] # "none" => run'[r] # "none"
  BY <1>1, <1>3
<1>6. "fresh" \in rows[r] => "fresh" \in rows'[r] \cap Checkpoints
  BY <1>1, <1>3 DEF Checkpoints
<1>7. "month" \in rows[r] /\ run[r] # "succeeded" => "month" \in rows'[r] \cap Checkpoints
  BY <1>1, <1>3 DEF Checkpoints
<1> QED
  BY <1>4, <1>5, <1>6, <1>7

(***************************************************************************)
(* Every other step leaves the rows or adds to them, or lets them grow old *)
(* as what they are.                                                       *)
(***************************************************************************)
LEMMA StepSpares ==
  ASSUME RetentionInv, RetentionStep
  PROVE  SparesTheRest
<1>1. ASSUME NEW r \in Handlers, NEW kind, Inserts(r, kind), UNCHANGED run
      PROVE  SparesTheRest
  BY <1>1, GrowthSpares DEF Inserts, RetentionInv, RetentionTypeOK
<1>2. ASSUME NEW r \in Handlers, NEW to, UNCHANGED rows, run' = [run EXCEPT ![r] = to],
             run[r] # "none" => to # "none"
      PROVE  SparesTheRest
  BY <1>2, GrowthSpares DEF RetentionInv, RetentionTypeOK
<1>3. UNCHANGED <<rows, run>> => SparesTheRest
  BY GrowthSpares
<1>4. ASSUME NEW r \in Handlers, ChatStep(r)
      PROVE  SparesTheRest
  <2>1. CASE EnsureSession(r)
    BY <1>3, <2>1 DEF EnsureSession
  <2>2. CASE CreateRun(r)
    BY <1>2, <2>2 DEF CreateRun
  <2>3. CASE Checkpoint(r)
    BY <1>1, <2>3 DEF Checkpoint
  <2>4. CASE Insert(r)
    BY <1>1, <2>4 DEF Insert
  <2>5. CASE AppendMessages(r)
    BY <1>1, <2>5 DEF AppendMessages
  <2>6. CASE FinishRun(r)
    <3>1. PICK end \in {"failed", "none", "succeeded"} :
            run' = [run EXCEPT ![r] = IF run[r] = "none" \/ end = "none" THEN run[r] ELSE end]
      BY <2>6 DEF FinishRun
    <3>2. UNCHANGED rows
      BY <2>6 DEF FinishRun
    <3> QED
      BY <1>2, <3>1, <3>2
  <2>7. CASE Close(r)
    BY <1>1, <1>3, <2>7 DEF Close
  <2> QED
    BY <1>4, <2>1, <2>2, <2>3, <2>4, <2>5, <2>6, <2>7 DEF ChatStep
<1>5. ASSUME NEW r \in Handlers, World(r)
      PROVE  SparesTheRest
  <2>1. CASE Orphan(r)
    BY <1>2, <2>1 DEF Orphan
  <2>2. CASE Resume(r)
    BY <1>2, <2>2 DEF Resume
  <2>3. CASE Conclude(r)
    <3>1. PICK end \in {"succeeded", "orphaned"} :
            run' = [run EXCEPT ![r] = IF run[r] = "none" THEN run[r] ELSE end]
      BY <2>3 DEF Conclude
    <3>2. UNCHANGED rows
      BY <2>3 DEF Conclude
    <3> QED
      BY <1>2, <3>1, <3>2
  <2>4. CASE Checkpoint(r) \/ Close(r)
    BY <1>4, <1>5, <2>4 DEF World, ChatStep
  <2>5. CASE GrowOld(r)
    <3>1. /\ rows' = [rows EXCEPT ![r] = {Aged(kind) : kind \in @}] /\ UNCHANGED run
      BY <2>5 DEF GrowOld
    <3>2. rows'[r] = {Aged(kind) : kind \in rows[r]} /\ \A q \in Handlers \ {r} : rows'[q] = rows[q]
      BY <3>1 DEF RetentionInv, RetentionTypeOK
    <3>3. \A kind \in rows[r] \cap Checkpoints : Aged(kind) \in rows'[r] \cap Checkpoints
      BY <3>2 DEF Aged, Checkpoints
    <3>4. \A kind \in rows[r] \cap Lasting : Aged(kind) = kind /\ kind \in rows'[r]
      BY <3>2 DEF Aged, Lasting
    <3>5. rows'[r] \cap Checkpoints = {} => "fresh" \notin rows[r] /\ "month" \notin rows[r]
      BY <3>3 DEF Checkpoints
    <3>6. ASSUME NEW q \in Handlers \ {r}
          PROVE  rows'[q] \cap Checkpoints = {} => "fresh" \notin rows[q] /\ "month" \notin rows[q]
      <4>1. rows'[q] = rows[q]
        BY <3>2
      <4> QED
        BY <4>1 DEF Checkpoints
    <3>7. \A q \in Handlers \ {r} : rows[q] \cap Lasting \subseteq rows'[q]
      BY <3>2
    <3> QED
      BY <3>1, <3>4, <3>5, <3>6, <3>7 DEF SparesTheRest
  <2> QED
    BY <1>5, <2>1, <2>2, <2>3, <2>4, <2>5 DEF World, Recovery
<1>6. ASSUME NEW k \in Handlers, Statement(k) \/ RollBack(k)
      PROVE  SparesTheRest
  BY <1>3, <1>6 DEF Statement, RollBack
<1>7. RetentionDies => SparesTheRest
  BY <1>3 DEF RetentionDies
<1>8. UNCHANGED retentionVars => SparesTheRest
  BY <1>3 DEF retentionVars
<1> QED
  BY <1>4, <1>5, <1>6, <1>7, <1>8, CommitSpares DEF RetentionStep

-----------------------------------------------------------------------------
(* Housekeeping                                                            *)

(***************************************************************************)
(* The startup: whoever is inside the initialisation holds the lock, and   *)
(* nobody is once the schema is ready; what a statement has made is there  *)
(* when the next one runs; the build task knows the state of its index.    *)
(***************************************************************************)
StartupInv ==
    /\ StartupTypeOK
    /\ \A r \in Handlers : pc[r] \in Ddl <=> lock = r
    /\ ready => lock = Nobody /\ base /\ policy
    /\ \A r \in Handlers : pc[r] = "served" => ready
    /\ task \in Building => ready
    /\ \A r \in Handlers : pc[r] \in {"column", "policy", "unique"} => base
    /\ \A r \in Handlers : pc[r] = "unique" => policy
    /\ vectors => column
    /\ task = "drop" => index = "invalid"
    /\ task = "create" => index # "invalid"
    /\ index = "building" <=> task = "build"

(***************************************************************************)
(* The invariant of the startup gives the property the run checks: served  *)
(* on the whole schema, and no build beside the statements.                *)
(***************************************************************************)
LEMMA StartupInvSuffices == StartupInv => SchemaStandsFirst
  BY HandlersAssumption DEF StartupInv, SchemaStandsFirst, Building, Ddl, StartupTypeOK

(***************************************************************************)
(* Leaving or entering _get_pool outside the initialisation disturbs       *)
(* nothing, as long as only a ready schema is served.                      *)
(***************************************************************************)
LEMMA GoesOutside ==
  ASSUME StartupInv, NEW r \in Handlers, pc[r] \notin Ddl,
         NEW to \in {"out", "ask", "connect", "lock", "served", "failed"},
         to = "served" => ready, Goes(r, to), UNCHANGED <<databaseVars, processVars>>
  PROVE  StartupInv'
  BY DEF StartupInv, StartupTypeOK, Goes, Ddl, Building, databaseVars, processVars

(***************************************************************************)
(* A step of the initialisation keeps the invariant of the startup.        *)
(***************************************************************************)
LEMMA SchemaStepKeeps ==
  ASSUME StartupInv, NEW r \in Handlers, SchemaStep(r)
  PROVE  StartupInv'
<1>1. CASE GetPool(r)
  <2>1. pc[r] \notin Ddl
    BY <1>1 DEF GetPool, Ddl
  <2>2. \E to \in {"connect", "lock", "served"} : (to = "served" => ready) /\ Goes(r, to)
    BY <1>1 DEF GetPool
  <2> QED
    BY <1>1, <2>1, <2>2, GoesOutside DEF GetPool
<1>2. CASE Connect(r)
  BY <1>2 DEF StartupInv, StartupTypeOK, Connect, Goes, Ddl, Building, databaseVars, processVars
<1>3. CASE TakeLock(r)
  <2>1. CASE ready
    BY <1>3, <2>1 DEF StartupInv, StartupTypeOK, TakeLock, Enters, Goes, Ddl, Building, databaseVars
  <2>2. CASE ~ready
    BY <1>3, <2>2, HandlersAssumption
       DEF StartupInv, StartupTypeOK, TakeLock, Enters, Goes, Ddl, Building, databaseVars
  <2> QED
    BY <2>1, <2>2
<1>4. CASE BaseTables(r)
  <2>1. lock = r /\ ~ready
    BY <1>4, HandlersAssumption DEF StartupInv, BaseTables, Ddl
  <2>2. GivesUp(r) => StartupInv'
    BY <1>4, <2>1, HandlersAssumption
       DEF StartupInv, StartupTypeOK, BaseTables, GivesUp, Goes, Ddl, Building, databaseVars
  <2>3. ~GivesUp(r) => StartupInv'
    BY <1>4, <2>1, HandlersAssumption
       DEF StartupInv, StartupTypeOK, BaseTables, Goes, Ddl, Building, databaseVars
  <2> QED
    BY <2>2, <2>3
<1>5. CASE EmbeddingColumn(r)
  <2>1. lock = r /\ ~ready
    BY <1>5, HandlersAssumption DEF StartupInv, EmbeddingColumn, Ddl
  <2> QED
    BY <1>5, <2>1, HandlersAssumption
       DEF StartupInv, StartupTypeOK, EmbeddingColumn, Goes, Ddl, Building, databaseVars
<1>6. CASE PolicyTables(r)
  <2>1. lock = r /\ ~ready /\ base
    BY <1>6, HandlersAssumption DEF StartupInv, PolicyTables, Ddl
  <2>2. GivesUp(r) => StartupInv'
    BY <1>6, <2>1, HandlersAssumption
       DEF StartupInv, StartupTypeOK, PolicyTables, GivesUp, Goes, Ddl, Building, databaseVars
  <2>3. ASSUME policy' = TRUE, Goes(r, "unique"), UNCHANGED <<base, column, unique, index, vectors, lock>>
        PROVE  StartupInv'
    <3>1. UNCHANGED <<base, column, unique, index, vectors, lock, pools, ready, task, deaths>>
      BY <1>6, <2>3 DEF PolicyTables
    <3>2. StartupTypeOK'
      BY <2>3, <3>1 DEF StartupInv, StartupTypeOK, Goes, Ddl
    <3> QED
      BY <2>1, <2>3, <3>1, <3>2 DEF StartupInv, StartupTypeOK, Goes, Ddl, Building
  <2> QED
    BY <1>6, <2>2, <2>3 DEF PolicyTables
<1>7. CASE UniqueIndex(r)
  <2>1. lock = r /\ ~ready
    BY <1>7, HandlersAssumption DEF StartupInv, UniqueIndex, Ddl
  <2> QED
    BY <1>7, <2>1, HandlersAssumption
       DEF StartupInv, StartupTypeOK, UniqueIndex, Goes, Ddl, Building, databaseVars
<1> QED
  BY <1>1, <1>2, <1>3, <1>4, <1>5, <1>6, <1>7 DEF SchemaStep

(***************************************************************************)
(* So does a step of the build, which changes only its task and the index. *)
(***************************************************************************)
LEMMA BuildStepKeeps ==
  ASSUME StartupInv, BuildStep
  PROVE  StartupInv'
<1>1. CASE Check
  BY <1>1 DEF StartupInv, StartupTypeOK, BuildStep, Check, Ddl, Building
<1>2. CASE Drop
  BY <1>2 DEF StartupInv, StartupTypeOK, BuildStep, Drop, Ddl, Building
<1>3. CASE Create
  BY <1>3 DEF StartupInv, StartupTypeOK, BuildStep, Create, Ddl, Building
<1>4. CASE Built
  BY <1>4 DEF StartupInv, StartupTypeOK, BuildStep, Built, Ddl, Building
<1> QED
  BY <1>1, <1>2, <1>3, <1>4 DEF BuildStep

(***************************************************************************)
(* The requests: one that is not under way is not in _get_pool, and one    *)
(* whose handler works has been served.                                    *)
(***************************************************************************)
RequestInv ==
    /\ where \in [Handlers -> {"idle", "audit", "pool", "work", "answered"}]
    /\ verdict \in [Handlers -> Verdicts \cup {"none"}]
    /\ \A r \in Handlers : where[r] \in {"idle", "answered"} => pc[r] = "out"
    /\ \A r \in Handlers : where[r] = "work" => pc[r] = "served"

(***************************************************************************)
(* Every step of the composition keeps the invariants of the startup and   *)
(* of the requests: a request outside the initialisation holds no lock,    *)
(* and the steps of the others leave the startup alone.                    *)
(***************************************************************************)
LEMMA StartupStep ==
  ASSUME StartupInv, RequestInv, [Next]_vars
  PROVE  StartupInv'
<1>1. ASSUME NEW r \in Handlers, Arrive(r) PROVE StartupInv'
  <2>1. pc[r] = "out"
    BY <1>1 DEF RequestInv, Arrive
  <2>2. \E to \in {"ask", "out"} : Goes(r, to)
    <3>1. CASE UNCHANGED pc
      BY <2>1, <3>1 DEF Goes, StartupInv, StartupTypeOK
    <3>2. CASE Goes(r, "ask")
      BY <3>2
    <3> QED
      BY <1>1, <3>1, <3>2 DEF Arrive
  <2> QED
    BY <1>1, <2>1, <2>2, GoesOutside DEF Arrive, Ddl
<1>2. ASSUME NEW r \in Handlers, Audited(r) PROVE StartupInv'
  <2>1. pc[r] \notin Ddl
    BY <1>2 DEF Audited, Ddl
  <2>2. \E to \in {"ask", "out"} : Goes(r, to)
    BY <1>2 DEF Audited
  <2> QED
    BY <1>2, <2>1, <2>2, GoesOutside DEF Audited
<1>3. ASSUME NEW r \in Handlers, Handled(r) PROVE StartupInv'
  <2>1. pc[r] \notin Ddl
    BY <1>3 DEF Handled, Ddl
  <2>2. \/ UNCHANGED <<pc, databaseVars, processVars>>
        \/ Goes(r, "out")
    BY <1>3 DEF Handled
  <2>3. UNCHANGED <<pc, databaseVars, processVars>> => StartupInv'
    BY DEF StartupInv, StartupTypeOK, Ddl, Building, databaseVars, processVars
  <2> QED
    BY <1>3, <2>1, <2>2, <2>3, GoesOutside DEF Handled
<1>4. ASSUME NEW r \in Handlers, InPool(r) PROVE StartupInv'
  BY <1>4, SchemaStepKeeps DEF InPool
<1>5. ASSUME NEW r \in Handlers, Ends(r) PROVE StartupInv'
  <2>1. where[r] = "work" /\ Goes(r, "out") /\ UNCHANGED <<databaseVars, processVars>>
    BY <1>5 DEF Ends
  <2>2. pc[r] \notin Ddl
    BY <2>1 DEF RequestInv, Ddl
  <2> QED
    BY <2>1, <2>2, GoesOutside
<1>6. CASE Build
  BY <1>6, BuildStepKeeps DEF Build
<1>7. CASE Restart
  <2>1. /\ pools' = 0 /\ ready' = FALSE /\ vectors' = FALSE /\ lock' = Nobody /\ task' = "none"
        /\ index' \in IF index = "building" THEN {"invalid", "valid"} ELSE {index}
        /\ UNCHANGED <<base, column, policy, unique>>
        /\ pc' = [r \in Handlers |-> "out"]
        /\ deaths < Restarts /\ deaths' = deaths + 1
    BY <1>7 DEF Restart, ProcessDies
  <2>2. deaths' \in 0..Restarts
    BY <2>1, StartupAssumption DEF StartupInv, StartupTypeOK
  <2>3. pc' \in [Handlers -> {"out", "ask", "connect", "lock", "served", "failed"} \cup Ddl]
    BY <2>1
  <2>4. StartupTypeOK'
    BY <2>1, <2>2, <2>3 DEF StartupInv, StartupTypeOK, Building
  <2> QED
    BY <2>1, <2>4, HandlersAssumption DEF StartupInv, StartupTypeOK, Ddl, Building
<1>8. CASE UNCHANGED startupVars
  BY <1>8 DEF startupVars, databaseVars, processVars, StartupInv, StartupTypeOK, Ddl, Building
<1>9. ASSUME NEW r \in Handlers, Works(r) \/ AsksAgain(r) \/ Others(r) PROVE UNCHANGED startupVars
  BY <1>9 DEF Works, AsksAgain, Others
<1>10. Time => UNCHANGED startupVars
  BY DEF Time
<1>11. UNCHANGED vars => UNCHANGED startupVars
  BY DEF vars
<1> QED
  BY <1>1, <1>2, <1>3, <1>4, <1>5, <1>6, <1>7, <1>8, <1>9, <1>10, <1>11 DEF Next, Request

(***************************************************************************)
(* The invariant of the requests is kept too.                              *)
(***************************************************************************)
LEMMA RequestStep ==
  ASSUME StartupInv, RequestInv, [Next]_vars
  PROVE  RequestInv'
<1>0. pc \in [Handlers -> {"out", "ask", "connect", "lock", "served", "failed"} \cup Ddl]
  BY DEF StartupInv, StartupTypeOK
<1>1. ASSUME NEW r \in Handlers, Arrive(r) PROVE RequestInv'
  <2>1. Verdict(ClientOf(r), BearsToken(r)) \in Verdicts
    BY DEF Verdict, Verdicts
  <2> QED
    BY <1>0, <1>1, <2>1 DEF RequestInv, Arrive, Moves, Goes
<1>2. ASSUME NEW r \in Handlers, Audited(r) PROVE RequestInv'
  BY <1>0, <1>2 DEF RequestInv, Audited, Moves, Goes
<1>3. ASSUME NEW r \in Handlers, Handled(r) PROVE RequestInv'
  BY <1>0, <1>3 DEF RequestInv, Handled, Moves, Goes
<1>4. ASSUME NEW r \in Handlers, InPool(r) PROVE RequestInv'
  <2>1. \A q \in Handlers : q # r => pc'[q] = pc[q]
    BY <1>0, <1>4 DEF InPool, SchemaStep, GetPool, Connect, TakeLock, Enters, BaseTables,
                      EmbeddingColumn, PolicyTables, UniqueIndex, GivesUp, Goes
  <2> QED
    BY <1>4, <2>1 DEF RequestInv, InPool, requestVars
<1>5. ASSUME NEW r \in Handlers, Ends(r) PROVE RequestInv'
  BY <1>0, <1>5 DEF RequestInv, Ends, Moves, Goes
<1>6. ASSUME NEW r \in Handlers, AsksAgain(r) PROVE RequestInv'
  BY <1>6 DEF RequestInv, AsksAgain, Moves, startupVars
<1>7. CASE Restart
  BY <1>7 DEF RequestInv, Restart
<1>8. CASE UNCHANGED <<pc, requestVars>>
  BY <1>8 DEF RequestInv, requestVars
<1>9. ASSUME NEW r \in Handlers, Works(r) \/ Others(r) PROVE UNCHANGED <<pc, requestVars>>
  BY <1>9 DEF Works, Others, startupVars
<1>10. Build \/ Time => UNCHANGED <<pc, requestVars>>
  BY DEF Build, BuildStep, Time, startupVars
<1>11. UNCHANGED vars => UNCHANGED <<pc, requestVars>>
  BY DEF vars, startupVars
<1> QED
  BY <1>1, <1>2, <1>3, <1>4, <1>5, <1>6, <1>7, <1>8, <1>9, <1>10, <1>11 DEF Next, Request

(***************************************************************************)
(* The throttle: a failure still noted is as old as the last wrong token   *)
(* of its own client.                                                      *)
(***************************************************************************)
AuthInv ==
    /\ AuthTypeOK
    /\ \A c \in Clients : failures[c] > 0 => age[c] = wrong[c]

(***************************************************************************)
(* An attempt keeps the note true, whatever it bears.                      *)
(***************************************************************************)
LEMMA AttemptKeeps ==
  ASSUME AuthInv, NEW c \in Clients, NEW right \in BOOLEAN, Attempt(c, right)
  PROVE  AuthInv'
<1> DEFINE v == Verdict(c, right)
<1>1. Remembered(c) \in 0..TooMany /\ (Remembered(c) > 0 => Remembered(c) = failures[c])
  BY AuthAssumption DEF AuthInv, AuthTypeOK, Remembered
<1>2. v = "unauthenticated" => Remembered(c) < TooMany
  BY <1>1, AuthAssumption DEF Verdict
<1>3. v \in {"admitted", "unauthenticated", "throttled", "error"}
  BY DEF Verdict
<1>4. CASE v = "unauthenticated"
  BY <1>1, <1>2, <1>4, AuthAssumption DEF AuthInv, AuthTypeOK, Attempt, Noted, Entry, Ages
<1>5. CASE v = "admitted"
  BY <1>5, AuthAssumption DEF AuthInv, AuthTypeOK, Attempt, Noted, Entry, Ages
<1>6. CASE v \in {"throttled", "error"}
  BY <1>1, <1>6, AuthAssumption DEF AuthInv, AuthTypeOK, Attempt, Noted, Entry, Ages
<1> QED
  BY <1>3, <1>4, <1>5, <1>6

(***************************************************************************)
(* Every step of the composition keeps the invariant of the throttle.      *)
(***************************************************************************)
LEMMA AuthStep ==
  ASSUME AuthInv, cast \in Casts, [Next]_vars
  PROVE  AuthInv'
<1>1. ASSUME NEW r \in Handlers, Arrive(r) PROVE AuthInv'
  <2>1. ClientOf(r) \in Clients /\ BearsToken(r) \in BOOLEAN
    BY CastAssumption DEF ClientOf, BearsToken
  <2> QED
    BY <1>1, <2>1, AttemptKeeps DEF Arrive
<1>2. CASE Time
  BY <1>2, AuthAssumption DEF Time, Tick, Older, AuthInv, AuthTypeOK, Ages
<1>3. CASE Restart
  BY <1>3, AuthAssumption DEF Restart, AuthRestart, AuthInv, AuthTypeOK, Ages
<1>4. CASE UNCHANGED authVars
  BY <1>4 DEF authVars, AuthInv, AuthTypeOK
<1>5. ASSUME NEW r \in Handlers, Request(r) \/ AsksAgain(r) \/ Others(r) PROVE UNCHANGED authVars
  BY <1>5 DEF Request, Audited, Handled, InPool, Works, Ends, AsksAgain, Others
<1>6. Build => UNCHANGED authVars
  BY DEF Build
<1>7. UNCHANGED vars => UNCHANGED authVars
  BY DEF vars
<1> QED
  BY <1>1, <1>2, <1>3, <1>4, <1>5, <1>6, <1>7 DEF Next

(***************************************************************************)
(* A refusal is earned: when the throttle or the overflow refuses a client *)
(* there is a note, and it is as old as the client's own wrong token.      *)
(***************************************************************************)
LEMMA RefusalIsEarned ==
  ASSUME AuthInv, NEW c \in Clients, NEW right \in BOOLEAN
  PROVE  /\ Verdict(c, right) = "throttled" => wrong[c] < MaxDelay
         /\ Verdict(c, right) = "error" => wrong[c] <= Reset
<1>1. Verdict(c, right) \in {"throttled", "error"} => Remembered(c) > 0
  BY AuthAssumption DEF Verdict, AuthInv, AuthTypeOK, Remembered
<1>2. Remembered(c) > 0 => age[c] = wrong[c] /\ age[c] <= Reset
  BY AuthAssumption DEF AuthInv, AuthTypeOK, Remembered, Ages
<1>3. Verdict(c, right) = "throttled" => age[c] < MaxDelay
  BY DEF Verdict, TooSoon
<1> QED
  BY <1>1, <1>2, <1>3

(***************************************************************************)
(* The tables change by the steps of runs and cleanups only.               *)
(***************************************************************************)
LEMMA NextIsRetentionStep ==
  ASSUME [Next]_vars
  PROVE  RetentionStep
<1>1. ASSUME NEW r \in Handlers, Works(r) \/ Ends(r) \/ Others(r)
      PROVE  RetentionStep
  BY <1>1 DEF Works, Ends, Others, RetentionStep
<1>2. Restart => RetentionStep
  BY DEF Restart, RetentionStep
<1>3. ASSUME NEW r \in Handlers, Arrive(r) \/ Audited(r) \/ Handled(r) \/ InPool(r) \/ AsksAgain(r)
      PROVE  UNCHANGED retentionVars
  BY <1>3 DEF Arrive, Audited, Handled, InPool, AsksAgain
<1>4. Build \/ Time \/ UNCHANGED vars => UNCHANGED retentionVars
  BY DEF Build, Time, vars
<1>5. UNCHANGED retentionVars => RetentionStep
  BY DEF RetentionStep
<1> QED
  BY <1>1, <1>2, <1>3, <1>4, <1>5 DEF Next, Request

(***************************************************************************)
(* The invariant of the whole: one for each part.                          *)
(***************************************************************************)
IInv == StartupInv /\ RequestInv /\ AuthInv /\ RetentionInv

(***************************************************************************)
(* It holds when the program first starts.                                 *)
(***************************************************************************)
LEMMA InitInv == Init => IInv
<1> SUFFICES ASSUME Init PROVE IInv
  OBVIOUS
<1>1. StartupInv
  <2>1. /\ base = FALSE /\ column = FALSE /\ policy = FALSE /\ unique = FALSE /\ index = "none"
        /\ pools = 0 /\ ready = FALSE /\ vectors = FALSE /\ lock = Nobody /\ task = "none"
        /\ pc = [r \in Handlers |-> "out"] /\ deaths = 0
    BY DEF Init, StartupInit
  <2>2. deaths \in 0..Restarts
    BY <2>1, StartupAssumption
  <2>3. StartupTypeOK
    BY <2>1, <2>2 DEF StartupTypeOK
  <2> QED
    BY <2>1, <2>3, HandlersAssumption DEF StartupInv, Ddl, Building
<1>2. RequestInv
  BY DEF Init, StartupInit, RequestsInit, RequestInv
<1>3. AuthInv
  BY AuthAssumption DEF Init, AuthInit, AuthInv, AuthTypeOK, Ages
<1>4. RetentionInv
  <2>1. \A r \in Handlers : SessionOf(r) \in Sessions
    BY CastAssumption DEF Init, RetentionInit, SessionOf
  <2> QED
    BY <2>1, RetentionStarts DEF Init
<1> QED
  BY <1>1, <1>2, <1>3, <1>4 DEF IInv

(***************************************************************************)
(* Every step keeps it.                                                    *)
(***************************************************************************)
LEMMA NextInv == IInv /\ [Next]_vars => IInv'
  BY StartupStep, RequestStep, AuthStep, NextIsRetentionStep, RetentionKeeps
     DEF IInv, RetentionInv, RetentionTypeOK

(***************************************************************************)
(* So it holds throughout.                                                 *)
(***************************************************************************)
THEOREM Invariance == Spec => []IInv
  BY InitInv, NextInv, PTL DEF Spec

(***************************************************************************)
(* Every variable has its type, whatever the requests and the restarts.    *)
(***************************************************************************)
THEOREM TypeCorrectness == Spec => []TypeOK
<1>1. IInv => TypeOK
  BY DEF IInv, TypeOK, StartupInv, RequestInv, AuthInv, RetentionInv
<1> QED
  BY <1>1, Invariance, PTL

(***************************************************************************)
(* A request is served only on the whole schema, the index is never built  *)
(* beside the statements, and vectors are offered only with their column.  *)
(***************************************************************************)
THEOREM SchemaComesFirst == Spec => []SchemaStandsFirst
<1>1. IInv => SchemaStandsFirst
  BY StartupInvSuffices DEF IInv
<1> QED
  BY <1>1, Invariance, PTL

(***************************************************************************)
(* A test's run that was at rest when a cleanup chose it leaves nothing.   *)
(***************************************************************************)
THEOREM NothingIsLeft == Spec => []RestingTestRunsLeaveNothing
<1>1. IInv => RestingTestRunsLeaveNothing
  BY DEF IInv, RetentionInv
<1> QED
  BY <1>1, Invariance, PTL

(***************************************************************************)
(* A cleanup spares the conversations of no test, but for checkpoints past *)
(* their age.                                                              *)
(***************************************************************************)
THEOREM TheRestIsSpared == Spec => OnlyTestDataIsDeleted
<1>1. IInv /\ [Next]_vars => [SparesTheRest]_retentionVars
  BY NextIsRetentionStep, StepSpares DEF IInv
<1> QED
  BY <1>1, Invariance, PTL DEF Spec, OnlyTestDataIsDeleted

(***************************************************************************)
(* The answers a process has given stand: only the holder of the lock of   *)
(* an unready schema sets what vector_storage_available tells, only an     *)
(* index that is invalid is dropped, and none that is invalid passes.      *)
(***************************************************************************)
THEOREM AnswersAreKept == Spec => ServedAnswersStand
<1>1. IInv /\ [Next]_vars => [AnswersStand]_startupVars
  <2> SUFFICES ASSUME IInv, [Next]_vars PROVE AnswersStand
    OBVIOUS
  <2>1. ASSUME NEW r \in Handlers, SchemaStep(r) PROVE AnswersStand
    <3>1. pc[r] \in Ddl => ~ready
      BY HandlersAssumption DEF IInv, StartupInv
    <3>2. UNCHANGED index
      BY <2>1 DEF SchemaStep, GetPool, Connect, TakeLock, BaseTables, EmbeddingColumn,
                  PolicyTables, UniqueIndex, GivesUp, databaseVars
    <3>3. pc[r] \notin Ddl => UNCHANGED vectors
      BY <2>1 DEF SchemaStep, GetPool, Connect, TakeLock, BaseTables, EmbeddingColumn,
                  PolicyTables, UniqueIndex, processVars, Ddl
    <3>4. task = "create" => task' = task
      BY <2>1 DEF SchemaStep, GetPool, Connect, TakeLock, BaseTables, EmbeddingColumn,
                  PolicyTables, UniqueIndex, processVars, Building
    <3> QED
      BY <3>1, <3>2, <3>3, <3>4 DEF AnswersStand
  <2>2. CASE BuildStep
    BY <2>2 DEF BuildStep, Check, Drop, Create, Built, AnswersStand, IInv, StartupInv, StartupTypeOK
  <2>3. CASE Restart
    BY <2>3 DEF Restart, ProcessDies, AnswersStand
  <2>4. CASE UNCHANGED <<databaseVars, processVars>>
    BY <2>4 DEF databaseVars, processVars, AnswersStand
  <2>5. ASSUME NEW r \in Handlers,
               Arrive(r) \/ Audited(r) \/ Handled(r) \/ Works(r) \/ Ends(r) \/ AsksAgain(r) \/ Others(r)
        PROVE  UNCHANGED <<databaseVars, processVars>>
    BY <2>5 DEF Arrive, Audited, Handled, Works, Ends, AsksAgain, Others, startupVars
  <2>6. Time \/ UNCHANGED vars => UNCHANGED <<databaseVars, processVars>>
    BY DEF Time, vars, startupVars
  <2> QED
    BY <2>1, <2>2, <2>3, <2>4, <2>5, <2>6 DEF Next, Request, InPool, Build
<1> QED
  BY <1>1, Invariance, PTL DEF Spec, ServedAnswersStand

(***************************************************************************)
(* Only a client's own wrong token, given not long ago, has it refused.    *)
(***************************************************************************)
THEOREM RefusalsAreEarnedAlways == Spec => RefusalsAreEarned
<1>1. IInv /\ [Next]_vars => [EarnedRefusals]_vars
  <2> SUFFICES ASSUME IInv, [Next]_vars PROVE EarnedRefusals
    OBVIOUS
  <2>1. ASSUME NEW r \in Handlers, Arrive(r) PROVE EarnedRefusals
    <3>1. ClientOf(r) \in Clients /\ BearsToken(r) \in BOOLEAN
      BY CastAssumption DEF ClientOf, BearsToken, IInv, RetentionInv, RetentionTypeOK
    <3>2. verdict' = [verdict EXCEPT ![r] = Verdict(ClientOf(r), BearsToken(r))]
      BY <2>1 DEF Arrive
    <3> QED
      BY <3>1, <3>2, RefusalIsEarned DEF IInv, RequestInv, EarnedRefusals
  <2>2. (\A r \in Handlers : verdict'[r] \in {verdict[r], "none"}) => EarnedRefusals
    BY DEF EarnedRefusals
  <2>3. ASSUME NEW r \in Handlers, Request(r) \/ Others(r) PROVE UNCHANGED verdict
    BY <2>3 DEF Request, Audited, Handled, InPool, Works, Ends, Others, requestVars
  <2>4. Build \/ Time \/ UNCHANGED vars => UNCHANGED verdict
    BY DEF Build, Time, vars, requestVars
  <2>5. ASSUME NEW q \in Handlers, AsksAgain(q)
        PROVE  \A r \in Handlers : verdict'[r] \in {verdict[r], "none"}
    BY <2>5 DEF AsksAgain, IInv, RequestInv
  <2>6. Restart => \A r \in Handlers : verdict'[r] \in {verdict[r], "none"}
    BY DEF Restart
  <2> QED
    BY <2>1, <2>2, <2>3, <2>4, <2>5, <2>6 DEF Next
<1> QED
  BY <1>1, Invariance, PTL DEF Spec, RefusalsAreEarned
=============================================================================
