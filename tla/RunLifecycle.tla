---------------------------- MODULE RunLifecycle ----------------------------
(***************************************************************************)
(* One chat run of the agent, from POST /chat/message to its terminal row, *)
(* with the lease that names the worker driving it and the recovery path   *)
(* that finishes a run whose worker was lost.                              *)
(*                                                                         *)
(* Three kinds of actors write the same row of agent_runs:                 *)
(*   - the chat handler (server.chat_message), a sequence of awaited       *)
(*     database statements around one model call;                          *)
(*   - its heartbeat task (server._run_lease_heartbeat), which renews the  *)
(*     lease while the model runs and at no other time;                    *)
(*   - resume handlers (server.run_resume_route), which mark lapsed runs   *)
(*     orphaned, claim one and complete its persisted tail.                *)
(*                                                                         *)
(* One action is one awaited statement with the code up to the next await. *)
(* A statement can succeed, fail, or commit while its client sees an error *)
(* (command_timeout = 30, persistence_core.create_pool): the last is "lost"*)
(*                                                                         *)
(* Bounds: MaxFaults caps, in one behaviour, the statement errors plus the *)
(* crashes of resume handlers; a chat handler crashes at most once anyway. *)
(***************************************************************************)
EXTENDS Naturals, FiniteSets

CONSTANTS
  Run,          \* run ids, the primary key of agent_runs
  Chat,         \* POST /chat/message requests
  Resume,       \* POST /runs/{id}/resume clients, each may ask again and again
  Worker,       \* worker ids written to agent_runs.worker_id
  NoWorker,     \* SQL NULL in worker_id
  RunOf,        \* the run id each request names
  WorkerOf,     \* WORKER_ID of the process serving a chat, WORKER_ID:recovery
                \* of the one serving a resume
  Stalls,       \* can a process be suspended, or one checkpoint of it delayed,
                \* for longer than a lease?
  MaxFaults     \* bound on statement errors and resume crashes

Handler == Chat \cup Resume

ASSUME HandlersDisjoint == Chat \cap Resume = {}
ASSUME RunOfType == RunOf \in [Handler -> Run]
ASSUME WorkerOfType == WorkerOf \in [Handler -> Worker] /\ NoWorker \notin Worker
ASSUME RecoveryWorkerIdsDiffer ==
  \A c \in Chat, k \in Resume : WorkerOf[c] # WorkerOf[k]
ASSUME StallsType == Stalls \in BOOLEAN
ASSUME MaxFaultsType == MaxFaults \in Nat

VARIABLES
  row,      \* the agent_runs table
  batches,  \* run -> answers appended to agent_messages
  calls,    \* run -> model calls started (history)
  pc,       \* chat -> where its handler is
  mem,      \* chat -> the stage its in-memory RunState holds
  beat,     \* chat -> is its heartbeat task alive
  reply,    \* chat -> what the owner was answered
  rpc,      \* resume -> where its handler is
  seen,     \* resume -> the stage it read before claiming
  answer,   \* resume -> what the owner was answered
  faults    \* statement errors and resume crashes so far

chatVars == <<pc, mem, beat, reply>>
resumeVars == <<rpc, seen, answer>>
vars == <<row, batches, calls, pc, mem, beat, reply, rpc, seen, answer, faults>>

-----------------------------------------------------------------------------
(* run_state.py                                                            *)

RunStage == {"created", "context_loaded", "model_running", "response_ready",
             "response_persisted", "completed", "failed"}

Terminal == {"succeeded", "failed"}

\* _ALLOWED_TRANSITIONS
AllowedTransitions ==
  [created            |-> {"context_loaded", "failed"},
   context_loaded     |-> {"model_running", "failed"},
   model_running      |-> {"response_ready", "failed"},
   response_ready     |-> {"response_persisted", "failed"},
   response_persisted |-> {"completed", "failed"},
   completed          |-> {},
   failed             |-> {}]

\* Mutant: the model stage is taken for a persisted tail
PermissiveRecoveryAction(stage) ==
  CASE stage \in {"model_running", "response_ready", "response_persisted"}
         -> "complete_persisted_tail"
    [] stage \in {"created", "context_loaded"} -> "retry_new_run"
    [] OTHER -> "noop"

\* Mutant: a persisted response is sent to manual review
TimidRecoveryAction(stage) ==
  CASE stage = "response_ready" -> "complete_persisted_tail"
    [] stage \in {"created", "context_loaded"} -> "retry_new_run"
    [] stage \in {"model_running", "response_persisted"} -> "manual_review"
    [] OTHER -> "noop"

RecoveryAction(stage) ==
  CASE stage \in {"response_ready", "response_persisted"} -> "complete_persisted_tail"
    [] stage \in {"created", "context_loaded"} -> "retry_new_run"
    [] stage = "model_running" -> "manual_review"
    [] OTHER -> "noop"

-----------------------------------------------------------------------------
(* The agent_runs row and the statements of persistence_runs.py            *)

Lease == {"null", "fresh", "aging", "lapsed"}
LiveLease == {"fresh", "aging"}          \* lease_expires_at > NOW()

RunRow == [status   : {"absent", "running"} \cup Terminal,
           stage    : RunStage,
           recovery : {"active", "orphaned", "resolved"},
           worker   : Worker \cup {NoWorker},
           lease    : Lease,
           attempt  : 0..2]      \* attempt_count, 2 standing for two or more

NoRow == [status |-> "absent", stage |-> "created", recovery |-> "active",
          worker |-> NoWorker, lease |-> "null", attempt |-> 0]

\* INSERT of create_run; run_id is the primary key
Inserted(tbl, r, w) ==
  [tbl EXCEPT ![r] = [status |-> "running", stage |-> "created",
                      recovery |-> "active", worker |-> w, lease |-> "fresh",
                      attempt |-> 1]]

\* UPDATE of finish_run: by run_id alone, whoever holds the lease
Finished(tbl, r, s) ==
  [tbl EXCEPT ![r] = [@ EXCEPT !.status = s, !.recovery = "resolved",
                                !.worker = NoWorker, !.lease = "null"]]

\* Mutant: the lease's expiry is not tested
EagerOrphaned(tbl) ==
  [r \in Run |->
     IF tbl[r].status = "running" /\ tbl[r].recovery = "active"
       THEN [tbl[r] EXCEPT !.recovery = "orphaned", !.worker = NoWorker, !.lease = "null"]
       ELSE tbl[r]]

\* UPDATE of mark_orphaned_runs
Orphaned(tbl) ==
  [r \in Run |->
     IF tbl[r].status = "running" /\ tbl[r].recovery = "active" /\ tbl[r].lease = "lapsed"
       THEN [tbl[r] EXCEPT !.recovery = "orphaned", !.worker = NoWorker, !.lease = "null"]
       ELSE tbl[r]]

\* WHERE clause and SET list of claim_orphaned_run
Claimable(r) ==
  /\ row[r].status = "running"
  /\ row[r].recovery = "orphaned"
  /\ row[r].lease \notin LiveLease
Claimed(tbl, r, w) ==
  [tbl EXCEPT ![r] = [@ EXCEPT !.recovery = "active", !.worker = w,
                                !.lease = "fresh", !.attempt = 2]]

\* release_orphaned_run: matched by worker id, which every resume handler of a
\* process shares
Released(tbl, r, w) ==
  IF tbl[r].status = "running" /\ tbl[r].worker = w
    THEN [tbl EXCEPT ![r] = [@ EXCEPT !.recovery = "orphaned", !.worker = NoWorker,
                                      !.lease = "null"]]
    ELSE tbl

\* WHERE clause of renew_run_lease
Renewable(r, w) ==
  row[r].status = "running" /\ row[r].worker = w /\ row[r].lease \in LiveLease

\* record_run_checkpoint: the stage is written unconditionally
Staged(tbl, r, s) == [tbl EXCEPT ![r] = [@ EXCEPT !.stage = s]]

(***************************************************************************)
(* Outcome of one awaited statement, as its caller sees it.                *)
(***************************************************************************)
Outcome == {"ok", "lost", "err"}
Committed(o) == o # "err"
Counted(o) ==
  /\ o # "ok" => faults < MaxFaults
  /\ faults' = IF o = "ok" THEN faults ELSE faults + 1

-----------------------------------------------------------------------------
(* The chat handler                                                        *)

ChatPC == {"new", "context", "starting", "model", "answered", "append",
           "appended", "finish", "completing", "failing", "noting", "done"}

\* save_checkpoint: the in-memory transition is made first, an illegal one is
\* dropped, and a failed write is logged and forgotten, so row may lag mem
SaveCheckpoint(c, stage, next) ==
  /\ pc' = [pc EXCEPT ![c] = next]
  /\ IF stage \in AllowedTransitions[mem[c]]
       THEN /\ mem' = [mem EXCEPT ![c] = stage]
            /\ \E o \in {"ok", "err"} :
                 /\ Counted(o)
                 /\ row' = IF Committed(o) THEN Staged(row, RunOf[c], stage) ELSE row
       ELSE UNCHANGED <<mem, row, faults>>

\* Mutant: an upsert, so a repeated run_id is accepted
UncheckedCreateRun(c) ==
  /\ pc[c] = "new"
  /\ row' = Inserted(row, RunOf[c], WorkerOf[c])
  /\ pc' = [pc EXCEPT ![c] = "context"]
  /\ UNCHANGED <<batches, calls, mem, beat, reply, resumeVars, faults>>

\* ensure_session, load_message_history, create_run
CreateRun(c) ==
  /\ pc[c] = "new"
  /\ \E o \in Outcome :
       /\ Counted(o)
       /\ LET r == RunOf[c]
              inserted == Committed(o) /\ row[r].status = "absent"
          IN /\ row' = IF inserted THEN Inserted(row, r, WorkerOf[c]) ELSE row
             /\ IF o = "ok" /\ inserted
                  THEN /\ pc' = [pc EXCEPT ![c] = "context"]
                       /\ UNCHANGED reply
                  ELSE /\ pc' = [pc EXCEPT ![c] = "done"]
                       /\ reply' = [reply EXCEPT ![c] = "error"]
  /\ UNCHANGED <<batches, calls, mem, beat, resumeVars>>

\* CONTEXT_LOADED, then the heartbeat task is created
SaveContext(c) ==
  /\ pc[c] = "context"
  /\ SaveCheckpoint(c, "context_loaded", "starting")
  /\ beat' = [beat EXCEPT ![c] = TRUE]
  /\ UNCHANGED <<batches, calls, reply, resumeVars>>

\* MODEL_RUNNING, then run_ahmed is entered
StartModel(c) ==
  /\ pc[c] = "starting"
  /\ SaveCheckpoint(c, "model_running", "model")
  /\ calls' = [calls EXCEPT ![RunOf[c]] = @ + 1]
  /\ UNCHANGED <<batches, beat, reply, resumeVars>>

\* Mutant: the heartbeat is stopped on the success path only
LingeringModelReturns(c) ==
  /\ pc[c] = "model"
  /\ \/ /\ pc' = [pc EXCEPT ![c] = "answered"]
        /\ beat' = [beat EXCEPT ![c] = FALSE]
     \/ /\ pc' = [pc EXCEPT ![c] = "failing"]
        /\ UNCHANGED beat
  /\ UNCHANGED <<row, batches, calls, mem, reply, resumeVars, faults>>

\* run_ahmed returns or raises; either way the heartbeat is stopped first
ModelReturns(c) ==
  /\ pc[c] = "model"
  /\ pc' \in {[pc EXCEPT ![c] = "answered"], [pc EXCEPT ![c] = "failing"]}
  /\ beat' = [beat EXCEPT ![c] = FALSE]
  /\ UNCHANGED <<row, batches, calls, mem, reply, resumeVars, faults>>

\* RESPONSE_READY
SaveReady(c) ==
  /\ pc[c] = "answered"
  /\ SaveCheckpoint(c, "response_ready", "append")
  /\ UNCHANGED <<batches, calls, beat, reply, resumeVars>>

\* Mutant: a failed append is swallowed like a checkpoint
SkippingAppend(c) ==
  /\ pc[c] = "append"
  /\ \E o \in Outcome :
       /\ Counted(o)
       /\ batches' = IF o = "ok" THEN [batches EXCEPT ![RunOf[c]] = @ + 1] ELSE batches
       /\ pc' = [pc EXCEPT ![c] = "appended"]
  /\ UNCHANGED <<row, calls, mem, beat, reply, resumeVars>>

\* append_new_messages, one transaction
AppendMessages(c) ==
  /\ pc[c] = "append"
  /\ \E o \in Outcome :
       /\ Counted(o)
       /\ batches' = IF Committed(o) THEN [batches EXCEPT ![RunOf[c]] = @ + 1]
                                     ELSE batches
       /\ pc' = [pc EXCEPT ![c] = IF o = "ok" THEN "appended" ELSE "failing"]
  /\ UNCHANGED <<row, calls, mem, beat, reply, resumeVars>>

\* RESPONSE_PERSISTED
SavePersisted(c) ==
  /\ pc[c] = "appended"
  /\ SaveCheckpoint(c, "response_persisted", "finish")
  /\ UNCHANGED <<batches, calls, beat, reply, resumeVars>>

\* Mutant: a failed finish_run is swallowed like a checkpoint
OptimisticFinish(c) ==
  /\ pc[c] = "finish"
  /\ \E o \in Outcome :
       /\ Counted(o)
       /\ row' = IF Committed(o) THEN Finished(row, RunOf[c], "succeeded") ELSE row
  /\ pc' = [pc EXCEPT ![c] = "completing"]
  /\ UNCHANGED <<batches, calls, mem, beat, reply, resumeVars>>

\* finish_run(succeeded); a lost acknowledgement is taken for a failure
Finish(c) ==
  /\ pc[c] = "finish"
  /\ \E o \in Outcome :
       /\ Counted(o)
       /\ row' = IF Committed(o) THEN Finished(row, RunOf[c], "succeeded") ELSE row
       /\ pc' = [pc EXCEPT ![c] = IF o = "ok" THEN "completing" ELSE "failing"]
  /\ UNCHANGED <<batches, calls, mem, beat, reply, resumeVars>>

\* COMPLETED, then the answer is returned
Complete(c) ==
  /\ pc[c] = "completing"
  /\ SaveCheckpoint(c, "completed", "done")
  /\ reply' = [reply EXCEPT ![c] = "ok"]
  /\ UNCHANGED <<batches, calls, beat, resumeVars>>

\* finish_run(failed) on every exception path; its own failure is only logged
FinishFailed(c) ==
  /\ pc[c] = "failing"
  /\ \E o \in {"ok", "err"} :
       /\ Counted(o)
       /\ row' = IF Committed(o) THEN Finished(row, RunOf[c], "failed") ELSE row
  /\ pc' = [pc EXCEPT ![c] = "noting"]
  /\ UNCHANGED <<batches, calls, mem, beat, reply, resumeVars>>

\* FAILED, then the error answer
NoteFailed(c) ==
  /\ pc[c] = "noting"
  /\ SaveCheckpoint(c, "failed", "done")
  /\ reply' = [reply EXCEPT ![c] = "error"]
  /\ UNCHANGED <<batches, calls, beat, resumeVars>>

\* The process dies, or the request task is cancelled, between two awaits
Crash(c) ==
  /\ pc[c] \notin {"new", "done"}
  /\ pc' = [pc EXCEPT ![c] = "done"]
  /\ beat' = [beat EXCEPT ![c] = FALSE]
  /\ UNCHANGED <<row, batches, calls, mem, reply, resumeVars, faults>>

ChatStep(c) ==
  \/ CreateRun(c) \/ SaveContext(c) \/ StartModel(c) \/ ModelReturns(c)
  \/ SaveReady(c) \/ AppendMessages(c) \/ SavePersisted(c) \/ Finish(c)
  \/ Complete(c) \/ FinishFailed(c) \/ NoteFailed(c)

-----------------------------------------------------------------------------
(* The lease: time passing and the heartbeat task                          *)

\* renew_run_lease matched the row
HeartbeatRenews(c) ==
  /\ beat[c]
  /\ Renewable(RunOf[c], WorkerOf[c])
  /\ row' = [row EXCEPT ![RunOf[c]] = [@ EXCEPT !.lease = "fresh"]]
  /\ UNCHANGED <<batches, calls, chatVars, resumeVars, faults>>

\* It matched nothing, or one statement failed: the task ends for good
HeartbeatStops(c) ==
  /\ beat[c]
  /\ \/ ~Renewable(RunOf[c], WorkerOf[c]) /\ UNCHANGED faults
     \/ Counted("err")
  /\ beat' = [beat EXCEPT ![c] = FALSE]
  /\ UNCHANGED <<row, batches, calls, pc, mem, reply, resumeVars>>

\* A worker that renews the lease, or has just been granted it and is about to
\* start its heartbeat.  Nothing covers the statements after the model call.
Covered(r) == \E c \in Chat : RunOf[c] = r /\ (beat[c] \/ pc[c] = "context")

\* A heartbeat period passes
LeaseAges(r) ==
  /\ row[r].lease = "fresh"
  /\ row' = [row EXCEPT ![r] = [@ EXCEPT !.lease = "aging"]]
  /\ UNCHANGED <<batches, calls, chatVars, resumeVars, faults>>

\* The 120 s lease runs out.  A live heartbeat (every 30 s) prevents that
\* unless its process stalls.
LeaseLapses(r) ==
  /\ row[r].lease = "aging"
  /\ Covered(r) => Stalls
  /\ row' = [row EXCEPT ![r] = [@ EXCEPT !.lease = "lapsed"]]
  /\ UNCHANGED <<batches, calls, chatVars, resumeVars, faults>>

\* mark_orphaned_runs at process start-up and on GET /runs/{id}/recovery
ScanOrphans ==
  /\ row' = Orphaned(row)
  /\ UNCHANGED <<batches, calls, chatVars, resumeVars, faults>>

-----------------------------------------------------------------------------
(* The resume handler                                                      *)

ResumePC == {"idle", "load", "claim", "count", "release", "persist",
             "finish", "complete", "cleanup", "done"}

Answered(k, a) ==
  /\ rpc' = [rpc EXCEPT ![k] = "done"]
  /\ answer' = [answer EXCEPT ![k] = a]

\* On a statement's error inside the try block the handler cleans up
Proceed(k, o, next) == rpc' = [rpc EXCEPT ![k] = IF o = "ok" THEN next ELSE "cleanup"]

\* _load_recovery_state, first await: mark_orphaned_runs
ResumeScan(k) ==
  /\ rpc[k] = "idle"
  /\ \E o \in Outcome :
       /\ Counted(o)
       /\ row' = IF Committed(o) THEN Orphaned(row) ELSE row
       /\ IF o = "ok"
            THEN rpc' = [rpc EXCEPT ![k] = "load"] /\ UNCHANGED answer
            ELSE Answered(k, "failed")
  /\ UNCHANGED <<batches, calls, chatVars, seen>>

\* Second await: load_run_recovery, then every early return up to the claim
ResumeLoad(k) ==
  /\ rpc[k] = "load"
  /\ LET run == row[RunOf[k]]
     IN \/ /\ run.status = "running"
           /\ run.recovery = "orphaned"
           /\ RecoveryAction(run.stage) = "complete_persisted_tail"
           /\ rpc' = [rpc EXCEPT ![k] = "claim"]
           /\ seen' = [seen EXCEPT ![k] = run.stage]
           /\ UNCHANGED <<answer, faults>>
        \/ /\ run.status = "succeeded"
           /\ Answered(k, "completed")
           /\ UNCHANGED <<seen, faults>>
        \/ /\ \/ run.status \in {"absent", "failed"}
              \/ run.status = "running" /\ run.recovery # "orphaned"
              \/ RecoveryAction(run.stage) # "complete_persisted_tail"
           /\ run.status # "succeeded"
           /\ Answered(k, "refused")
           /\ UNCHANGED <<seen, faults>>
        \/ Counted("err") /\ Answered(k, "failed") /\ UNCHANGED seen
  /\ UNCHANGED <<row, batches, calls, chatVars>>

\* claim_orphaned_run; outside the try block, so an error leaves without cleanup
ResumeClaim(k) ==
  /\ rpc[k] = "claim"
  /\ \E o \in Outcome :
       /\ Counted(o)
       /\ row' = IF Committed(o) /\ Claimable(RunOf[k])
                   THEN Claimed(row, RunOf[k], WorkerOf[k]) ELSE row
       /\ IF o = "ok" /\ Claimable(RunOf[k])
            THEN rpc' = [rpc EXCEPT ![k] = "count"] /\ UNCHANGED answer
            ELSE Answered(k, IF o = "ok" THEN "refused" ELSE "failed")
  /\ UNCHANGED <<batches, calls, chatVars, seen>>

\* Mutant: response_ready is trusted without counting messages
TrustingCount(k) ==
  /\ rpc[k] = "count"
  /\ \E o \in {"ok", "err"} :
       /\ Counted(o)
       /\ Proceed(k, o, IF seen[k] = "response_ready" THEN "persist" ELSE "finish")
  /\ UNCHANGED <<row, batches, calls, chatVars, seen, answer>>

\* run_message_count; the stage it is combined with was read before the claim
ResumeCount(k) ==
  /\ rpc[k] = "count"
  /\ \E o \in {"ok", "err"} :
       /\ Counted(o)
       /\ Proceed(k, o, IF seen[k] = "response_ready"
                          THEN IF batches[RunOf[k]] = 0 THEN "release" ELSE "persist"
                          ELSE "finish")
  /\ UNCHANGED <<row, batches, calls, chatVars, seen, answer>>

\* No message was stored: hand the run back, a new run is needed
ResumeRelease(k) ==
  /\ rpc[k] = "release"
  /\ \E o \in Outcome :
       /\ Counted(o)
       /\ row' = IF Committed(o) THEN Released(row, RunOf[k], WorkerOf[k]) ELSE row
       /\ IF o = "ok" THEN Answered(k, "refused")
                      ELSE Proceed(k, o, "cleanup") /\ UNCHANGED answer
  /\ UNCHANGED <<batches, calls, chatVars, seen>>

\* RESPONSE_PERSISTED checkpoint
ResumePersist(k) ==
  /\ rpc[k] = "persist"
  /\ \E o \in Outcome :
       /\ Counted(o)
       /\ row' = IF Committed(o) THEN Staged(row, RunOf[k], "response_persisted") ELSE row
       /\ Proceed(k, o, "finish")
  /\ UNCHANGED <<batches, calls, chatVars, seen, answer>>

\* finish_run(succeeded)
ResumeFinish(k) ==
  /\ rpc[k] = "finish"
  /\ \E o \in Outcome :
       /\ Counted(o)
       /\ row' = IF Committed(o) THEN Finished(row, RunOf[k], "succeeded") ELSE row
       /\ Proceed(k, o, "complete")
  /\ UNCHANGED <<batches, calls, chatVars, seen, answer>>

\* COMPLETED checkpoint
ResumeComplete(k) ==
  /\ rpc[k] = "complete"
  /\ \E o \in Outcome :
       /\ Counted(o)
       /\ row' = IF Committed(o) THEN Staged(row, RunOf[k], "completed") ELSE row
       /\ IF o = "ok" THEN Answered(k, "completed")
                      ELSE Proceed(k, o, "cleanup") /\ UNCHANGED answer
  /\ UNCHANGED <<batches, calls, chatVars, seen>>

\* except PersistenceError: release, record the event, answer 502; errors of
\* these two statements are only logged
ResumeCleanup(k) ==
  /\ rpc[k] = "cleanup"
  /\ \E o \in {"ok", "err"} :
       /\ Counted(o)
       /\ row' = IF Committed(o) THEN Released(row, RunOf[k], WorkerOf[k]) ELSE row
  /\ Answered(k, "failed")
  /\ UNCHANGED <<batches, calls, chatVars, seen>>

ResumeCrash(k) ==
  /\ rpc[k] \notin {"idle", "done"}
  /\ Counted("err")
  /\ rpc' = [rpc EXCEPT ![k] = "done"]
  /\ UNCHANGED <<row, batches, calls, chatVars, seen, answer>>

\* The owner asks again
ResumeAgain(k) ==
  /\ rpc[k] = "done"
  /\ rpc' = [rpc EXCEPT ![k] = "idle"]
  /\ seen' = [seen EXCEPT ![k] = "created"]
  /\ answer' = [answer EXCEPT ![k] = "none"]
  /\ UNCHANGED <<row, batches, calls, chatVars, faults>>

ResumeStep(k) ==
  \/ ResumeScan(k) \/ ResumeLoad(k) \/ ResumeClaim(k) \/ ResumeCount(k)
  \/ ResumeRelease(k) \/ ResumePersist(k) \/ ResumeFinish(k) \/ ResumeComplete(k)
  \/ ResumeCleanup(k) \/ ResumeAgain(k)

-----------------------------------------------------------------------------
Init ==
  /\ row = [r \in Run |-> NoRow]
  /\ batches = [r \in Run |-> 0]
  /\ calls = [r \in Run |-> 0]
  /\ pc = [c \in Chat |-> "new"]
  /\ mem = [c \in Chat |-> "created"]
  /\ beat = [c \in Chat |-> FALSE]
  /\ reply = [c \in Chat |-> "none"]
  /\ rpc = [k \in Resume |-> "idle"]
  /\ seen = [k \in Resume |-> "created"]
  /\ answer = [k \in Resume |-> "none"]
  /\ faults = 0

Next ==
  \/ \E c \in Chat : ChatStep(c) \/ Crash(c) \/ HeartbeatRenews(c) \/ HeartbeatStops(c)
  \/ \E k \in Resume : ResumeStep(k) \/ ResumeCrash(k)
  \/ \E r \in Run : LeaseAges(r) \/ LeaseLapses(r)
  \/ ScanOrphans

Spec == Init /\ [][Next]_vars

(***************************************************************************)
(* Fairness.  Every statement returns or times out (command_timeout) and   *)
(* the model call is bounded by its provider timeouts, so a handler that   *)
(* is not killed keeps going; a live event loop runs the heartbeat; time   *)
(* passes.  Scans and resumes are the owner's requests: the liveness       *)
(* properties are about an owner who keeps asking.                         *)
(***************************************************************************)
Fairness ==
  /\ \A c \in Chat : WF_vars(ChatStep(c)) /\ WF_vars(HeartbeatRenews(c))
  /\ \A k \in Resume : WF_vars(ResumeStep(k))
  /\ \A r \in Run : WF_vars(LeaseAges(r)) /\ WF_vars(LeaseLapses(r))
  /\ WF_vars(ScanOrphans)

FairSpec == Spec /\ Fairness

-----------------------------------------------------------------------------
(* Properties                                                              *)

(***************************************************************************)
(* Types of every variable.                                                *)
(***************************************************************************)
TypeOK ==
  /\ row \in [Run -> RunRow]
  /\ batches \in [Run -> Nat]
  /\ calls \in [Run -> Nat]
  /\ pc \in [Chat -> ChatPC]
  /\ mem \in [Chat -> RunStage]
  /\ beat \in [Chat -> BOOLEAN]
  /\ reply \in [Chat -> {"none", "ok", "error"}]
  /\ rpc \in [Resume -> ResumePC]
  /\ seen \in [Resume -> RunStage]
  /\ answer \in [Resume -> {"none", "completed", "refused", "failed"}]
  /\ faults \in 0..MaxFaults

(***************************************************************************)
(* The columns of agent_runs agree whoever wrote last: an orphaned run is  *)
(* still running and owned by nobody, a concluded run holds no lease, and  *)
(* a run being executed names its worker and its lease.  finish_run,       *)
(* mark_orphaned_runs, claim_orphaned_run and release_orphaned_run each    *)
(* write their own subset of these columns.                                *)
(***************************************************************************)
RowConsistent == \A r \in Run :
  /\ row[r].recovery = "resolved" <=> row[r].status \in Terminal
  /\ row[r].recovery = "orphaned" => row[r].status = "running"
  /\ row[r].worker # NoWorker <=> row[r].status = "running" /\ row[r].recovery = "active"
  /\ row[r].lease # "null" <=> row[r].worker # NoWorker

(***************************************************************************)
(* A run's model is called at most once and its answer is stored at most   *)
(* once, whatever is retried: a repeated run_id is stopped by the primary  *)
(* key, and no recovery path reaches the model or the append.              *)
(***************************************************************************)
ModelCalledOnce == \A r \in Run : batches[r] <= calls[r] /\ calls[r] <= 1

(***************************************************************************)
(* "succeeded", and the two stages that follow the append, are evidence    *)
(* that the answer is stored.  A resume that read response_persisted       *)
(* relies on it: it finishes the run without counting messages.            *)
(***************************************************************************)
SucceededIsPersisted == \A r \in Run :
  row[r].status = "succeeded" \/ row[r].stage \in {"response_persisted", "completed"}
    => batches[r] = 1

(***************************************************************************)
(* What the owner was told stays true.  A chat that returned the answer    *)
(* has it stored and its run succeeded for good; a resume that reported    *)
(* completion did so over a stored answer.                                 *)
(***************************************************************************)
AcknowledgedIsDurable ==
  /\ \A c \in Chat : reply[c] = "ok" =>
       batches[RunOf[c]] = 1 /\ row[RunOf[c]].status = "succeeded"
  /\ \A k \in Resume : answer[k] = "completed" => batches[RunOf[k]] = 1

(***************************************************************************)
(* Without stalls, a worker whose heartbeat is alive owns its run: no      *)
(* scan, resume or other request takes it away.                            *)
(***************************************************************************)
HeldWhileBeating == \A c \in Chat : beat[c] =>
  /\ row[RunOf[c]].status = "running"
  /\ row[RunOf[c]].worker = WorkerOf[c]
  /\ row[RunOf[c]].lease \in LiveLease

(***************************************************************************)
(* As long as no statement fails, a concluded run keeps its conclusion     *)
(* although finish_run is unfenced: lapsed leases, scans and recoveries    *)
(* racing a live worker's tail all conclude "succeeded".                   *)
(***************************************************************************)
ConclusionIsFinal ==
  [][\A r \in Run : faults' = 0 /\ row[r].status \in Terminal =>
       row'[r].status = row[r].status]_vars

(***************************************************************************)
(* Every run that was started is concluded, or ends up orphaned where the  *)
(* owner can act on it: none stays owned by a worker that is gone.         *)
(***************************************************************************)
EveryRunSettles == \A r \in Run :
  row[r].status = "running" ~> row[r].status \in Terminal \/ row[r].recovery = "orphaned"

(***************************************************************************)
(* An orphaned run whose answer is stored and whose stage says so is       *)
(* concluded, by whichever resume or surviving worker gets there.          *)
(***************************************************************************)
OrphanedTailIsFinished == \A r \in Run :
  /\ row[r].recovery = "orphaned"
  /\ row[r].stage \in {"response_ready", "response_persisted"}
  /\ batches[r] = 1
  ~> row[r].status \in Terminal

(***************************************************************************)
(* The run table implements the contract with the owner.                   *)
(***************************************************************************)
Contract == INSTANCE RunContract WITH
  accepted  <- {r \in Run : row[r].status # "absent"},
  invoked   <- {r \in Run : calls[r] > 0},
  saved     <- {r \in Run : batches[r] > 0},
  outcome   <- [r \in Run |-> IF row[r].status \in Terminal THEN row[r].status ELSE "none"],
  delivered <- {r \in Run : \E c \in Chat : RunOf[c] = r /\ reply[c] = "ok"}

\* Every step of the handlers is a contract step or leaves the contract's
\* state alone: one model call, one answer, success only over a stored
\* answer, and no failure recorded after the answer was delivered.
ImplementsContract == Contract!Spec

-----------------------------------------------------------------------------
(* The inductive invariant behind the evidence properties                  *)

Active(c) == pc[c] \notin {"new", "done"}

\* Where a chat handler is says how far its run has come
ChatProgram == \A c \in Chat :
  LET r == RunOf[c]
  IN /\ Active(c) => row[r].status # "absent"
     /\ pc[c] \in {"context", "starting"} => calls[r] = 0
     /\ pc[c] \in {"model", "answered", "append"} => calls[r] = 1 /\ batches[r] = 0
     /\ pc[c] \in {"appended", "finish", "completing"} => batches[r] = 1
     /\ pc[c] = "completing" => row[r].status = "succeeded"

\* The primary key lets one chat handler at a time drive a run
SoleDriver == \A c, d \in Chat :
  Active(c) /\ Active(d) /\ RunOf[c] = RunOf[d] => c = d

\* What a resume handler read or counted before its current step
ResumeProgram == \A k \in Resume :
  LET r == RunOf[k]
  IN /\ rpc[k] \in {"claim", "count"} =>
          \/ seen[k] = "response_ready"
          \/ seen[k] = "response_persisted" /\ batches[r] = 1
     /\ rpc[k] \in {"persist", "finish", "complete"} => batches[r] = 1

\* Nothing is left running behind a delivered answer
DeliveredIsQuiet == \A c, d \in Chat :
  reply[c] = "ok" /\ RunOf[c] = RunOf[d] => ~Active(d)

AbsentIsUntouched == \A r \in Run :
  row[r].status = "absent" => calls[r] = 0 /\ batches[r] = 0

Evidence ==
  /\ AbsentIsUntouched
  /\ ModelCalledOnce
  /\ SucceededIsPersisted
  /\ AcknowledgedIsDurable
  /\ ChatProgram
  /\ SoleDriver
  /\ ResumeProgram
  /\ DeliveredIsQuiet
=============================================================================
