------------------------ MODULE RunLifecycle_proofs ------------------------
(***************************************************************************)
(* Proofs about RunLifecycle for every number of runs, chats, resumes,     *)
(* workers and faults: types, the agreement of the columns, the chain of   *)
(* evidence from "the model was called" to "the owner has the answer", the *)
(* finality of conclusions, the refinement of RunContract, and, without    *)
(* stalls, the hold of a beating worker on its run.                        *)
(***************************************************************************)
EXTENDS RunLifecycle, TLAPS

-----------------------------------------------------------------------------
(* What the helpers do to the table                                        *)

\* The only effects of a swallowed checkpoint: the handler moves on, and the
\* stored stage is either the one written or the one before.
LEMMA CheckpointEffect ==
  ASSUME TypeOK, NEW c \in Chat, NEW s \in RunStage, NEW n \in ChatPC,
         SaveCheckpoint(c, s, n)
  PROVE  /\ pc' = [pc EXCEPT ![c] = n]
         /\ mem' \in [Chat -> RunStage]
         /\ faults' \in 0..MaxFaults
         /\ row' = row \/ row' = Staged(row, RunOf[c], s)
<1>1. CASE s \in AllowedTransitions[mem[c]]
  BY <1>1, MaxFaultsType DEF SaveCheckpoint, Counted, TypeOK, Committed
<1>2. CASE s \notin AllowedTransitions[mem[c]]
  BY <1>2 DEF SaveCheckpoint, TypeOK
<1>3. QED
  BY <1>1, <1>2

\* Counting a statement's outcome keeps the fault counter within its bound.
LEMMA CountedType ==
  ASSUME TypeOK, NEW o, Counted(o)
  PROVE  faults' \in 0..MaxFaults
BY MaxFaultsType DEF Counted, TypeOK

\* Rewriting a lease leaves well-typed rows.
LEMMA LeaseRewriteType ==
  ASSUME row \in [Run -> RunRow], NEW r \in Run, NEW l \in Lease
  PROVE  [row EXCEPT ![r] = [@ EXCEPT !.lease = l]] \in [Run -> RunRow]
<1>1. row[r] \in RunRow
  OBVIOUS
<1>2. [row[r] EXCEPT !.lease = l] \in RunRow
  BY <1>1 DEF RunRow
<1>3. QED
  BY <1>2

\* Marking lapsed runs leaves well-typed rows.
LEMMA OrphanedType ==
  ASSUME row \in [Run -> RunRow]
  PROVE  Orphaned(row) \in [Run -> RunRow]
BY DEF Orphaned, RunRow, Lease

\* Every statement on agent_runs leaves well-typed rows.
LEMMA TableTypes ==
  ASSUME row \in [Run -> RunRow], NEW r \in Run, NEW w \in Worker
  PROVE  /\ Inserted(row, r, w) \in [Run -> RunRow]
         /\ \A s \in Terminal : Finished(row, r, s) \in [Run -> RunRow]
         /\ Orphaned(row) \in [Run -> RunRow]
         /\ Claimed(row, r, w) \in [Run -> RunRow]
         /\ Released(row, r, w) \in [Run -> RunRow]
         /\ \A s \in RunStage : Staged(row, r, s) \in [Run -> RunRow]
<1>1. Inserted(row, r, w) \in [Run -> RunRow]
  BY DEF Inserted, RunRow, RunStage, Lease
<1>2. \A s \in Terminal : Finished(row, r, s) \in [Run -> RunRow]
  BY DEF Finished, RunRow, Lease
<1>3. Orphaned(row) \in [Run -> RunRow]
  BY OrphanedType
<1>4. Claimed(row, r, w) \in [Run -> RunRow]
  <2>1. [row[r] EXCEPT !.recovery = "active", !.worker = w, !.lease = "fresh",
                       !.attempt = 2] \in RunRow
    <3>1. row[r] \in RunRow
      OBVIOUS
    <3>2. QED
      BY <3>1, 2 \in 0..2 DEF RunRow, Lease
  <2>2. QED
    BY <2>1 DEF Claimed
<1>5. Released(row, r, w) \in [Run -> RunRow]
  BY DEF Released, RunRow, Lease
<1>6. \A s \in RunStage : Staged(row, r, s) \in [Run -> RunRow]
  BY DEF Staged, RunRow
<1>7. QED
  BY <1>1, <1>2, <1>3, <1>4, <1>5, <1>6

\* A checkpoint keeps the variables it writes well-typed.
LEMMA CheckpointType ==
  ASSUME TypeOK, NEW c \in Chat, NEW s \in RunStage, NEW n \in ChatPC,
         SaveCheckpoint(c, s, n)
  PROVE  /\ pc' \in [Chat -> ChatPC]
         /\ row' \in [Run -> RunRow]
         /\ mem' \in [Chat -> RunStage]
         /\ faults' \in 0..MaxFaults
<1>1. RunOf[c] \in Run /\ WorkerOf[c] \in Worker
  BY RunOfType, WorkerOfType DEF Handler
<1>2. Staged(row, RunOf[c], s) \in [Run -> RunRow]
  BY <1>1, TableTypes DEF TypeOK
<1>3. QED
  BY <1>2, CheckpointEffect DEF TypeOK

-----------------------------------------------------------------------------
(* Type correctness                                                        *)

\* The initial state is well-typed: nothing exists and nobody has started.
LEMMA InitTypeOK == Init => TypeOK
BY MaxFaultsType DEF Init, TypeOK, NoRow, RunRow, RunStage, Lease, ChatPC, ResumePC

\* Every step of a handler, a heartbeat, the clock or a scan keeps the types.
LEMMA NextTypeOK == TypeOK /\ [Next]_vars => TypeOK'
<1> SUFFICES ASSUME TypeOK, [Next]_vars PROVE TypeOK'
  OBVIOUS
<1> USE RunOfType, WorkerOfType DEF Handler
<1>1. ASSUME NEW c \in Chat, ChatStep(c) PROVE TypeOK'
  <2>0. /\ RunOf[c] \in Run /\ WorkerOf[c] \in Worker
        /\ Inserted(row, RunOf[c], WorkerOf[c]) \in [Run -> RunRow]
        /\ \A s \in Terminal : Finished(row, RunOf[c], s) \in [Run -> RunRow]
        /\ \A s \in RunStage : Staged(row, RunOf[c], s) \in [Run -> RunRow]
    BY TableTypes DEF TypeOK
  <2>1. CASE CreateRun(c)
    BY <2>0, <2>1, CountedType DEF CreateRun, TypeOK, ChatPC, resumeVars
  <2>2. CASE SaveContext(c)
    <3>1. SaveCheckpoint(c, "context_loaded", "starting")
      BY <2>2 DEF SaveContext
    <3>2. /\ pc' \in [Chat -> ChatPC] /\ row' \in [Run -> RunRow]
          /\ mem' \in [Chat -> RunStage] /\ faults' \in 0..MaxFaults
      BY <3>1, CheckpointType DEF ChatPC, RunStage
    <3>3. QED
      BY <2>2, <3>2 DEF SaveContext, TypeOK, resumeVars
  <2>3. CASE StartModel(c)
    <3>1. SaveCheckpoint(c, "model_running", "model")
      BY <2>3 DEF StartModel
    <3>2. /\ pc' \in [Chat -> ChatPC] /\ row' \in [Run -> RunRow]
          /\ mem' \in [Chat -> RunStage] /\ faults' \in 0..MaxFaults
      BY <3>1, CheckpointType DEF ChatPC, RunStage
    <3>3. QED
      <4>1. calls' \in [Run -> Nat]
        BY <2>0, <2>3 DEF StartModel, TypeOK
      <4>2. QED
        BY <2>3, <3>2, <4>1 DEF StartModel, TypeOK, resumeVars
  <2>4. CASE ModelReturns(c)
    BY <2>4 DEF ModelReturns, TypeOK, ChatPC, resumeVars
  <2>5. CASE SaveReady(c)
    <3>1. SaveCheckpoint(c, "response_ready", "append")
      BY <2>5 DEF SaveReady
    <3>2. /\ pc' \in [Chat -> ChatPC] /\ row' \in [Run -> RunRow]
          /\ mem' \in [Chat -> RunStage] /\ faults' \in 0..MaxFaults
      BY <3>1, CheckpointType DEF ChatPC, RunStage
    <3>3. QED
      BY <2>5, <3>2 DEF SaveReady, TypeOK, resumeVars
  <2>6. CASE AppendMessages(c)
    BY <2>0, <2>6, CountedType DEF AppendMessages, TypeOK, ChatPC, resumeVars
  <2>7. CASE SavePersisted(c)
    <3>1. SaveCheckpoint(c, "response_persisted", "finish")
      BY <2>7 DEF SavePersisted
    <3>2. /\ pc' \in [Chat -> ChatPC] /\ row' \in [Run -> RunRow]
          /\ mem' \in [Chat -> RunStage] /\ faults' \in 0..MaxFaults
      BY <3>1, CheckpointType DEF ChatPC, RunStage
    <3>3. QED
      BY <2>7, <3>2 DEF SavePersisted, TypeOK, resumeVars
  <2>8. CASE Finish(c)
    BY <2>0, <2>8, CountedType DEF Finish, TypeOK, ChatPC, Terminal, resumeVars
  <2>9. CASE Complete(c)
    <3>1. SaveCheckpoint(c, "completed", "done")
      BY <2>9 DEF Complete
    <3>2. /\ pc' \in [Chat -> ChatPC] /\ row' \in [Run -> RunRow]
          /\ mem' \in [Chat -> RunStage] /\ faults' \in 0..MaxFaults
      BY <3>1, CheckpointType DEF ChatPC, RunStage
    <3>3. QED
      BY <2>9, <3>2 DEF Complete, TypeOK, resumeVars
  <2>10. CASE FinishFailed(c)
    BY <2>0, <2>10, CountedType DEF FinishFailed, TypeOK, ChatPC, Terminal, resumeVars
  <2>11. CASE NoteFailed(c)
    <3>1. SaveCheckpoint(c, "failed", "done")
      BY <2>11 DEF NoteFailed
    <3>2. /\ pc' \in [Chat -> ChatPC] /\ row' \in [Run -> RunRow]
          /\ mem' \in [Chat -> RunStage] /\ faults' \in 0..MaxFaults
      BY <3>1, CheckpointType DEF ChatPC, RunStage
    <3>3. QED
      BY <2>11, <3>2 DEF NoteFailed, TypeOK, resumeVars
  <2>12. QED
    BY <1>1, <2>1, <2>2, <2>3, <2>4, <2>5, <2>6, <2>7, <2>8, <2>9, <2>10, <2>11
       DEF ChatStep
<1>2. ASSUME NEW c \in Chat, Crash(c) \/ HeartbeatRenews(c) \/ HeartbeatStops(c)
      PROVE TypeOK'
  <2>1. CASE Crash(c)
    BY <2>1 DEF Crash, TypeOK, ChatPC, resumeVars
  <2>2. CASE HeartbeatRenews(c)
    BY <2>2, LeaseRewriteType DEF HeartbeatRenews, TypeOK, Lease, chatVars, resumeVars
  <2>3. CASE HeartbeatStops(c)
    BY <2>3, CountedType DEF HeartbeatStops, TypeOK, resumeVars
  <2>4. QED
    BY <1>2, <2>1, <2>2, <2>3
<1>3. ASSUME NEW k \in Resume, ResumeStep(k) \/ ResumeCrash(k) PROVE TypeOK'
  <2>0. /\ RunOf[k] \in Run /\ WorkerOf[k] \in Worker
        /\ Orphaned(row) \in [Run -> RunRow]
        /\ Claimed(row, RunOf[k], WorkerOf[k]) \in [Run -> RunRow]
        /\ Released(row, RunOf[k], WorkerOf[k]) \in [Run -> RunRow]
        /\ \A s \in Terminal : Finished(row, RunOf[k], s) \in [Run -> RunRow]
        /\ \A s \in RunStage : Staged(row, RunOf[k], s) \in [Run -> RunRow]
    BY TableTypes DEF TypeOK
  <2> USE CountedType DEF TypeOK, ResumePC, Answered, Proceed, chatVars
  <2>1. CASE ResumeScan(k)
    BY <2>0, <2>1 DEF ResumeScan
  <2>2. CASE ResumeLoad(k)
    BY <2>0, <2>2 DEF ResumeLoad, RunRow
  <2>3. CASE ResumeClaim(k)
    BY <2>0, <2>3 DEF ResumeClaim
  <2>4. CASE ResumeCount(k)
    BY <2>0, <2>4 DEF ResumeCount
  <2>5. CASE ResumeRelease(k)
    BY <2>0, <2>5 DEF ResumeRelease
  <2>6. CASE ResumePersist(k)
    BY <2>0, <2>6 DEF ResumePersist, RunStage
  <2>7. CASE ResumeFinish(k)
    BY <2>0, <2>7 DEF ResumeFinish, Terminal
  <2>8. CASE ResumeComplete(k)
    BY <2>0, <2>8 DEF ResumeComplete, RunStage
  <2>9. CASE ResumeCleanup(k)
    BY <2>0, <2>9 DEF ResumeCleanup
  <2>10. CASE ResumeAgain(k)
    BY <2>10 DEF ResumeAgain, RunStage
  <2>11. CASE ResumeCrash(k)
    BY <2>11 DEF ResumeCrash
  <2>12. QED
    BY <1>3, <2>1, <2>2, <2>3, <2>4, <2>5, <2>6, <2>7, <2>8, <2>9, <2>10, <2>11
       DEF ResumeStep
<1>4. ASSUME NEW r \in Run, LeaseAges(r) \/ LeaseLapses(r) PROVE TypeOK'
  <2>1. CASE LeaseAges(r)
    BY <2>1, LeaseRewriteType DEF LeaseAges, TypeOK, Lease, chatVars, resumeVars
  <2>2. CASE LeaseLapses(r)
    BY <2>2, LeaseRewriteType DEF LeaseLapses, TypeOK, Lease, chatVars, resumeVars
  <2>3. QED
    BY <1>4, <2>1, <2>2
<1>5. CASE ScanOrphans
  <2>1. Orphaned(row) \in [Run -> RunRow]
    BY OrphanedType DEF TypeOK
  <2>2. QED
    BY <1>5, <2>1 DEF ScanOrphans, TypeOK, chatVars, resumeVars
<1>6. CASE UNCHANGED vars
  BY <1>6 DEF vars, chatVars, resumeVars, TypeOK
<1>7. QED
  BY <1>1, <1>2, <1>3, <1>4, <1>5, <1>6 DEF Next

\* Every variable keeps its type, for every instance.
THEOREM TypeCorrect == Spec => []TypeOK
<1>1. QED
  BY InitTypeOK, NextTypeOK, PTL DEF Spec

-----------------------------------------------------------------------------
(* The columns agree                                                       *)

Consistent(x) ==
  /\ x.recovery = "resolved" <=> x.status \in Terminal
  /\ x.recovery = "orphaned" => x.status = "running"
  /\ x.worker # NoWorker <=> x.status = "running" /\ x.recovery = "active"
  /\ x.lease # "null" <=> x.worker # NoWorker

\* Each statement on agent_runs keeps every row consistent.
LEMMA TableConsistent ==
  ASSUME row \in [Run -> RunRow], \A r \in Run : Consistent(row[r]),
         NEW q \in Run, NEW w \in Worker
  PROVE  /\ \A r \in Run : Consistent(Inserted(row, q, w)[r])
         /\ \A s \in Terminal, r \in Run : Consistent(Finished(row, q, s)[r])
         /\ \A r \in Run : Consistent(Orphaned(row)[r])
         /\ Claimable(q) => \A r \in Run : Consistent(Claimed(row, q, w)[r])
         /\ \A r \in Run : Consistent(Released(row, q, w)[r])
         /\ \A s \in RunStage, r \in Run : Consistent(Staged(row, q, s)[r])
<1> USE WorkerOfType DEF Consistent, Terminal
<1>1. \A r \in Run : Consistent(Inserted(row, q, w)[r])
  BY DEF Inserted
<1>2. \A s \in Terminal, r \in Run : Consistent(Finished(row, q, s)[r])
  BY DEF Finished, RunRow
<1>3. \A r \in Run : Consistent(Orphaned(row)[r])
  BY DEF Orphaned, RunRow
<1>4. Claimable(q) => \A r \in Run : Consistent(Claimed(row, q, w)[r])
  BY DEF Claimable, Claimed, RunRow
<1>5. \A r \in Run : Consistent(Released(row, q, w)[r])
  BY DEF Released, RunRow
<1>6. \A s \in RunStage, r \in Run : Consistent(Staged(row, q, s)[r])
  BY DEF Staged, RunRow
<1>7. QED
  BY <1>1, <1>2, <1>3, <1>4, <1>5, <1>6

\* A lease that is held stays held while time passes and heartbeats renew it.
LEMMA LeaseRewriteConsistent ==
  ASSUME row \in [Run -> RunRow], \A r \in Run : Consistent(row[r]),
         NEW q \in Run, NEW l \in Lease \ {"null"}, row[q].lease # "null"
  PROVE  \A r \in Run : Consistent([row EXCEPT ![q] = [@ EXCEPT !.lease = l]][r])
BY DEF Consistent, RunRow

\* Every step keeps the columns of every row in agreement.
LEMMA NextRowConsistent ==
  TypeOK /\ RowConsistent /\ [Next]_vars => RowConsistent'
<1> SUFFICES ASSUME TypeOK, \A r \in Run : Consistent(row[r]), [Next]_vars
             PROVE  \A r \in Run : Consistent(row'[r])
  BY DEF RowConsistent, Consistent
<1>0. row \in [Run -> RunRow]
  BY DEF TypeOK
<1>1. ASSUME NEW c \in Chat, ChatStep(c) PROVE \A r \in Run : Consistent(row'[r])
  <2>0. RunOf[c] \in Run /\ WorkerOf[c] \in Worker
    BY RunOfType, WorkerOfType DEF Handler
  <2>1. ASSUME NEW s \in RunStage, NEW n \in ChatPC, SaveCheckpoint(c, s, n)
        PROVE  \A r \in Run : Consistent(row'[r])
    BY <1>0, <2>0, <2>1, CheckpointEffect, TableConsistent
  <2>2. CASE CreateRun(c)
    BY <1>0, <2>0, <2>2, TableConsistent DEF CreateRun
  <2>3. CASE SaveContext(c) \/ StartModel(c) \/ SaveReady(c) \/ SavePersisted(c)
             \/ Complete(c) \/ NoteFailed(c)
    BY <2>1, <2>3 DEF SaveContext, StartModel, SaveReady, SavePersisted, Complete,
                      NoteFailed, RunStage, ChatPC
  <2>4. CASE Finish(c) \/ FinishFailed(c)
    BY <1>0, <2>0, <2>4, TableConsistent DEF Finish, FinishFailed, Terminal
  <2>5. CASE ModelReturns(c) \/ AppendMessages(c)
    BY <2>5 DEF ModelReturns, AppendMessages
  <2>6. QED
    BY <1>1, <2>2, <2>3, <2>4, <2>5 DEF ChatStep
<1>2. ASSUME NEW c \in Chat, Crash(c) \/ HeartbeatRenews(c) \/ HeartbeatStops(c)
      PROVE  \A r \in Run : Consistent(row'[r])
  <2>0. RunOf[c] \in Run
    BY RunOfType DEF Handler
  <2>1. CASE HeartbeatRenews(c)
    BY <1>0, <2>0, <2>1, LeaseRewriteConsistent
       DEF HeartbeatRenews, Renewable, LiveLease, Lease
  <2>2. CASE Crash(c) \/ HeartbeatStops(c)
    BY <2>2 DEF Crash, HeartbeatStops
  <2>3. QED
    BY <1>2, <2>1, <2>2
<1>3. ASSUME NEW k \in Resume, ResumeStep(k) \/ ResumeCrash(k)
      PROVE  \A r \in Run : Consistent(row'[r])
  <2>0. RunOf[k] \in Run /\ WorkerOf[k] \in Worker
    BY RunOfType, WorkerOfType DEF Handler
  <2>1. CASE ResumeScan(k)
    BY <1>0, <2>0, <2>1, TableConsistent DEF ResumeScan
  <2>2. CASE ResumeClaim(k)
    BY <1>0, <2>0, <2>2, TableConsistent DEF ResumeClaim
  <2>3. CASE ResumeRelease(k) \/ ResumeCleanup(k)
    BY <1>0, <2>0, <2>3, TableConsistent DEF ResumeRelease, ResumeCleanup
  <2>4. CASE ResumePersist(k) \/ ResumeComplete(k)
    BY <1>0, <2>0, <2>4, TableConsistent DEF ResumePersist, ResumeComplete, RunStage
  <2>5. CASE ResumeFinish(k)
    BY <1>0, <2>0, <2>5, TableConsistent DEF ResumeFinish, Terminal
  <2>6. CASE ResumeLoad(k) \/ ResumeCount(k) \/ ResumeAgain(k) \/ ResumeCrash(k)
    BY <2>6 DEF ResumeLoad, ResumeCount, ResumeAgain, ResumeCrash
  <2>7. QED
    BY <1>3, <2>1, <2>2, <2>3, <2>4, <2>5, <2>6 DEF ResumeStep
<1>4. ASSUME NEW q \in Run, LeaseAges(q) \/ LeaseLapses(q)
      PROVE  \A r \in Run : Consistent(row'[r])
  BY <1>0, <1>4, LeaseRewriteConsistent DEF LeaseAges, LeaseLapses, Lease
<1>5. CASE ScanOrphans
  <2>1. ASSUME NEW r \in Run PROVE Consistent(Orphaned(row)[r])
    BY <1>0 DEF Consistent, Orphaned, RunRow, Terminal
  <2>2. QED
    BY <1>5, <2>1 DEF ScanOrphans
<1>6. CASE UNCHANGED vars
  BY <1>6 DEF vars
<1>7. QED
  BY <1>1, <1>2, <1>3, <1>4, <1>5, <1>6 DEF Next

\* The columns of agent_runs agree in every reachable state.
THEOREM RowAlwaysConsistent == Spec => []RowConsistent
<1>1. Init => RowConsistent
  BY DEF Init, RowConsistent, NoRow, Terminal
<1>2. QED
  BY <1>1, NextRowConsistent, TypeCorrect, PTL DEF Spec

-----------------------------------------------------------------------------
(* The chain of evidence                                                   *)

\* What each statement on agent_runs does to the two columns the evidence is
\* about, in every row.
LEMMA TableEffects ==
  ASSUME row \in [Run -> RunRow], NEW q \in Run, NEW w \in Worker
  PROVE  /\ \A r \in Run : r # q => Inserted(row, q, w)[r] = row[r]
         /\ Inserted(row, q, w)[q].status = "running"
         /\ Inserted(row, q, w)[q].stage = "created"
         /\ \A s \in Terminal, r \in Run :
              /\ Finished(row, q, s)[r].status = IF r = q THEN s ELSE row[r].status
              /\ Finished(row, q, s)[r].stage = row[r].stage
         /\ \A s \in RunStage, r \in Run :
              /\ Staged(row, q, s)[r].status = row[r].status
              /\ Staged(row, q, s)[r].stage = IF r = q THEN s ELSE row[r].stage
         /\ \A r \in Run : /\ Claimed(row, q, w)[r].status = row[r].status
                           /\ Claimed(row, q, w)[r].stage = row[r].stage
         /\ \A r \in Run : /\ Released(row, q, w)[r].status = row[r].status
                           /\ Released(row, q, w)[r].stage = row[r].stage
<1>1. /\ \A r \in Run : r # q => Inserted(row, q, w)[r] = row[r]
      /\ Inserted(row, q, w)[q].status = "running"
      /\ Inserted(row, q, w)[q].stage = "created"
  BY DEF Inserted
<1>2. \A s \in Terminal, r \in Run :
        /\ Finished(row, q, s)[r].status = IF r = q THEN s ELSE row[r].status
        /\ Finished(row, q, s)[r].stage = row[r].stage
  BY DEF Finished, RunRow
<1>3. \A s \in RunStage, r \in Run :
        /\ Staged(row, q, s)[r].status = row[r].status
        /\ Staged(row, q, s)[r].stage = IF r = q THEN s ELSE row[r].stage
  BY DEF Staged, RunRow
<1>4. \A r \in Run : /\ Claimed(row, q, w)[r].status = row[r].status
                     /\ Claimed(row, q, w)[r].stage = row[r].stage
  BY DEF Claimed, RunRow
<1>5. \A r \in Run : /\ Released(row, q, w)[r].status = row[r].status
                     /\ Released(row, q, w)[r].stage = row[r].stage
  BY DEF Released, RunRow
<1>6. QED
  BY <1>1, <1>2, <1>3, <1>4, <1>5

\* Marking orphans and rewriting a lease touch neither status nor stage.
LEMMA LeaseEffects ==
  ASSUME row \in [Run -> RunRow]
  PROVE  /\ \A r \in Run : /\ Orphaned(row)[r].status = row[r].status
                           /\ Orphaned(row)[r].stage = row[r].stage
         /\ \A q, r \in Run, l \in Lease :
              /\ [row EXCEPT ![q] = [@ EXCEPT !.lease = l]][r].status = row[r].status
              /\ [row EXCEPT ![q] = [@ EXCEPT !.lease = l]][r].stage = row[r].stage
<1>1. \A r \in Run : /\ Orphaned(row)[r].status = row[r].status
                     /\ Orphaned(row)[r].stage = row[r].stage
  BY DEF Orphaned, RunRow
<1>2. \A q, r \in Run, l \in Lease :
        /\ [row EXCEPT ![q] = [@ EXCEPT !.lease = l]][r].status = row[r].status
        /\ [row EXCEPT ![q] = [@ EXCEPT !.lease = l]][r].stage = row[r].stage
  BY DEF RunRow
<1>3. QED
  BY <1>1, <1>2

\* The part of Evidence about one run, one chat, one resume
RunFacts(r) ==
  /\ row[r].status = "absent" => calls[r] = 0 /\ batches[r] = 0
  /\ batches[r] <= calls[r] /\ calls[r] <= 1
  /\ row[r].status = "succeeded" \/ row[r].stage \in {"response_persisted", "completed"}
       => batches[r] = 1

ChatFacts(c) ==
  /\ Active(c) => row[RunOf[c]].status # "absent"
  /\ pc[c] \in {"context", "starting"} => calls[RunOf[c]] = 0
  /\ pc[c] \in {"model", "answered", "append"} =>
       calls[RunOf[c]] = 1 /\ batches[RunOf[c]] = 0
  /\ pc[c] \in {"appended", "finish", "completing"} => batches[RunOf[c]] = 1
  /\ pc[c] = "completing" => row[RunOf[c]].status = "succeeded"
  /\ reply[c] = "ok" => /\ ~Active(c)
                        /\ batches[RunOf[c]] = 1
                        /\ row[RunOf[c]].status = "succeeded"

ResumeFacts(k) ==
  /\ rpc[k] \in {"claim", "count"} =>
       \/ seen[k] = "response_ready"
       \/ seen[k] = "response_persisted" /\ batches[RunOf[k]] = 1
  /\ rpc[k] \in {"persist", "finish", "complete"} => batches[RunOf[k]] = 1
  /\ answer[k] = "completed" => batches[RunOf[k]] = 1

\* No two chats drive, or have delivered, the same run
Apart(c, d) ==
  RunOf[c] = RunOf[d] /\ c # d => ~(Active(c) /\ (Active(d) \/ reply[d] = "ok"))

\* Evidence, regrouped by what a step can disturb: one run, one chat, one
\* resume, or a pair of chats.
LEMMA EvidenceParts ==
  ASSUME RunOf \in [Handler -> Run]
  PROVE  Evidence <=> /\ \A r \in Run : RunFacts(r)
                      /\ \A c \in Chat : ChatFacts(c)
                      /\ \A k \in Resume : ResumeFacts(k)
                      /\ \A c, d \in Chat : Apart(c, d)
BY DEF Evidence, AbsentIsUntouched, ModelCalledOnce, SucceededIsPersisted,
       AcknowledgedIsDurable, ChatProgram, SoleDriver, ResumeProgram, DeliveredIsQuiet,
       RunFacts, ChatFacts, ResumeFacts, Apart, Handler

\* The same split, used to establish Evidence after a step
LEMMA EvidenceFromParts ==
  ASSUME RunOf \in [Handler -> Run],
         \A r \in Run : RunFacts(r)', \A c \in Chat : ChatFacts(c)',
         \A k \in Resume : ResumeFacts(k)', \A c, d \in Chat : Apart(c, d)'
  PROVE  Evidence'
BY DEF Evidence, AbsentIsUntouched, ModelCalledOnce, SucceededIsPersisted,
       AcknowledgedIsDurable, ChatProgram, SoleDriver, ResumeProgram, DeliveredIsQuiet,
       RunFacts, ChatFacts, ResumeFacts, Apart, Handler

\* A step leaves the run's status, stage, answers and model calls alone
SameRun(r) ==
  /\ row'[r].status = row[r].status /\ row'[r].stage = row[r].stage
  /\ batches'[r] = batches[r] /\ calls'[r] = calls[r]

\* A chat step that writes its own run only, with no other chat on that run:
\* it is enough to look at that chat and that run.
LEMMA ChatLocality ==
  ASSUME Evidence, NEW c \in Chat, RunOf \in [Handler -> Run],
         \A d \in Chat \ {c} : RunOf[d] = RunOf[c] => ~Active(d) /\ reply[d] # "ok",
         \A r \in Run \ {RunOf[c]} : SameRun(r),
         \A d \in Chat \ {c} : pc'[d] = pc[d] /\ reply'[d] = reply[d],
         UNCHANGED <<rpc, seen, answer>>,
         batches[RunOf[c]] = 1 => batches'[RunOf[c]] = 1,
         row[RunOf[c]].status # "absent" => row'[RunOf[c]].status # "absent",
         RunFacts(RunOf[c])', ChatFacts(c)'
  PROVE  Evidence'
<1>1. \A r \in Run : RunFacts(r)'
  BY EvidenceParts DEF RunFacts, SameRun
<1>2. ASSUME NEW d \in Chat PROVE ChatFacts(d)'
  <2>1. CASE d = c
    BY <2>1
  <2>2. CASE d # c /\ RunOf[d] = RunOf[c]
    BY <2>2, EvidenceParts DEF ChatFacts, Active
  <2>3. CASE RunOf[d] # RunOf[c]
    <3>1. SameRun(RunOf[d]) /\ pc'[d] = pc[d] /\ reply'[d] = reply[d] /\ ChatFacts(d)
      BY <2>3, EvidenceParts DEF Handler
    <3>2. QED
      BY <3>1 DEF ChatFacts, Active, SameRun
  <2>4. QED
    BY <2>1, <2>2, <2>3
<1>3. ASSUME NEW k \in Resume PROVE ResumeFacts(k)'
  <2>1. ResumeFacts(k) /\ (batches[RunOf[k]] = 1 => batches'[RunOf[k]] = 1)
    BY EvidenceParts DEF SameRun, Handler
  <2>2. QED
    BY <2>1 DEF ResumeFacts
<1>4. \A a, d \in Chat : Apart(a, d)'
  BY EvidenceParts DEF Apart, Active
<1>5. QED
  BY <1>1, <1>2, <1>3, <1>4, EvidenceFromParts

\* A resume step: answers and chats stay, and a run is concluded or advanced
\* only where its answer is stored.
LEMMA ResumeLocality ==
  ASSUME Evidence, NEW k \in Resume, RunOf \in [Handler -> Run],
         UNCHANGED <<batches, calls, pc, reply>>,
         \A r \in Run : \/ row'[r].status = row[r].status
                        \/ row'[r].status = "succeeded" /\ batches[r] = 1,
         \A r \in Run : \/ row'[r].stage = row[r].stage
                        \/ batches[r] = 1,
         \A j \in Resume \ {k} : /\ rpc'[j] = rpc[j] /\ seen'[j] = seen[j]
                                 /\ answer'[j] = answer[j],
         ResumeFacts(k)'
  PROVE  Evidence'
<1>1. ASSUME NEW r \in Run PROVE RunFacts(r)'
  BY EvidenceParts DEF RunFacts
<1>2. ASSUME NEW c \in Chat PROVE ChatFacts(c)'
  <2>1. ChatFacts(c) /\ RunOf[c] \in Run
    BY EvidenceParts DEF Handler
  <2>2. QED
    BY <2>1 DEF ChatFacts, Active
<1>3. ASSUME NEW j \in Resume PROVE ResumeFacts(j)'
  <2>1. ResumeFacts(j)
    BY EvidenceParts
  <2>2. QED
    BY <2>1 DEF ResumeFacts
<1>4. \A c, d \in Chat : Apart(c, d)'
  BY EvidenceParts DEF Apart, Active
<1>5. QED
  BY <1>1, <1>2, <1>3, <1>4, EvidenceFromParts

\* A step that at most ends chat handlers, with an error or silently, and
\* rewrites leases.
LEMMA QuietLocality ==
  ASSUME Evidence, RunOf \in [Handler -> Run],
         \A r \in Run : SameRun(r),
         \A c \in Chat : pc'[c] = pc[c] \/ pc'[c] = "done",
         \A c \in Chat : reply'[c] = reply[c] \/ reply'[c] = "error",
         UNCHANGED <<rpc, seen, answer>>
  PROVE  Evidence'
<1>1. ASSUME NEW r \in Run PROVE RunFacts(r)'
  BY EvidenceParts DEF RunFacts, SameRun
<1>2. ASSUME NEW c \in Chat PROVE ChatFacts(c)'
  <2>1. ChatFacts(c) /\ SameRun(RunOf[c])
    BY EvidenceParts DEF Handler
  <2>2. QED
    BY <2>1 DEF ChatFacts, Active, SameRun
<1>3. ASSUME NEW j \in Resume PROVE ResumeFacts(j)'
  <2>1. ResumeFacts(j) /\ SameRun(RunOf[j])
    BY EvidenceParts DEF Handler
  <2>2. QED
    BY <2>1 DEF ResumeFacts, SameRun
<1>4. \A c, d \in Chat : Apart(c, d)'
  BY EvidenceParts DEF Apart, Active
<1>5. QED
  BY <1>1, <1>2, <1>3, <1>4, EvidenceFromParts

\* Every step of a chat handler keeps the evidence.
LEMMA ChatEvidence ==
  ASSUME TypeOK, Evidence, NEW c \in Chat, ChatStep(c)
  PROVE  Evidence'
<1>0. /\ row \in [Run -> RunRow] /\ RunOf[c] \in Run /\ WorkerOf[c] \in Worker
      /\ RunOf \in [Handler -> Run] /\ pc \in [Chat -> ChatPC]
      /\ batches \in [Run -> Nat] /\ calls \in [Run -> Nat]
      /\ reply \in [Chat -> {"none", "ok", "error"}]
  BY RunOfType, WorkerOfType DEF Handler, TypeOK
<1>1. RunFacts(RunOf[c]) /\ ChatFacts(c)
  BY <1>0, EvidenceParts
<1>2. ASSUME Active(c)
      PROVE  \A d \in Chat \ {c} : RunOf[d] = RunOf[c] => ~Active(d) /\ reply[d] # "ok"
  BY <1>0, <1>2, EvidenceParts DEF Apart
<1>3. ASSUME NEW s \in RunStage, NEW n \in ChatPC, SaveCheckpoint(c, s, n),
             UNCHANGED batches
      PROVE  /\ pc' = [pc EXCEPT ![c] = n]
             /\ row'[RunOf[c]].status = row[RunOf[c]].status
             /\ row'[RunOf[c]].stage \in {s, row[RunOf[c]].stage}
             /\ \A r \in Run \ {RunOf[c]} : calls'[r] = calls[r] => SameRun(r)
  BY <1>0, <1>3, CheckpointEffect, TableEffects DEF SameRun
<1>4. CASE CreateRun(c)
  <2>1. CASE /\ row' = row /\ pc' = [pc EXCEPT ![c] = "done"]
             /\ reply' = [reply EXCEPT ![c] = "error"]
    BY <1>0, <1>4, <2>1, QuietLocality DEF CreateRun, SameRun, resumeVars
  <2>2. CASE /\ row' = Inserted(row, RunOf[c], WorkerOf[c])
             /\ row[RunOf[c]].status = "absent"
             /\ \/ pc' = [pc EXCEPT ![c] = "context"] /\ reply' = reply
                \/ pc' = [pc EXCEPT ![c] = "done"] /\ reply' = [reply EXCEPT ![c] = "error"]
    <3>1. /\ row'[RunOf[c]].status = "running" /\ row'[RunOf[c]].stage = "created"
          /\ \A r \in Run \ {RunOf[c]} : SameRun(r)
          /\ calls'[RunOf[c]] = calls[RunOf[c]] /\ batches'[RunOf[c]] = batches[RunOf[c]]
      BY <1>0, <1>4, <2>2, TableEffects DEF CreateRun, SameRun
    <3>2. \A d \in Chat \ {c} : RunOf[d] = RunOf[c] => ~Active(d) /\ reply[d] # "ok"
      BY <1>0, <2>2, EvidenceParts DEF ChatFacts
    <3>3. RunFacts(RunOf[c])' /\ ChatFacts(c)'
      <4>1. calls[RunOf[c]] = 0 /\ batches[RunOf[c]] = 0 /\ reply[c] # "ok"
        BY <1>1, <2>2 DEF RunFacts, ChatFacts
      <4>2. RunFacts(RunOf[c])'
        BY <3>1, <4>1 DEF RunFacts
      <4>3. /\ pc'[c] \in {"context", "done"} /\ reply'[c] # "ok"
            /\ calls'[RunOf[c]] = 0 /\ row'[RunOf[c]].status # "absent"
        BY <1>0, <2>2, <3>1, <4>1
      <4>4. ChatFacts(c)'
        BY <4>3 DEF ChatFacts, Active
      <4>5. QED
        BY <4>2, <4>4
    <3>4. QED
      BY <1>0, <1>4, <2>2, <3>1, <3>2, <3>3, ChatLocality DEF CreateRun, resumeVars
  <2>3. QED
    BY <1>4, <2>1, <2>2 DEF CreateRun, Committed
<1>5. CASE SaveContext(c)
  <2>1. SaveCheckpoint(c, "context_loaded", "starting")
    BY <1>5 DEF SaveContext
  <2>2. RunFacts(RunOf[c])' /\ ChatFacts(c)'
    BY <1>0, <1>1, <1>3, <1>5, <2>1
       DEF SaveContext, RunFacts, ChatFacts, Active, RunStage, ChatPC
  <2>3. QED
    BY <1>0, <1>2, <1>3, <1>5, <2>1, <2>2, ChatLocality
       DEF SaveContext, Active, resumeVars, RunStage, ChatPC
<1>6. CASE StartModel(c)
  <2>1. SaveCheckpoint(c, "model_running", "model")
    BY <1>6 DEF StartModel
  <2>2. RunFacts(RunOf[c])' /\ ChatFacts(c)'
    BY <1>0, <1>1, <1>3, <1>6, <2>1
       DEF StartModel, RunFacts, ChatFacts, Active, RunStage, ChatPC
  <2>3. QED
    BY <1>0, <1>2, <1>3, <1>6, <2>1, <2>2, ChatLocality
       DEF StartModel, Active, resumeVars, RunStage, ChatPC
<1>7. CASE ModelReturns(c)
  <2>1. RunFacts(RunOf[c])' /\ ChatFacts(c)'
    BY <1>0, <1>1, <1>7 DEF ModelReturns, RunFacts, ChatFacts, Active
  <2>2. QED
    BY <1>0, <1>2, <1>7, <2>1, ChatLocality DEF ModelReturns, Active, SameRun, resumeVars
<1>8. CASE SaveReady(c)
  <2>1. SaveCheckpoint(c, "response_ready", "append")
    BY <1>8 DEF SaveReady
  <2>2. RunFacts(RunOf[c])' /\ ChatFacts(c)'
    BY <1>0, <1>1, <1>3, <1>8, <2>1
       DEF SaveReady, RunFacts, ChatFacts, Active, RunStage, ChatPC
  <2>3. QED
    BY <1>0, <1>2, <1>3, <1>8, <2>1, <2>2, ChatLocality
       DEF SaveReady, Active, resumeVars, RunStage, ChatPC
<1>9. CASE AppendMessages(c)
  <2>1. RunFacts(RunOf[c])' /\ ChatFacts(c)'
    <3>1. /\ calls[RunOf[c]] = 1 /\ batches[RunOf[c]] = 0
          /\ row[RunOf[c]].status # "absent" /\ reply[c] # "ok"
      BY <1>1, <1>9 DEF AppendMessages, ChatFacts, Active
    <3>2. /\ UNCHANGED <<row, calls, reply>>
          /\ \/ batches'[RunOf[c]] = 1 /\ pc'[c] = "appended"
             \/ batches'[RunOf[c]] \in {0, 1} /\ pc'[c] = "failing"
      BY <1>0, <1>9, <3>1 DEF AppendMessages, Committed
    <3>3. RunFacts(RunOf[c])'
      BY <1>1, <3>1, <3>2 DEF RunFacts
    <3>4. ChatFacts(c)'
      BY <3>1, <3>2 DEF ChatFacts
    <3>5. QED
      BY <3>3, <3>4
  <2>2. \A r \in Run \ {RunOf[c]} : SameRun(r)
    BY <1>0, <1>9 DEF AppendMessages, SameRun, resumeVars
  <2>3. QED
    BY <1>0, <1>1, <1>2, <1>9, <2>1, <2>2, ChatLocality
       DEF AppendMessages, Active, ChatFacts, resumeVars
<1>10. CASE SavePersisted(c)
  <2>1. SaveCheckpoint(c, "response_persisted", "finish")
    BY <1>10 DEF SavePersisted
  <2>2. RunFacts(RunOf[c])' /\ ChatFacts(c)'
    BY <1>0, <1>1, <1>3, <1>10, <2>1
       DEF SavePersisted, RunFacts, ChatFacts, Active, RunStage, ChatPC
  <2>3. QED
    BY <1>0, <1>2, <1>3, <1>10, <2>1, <2>2, ChatLocality
       DEF SavePersisted, Active, resumeVars, RunStage, ChatPC
<1>11. CASE Finish(c)
  <2>1. /\ row'[RunOf[c]].status # "absent" /\ row'[RunOf[c]].stage = row[RunOf[c]].stage
        /\ \A r \in Run \ {RunOf[c]} : SameRun(r)
    BY <1>0, <1>1, <1>11, TableEffects
       DEF Finish, SameRun, Terminal, ChatFacts, Active
  <2>2. RunFacts(RunOf[c])' /\ ChatFacts(c)'
    BY <1>0, <1>1, <1>11, <2>1, TableEffects
       DEF Finish, RunFacts, ChatFacts, Active, Terminal, Committed
  <2>3. QED
    BY <1>0, <1>2, <1>11, <2>1, <2>2, ChatLocality DEF Finish, Active, resumeVars
<1>12. CASE Complete(c)
  <2>1. SaveCheckpoint(c, "completed", "done")
    BY <1>12 DEF Complete
  <2>2. RunFacts(RunOf[c])' /\ ChatFacts(c)'
    BY <1>0, <1>1, <1>3, <1>12, <2>1
       DEF Complete, RunFacts, ChatFacts, Active, RunStage, ChatPC
  <2>3. QED
    BY <1>0, <1>2, <1>3, <1>12, <2>1, <2>2, ChatLocality
       DEF Complete, Active, resumeVars, RunStage, ChatPC
<1>13. CASE FinishFailed(c)
  <2>1. /\ row'[RunOf[c]].status # "absent" /\ row'[RunOf[c]].stage = row[RunOf[c]].stage
        /\ \A r \in Run \ {RunOf[c]} : SameRun(r)
    BY <1>0, <1>1, <1>13, TableEffects
       DEF FinishFailed, SameRun, Terminal, ChatFacts, Active
  <2>2. RunFacts(RunOf[c])' /\ ChatFacts(c)'
    BY <1>0, <1>1, <1>13, <2>1, TableEffects
       DEF FinishFailed, RunFacts, ChatFacts, Active, Terminal, Committed
  <2>3. QED
    BY <1>0, <1>2, <1>13, <2>1, <2>2, ChatLocality DEF FinishFailed, Active, resumeVars
<1>14. CASE NoteFailed(c)
  <2>1. SaveCheckpoint(c, "failed", "done")
    BY <1>14 DEF NoteFailed
  <2>2. RunFacts(RunOf[c])' /\ ChatFacts(c)'
    BY <1>0, <1>1, <1>3, <1>14, <2>1
       DEF NoteFailed, RunFacts, ChatFacts, Active, RunStage, ChatPC
  <2>3. QED
    BY <1>0, <1>2, <1>3, <1>14, <2>1, <2>2, ChatLocality
       DEF NoteFailed, Active, resumeVars, RunStage, ChatPC
<1>15. QED
  BY <1>4, <1>5, <1>6, <1>7, <1>8, <1>9, <1>10, <1>11, <1>12, <1>13, <1>14 DEF ChatStep

\* A resume step writes no chat, answer or model call, and no other resume.
LEMMA ResumeFrame ==
  ASSUME TypeOK, NEW k \in Resume, ResumeStep(k) \/ ResumeCrash(k)
  PROVE  /\ UNCHANGED <<batches, calls, pc, reply>>
         /\ \A j \in Resume \ {k} : /\ rpc'[j] = rpc[j] /\ seen'[j] = seen[j]
                                    /\ answer'[j] = answer[j]
<1> USE DEF TypeOK, chatVars, Answered, Proceed
<1>1. CASE ResumeScan(k)
  BY <1>1 DEF ResumeScan
<1>2. CASE ResumeLoad(k)
  BY <1>2 DEF ResumeLoad
<1>3. CASE ResumeClaim(k)
  BY <1>3 DEF ResumeClaim
<1>4. CASE ResumeCount(k)
  BY <1>4 DEF ResumeCount
<1>5. CASE ResumeRelease(k)
  BY <1>5 DEF ResumeRelease
<1>6. CASE ResumePersist(k)
  BY <1>6 DEF ResumePersist
<1>7. CASE ResumeFinish(k)
  BY <1>7 DEF ResumeFinish
<1>8. CASE ResumeComplete(k)
  BY <1>8 DEF ResumeComplete
<1>9. CASE ResumeCleanup(k)
  BY <1>9 DEF ResumeCleanup
<1>10. CASE ResumeAgain(k) \/ ResumeCrash(k)
  BY <1>10 DEF ResumeAgain, ResumeCrash
<1>11. QED
  BY <1>1, <1>2, <1>3, <1>4, <1>5, <1>6, <1>7, <1>8, <1>9, <1>10 DEF ResumeStep

\* Every step of a resume handler keeps the evidence.
LEMMA ResumeEvidence ==
  ASSUME TypeOK, Evidence, NEW k \in Resume, ResumeStep(k) \/ ResumeCrash(k)
  PROVE  Evidence'
<1>0. /\ row \in [Run -> RunRow] /\ RunOf[k] \in Run /\ WorkerOf[k] \in Worker
      /\ RunOf \in [Handler -> Run] /\ rpc \in [Resume -> ResumePC]
      /\ seen \in [Resume -> RunStage] /\ batches \in [Run -> Nat] /\ calls \in [Run -> Nat]
      /\ answer \in [Resume -> {"none", "completed", "refused", "failed"}]
  BY RunOfType, WorkerOfType DEF Handler, TypeOK
<1>1. ResumeFacts(k) /\ RunFacts(RunOf[k])
  BY <1>0, EvidenceParts
<1> DEFINE RowKept == \A r \in Run :
             /\ \/ row'[r].status = row[r].status
                \/ row'[r].status = "succeeded" /\ batches[r] = 1
             /\ \/ row'[r].stage = row[r].stage
                \/ batches[r] = 1
<1>2. ASSUME RowKept, ResumeFacts(k)' PROVE Evidence'
  <2>1. /\ UNCHANGED <<batches, calls, pc, reply>>
        /\ \A j \in Resume \ {k} : /\ rpc'[j] = rpc[j] /\ seen'[j] = seen[j]
                                   /\ answer'[j] = answer[j]
    BY ResumeFrame
  <2>2. \A r \in Run : \/ row'[r].status = row[r].status
                       \/ row'[r].status = "succeeded" /\ batches[r] = 1
    BY <1>2 DEF RowKept
  <2>3. \A r \in Run : \/ row'[r].stage = row[r].stage
                       \/ batches[r] = 1
    BY <1>2 DEF RowKept
  <2>4. QED
    BY <1>0, <1>2, <2>1, <2>2, <2>3, ResumeLocality
<1>3. CASE ResumeScan(k)
  <2>1. ResumeFacts(k)'
    BY <1>0, <1>1, <1>3 DEF ResumeScan, ResumeFacts, chatVars, Answered
  <2>2. RowKept
    BY <1>0, <1>3, LeaseEffects DEF chatVars, ResumeScan
  <2>3. QED
    BY <1>2, <2>1, <2>2
<1>4. CASE ResumeLoad(k)
  <2>1. RecoveryAction(row[RunOf[k]].stage) = "complete_persisted_tail" =>
          row[RunOf[k]].stage \in {"response_ready", "response_persisted"}
    BY DEF RecoveryAction
  <2>2. ResumeFacts(k)'
    BY <1>0, <1>1, <1>4, <2>1
       DEF ResumeLoad, ResumeFacts, RunFacts, chatVars, Answered
  <2>3. RowKept
    BY <1>4 DEF chatVars, ResumeLoad
  <2>4. QED
    BY <1>2, <2>2, <2>3
<1>5. CASE ResumeClaim(k)
  <2>1. ResumeFacts(k)'
    BY <1>0, <1>1, <1>5 DEF ResumeClaim, ResumeFacts, chatVars, Answered
  <2>2. RowKept
    BY <1>0, <1>5, TableEffects DEF chatVars, ResumeClaim
  <2>3. QED
    BY <1>2, <2>1, <2>2
<1>6. CASE ResumeCount(k)
  <2>1. batches[RunOf[k]] = 0 \/ batches[RunOf[k]] = 1
    BY <1>0, <1>1 DEF RunFacts
  <2>2. rpc'[k] \in {"persist", "finish"} => batches[RunOf[k]] = 1
    BY <1>0, <1>1, <1>6, <2>1 DEF ResumeCount, ResumeFacts, Proceed
  <2>3. rpc'[k] \in {"release", "persist", "finish", "cleanup"}
    BY <1>0, <1>6 DEF ResumeCount, Proceed
  <2>4. ResumeFacts(k)'
    BY <1>1, <1>6, <2>2, <2>3 DEF ResumeCount, ResumeFacts
  <2>5. RowKept
    BY <1>6 DEF chatVars, ResumeCount
  <2>6. QED
    BY <1>2, <2>4, <2>5
<1>7. CASE ResumeRelease(k)
  <2>1. ResumeFacts(k)'
    BY <1>0, <1>1, <1>7 DEF ResumeRelease, ResumeFacts, chatVars, Answered, Proceed
  <2>2. RowKept
    BY <1>0, <1>7, TableEffects DEF chatVars, ResumeRelease
  <2>3. QED
    BY <1>2, <2>1, <2>2
<1>8. CASE ResumePersist(k)
  <2>1. ResumeFacts(k)'
    BY <1>0, <1>1, <1>8 DEF ResumePersist, ResumeFacts, chatVars, Proceed
  <2>2. RowKept
    BY <1>0, <1>1, <1>8, TableEffects DEF chatVars, ResumePersist, ResumeFacts, RunStage
  <2>3. QED
    BY <1>2, <2>1, <2>2
<1>9. CASE ResumeFinish(k)
  <2>1. ResumeFacts(k)'
    BY <1>0, <1>1, <1>9 DEF ResumeFinish, ResumeFacts, chatVars, Proceed
  <2>2. RowKept
    BY <1>0, <1>1, <1>9, TableEffects DEF chatVars, ResumeFinish, ResumeFacts, Terminal
  <2>3. QED
    BY <1>2, <2>1, <2>2
<1>10. CASE ResumeComplete(k)
  <2>1. ResumeFacts(k)'
    BY <1>0, <1>1, <1>10 DEF ResumeComplete, ResumeFacts, chatVars, Answered, Proceed
  <2>2. RowKept
    BY <1>0, <1>1, <1>10, TableEffects DEF chatVars, ResumeComplete, ResumeFacts, RunStage
  <2>3. QED
    BY <1>2, <2>1, <2>2
<1>11. CASE ResumeCleanup(k)
  <2>1. ResumeFacts(k)'
    BY <1>0, <1>1, <1>11 DEF ResumeCleanup, ResumeFacts, chatVars, Answered
  <2>2. RowKept
    BY <1>0, <1>11, TableEffects DEF chatVars, ResumeCleanup
  <2>3. QED
    BY <1>2, <2>1, <2>2
<1>12. CASE ResumeAgain(k) \/ ResumeCrash(k)
  <2>1. ResumeFacts(k)'
    BY <1>0, <1>1, <1>12 DEF ResumeAgain, ResumeCrash, ResumeFacts, chatVars
  <2>2. RowKept
    BY <1>12 DEF chatVars, ResumeAgain, ResumeCrash
  <2>3. QED
    BY <1>2, <2>1, <2>2
<1>13. QED
  BY <1>3, <1>4, <1>5, <1>6, <1>7, <1>8, <1>9, <1>10, <1>11, <1>12 DEF ResumeStep

\* Every step of the system keeps the evidence.
LEMMA NextEvidence == TypeOK /\ Evidence /\ [Next]_vars => Evidence'
<1> SUFFICES ASSUME TypeOK, Evidence, [Next]_vars PROVE Evidence'
  OBVIOUS
<1>0. RunOf \in [Handler -> Run] /\ row \in [Run -> RunRow] /\ pc \in [Chat -> ChatPC]
  BY RunOfType DEF TypeOK
<1>1. ASSUME NEW c \in Chat, Crash(c) \/ HeartbeatRenews(c) \/ HeartbeatStops(c)
      PROVE  Evidence'
  <2>1. \A r \in Run : SameRun(r)
    <3>1. CASE HeartbeatRenews(c)
      BY <1>0, <3>1, LeaseEffects
         DEF HeartbeatRenews, SameRun, Handler, Lease, chatVars, resumeVars
    <3>2. CASE Crash(c) \/ HeartbeatStops(c)
      BY <3>2 DEF Crash, HeartbeatStops, SameRun, resumeVars
    <3>3. QED
      BY <1>1, <3>1, <3>2
  <2>2. QED
    BY <1>0, <1>1, <2>1, QuietLocality
       DEF Crash, HeartbeatRenews, HeartbeatStops, chatVars, resumeVars
<1>2. ASSUME NEW q \in Run, LeaseAges(q) \/ LeaseLapses(q) PROVE Evidence'
  <2>1. \A r \in Run : SameRun(r)
    <3>1. CASE LeaseAges(q)
      BY <1>0, <3>1, LeaseEffects DEF LeaseAges, SameRun, Lease, chatVars, resumeVars
    <3>2. CASE LeaseLapses(q)
      BY <1>0, <3>2, LeaseEffects DEF LeaseLapses, SameRun, Lease, chatVars, resumeVars
    <3>3. QED
      BY <1>2, <3>1, <3>2
  <2>2. QED
    BY <1>0, <1>2, <2>1, QuietLocality DEF LeaseAges, LeaseLapses, chatVars, resumeVars
<1>3. CASE ScanOrphans
  <2>1. \A r \in Run : SameRun(r)
    BY <1>0, <1>3, LeaseEffects DEF ScanOrphans, SameRun, chatVars, resumeVars
  <2>2. QED
    BY <1>0, <1>3, <2>1, QuietLocality DEF ScanOrphans, chatVars, resumeVars
<1>4. CASE UNCHANGED vars
  BY <1>0, <1>4, QuietLocality DEF vars, SameRun
<1>5. QED
  BY <1>1, <1>2, <1>3, <1>4, ChatEvidence, ResumeEvidence DEF Next

\* The invariant holds initially and is kept by every step.
THEOREM EvidenceHolds == Spec => []Evidence
<1>1. Init => Evidence
  BY RunOfType DEF Init, Evidence, AbsentIsUntouched, ModelCalledOnce,
     SucceededIsPersisted, AcknowledgedIsDurable, ChatProgram, SoleDriver, ResumeProgram,
     DeliveredIsQuiet, Active, NoRow, Handler
<1>2. QED
  BY <1>1, NextEvidence, TypeCorrect, PTL DEF Spec

\* However often a run is retried, resumed, or its statements fail, its model
\* is called at most once and its answer stored at most once.
THEOREM ModelCalledOnceAlways == Spec => []ModelCalledOnce
<1>1. Evidence => ModelCalledOnce
  BY DEF Evidence
<1>2. QED
  BY <1>1, EvidenceHolds, PTL

\* A run on record as succeeded has its answer stored.
THEOREM SucceededIsPersistedAlways == Spec => []SucceededIsPersisted
<1>1. Evidence => SucceededIsPersisted
  BY DEF Evidence
<1>2. QED
  BY <1>1, EvidenceHolds, PTL

\* What the owner was told stays true.
THEOREM AcknowledgedIsDurableAlways == Spec => []AcknowledgedIsDurable
<1>1. Evidence => AcknowledgedIsDurable
  BY DEF Evidence
<1>2. QED
  BY <1>1, EvidenceHolds, PTL

-----------------------------------------------------------------------------
(* Conclusions while no statement fails                                    *)

\* A chat that was answered is over
AnsweredIsDone == \A c \in Chat : reply[c] = "ok" => pc[c] = "done"

\* Until a statement fails, only a run without an answer is failed, and its
\* chat has nothing left but the note
FaultFree == faults = 0 =>
  /\ \A c \in Chat : pc[c] = "failing" => batches[RunOf[c]] = 0
  /\ \A r \in Run : row[r].status = "failed" => batches[r] = 0
  /\ \A c \in Chat : Active(c) /\ row[RunOf[c]].status = "failed" => pc[c] = "noting"

StatusSame == \A r \in Run : row'[r].status = row[r].status
OthersSame(q) == \A r \in Run \ {q} : row'[r].status = row[r].status
DeliverySame == \A c \in Chat : reply'[c] = "ok" <=> reply[c] = "ok"

\* What a step can be, seen from the run table
Quiet == StatusSame /\ DeliverySame /\ UNCHANGED <<calls, batches>>
Accepts(r) ==
  /\ row[r].status = "absent" /\ row'[r].status = "running" /\ OthersSame(r)
  /\ DeliverySame /\ UNCHANGED <<calls, batches>>
Invokes(r) ==
  /\ row[r].status # "absent" /\ calls[r] = 0 /\ calls' = [calls EXCEPT ![r] = 1]
  /\ StatusSame /\ DeliverySame /\ UNCHANGED batches
Saves(r) ==
  /\ calls[r] = 1 /\ batches[r] = 0 /\ batches' = [batches EXCEPT ![r] = 1]
  /\ faults = 0 => row[r].status # "failed"
  /\ StatusSame /\ DeliverySame /\ UNCHANGED calls
Concludes(r, o) ==
  /\ row[r].status # "absent" /\ row'[r].status = o /\ OthersSame(r)
  /\ o = "succeeded" => batches[r] = 1
  /\ o = "failed" => \A c \in Chat : RunOf[c] = r => reply[c] # "ok"
  /\ o = "failed" /\ faults = 0 => batches[r] = 0
  /\ DeliverySame /\ UNCHANGED <<calls, batches>>
Delivers(c) ==
  /\ batches[RunOf[c]] = 1 /\ row[RunOf[c]].status = "succeeded"
  /\ reply' = [reply EXCEPT ![c] = "ok"]
  /\ StatusSame /\ UNCHANGED <<calls, batches>>

Kinds ==
  \/ Quiet
  \/ \E r \in Run : Accepts(r) \/ Invokes(r) \/ Saves(r)
  \/ \E r \in Run, o \in Terminal : Concludes(r, o)
  \/ \E c \in Chat : Delivers(c)

\* A checkpoint moves its own handler and changes no status.
LEMMA CheckpointKind ==
  ASSUME TypeOK, NEW c \in Chat, NEW s \in RunStage, NEW n \in ChatPC,
         SaveCheckpoint(c, s, n)
  PROVE  StatusSame /\ pc' = [pc EXCEPT ![c] = n]
<1>1. RunOf[c] \in Run /\ WorkerOf[c] \in Worker /\ row \in [Run -> RunRow]
  BY RunOfType, WorkerOfType DEF Handler, TypeOK
<1>2. QED
  BY <1>1, CheckpointEffect, TableEffects DEF StatusSame

\* Each step of a chat handler is of one of these kinds.
LEMMA ChatKinds ==
  ASSUME TypeOK, Evidence, AnsweredIsDone, FaultFree, NEW c \in Chat, ChatStep(c)
  PROVE  Kinds
<1>0. /\ row \in [Run -> RunRow] /\ RunOf[c] \in Run /\ WorkerOf[c] \in Worker
      /\ RunOf \in [Handler -> Run] /\ pc \in [Chat -> ChatPC]
      /\ batches \in [Run -> Nat] /\ calls \in [Run -> Nat]
      /\ reply \in [Chat -> {"none", "ok", "error"}]
  BY RunOfType, WorkerOfType DEF Handler, TypeOK
<1>1. /\ ChatFacts(c) /\ RunFacts(RunOf[c])
      /\ reply[c] = "ok" => pc[c] = "done"
      /\ faults = 0 /\ pc[c] = "failing" => batches[RunOf[c]] = 0
      /\ faults = 0 /\ Active(c) /\ row[RunOf[c]].status = "failed" => pc[c] = "noting"
  BY <1>0, EvidenceParts DEF AnsweredIsDone, FaultFree
<1>2. CASE CreateRun(c)
  <2>1. DeliverySame
    BY <1>0, <1>1, <1>2 DEF CreateRun, DeliverySame
  <2>2. CASE row' = row
    BY <1>2, <2>1, <2>2 DEF CreateRun, Kinds, Quiet, StatusSame
  <2>3. CASE row' = Inserted(row, RunOf[c], WorkerOf[c]) /\ row[RunOf[c]].status = "absent"
    <3>1. row'[RunOf[c]].status = "running" /\ OthersSame(RunOf[c])
      BY <1>0, <2>3, TableEffects DEF OthersSame
    <3>2. Accepts(RunOf[c])
      BY <1>2, <2>1, <2>3, <3>1 DEF CreateRun, Accepts
    <3>3. QED
      BY <1>0, <3>2 DEF Kinds
  <2>4. QED
    BY <1>2, <2>2, <2>3 DEF CreateRun
<1>3. CASE SaveContext(c) \/ SaveReady(c) \/ SavePersisted(c)
  <2>1. StatusSame
    BY <1>3, CheckpointKind DEF SaveContext, SaveReady, SavePersisted, RunStage, ChatPC
  <2>2. QED
    BY <1>3, <2>1 DEF SaveContext, SaveReady, SavePersisted, Kinds, Quiet, DeliverySame
<1>4. CASE StartModel(c)
  <2>1. StatusSame
    BY <1>4, CheckpointKind DEF StartModel, RunStage, ChatPC
  <2>2. calls[RunOf[c]] = 0 /\ row[RunOf[c]].status # "absent"
    BY <1>1, <1>4 DEF StartModel, ChatFacts, Active
  <2>3. calls' = [calls EXCEPT ![RunOf[c]] = 1]
    BY <1>0, <1>4, <2>2 DEF StartModel
  <2>4. Invokes(RunOf[c])
    BY <1>4, <2>1, <2>2, <2>3 DEF StartModel, Invokes, DeliverySame
  <2>5. QED
    BY <1>0, <2>4 DEF Kinds
<1>5. CASE ModelReturns(c)
  BY <1>5 DEF ModelReturns, Kinds, Quiet, StatusSame, DeliverySame
<1>6. CASE AppendMessages(c)
  <2>1. StatusSame /\ DeliverySame /\ UNCHANGED calls
    BY <1>6 DEF AppendMessages, StatusSame, DeliverySame
  <2>2. CASE batches' = batches
    BY <2>1, <2>2 DEF Kinds, Quiet
  <2>3. CASE batches' = [batches EXCEPT ![RunOf[c]] = @ + 1]
    <3>1. calls[RunOf[c]] = 1 /\ batches[RunOf[c]] = 0
      BY <1>1, <1>6 DEF AppendMessages, ChatFacts
    <3>2. batches' = [batches EXCEPT ![RunOf[c]] = 1]
      BY <1>0, <2>3, <3>1
    <3>3. faults = 0 => row[RunOf[c]].status # "failed"
      BY <1>1, <1>6 DEF AppendMessages, Active
    <3>4. QED
      BY <1>0, <2>1, <3>1, <3>2, <3>3 DEF Kinds, Saves
  <2>4. QED
    BY <1>6, <2>2, <2>3 DEF AppendMessages
<1>7. CASE Finish(c)
  <2>1. DeliverySame /\ UNCHANGED <<calls, batches>>
    BY <1>7 DEF Finish, DeliverySame
  <2>2. CASE row' = row
    BY <2>1, <2>2 DEF Kinds, Quiet, StatusSame
  <2>3. CASE row' = Finished(row, RunOf[c], "succeeded")
    <3>1. row'[RunOf[c]].status = "succeeded" /\ OthersSame(RunOf[c])
      BY <1>0, <2>3, TableEffects DEF OthersSame, Terminal
    <3>2. row[RunOf[c]].status # "absent" /\ batches[RunOf[c]] = 1
      BY <1>1, <1>7 DEF Finish, ChatFacts, Active
    <3>3. Concludes(RunOf[c], "succeeded")
      BY <2>1, <3>1, <3>2 DEF Concludes
    <3>4. QED
      BY <1>0, <3>3 DEF Kinds, Terminal
  <2>4. QED
    BY <1>7, <2>2, <2>3 DEF Finish
<1>8. CASE Complete(c)
  <2>1. StatusSame
    BY <1>8, CheckpointKind DEF Complete, RunStage, ChatPC
  <2>2. batches[RunOf[c]] = 1 /\ row[RunOf[c]].status = "succeeded"
    BY <1>1, <1>8 DEF Complete, ChatFacts
  <2>3. QED
    BY <1>8, <2>1, <2>2 DEF Complete, Kinds, Delivers
<1>9. CASE FinishFailed(c)
  <2>1. DeliverySame /\ UNCHANGED <<calls, batches>>
    BY <1>9 DEF FinishFailed, DeliverySame
  <2>2. CASE row' = row
    BY <2>1, <2>2 DEF Kinds, Quiet, StatusSame
  <2>3. CASE row' = Finished(row, RunOf[c], "failed")
    <3>1. row'[RunOf[c]].status = "failed" /\ OthersSame(RunOf[c])
      BY <1>0, <2>3, TableEffects DEF OthersSame, Terminal
    <3>2. Active(c) /\ row[RunOf[c]].status # "absent"
      BY <1>1, <1>9 DEF FinishFailed, ChatFacts, Active
    <3>3. \A d \in Chat : RunOf[d] = RunOf[c] => reply[d] # "ok"
      BY <1>0, <1>1, <3>2, EvidenceParts DEF Apart, ChatFacts
    <3>4. faults = 0 => batches[RunOf[c]] = 0
      BY <1>1, <1>9 DEF FinishFailed
    <3>5. Concludes(RunOf[c], "failed")
      BY <2>1, <3>1, <3>2, <3>3, <3>4 DEF Concludes
    <3>6. QED
      BY <1>0, <3>5 DEF Kinds, Terminal
  <2>4. QED
    BY <1>9, <2>2, <2>3 DEF FinishFailed
<1>10. CASE NoteFailed(c)
  <2>1. StatusSame
    BY <1>10, CheckpointKind DEF NoteFailed, RunStage, ChatPC
  <2>2. DeliverySame
    BY <1>0, <1>1, <1>10 DEF NoteFailed, DeliverySame
  <2>3. QED
    BY <1>10, <2>1, <2>2 DEF NoteFailed, Kinds, Quiet
<1>11. QED
  BY <1>2, <1>3, <1>4, <1>5, <1>6, <1>7, <1>8, <1>9, <1>10 DEF ChatStep

\* A resume handler concludes runs, as succeeded, and does nothing else that
\* the owner could tell.
LEMMA ResumeKinds ==
  ASSUME TypeOK, Evidence, NEW k \in Resume, ResumeStep(k) \/ ResumeCrash(k)
  PROVE  Quiet \/ \E r \in Run : Concludes(r, "succeeded")
<1>0. /\ row \in [Run -> RunRow] /\ RunOf[k] \in Run /\ WorkerOf[k] \in Worker
      /\ RunOf \in [Handler -> Run]
  BY RunOfType, WorkerOfType DEF Handler, TypeOK
<1>1. DeliverySame /\ UNCHANGED <<calls, batches>>
  BY ResumeFrame DEF DeliverySame
<1>2. CASE row' = row
  BY <1>1, <1>2 DEF Quiet, StatusSame
<1>3. CASE row' = Orphaned(row)
  BY <1>0, <1>1, <1>3, LeaseEffects DEF Quiet, StatusSame
<1>4. CASE \/ row' = Claimed(row, RunOf[k], WorkerOf[k])
           \/ row' = Released(row, RunOf[k], WorkerOf[k])
           \/ \E s \in RunStage : row' = Staged(row, RunOf[k], s)
  BY <1>0, <1>1, <1>4, TableEffects DEF Quiet, StatusSame
<1>5. CASE rpc[k] = "finish" /\ row' = Finished(row, RunOf[k], "succeeded")
  <2>1. row'[RunOf[k]].status = "succeeded" /\ OthersSame(RunOf[k])
    BY <1>0, <1>5, TableEffects DEF OthersSame, Terminal
  <2>2. ResumeFacts(k) /\ RunFacts(RunOf[k])
    BY <1>0, EvidenceParts
  <2>3. batches[RunOf[k]] = 1 /\ row[RunOf[k]].status # "absent"
    BY <1>5, <2>2 DEF ResumeFacts, RunFacts
  <2>4. QED
    BY <1>0, <1>1, <2>1, <2>3 DEF Concludes
<1>6. QED
  <2>1. CASE ResumeScan(k)
    BY <1>2, <1>3, <2>1 DEF ResumeScan
  <2>2. CASE ResumeClaim(k)
    BY <1>2, <1>4, <2>2 DEF ResumeClaim
  <2>3. CASE ResumeRelease(k) \/ ResumeCleanup(k)
    BY <1>2, <1>4, <2>3 DEF ResumeRelease, ResumeCleanup
  <2>4. CASE ResumePersist(k) \/ ResumeComplete(k)
    BY <1>2, <1>4, <2>4 DEF ResumePersist, ResumeComplete, RunStage
  <2>5. CASE ResumeFinish(k)
    BY <1>2, <1>5, <2>5 DEF ResumeFinish
  <2>6. CASE ResumeLoad(k) \/ ResumeCount(k) \/ ResumeAgain(k) \/ ResumeCrash(k)
    BY <1>2, <2>6 DEF ResumeLoad, ResumeCount, ResumeAgain, ResumeCrash
  <2>7. QED
    BY <2>1, <2>2, <2>3, <2>4, <2>5, <2>6 DEF ResumeStep

\* Crashes, heartbeats, the clock and scans are quiet.
LEMMA OtherKinds ==
  ASSUME TypeOK,
         \/ \E c \in Chat : Crash(c) \/ HeartbeatRenews(c) \/ HeartbeatStops(c)
         \/ \E q \in Run : LeaseAges(q) \/ LeaseLapses(q)
         \/ ScanOrphans
         \/ UNCHANGED vars
  PROVE  Quiet /\ \A c \in Chat : pc'[c] = pc[c] \/ pc'[c] = "done"
<1>0. row \in [Run -> RunRow] /\ RunOf \in [Handler -> Run] /\ pc \in [Chat -> ChatPC]
  BY RunOfType DEF TypeOK
<1> USE DEF Quiet, StatusSame, DeliverySame
<1>1. ASSUME NEW c \in Chat, HeartbeatRenews(c)
      PROVE  Quiet /\ UNCHANGED pc
  BY <1>0, <1>1, LeaseEffects DEF HeartbeatRenews, Handler, Lease, chatVars
<1>2. ASSUME NEW c \in Chat, Crash(c) \/ HeartbeatStops(c)
      PROVE  Quiet /\ \A d \in Chat : pc'[d] = pc[d] \/ pc'[d] = "done"
  BY <1>0, <1>2 DEF Crash, HeartbeatStops
<1>3. ASSUME NEW q \in Run, LeaseAges(q) PROVE Quiet /\ UNCHANGED pc
  BY <1>0, <1>3, LeaseEffects DEF LeaseAges, Lease, chatVars
<1>4. ASSUME NEW q \in Run, LeaseLapses(q) PROVE Quiet /\ UNCHANGED pc
  BY <1>0, <1>4, LeaseEffects DEF LeaseLapses, Lease, chatVars
<1>5. ScanOrphans => Quiet /\ UNCHANGED pc
  BY <1>0, LeaseEffects DEF ScanOrphans, chatVars
<1>6. UNCHANGED vars => Quiet /\ UNCHANGED pc
  BY DEF vars
<1>7. QED
  BY <1>1, <1>2, <1>3, <1>4, <1>5, <1>6

\* Every step is of one of these kinds.
LEMMA NextKinds ==
  TypeOK /\ Evidence /\ AnsweredIsDone /\ FaultFree /\ [Next]_vars => Kinds
<1> SUFFICES ASSUME TypeOK, Evidence, AnsweredIsDone, FaultFree, [Next]_vars
             PROVE  Kinds
  OBVIOUS
<1>1. Quiet \/ (\E r \in Run : Concludes(r, "succeeded")) => Kinds
  BY DEF Kinds, Terminal
<1>2. QED
  BY <1>1, ChatKinds, ResumeKinds, OtherKinds DEF Next

\* An answered chat takes no further step.
LEMMA NextAnswered == TypeOK /\ Evidence /\ AnsweredIsDone /\ [Next]_vars => AnsweredIsDone'
<1> SUFFICES ASSUME TypeOK, Evidence, AnsweredIsDone, [Next]_vars PROVE AnsweredIsDone'
  OBVIOUS
<1>0. pc \in [Chat -> ChatPC] /\ reply \in [Chat -> {"none", "ok", "error"}]
  BY DEF TypeOK
<1>1. ASSUME NEW c \in Chat, ChatStep(c) PROVE AnsweredIsDone'
  <2>1. /\ pc[c] # "done"
        /\ \A d \in Chat \ {c} : pc'[d] = pc[d] /\ reply'[d] = reply[d]
        /\ reply'[c] = "ok" => pc'[c] = "done" \/ reply[c] = "ok"
    <3>1. CASE CreateRun(c)
      BY <1>0, <3>1 DEF CreateRun
    <3>2. CASE SaveContext(c) \/ StartModel(c) \/ SaveReady(c) \/ SavePersisted(c)
               \/ Complete(c) \/ NoteFailed(c)
      BY <1>0, <3>2, CheckpointKind
         DEF SaveContext, StartModel, SaveReady, SavePersisted, Complete, NoteFailed,
             RunStage, ChatPC
    <3>3. CASE ModelReturns(c) \/ AppendMessages(c)
      BY <1>0, <3>3 DEF ModelReturns, AppendMessages
    <3>4. CASE Finish(c) \/ FinishFailed(c)
      BY <1>0, <3>4 DEF Finish, FinishFailed
    <3>5. QED
      BY <1>1, <3>1, <3>2, <3>3, <3>4 DEF ChatStep
  <2>2. QED
    BY <2>1 DEF AnsweredIsDone
<1>2. ASSUME NEW k \in Resume, ResumeStep(k) \/ ResumeCrash(k) PROVE AnsweredIsDone'
  BY <1>2, ResumeFrame DEF AnsweredIsDone
<1>3. CASE \/ \E c \in Chat : Crash(c) \/ HeartbeatRenews(c) \/ HeartbeatStops(c)
           \/ \E q \in Run : LeaseAges(q) \/ LeaseLapses(q)
           \/ ScanOrphans
           \/ UNCHANGED vars
  BY <1>3, OtherKinds DEF AnsweredIsDone, Quiet, DeliverySame
<1>4. QED
  BY <1>1, <1>2, <1>3 DEF Next

\* Faults are never forgotten.
LEMMA FaultsGrow ==
  ASSUME TypeOK, [Next]_vars, faults' = 0
  PROVE  faults = 0
<1>0. faults \in Nat
  BY MaxFaultsType DEF TypeOK
<1>1. \A o : Counted(o) => faults = 0
  BY <1>0 DEF Counted
<1>2. ASSUME NEW c \in Chat, NEW s, NEW n, SaveCheckpoint(c, s, n) PROVE faults = 0
  BY <1>1, <1>2 DEF SaveCheckpoint
<1>3. ASSUME NEW c \in Chat, ChatStep(c) PROVE faults = 0
  BY <1>1, <1>2, <1>3
     DEF ChatStep, CreateRun, SaveContext, StartModel, ModelReturns, SaveReady,
         AppendMessages, SavePersisted, Finish, Complete, FinishFailed, NoteFailed
<1>4. ASSUME NEW k \in Resume, ResumeStep(k) \/ ResumeCrash(k) PROVE faults = 0
  BY <1>1, <1>4
     DEF ResumeStep, ResumeScan, ResumeLoad, ResumeClaim, ResumeCount, ResumeRelease,
         ResumePersist, ResumeFinish, ResumeComplete, ResumeCleanup, ResumeAgain,
         ResumeCrash
<1>5. QED
  BY <1>1, <1>3, <1>4
     DEF Next, Crash, HeartbeatRenews, HeartbeatStops, LeaseAges, LeaseLapses,
         ScanOrphans, vars

\* What a chat step does to the run it drives while no statement fails.
LEMMA ChatFaultFree ==
  ASSUME TypeOK, Evidence, FaultFree, NEW c \in Chat, ChatStep(c), faults = 0, faults' = 0
  PROVE  /\ \A d \in Chat \ {c} : pc'[d] = pc[d]
         /\ Active(c) \/ UNCHANGED batches
         /\ row'[RunOf[c]].status = "failed" => batches'[RunOf[c]] = 0
         /\ pc'[c] = "failing" => batches'[RunOf[c]] = 0
         /\ pc'[c] \notin {"new", "done"} /\ row'[RunOf[c]].status = "failed" =>
              pc'[c] = "noting"
         /\ \A r \in Run \ {RunOf[c]} : /\ row'[r].status = row[r].status
                                        /\ batches'[r] = batches[r]
<1> DEFINE Goal == /\ \A d \in Chat \ {c} : pc'[d] = pc[d]
                   /\ Active(c) \/ UNCHANGED batches
                   /\ row'[RunOf[c]].status = "failed" => batches'[RunOf[c]] = 0
                   /\ pc'[c] = "failing" => batches'[RunOf[c]] = 0
                   /\ pc'[c] \notin {"new", "done"} /\ row'[RunOf[c]].status = "failed" =>
                        pc'[c] = "noting"
                   /\ \A r \in Run \ {RunOf[c]} : /\ row'[r].status = row[r].status
                                                  /\ batches'[r] = batches[r]
<1>0. /\ row \in [Run -> RunRow] /\ RunOf[c] \in Run /\ WorkerOf[c] \in Worker
      /\ RunOf \in [Handler -> Run] /\ pc \in [Chat -> ChatPC]
      /\ batches \in [Run -> Nat] /\ faults = 0
  BY RunOfType, WorkerOfType DEF Handler, TypeOK
<1>1. /\ ChatFacts(c) /\ RunFacts(RunOf[c])
      /\ pc[c] = "failing" => batches[RunOf[c]] = 0
      /\ row[RunOf[c]].status = "failed" => batches[RunOf[c]] = 0
      /\ Active(c) /\ row[RunOf[c]].status = "failed" => pc[c] = "noting"
  BY <1>0, EvidenceParts DEF FaultFree
<1>2. CASE CreateRun(c)
  <2>1. CASE row' = row /\ pc' = [pc EXCEPT ![c] = "done"]
    BY <1>0, <1>1, <1>2, <2>1 DEF CreateRun
  <2>2. CASE /\ row' = Inserted(row, RunOf[c], WorkerOf[c])
             /\ pc' \in {[pc EXCEPT ![c] = "context"], [pc EXCEPT ![c] = "done"]}
    BY <1>0, <1>2, <2>2, TableEffects DEF CreateRun
  <2>3. QED
    BY <1>2, <2>1, <2>2 DEF CreateRun
<1>3. CASE SaveContext(c) \/ StartModel(c) \/ SaveReady(c) \/ SavePersisted(c)
           \/ Complete(c) \/ NoteFailed(c)
  <2>1. /\ StatusSame
        /\ pc' \in {[pc EXCEPT ![c] = n] :
                      n \in {"starting", "model", "append", "finish", "done"}}
    BY <1>3, CheckpointKind
       DEF SaveContext, StartModel, SaveReady, SavePersisted, Complete, NoteFailed,
           RunStage, ChatPC
  <2>2. UNCHANGED batches /\ pc[c] \notin {"new", "done"}
    BY <1>3 DEF SaveContext, StartModel, SaveReady, SavePersisted, Complete, NoteFailed
  <2>3. pc'[c] = "done" \/ pc[c] # "noting"
    BY <1>0, <1>3, <2>1, CheckpointKind
       DEF SaveContext, StartModel, SaveReady, SavePersisted, Complete, NoteFailed,
           RunStage, ChatPC
  <2>4. QED
    BY <1>0, <1>1, <2>1, <2>2, <2>3 DEF StatusSame, Active
<1>4. CASE ModelReturns(c)
  BY <1>0, <1>1, <1>4 DEF ModelReturns, Active, ChatFacts
<1>5. CASE AppendMessages(c)
  <2>1. /\ pc' = [pc EXCEPT ![c] = "appended"]
        /\ batches' = [batches EXCEPT ![RunOf[c]] = @ + 1]
        /\ UNCHANGED row
    <3>1. PICK o \in Outcome :
            /\ Counted(o)
            /\ batches' = IF Committed(o) THEN [batches EXCEPT ![RunOf[c]] = @ + 1]
                                          ELSE batches
            /\ pc' = [pc EXCEPT ![c] = IF o = "ok" THEN "appended" ELSE "failing"]
      BY <1>5 DEF AppendMessages
    <3>2. o = "ok"
      BY <1>0, <3>1 DEF Counted
    <3>3. QED
      BY <1>5, <3>1, <3>2 DEF AppendMessages, Committed
  <2>2. row[RunOf[c]].status # "failed" /\ pc[c] = "append"
    BY <1>1, <1>5 DEF AppendMessages, Active
  <2>3. QED
    BY <1>0, <2>1, <2>2 DEF Active
<1>6. CASE Finish(c)
  <2>1. /\ pc' = [pc EXCEPT ![c] = "completing"]
        /\ row' = Finished(row, RunOf[c], "succeeded")
        /\ UNCHANGED batches
    <3>1. PICK o \in Outcome :
            /\ Counted(o)
            /\ row' = IF Committed(o) THEN Finished(row, RunOf[c], "succeeded") ELSE row
            /\ pc' = [pc EXCEPT ![c] = IF o = "ok" THEN "completing" ELSE "failing"]
      BY <1>6 DEF Finish
    <3>2. o = "ok"
      BY <1>0, <3>1 DEF Counted
    <3>3. QED
      BY <1>6, <3>1, <3>2 DEF Finish, Committed
  <2>2. QED
    BY <1>0, <2>1, TableEffects DEF Terminal
<1>7. CASE FinishFailed(c)
  <2>1. /\ pc' = [pc EXCEPT ![c] = "noting"] /\ pc[c] = "failing"
        /\ row' = row \/ row' = Finished(row, RunOf[c], "failed")
        /\ UNCHANGED batches
    BY <1>7 DEF FinishFailed
  <2>2. QED
    BY <1>0, <1>1, <2>1, TableEffects DEF Terminal
<1>8. QED
  BY <1>2, <1>3, <1>4, <1>5, <1>6, <1>7 DEF ChatStep

\* Until a statement fails, no run with a stored answer is failed.
LEMMA NextFaultFree ==
  TypeOK /\ Evidence /\ AnsweredIsDone /\ FaultFree /\ [Next]_vars => FaultFree'
<1> SUFFICES ASSUME TypeOK, Evidence, AnsweredIsDone, FaultFree, [Next]_vars, faults' = 0
             PROVE  /\ \A c \in Chat : pc'[c] = "failing" => batches'[RunOf[c]] = 0
                    /\ \A r \in Run : row'[r].status = "failed" => batches'[r] = 0
                    /\ \A c \in Chat : /\ pc'[c] \notin {"new", "done"}
                                       /\ row'[RunOf[c]].status = "failed"
                                       => pc'[c] = "noting"
  BY DEF FaultFree, Active
<1>0. faults = 0 /\ RunOf \in [Handler -> Run] /\ pc \in [Chat -> ChatPC]
  BY FaultsGrow, RunOfType DEF TypeOK
<1>1. /\ \A c \in Chat : pc[c] = "failing" => batches[RunOf[c]] = 0
      /\ \A r \in Run : row[r].status = "failed" => batches[r] = 0
      /\ \A c \in Chat : pc[c] \notin {"new", "done"} /\ row[RunOf[c]].status = "failed" =>
           pc[c] = "noting"
  BY <1>0 DEF FaultFree, Active
<1>2. ASSUME NEW c \in Chat, ChatStep(c)
      PROVE  /\ \A d \in Chat : pc'[d] = "failing" => batches'[RunOf[d]] = 0
             /\ \A r \in Run : row'[r].status = "failed" => batches'[r] = 0
             /\ \A d \in Chat : pc'[d] \notin {"new", "done"} /\ row'[RunOf[d]].status = "failed"
                                => pc'[d] = "noting"
  <2>1. /\ \A d \in Chat \ {c} : pc'[d] = pc[d]
        /\ Active(c) \/ UNCHANGED batches
        /\ row'[RunOf[c]].status = "failed" => batches'[RunOf[c]] = 0
        /\ pc'[c] = "failing" => batches'[RunOf[c]] = 0
        /\ pc'[c] \notin {"new", "done"} /\ row'[RunOf[c]].status = "failed" =>
             pc'[c] = "noting"
        /\ \A r \in Run \ {RunOf[c]} : /\ row'[r].status = row[r].status
                                       /\ batches'[r] = batches[r]
    BY <1>0, <1>2, ChatFaultFree
  <2>2. \A d \in Chat \ {c} : Active(c) /\ RunOf[d] = RunOf[c] => ~Active(d)
    BY <1>0, EvidenceParts DEF Apart
  <2>3. \A r \in Run : row'[r].status = "failed" => batches'[r] = 0
    BY <1>1, <2>1
  <2>4. ASSUME NEW d \in Chat \ {c}, RunOf[d] = RunOf[c], Active(d)
        PROVE  UNCHANGED batches /\ row'[RunOf[d]].status = row[RunOf[d]].status
    <3>1. ~Active(c) /\ row[RunOf[d]].status # "absent"
      BY <1>0, <2>2, <2>4, EvidenceParts DEF ChatFacts
    <3>2. CreateRun(c)
      BY <1>2, <3>1
         DEF Active, ChatStep, SaveContext, StartModel, ModelReturns, SaveReady,
             AppendMessages, SavePersisted, Finish, Complete, FinishFailed, NoteFailed
    <3>3. QED
      BY <2>4, <3>1, <3>2 DEF CreateRun
  <2>5. ASSUME NEW d \in Chat \ {c}, Active(d)
        PROVE  /\ row'[RunOf[d]].status = row[RunOf[d]].status
               /\ batches'[RunOf[d]] = batches[RunOf[d]]
    BY <1>0, <2>1, <2>4, <2>5 DEF Handler
  <2>6. \A d \in Chat : pc'[d] = "failing" => batches'[RunOf[d]] = 0
    BY <1>1, <2>1, <2>5 DEF Active
  <2>7. \A d \in Chat : pc'[d] \notin {"new", "done"} /\ row'[RunOf[d]].status = "failed"
                        => pc'[d] = "noting"
    BY <1>1, <2>1, <2>5 DEF Active
  <2>8. QED
    BY <2>3, <2>6, <2>7
<1>3. ASSUME NEW k \in Resume, ResumeStep(k) \/ ResumeCrash(k)
      PROVE  /\ UNCHANGED <<pc, batches>>
             /\ \A r \in Run : row'[r].status \in {row[r].status, "succeeded"}
  BY <1>3, ResumeFrame, ResumeKinds DEF Quiet, StatusSame, Concludes, OthersSame
<1>4. CASE \/ \E c \in Chat : Crash(c) \/ HeartbeatRenews(c) \/ HeartbeatStops(c)
           \/ \E q \in Run : LeaseAges(q) \/ LeaseLapses(q)
           \/ ScanOrphans
           \/ UNCHANGED vars
  <2>1. Quiet /\ \A c \in Chat : pc'[c] = pc[c] \/ pc'[c] = "done"
    BY <1>4, OtherKinds
  <2>2. QED
    BY <1>0, <1>1, <2>1 DEF Quiet, StatusSame, Handler
<1>5. CASE \E k \in Resume : ResumeStep(k) \/ ResumeCrash(k)
  <2>1. /\ UNCHANGED <<pc, batches>>
        /\ \A r \in Run : row'[r].status \in {row[r].status, "succeeded"}
    BY <1>3, <1>5
  <2>2. QED
    BY <1>0, <1>1, <2>1 DEF Handler
<1>6. QED
  BY <1>2, <1>4, <1>5 DEF Next

\* The two strengthenings hold in every reachable state.
LEMMA ConclusionInvariant == Spec => [](AnsweredIsDone /\ FaultFree)
<1>1. Init => AnsweredIsDone /\ FaultFree
  BY RunOfType DEF Init, AnsweredIsDone, FaultFree, NoRow, Handler
<1>2. QED
  BY <1>1, NextAnswered, NextFaultFree, TypeCorrect, EvidenceHolds, PTL DEF Spec

\* As long as no statement fails, no step changes a conclusion.
THEOREM ConclusionsAreFinal == Spec => ConclusionIsFinal
<1>1. ASSUME TypeOK, Evidence, AnsweredIsDone, FaultFree, [Next]_vars,
             NEW r \in Run, faults' = 0, row[r].status \in Terminal
      PROVE  row'[r].status = row[r].status
  <2>1. Kinds /\ faults = 0
    BY <1>1, NextKinds, FaultsGrow
  <2>2. row[r].status = "failed" => batches[r] = 0
    BY <1>1, <2>1 DEF FaultFree
  <2>3. row[r].status = "succeeded" => batches[r] = 1
    BY <1>1, RunOfType, EvidenceParts DEF RunFacts
  <2>4. ASSUME NEW q \in Run, NEW o \in Terminal, Concludes(q, o)
        PROVE  row'[r].status = row[r].status
    <3>1. CASE r # q
      BY <2>4, <3>1 DEF Concludes, OthersSame
    <3>2. CASE r = q
      BY <1>1, <2>1, <2>2, <2>3, <2>4, <3>2 DEF Concludes, Terminal
    <3>3. QED
      BY <3>1, <3>2
  <2>5. ASSUME NEW q \in Run, Accepts(q) PROVE row'[r].status = row[r].status
    BY <1>1, <2>5 DEF Accepts, OthersSame, Terminal
  <2>6. QED
    BY <2>1, <2>4, <2>5 DEF Kinds, Quiet, Invokes, Saves, Delivers, StatusSame
<1>2. TypeOK /\ Evidence /\ AnsweredIsDone /\ FaultFree /\ [Next]_vars =>
        [\A r \in Run : faults' = 0 /\ row[r].status \in Terminal =>
           row'[r].status = row[r].status]_vars
  BY <1>1
<1>3. QED
  BY <1>2, TypeCorrect, EvidenceHolds, ConclusionInvariant, PTL DEF Spec, ConclusionIsFinal

-----------------------------------------------------------------------------
(* The run table implements the contract                                   *)

\* The contract's state, as ImplementsContract maps it
AcceptedRuns == {r \in Run : row[r].status # "absent"}
InvokedRuns == {r \in Run : calls[r] > 0}
SavedRuns == {r \in Run : batches[r] > 0}
OutcomeOfRuns == [r \in Run |-> IF row[r].status \in Terminal THEN row[r].status ELSE "none"]
DeliveredRuns == {r \in Run : \E c \in Chat : RunOf[c] = r /\ reply[c] = "ok"}

\* A quiet step is a stutter of the contract.
LEMMA QuietStutters ==
  ASSUME Quiet
  PROVE  UNCHANGED <<AcceptedRuns, InvokedRuns, SavedRuns, OutcomeOfRuns, DeliveredRuns>>
<1>1. UNCHANGED <<AcceptedRuns, InvokedRuns, SavedRuns>>
  BY DEF Quiet, StatusSame, AcceptedRuns, InvokedRuns, SavedRuns
<1>2. UNCHANGED OutcomeOfRuns
  BY DEF Quiet, StatusSame, OutcomeOfRuns
<1>3. UNCHANGED DeliveredRuns
  BY DEF Quiet, DeliverySame, DeliveredRuns
<1>4. QED
  BY <1>1, <1>2, <1>3

\* Inserting the row accepts the run.
LEMMA AcceptMaps ==
  ASSUME NEW r \in Run, Accepts(r)
  PROVE  /\ r \notin AcceptedRuns /\ AcceptedRuns' = AcceptedRuns \cup {r}
         /\ UNCHANGED <<InvokedRuns, SavedRuns, OutcomeOfRuns, DeliveredRuns>>
<1>1. r \notin AcceptedRuns /\ AcceptedRuns' = AcceptedRuns \cup {r}
  BY DEF Accepts, OthersSame, AcceptedRuns
<1>2. UNCHANGED <<InvokedRuns, SavedRuns>>
  BY DEF Accepts, InvokedRuns, SavedRuns
<1>3. UNCHANGED OutcomeOfRuns
  BY DEF Accepts, OthersSame, OutcomeOfRuns, Terminal
<1>4. UNCHANGED DeliveredRuns
  BY DEF Accepts, DeliverySame, DeliveredRuns
<1>5. QED
  BY <1>1, <1>2, <1>3, <1>4

\* Starting the model invokes the run, once.
LEMMA InvokeMaps ==
  ASSUME TypeOK, NEW r \in Run, Invokes(r)
  PROVE  /\ r \in AcceptedRuns \ InvokedRuns /\ InvokedRuns' = InvokedRuns \cup {r}
         /\ UNCHANGED <<AcceptedRuns, SavedRuns, OutcomeOfRuns, DeliveredRuns>>
<1>0. calls \in [Run -> Nat]
  BY DEF TypeOK
<1>1. r \in AcceptedRuns \ InvokedRuns /\ InvokedRuns' = InvokedRuns \cup {r}
  BY <1>0 DEF Invokes, AcceptedRuns, InvokedRuns
<1>2. UNCHANGED <<AcceptedRuns, SavedRuns>>
  BY DEF Invokes, StatusSame, AcceptedRuns, SavedRuns
<1>3. UNCHANGED OutcomeOfRuns
  BY DEF Invokes, StatusSame, OutcomeOfRuns
<1>4. UNCHANGED DeliveredRuns
  BY DEF Invokes, DeliverySame, DeliveredRuns
<1>5. QED
  BY <1>1, <1>2, <1>3, <1>4

\* Appending the answer saves the run, once and after its model call.
LEMMA SaveMaps ==
  ASSUME TypeOK, NEW r \in Run, Saves(r)
  PROVE  /\ r \in InvokedRuns \ SavedRuns /\ SavedRuns' = SavedRuns \cup {r}
         /\ UNCHANGED <<AcceptedRuns, InvokedRuns, OutcomeOfRuns, DeliveredRuns>>
<1>0. batches \in [Run -> Nat]
  BY DEF TypeOK
<1>1. r \in InvokedRuns \ SavedRuns /\ SavedRuns' = SavedRuns \cup {r}
  BY <1>0 DEF Saves, InvokedRuns, SavedRuns
<1>2. UNCHANGED <<AcceptedRuns, InvokedRuns>>
  BY DEF Saves, StatusSame, AcceptedRuns, InvokedRuns
<1>3. UNCHANGED OutcomeOfRuns
  BY DEF Saves, StatusSame, OutcomeOfRuns
<1>4. UNCHANGED DeliveredRuns
  BY DEF Saves, DeliverySame, DeliveredRuns
<1>5. QED
  BY <1>1, <1>2, <1>3, <1>4

\* finish_run concludes the run, as succeeded only over a stored answer and as
\* failed only while nothing was delivered.
LEMMA ConcludeMaps ==
  ASSUME NEW r \in Run, NEW o \in Terminal, Concludes(r, o)
  PROVE  /\ r \in AcceptedRuns
         /\ o = "succeeded" => r \in SavedRuns
         /\ o = "failed" => r \notin DeliveredRuns
         /\ OutcomeOfRuns' = [OutcomeOfRuns EXCEPT ![r] = o]
         /\ UNCHANGED <<AcceptedRuns, InvokedRuns, SavedRuns, DeliveredRuns>>
<1>1. r \in AcceptedRuns /\ (o = "succeeded" => r \in SavedRuns)
  BY DEF Concludes, AcceptedRuns, SavedRuns
<1>2. o = "failed" => r \notin DeliveredRuns
  BY DEF Concludes, DeliveredRuns
<1>3. OutcomeOfRuns' = [OutcomeOfRuns EXCEPT ![r] = o]
  BY DEF Concludes, OthersSame, OutcomeOfRuns
<1>4. UNCHANGED <<InvokedRuns, SavedRuns>>
  BY DEF Concludes, InvokedRuns, SavedRuns
<1>5. UNCHANGED AcceptedRuns
  BY DEF Concludes, OthersSame, AcceptedRuns, Terminal
<1>6. UNCHANGED DeliveredRuns
  BY DEF Concludes, DeliverySame, DeliveredRuns
<1>7. QED
  BY <1>1, <1>2, <1>3, <1>4, <1>5, <1>6

\* Returning the answer delivers a run that is saved and succeeded.
LEMMA DeliverMaps ==
  ASSUME TypeOK, NEW c \in Chat, Delivers(c)
  PROVE  /\ RunOf[c] \in SavedRuns /\ OutcomeOfRuns[RunOf[c]] = "succeeded"
         /\ DeliveredRuns' = DeliveredRuns \cup {RunOf[c]}
         /\ UNCHANGED <<AcceptedRuns, InvokedRuns, SavedRuns, OutcomeOfRuns>>
<1>0. RunOf[c] \in Run /\ reply \in [Chat -> {"none", "ok", "error"}]
  BY RunOfType DEF TypeOK, Handler
<1>1. RunOf[c] \in SavedRuns /\ OutcomeOfRuns[RunOf[c]] = "succeeded"
  BY <1>0 DEF Delivers, SavedRuns, OutcomeOfRuns, Terminal
<1>2. DeliveredRuns' = DeliveredRuns \cup {RunOf[c]}
  <2>1. reply'[c] = "ok" /\ \A d \in Chat \ {c} : reply'[d] = reply[d]
    BY <1>0 DEF Delivers
  <2>2. QED
    BY <1>0, <2>1 DEF DeliveredRuns
<1>3. UNCHANGED <<AcceptedRuns, InvokedRuns, SavedRuns>>
  BY DEF Delivers, StatusSame, AcceptedRuns, InvokedRuns, SavedRuns
<1>4. UNCHANGED OutcomeOfRuns
  BY DEF Delivers, StatusSame, OutcomeOfRuns
<1>5. QED
  BY <1>1, <1>2, <1>3, <1>4

\* Initially nothing is accepted.
LEMMA InitMaps == Init => Contract!Init
<1> SUFFICES ASSUME Init PROVE Contract!Init
  OBVIOUS
<1>1. AcceptedRuns = {} /\ InvokedRuns = {} /\ SavedRuns = {} /\ DeliveredRuns = {}
  BY DEF Init, AcceptedRuns, InvokedRuns, SavedRuns, DeliveredRuns, NoRow
<1>2. OutcomeOfRuns = [r \in Run |-> "none"]
  BY DEF Init, OutcomeOfRuns, NoRow, Terminal
<1>3. QED
  BY <1>1, <1>2
     DEF Contract!Init, AcceptedRuns, InvokedRuns, SavedRuns, OutcomeOfRuns, DeliveredRuns

\* Every kind of step is an action of the contract, or a stutter.
LEMMA KindsMap == TypeOK /\ Kinds => [Contract!Next]_(Contract!vars)
<1> SUFFICES ASSUME TypeOK, Kinds
             PROVE  Contract!Next \/ UNCHANGED Contract!vars
  OBVIOUS
<1>1. CASE Quiet
  BY <1>1, QuietStutters
     DEF Contract!vars, AcceptedRuns, InvokedRuns, SavedRuns, OutcomeOfRuns, DeliveredRuns
<1>2. ASSUME NEW r \in Run, Accepts(r) PROVE Contract!Accept(r)
  BY <1>2, AcceptMaps
     DEF Contract!Accept, AcceptedRuns, InvokedRuns, SavedRuns, OutcomeOfRuns, DeliveredRuns
<1>3. ASSUME NEW r \in Run, Invokes(r) PROVE Contract!Invoke(r)
  BY <1>3, InvokeMaps
     DEF Contract!Invoke, AcceptedRuns, InvokedRuns, SavedRuns, OutcomeOfRuns, DeliveredRuns
<1>4. ASSUME NEW r \in Run, Saves(r) PROVE Contract!Save(r)
  BY <1>4, SaveMaps
     DEF Contract!Save, AcceptedRuns, InvokedRuns, SavedRuns, OutcomeOfRuns, DeliveredRuns
<1>5. ASSUME NEW r \in Run, NEW o \in Terminal, Concludes(r, o)
      PROVE  Contract!Conclude(r, o)
  BY <1>5, ConcludeMaps
     DEF Contract!Conclude, AcceptedRuns, InvokedRuns, SavedRuns, OutcomeOfRuns,
         DeliveredRuns
<1>6. ASSUME NEW c \in Chat, Delivers(c)
      PROVE  RunOf[c] \in Run /\ Contract!Deliver(RunOf[c])
  BY <1>6, DeliverMaps, RunOfType
     DEF Handler, Contract!Deliver, AcceptedRuns, InvokedRuns, SavedRuns, OutcomeOfRuns,
         DeliveredRuns
<1>7. QED
  BY <1>1, <1>2, <1>3, <1>4, <1>5, <1>6 DEF Kinds, Contract!Next, Terminal

\* The lifecycle implements the contract with the owner: one model call, one
\* answer, success only over a stored answer, no failure after delivery.
THEOREM ContractIsImplemented == Spec => ImplementsContract
<1>1. TypeOK /\ Evidence /\ AnsweredIsDone /\ FaultFree /\ [Next]_vars =>
        [Contract!Next]_(Contract!vars)
  BY NextKinds, KindsMap
<1>2. QED
  BY <1>1, InitMaps, TypeCorrect, EvidenceHolds, ConclusionInvariant, PTL
     DEF Spec, ImplementsContract, Contract!Spec

-----------------------------------------------------------------------------
(* Without stalls a beating worker owns its run                            *)

\* Row x is held by worker w
HeldRow(x, w) ==
  /\ x.status = "running" /\ x.recovery = "active" /\ x.worker = w
  /\ x.lease \in LiveLease

\* From the insert to the end of the model call a worker renews the lease or is
\* about to: it holds the row.
Covers(c) == beat[c] \/ pc[c] = "context"
HeldInv == \A c \in Chat :
  /\ beat[c] => pc[c] \in {"starting", "model"}
  /\ Covers(c) => HeldRow(row[RunOf[c]], WorkerOf[c])

\* No statement of another actor takes a held row away: scans skip a live lease,
\* a claim needs an orphan, a release another worker's name.
LEMMA HeldRowKept ==
  ASSUME row \in [Run -> RunRow], NEW r \in Run, NEW w \in Worker, HeldRow(row[r], w),
         NEW q \in Run, NEW v \in Worker, v # w
  PROVE  /\ HeldRow(Orphaned(row)[r], w)
         /\ Claimable(q) => HeldRow(Claimed(row, q, v)[r], w)
         /\ HeldRow(Released(row, q, v)[r], w)
<1>1. HeldRow(Orphaned(row)[r], w)
  BY DEF HeldRow, Orphaned, LiveLease
<1>2. Claimable(q) => HeldRow(Claimed(row, q, v)[r], w)
  BY DEF HeldRow, Claimable, Claimed
<1>3. HeldRow(Released(row, q, v)[r], w)
  BY DEF HeldRow, Released
<1>4. QED
  BY <1>1, <1>2, <1>3

\* Inserts and conclusions of other runs, and checkpoints of any, keep it held.
LEMMA HeldRowElsewhere ==
  ASSUME row \in [Run -> RunRow], NEW r \in Run, NEW w \in Worker, HeldRow(row[r], w),
         NEW q \in Run, NEW v \in Worker
  PROVE  /\ q # r => HeldRow(Inserted(row, q, v)[r], w)
         /\ q # r => \A s \in Terminal : HeldRow(Finished(row, q, s)[r], w)
         /\ \A s \in RunStage : HeldRow(Staged(row, q, s)[r], w)
<1>1. q # r => HeldRow(Inserted(row, q, v)[r], w)
  BY DEF HeldRow, Inserted
<1>2. q # r => \A s \in Terminal : HeldRow(Finished(row, q, s)[r], w)
  BY DEF HeldRow, Finished
<1>3. \A s \in RunStage : HeldRow(Staged(row, q, s)[r], w)
  BY DEF HeldRow, Staged, RunRow
<1>4. QED
  BY <1>1, <1>2, <1>3

\* Renewing or ageing a lease short of its end keeps the row held.
LEMMA HeldRowRenewed ==
  ASSUME row \in [Run -> RunRow], NEW r \in Run, NEW w \in Worker, HeldRow(row[r], w),
         NEW q \in Run
  PROVE  /\ \A l \in LiveLease : HeldRow([row EXCEPT ![q] = [@ EXCEPT !.lease = l]][r], w)
         /\ q # r => \A l \in Lease :
              HeldRow([row EXCEPT ![q] = [@ EXCEPT !.lease = l]][r], w)
<1>1. \A l \in LiveLease : HeldRow([row EXCEPT ![q] = [@ EXCEPT !.lease = l]][r], w)
  BY DEF HeldRow, RunRow
<1>2. q # r => \A l \in Lease : HeldRow([row EXCEPT ![q] = [@ EXCEPT !.lease = l]][r], w)
  BY DEF HeldRow
<1>3. QED
  BY <1>1, <1>2

\* Chat c moved and every covering chat but c still holds its row.
LEMMA HeldLocality ==
  ASSUME HeldInv, NEW c \in Chat,
         \A d \in Chat \ {c} : pc'[d] = pc[d] /\ beat'[d] = beat[d],
         \A d \in Chat \ {c} : Covers(d) => HeldRow(row'[RunOf[d]], WorkerOf[d]),
         beat'[c] => pc'[c] \in {"starting", "model"},
         beat'[c] \/ pc'[c] = "context" => HeldRow(row'[RunOf[c]], WorkerOf[c])
  PROVE  HeldInv'
BY DEF HeldInv, Covers

\* A chat step keeps every worker's hold, its own included.
LEMMA ChatHeld ==
  ASSUME TypeOK, Evidence, HeldInv, NEW c \in Chat, ChatStep(c)
  PROVE  HeldInv'
<1>0. /\ row \in [Run -> RunRow] /\ RunOf[c] \in Run /\ WorkerOf[c] \in Worker
      /\ RunOf \in [Handler -> Run] /\ WorkerOf \in [Handler -> Worker]
      /\ pc \in [Chat -> ChatPC] /\ beat \in [Chat -> BOOLEAN]
      /\ \A d \in Chat : RunOf[d] \in Run /\ WorkerOf[d] \in Worker
  BY RunOfType, WorkerOfType DEF Handler, TypeOK
<1>1. /\ beat[c] => pc[c] \in {"starting", "model"}
      /\ Covers(c) => HeldRow(row[RunOf[c]], WorkerOf[c])
      /\ \A d \in Chat \ {c} : Covers(d) => HeldRow(row[RunOf[d]], WorkerOf[d])
      /\ \A d \in Chat : Covers(d) => Active(d)
  BY DEF HeldInv, Covers, Active
<1>2. ASSUME Active(c), NEW d \in Chat \ {c}, Covers(d) PROVE RunOf[d] # RunOf[c]
  BY <1>0, <1>1, <1>2, EvidenceParts DEF Apart
<1>3. ASSUME NEW s \in RunStage, NEW n \in ChatPC, SaveCheckpoint(c, s, n)
      PROVE  /\ pc' = [pc EXCEPT ![c] = n]
             /\ \A d \in Chat : Covers(d) => HeldRow(row'[RunOf[d]], WorkerOf[d])
  BY <1>0, <1>1, <1>3, CheckpointEffect, HeldRowElsewhere
<1>4. CASE CreateRun(c)
  <2>1. UNCHANGED beat /\ pc[c] = "new" /\ ~beat[c]
    BY <1>1, <1>4 DEF CreateRun
  <2>2. CASE row' = row /\ pc' = [pc EXCEPT ![c] = "done"]
    BY <1>0, <1>1, <2>1, <2>2, HeldLocality
  <2>3. CASE /\ row' = Inserted(row, RunOf[c], WorkerOf[c])
             /\ row[RunOf[c]].status = "absent"
             /\ pc' \in {[pc EXCEPT ![c] = "context"], [pc EXCEPT ![c] = "done"]}
    <3>1. \A d \in Chat \ {c} : Covers(d) => RunOf[d] # RunOf[c]
      BY <1>1, <2>3 DEF HeldRow
    <3>2. \A d \in Chat \ {c} : Covers(d) => HeldRow(row'[RunOf[d]], WorkerOf[d])
      BY <1>0, <1>1, <2>3, <3>1, HeldRowElsewhere
    <3>3. HeldRow(row'[RunOf[c]], WorkerOf[c])
      BY <1>0, <2>3 DEF Inserted, HeldRow, LiveLease
    <3>4. QED
      BY <1>0, <2>1, <2>3, <3>2, <3>3, HeldLocality
  <2>4. QED
    BY <1>4, <2>2, <2>3 DEF CreateRun
<1>5. CASE SaveContext(c)
  <2>1. SaveCheckpoint(c, "context_loaded", "starting")
    BY <1>5 DEF SaveContext
  <2>2. /\ pc' = [pc EXCEPT ![c] = "starting"]
        /\ \A d \in Chat : Covers(d) => HeldRow(row'[RunOf[d]], WorkerOf[d])
    BY <1>3, <2>1 DEF RunStage, ChatPC
  <2>3. Covers(c) /\ beat' = [beat EXCEPT ![c] = TRUE]
    BY <1>5 DEF SaveContext, Covers
  <2>4. QED
    BY <1>0, <2>2, <2>3, HeldLocality
<1>6. CASE StartModel(c)
  <2>1. SaveCheckpoint(c, "model_running", "model")
    BY <1>6 DEF StartModel
  <2>2. /\ pc' = [pc EXCEPT ![c] = "model"]
        /\ \A d \in Chat : Covers(d) => HeldRow(row'[RunOf[d]], WorkerOf[d])
    BY <1>3, <2>1 DEF RunStage, ChatPC
  <2>3. UNCHANGED beat
    BY <1>6 DEF StartModel
  <2>4. beat[c] => Covers(c)
    BY DEF Covers
  <2>5. QED
    BY <1>0, <2>2, <2>3, <2>4, HeldLocality
<1>7. CASE ModelReturns(c)
  <2>1. /\ UNCHANGED row /\ beat' = [beat EXCEPT ![c] = FALSE]
        /\ pc' \in {[pc EXCEPT ![c] = "answered"], [pc EXCEPT ![c] = "failing"]}
    BY <1>7 DEF ModelReturns
  <2>2. QED
    BY <1>0, <1>1, <2>1, HeldLocality
<1>8. CASE SaveReady(c) \/ SavePersisted(c) \/ Complete(c) \/ NoteFailed(c)
  <2>1. /\ pc' \in {[pc EXCEPT ![c] = n] : n \in {"append", "finish", "done"}}
        /\ \A d \in Chat : Covers(d) => HeldRow(row'[RunOf[d]], WorkerOf[d])
    BY <1>3, <1>8 DEF SaveReady, SavePersisted, Complete, NoteFailed, RunStage, ChatPC
  <2>2. UNCHANGED beat /\ ~beat[c]
    BY <1>1, <1>8 DEF SaveReady, SavePersisted, Complete, NoteFailed
  <2>3. QED
    BY <1>0, <2>1, <2>2, HeldLocality
<1>9. CASE AppendMessages(c)
  <2>1. /\ UNCHANGED <<row, beat>> /\ ~beat[c]
        /\ pc' \in {[pc EXCEPT ![c] = "appended"], [pc EXCEPT ![c] = "failing"]}
    BY <1>1, <1>9 DEF AppendMessages
  <2>2. QED
    BY <1>0, <1>1, <2>1, HeldLocality
<1>10. CASE Finish(c) \/ FinishFailed(c)
  <2>1. /\ UNCHANGED beat /\ ~beat[c] /\ Active(c)
        /\ pc' \in {[pc EXCEPT ![c] = n] : n \in {"completing", "failing", "noting"}}
        /\ row' = row \/ \E s \in Terminal : row' = Finished(row, RunOf[c], s)
    BY <1>1, <1>10 DEF Finish, FinishFailed, Active, Terminal
  <2>2. \A d \in Chat \ {c} : Covers(d) => HeldRow(row'[RunOf[d]], WorkerOf[d])
    BY <1>0, <1>1, <1>2, <2>1, HeldRowElsewhere
  <2>3. QED
    BY <1>0, <2>1, <2>2, HeldLocality
<1>11. QED
  BY <1>4, <1>5, <1>6, <1>7, <1>8, <1>9, <1>10 DEF ChatStep

\* A resume handler takes no row from a worker that covers it.
LEMMA ResumeHeld ==
  ASSUME TypeOK, Evidence, HeldInv, NEW k \in Resume, ResumeStep(k) \/ ResumeCrash(k)
  PROVE  HeldInv'
<1>0. /\ row \in [Run -> RunRow] /\ RunOf[k] \in Run /\ WorkerOf[k] \in Worker
      /\ RunOf \in [Handler -> Run]
      /\ \A c \in Chat : /\ RunOf[c] \in Run /\ WorkerOf[c] \in Worker
                         /\ WorkerOf[k] # WorkerOf[c]
  BY RunOfType, WorkerOfType, RecoveryWorkerIdsDiffer DEF Handler, TypeOK
<1>1. UNCHANGED <<pc, beat>>
  BY DEF ResumeStep, ResumeScan, ResumeLoad, ResumeClaim, ResumeCount, ResumeRelease,
         ResumePersist, ResumeFinish, ResumeComplete, ResumeCleanup, ResumeAgain,
         ResumeCrash, chatVars
<1>2. \A c \in Chat : Covers(c) => HeldRow(row[RunOf[c]], WorkerOf[c])
  BY DEF HeldInv
<1>3. SUFFICES ASSUME NEW c \in Chat, Covers(c)
               PROVE  HeldRow(row'[RunOf[c]], WorkerOf[c])
  BY <1>1 DEF HeldInv, Covers
<1>4. /\ HeldRow(row[RunOf[c]], WorkerOf[c])
      /\ RunOf[c] \in Run /\ WorkerOf[c] \in Worker /\ WorkerOf[k] # WorkerOf[c]
  BY <1>0, <1>2, <1>3
<1>5. CASE row' = row
  BY <1>4, <1>5
<1>6. CASE \/ row' = Orphaned(row)
           \/ Claimable(RunOf[k]) /\ row' = Claimed(row, RunOf[k], WorkerOf[k])
           \/ row' = Released(row, RunOf[k], WorkerOf[k])
  BY <1>0, <1>4, <1>6, HeldRowKept
<1>7. CASE \E s \in RunStage : row' = Staged(row, RunOf[k], s)
  BY <1>0, <1>4, <1>7, HeldRowElsewhere
<1>8. CASE rpc[k] = "finish" /\ row' = Finished(row, RunOf[k], "succeeded")
  <2>1. batches[RunOf[k]] = 1
    BY <1>0, <1>8, EvidenceParts DEF ResumeFacts
  <2>2. batches[RunOf[c]] # 1
    <3>1. ChatFacts(c) /\ RunFacts(RunOf[c]) /\ batches[RunOf[c]] \in Nat
      BY <1>0, <1>4, EvidenceParts DEF TypeOK
    <3>2. pc[c] \in {"context", "starting", "model"}
      BY <1>3 DEF HeldInv, Covers
    <3>3. QED
      BY <3>1, <3>2 DEF ChatFacts, RunFacts
  <2>3. RunOf[k] # RunOf[c]
    BY <2>1, <2>2
  <2>4. QED
    BY <1>0, <1>4, <1>8, <2>3, HeldRowElsewhere DEF Terminal
<1>9. QED
  <2>1. CASE ResumeScan(k)
    BY <1>5, <1>6, <2>1 DEF ResumeScan
  <2>2. CASE ResumeClaim(k)
    BY <1>5, <1>6, <2>2 DEF ResumeClaim
  <2>3. CASE ResumeRelease(k) \/ ResumeCleanup(k)
    BY <1>5, <1>6, <2>3 DEF ResumeRelease, ResumeCleanup
  <2>4. CASE ResumePersist(k) \/ ResumeComplete(k)
    BY <1>5, <1>7, <2>4 DEF ResumePersist, ResumeComplete, RunStage
  <2>5. CASE ResumeFinish(k)
    BY <1>5, <1>8, <2>5 DEF ResumeFinish
  <2>6. CASE ResumeLoad(k) \/ ResumeCount(k) \/ ResumeAgain(k) \/ ResumeCrash(k)
    BY <1>5, <2>6 DEF ResumeLoad, ResumeCount, ResumeAgain, ResumeCrash
  <2>7. QED
    BY <1>3, <2>1, <2>2, <2>3, <2>4, <2>5, <2>6 DEF ResumeStep

\* Without stalls every step keeps every covering worker's hold.
LEMMA NextHeld ==
  ASSUME ~Stalls
  PROVE  TypeOK /\ Evidence /\ HeldInv /\ [Next]_vars => HeldInv'
<1> SUFFICES ASSUME TypeOK, Evidence, HeldInv, [Next]_vars PROVE HeldInv'
  OBVIOUS
<1>0. /\ row \in [Run -> RunRow] /\ RunOf \in [Handler -> Run]
      /\ pc \in [Chat -> ChatPC] /\ beat \in [Chat -> BOOLEAN]
      /\ \A d \in Chat : RunOf[d] \in Run /\ WorkerOf[d] \in Worker
  BY RunOfType, WorkerOfType DEF Handler, TypeOK
<1>1. /\ \A d \in Chat : beat[d] => pc[d] \in {"starting", "model"}
      /\ \A d \in Chat : Covers(d) => HeldRow(row[RunOf[d]], WorkerOf[d])
  BY DEF HeldInv
<1>2. ASSUME UNCHANGED <<pc, beat>>,
             \A d \in Chat : Covers(d) => HeldRow(row'[RunOf[d]], WorkerOf[d])
      PROVE  HeldInv'
  BY <1>1, <1>2 DEF HeldInv, Covers
<1>3. ASSUME NEW c \in Chat, Crash(c) \/ HeartbeatStops(c) PROVE HeldInv'
  <2>1. /\ UNCHANGED row /\ beat' = [beat EXCEPT ![c] = FALSE]
        /\ pc' \in {pc, [pc EXCEPT ![c] = "done"]}
    BY <1>1, <1>3 DEF Crash, HeartbeatStops
  <2>2. ~beat'[c] /\ \A d \in Chat \ {c} : pc'[d] = pc[d] /\ beat'[d] = beat[d]
    BY <1>0, <2>1
  <2>3. pc'[c] = "context" => Covers(c)
    BY <1>0, <2>1 DEF Covers
  <2>4. QED
    BY <1>1, <2>1, <2>2, <2>3, HeldLocality
<1>4. ASSUME NEW c \in Chat, HeartbeatRenews(c) PROVE HeldInv'
  BY <1>0, <1>1, <1>2, <1>4, HeldRowRenewed DEF HeartbeatRenews, chatVars, LiveLease
<1>5. ASSUME NEW q \in Run, LeaseAges(q) PROVE HeldInv'
  BY <1>0, <1>1, <1>2, <1>5, HeldRowRenewed DEF LeaseAges, chatVars, LiveLease
<1>6. ASSUME NEW q \in Run, LeaseLapses(q) PROVE HeldInv'
  <2>1. \A d \in Chat : Covers(d) => RunOf[d] # q
    BY <1>6 DEF LeaseLapses, Covered, Covers
  <2>2. QED
    BY <1>0, <1>1, <1>2, <1>6, <2>1, HeldRowRenewed DEF LeaseLapses, chatVars, Lease
<1>7. CASE ScanOrphans
  <2>1. \A d \in Chat : Covers(d) => HeldRow(Orphaned(row)[RunOf[d]], WorkerOf[d])
    BY <1>0, <1>1 DEF HeldRow, Orphaned, LiveLease
  <2>2. QED
    BY <1>2, <1>7, <2>1 DEF ScanOrphans, chatVars
<1>8. CASE UNCHANGED vars
  BY <1>1, <1>2, <1>8 DEF vars
<1>9. QED
  BY <1>3, <1>4, <1>5, <1>6, <1>7, <1>8, ChatHeld, ResumeHeld DEF Next

\* If no process stalls for longer than a lease, a worker whose heartbeat is
\* alive owns its run.
THEOREM HeldWhileBeatingAlways ==
  ASSUME ~Stalls
  PROVE  Spec => []HeldWhileBeating
<1>1. Init => HeldInv
  BY DEF Init, HeldInv, Covers
<1>2. TypeOK /\ Evidence /\ HeldInv /\ [Next]_vars => HeldInv'
  BY NextHeld
<1>3. HeldInv => HeldWhileBeating
  BY DEF HeldInv, HeldWhileBeating, Covers, HeldRow
<1>4. QED
  BY <1>1, <1>2, <1>3, TypeCorrect, EvidenceHolds, PTL DEF Spec
=============================================================================
