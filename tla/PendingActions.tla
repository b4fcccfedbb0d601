--------------------------- MODULE PendingActions ---------------------------
(***************************************************************************)
(* Sensitive actions held for the owner's approval (pending_actions), from *)
(* the agent's tool call that records one to its execution.                *)
(*                                                                         *)
(* Tool calls and the owner's approve and reject requests run              *)
(* concurrently.  Each function of persistence_audit.py is one transaction *)
(* that locks the action's row, so it is one action here, and the audit    *)
(* event it appends commits with it (module AuditChain).  An approval is   *)
(* three transactions: approve, claim, complete; requests may be repeated  *)
(* and their processes may die in between.                                 *)
(*                                                                         *)
(* One run is modelled, so the unique index on (run_id, idempotency_key)   *)
(* is the identity of a row.  Every action belongs to the owner and names  *)
(* the only supported tool, test_sensitive_action, as its one caller does. *)
(*                                                                         *)
(* Bounds: MaxFaults caps statement errors plus crashes of request         *)
(* handlers.                                                               *)
(***************************************************************************)
EXTENDS Naturals, Sequences, FiniteSets

CONSTANTS
  Key,        \* idempotency keys: sha256 of run, tool and reason
  Call,       \* test_sensitive_action tool calls; each draws a fresh action_id
  KeyOf,      \* the key of each call
  Approver,   \* POST /actions/{id}/approve clients, who may ask again
  Rejecter,   \* POST /actions/{id}/reject clients, who may ask again
  About,      \* the key of the action each client decides on
  NoCall,     \* no row
  MaxFaults

Client == Approver \cup Rejecter

ASSUME ClientsDisjoint == Approver \cap Rejecter = {}
ASSUME KeyOfType == KeyOf \in [Call -> Key]
ASSUME AboutType == About \in [Client -> Key]
ASSUME CallType == Call \cap {NoCall, "none", "error"} = {}
ASSUME BoundsType == MaxFaults \in Nat

VARIABLES
  status,    \* key -> pending_actions.status ("absent" without a row)
  actionId,  \* key -> the call whose action_id the row carries
  overdue,   \* key -> has expires_at passed?
  trail,     \* key -> audit events of its decisions in order
  hits,      \* key -> pending_action.idempotency_hit events of its creation
  told,      \* call -> the action_id the tool call was given
  rpc,       \* client -> where its request is
  dated,     \* approver -> had the action expired when its transaction began?
  answer,    \* client -> the status it was answered
  faults

vars == <<status, actionId, overdue, trail, hits, told, rpc, dated, answer, faults>>

Status == {"absent", "pending", "approved", "executing", "executed", "rejected", "expired"}

Event == {"approved", "expired", "execution_started", "executed", "rejected"}

\* How a transaction ends for its caller; "lost" commits and reports an error
Outcome == {"ok", "lost", "err"}
Counted(o) ==
  /\ o # "ok" => faults < MaxFaults
  /\ faults' = IF o = "ok" THEN faults ELSE faults + 1

-----------------------------------------------------------------------------
(* create_pending_action                                                   *)

\* What the tool call returns: the action to approve, or an error
Told(c, result) == told' = [told EXCEPT ![c] = result]

\* INSERT ... ON CONFLICT DO NOTHING, then SELECT by the key: the row it finds
\* may be the one just inserted, and the event logged is the hit either way
Create(c) ==
  /\ told[c] = "none"
  /\ \E o \in Outcome :
       /\ Counted(o)
       /\ IF o = "err"
            THEN /\ Told(c, "error")
                 /\ UNCHANGED <<status, actionId, hits>>
            ELSE LET k == KeyOf[c]
                     id == IF status[k] = "absent" THEN c ELSE actionId[k]
                 IN /\ status' = [status EXCEPT ![k] = IF @ = "absent" THEN "pending" ELSE @]
                    /\ actionId' = [actionId EXCEPT ![k] = id]
                    /\ hits' = [hits EXCEPT ![k] = @ + 1]
                    /\ Told(c, IF o = "ok" THEN id ELSE "error")
  /\ UNCHANGED <<overdue, trail, rpc, dated, answer>>

\* Fifteen minutes pass
Expire(k) ==
  /\ status[k] # "absent"
  /\ ~overdue[k]
  /\ overdue' = [overdue EXCEPT ![k] = TRUE]
  /\ UNCHANGED <<status, actionId, trail, hits, told, rpc, dated, answer, faults>>

-----------------------------------------------------------------------------
(* The transactions of a request                                           *)

\* Row k goes to the new status and its event is appended, in one transaction
Moved(k, new, event) ==
  /\ status' = [status EXCEPT ![k] = new]
  /\ trail' = [trail EXCEPT ![k] = Append(@, event)]

Kept == UNCHANGED <<status, trail>>

Replied(c, s) ==
  /\ rpc' = [rpc EXCEPT ![c] = "done"]
  /\ answer' = [answer EXCEPT ![c] = s]

Continues(c, next) ==
  /\ rpc' = [rpc EXCEPT ![c] = next]
  /\ UNCHANGED answer

\* Mutant: expires_at is not compared
UndatedApproved(c, k) ==
  IF status[k] = "pending" THEN Moved(k, "approved", "approved") ELSE Kept

\* What approve_pending_action writes
Approved(c, k) ==
  IF status[k] = "pending"
    THEN IF dated[c] THEN Moved(k, "expired", "expired")
                       ELSE Moved(k, "approved", "approved")
    ELSE Kept

\* The transaction of approve_pending_action begins.  NOW(), which it will
\* compare with expires_at, is this instant, however long it waits for the row.
BeginApproval(c) ==
  /\ rpc[c] = "idle"
  /\ c \in Approver
  /\ rpc' = [rpc EXCEPT ![c] = "approve"]
  /\ dated' = [dated EXCEPT ![c] = overdue[About[c]]]
  /\ UNCHANGED <<status, actionId, overdue, trail, hits, told, answer, faults>>

\* Mutant: only the request that found the action pending executes it
OneShotApprove(c) ==
  /\ rpc[c] = "approve"
  /\ c \in Approver
  /\ LET k == About[c]
     IN \E o \in Outcome :
          /\ Counted(o)
          /\ IF o = "err" THEN Kept ELSE Approved(c, k)
          /\ IF o # "ok" THEN Replied(c, "error")
             ELSE IF status[k] = "absent" THEN Replied(c, "not_found")
             ELSE IF status[k] # "pending" \/ dated[c] THEN Replied(c, status'[k])
             ELSE Continues(c, "claim")
  /\ dated' = [dated EXCEPT ![c] = FALSE]
  /\ UNCHANGED <<actionId, overdue, hits, told>>

\* approve_pending_action; a status that is neither absent nor refused goes on
\* to the claim, even when it is not "approved"
Approve(c) ==
  /\ rpc[c] = "approve"
  /\ c \in Approver
  /\ LET k == About[c]
     IN \E o \in Outcome :
          /\ Counted(o)
          /\ IF o = "err" THEN Kept ELSE Approved(c, k)
          /\ IF o # "ok" THEN Replied(c, "error")
             ELSE IF status'[k] = "absent" THEN Replied(c, "not_found")
             ELSE IF status'[k] \in {"expired", "rejected"} THEN Replied(c, status'[k])
             ELSE Continues(c, "claim")
  /\ dated' = [dated EXCEPT ![c] = FALSE]
  /\ UNCHANGED <<actionId, overdue, hits, told>>

\* Mutant: an action left "executing" may be claimed again
ReclaimingClaim(c) ==
  /\ rpc[c] = "claim"
  /\ LET k == About[c]
     IN \E o \in Outcome :
          /\ Counted(o)
          /\ IF o = "err" \/ status[k] \notin {"approved", "executing"} THEN Kept
             ELSE Moved(k, "executing", "execution_started")
          /\ IF o # "ok" THEN Replied(c, "error")
             ELSE IF status[k] \in {"approved", "executing"} THEN Continues(c, "complete")
             ELSE Replied(c, status[k])
  /\ UNCHANGED <<actionId, overdue, hits, told, dated>>

\* claim_pending_action_execution: only an approved action is claimed
Claim(c) ==
  /\ rpc[c] = "claim"
  /\ LET k == About[c]
     IN \E o \in Outcome :
          /\ Counted(o)
          /\ IF o = "err" \/ status[k] # "approved" THEN Kept
             ELSE Moved(k, "executing", "execution_started")
          /\ IF o # "ok" THEN Replied(c, "error")
             ELSE IF status[k] = "approved" THEN Continues(c, "complete")
             ELSE Replied(c, status[k])
  /\ UNCHANGED <<actionId, overdue, hits, told, dated>>

\* complete_pending_action, after the action ran (it has no side effect)
Complete(c) ==
  /\ rpc[c] = "complete"
  /\ LET k == About[c]
     IN \E o \in Outcome :
          /\ Counted(o)
          /\ IF o = "err" \/ status[k] # "executing" THEN Kept
             ELSE Moved(k, "executed", "executed")
          /\ Replied(c, IF o = "ok" THEN status'[k] ELSE "error")
  /\ UNCHANGED <<actionId, overdue, hits, told, dated>>

\* reject_pending_action: only a pending action, overdue or not
Reject(c) ==
  /\ rpc[c] = "idle"
  /\ c \in Rejecter
  /\ LET k == About[c]
     IN \E o \in Outcome :
          /\ Counted(o)
          /\ IF o = "err" \/ status[k] # "pending" THEN Kept
             ELSE Moved(k, "rejected", "rejected")
          /\ Replied(c, IF o # "ok" THEN "error"
                        ELSE IF status'[k] = "absent" THEN "not_found" ELSE status'[k])
  /\ UNCHANGED <<actionId, overdue, hits, told, dated>>

\* The process dies, or the request is cancelled, before or between its
\* transactions
Crash(c) ==
  /\ rpc[c] \in {"approve", "claim", "complete"}
  /\ Counted("err")
  /\ Continues(c, "done")
  /\ dated' = [dated EXCEPT ![c] = FALSE]
  /\ UNCHANGED <<status, actionId, overdue, trail, hits, told>>

\* The owner asks again
Again(c) ==
  /\ rpc[c] = "done"
  /\ rpc' = [rpc EXCEPT ![c] = "idle"]
  /\ answer' = [answer EXCEPT ![c] = "none"]
  /\ UNCHANGED <<status, actionId, overdue, trail, hits, told, dated, faults>>

ClientStep(c) ==
  \/ BeginApproval(c) \/ Approve(c) \/ Claim(c) \/ Complete(c) \/ Reject(c) \/ Again(c)

Init ==
  /\ status = [k \in Key |-> "absent"]
  /\ actionId = [k \in Key |-> NoCall]
  /\ overdue = [k \in Key |-> FALSE]
  /\ trail = [k \in Key |-> <<>>]
  /\ hits = [k \in Key |-> 0]
  /\ told = [c \in Call |-> "none"]
  /\ rpc = [c \in Client |-> "idle"]
  /\ dated = [c \in Client |-> FALSE]
  /\ answer = [c \in Client |-> "none"]
  /\ faults = 0

Next ==
  \/ \E c \in Call : Create(c)
  \/ \E k \in Key : Expire(k)
  \/ \E c \in Client : ClientStep(c) \/ Crash(c)

Spec == Init /\ [][Next]_vars

\* A request that is being served goes on unless its process dies, and the
\* owner keeps asking about an action that is not settled.
FairSpec == Spec /\ \A c \in Client : WF_vars(ClientStep(c))

-----------------------------------------------------------------------------
(* Properties                                                              *)

(***************************************************************************)
(* Types of the variables.                                                 *)
(***************************************************************************)
TypeOK ==
  /\ status \in [Key -> Status]
  /\ actionId \in [Key -> Call \cup {NoCall}]
  /\ overdue \in [Key -> BOOLEAN]
  /\ trail \in [Key -> Seq(Event)]
  /\ hits \in [Key -> Nat]
  /\ told \in [Call -> Call \cup {"none", "error"}]
  /\ rpc \in [Client -> {"idle", "approve", "claim", "complete", "done"}]
  /\ dated \in [Client -> BOOLEAN]
  /\ answer \in [Client -> Status \cup {"none", "error", "not_found"}]
  /\ faults \in 0..MaxFaults

\* A row on record carries the action_id of one of the calls
Named == \A k \in Key : status[k] # "absent" => actionId[k] \in Call

\* The decisions that lead to each status
Story == [absent    |-> <<>>,
          pending   |-> <<>>,
          approved  |-> <<"approved">>,
          executing |-> <<"approved", "execution_started">>,
          executed  |-> <<"approved", "execution_started", "executed">>,
          rejected  |-> <<"rejected">>,
          expired   |-> <<"expired">>]

(***************************************************************************)
(* "prevents execution before approval" (docs/BLUEPRINT.md), and more: the *)
(* audit trail of an action tells exactly how it reached its status.  It   *)
(* is approved, started and executed once each and in that order, or it is *)
(* refused once and nothing else ever happens to it, whatever requests are *)
(* repeated, interleaved, lost or cut short.                               *)
(***************************************************************************)
TrailTellsTheStory == \A k \in Key : trail[k] = Story[status[k]]

(***************************************************************************)
(* "a retry cannot create the same pending action twice"                   *)
(* (docs/ARCHITECTURE.md): all the tool calls with one key that were given *)
(* an action were given the same one, it is the one on record, and it was  *)
(* not reset by the repetition.                                            *)
(***************************************************************************)
OneActionPerKey == \A c \in Call :
  told[c] \in Call => actionId[KeyOf[c]] = told[c] /\ status[KeyOf[c]] # "absent"

(***************************************************************************)
(* What a client was told of a settled action remains so: an approver told *)
(* "executed" and a rejecter told "rejected" can rely on it.               *)
(***************************************************************************)
SettledAnswersHold == \A c \in Client :
  answer[c] \in {"executed", "rejected", "expired"} => status[About[c]] = answer[c]

\* An approval of k whose transaction began in time and has not ended
InTime(k) == \E c \in Approver : About[c] = k /\ rpc[c] = "approve" /\ ~dated[c]

(***************************************************************************)
(* An approval is honoured only in time.  Once the fifteen minutes are     *)
(* over, an action still pending can be approved by a request that had     *)
(* already begun, and by no other: when the last of those has ended it     *)
(* never runs.                                                             *)
(***************************************************************************)
NothingStartsLate ==
  [][\A k \in Key : overdue[k] /\ status[k] = "pending" /\ ~InTime(k) =>
       /\ status'[k] \in {"pending", "expired", "rejected"}
       /\ status'[k] = "pending" => ~InTime(k)']_vars

(***************************************************************************)
(* An approval is never lost: as long as somebody asks, an approved action *)
(* is started, whatever failed between the approval and the claim, and a   *)
(* started one is executed; only a failure between the claim and the       *)
(* completion can leave it "executing".                                    *)
(***************************************************************************)
ApprovedIsExecuted == \A k \in Key :
  status[k] \in {"approved", "executing"}
    ~> status[k] = "executed" \/ (status[k] = "executing" /\ faults > 0)

(***************************************************************************)
(* The event name and its status "deduplicated" (persistence_audit.py) and *)
(* the metric idempotency_hits: a hit is a call that found an action made  *)
(* by another.  The code logs one for the call that made it.               *)
(***************************************************************************)
HitsAreDuplicates == \A k \in Key :
  hits[k] > 0 => hits[k] < Cardinality({c \in Call : KeyOf[c] = k /\ told[c] # "none"})

=============================================================================
