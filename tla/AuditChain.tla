----------------------------- MODULE AuditChain -----------------------------
(***************************************************************************)
(* The tamper-evident audit_events table of persistence_audit.py, written  *)
(* by concurrent PostgreSQL transactions.                                  *)
(*                                                                         *)
(* Every writer is a business transaction: for each piece of its work it   *)
(* locks a business row, then calls _append_audit_event, which takes the   *)
(* transaction-scoped advisory lock, reads the newest hash and inserts the *)
(* next event.  A transaction may append several events (one per alert     *)
(* rule in persist_runtime_alert_evaluations).  Locks and the connection   *)
(* are held until it ends; an aborted transaction leaves no event but has  *)
(* consumed its event ids (BIGSERIAL).                                     *)
(*                                                                         *)
(* A hash is modelled by what it is computed from, so equal hashes mean    *)
(* equal histories: collisions of SHA-256 are out of scope.                *)
(*                                                                         *)
(* Bound: MaxFaults caps the transactions that abort.                      *)
(***************************************************************************)
EXTENDS Naturals, Sequences, FiniteSets

CONSTANTS
  Txn,        \* the transactions
  Row,        \* business rows: an agent_runs row, a pending action, an alert rule
  NoRow,      \* work that locks no row (record_auth_event)
  Optional,   \* rows whose event is appended only on a transition (alert rules)
  Work,       \* transaction -> the rows it works on, in order
  NoTxn,      \* nobody holds the lock
  NoHash,     \* SQL NULL in previous_hash
  PoolSize,   \* connections of the pool (max_size)
  MaxFaults   \* bound on aborted transactions

ASSUME WorkType == Work \in [Txn -> Seq(Row \cup {NoRow})]
ASSUME OptionalType == Optional \subseteq Row
ASSUME NoTxnType == NoTxn \notin Txn
ASSUME NoRowType == NoRow \notin Row
ASSUME PoolSizeType == PoolSize \in Nat \ {0}
ASSUME MaxFaultsType == MaxFaults \in Nat

VARIABLES
  table,      \* committed audit_events
  buffer,     \* transaction -> events it inserted and has not committed
  nextId,     \* the sequence behind event_id
  chainLock,  \* holder of pg_advisory_xact_lock(AUDIT_CHAIN_LOCK_KEY)
  rowLock,    \* business row -> transaction that locked it
  pc,         \* transaction -> where it is
  piece,      \* transaction -> which piece of its work
  head,       \* transaction -> the hash its SELECT ... LIMIT 1 returned
  faults      \* aborted transactions so far

vars == <<table, buffer, nextId, chainLock, rowLock, pc, piece, head, faults>>

TxnPC == {"idle", "row", "event", "head", "insert", "committed", "aborted"}

Ended(t) == pc[t] \in {"committed", "aborted"}
Open(t) == pc[t] # "idle" /\ ~Ended(t)

-----------------------------------------------------------------------------
(* The events                                                              *)

\* sha256(previous_hash + canonical payload)
Hash(previous, payload) == <<previous, payload>>

\* ORDER BY event_id DESC LIMIT 1
Newest(events) == CHOOSE e \in events : \A f \in events : f.id <= e.id
HeadHash(events) == IF events = {} THEN NoHash ELSE Newest(events).hash

\* What a statement of t sees: committed events and its own
Visible(t) == table \cup buffer[t]

-----------------------------------------------------------------------------
(* A transaction                                                           *)

\* pool.acquire(), then BEGIN
Begin(t) ==
  /\ pc[t] = "idle"
  /\ Cardinality({u \in Txn : Open(u)}) < PoolSize
  /\ pc' = [pc EXCEPT ![t] = "row"]
  /\ UNCHANGED <<table, buffer, nextId, chainLock, rowLock, piece, head, faults>>

\* Mutant: the rules are walked in the order of a set
UnorderedLockRow(t) ==
  /\ pc[t] = "row"
  /\ piece[t] <= Len(Work[t])
  /\ \E i \in 1..Len(Work[t]) :
       LET r == Work[t][i]
       IN /\ r # NoRow => rowLock[r] = NoTxn
          /\ rowLock' = IF r = NoRow THEN rowLock ELSE [rowLock EXCEPT ![r] = t]
  /\ pc' = [pc EXCEPT ![t] = "event"]
  /\ UNCHANGED <<table, buffer, nextId, chainLock, piece, head, faults>>

\* SELECT ... FOR UPDATE, UPDATE or INSERT of the business row
LockRow(t) ==
  /\ pc[t] = "row"
  /\ piece[t] <= Len(Work[t])
  /\ LET r == Work[t][piece[t]]
     IN /\ r # NoRow => rowLock[r] \in {NoTxn, t}
        /\ rowLock' = IF r = NoRow THEN rowLock ELSE [rowLock EXCEPT ![r] = t]
  /\ pc' = [pc EXCEPT ![t] = "event"]
  /\ UNCHANGED <<table, buffer, nextId, chainLock, piece, head, faults>>

\* An alert evaluation without a transition appends nothing
SkipEvent(t) ==
  /\ pc[t] = "event"
  /\ Work[t][piece[t]] \in Optional
  /\ pc' = [pc EXCEPT ![t] = "row"]
  /\ piece' = [piece EXCEPT ![t] = @ + 1]
  /\ UNCHANGED <<table, buffer, nextId, chainLock, rowLock, head, faults>>

\* Mutant: no lock, as before AUDIT_CHAIN_LOCK_KEY was introduced
NoLockChain(t) ==
  /\ pc[t] = "event"
  /\ pc' = [pc EXCEPT ![t] = "head"]
  /\ UNCHANGED <<table, buffer, nextId, chainLock, rowLock, piece, head, faults>>

\* SELECT pg_advisory_xact_lock
LockChain(t) ==
  /\ pc[t] = "event"
  /\ chainLock \in {NoTxn, t}
  /\ chainLock' = t
  /\ pc' = [pc EXCEPT ![t] = "head"]
  /\ UNCHANGED <<table, buffer, nextId, rowLock, piece, head, faults>>

\* SELECT event_hash ... ORDER BY event_id DESC LIMIT 1
ReadHead(t) ==
  /\ pc[t] = "head"
  /\ head' = [head EXCEPT ![t] = HeadHash(Visible(t))]
  /\ pc' = [pc EXCEPT ![t] = "insert"]
  /\ UNCHANGED <<table, buffer, nextId, chainLock, rowLock, piece, faults>>

\* The event t is about to insert
NewEvent(t) ==
  LET payload == <<t, piece[t]>>
  IN [id |-> nextId, payload |-> payload, previous |-> head[t],
      hash |-> Hash(head[t], payload)]

\* INSERT INTO audit_events
Insert(t) ==
  /\ pc[t] = "insert"
  /\ buffer' = [buffer EXCEPT ![t] = @ \cup {NewEvent(t)}]
  /\ nextId' = nextId + 1
  /\ pc' = [pc EXCEPT ![t] = "row"]
  /\ piece' = [piece EXCEPT ![t] = @ + 1]
  /\ UNCHANGED <<table, chainLock, rowLock, head, faults>>

\* Every lock of t is released when t ends, and its connection returns
EndTransaction(t, how) ==
  /\ chainLock' = IF chainLock = t THEN NoTxn ELSE chainLock
  /\ rowLock' = [r \in Row |-> IF rowLock[r] = t THEN NoTxn ELSE rowLock[r]]
  /\ buffer' = [buffer EXCEPT ![t] = {}]
  /\ pc' = [pc EXCEPT ![t] = how]
  /\ UNCHANGED <<nextId, piece, head>>

Commit(t) ==
  /\ pc[t] = "row"
  /\ piece[t] > Len(Work[t])
  /\ table' = table \cup buffer[t]
  /\ EndTransaction(t, "committed")
  /\ UNCHANGED faults

\* Mutant: the event survives the transaction it belongs to
AutocommitAbort(t) ==
  /\ Open(t)
  /\ faults < MaxFaults
  /\ faults' = faults + 1
  /\ table' = table \cup buffer[t]
  /\ EndTransaction(t, "aborted")

\* A statement failed, timed out, or the process died: ROLLBACK
Abort(t) ==
  /\ Open(t)
  /\ faults < MaxFaults
  /\ faults' = faults + 1
  /\ EndTransaction(t, "aborted")
  /\ UNCHANGED table

TxnStep(t) ==
  \/ Begin(t) \/ LockRow(t) \/ SkipEvent(t) \/ LockChain(t) \/ ReadHead(t)
  \/ Insert(t) \/ Commit(t)

Init ==
  /\ table = {}
  /\ buffer = [t \in Txn |-> {}]
  /\ nextId = 1
  /\ chainLock = NoTxn
  /\ rowLock = [r \in Row |-> NoTxn]
  /\ pc = [t \in Txn |-> "idle"]
  /\ piece = [t \in Txn |-> 1]
  /\ head = [t \in Txn |-> NoHash]
  /\ faults = 0

\* All requests served: the model stops here, not the program
Finished == (\A t \in Txn : Ended(t)) /\ UNCHANGED vars

Next == (\E t \in Txn : TxnStep(t) \/ Abort(t)) \/ Finished

Spec == Init /\ [][Next]_vars

\* PostgreSQL runs every statement whose locks are free, and queues for locks
\* and for pool connections are first come first served: a statement that can
\* infinitely often proceed does.
FairSpec == Spec /\ \A t \in Txn : SF_vars(TxnStep(t))

-----------------------------------------------------------------------------
(* verify_audit_chain                                                      *)

\* The newest limit events
Window(events, limit) ==
  {e \in events : Cardinality({f \in events : f.id > e.id}) < limit}

Below(events, e) == {f \in events : f.id < e.id}

\* Mutant: each event is checked against its own previous_hash only
LocalAccepts(window) ==
  \A e \in window : e.hash = Hash(e.previous, e.payload)

\* The loop of verify_audit_chain: the first previous_hash is the anchor, then
\* each event must carry and hash the hash before it
Accepts(window) ==
  \A e \in window :
    LET before == Below(window, e)
        expected == IF before = {} THEN e.previous ELSE Newest(before).hash
    IN e.previous = expected /\ e.hash = Hash(expected, e.payload)

-----------------------------------------------------------------------------
(* Properties                                                              *)

(***************************************************************************)
(* Types of the variables.                                                 *)
(***************************************************************************)
Payload == {<<t, i>> : t \in Txn, i \in Nat}

EventShape(e) ==
  /\ DOMAIN e = {"id", "payload", "previous", "hash"}
  /\ e.id \in Nat
  /\ e.payload[1] \in Txn /\ e.payload[2] \in Nat

TypeOK ==
  /\ \A e \in table : EventShape(e)
  /\ DOMAIN buffer = Txn /\ \A t \in Txn : \A e \in buffer[t] : EventShape(e)
  /\ nextId \in Nat
  /\ chainLock \in Txn \cup {NoTxn}
  /\ rowLock \in [Row -> Txn \cup {NoTxn}]
  /\ pc \in [Txn -> TxnPC]
  /\ piece \in [Txn -> Nat]
  /\ DOMAIN head = Txn
  /\ faults \in 0..MaxFaults

(***************************************************************************)
(* The committed events form one chain: each carries the hash of the event *)
(* just below it and hashes its own payload with it, so no two events have *)
(* the same parent (the fork the comment on AUDIT_CHAIN_LOCK_KEY is about) *)
(* and verify_audit_chain accepts every window of an untouched table.      *)
(***************************************************************************)
Linked(events) == \A e \in events :
  /\ e.previous = HeadHash(Below(events, e))
  /\ e.hash = Hash(e.previous, e.payload)

ChainIsLinear == Linked(table)

(***************************************************************************)
(* History is append-only as a reader sees it: no commit removes an event  *)
(* or slips one in below an event that was already visible, although ids   *)
(* are drawn before the commit.                                            *)
(***************************************************************************)
HistoryGrowsAtTheEnd ==
  [][/\ table \subseteq table'
     /\ \A e \in table, f \in table' \ table : e.id < f.id]_table

(***************************************************************************)
(* An event is on record exactly when its transaction is: all the events   *)
(* of one transaction appear together, next to each other, and an aborted  *)
(* transaction leaves none.                                                *)
(***************************************************************************)
TransactionsAreContiguous ==
  /\ \A e, f, g \in table :
       e.payload[1] = g.payload[1] /\ e.id < f.id /\ f.id < g.id
         => f.payload[1] = e.payload[1]
  /\ \A e \in table : LET t == e.payload[1] IN
       /\ pc[t] = "committed"
       /\ \A i \in 1..Len(Work[t]) :
            Work[t][i] \notin Optional => \E f \in table : f.payload = <<t, i>>

(***************************************************************************)
(* "tampering inside the window is still detected" (verify_audit_chain):   *)
(* whatever the window's size, changing the payload of one of its events,  *)
(* or deleting one that has events on both sides, is reported.             *)
(***************************************************************************)
TamperingIsDetected ==
  \A limit \in 1..Cardinality(table) :
    LET window == Window(table, limit)
    IN /\ Accepts(window)
       /\ \A e \in window :
            /\ \A f \in table : f.payload # e.payload =>
                 ~Accepts((window \ {e}) \cup {[e EXCEPT !.payload = f.payload]})
            /\ (\E f, g \in window : f.id < e.id /\ e.id < g.id)
                 => ~Accepts(window \ {e})

(***************************************************************************)
(* No cycle of waits: when nothing aborts, every transaction ends although *)
(* each holds its row locks while it waits for the audit lock, and the     *)
(* alert transaction takes further rows while holding it.                  *)
(***************************************************************************)
EveryTransactionEnds == \A t \in Txn : <>Ended(t)
=============================================================================
