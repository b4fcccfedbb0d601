------------------------- MODULE AuditChain_proofs -------------------------
(***************************************************************************)
(* Proofs about AuditChain for any set of transactions and any pool: the   *)
(* audit log is one chain, grows at its end only, holds whole transactions *)
(* and shows every change of a row.  The argument is that of the comment   *)
(* on AUDIT_CHAIN_LOCK_KEY: whoever has read the head, or has inserted     *)
(* below it, holds the advisory lock until it ends.                        *)
(***************************************************************************)
EXTENDS AuditChain, FiniteSetTheorems, TLAPS

-----------------------------------------------------------------------------
(* Types                                                                   *)

\* Ending a transaction keeps the types of what it releases.
LEMMA EndTypes ==
  ASSUME TypeOK, NEW t \in Txn, NEW how \in TxnPC, EndTransaction(t, how)
  PROVE  /\ DOMAIN buffer' = Txn
         /\ \A u \in Txn : \A e \in buffer'[u] : EventShape(e)
         /\ nextId' \in Nat
         /\ chainLock' \in Txn \cup {NoTxn}
         /\ rowLock' \in [Row -> Txn \cup {NoTxn}]
         /\ pc' \in [Txn -> TxnPC]
         /\ piece' \in [Txn -> Nat]
         /\ DOMAIN head' = Txn
BY DEF EndTransaction, TypeOK

\* Every step keeps the types.
LEMMA NextTypeOK == TypeOK /\ [Next]_vars => TypeOK'
<1> SUFFICES ASSUME TypeOK, [Next]_vars PROVE TypeOK'
  OBVIOUS
<1>1. ASSUME NEW t \in Txn, TxnStep(t) \/ Abort(t) PROVE TypeOK'
  <2>1. CASE Begin(t)
    BY <2>1 DEF Begin, TypeOK, TxnPC
  <2>2. CASE LockRow(t)
    BY <2>2 DEF LockRow, TypeOK, TxnPC
  <2>3. CASE SkipEvent(t)
    BY <2>3 DEF SkipEvent, TypeOK, TxnPC
  <2>4. CASE LockChain(t)
    BY <2>4 DEF LockChain, TypeOK, TxnPC
  <2>5. CASE ReadHead(t)
    BY <2>5 DEF ReadHead, TypeOK, TxnPC
  <2>6. CASE Insert(t)
    <3>1. EventShape(NewEvent(t))
      BY DEF TypeOK, NewEvent, EventShape
    <3>2. /\ DOMAIN buffer' = Txn
          /\ \A u \in Txn : \A e \in buffer'[u] : EventShape(e)
      BY <2>6, <3>1 DEF Insert, TypeOK
    <3>3. /\ nextId' \in Nat /\ pc' \in [Txn -> TxnPC] /\ piece' \in [Txn -> Nat]
      BY <2>6 DEF Insert, TypeOK, TxnPC
    <3>4. QED
      BY <2>6, <3>2, <3>3 DEF Insert, TypeOK
  <2>7. CASE Commit(t)
    <3>1. \A e \in table' : EventShape(e)
      BY <2>7 DEF Commit, TypeOK
    <3>2. QED
      BY <2>7, <3>1, EndTypes DEF Commit, TypeOK, TxnPC
  <2>8. CASE Abort(t)
    <3>1. faults' \in 0..MaxFaults
      BY <2>8, MaxFaultsType DEF Abort, TypeOK
    <3>2. QED
      BY <2>8, <3>1, EndTypes DEF Abort, TypeOK, TxnPC
  <2>9. QED
    BY <1>1, <2>1, <2>2, <2>3, <2>4, <2>5, <2>6, <2>7, <2>8 DEF TxnStep
<1>2. CASE UNCHANGED vars
  BY <1>2 DEF vars, TypeOK
<1>3. QED
  BY <1>1, <1>2 DEF Next, Finished

\* Every variable keeps its type, for any transactions and any work.
THEOREM TypeCorrect == Spec => []TypeOK
<1>1. Init => TypeOK
  BY MaxFaultsType DEF Init, TypeOK, TxnPC
<1>2. QED
  BY <1>1, NextTypeOK, PTL DEF Spec

-----------------------------------------------------------------------------
(* One chain                                                               *)

\* Whoever read the head or holds uncommitted events holds the lock
LockDiscipline == \A t \in Txn :
  buffer[t] # {} \/ pc[t] \in {"head", "insert"} => chainLock = t

\* What each transaction sees is one chain of ids already drawn, with its own
\* events on top, and the head it read is still the head
ViewIsChain == \A t \in Txn :
  /\ Linked(Visible(t))
  /\ \A e \in Visible(t) : e.id < nextId
  /\ \A e \in table, f \in buffer[t] : e.id < f.id
  /\ pc[t] = "insert" => head[t] = HeadHash(Visible(t))

ChainInv == LockDiscipline /\ Linked(table) /\ ViewIsChain

\* An event drawn after every other, carrying the newest hash, extends a chain.
LEMMA LinkedExtend ==
  ASSUME NEW S, NEW e, Linked(S), \A f \in S : f.id \in Nat /\ f.id < e.id,
         e.id \in Nat, e.previous = HeadHash(S), e.hash = Hash(e.previous, e.payload)
  PROVE  Linked(S \cup {e})
<1>1. ASSUME NEW f \in S PROVE Below(S \cup {e}, f) = Below(S, f)
  BY <1>1 DEF Below
<1>2. Below(S \cup {e}, e) = S
  BY DEF Below
<1>3. QED
  BY <1>1, <1>2 DEF Linked

\* A step that leaves the events, the locks and the head alone, and brings no
\* transaction to "head" or "insert", keeps the chain.
LEMMA ChainFrame ==
  ASSUME ChainInv, UNCHANGED <<table, buffer, nextId, chainLock, head>>,
         \A t \in Txn : pc'[t] \in {"head", "insert"} => pc'[t] = pc[t]
  PROVE  ChainInv'
BY DEF ChainInv, LockDiscipline, ViewIsChain, Visible

\* Ending a transaction whose events are not kept leaves the others' chain.
LEMMA AbortChain ==
  ASSUME TypeOK, ChainInv, NEW t \in Txn, NEW how \in TxnPC \ {"head", "insert"},
         EndTransaction(t, how), table' = table
  PROVE  ChainInv'
<1>1. ASSUME NEW u \in Txn, u # t
      PROVE  /\ buffer'[u] = buffer[u] /\ pc'[u] = pc[u] /\ head'[u] = head[u]
             /\ chainLock = u => chainLock' = u
  BY <1>1 DEF EndTransaction, TypeOK
<1>2. buffer'[t] = {} /\ pc'[t] \notin {"head", "insert"} /\ nextId' = nextId
  BY DEF EndTransaction, TypeOK
<1>3. LockDiscipline'
  BY <1>1, <1>2 DEF ChainInv, LockDiscipline
<1>4. Linked(table)'
  BY DEF ChainInv
<1>5. ASSUME NEW u \in Txn
      PROVE  /\ Linked(Visible(u)')
             /\ \A e \in Visible(u)' : e.id < nextId'
             /\ \A e \in table', f \in buffer'[u] : e.id < f.id
             /\ pc'[u] = "insert" => head'[u] = HeadHash(Visible(u)')
  <2>1. CASE u = t
    <3>1. Visible(u)' = table /\ table \subseteq Visible(u)
      BY <1>2, <2>1 DEF Visible
    <3>2. QED
      BY <1>2, <2>1, <3>1 DEF ChainInv, ViewIsChain
  <2>2. CASE u # t
    <3>1. Visible(u)' = Visible(u)
      BY <1>1, <2>2 DEF Visible
    <3>2. QED
      BY <1>1, <1>2, <2>2, <3>1 DEF ChainInv, ViewIsChain
  <2>3. QED
    BY <2>1, <2>2
<1>6. QED
  BY <1>3, <1>4, <1>5 DEF ChainInv, ViewIsChain

\* Committing what the transaction saw keeps the chain: when it has events,
\* nobody else has any or has read a head.
LEMMA CommitChain ==
  ASSUME TypeOK, ChainInv, NEW t \in Txn, Commit(t)
  PROVE  ChainInv'
<1>1. CASE buffer[t] = {}
  BY <1>1, AbortChain DEF Commit, TxnPC
<1>2. CASE buffer[t] # {}
  <2>1. ASSUME NEW u \in Txn \ {t}
        PROVE  /\ buffer[u] = {} /\ buffer'[u] = {}
               /\ pc[u] \notin {"head", "insert"} /\ pc'[u] \notin {"head", "insert"}
    BY <1>2 DEF Commit, EndTransaction, ChainInv, LockDiscipline, TypeOK
  <2>2. buffer'[t] = {} /\ pc'[t] = "committed" /\ table' = Visible(t) /\ nextId' = nextId
    BY DEF Commit, EndTransaction, TypeOK, Visible
  <2>3. \A u \in Txn : buffer'[u] = {} /\ pc'[u] \notin {"head", "insert"}
    BY <2>1, <2>2
  <2>4. \A u \in Txn : Visible(u)' = Visible(t)
    BY <2>2, <2>3 DEF Visible
  <2>5. Linked(Visible(t)) /\ \A e \in Visible(t) : e.id < nextId
    BY DEF ChainInv, ViewIsChain
  <2>6. LockDiscipline' /\ Linked(table)'
    BY <2>2, <2>3, <2>5 DEF LockDiscipline
  <2>7. ViewIsChain'
    BY <2>2, <2>3, <2>4, <2>5 DEF ViewIsChain
  <2>8. QED
    BY <2>6, <2>7 DEF ChainInv
<1>3. QED
  BY <1>1, <1>2

\* Inserting under the lock keeps the chain.
LEMMA InsertChain ==
  ASSUME TypeOK, ChainInv, NEW t \in Txn, Insert(t)
  PROVE  ChainInv'
<1>1. /\ buffer' = [buffer EXCEPT ![t] = @ \cup {NewEvent(t)}]
      /\ pc' = [pc EXCEPT ![t] = "row"] /\ nextId' = nextId + 1
      /\ UNCHANGED <<table, chainLock, head>> /\ pc[t] = "insert"
  BY DEF Insert
<1>2. chainLock = t /\ head[t] = HeadHash(Visible(t))
  BY <1>1 DEF ChainInv, LockDiscipline, ViewIsChain
<1>3. ASSUME NEW u \in Txn \ {t}
      PROVE  /\ buffer[u] = {} /\ buffer'[u] = {} /\ Visible(u)' = table
             /\ pc'[u] \notin {"head", "insert"}
  BY <1>1, <1>2 DEF ChainInv, LockDiscipline, TypeOK, Visible
<1>4. /\ Visible(t)' = Visible(t) \cup {NewEvent(t)}
      /\ buffer'[t] = buffer[t] \cup {NewEvent(t)}
  BY <1>1 DEF TypeOK, Visible
<1>5. /\ NewEvent(t).id = nextId /\ NewEvent(t).previous = head[t]
      /\ NewEvent(t).hash = Hash(NewEvent(t).previous, NewEvent(t).payload)
  BY DEF NewEvent
<1>6. /\ \A e \in Visible(t) : e.id \in Nat /\ e.id < nextId
      /\ nextId \in Nat /\ Linked(Visible(t)) /\ Linked(table)
  BY DEF TypeOK, EventShape, ChainInv, ViewIsChain, Visible
<1>7. Linked(Visible(t)')
  BY <1>2, <1>4, <1>5, <1>6, LinkedExtend
<1>8. \A e \in Visible(t)' : e.id < nextId'
  BY <1>1, <1>4, <1>5, <1>6
<1>9. \A e \in table', f \in buffer'[t] : e.id < f.id
  <2>1. \A e \in table, f \in buffer[t] : e.id < f.id
    BY DEF ChainInv, ViewIsChain
  <2>2. \A e \in table : e.id < nextId
    BY <1>6 DEF Visible
  <2>3. QED
    BY <1>1, <1>4, <1>5, <2>1, <2>2
<1>10. pc'[t] = "row"
  BY <1>1 DEF TypeOK
<1>11. ASSUME NEW u \in Txn
       PROVE  /\ Linked(Visible(u)')
              /\ \A e \in Visible(u)' : e.id < nextId'
              /\ \A e \in table', f \in buffer'[u] : e.id < f.id
              /\ pc'[u] = "insert" => head'[u] = HeadHash(Visible(u)')
  <2>1. CASE u = t
    BY <1>7, <1>8, <1>9, <1>10, <2>1
  <2>2. CASE u # t
    <3>1. \A e \in table : e.id < nextId'
      BY <1>1, <1>6 DEF Visible
    <3>2. QED
      BY <1>3, <1>6, <2>2, <3>1
  <2>3. QED
    BY <2>1, <2>2
<1>12. LockDiscipline'
  BY <1>1, <1>2, <1>3, <1>10 DEF LockDiscipline
<1>13. QED
  BY <1>1, <1>6, <1>11, <1>12 DEF ChainInv, ViewIsChain

\* Every step keeps the chain.
LEMMA NextChain == TypeOK /\ ChainInv /\ [Next]_vars => ChainInv'
<1> SUFFICES ASSUME TypeOK, ChainInv, [Next]_vars PROVE ChainInv'
  OBVIOUS
<1>1. ASSUME NEW t \in Txn, TxnStep(t) \/ Abort(t) PROVE ChainInv'
  <2>1. CASE Begin(t) \/ LockRow(t) \/ SkipEvent(t)
    BY <2>1, ChainFrame DEF Begin, LockRow, SkipEvent, TypeOK
  <2>2. CASE LockChain(t)
    <3>1. LockDiscipline'
      BY <2>2, NoTxnType DEF LockChain, ChainInv, LockDiscipline, TypeOK
    <3>2. /\ Linked(table)'
          /\ ViewIsChain'
      BY <2>2 DEF LockChain, ChainInv, ViewIsChain, Visible, TypeOK
    <3>3. QED
      BY <3>1, <3>2 DEF ChainInv
  <2>3. CASE ReadHead(t)
    <3>1. LockDiscipline'
      BY <2>3 DEF ReadHead, ChainInv, LockDiscipline, TypeOK
    <3>2. Linked(table)' /\ ViewIsChain'
      BY <2>3 DEF ReadHead, ChainInv, ViewIsChain, Visible, TypeOK
    <3>3. QED
      BY <3>1, <3>2 DEF ChainInv
  <2>4. CASE Insert(t)
    BY <2>4, InsertChain
  <2>5. CASE Commit(t)
    BY <2>5, CommitChain
  <2>6. CASE Abort(t)
    BY <2>6, AbortChain DEF Abort, TxnPC
  <2>7. QED
    BY <1>1, <2>1, <2>2, <2>3, <2>4, <2>5, <2>6 DEF TxnStep
<1>2. CASE UNCHANGED vars
  BY <1>2, ChainFrame DEF vars
<1>3. QED
  BY <1>1, <1>2 DEF Next, Finished

\* The lock discipline and the chain hold in every reachable state.
LEMMA ChainInvariant == Spec => []ChainInv
<1>1. Init => ChainInv
  BY DEF Init, ChainInv, LockDiscipline, ViewIsChain, Linked, Visible
<1>2. QED
  BY <1>1, NextChain, TypeCorrect, PTL DEF Spec

\* No two transactions ever fork the audit chain.
THEOREM ChainIsAlwaysLinear == Spec => []ChainIsLinear
<1>1. ChainInv => ChainIsLinear
  BY DEF ChainInv, ChainIsLinear
<1>2. QED
  BY <1>1, ChainInvariant, PTL

\* Commits only append above the newest committed event.
THEOREM HistoryAlwaysGrowsAtTheEnd == Spec => HistoryGrowsAtTheEnd
<1> DEFINE Grows == /\ table \subseteq table'
                    /\ \A e \in table, f \in table' \ table : e.id < f.id
<1>1. ChainInv /\ [Next]_vars => [Grows]_table
  <2> SUFFICES ASSUME ChainInv, [Next]_vars, table' # table PROVE Grows
    OBVIOUS
  <2>1. PICK t \in Txn : Commit(t)
    BY DEF Next, Finished, vars, TxnStep, Begin, LockRow, SkipEvent, LockChain, ReadHead,
           Insert, Abort, EndTransaction
  <2>2. table' = table \cup buffer[t]
    BY <2>1 DEF Commit
  <2>3. QED
    BY <2>2 DEF ChainInv, ViewIsChain
<1>2. QED
  BY <1>1, ChainInvariant, PTL DEF Spec, HistoryGrowsAtTheEnd

-----------------------------------------------------------------------------
(* Whole transactions                                                      *)

\* The uncommitted events are their transaction's own, for pieces it has done
OwnEvents == \A t \in Txn : \A e \in buffer[t] :
  Open(t) /\ e.payload[1] = t /\ e.payload[2] < piece[t]

\* A transaction under way holds an event for every piece that requires one
WorkDone == \A t \in Txn :
  /\ pc[t] = "idle" => piece[t] = 1
  /\ Open(t) => \A i \in 1..Len(Work[t]) :
       i < piece[t] /\ Work[t][i] \notin Optional
         => \E f \in buffer[t] : f.payload = <<t, i>>

\* The two halves of TransactionsAreContiguous, with its local name expanded
Together(events) == \A e, f, g \in events :
  e.payload[1] = g.payload[1] /\ e.id < f.id /\ f.id < g.id
    => f.payload[1] = e.payload[1]

OnRecord(events) == \A e \in events :
  /\ pc[e.payload[1]] = "committed"
  /\ \A i \in 1..Len(Work[e.payload[1]]) :
       Work[e.payload[1]][i] \notin Optional
         => \E f \in events : f.payload = <<e.payload[1], i>>

RecordInv == OwnEvents /\ WorkDone /\ Together(table) /\ OnRecord(table)

\* A step within a transaction that ends none and adds no event keeps the
\* committed record, and every transaction's own.
LEMMA RecordFrame ==
  ASSUME TypeOK, RecordInv, NEW t \in Txn, UNCHANGED <<table, buffer>>,
         ~Ended(t), \A u \in Txn \ {t} : pc'[u] = pc[u] /\ piece'[u] = piece[u],
         Open(t)', piece'[t] \in Nat /\ piece[t] <= piece'[t],
         \A i \in 1..Len(Work[t]) : i < piece'[t] /\ Work[t][i] \notin Optional
           => \E f \in buffer[t] : f.payload = <<t, i>>
  PROVE  RecordInv'
<1>1. ASSUME NEW u \in Txn, u # t
      PROVE  pc'[u] = pc[u] /\ piece'[u] = piece[u] /\ (Open(u) <=> Open(u)')
  BY <1>1 DEF Open, Ended
<1>2. OwnEvents'
  <2> SUFFICES ASSUME NEW u \in Txn, NEW e \in buffer[u]
               PROVE  Open(u)' /\ e.payload[1] = u /\ e.payload[2] < piece'[u]
    BY DEF OwnEvents
  <2>1. e.payload[1] = u /\ e.payload[2] < piece[u] /\ e.payload[2] \in Nat /\ piece[u] \in Nat
        /\ Open(u)
    BY DEF RecordInv, OwnEvents, TypeOK, EventShape
  <2>2. CASE u = t
    BY <2>1, <2>2
  <2>3. CASE u # t
    BY <1>1, <2>1, <2>3
  <2>4. QED
    BY <2>2, <2>3
<1>3. WorkDone'
  BY <1>1 DEF RecordInv, WorkDone, Open
<1>4. Together(table)' /\ OnRecord(table)'
  <2>1. \A e \in table : pc'[e.payload[1]] = "committed"
    <3> SUFFICES ASSUME NEW e \in table PROVE pc'[e.payload[1]] = "committed"
      OBVIOUS
    <3>1. e.payload[1] \in Txn /\ pc[e.payload[1]] = "committed"
      BY DEF RecordInv, OnRecord, TypeOK, EventShape
    <3>2. e.payload[1] # t
      BY <3>1 DEF Ended
    <3>3. QED
      BY <1>1, <3>1, <3>2
  <2>2. OnRecord(table)'
    BY <2>1 DEF RecordInv, OnRecord
  <2>3. QED
    BY <2>2 DEF RecordInv, Together
<1>5. QED
  BY <1>2, <1>3, <1>4 DEF RecordInv

\* Ending a transaction that leaves nothing changes the record of no other.
LEMMA RecordEnd ==
  ASSUME TypeOK, RecordInv, NEW t \in Txn, Open(t),
         NEW how \in {"committed", "aborted"}, EndTransaction(t, how)
  PROVE  /\ OwnEvents' /\ WorkDone'
         /\ \A e \in table : pc'[e.payload[1]] = "committed"
<1>1. ASSUME NEW u \in Txn, u # t
      PROVE  /\ pc'[u] = pc[u] /\ piece'[u] = piece[u] /\ buffer'[u] = buffer[u]
             /\ (Open(u) <=> Open(u)')
  BY <1>1 DEF EndTransaction, TypeOK, Open, Ended
<1>2. buffer'[t] = {} /\ pc'[t] = how
  BY DEF EndTransaction, TypeOK
<1>3. OwnEvents'
  <2> SUFFICES ASSUME NEW u \in Txn, NEW e \in buffer'[u]
               PROVE  Open(u)' /\ e.payload[1] = u /\ e.payload[2] < piece'[u]
    BY DEF OwnEvents
  <2>1. u # t
    BY <1>2
  <2>2. QED
    BY <1>1, <2>1 DEF RecordInv, OwnEvents
<1>4. WorkDone'
  <2> SUFFICES ASSUME NEW u \in Txn
               PROVE  /\ pc'[u] = "idle" => piece'[u] = 1
                      /\ Open(u)' => \A i \in 1..Len(Work[u]) :
                           i < piece'[u] /\ Work[u][i] \notin Optional
                             => \E f \in buffer'[u] : f.payload = <<u, i>>
    BY DEF WorkDone
  <2>1. CASE u = t
    BY <1>2, <2>1 DEF Open, Ended
  <2>2. CASE u # t
    BY <1>1, <2>2 DEF RecordInv, WorkDone
  <2>3. QED
    BY <2>1, <2>2
<1>5. ASSUME NEW e \in table PROVE pc'[e.payload[1]] = "committed"
  <2>1. e.payload[1] \in Txn /\ pc[e.payload[1]] = "committed"
    BY DEF RecordInv, OnRecord, TypeOK, EventShape
  <2>2. e.payload[1] # t
    BY <2>1 DEF Open, Ended
  <2>3. QED
    BY <1>1, <2>1, <2>2
<1>6. QED
  BY <1>3, <1>4, <1>5

\* Inserting the event of a piece keeps the record.
LEMMA InsertRecord ==
  ASSUME TypeOK, RecordInv, NEW t \in Txn, Insert(t)
  PROVE  RecordInv'
<1>1. /\ buffer' = [buffer EXCEPT ![t] = buffer[t] \cup {NewEvent(t)}]
      /\ pc' = [pc EXCEPT ![t] = "row"] /\ piece' = [piece EXCEPT ![t] = piece[t] + 1]
      /\ pc[t] = "insert" /\ table' = table
  BY DEF Insert
<1>2. NewEvent(t).payload = <<t, piece[t]>>
  BY DEF NewEvent
<1>3. /\ buffer'[t] = buffer[t] \cup {NewEvent(t)} /\ pc'[t] = "row"
      /\ piece'[t] = piece[t] + 1 /\ Open(t) /\ Open(t)' /\ piece[t] \in Nat
  BY <1>1 DEF TypeOK, Open, Ended
<1>4. ASSUME NEW u \in Txn, u # t
      PROVE  /\ pc'[u] = pc[u] /\ piece'[u] = piece[u] /\ buffer'[u] = buffer[u]
             /\ (Open(u) <=> Open(u)')
  BY <1>1, <1>4 DEF TypeOK, Open, Ended
<1>5. OwnEvents'
  <2> SUFFICES ASSUME NEW u \in Txn, NEW e \in buffer'[u]
               PROVE  Open(u)' /\ e.payload[1] = u /\ e.payload[2] < piece'[u]
    BY DEF OwnEvents
  <2>1. CASE u = t /\ e \in buffer[t]
    <3>1. e.payload[1] = t /\ e.payload[2] < piece[t] /\ e.payload[2] \in Nat
      BY <2>1 DEF RecordInv, OwnEvents, TypeOK, EventShape
    <3>2. QED
      BY <1>3, <2>1, <3>1
  <2>2. CASE u = t /\ e = NewEvent(t)
    BY <1>2, <1>3, <2>2
  <2>3. CASE u # t
    BY <1>4, <2>3 DEF RecordInv, OwnEvents
  <2>4. QED
    BY <1>3, <2>1, <2>2, <2>3
<1>6. WorkDone'
  <2> SUFFICES ASSUME NEW u \in Txn
               PROVE  /\ pc'[u] = "idle" => piece'[u] = 1
                      /\ Open(u)' => \A i \in 1..Len(Work[u]) :
                           i < piece'[u] /\ Work[u][i] \notin Optional
                             => \E f \in buffer'[u] : f.payload = <<u, i>>
    BY DEF WorkDone
  <2>1. CASE u = t
    <3>1. ASSUME NEW i \in 1..Len(Work[t]), i < piece'[t], Work[t][i] \notin Optional
          PROVE  \E f \in buffer'[t] : f.payload = <<t, i>>
      <4>0. i \in Nat
        OBVIOUS
      <4>1. CASE i = piece[t]
        BY <1>2, <1>3, <4>1
      <4>2. CASE i < piece[t]
        BY <1>3, <3>1, <4>2 DEF RecordInv, WorkDone
      <4>3. QED
        BY <1>3, <3>1, <4>0, <4>1, <4>2
    <3>2. QED
      BY <1>3, <2>1, <3>1
  <2>2. CASE u # t
    BY <1>4, <2>2 DEF RecordInv, WorkDone
  <2>3. QED
    BY <2>1, <2>2
<1>7. Together(table)' /\ OnRecord(table)'
  <2>1. \A e \in table : pc'[e.payload[1]] = "committed"
    <3> SUFFICES ASSUME NEW e \in table PROVE pc'[e.payload[1]] = "committed"
      OBVIOUS
    <3>1. e.payload[1] \in Txn /\ pc[e.payload[1]] = "committed"
      BY DEF RecordInv, OnRecord, TypeOK, EventShape
    <3>2. QED
      BY <1>1, <1>4, <3>1
  <2>2. OnRecord(table)'
    BY <1>1, <2>1 DEF RecordInv, OnRecord
  <2>3. QED
    BY <1>1, <2>2 DEF RecordInv, Together
<1>8. QED
  BY <1>5, <1>6, <1>7 DEF RecordInv

\* A commit publishes the whole of one transaction, above everything else.
LEMMA CommitRecord ==
  ASSUME TypeOK, ChainInv, RecordInv, NEW t \in Txn, Commit(t)
  PROVE  RecordInv'
<1>1. /\ pc[t] = "row" /\ piece[t] > Len(Work[t]) /\ table' = table \cup buffer[t]
      /\ EndTransaction(t, "committed") /\ Open(t)
  BY DEF Commit, Open, Ended
<1>2. /\ OwnEvents' /\ WorkDone'
      /\ \A e \in table : pc'[e.payload[1]] = "committed"
  BY <1>1, RecordEnd
<1>3. \A e \in buffer[t] : e.payload[1] = t
  BY DEF RecordInv, OwnEvents
<1>4. \A e \in table : e.payload[1] # t
  BY <1>1 DEF RecordInv, OnRecord
<1>5. \A e \in table, f \in buffer[t] : e.id < f.id
  BY DEF ChainInv, ViewIsChain
<1>6. \A e \in table \cup buffer[t] : e.id \in Nat
  BY DEF TypeOK, EventShape
<1>7. Together(table)'
  <2> SUFFICES ASSUME NEW e \in table', NEW f \in table', NEW g \in table',
                      e.payload[1] = g.payload[1], e.id < f.id, f.id < g.id
               PROVE  f.payload[1] = e.payload[1]
    BY DEF Together
  <2>1. CASE e \in buffer[t]
    <3>1. g \in buffer[t]
      BY <1>1, <1>3, <1>4, <2>1
    <3>2. f \in buffer[t]
      BY <1>1, <1>5, <1>6, <2>1
    <3>3. QED
      BY <1>3, <2>1, <3>2
  <2>2. CASE e \in table
    <3>1. g \in table
      BY <1>1, <1>3, <1>4, <2>2
    <3>2. f \in table
      BY <1>1, <1>5, <1>6, <3>1
    <3>3. QED
      BY <2>2, <3>1, <3>2 DEF RecordInv, Together
  <2>3. QED
    BY <1>1, <2>1, <2>2
<1>8. OnRecord(table)'
  <2> SUFFICES ASSUME NEW e \in table'
               PROVE  /\ pc'[e.payload[1]] = "committed"
                      /\ \A i \in 1..Len(Work[e.payload[1]]) :
                           Work[e.payload[1]][i] \notin Optional
                             => \E f \in table' : f.payload = <<e.payload[1], i>>
    BY DEF OnRecord
  <2>1. CASE e \in table
    <3>1. \A i \in 1..Len(Work[e.payload[1]]) :
            Work[e.payload[1]][i] \notin Optional
              => \E f \in table : f.payload = <<e.payload[1], i>>
      BY <2>1 DEF RecordInv, OnRecord
    <3>2. QED
      BY <1>1, <1>2, <2>1, <3>1
  <2>2. CASE e \in buffer[t]
    <3>1. pc'[t] = "committed"
      BY <1>1 DEF EndTransaction, TypeOK
    <3>2. Len(Work[t]) \in Nat /\ piece[t] \in Nat
      BY WorkType DEF TypeOK
    <3>3. \A i \in 1..Len(Work[t]) : i < piece[t]
      BY <1>1, <3>2
    <3>4. \A i \in 1..Len(Work[t]) :
            Work[t][i] \notin Optional => \E f \in buffer[t] : f.payload = <<t, i>>
      BY <1>1, <3>3 DEF RecordInv, WorkDone
    <3>5. QED
      BY <1>1, <1>3, <2>2, <3>1, <3>4
  <2>3. QED
    BY <1>1, <2>1, <2>2
<1>9. QED
  BY <1>2, <1>7, <1>8 DEF RecordInv

\* Every step keeps the record.
LEMMA NextRecord ==
  ASSUME TypeOK, ChainInv, RecordInv, [Next]_vars
  PROVE  RecordInv'
<1>1. ASSUME NEW t \in Txn, TxnStep(t) \/ Abort(t) PROVE RecordInv'
  <2>0. Len(Work[t]) \in Nat /\ piece[t] \in Nat
    BY WorkType DEF TypeOK
  <2>1. CASE Begin(t)
    <3>1. piece[t] = 1 /\ \A i \in 1..Len(Work[t]) : ~(i < 1)
      BY <2>0, <2>1 DEF Begin, RecordInv, WorkDone
    <3>2. /\ UNCHANGED <<table, buffer, piece>> /\ pc' = [pc EXCEPT ![t] = "row"]
          /\ ~Ended(t)
      BY <2>1 DEF Begin, Ended
    <3>3. Open(t)' /\ \A u \in Txn \ {t} : pc'[u] = pc[u]
      BY <3>2 DEF TypeOK, Open, Ended
    <3>4. QED
      BY <2>0, <3>1, <3>2, <3>3, RecordFrame
  <2>2. CASE LockRow(t) \/ LockChain(t) \/ ReadHead(t)
    <3>1. /\ UNCHANGED <<table, buffer, piece>> /\ Open(t) /\ Open(t)' /\ ~Ended(t)
          /\ \A u \in Txn \ {t} : pc'[u] = pc[u]
      BY <2>2 DEF LockRow, LockChain, ReadHead, TypeOK, Open, Ended
    <3>2. \A i \in 1..Len(Work[t]) : i < piece[t] /\ Work[t][i] \notin Optional
            => \E f \in buffer[t] : f.payload = <<t, i>>
      BY <3>1 DEF RecordInv, WorkDone
    <3>3. piece'[t] = piece[t] /\ \A u \in Txn \ {t} : piece'[u] = piece[u]
      BY <3>1
    <3>4. piece'[t] \in Nat /\ piece[t] <= piece'[t]
      BY <2>0, <3>3
    <3>5. \A i \in 1..Len(Work[t]) : i < piece'[t] /\ Work[t][i] \notin Optional
            => \E f \in buffer[t] : f.payload = <<t, i>>
      BY <3>2, <3>3
    <3>6. QED
      BY <3>1, <3>3, <3>4, <3>5, RecordFrame
  <2>3. CASE SkipEvent(t)
    <3>1. /\ UNCHANGED <<table, buffer>> /\ Open(t) /\ Open(t)' /\ ~Ended(t)
          /\ \A u \in Txn \ {t} : pc'[u] = pc[u] /\ piece'[u] = piece[u]
          /\ piece'[t] = piece[t] + 1 /\ Work[t][piece[t]] \in Optional
      BY <2>3 DEF SkipEvent, TypeOK, Open, Ended
    <3>2. ASSUME NEW i \in 1..Len(Work[t]), i < piece'[t], Work[t][i] \notin Optional
          PROVE  \E f \in buffer[t] : f.payload = <<t, i>>
      <4>1. i < piece[t]
        BY <2>0, <3>1, <3>2
      <4>2. QED
        BY <3>1, <3>2, <4>1 DEF RecordInv, WorkDone
    <3>3. piece'[t] \in Nat /\ piece[t] <= piece'[t]
      BY <2>0, <3>1
    <3>4. QED
      BY <3>1, <3>2, <3>3, RecordFrame
  <2>4. CASE Insert(t)
    BY <2>4, InsertRecord
  <2>5. CASE Commit(t)
    BY <2>5, CommitRecord
  <2>6. CASE Abort(t)
    <3>1. Open(t) /\ EndTransaction(t, "aborted") /\ table' = table
      BY <2>6 DEF Abort
    <3>2. /\ OwnEvents' /\ WorkDone'
          /\ \A e \in table : pc'[e.payload[1]] = "committed"
      BY <3>1, RecordEnd
    <3>3. OnRecord(table)'
      BY <3>1, <3>2 DEF RecordInv, OnRecord
    <3>4. QED
      BY <3>1, <3>2, <3>3 DEF RecordInv, Together
  <2>7. QED
    BY <1>1, <2>1, <2>2, <2>3, <2>4, <2>5, <2>6 DEF TxnStep
<1>2. CASE UNCHANGED vars
  <2>1. OwnEvents'
    BY <1>2 DEF vars, RecordInv, OwnEvents, Open, Ended
  <2>2. WorkDone'
    BY <1>2 DEF vars, RecordInv, WorkDone, Open, Ended
  <2>3. OnRecord(table)'
    BY <1>2 DEF vars, RecordInv, OnRecord
  <2>4. QED
    BY <1>2, <2>1, <2>2, <2>3 DEF vars, RecordInv, Together
<1>3. QED
  BY <1>1, <1>2 DEF Next, Finished

\* In every reachable state the record is that of whole transactions.
LEMMA RecordInvariant == Spec => []RecordInv
<1>1. Init => RecordInv
  BY DEF Init, RecordInv, OwnEvents, WorkDone, Together, OnRecord, Open, Ended
<1>2. QED
  BY <1>1, NextRecord, TypeCorrect, ChainInvariant, PTL DEF Spec

\* The events of one transaction appear together and next to each other, none
\* is missing, and an aborted transaction leaves none.
THEOREM TransactionsAreAlwaysContiguous == Spec => []TransactionsAreContiguous
<1>1. RecordInv => TransactionsAreContiguous
  BY DEF RecordInv, Together, OnRecord, TransactionsAreContiguous
<1>2. QED
  BY <1>1, RecordInvariant, PTL

-----------------------------------------------------------------------------
(* Tampering                                                               *)

\* The events above one
Above(events, e) == {f \in events : f.id > e.id}

HasNewest(events) == events = {} \/ \E m \in events : \A f \in events : f.id <= m.id
HasOldest(events) == events = {} \/ \E m \in events : \A f \in events : m.id <= f.id

\* Events one can climb: finitely many, told apart by id and by payload, each
\* with a next one below and above unless it is the first or the last
Ladder(events) ==
  /\ IsFiniteSet(events)
  /\ \A e, f \in events : e.id = f.id \/ e.payload = f.payload => e = f
  /\ HasNewest(events)
  /\ \A e \in events : HasNewest(Below(events, e)) /\ HasOldest(Above(events, e))

LadderInv == Ladder(table) /\ \A t \in Txn : Ladder(Visible(t))

\* A new event with the highest id and a payload of its own is a new top rung.
LEMMA LadderExtend ==
  ASSUME NEW S, NEW e, Ladder(S), e.id \in Nat,
         \A f \in S : f.id \in Nat /\ f.id < e.id /\ f.payload # e.payload
  PROVE  Ladder(S \cup {e})
<1>1. IsFiniteSet(S \cup {e})
  BY FS_AddElement DEF Ladder
<1>2. \A f, g \in S \cup {e} : f.id = g.id \/ f.payload = g.payload => f = g
  BY DEF Ladder
<1>3. HasNewest(S \cup {e})
  BY DEF HasNewest
<1>4. Below(S \cup {e}, e) = S /\ Above(S \cup {e}, e) = {}
  BY DEF Below, Above
<1>5. ASSUME NEW f \in S
      PROVE  Below(S \cup {e}, f) = Below(S, f) /\ HasOldest(Above(S \cup {e}, f))
  <2>1. Below(S \cup {e}, f) = Below(S, f) /\ Above(S \cup {e}, f) = Above(S, f) \cup {e}
    BY DEF Below, Above
  <2>2. CASE Above(S, f) = {}
    BY <2>1, <2>2 DEF HasOldest
  <2>3. CASE Above(S, f) # {}
    <3>1. PICK m \in Above(S, f) : \A g \in Above(S, f) : m.id <= g.id
      BY <2>3 DEF Ladder, HasOldest
    <3>2. m.id <= e.id
      BY <3>1 DEF Above
    <3>3. QED
      BY <2>1, <3>1, <3>2 DEF HasOldest
  <2>4. QED
    BY <2>1, <2>2, <2>3
<1>6. QED
  BY <1>1, <1>2, <1>3, <1>4, <1>5 DEF Ladder, HasOldest

\* Every step keeps the ladder.
LEMMA NextLadder ==
  ASSUME TypeOK, ChainInv, RecordInv, LadderInv, [Next]_vars
  PROVE  LadderInv'
<1>1. CASE UNCHANGED <<table, buffer>>
  BY <1>1 DEF LadderInv, Visible
<1>2. ASSUME NEW t \in Txn, Insert(t) PROVE LadderInv'
  <2>1. /\ pc[t] = "insert" /\ table' = table
        /\ buffer' = [buffer EXCEPT ![t] = buffer[t] \cup {NewEvent(t)}]
    BY <1>2 DEF Insert
  <2>2. /\ Visible(t)' = Visible(t) \cup {NewEvent(t)}
        /\ \A u \in Txn \ {t} : Visible(u)' = Visible(u)
    BY <2>1 DEF TypeOK, Visible
  <2>3. NewEvent(t).id = nextId /\ NewEvent(t).payload = <<t, piece[t]>> /\ nextId \in Nat
    BY DEF NewEvent, TypeOK
  <2>4. ASSUME NEW f \in Visible(t)
        PROVE  f.id \in Nat /\ f.id < nextId /\ f.payload # <<t, piece[t]>>
    <3>1. f.id \in Nat /\ f.id < nextId
      BY DEF TypeOK, EventShape, ChainInv, ViewIsChain, Visible
    <3>2. CASE f \in buffer[t]
      <4>1. f.payload[2] < piece[t] /\ piece[t] \in Nat
        BY <3>2 DEF RecordInv, OwnEvents, TypeOK
      <4>2. QED
        BY <3>1, <4>1
    <3>3. CASE f \in table
      <4>1. pc[f.payload[1]] = "committed"
        BY <3>3 DEF RecordInv, OnRecord
      <4>2. QED
        BY <2>1, <3>1, <4>1
    <3>4. QED
      BY <3>2, <3>3 DEF Visible
  <2>5. Ladder(Visible(t) \cup {NewEvent(t)})
    BY <2>3, <2>4, LadderExtend DEF LadderInv
  <2>6. QED
    BY <2>1, <2>2, <2>5 DEF LadderInv
<1>3. ASSUME NEW t \in Txn, NEW how \in {"committed", "aborted"}, EndTransaction(t, how),
             table' \in {table, Visible(t)}, table' = table \/ buffer[t] # {}
      PROVE  LadderInv'
  <2>1. /\ Ladder(table') /\ buffer'[t] = {}
        /\ \A u \in Txn \ {t} : buffer'[u] = buffer[u]
    BY <1>3 DEF LadderInv, EndTransaction, TypeOK
  <2>2. ASSUME NEW u \in Txn PROVE Ladder(Visible(u)')
    <3>1. CASE buffer'[u] = {}
      <4>1. Visible(u)' = table'
        BY <3>1 DEF Visible
      <4>2. QED
        BY <2>1, <4>1
    <3>2. CASE buffer'[u] # {}
      <4>1. u # t /\ buffer[u] # {}
        BY <2>1, <3>2
      <4>2. buffer[t] = {}
        BY <4>1 DEF ChainInv, LockDiscipline
      <4>3. Visible(u)' = Visible(u)
        BY <1>3, <2>1, <4>1, <4>2 DEF Visible
      <4>4. QED
        BY <4>3 DEF LadderInv
    <3>3. QED
      BY <3>1, <3>2
  <2>3. QED
    BY <2>1, <2>2 DEF LadderInv
<1>4. ASSUME NEW t \in Txn, Commit(t) PROVE LadderInv'
  <2>1. EndTransaction(t, "committed") /\ table' = Visible(t)
    BY <1>4 DEF Commit, Visible
  <2>2. table' = table \/ buffer[t] # {}
    BY <2>1 DEF Visible
  <2>3. QED
    BY <1>3, <2>1, <2>2
<1>5. ASSUME NEW t \in Txn, Abort(t) PROVE LadderInv'
  BY <1>3, <1>5 DEF Abort
<1>6. QED
  BY <1>1, <1>2, <1>4, <1>5 DEF Next, Finished, vars, TxnStep, Begin, LockRow, SkipEvent,
     LockChain, ReadHead

\* In every reachable state the events, seen by anyone, form a ladder.
LEMMA LadderInvariant == Spec => []LadderInv
<1>1. Init => LadderInv
  BY FS_EmptySet DEF Init, LadderInv, Ladder, HasNewest, Visible
<1>2. QED
  BY <1>1, NextLadder, TypeCorrect, ChainInvariant, RecordInvariant, PTL DEF Spec

\* Events whose ids are numbers that tell them apart
Numbered(events) ==
  \A e \in events : e.id \in Nat /\ \A f \in events : e.id = f.id => e = f

\* A part of the log that leaves out nothing above any of its events
UpperPart(window, events) ==
  window \subseteq events /\ \A e \in window : Above(events, e) \subseteq window

\* The newest event is the one with the highest id.
LEMMA NewestIs ==
  ASSUME NEW S, Numbered(S), NEW m \in S, \A f \in S : f.id <= m.id
  PROVE  Newest(S) = m
<1>1. \A f \in S : (\A g \in S : g.id <= f.id) => f = m
  BY DEF Numbered
<1>2. QED
  BY <1>1 DEF Newest

\* The newest limit events leave out nothing above any of them.
LEMMA WindowIsUpper ==
  ASSUME NEW S, IsFiniteSet(S), Numbered(S), NEW limit \in Nat
  PROVE  UpperPart(Window(S, limit), S)
<1> SUFFICES ASSUME NEW e \in Window(S, limit), NEW f \in Above(S, e)
             PROVE  f \in Window(S, limit)
  BY DEF UpperPart, Window
<1>1. e \in S /\ Cardinality(Above(S, e)) < limit
  BY DEF Window, Above
<1>2. f \in S /\ Above(S, f) \in SUBSET Above(S, e)
  BY <1>1 DEF Above, Numbered
<1>3. IsFiniteSet(Above(S, e))
  BY FS_Subset DEF Above
<1>4. IsFiniteSet(Above(S, f)) /\ Cardinality(Above(S, f)) <= Cardinality(Above(S, e))
  BY <1>2, <1>3, FS_Subset
<1>5. Cardinality(Above(S, e)) \in Nat /\ Cardinality(Above(S, f)) \in Nat
  BY <1>3, <1>4, FS_CardinalityType
<1>6. Cardinality(Above(S, f)) < limit
  BY <1>1, <1>4, <1>5
<1>7. QED
  BY <1>2, <1>6 DEF Window, Above

\* An event carries the hash of the event just below it.
LEMMA CarriesHashBelow ==
  ASSUME NEW S, Numbered(S), Linked(S), NEW h \in S, NEW m \in Below(S, h),
         \A f \in Below(S, h) : f.id <= m.id
  PROVE  h.previous = m.hash
<1>1. Numbered(Below(S, h)) /\ Below(S, h) # {}
  BY DEF Numbered, Below
<1>2. Newest(Below(S, h)) = m
  BY <1>1, NewestIs
<1>3. QED
  BY <1>1, <1>2 DEF Linked, HeadHash

\* verify_audit_chain accepts the upper part of a chain.
LEMMA ChainAccepted ==
  ASSUME NEW S, Numbered(S), Linked(S), Ladder(S), NEW W, UpperPart(W, S)
  PROVE  Accepts(W)
<1> SUFFICES ASSUME NEW e \in W, Below(W, e) # {}
             PROVE  e.previous = Newest(Below(W, e)).hash
  BY DEF Accepts, Linked, UpperPart
<1>1. PICK f \in W : f.id < e.id
  BY DEF Below
<1>2. e \in S /\ f \in Below(S, e)
  BY <1>1 DEF UpperPart, Below
<1>3. PICK m \in Below(S, e) : \A g \in Below(S, e) : g.id <= m.id
  BY <1>2 DEF Ladder, HasNewest
<1>4. m \in W
  <2>1. f.id <= m.id /\ m \in S /\ f \in S
    BY <1>2, <1>3 DEF Below
  <2>2. CASE f.id = m.id
    BY <2>1, <2>2 DEF Numbered
  <2>3. CASE f.id < m.id
    BY <2>1, <2>3 DEF UpperPart, Above, Numbered
  <2>4. QED
    BY <2>1, <2>2, <2>3 DEF Numbered
<1>5. m \in Below(W, e) /\ Below(W, e) \subseteq Below(S, e) /\ Numbered(Below(W, e))
  BY <1>3, <1>4 DEF Below, UpperPart, Numbered
<1>6. Newest(Below(W, e)) = m
  BY <1>3, <1>5, NewestIs
<1>7. QED
  BY <1>2, <1>3, <1>6, CarriesHashBelow

\* An event whose payload is no longer the one it hashed is reported.
LEMMA ChangeDetected ==
  ASSUME NEW e, NEW rest, NEW payload, EventShape(e),
         e.hash = Hash(e.previous, e.payload), payload # e.payload
  PROVE  ~Accepts(rest \cup {[e EXCEPT !.payload = payload]})
<1> DEFINE forged == [e EXCEPT !.payload = payload]
<1>1. forged.hash = e.hash /\ forged.payload = payload
  BY DEF EventShape
<1>2. \A expected : forged.hash # Hash(expected, forged.payload)
  BY <1>1 DEF Hash
<1>3. QED
  BY <1>2 DEF Accepts

\* A missing event with events on both sides is reported: the next one carries
\* the hash of an event that is no longer the one below it.
LEMMA DeletionDetected ==
  ASSUME NEW S, Numbered(S), Linked(S), Ladder(S), NEW W, UpperPart(W, S),
         NEW e \in W, NEW f \in W, NEW g \in W, f.id < e.id, e.id < g.id
  PROVE  ~Accepts(W \ {e})
<1>1. W \subseteq S /\ g \in Above(S, e)
  BY DEF UpperPart, Above
<1>2. PICK h \in Above(S, e) : \A x \in Above(S, e) : h.id <= x.id
  BY <1>1 DEF Ladder, HasOldest
<1>3. h \in W /\ h.id > e.id /\ h \in S
  BY <1>2 DEF UpperPart, Above
<1>4. h.previous = e.hash
  <2>1. e \in Below(S, h)
    BY <1>1, <1>3 DEF Below
  <2>2. ASSUME NEW x \in Below(S, h) PROVE x.id <= e.id
    <3>1. x \in S /\ x.id < h.id
      BY DEF Below
    <3>2. x \notin Above(S, e)
      BY <1>2, <1>3, <3>1 DEF Numbered
    <3>3. QED
      BY <1>1, <3>1, <3>2 DEF Above, Numbered
  <2>3. QED
    BY <1>3, <2>1, <2>2, CarriesHashBelow
<1> DEFINE before == Below(W \ {e}, h)
<1>5. f \in before /\ before \subseteq S /\ before \subseteq Below(S, h)
  BY <1>1, <1>3 DEF Below, Numbered
<1>6. PICK m \in before : \A x \in before : x.id <= m.id
  <2>1. PICK n \in Below(S, e) : \A x \in Below(S, e) : x.id <= n.id
    BY <1>1 DEF Ladder, HasNewest, Below
  <2>2. f \in Below(S, e) /\ f \in S /\ n \in S /\ f.id <= n.id /\ n.id < e.id
    BY <1>1, <2>1 DEF Below
  <2>3. n \in W
    BY <2>2 DEF UpperPart, Above, Numbered
  <2>4. n \in before
    BY <1>1, <1>3, <2>2, <2>3 DEF Below, Numbered
  <2>5. ASSUME NEW x \in before PROVE x.id <= n.id
    <3>1. x \in S /\ x # e /\ x.id < h.id
      BY <1>5 DEF Below
    <3>2. x \notin Above(S, e)
      BY <1>2, <1>3, <3>1 DEF Numbered
    <3>3. x \in Below(S, e)
      BY <1>1, <3>1, <3>2 DEF Above, Below, Numbered
    <3>4. QED
      BY <2>1, <3>3
  <2>6. QED
    BY <2>4, <2>5
<1>7. Newest(before) = m
  <2>1. Numbered(before)
    BY <1>5 DEF Numbered
  <2>2. QED
    BY <1>6, <2>1, NewestIs
<1>8. m \in S /\ m # e /\ m.payload # e.payload
  BY <1>1, <1>5, <1>6 DEF Below, Ladder
<1>9. m.hash # e.hash
  BY <1>1, <1>8 DEF Linked, Hash
<1>10. h \in W \ {e} /\ before # {} /\ h.previous # Newest(before).hash
  BY <1>3, <1>4, <1>5, <1>7, <1>9 DEF Numbered
<1>11. QED
  BY <1>10 DEF Accepts

\* However many events verify_audit_chain reads, it accepts them as written and
\* reports a changed one, and a deleted one between two others.
THEOREM TamperingIsAlwaysDetected == Spec => []TamperingIsDetected
<1>1. TypeOK /\ ChainInv /\ LadderInv => TamperingIsDetected
  <2> SUFFICES ASSUME TypeOK, ChainInv, LadderInv, NEW limit \in 1..Cardinality(table)
               PROVE  LET window == Window(table, limit)
                      IN /\ Accepts(window)
                         /\ \A e \in window :
                              /\ \A f \in table : f.payload # e.payload =>
                                   ~Accepts((window \ {e})
                                              \cup {[e EXCEPT !.payload = f.payload]})
                              /\ (\E f, g \in window : f.id < e.id /\ e.id < g.id)
                                   => ~Accepts(window \ {e})
    BY DEF TamperingIsDetected
  <2> DEFINE W == Window(table, limit)
  <2>1. Linked(table) /\ Ladder(table) /\ Numbered(table) /\ IsFiniteSet(table)
    BY DEF ChainInv, LadderInv, Ladder, TypeOK, EventShape, Numbered
  <2>2. UpperPart(W, table)
    BY <2>1, WindowIsUpper
  <2> HIDE DEF W
  <2>3. Accepts(W)
    BY <2>1, <2>2, ChainAccepted
  <2>4. ASSUME NEW e \in W, NEW f \in table, f.payload # e.payload
        PROVE  ~Accepts((W \ {e}) \cup {[e EXCEPT !.payload = f.payload]})
    <3>1. e \in table
      BY <2>2 DEF UpperPart
    <3>2. EventShape(e) /\ e.hash = Hash(e.previous, e.payload)
      BY <2>1, <3>1 DEF TypeOK, Linked
    <3>3. QED
      BY <2>4, <3>2, ChangeDetected
  <2>5. ASSUME NEW e \in W, NEW f \in W, NEW g \in W, f.id < e.id, e.id < g.id
        PROVE  ~Accepts(W \ {e})
    BY <2>1, <2>2, <2>5, DeletionDetected
  <2>6. QED
    BY <2>3, <2>4, <2>5 DEF W
<1>2. QED
  BY <1>1, TypeCorrect, ChainInvariant, LadderInvariant, PTL
=============================================================================
