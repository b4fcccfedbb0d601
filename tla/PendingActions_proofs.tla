----------------------- MODULE PendingActions_proofs -----------------------
(***************************************************************************)
(* Proofs about PendingActions, for any number of keys, calls, clients and *)
(* faults.                                                                 *)
(*                                                                         *)
(* Everything rests on one lemma, StepsAreLegal: whatever a request does,  *)
(* it moves the row of its action along the edges of one small graph, and  *)
(* appends exactly the event of that edge.  The properties are then read   *)
(* off the graph.                                                          *)
(***************************************************************************)
EXTENDS PendingActions, SequenceTheorems, TLAPS

\* The edges of the status graph, with the event of each
Edge(k, from, to, event) ==
  /\ status[k] = from
  /\ status'[k] = to
  /\ trail'[k] = Append(trail[k], event)

Stays(k) == status'[k] = status[k] /\ trail'[k] = trail[k]

Legal(k) ==
  \/ Stays(k)
  \/ status[k] = "absent" /\ status'[k] = "pending" /\ trail'[k] = trail[k]
  \/ Edge(k, "pending", "approved", "approved") /\ InTime(k)
  \/ Edge(k, "pending", "expired", "expired")
  \/ Edge(k, "pending", "rejected", "rejected")
  \/ Edge(k, "approved", "executing", "execution_started")
  \/ Edge(k, "executing", "executed", "executed")

-----------------------------------------------------------------------------
(* Types                                                                   *)

\* A counted outcome stays within the bound.
LEMMA FaultsTyped ==
  ASSUME TypeOK, NEW o \in Outcome, Counted(o)
  PROVE  faults' \in 0..MaxFaults
BY BoundsType DEF TypeOK, Counted, Outcome

\* A transaction on row k that moves it or keeps it preserves types and names
LEMMA MovePreserves ==
  ASSUME TypeOK, Named, UNCHANGED actionId, NEW k \in Key,
         NEW new \in Status, NEW event \in Event,
         status[k] # "absent", Moved(k, new, event)
  PROVE  status' \in [Key -> Status] /\ trail' \in [Key -> Seq(Event)] /\ Named'
<1>1. status' \in [Key -> Status]
  BY DEF TypeOK, Moved
<1>2. trail' \in [Key -> Seq(Event)]
  BY DEF TypeOK, Moved
<1>3. Named'
  BY DEF TypeOK, Moved, Named
<1> QED
  BY <1>1, <1>2, <1>3

\* A transaction that leaves the rows alone keeps their types.
LEMMA KeptPreserves ==
  ASSUME TypeOK, Named, UNCHANGED actionId, Kept
  PROVE  status' \in [Key -> Status] /\ trail' \in [Key -> Seq(Event)] /\ Named'
BY DEF TypeOK, Kept, Named

\* The statuses the transactions write are statuses.
LEMMA StatusNames ==
  /\ {"approved", "expired", "executing", "executed", "rejected"} \subseteq Status
  /\ {"approved", "expired", "execution_started", "executed", "rejected"} \subseteq Event
BY DEF Status, Event

\* So do the two ways a request goes on
LEMMA ReplyTyped ==
  ASSUME TypeOK, NEW c \in Client,
         NEW s \in Status \cup {"error", "not_found"}, Replied(c, s)
  PROVE  /\ rpc' \in [Client -> {"idle", "approve", "claim", "complete", "done"}]
         /\ answer' \in [Client -> Status \cup {"none", "error", "not_found"}]
BY DEF TypeOK, Replied

\* Going on to the next transaction keeps the types of the client's state.
LEMMA ContinueTyped ==
  ASSUME TypeOK, NEW c \in Client, NEW next \in {"claim", "complete", "done"},
         Continues(c, next)
  PROVE  /\ rpc' \in [Client -> {"idle", "approve", "claim", "complete", "done"}]
         /\ answer' \in [Client -> Status \cup {"none", "error", "not_found"}]
BY DEF TypeOK, Continues

\* The type invariant is inductive, together with Named
LEMMA TypeInductive == TypeOK /\ Named /\ [Next]_vars => TypeOK' /\ Named'
<1> SUFFICES ASSUME TypeOK, Named, [Next]_vars PROVE TypeOK' /\ Named'
  OBVIOUS
<1>1. ASSUME NEW c \in Call, Create(c) PROVE TypeOK' /\ Named'
  <2> DEFINE k == KeyOf[c]
  <2> DEFINE id == IF status[k] = "absent" THEN c ELSE actionId[k]
  <2>1. k \in Key
    BY KeyOfType
  <2>2. id \in Call
    BY <2>1 DEF Named
  <2>3. PICK o \in Outcome :
          /\ Counted(o)
          /\ IF o = "err"
               THEN /\ told' = [told EXCEPT ![c] = "error"]
                    /\ UNCHANGED <<status, actionId, hits>>
               ELSE /\ status' = [status EXCEPT ![k] = IF @ = "absent" THEN "pending" ELSE @]
                    /\ actionId' = [actionId EXCEPT ![k] = id]
                    /\ hits' = [hits EXCEPT ![k] = @ + 1]
                    /\ told' = [told EXCEPT ![c] = IF o = "ok" THEN id ELSE "error"]
    BY <1>1 DEF Create, Told
  <2> HIDE DEF k, id
  <2>4. faults' \in 0..MaxFaults
    BY <2>3, FaultsTyped
  <2>5. UNCHANGED <<overdue, trail, rpc, dated, answer>>
    BY <1>1 DEF Create, Told
  <2>6. status' \in [Key -> Status]
    <3>1. (IF status[k] = "absent" THEN "pending" ELSE status[k]) \in Status
      BY <2>1 DEF TypeOK, Status
    <3>2. status \in [Key -> Status]
      BY DEF TypeOK
    <3> QED
      BY <2>1, <2>3, <3>1, <3>2
  <2>7. /\ actionId' \in [Key -> Call \cup {NoCall}]
        /\ hits' \in [Key -> Nat]
        /\ told' \in [Call -> Call \cup {"none", "error"}]
    <3>1. (IF o = "ok" THEN id ELSE "error") \in Call \cup {"none", "error"}
      BY <2>2
    <3>2. told' \in [Call -> Call \cup {"none", "error"}]
      BY <2>3, <3>1 DEF TypeOK
    <3>3. actionId' \in [Key -> Call \cup {NoCall}]
      BY <2>1, <2>2, <2>3 DEF TypeOK
    <3>4. hits' \in [Key -> Nat]
      <4>1. hits' = hits \/ hits' = [hits EXCEPT ![k] = hits[k] + 1]
        BY <2>3
      <4>2. hits \in [Key -> Nat]
        BY DEF TypeOK
      <4>3. hits[k] + 1 \in Nat
        BY <2>1, <4>2
      <4> QED
        BY <2>1, <4>1, <4>2, <4>3
    <3> QED
      BY <3>2, <3>3, <3>4
  <2>8. Named'
    BY <2>1, <2>2, <2>3 DEF Named, TypeOK
  <2> QED
    BY <2>4, <2>5, <2>6, <2>7, <2>8 DEF TypeOK
<1>2. ASSUME NEW k \in Key, Expire(k) PROVE TypeOK' /\ Named'
  BY <1>2 DEF Expire, TypeOK, Named
<1>3. ASSUME NEW c \in Client, ClientStep(c) \/ Crash(c) PROVE TypeOK' /\ Named'
  <2> DEFINE k == About[c]
  <2>1. k \in Key
    BY AboutType
  <2>2. UNCHANGED <<actionId, overdue, hits, told>> /\ dated' \in [Client -> BOOLEAN]
    BY <1>3, <2>1 DEF TypeOK, ClientStep, BeginApproval, Approve, Claim, Complete, Reject, Again, Crash, Kept
  <2>3. /\ rpc' \in [Client -> {"idle", "approve", "claim", "complete", "done"}]
        /\ faults' \in 0..MaxFaults
        /\ status' \in [Key -> Status]
        /\ trail' \in [Key -> Seq(Event)]
        /\ answer' \in [Client -> Status \cup {"none", "error", "not_found"}]
        /\ Named'
    <3>1. CASE Approve(c)
      <4>1. PICK o \in Outcome :
              /\ Counted(o)
              /\ IF o = "err" THEN Kept ELSE Approved(c, k)
              /\ IF o # "ok" THEN Replied(c, "error")
                 ELSE IF status'[k] = "absent" THEN Replied(c, "not_found")
                 ELSE IF status'[k] \in {"expired", "rejected"} THEN Replied(c, status'[k])
                 ELSE Continues(c, "claim")
        BY <3>1 DEF Approve
      <4>2. faults' \in 0..MaxFaults
        BY <4>1, FaultsTyped
      <4>3. \/ Kept
            \/ Moved(k, "expired", "expired") /\ status[k] = "pending"
            \/ Moved(k, "approved", "approved") /\ status[k] = "pending"
        BY <4>1 DEF Approved
      <4>4. status' \in [Key -> Status] /\ trail' \in [Key -> Seq(Event)] /\ Named'
        BY <2>1, <2>2, <4>3, MovePreserves, KeptPreserves, StatusNames
      <4>5. \/ \E s \in Status \cup {"error", "not_found"} : Replied(c, s)
            \/ Continues(c, "claim")
        BY <2>1, <4>1, <4>4
      <4> QED
        BY <4>2, <4>4, <4>5, ReplyTyped, ContinueTyped
    <3>2. CASE Claim(c)
      <4>1. PICK o \in Outcome :
              /\ Counted(o)
              /\ IF o = "err" \/ status[k] # "approved" THEN Kept
                 ELSE Moved(k, "executing", "execution_started")
              /\ IF o # "ok" THEN Replied(c, "error")
                 ELSE IF status[k] = "approved" THEN Continues(c, "complete")
                 ELSE Replied(c, status[k])
        BY <3>2 DEF Claim
      <4>2. faults' \in 0..MaxFaults
        BY <4>1, FaultsTyped
      <4>3. \/ Kept
            \/ Moved(k, "executing", "execution_started") /\ status[k] = "approved"
        BY <4>1
      <4>4. status' \in [Key -> Status] /\ trail' \in [Key -> Seq(Event)] /\ Named'
        BY <2>1, <2>2, <4>3, MovePreserves, KeptPreserves, StatusNames
      <4>5. \/ \E s \in Status \cup {"error", "not_found"} : Replied(c, s)
            \/ Continues(c, "complete")
        BY <2>1, <4>1 DEF TypeOK
      <4> QED
        BY <4>2, <4>4, <4>5, ReplyTyped, ContinueTyped
    <3>3. CASE Complete(c)
      <4>1. PICK o \in Outcome :
              /\ Counted(o)
              /\ IF o = "err" \/ status[k] # "executing" THEN Kept
                 ELSE Moved(k, "executed", "executed")
              /\ Replied(c, IF o = "ok" THEN status'[k] ELSE "error")
        BY <3>3 DEF Complete
      <4>2. faults' \in 0..MaxFaults
        BY <4>1, FaultsTyped
      <4>3. \/ Kept
            \/ Moved(k, "executed", "executed") /\ status[k] = "executing"
        BY <4>1
      <4>4. status' \in [Key -> Status] /\ trail' \in [Key -> Seq(Event)] /\ Named'
        BY <2>1, <2>2, <4>3, MovePreserves, KeptPreserves, StatusNames
      <4>5. \E s \in Status \cup {"error", "not_found"} : Replied(c, s)
        BY <2>1, <4>1, <4>4
      <4> QED
        BY <4>2, <4>4, <4>5, ReplyTyped
    <3>4. CASE Reject(c)
      <4>1. PICK o \in Outcome :
              /\ Counted(o)
              /\ IF o = "err" \/ status[k] # "pending" THEN Kept
                 ELSE Moved(k, "rejected", "rejected")
              /\ Replied(c, IF o # "ok" THEN "error"
                            ELSE IF status'[k] = "absent" THEN "not_found" ELSE status'[k])
        BY <3>4 DEF Reject
      <4>2. faults' \in 0..MaxFaults
        BY <4>1, FaultsTyped
      <4>3. \/ Kept
            \/ Moved(k, "rejected", "rejected") /\ status[k] = "pending"
        BY <4>1
      <4>4. status' \in [Key -> Status] /\ trail' \in [Key -> Seq(Event)] /\ Named'
        BY <2>1, <2>2, <4>3, MovePreserves, KeptPreserves, StatusNames
      <4>5. \E s \in Status \cup {"error", "not_found"} : Replied(c, s)
        BY <2>1, <4>1, <4>4
      <4> QED
        BY <4>2, <4>4, <4>5, ReplyTyped
    <3>5. CASE Again(c) \/ BeginApproval(c)
      BY <3>5, <2>2 DEF Again, BeginApproval, TypeOK, Named
    <3>6. CASE Crash(c)
      <4>1. faults' \in 0..MaxFaults
        BY <3>6, FaultsTyped DEF Crash, Outcome
      <4> QED
        BY <3>6, <4>1, ContinueTyped DEF Crash, TypeOK, Named
    <3> QED
      BY <1>3, <3>1, <3>2, <3>3, <3>4, <3>5, <3>6 DEF ClientStep
  <2> QED
    BY <2>2, <2>3 DEF TypeOK
<1>4. CASE UNCHANGED vars
  BY <1>4 DEF vars, TypeOK, Named
<1> QED
  BY <1>1, <1>2, <1>3, <1>4 DEF Next

(***************************************************************************)
(* Every variable of the model keeps its type, and a recorded action names *)
(* its call.                                                               *)
(***************************************************************************)
THEOREM TypeCorrect == Spec => [](TypeOK /\ Named)
<1>1. Init => TypeOK /\ Named
  BY BoundsType DEF Init, TypeOK, Named, Status
<1> QED
  BY <1>1, TypeInductive, PTL DEF Spec

-----------------------------------------------------------------------------
(* The status graph                                                        *)

\* Moving one row appends one event to its trail and leaves the others.
LEMMA MoveIsEdge ==
  ASSUME TypeOK, NEW k \in Key, NEW new, NEW event, Moved(k, new, event)
  PROVE  /\ status'[k] = new /\ trail'[k] = Append(trail[k], event)
         /\ \A j \in Key \ {k} : Stays(j)
BY DEF TypeOK, Moved, Stays

\* A transaction that writes nothing leaves every action alone.
LEMMA KeptStays == ASSUME Kept PROVE \A j \in Key : Stays(j)
BY DEF Kept, Stays

\* Every step keeps every action or moves it along an edge of the graph
LEMMA StepsAreLegal ==
  ASSUME TypeOK, [Next]_vars
  PROVE  \A j \in Key : Legal(j)
<1>1. ASSUME NEW c \in Call, Create(c) PROVE \A j \in Key : Legal(j)
  BY <1>1, KeyOfType DEF Create, Told, TypeOK, Legal, Stays
<1>2. ASSUME NEW k \in Key, Expire(k) PROVE \A j \in Key : Legal(j)
  BY <1>2 DEF Expire, Legal, Stays
<1>3. ASSUME NEW c \in Client, Approve(c) PROVE \A j \in Key : Legal(j)
  <2> DEFINE k == About[c]
  <2>1. k \in Key
    BY AboutType
  <2>2. Kept \/ Approved(c, k)
    BY <1>3 DEF Approve
  <2>3. ~dated[c] => InTime(k)
    BY <1>3 DEF Approve, InTime
  <2>4. \/ Kept
        \/ Moved(k, "expired", "expired") /\ status[k] = "pending"
        \/ Moved(k, "approved", "approved") /\ status[k] = "pending" /\ InTime(k)
    BY <2>2, <2>3 DEF Approved
  <2> QED
    BY <2>1, <2>4, MoveIsEdge, KeptStays DEF Legal, Edge
<1>4. ASSUME NEW c \in Client, Claim(c) PROVE \A j \in Key : Legal(j)
  <2> DEFINE k == About[c]
  <2>1. k \in Key
    BY AboutType
  <2>2. \/ Kept
        \/ Moved(k, "executing", "execution_started") /\ status[k] = "approved"
    BY <1>4 DEF Claim
  <2> QED
    BY <2>1, <2>2, MoveIsEdge, KeptStays DEF Legal, Edge
<1>5. ASSUME NEW c \in Client, Complete(c) PROVE \A j \in Key : Legal(j)
  <2> DEFINE k == About[c]
  <2>1. k \in Key
    BY AboutType
  <2>2. \E o \in Outcome : IF o = "err" \/ status[k] # "executing" THEN Kept
                           ELSE Moved(k, "executed", "executed")
    BY <1>5 DEF Complete
  <2> QED
    BY <2>1, <2>2, MoveIsEdge, KeptStays DEF Legal, Edge
<1>6. ASSUME NEW c \in Client, Reject(c) PROVE \A j \in Key : Legal(j)
  <2> DEFINE k == About[c]
  <2>1. k \in Key
    BY AboutType
  <2>2. \E o \in Outcome : IF o = "err" \/ status[k] # "pending" THEN Kept
                           ELSE Moved(k, "rejected", "rejected")
    BY <1>6 DEF Reject
  <2> QED
    BY <2>1, <2>2, MoveIsEdge, KeptStays DEF Legal, Edge
<1>7. ASSUME NEW c \in Client, BeginApproval(c) \/ Again(c) \/ Crash(c)
      PROVE \A j \in Key : Legal(j)
  BY <1>7 DEF BeginApproval, Again, Crash, Legal, Stays
<1>8. CASE UNCHANGED vars
  BY <1>8 DEF vars, Legal, Stays
<1> QED
  BY <1>1, <1>2, <1>3, <1>4, <1>5, <1>6, <1>7, <1>8 DEF Next, ClientStep

-----------------------------------------------------------------------------
(* The audit trail                                                         *)

\* Appending to a sequence of one.
LEMMA AppendToOne ==
  ASSUME NEW a, NEW b
  PROVE  Append(<<a>>, b) = <<a, b>>
<1> DEFINE S == {a, b}
<1>1. /\ <<a>> \in Seq(S) /\ <<a, b>> \in Seq(S) /\ Append(<<a>>, b) \in Seq(S)
      /\ Len(Append(<<a>>, b)) = 2 /\ Len(<<a, b>>) = 2
  OBVIOUS
<1>2. \A i \in 1..2 : Append(<<a>>, b)[i] = <<a, b>>[i]
  OBVIOUS
<1> QED
  BY <1>1, <1>2, SeqEqual

\* Appending to a sequence of two.
LEMMA AppendToTwo ==
  ASSUME NEW a, NEW b, NEW c
  PROVE  Append(<<a, b>>, c) = <<a, b, c>>
<1> DEFINE S == {a, b, c}
<1>1. /\ <<a, b>> \in Seq(S) /\ <<a, b, c>> \in Seq(S) /\ Append(<<a, b>>, c) \in Seq(S)
      /\ Len(Append(<<a, b>>, c)) = 3 /\ Len(<<a, b, c>>) = 3
  OBVIOUS
<1>2. \A i \in 1..3 : Append(<<a, b>>, c)[i] = <<a, b, c>>[i]
  OBVIOUS
<1> QED
  BY <1>1, <1>2, SeqEqual

\* Appending an edge's event to the story of its source gives its target's
LEMMA StoryGrows ==
  /\ Append(Story["pending"], "approved") = Story["approved"]
  /\ Append(Story["pending"], "expired") = Story["expired"]
  /\ Append(Story["pending"], "rejected") = Story["rejected"]
  /\ Append(Story["approved"], "execution_started") = Story["executing"]
  /\ Append(Story["executing"], "executed") = Story["executed"]
  /\ Story["absent"] = Story["pending"]
<1>1. /\ Story["pending"] = <<>> /\ Story["absent"] = <<>>
      /\ Story["approved"] = <<"approved">>
      /\ Story["expired"] = <<"expired">> /\ Story["rejected"] = <<"rejected">>
      /\ Story["executing"] = <<"approved", "execution_started">>
      /\ Story["executed"] = <<"approved", "execution_started", "executed">>
  BY DEF Story
<1>2. \A e : Append(<<>>, e) = <<e>>
  OBVIOUS
<1>3. Append(<<"approved">>, "execution_started") = <<"approved", "execution_started">>
  BY AppendToOne
<1>4. Append(<<"approved", "execution_started">>, "executed")
        = <<"approved", "execution_started", "executed">>
  BY AppendToTwo
<1> QED
  BY <1>1, <1>2, <1>3, <1>4

(***************************************************************************)
(* The audit trail of an action tells exactly how it reached its status.   *)
(***************************************************************************)
THEOREM TrailAlwaysTellsTheStory == Spec => []TrailTellsTheStory
<1>1. Init => TrailTellsTheStory
  BY DEF Init, TrailTellsTheStory, Story
<1>2. TypeOK /\ TrailTellsTheStory /\ [Next]_vars => TrailTellsTheStory'
  <2> SUFFICES ASSUME TypeOK, TrailTellsTheStory, [Next]_vars, NEW k \in Key
               PROVE  trail'[k] = Story[status'[k]]
    BY DEF TrailTellsTheStory
  <2>1. Legal(k)
    BY StepsAreLegal
  <2>2. trail[k] = Story[status[k]]
    BY DEF TrailTellsTheStory
  <2> QED
    BY <2>1, <2>2, StoryGrows DEF Legal, Stays, Edge
<1> QED
  BY <1>1, <1>2, TypeCorrect, PTL DEF Spec

(***************************************************************************)
(* An action still pending when its time is over can be approved by a      *)
(* request that had begun in time, and by no other.                        *)
(***************************************************************************)
LEMMA NoLateBeginning ==
  ASSUME TypeOK, [Next]_vars, NEW k \in Key, overdue[k], InTime(k)'
  PROVE  InTime(k)
<1>1. PICK c \in Approver : About[c] = k /\ rpc'[c] = "approve" /\ ~dated'[c]
  BY DEF InTime
<1>2. c \in Client /\ k \in Key
  BY DEF Client
<1>3. rpc[c] = "approve" /\ dated'[c] = dated[c]
  <2>1. ASSUME NEW d \in Client, BeginApproval(d) PROVE rpc[c] = "approve" /\ dated'[c] = dated[c]
    BY <1>1, <1>2, <2>1 DEF BeginApproval, TypeOK
  <2>2. ASSUME NEW d \in Client, Approve(d) PROVE rpc[c] = "approve" /\ dated'[c] = dated[c]
    BY <1>1, <1>2, <2>2 DEF Approve, Replied, Continues, TypeOK
  <2>3. ASSUME NEW d \in Client, Claim(d) \/ Complete(d) \/ Reject(d) \/ Again(d)
        PROVE  rpc[c] = "approve" /\ dated'[c] = dated[c]
    BY <1>1, <1>2, <2>3 DEF Claim, Complete, Reject, Again, Replied, Continues, TypeOK
  <2>4. ASSUME NEW d \in Client, Crash(d) PROVE rpc[c] = "approve" /\ dated'[c] = dated[c]
    BY <1>1, <1>2, <2>4 DEF Crash, Continues, TypeOK
  <2>5. ASSUME UNCHANGED <<rpc, dated>> PROVE rpc[c] = "approve" /\ dated'[c] = dated[c]
    BY <1>1, <2>5
  <2> QED
    BY <2>1, <2>2, <2>3, <2>4, <2>5 DEF Next, vars, ClientStep, Create, Told, Expire
<1> QED
  BY <1>1, <1>3 DEF InTime

\* NothingStartsLate: past its deadline a pending action is approved only by a
\* request that began before it.
THEOREM NothingEverStartsLate == Spec => NothingStartsLate
<1>1. TypeOK /\ [Next]_vars =>
        [\A k \in Key : overdue[k] /\ status[k] = "pending" /\ ~InTime(k) =>
           /\ status'[k] \in {"pending", "expired", "rejected"}
           /\ status'[k] = "pending" => ~InTime(k)']_vars
  BY StepsAreLegal, NoLateBeginning DEF Legal, Stays, Edge
<1> QED
  BY <1>1, TypeCorrect, PTL DEF Spec, NothingStartsLate

-----------------------------------------------------------------------------
(* What calls and clients were told                                        *)

(***************************************************************************)
(* All the calls with one key that were given an action were given the one *)
(* on record.                                                              *)
(***************************************************************************)
THEOREM AlwaysOneActionPerKey == Spec => []OneActionPerKey
<1>1. Init => OneActionPerKey
  BY CallType DEF Init, OneActionPerKey
<1>2. TypeOK /\ Named /\ OneActionPerKey /\ [Next]_vars => OneActionPerKey'
  <2> SUFFICES ASSUME TypeOK, Named, OneActionPerKey, [Next]_vars
               PROVE  OneActionPerKey'
    OBVIOUS
  <2>1. ASSUME NEW c \in Call, Create(c) PROVE OneActionPerKey'
    <3> DEFINE k == KeyOf[c]
    <3> DEFINE id == IF status[k] = "absent" THEN c ELSE actionId[k]
    <3>1. k \in Key
      BY KeyOfType
    <3>2. \A d \in Call : told[d] \in Call /\ KeyOf[d] = k => id = told[d] /\ id = actionId[k]
      BY <3>1 DEF OneActionPerKey
    <3>3. \/ told' = [told EXCEPT ![c] = "error"] /\ UNCHANGED <<status, actionId>>
          \/ /\ status' = [status EXCEPT ![k] = IF @ = "absent" THEN "pending" ELSE @]
             /\ actionId' = [actionId EXCEPT ![k] = id]
             /\ \E t \in {id, "error"} : told' = [told EXCEPT ![c] = t]
      BY <2>1, Zenon DEF Create, Told
    <3> HIDE DEF id
    <3>4. ASSUME told' = [told EXCEPT ![c] = "error"], UNCHANGED <<status, actionId>>
          PROVE  OneActionPerKey'
      BY <3>4, CallType DEF OneActionPerKey, TypeOK
    <3>5. ASSUME status' = [status EXCEPT ![k] = IF @ = "absent" THEN "pending" ELSE @],
                 actionId' = [actionId EXCEPT ![k] = id],
                 NEW t \in {id, "error"}, told' = [told EXCEPT ![c] = t]
          PROVE  OneActionPerKey'
      <4> SUFFICES ASSUME NEW d \in Call, told'[d] \in Call
                   PROVE  actionId'[KeyOf[d]] = told'[d] /\ status'[KeyOf[d]] # "absent"
        BY DEF OneActionPerKey
      <4>1. KeyOf[d] \in Key
        BY KeyOfType
      <4>2. \/ status'[KeyOf[d]] # "absent"
            \/ KeyOf[d] # k /\ status'[KeyOf[d]] = status[KeyOf[d]]
        BY <3>1, <3>5, <4>1 DEF TypeOK
      <4>3. CASE d = c
        <5>1. told'[d] = t
          BY <3>5, <4>3 DEF TypeOK
        <5>2. t = id
          BY <5>1, <3>5, CallType
        <5>3. actionId'[k] = id /\ status'[k] # "absent"
          BY <3>1, <3>5, <4>2, <4>3 DEF TypeOK
        <5> QED
          BY <4>3, <5>1, <5>2, <5>3
      <4>4. CASE d # c
        <5>1. told'[d] = told[d] /\ told[d] \in Call
          BY <3>5, <4>4 DEF TypeOK
        <5>2. CASE KeyOf[d] = k
          BY <3>1, <3>2, <3>5, <4>2, <5>1, <5>2 DEF TypeOK
        <5>3. CASE KeyOf[d] # k
          BY <3>1, <3>5, <4>1, <4>2, <5>1, <5>3 DEF TypeOK, OneActionPerKey
        <5> QED
          BY <5>2, <5>3
      <4> QED
        BY <4>3, <4>4
    <3> QED
      BY <3>3, <3>4, <3>5
  <2>2. ASSUME UNCHANGED <<told, actionId>> PROVE OneActionPerKey'
    <3>1. \A k \in Key : status[k] # "absent" => status'[k] # "absent"
      BY StepsAreLegal DEF Legal, Stays, Edge
    <3> QED
      BY <2>2, <3>1, KeyOfType DEF OneActionPerKey
  <2>3. (\E c \in Call : Create(c)) \/ UNCHANGED <<told, actionId>>
    BY DEF Next, vars, Expire, ClientStep, BeginApproval, Approve, Claim, Complete,
           Reject, Again, Crash
  <2> QED
    BY <2>1, <2>2, <2>3
<1> QED
  BY <1>1, <1>2, TypeCorrect, PTL DEF Spec

Settled == {"executed", "rejected", "expired"}

(***************************************************************************)
(* A client told of a settled action can rely on it.                       *)
(***************************************************************************)
THEOREM SettledAnswersAlwaysHold == Spec => []SettledAnswersHold
<1>1. Init => SettledAnswersHold
  BY DEF Init, SettledAnswersHold
<1>2. TypeOK /\ SettledAnswersHold /\ [Next]_vars => SettledAnswersHold'
  <2> SUFFICES ASSUME TypeOK, SettledAnswersHold, [Next]_vars, NEW c \in Client,
                      answer'[c] \in Settled
               PROVE  status'[About[c]] = answer'[c]
    BY DEF SettledAnswersHold, Settled
  <2>1. About[c] \in Key
    BY AboutType
  <2>2. status[About[c]] \in Settled => status'[About[c]] = status[About[c]]
    BY <2>1, StepsAreLegal DEF Legal, Stays, Edge, Settled
  <2>3. CASE answer'[c] = answer[c]
    BY <2>1, <2>2, <2>3 DEF SettledAnswersHold, Settled
  <2>4. ASSUME NEW d \in Client, Approve(d), answer' # answer
        PROVE  \E s \in {"error", "not_found", status'[About[d]]} : Replied(d, s)
    BY <2>4 DEF Approve, Continues
  <2>5. ASSUME NEW d \in Client, Claim(d), answer' # answer
        PROVE  Replied(d, "error") \/ Replied(d, status[About[d]])
    BY <2>5 DEF Claim, Continues
  <2>6. ASSUME NEW d \in Client, Complete(d) \/ Reject(d)
        PROVE  \E s \in {"error", "not_found", status'[About[d]]} : Replied(d, s)
    BY <2>6 DEF Complete, Reject
  <2>7. ASSUME NEW d \in Client, NEW s, Replied(d, s)
        PROVE  answer'[c] = answer[c] \/ (d = c /\ answer'[c] = s)
    BY <2>7 DEF Replied, TypeOK
  <2>8. ASSUME NEW d \in Client, ClientStep(d) \/ Crash(d), answer'[c] # answer[c]
        PROVE  status'[About[c]] = answer'[c]
    <3>1. ~BeginApproval(d) /\ ~Again(d) /\ ~Crash(d)
      BY <2>8 DEF BeginApproval, Again, Crash, Continues, TypeOK, Settled
    <3>2. CASE Approve(d)
      BY <2>4, <2>7, <2>8, <3>2 DEF Settled
    <3>3. CASE Claim(d)
      BY <2>2, <2>5, <2>7, <2>8, <3>3 DEF Settled
    <3>4. CASE Complete(d) \/ Reject(d)
      BY <2>6, <2>7, <2>8, <3>4 DEF Settled
    <3> QED
      BY <2>8, <3>1, <3>2, <3>3, <3>4 DEF ClientStep
  <2>9. (\E d \in Client : ClientStep(d) \/ Crash(d)) \/ answer' = answer
    BY DEF Next, vars, Create, Told, Expire
  <2> QED
    BY <2>3, <2>8, <2>9
<1> QED
  BY <1>1, <1>2, TypeCorrect, PTL DEF Spec
=============================================================================
