-------------------------- MODULE Alerting_proofs --------------------------
(***************************************************************************)
(* Proofs about Alerting for any polls, any rules of ALERT_POLICY and any  *)
(* facts.  What a poll wrote but has not committed was computed from the   *)
(* row as it still is, because the row has been locked since; the one      *)
(* exception is a rule that had no row to lock, which was read as healthy. *)
(***************************************************************************)
EXTENDS Alerting, TLAPS

-----------------------------------------------------------------------------
(* What the pure operators return                                          *)

\* Every rule is judged to be one of the three severities.
LEMMA JudgedType == ASSUME NEW r, NEW m PROVE Judged(r, m) \in Severity
BY DEF Judged, Severity

\* The rules walked are those of the policy, each at one place.
LEMMA RuleFacts ==
  /\ Len(Rules) \in Nat /\ DOMAIN Rules = 1..Len(Rules)
  /\ \A i \in 1..Len(Rules) : Rules[i] \in Rule
  /\ \A r \in Rule : \E i \in 1..Len(Rules) : Rules[i] = r
BY RulesType DEF Rule

\* A transition of a row is a row with an event, and its event tells how the
\* judged severity compares with the row's status.
LEMMA TransitionType ==
  ASSUME NEW r, NEW cur \in Row, NEW sev \in Severity, NEW now \in Nat
  PROVE  /\ Transition(r, cur, sev, now) \in Transitions
         /\ Transition(r, cur, sev, now).at = now
         /\ Transition(r, cur, sev, now).row.status = sev
         /\ Transition(r, cur, sev, now).row.stored
<1> DEFINE w == Transition(r, cur, sev, now)
<1>1. w.event \in Events \cup {"none"}
  BY DEF Transition, Written, Events, Triggers
<1>2. w.row \in Row
  BY DEF Transition, Written, Row
<1>3. w = [event |-> w.event, at |-> now, row |-> w.row]
  BY DEF Transition, Written
<1>4. w.row.status = sev /\ w.row.stored
  BY DEF Transition, Written
<1>5. QED
  BY <1>1, <1>2, <1>3, <1>4 DEF Transitions

\* The row no transaction ever stored, and the draft of no rule, are typed.
LEMMA NothingTyped ==
  /\ Healthy \in Row
  /\ NoDraft \in Transitions
  /\ NoMetrics \in Reading
BY DEF Healthy, Row, Severity, Never, NoDraft, Written, Triggers, Events, Transitions,
       NoMetrics, Reading

-----------------------------------------------------------------------------
(* Types, and how far a transaction has come                               *)

\* A poll between SELECT and upsert is at a rule
Progress == \A p \in Poller :
  /\ Len(buf[p]) <= Len(Rules)
  /\ pc[p] = "upsert" => Len(buf[p]) < Len(Rules)

TypeInv == TypeOK /\ Progress

\* The rule a transaction is at is one of the rules.
LEMMA CurrentRule ==
  ASSUME TypeOK, NEW p \in Poller, Len(buf[p]) < Len(Rules)
  PROVE  Current(p) \in Rule /\ Len(buf[p]) + 1 \in 1..Len(Rules)
<1>1. Len(buf[p]) \in Nat
  BY DEF TypeOK
<1>2. Len(buf[p]) + 1 \in 1..Len(Rules)
  BY <1>1, RuleFacts
<1>3. QED
  BY <1>2, RuleFacts DEF Current

\* The entry of a complete transaction for rule r is the one at r's place.
LEMMA WrittenAt ==
  ASSUME TypeOK, NEW p \in Poller, Len(buf[p]) = Len(Rules), NEW i \in 1..Len(Rules)
  PROVE  /\ WrittenFor(p, Rules[i]) = buf[p][i]
         /\ buf[p][i] \in Transitions
<1>1. (CHOOSE j \in DOMAIN Rules : Rules[j] = Rules[i]) = i
  BY RulesType, RuleFacts
<1>2. buf[p] \in Seq(Transitions) /\ i \in 1..Len(buf[p])
  BY DEF TypeOK
<1>3. WrittenFor(p, Rules[i]) = buf[p][i]
  BY <1>1 DEF WrittenFor
<1>4. buf[p][i] \in Transitions
  BY <1>2
<1>5. QED
  BY <1>3, <1>4

\* The bound on faults is kept, whether a statement fails or not.
LEMMA FaultType ==
  ASSUME TypeOK, UNCHANGED faults \/ Fault
  PROVE  faults' \in 0..MaxFaults
BY BoundsType DEF TypeOK, Fault

\* Releasing a transaction keeps the types of what it releases.
LEMMA ReleasedTypes ==
  ASSUME TypeInv, NEW p \in Poller, Released(p)
  PROVE  /\ facts' \in Facts /\ drifts' \in 0..MaxDrifts /\ clock' \in 0..MaxTime
         /\ rowLock' \in [Rule -> Poller \cup {NoPoller}]
         /\ pc' \in [Poller -> {"idle", "audit", "select", "upsert"}]
         /\ reading' \in [Poller -> Reading]
         /\ buf' \in [Poller -> Seq(Transitions)]
         /\ draft' \in [Poller -> Transitions]
         /\ Progress'
<1>1. /\ facts' \in Facts /\ drifts' \in 0..MaxDrifts /\ clock' \in 0..MaxTime
      /\ rowLock' \in [Rule -> Poller \cup {NoPoller}]
      /\ pc' \in [Poller -> {"idle", "audit", "select", "upsert"}]
      /\ pc'[p] = "idle" /\ \A q \in Poller \ {p} : pc'[q] = pc[q]
  BY DEF Released, TypeInv, TypeOK, world
<1>2. reading' \in [Poller -> Reading]
  BY NothingTyped DEF Released, TypeInv, TypeOK
<1>3. draft' \in [Poller -> Transitions]
  BY NothingTyped DEF Released, TypeInv, TypeOK
<1>4. /\ buf' \in [Poller -> Seq(Transitions)]
      /\ buf'[p] = <<>> /\ \A q \in Poller \ {p} : buf'[q] = buf[q]
  BY DEF Released, TypeInv, TypeOK
<1>5. Progress'
  <2>1. Len(buf'[p]) = 0 /\ Len(Rules) \in Nat
    BY <1>4, RuleFacts
  <2>2. Len(buf'[p]) <= Len(Rules) /\ pc'[p] # "upsert"
    BY <1>1, <2>1
  <2>3. ASSUME NEW q \in Poller \ {p}
        PROVE  Len(buf'[q]) <= Len(Rules) /\ (pc'[q] = "upsert" => Len(buf'[q]) < Len(Rules))
    BY <1>1, <1>4 DEF TypeInv, Progress
  <2>4. QED
    BY <2>2, <2>3 DEF Progress
<1>6. QED
  BY <1>1, <1>2, <1>3, <1>4, <1>5

\* A rolled back transaction keeps the types.
LEMMA AbortTypes ==
  ASSUME TypeInv, NEW p \in Poller, Abort(p)
  PROVE  TypeInv'
<1>1. faults' \in 0..MaxFaults
  BY BoundsType DEF Abort, Fault, TypeInv, TypeOK
<1>2. Released(p) /\ UNCHANGED <<alert, log>>
  BY DEF Abort
<1>3. QED
  BY <1>1, <1>2, ReleasedTypes DEF TypeInv, TypeOK

\* A committed transaction keeps the types.
LEMMA CommitTypes ==
  ASSUME TypeInv, NEW p \in Poller, Commit(p)
  PROVE  TypeInv'
<1>1. \A r \in Rule : WrittenFor(p, r) \in Transitions
  <2>1. Len(buf[p]) = Len(Rules)
    BY DEF Commit
  <2>2. QED
    BY <2>1, RuleFacts, WrittenAt DEF TypeInv
<1>2. alert' \in [Rule -> Row]
  BY <1>1 DEF Commit, Transitions
<1>3. log' \in [Rule -> Seq(LogEntry)]
  <2>1. ASSUME NEW r \in Rule, WrittenFor(p, r).event # "none"
        PROVE  [event |-> WrittenFor(p, r).event, at |-> WrittenFor(p, r).at,
                status |-> WrittenFor(p, r).row.status] \in LogEntry
    BY <1>1, <2>1 DEF Transitions, LogEntry, Row
  <2>2. \A r \in Rule : log[r] \in Seq(LogEntry)
    BY DEF TypeInv, TypeOK
  <2>3. log' = [r \in Rule |->
                  IF WrittenFor(p, r).event = "none" THEN log[r]
                  ELSE Append(log[r], [event |-> WrittenFor(p, r).event,
                                       at |-> WrittenFor(p, r).at,
                                       status |-> WrittenFor(p, r).row.status])]
    BY DEF Commit
  <2>4. QED
    BY <2>1, <2>2, <2>3
<1>4. Released(p) /\ faults' = faults
  BY DEF Commit
<1>5. QED
  BY <1>2, <1>3, <1>4, ReleasedTypes DEF TypeInv, TypeOK

\* Every step keeps the types.
LEMMA NextTypeInv == TypeInv /\ [Next]_vars => TypeInv'
<1> SUFFICES ASSUME TypeInv, [Next]_vars PROVE TypeInv'
  OBVIOUS
<1>1. CASE Drift \/ Tick
  BY <1>1, BoundsType DEF Drift, Tick, TypeInv, TypeOK, Progress
<1>2. ASSUME NEW p \in Poller, PollStep(p) \/ Abort(p) PROVE TypeInv'
  <2>1. CASE ReadMetrics(p)
    <3>1. WithService(facts) \in Reading
      BY FactsType DEF TypeInv, TypeOK, WithService, Reading
    <3>2. reading' \in [Poller -> Reading] /\ faults' \in 0..MaxFaults
      BY <2>1, <3>1, NothingTyped, FaultType DEF ReadMetrics, TypeInv, TypeOK
    <3>3. pc' \in [Poller -> {"idle", "audit", "select", "upsert"}] /\ Progress'
      BY <2>1 DEF ReadMetrics, TypeInv, TypeOK, Progress
    <3>4. QED
      BY <2>1, <3>2, <3>3 DEF ReadMetrics, TypeInv, TypeOK, world
  <2>2. CASE VerifyAudit(p)
    <3>1. facts.auditOk \in BOOLEAN
      BY FactsType DEF TypeInv, TypeOK
    <3>2. ASSUME NEW ok \in BOOLEAN
          PROVE  [reading EXCEPT ![p].auditOk = ok] \in [Poller -> Reading]
      <4>1. reading[p] \in Reading
        BY DEF TypeInv, TypeOK
      <4>2. [reading[p] EXCEPT !.auditOk = ok] \in Reading
        BY <4>1 DEF Reading
      <4>3. QED
        BY <4>2 DEF TypeInv, TypeOK
    <3>3. reading' \in [Poller -> Reading] /\ faults' \in 0..MaxFaults
      BY <2>2, <3>1, <3>2, FaultType DEF VerifyAudit, TypeInv
    <3>4. pc' \in [Poller -> {"idle", "audit", "select", "upsert"}] /\ Progress'
      BY <2>2 DEF VerifyAudit, TypeInv, TypeOK, Progress
    <3>5. QED
      BY <2>2, <3>3, <3>4 DEF VerifyAudit, TypeInv, TypeOK, world
  <2>3. CASE Select(p)
    <3>1. Current(p) \in Rule /\ clock \in Nat
      BY <2>3, CurrentRule, BoundsType DEF Select, TypeInv, TypeOK
    <3>2. Transition(Current(p), alert[Current(p)], Judged(Current(p), reading[p]), clock)
            \in Transitions
      BY <3>1, JudgedType, TransitionType DEF TypeInv, TypeOK
    <3>3. draft' \in [Poller -> Transitions]
      BY <2>3, <3>2 DEF Select, TypeInv, TypeOK
    <3>4. /\ rowLock' \in [Rule -> Poller \cup {NoPoller}]
          /\ pc' \in [Poller -> {"idle", "audit", "select", "upsert"}]
          /\ Progress'
      BY <2>3, <3>1 DEF Select, TypeInv, TypeOK, Progress
    <3>5. QED
      BY <2>3, <3>3, <3>4 DEF Select, TypeInv, TypeOK, world
  <2>4. CASE Upsert(p)
    <3>1. Len(buf[p]) < Len(Rules) /\ Current(p) \in Rule
      BY <2>4, CurrentRule DEF Upsert, TypeInv, Progress
    <3>2. /\ rowLock' \in [Rule -> Poller \cup {NoPoller}]
          /\ pc' \in [Poller -> {"idle", "audit", "select", "upsert"}]
          /\ pc'[p] = "select" /\ \A q \in Poller \ {p} : pc'[q] = pc[q]
      BY <2>4, <3>1 DEF Upsert, TypeInv, TypeOK
    <3>3. draft' \in [Poller -> Transitions]
      BY <2>4, NothingTyped DEF Upsert, TypeInv, TypeOK
    <3>4. buf \in [Poller -> Seq(Transitions)] /\ draft[p] \in Transitions
      BY DEF TypeInv, TypeOK
    <3>5. buf' = [buf EXCEPT ![p] = Append(buf[p], draft[p])]
      BY <2>4 DEF Upsert
    <3>6. /\ buf' \in [Poller -> Seq(Transitions)]
          /\ Len(buf'[p]) = Len(buf[p]) + 1
          /\ \A q \in Poller \ {p} : buf'[q] = buf[q]
      BY <3>4, <3>5
    <3>7. Progress'
      <4>1. Len(buf'[p]) <= Len(Rules)
        BY <3>1, <3>4, <3>6, RuleFacts
      <4>2. QED
        BY <3>2, <3>6, <4>1 DEF TypeInv, Progress
    <3>8. QED
      BY <2>4, <3>2, <3>3, <3>6, <3>7 DEF Upsert, TypeInv, TypeOK, world
  <2>5. CASE Commit(p)
    BY <2>5, CommitTypes
  <2>6. CASE Abort(p)
    BY <2>6, AbortTypes
  <2>7. QED
    BY <1>2, <2>1, <2>2, <2>3, <2>4, <2>5, <2>6 DEF PollStep
<1>3. CASE UNCHANGED vars
  BY <1>3 DEF vars, TypeInv, TypeOK, Progress
<1>4. QED
  BY <1>1, <1>2, <1>3 DEF Next

\* The types hold, and a transaction never runs past its rules.
LEMMA TypeInvariant == Spec => []TypeInv
<1>1. Init => TypeInv
  <2> SUFFICES ASSUME Init PROVE TypeInv
    OBVIOUS
  <2>1. alert \in [Rule -> Row]
    BY StoredType DEF Init, Healthy, Row, Severity, Never
  <2>2. reading \in [Poller -> Reading] /\ draft \in [Poller -> Transitions]
    BY NothingTyped DEF Init
  <2>3. Progress
    <3>1. \A p \in Poller : buf[p] = <<>> /\ pc[p] = "idle"
      BY DEF Init
    <3>2. Len(<<>>) <= Len(Rules)
      BY RuleFacts
    <3>3. QED
      BY <3>1, <3>2 DEF Progress
  <2>4. QED
    BY <2>1, <2>2, <2>3, BoundsType DEF Init, TypeInv, TypeOK
<1>2. QED
  BY <1>1, NextTypeInv, PTL DEF Spec

\* Every variable keeps its type, for any polls, rules and facts.
THEOREM TypeCorrect == Spec => []TypeOK
<1>1. TypeInv => TypeOK
  BY DEF TypeInv
<1>2. QED
  BY <1>1, TypeInvariant, PTL

-----------------------------------------------------------------------------
(* What an uncommitted transition was computed from                        *)

\* Transition w of rule r was computed from the row that is stored, if the lock on
\* it has been held since, or the rule had no row and was read as healthy
Based(w, r, row, held) == \E cur \in {row, Healthy} :
  /\ \/ cur = row /\ held
     \/ cur = Healthy /\ ~Stored
  /\ w = Transition(r, cur, w.row.status, w.at)

Computed == \A p \in Poller :
  /\ \A i \in 1..Len(buf[p]) :
       rowLock[Rules[i]] = p /\ Based(buf[p][i], Rules[i], alert[Rules[i]], TRUE)
  /\ pc[p] = "upsert" =>
       Based(draft[p], Current(p), alert[Current(p)], rowLock[Current(p)] = p)

\* A rule without a row is as healthy as it was read
RowsStored == \A r \in Rule :
  alert[r].stored \/ (~Stored /\ alert[r] = Healthy)

\* The events of a rule form episodes, repetitions are spaced, and the row is at
\* the end of the last episode
InEpisodes(r, events, row) ==
  /\ \A n \in 1..Len(events) : events[n].event = "alert_opened" <=> ~OpenAfter(events, n - 1)
  /\ OpenAfter(events, Len(events)) <=> row.status # "healthy"
  /\ OpenAfter(events, Len(events)) => row.triggered = events[Len(events)].at
  /\ \A n \in 1..Len(events) :
       events[n].event = "alert_suppressed"
         => events[n].at - events[n - 1].at >= Policy[r].cooldown

LogInv == Stored => \A r \in Rule : InEpisodes(r, log[r], alert[r])

AlertInv == Computed /\ RowsStored /\ LogInv

-----------------------------------------------------------------------------
(* One transition of one rule                                              *)

\* The event of a transition tells how severity and status compare.
LEMMA TransitionEvent ==
  ASSUME NEW r, NEW cur \in Row, NEW sev \in Severity, NEW now \in Nat,
         NEW w, w = Transition(r, cur, sev, now)
  PROVE  /\ w.event = "alert_opened" <=> sev # "healthy" /\ cur.status = "healthy"
         /\ w.event = "alert_recovered" <=> sev = "healthy" /\ cur.status # "healthy"
         /\ w.event = "none" => (sev = "healthy" <=> cur.status = "healthy")
                                /\ w.row.triggered = cur.triggered
         /\ sev = "healthy" /\ cur.status = "healthy" => w.event = "none"
         /\ w.event = "alert_suppressed" => cur.status # "healthy" /\ CooledDown(r, cur, now)
         /\ w.event \in Triggers => w.row.triggered = now
         /\ Order[sev] > Order[cur.status] => w.event # "none"
<1>1. cur.status \in Severity
  BY DEF Row
<1>2. /\ w.event = CASE sev = "healthy" -> IF cur.status = "healthy" THEN "none"
                                                ELSE "alert_recovered"
                      [] sev # "healthy" /\ cur.status = "healthy" -> "alert_opened"
                      [] OTHER -> IF Order[sev] > Order[cur.status] THEN "alert_escalated"
                                  ELSE IF CooledDown(r, cur, now) THEN "alert_suppressed"
                                  ELSE "none"
      /\ w.row.triggered = IF w.event \in Triggers THEN now ELSE cur.triggered
  BY DEF Transition, Written
<1>3. CASE sev = "healthy"
  BY <1>1, <1>2, <1>3 DEF Triggers, Order, Severity
<1>4. CASE sev # "healthy" /\ cur.status = "healthy"
  BY <1>2, <1>4 DEF Triggers
<1>5. CASE sev # "healthy" /\ cur.status # "healthy"
  BY <1>2, <1>5 DEF Triggers
<1>6. QED
  BY <1>3, <1>4, <1>5

\* A transition computed from the row at the end of the episodes continues them.
LEMMA EpisodeStep ==
  ASSUME NEW r \in Rule, NEW L \in Seq(LogEntry), NEW cur \in Row, InEpisodes(r, L, cur),
         NEW sev \in Severity, NEW now \in Nat, NEW w, w = Transition(r, cur, sev, now)
  PROVE  InEpisodes(r, IF w.event = "none" THEN L
                       ELSE Append(L, [event |-> w.event, at |-> w.at,
                                       status |-> w.row.status]), w.row)
<1> DEFINE entry == [event |-> w.event, at |-> w.at, status |-> w.row.status]
           M == Append(L, entry)
<1>1. /\ w \in Transitions /\ w.at = now /\ w.row.status = sev
      /\ w.event \in Events \cup {"none"}
  BY TransitionType DEF Transitions
<1>2. /\ w.event = "alert_opened" <=> sev # "healthy" /\ cur.status = "healthy"
      /\ w.event = "alert_recovered" <=> sev = "healthy" /\ cur.status # "healthy"
      /\ w.event = "none" => (sev = "healthy" <=> cur.status = "healthy")
                             /\ w.row.triggered = cur.triggered
      /\ sev = "healthy" /\ cur.status = "healthy" => w.event = "none"
      /\ w.event = "alert_suppressed" => cur.status # "healthy" /\ CooledDown(r, cur, now)
      /\ w.event \in Triggers => w.row.triggered = now
  BY TransitionEvent
<1>3. CASE w.event = "none"
  BY <1>1, <1>2, <1>3 DEF InEpisodes
<1>4. CASE w.event # "none"
  <2>1. entry \in LogEntry
    BY <1>1, <1>4 DEF Transitions, LogEntry, Row
  <2>2. /\ Len(L) \in Nat /\ Len(M) = Len(L) + 1
        /\ \A n \in 1..Len(L) : M[n] = L[n]
        /\ M[Len(L) + 1] = entry
    BY <2>1
  <2>3. \A n \in 0..Len(L) : OpenAfter(M, n) <=> OpenAfter(L, n)
    BY <2>2 DEF OpenAfter
  <2>4. OpenAfter(M, Len(M)) <=> w.event # "alert_recovered"
    BY <2>2 DEF OpenAfter
  <2>5. ASSUME NEW n \in 1..Len(M)
        PROVE  M[n].event = "alert_opened" <=> ~OpenAfter(M, n - 1)
    <3>1. CASE n \in 1..Len(L)
      BY <2>2, <2>3, <3>1 DEF InEpisodes
    <3>2. CASE n = Len(L) + 1
      <4>1. OpenAfter(M, n - 1) <=> cur.status # "healthy"
        BY <2>2, <2>3, <3>2 DEF InEpisodes
      <4>2. w.event \in Events
        BY <1>1, <1>4
      <4>3. (w.event = "alert_opened") <=> (cur.status = "healthy")
        BY <1>2, <1>4
      <4>4. QED
        BY <2>2, <3>2, <4>1, <4>3
    <3>3. QED
      BY <2>2, <3>1, <3>2
  <2>6. OpenAfter(M, Len(M)) <=> w.row.status # "healthy"
    BY <1>1, <1>2, <1>4, <2>4
  <2>7. OpenAfter(M, Len(M)) => w.row.triggered = M[Len(M)].at
    BY <1>1, <1>2, <1>4, <2>2, <2>4 DEF Events
  <2>8. ASSUME NEW n \in 1..Len(M), M[n].event = "alert_suppressed"
        PROVE  M[n].at - M[n - 1].at >= Policy[r].cooldown
    <3>1. CASE n \in 1..Len(L)
      <4>1. L[n].event = "alert_suppressed"
        BY <2>2, <2>8, <3>1
      <4>2. L[n].at - L[n - 1].at >= Policy[r].cooldown
        BY <3>1, <4>1 DEF InEpisodes
      <4>3. n - 1 \in 1..Len(L)
        BY <3>1, <4>1 DEF InEpisodes, OpenAfter
      <4>4. QED
        BY <2>2, <3>1, <4>2, <4>3
    <3>2. CASE n = Len(L) + 1
      <4>1. w.event = "alert_suppressed"
        BY <2>2, <2>8, <3>2
      <4>2. cur.status # "healthy" /\ CooledDown(r, cur, now)
        BY <1>2, <4>1
      <4>3. Len(L) \in 1..Len(L) /\ cur.triggered = L[Len(L)].at
        BY <2>2, <4>2 DEF InEpisodes, OpenAfter
      <4>4. L[Len(L)].at \in Nat
        <5>1. L[Len(L)] \in LogEntry
          BY <4>3
        <5>2. QED
          BY <5>1 DEF LogEntry
      <4>5. now - L[Len(L)].at >= Policy[r].cooldown
        BY <4>2, <4>3, <4>4 DEF CooledDown, Never
      <4>6. QED
        BY <1>1, <2>2, <3>2, <4>3, <4>5
    <3>3. n \in 1..Len(L) \/ n = Len(L) + 1
      BY <2>2
    <3>4. QED
      BY <3>1, <3>2, <3>3
  <2>9. QED
    BY <1>4, <2>5, <2>6, <2>7, <2>8 DEF InEpisodes
<1>5. QED
  BY <1>3, <1>4

-----------------------------------------------------------------------------
(* Every step keeps the basis of what is not committed                     *)

\* A lock taken, or kept, does not take away the basis of a transition.
LEMMA BasedMore ==
  ASSUME NEW w, NEW r, NEW row, NEW held, Based(w, r, row, held), NEW more, held => more
  PROVE  Based(w, r, row, more)
BY DEF Based

\* A step that writes nothing and takes no lock from anyone keeps what others
\* computed; p's draft is for the step to justify.
LEMMA ComputedKept ==
  ASSUME TypeInv, AlertInv, UNCHANGED <<alert, log, buf>>, NEW p \in Poller,
         \A q \in Poller, r \in Rule : rowLock[r] = q => rowLock'[r] = q,
         \A q \in Poller \ {p} : draft'[q] = draft[q] /\ pc'[q] = pc[q],
         pc'[p] = "upsert" =>
           Based(draft'[p], Current(p), alert[Current(p)], rowLock'[Current(p)] = p)
  PROVE  AlertInv'
<1>1. \A q \in Poller : Current(q)' = Current(q)
  BY DEF Current
<1>2. ASSUME NEW q \in Poller, NEW i \in 1..Len(buf[q])
      PROVE  rowLock'[Rules[i]] = q /\ Based(buf[q][i], Rules[i], alert[Rules[i]], TRUE)
  <2>1. i \in 1..Len(Rules)
    BY RuleFacts DEF TypeInv, TypeOK, Progress
  <2>2. Rules[i] \in Rule
    BY <2>1, RuleFacts
  <2>3. QED
    BY <2>2 DEF AlertInv, Computed
<1>3. ASSUME NEW q \in Poller, pc'[q] = "upsert"
      PROVE  Based(draft'[q], Current(q), alert[Current(q)], rowLock'[Current(q)] = q)
  <2>1. CASE q = p
    BY <1>3, <2>1
  <2>2. CASE q # p
    <3>1. draft'[q] = draft[q] /\ pc[q] = "upsert"
      BY <1>3, <2>2
    <3>2. Current(q) \in Rule
      BY <3>1, CurrentRule DEF TypeInv, Progress
    <3>3. Based(draft[q], Current(q), alert[Current(q)], rowLock[Current(q)] = q)
      BY <3>1 DEF AlertInv, Computed
    <3>4. QED
      BY <3>1, <3>2, <3>3, BasedMore
  <2>3. QED
    BY <2>1, <2>2
<1>4. Computed'
  BY <1>1, <1>2, <1>3 DEF Computed
<1>5. RowsStored' /\ LogInv'
  BY DEF AlertInv, RowsStored, LogInv
<1>6. QED
  BY <1>4, <1>5 DEF AlertInv

\* SELECT ... FOR UPDATE computes from the row it locks, or from no row.
LEMMA SelectComputed ==
  ASSUME TypeInv, AlertInv, NEW p \in Poller, Select(p)
  PROVE  AlertInv'
<1> DEFINE r == Current(p)
           sev == Judged(r, reading[p])
           w == Transition(r, alert[r], sev, clock)
<1>1. /\ r \in Rule /\ clock \in Nat /\ alert[r] \in Row
      /\ UNCHANGED <<alert, log, buf>>
      /\ alert[r].stored => rowLock[r] \in {NoPoller, p}
      /\ rowLock' = IF alert[r].stored THEN [rowLock EXCEPT ![r] = p] ELSE rowLock
      /\ draft' = [draft EXCEPT ![p] = w]
      /\ pc' = [pc EXCEPT ![p] = "upsert"]
  BY CurrentRule, BoundsType DEF Select, TypeInv, TypeOK
<1>2. sev \in Severity
  BY JudgedType
<1>3. w.row.status = sev /\ w.at = clock
  BY <1>1, <1>2, TransitionType
<1>4. w = Transition(r, alert[r], w.row.status, w.at)
  BY <1>3
<1> HIDE DEF w, r, sev
<1>5. \A q \in Poller, x \in Rule : rowLock[x] = q => rowLock'[x] = q
  BY <1>1, NoPollerType DEF TypeInv, TypeOK
<1>6. Based(w, r, alert[r], rowLock'[r] = p)
  <2>1. alert[r].stored \/ (~Stored /\ alert[r] = Healthy)
    BY <1>1 DEF AlertInv, RowsStored
  <2>2. CASE alert[r].stored
    <3>1. rowLock'[r] = p
      BY <1>1, <2>2 DEF TypeInv, TypeOK
    <3>2. QED
      BY <1>4, <3>1 DEF Based
  <2>3. CASE ~Stored /\ alert[r] = Healthy
    BY <1>4, <2>3 DEF Based
  <2>4. QED
    BY <2>1, <2>2, <2>3
<1>7. draft'[p] = w /\ \A q \in Poller \ {p} : draft'[q] = draft[q] /\ pc'[q] = pc[q]
  BY <1>1 DEF TypeInv, TypeOK
<1>8. Based(draft'[p], Current(p), alert[Current(p)], rowLock'[Current(p)] = p)
  BY <1>6, <1>7 DEF r
<1>9. QED
  BY <1>1, <1>5, <1>7, <1>8, ComputedKept

\* The upsert takes the lock and writes what was computed.
LEMMA UpsertComputed ==
  ASSUME TypeInv, AlertInv, NEW p \in Poller, Upsert(p)
  PROVE  AlertInv'
<1> DEFINE r == Current(p)
<1>1. /\ Len(buf[p]) < Len(Rules) /\ r \in Rule /\ Len(buf[p]) \in Nat
      /\ pc[p] = "upsert" /\ rowLock[r] \in {NoPoller, p}
      /\ UNCHANGED <<alert, log>>
      /\ rowLock' = [rowLock EXCEPT ![r] = p]
      /\ buf' = [buf EXCEPT ![p] = Append(buf[p], draft[p])]
      /\ draft' = [draft EXCEPT ![p] = NoDraft]
      /\ pc' = [pc EXCEPT ![p] = "select"]
  BY CurrentRule DEF Upsert, TypeInv, TypeOK, Progress
<1>2. Based(draft[p], r, alert[r], TRUE)
  BY <1>1, BasedMore DEF AlertInv, Computed
<1>3. r = Rules[Len(buf[p]) + 1]
  BY DEF Current
<1> HIDE DEF r
<1>4. rowLock'[r] = p /\ \A q \in Poller, x \in Rule : rowLock[x] = q => rowLock'[x] = q
  BY <1>1, NoPollerType DEF TypeInv, TypeOK
<1>5. /\ buf'[p] = Append(buf[p], draft[p]) /\ pc'[p] = "select"
      /\ \A q \in Poller \ {p} : buf'[q] = buf[q] /\ draft'[q] = draft[q] /\ pc'[q] = pc[q]
  BY <1>1 DEF TypeInv, TypeOK
<1>6. ASSUME NEW q \in Poller, NEW i \in 1..Len(buf[q])
      PROVE  rowLock'[Rules[i]] = q /\ Based(buf[q][i], Rules[i], alert[Rules[i]], TRUE)
  <2>1. i \in 1..Len(Rules)
    BY RuleFacts DEF TypeInv, TypeOK, Progress
  <2>2. Rules[i] \in Rule
    BY <2>1, RuleFacts
  <2>3. QED
    BY <1>4, <2>2 DEF AlertInv, Computed
<1>7. ASSUME NEW i \in 1..Len(buf'[p])
      PROVE  rowLock'[Rules[i]] = p /\ Based(buf'[p][i], Rules[i], alert[Rules[i]], TRUE)
  <2>1. /\ buf[p] \in Seq(Transitions) /\ draft[p] \in Transitions
    BY DEF TypeInv, TypeOK
  <2>2. /\ Len(buf'[p]) = Len(buf[p]) + 1
        /\ \A j \in 1..Len(buf[p]) : buf'[p][j] = buf[p][j]
        /\ buf'[p][Len(buf[p]) + 1] = draft[p]
    BY <1>5, <2>1
  <2>3. CASE i \in 1..Len(buf[p])
    BY <1>6, <2>2, <2>3
  <2>4. CASE i = Len(buf[p]) + 1
    BY <1>2, <1>3, <1>4, <2>2, <2>4
  <2>5. i \in 1..Len(buf[p]) \/ i = Len(buf[p]) + 1
    BY <1>1, <2>2
  <2>6. QED
    BY <2>3, <2>4, <2>5
<1>8. ASSUME NEW q \in Poller, pc'[q] = "upsert"
      PROVE  Based(draft'[q], Current(q)', alert[Current(q)'], rowLock'[Current(q)'] = q)
  <2>1. q # p /\ draft'[q] = draft[q] /\ pc[q] = "upsert" /\ buf'[q] = buf[q]
    BY <1>5, <1>8
  <2>2. Current(q)' = Current(q) /\ Current(q) \in Rule
    BY <2>1, CurrentRule DEF TypeInv, Progress, Current
  <2>3. Based(draft[q], Current(q), alert[Current(q)], rowLock[Current(q)] = q)
    BY <2>1 DEF AlertInv, Computed
  <2>4. Based(draft[q], Current(q), alert[Current(q)], rowLock'[Current(q)] = q)
    BY <1>4, <2>2, <2>3, BasedMore
  <2>5. QED
    BY <2>1, <2>2, <2>4
<1>9. Computed'
  <2>1. ASSUME NEW q \in Poller, NEW i \in 1..Len(buf'[q])
        PROVE  rowLock'[Rules[i]] = q /\ Based(buf'[q][i], Rules[i], alert[Rules[i]], TRUE)
    BY <1>5, <1>6, <1>7, <2>1
  <2>2. QED
    BY <1>1, <1>8, <2>1 DEF Computed
<1>10. RowsStored' /\ LogInv'
  BY <1>1 DEF AlertInv, RowsStored, LogInv
<1>11. QED
  BY <1>9, <1>10 DEF AlertInv

\* The end of p's transaction leaves the others' basis, as long as it changes no
\* row but those p has locked.
LEMMA ReleasedComputed ==
  ASSUME TypeInv, AlertInv, NEW p \in Poller, Released(p),
         \A r \in Rule : alert'[r] = alert[r] \/ rowLock[r] = p
  PROVE  Computed'
<1>1. /\ buf'[p] = <<>> /\ pc'[p] = "idle"
      /\ \A q \in Poller \ {p} : buf'[q] = buf[q] /\ draft'[q] = draft[q] /\ pc'[q] = pc[q]
      /\ \A q \in Poller \ {p}, r \in Rule : rowLock[r] = q => rowLock'[r] = q
  BY DEF Released, TypeInv, TypeOK
<1>2. ASSUME NEW q \in Poller \ {p}, NEW i \in 1..Len(buf[q])
      PROVE  rowLock'[Rules[i]] = q /\ Based(buf[q][i], Rules[i], alert'[Rules[i]], TRUE)
  <2>1. i \in 1..Len(Rules)
    BY RuleFacts DEF TypeInv, TypeOK, Progress
  <2>2. Rules[i] \in Rule
    BY <2>1, RuleFacts
  <2>3. rowLock[Rules[i]] = q /\ Based(buf[q][i], Rules[i], alert[Rules[i]], TRUE)
    BY DEF AlertInv, Computed
  <2>4. alert'[Rules[i]] = alert[Rules[i]]
    BY <2>2, <2>3
  <2>5. QED
    BY <1>1, <2>2, <2>3, <2>4
<1>3. ASSUME NEW q \in Poller \ {p}, pc[q] = "upsert"
      PROVE  Based(draft[q], Current(q), alert'[Current(q)], rowLock'[Current(q)] = q)
  <2>1. Current(q) \in Rule
    BY <1>3, CurrentRule DEF TypeInv, Progress
  <2>2. Based(draft[q], Current(q), alert[Current(q)], rowLock[Current(q)] = q)
    BY <1>3 DEF AlertInv, Computed
  <2>3. CASE rowLock[Current(q)] = q
    <3>1. alert'[Current(q)] = alert[Current(q)] /\ rowLock'[Current(q)] = q
      BY <1>1, <2>1, <2>3
    <3>2. QED
      BY <2>2, <3>1, BasedMore
  <2>4. CASE rowLock[Current(q)] # q
    BY <2>2, <2>4 DEF Based
  <2>5. QED
    BY <2>3, <2>4
<1>4. \A q \in Poller \ {p} : Current(q)' = Current(q)
  BY <1>1 DEF Current
<1>5. ASSUME NEW q \in Poller \ {p}
      PROVE  /\ \A i \in 1..Len(buf'[q]) :
                  rowLock'[Rules[i]] = q /\ Based(buf'[q][i], Rules[i], alert'[Rules[i]], TRUE)
             /\ pc'[q] = "upsert" =>
                  Based(draft'[q], Current(q)', alert'[Current(q)'], rowLock'[Current(q)'] = q)
  BY <1>1, <1>2, <1>3, <1>4
<1>6. 1..Len(buf'[p]) = {} /\ pc'[p] # "upsert"
  BY <1>1
<1>7. ASSUME NEW q \in Poller
      PROVE  /\ \A i \in 1..Len(buf'[q]) :
                  rowLock'[Rules[i]] = q /\ Based(buf'[q][i], Rules[i], alert'[Rules[i]], TRUE)
             /\ pc'[q] = "upsert" =>
                  Based(draft'[q], Current(q)', alert'[Current(q)'], rowLock'[Current(q)'] = q)
  <2>1. CASE q = p
    BY <1>6, <2>1
  <2>2. CASE q # p
    BY <1>5, <2>2
  <2>3. QED
    BY <2>1, <2>2
<1>8. QED
  BY <1>7 DEF Computed

\* What a commit writes for a rule is a transition of the row it replaces, which
\* it has locked, or of the healthy row it read when there was none.
LEMMA CommitWrites ==
  ASSUME TypeInv, AlertInv, NEW p \in Poller, Commit(p), NEW r \in Rule
  PROVE  \E cur \in Row, sev \in Severity, at \in Nat, w \in Transitions :
           /\ cur = alert[r] \/ (cur = Healthy /\ ~Stored)
           /\ w = Transition(r, cur, sev, at)
           /\ rowLock[r] = p /\ alert'[r] = w.row
           /\ log'[r] = IF w.event = "none" THEN log[r]
                        ELSE Append(log[r], [event |-> w.event, at |-> w.at,
                                             status |-> w.row.status])
<1>1. PICK i \in 1..Len(Rules) : Rules[i] = r
  BY RuleFacts
<1>2. Len(buf[p]) = Len(Rules)
  BY DEF Commit
<1> DEFINE w == buf[p][i]
<1>3. w = WrittenFor(p, r) /\ w \in Transitions
  BY <1>1, <1>2, WrittenAt DEF TypeInv
<1>4. rowLock[r] = p /\ Based(w, r, alert[r], TRUE)
  BY <1>1, <1>2 DEF AlertInv, Computed
<1> HIDE DEF w
<1>5. PICK cur \in {alert[r], Healthy} :
        /\ cur = alert[r] \/ (cur = Healthy /\ ~Stored)
        /\ w = Transition(r, cur, w.row.status, w.at)
  BY <1>4 DEF Based
<1>6. cur \in Row
  BY NothingTyped DEF TypeInv, TypeOK
<1>7. w.row.status \in Severity /\ w.at \in Nat
  BY <1>3 DEF Transitions, Row
<1>8. alert'[r] = w.row
  BY <1>3 DEF Commit
<1>9. log'[r] = IF w.event = "none" THEN log[r]
                ELSE Append(log[r], [event |-> w.event, at |-> w.at, status |-> w.row.status])
  BY <1>3 DEF Commit
<1>10. QED
  BY <1>3, <1>4, <1>5, <1>6, <1>7, <1>8, <1>9

\* A commit ends on the episodes its transitions continue.
LEMMA CommitComputed ==
  ASSUME TypeInv, AlertInv, NEW p \in Poller, Commit(p)
  PROVE  AlertInv'
<1>1. Released(p)
  BY DEF Commit
<1>2. Computed'
  BY <1>1, CommitWrites, ReleasedComputed
<1>3. RowsStored'
  <2> SUFFICES ASSUME NEW r \in Rule PROVE alert'[r].stored
    BY DEF RowsStored
  <2>1. PICK cur \in Row, sev \in Severity, at \in Nat, w \in Transitions :
          w = Transition(r, cur, sev, at) /\ alert'[r] = w.row
    BY CommitWrites
  <2>2. QED
    BY <2>1, TransitionType
<1>4. LogInv'
  <2> SUFFICES ASSUME Stored, NEW r \in Rule PROVE InEpisodes(r, log'[r], alert'[r])
    BY DEF LogInv
  <2>1. PICK cur \in Row, sev \in Severity, at \in Nat, w \in Transitions :
          /\ cur = alert[r]
          /\ w = Transition(r, cur, sev, at)
          /\ alert'[r] = w.row
          /\ log'[r] = IF w.event = "none" THEN log[r]
                       ELSE Append(log[r], [event |-> w.event, at |-> w.at,
                                            status |-> w.row.status])
    BY CommitWrites
  <2>2. InEpisodes(r, log[r], cur) /\ log[r] \in Seq(LogEntry)
    BY <2>1 DEF AlertInv, LogInv, TypeInv, TypeOK
  <2>3. QED
    BY <2>1, <2>2, EpisodeStep
<1>5. QED
  BY <1>2, <1>3, <1>4 DEF AlertInv

\* Every step keeps the invariant.
LEMMA NextAlertInv == TypeInv /\ AlertInv /\ [Next]_vars => AlertInv'
<1> SUFFICES ASSUME TypeInv, AlertInv, [Next]_vars PROVE AlertInv'
  OBVIOUS
<1>1. ASSUME UNCHANGED <<alert, log, rowLock, buf, draft>>,
             \A p \in Poller : pc'[p] = "upsert" => pc[p] = "upsert"
      PROVE  AlertInv'
  <2>1. Computed'
    BY <1>1 DEF AlertInv, Computed, Current
  <2>2. QED
    BY <1>1, <2>1 DEF AlertInv, RowsStored, LogInv
<1>2. CASE Drift \/ Tick \/ UNCHANGED vars
  BY <1>1, <1>2 DEF Drift, Tick, vars
<1>3. ASSUME NEW p \in Poller, PollStep(p) \/ Abort(p) PROVE AlertInv'
  <2>1. CASE ReadMetrics(p) \/ VerifyAudit(p)
    <3>1. \A q \in Poller : pc'[q] = "upsert" => pc[q] = "upsert"
      BY <2>1 DEF ReadMetrics, VerifyAudit, TypeInv, TypeOK
    <3>2. UNCHANGED <<alert, log, rowLock, buf, draft>>
      BY <2>1 DEF ReadMetrics, VerifyAudit
    <3>3. QED
      BY <1>1, <3>1, <3>2
  <2>2. CASE Select(p)
    BY <2>2, SelectComputed
  <2>3. CASE Upsert(p)
    BY <2>3, UpsertComputed
  <2>4. CASE Commit(p)
    BY <2>4, CommitComputed
  <2>5. CASE Abort(p)
    <3>1. Released(p) /\ UNCHANGED <<alert, log>>
      BY <2>5 DEF Abort
    <3>2. Computed'
      BY <3>1, ReleasedComputed
    <3>3. QED
      BY <3>1, <3>2 DEF AlertInv, RowsStored, LogInv
  <2>6. QED
    BY <1>3, <2>1, <2>2, <2>3, <2>4, <2>5 DEF PollStep
<1>4. QED
  BY <1>2, <1>3 DEF Next

\* The invariant holds in every reachable state.
LEMMA AlertInvariant == Spec => []AlertInv
<1>1. Init => AlertInv
  <2> SUFFICES ASSUME Init PROVE AlertInv
    OBVIOUS
  <2>1. \A p \in Poller : 1..Len(buf[p]) = {} /\ pc[p] # "upsert"
    <3>1. \A p \in Poller : buf[p] = <<>> /\ pc[p] = "idle"
      BY DEF Init
    <3>2. Len(<<>>) = 0 /\ 1..0 = {}
      OBVIOUS
    <3>3. QED
      BY <3>1, <3>2
  <2>2. Computed
    BY <2>1 DEF Computed
  <2>3. \A r \in Rule : /\ log[r] = <<>> /\ alert[r] = [Healthy EXCEPT !.stored = Stored]
    BY DEF Init
  <2>4. RowsStored
    BY <2>3, StoredType DEF RowsStored, Healthy
  <2>5. LogInv
    BY <2>3 DEF LogInv, InEpisodes, OpenAfter, Healthy
  <2>6. QED
    BY <2>2, <2>4, <2>5 DEF AlertInv
<1>2. QED
  BY <1>1, NextAlertInv, TypeInvariant, PTL DEF Spec

-----------------------------------------------------------------------------
(* Results                                                                 *)

\* Once every rule has a row, the audit events of a rule form episodes and the
\* row agrees with the last one, however polls overlap, wait or fail.
THEOREM EpisodesAreAlwaysWellFormed ==
  ASSUME Stored PROVE Spec => []EpisodesAreWellFormed
<1>1. AlertInv /\ TypeInv => EpisodesAreWellFormed
  <2> SUFFICES ASSUME AlertInv, TypeInv, NEW r \in Rule
               PROVE  /\ \A n \in DOMAIN log[r] :
                           log[r][n].event = "alert_opened" <=> ~OpenAfter(log[r], n - 1)
                      /\ OpenAfter(log[r], Len(log[r])) <=> alert[r].status # "healthy"
    BY DEF EpisodesAreWellFormed
  <2>1. DOMAIN log[r] = 1..Len(log[r]) /\ InEpisodes(r, log[r], alert[r])
    BY DEF AlertInv, LogInv, TypeInv, TypeOK
  <2>2. QED
    BY <2>1 DEF InEpisodes
<1>2. QED
  BY <1>1, AlertInvariant, TypeInvariant, PTL

\* Once every rule has a row, a repetition is announced only a cooldown after the
\* last announcement.
THEOREM RepetitionsAreAlwaysSpaced ==
  ASSUME Stored PROVE Spec => []RepetitionsAreSpaced
<1>1. AlertInv /\ TypeInv => RepetitionsAreSpaced
  <2> SUFFICES ASSUME AlertInv, TypeInv, NEW r \in Rule
               PROVE  \A n \in DOMAIN log[r] :
                        log[r][n].event = "alert_suppressed" =>
                          log[r][n].at - log[r][n - 1].at >= Policy[r].cooldown
    BY DEF RepetitionsAreSpaced
  <2>1. DOMAIN log[r] = 1..Len(log[r]) /\ InEpisodes(r, log[r], alert[r])
    BY DEF AlertInv, LogInv, TypeInv, TypeOK
  <2>2. QED
    BY <2>1 DEF InEpisodes
<1>2. QED
  BY <1>1, AlertInvariant, TypeInvariant, PTL

\* No rule gets worse without an event that says so, not even one that had no
\* row to lock when it was read.
THEOREM RisesAreAlwaysAnnounced == Spec => RisesAreAnnounced
<1> DEFINE Announced == \A r \in Rule : Order[alert'[r].status] > Order[alert[r].status] =>
       /\ Len(log'[r]) = Len(log[r]) + 1
       /\ log'[r][Len(log'[r])].status = alert'[r].status
<1>1. TypeInv /\ AlertInv /\ [Next]_vars => [Announced]_vars
  <2> SUFFICES ASSUME TypeInv, AlertInv, [Next]_vars, NEW r \in Rule,
                      Order[alert'[r].status] > Order[alert[r].status]
               PROVE  /\ Len(log'[r]) = Len(log[r]) + 1
                      /\ log'[r][Len(log'[r])].status = alert'[r].status
    OBVIOUS
  <2>0. alert[r] \in Row /\ alert[r].status \in Severity /\ log[r] \in Seq(LogEntry)
    BY DEF TypeInv, TypeOK, Row
  <2>1. alert' # alert
    BY <2>0 DEF Order, Severity
  <2>2. PICK p \in Poller : Commit(p)
    BY <2>1 DEF Next, Drift, Tick, vars, PollStep, ReadMetrics, VerifyAudit, Select, Upsert, Abort
  <2>3. PICK cur \in Row, sev \in Severity, at \in Nat, w \in Transitions :
          /\ cur = alert[r] \/ cur = Healthy
          /\ w = Transition(r, cur, sev, at)
          /\ alert'[r] = w.row
          /\ log'[r] = IF w.event = "none" THEN log[r]
                       ELSE Append(log[r], [event |-> w.event, at |-> w.at,
                                            status |-> w.row.status])
    BY <2>2, CommitWrites
  <2>4. w.row.status = sev /\ w.at = at
    BY <2>3, TransitionType
  <2>5. w.event # "none"
    <3>1. CASE cur = alert[r]
      BY <2>3, <2>4, <3>1, TransitionEvent
    <3>2. CASE cur = Healthy
      <4>1. sev # "healthy"
        BY <2>0, <2>3, <2>4 DEF Order, Severity
      <4>2. QED
        BY <2>3, <3>2, <4>1, TransitionEvent DEF Healthy
    <3>3. QED
      BY <2>3, <3>1, <3>2
  <2> DEFINE entry == [event |-> w.event, at |-> w.at, status |-> w.row.status]
  <2>6. entry \in LogEntry /\ entry.status = w.row.status
    BY <2>4, <2>5 DEF Transitions, LogEntry
  <2>7. log'[r] = Append(log[r], entry)
    BY <2>3, <2>5
  <2> HIDE DEF entry
  <2>8. Len(log'[r]) = Len(log[r]) + 1 /\ log'[r][Len(log'[r])] = entry
    BY <2>0, <2>6, <2>7
  <2>9. QED
    BY <2>3, <2>6, <2>8
<1>2. QED
  BY <1>1, TypeInvariant, AlertInvariant, PTL DEF Spec, RisesAreAnnounced
=============================================================================
