------------------------------ MODULE Alerting ------------------------------
(***************************************************************************)
(* The runtime alerts: concurrent GET /alerts/runtime requests measure the *)
(* system, judge each rule of ALERT_POLICY and record the transitions.     *)
(*                                                                         *)
(* A poll reads the metrics and verifies the audit chain in two separate   *)
(* statements, then walks the rules in ONE transaction: SELECT ... FOR     *)
(* UPDATE, transition_alert, upsert, audit event.  What it measured may be *)
(* stale by the time it holds the row, and a rule that has no row yet      *)
(* cannot be locked.  (The chain lock of the audit events and the order of *)
(* the row locks are module AuditChain's subject.)                         *)
(*                                                                         *)
(* One tick of the clock is 15 minutes.  Of the columns, recovered_at,     *)
(* last_evidence, last_value and sample_size decide nothing, and severity  *)
(* always equals status, so only status, last_triggered_at and             *)
(* suppressed_count are kept.                                              *)
(*                                                                         *)
(* Bounds: MaxTime ticks, MaxDrifts changes of the facts, MaxFaults failed *)
(* statements.                                                             *)
(***************************************************************************)
EXTENDS Integers, Sequences

CONSTANTS
  Poller,     \* the owner's polling clients
  Rules,      \* the rules evaluated, in the order of ALERT_POLICY
  Facts,      \* what the tables may say: records of the counts the rules read
  NoPoller,   \* no lock holder
  Stored,     \* has every rule been evaluated and stored before?
  MaxTime,
  MaxDrifts,
  MaxFaults

Rule == {Rules[i] : i \in DOMAIN Rules}

ASSUME FactsType ==
  Facts \subseteq [total : Nat, failed : Nat, orphaned : Nat, lost : Nat,
                   recoveryFailures : Nat, auditOk : BOOLEAN]
ASSUME NoPollerType == NoPoller \notin Poller
ASSUME StoredType == Stored \in BOOLEAN
ASSUME BoundsType == MaxTime \in Nat /\ MaxDrifts \in Nat /\ MaxFaults \in Nat

VARIABLES
  facts,     \* what the tables say now
  drifts,    \* how often that changed
  clock,
  alert,     \* rule -> its row of runtime_alerts
  log,       \* rule -> its committed audit events
  rowLock,   \* rule -> the poll whose transaction holds its row
  pc,        \* poll -> where it is
  reading,   \* poll -> what it measured
  buf,       \* poll -> the transitions its transaction wrote, rule by rule
  draft,     \* poll -> the transition computed for the next rule
  faults

world == <<facts, drifts, clock>>
vars == <<facts, drifts, clock, alert, log, rowLock, pc, reading, buf, draft, faults>>

-----------------------------------------------------------------------------
(* ALERT_POLICY and the judgement of one rule                              *)

Severity == {"healthy", "warning", "critical"}
Order == [healthy |-> 0, warning |-> 1, critical |-> 2]

\* Thresholds as fractions; cooldown in ticks
Policy ==
  [service_health       |-> [min |-> 1, warning |-> <<1, 1>>, critical |-> <<1, 1>>, cooldown |-> 1],
   audit_integrity      |-> [min |-> 1, warning |-> <<1, 1>>, critical |-> <<1, 1>>, cooldown |-> 1],
   orphan_lease_anomaly |-> [min |-> 1, warning |-> <<1, 1>>, critical |-> <<3, 1>>, cooldown |-> 1],
   recovery_failure     |-> [min |-> 1, warning |-> <<1, 1>>, critical |-> <<2, 1>>, cooldown |-> 1],
   failure_rate         |-> [min |-> 5, warning |-> <<2, 5>>, critical |-> <<3, 4>>, cooldown |-> 2]]

\* A rule is a key of ALERT_POLICY, and an evaluation walks each once
ASSUME RulesType ==
  /\ Rules \in Seq(DOMAIN Policy)
  /\ \A i, j \in DOMAIN Rules : Rules[i] = Rules[j] => i = j

AtLeast(v, t) == v[1] * t[2] >= t[1] * v[2]

\* Value (a fraction) and sample size of each rule for a reading m
Measured(m) ==
  LET strays == IF m.orphaned >= m.lost THEN m.orphaned ELSE m.lost
      bit(b) == IF b THEN 0 ELSE 1
      rate == IF m.total = 0 THEN <<0, 1>> ELSE <<m.failed, m.total>>
  IN [service_health       |-> [value |-> <<bit(m.serviceOk), 1>>, sample |-> 1],
      audit_integrity      |-> [value |-> <<bit(m.auditOk), 1>>, sample |-> 1],
      orphan_lease_anomaly |-> [value |-> <<strays, 1>>, sample |-> strays],
      recovery_failure     |-> [value |-> <<m.recoveryFailures, 1>>, sample |-> m.recoveryFailures],
      failure_rate         |-> [value |-> rate, sample |-> m.total]]

\* _severity_for_value
Judged(rule, m) ==
  LET e == Measured(m)[rule]
      p == Policy[rule]
  IN CASE e.sample < p.min \/ ~AtLeast(e.value, p.warning) -> "healthy"
       [] AtLeast(e.value, p.critical) -> "critical"
       [] OTHER -> "warning"

-----------------------------------------------------------------------------
(* transition_alert                                                        *)

Never == -1
Healthy == [stored |-> FALSE, status |-> "healthy", triggered |-> Never, suppressed |-> 0]

Triggers == {"alert_opened", "alert_escalated", "alert_suppressed"}

\* Mutant of Written below: a suppressed repetition does not restart the cooldown
RestlessWritten(cur, sev, now, event) ==
  [event |-> event,
   at    |-> now,
   row   |-> [stored     |-> TRUE,
              status     |-> sev,
              triggered  |-> IF event \in Triggers \ {"alert_suppressed"} THEN now ELSE cur.triggered,
              suppressed |-> cur.suppressed + (IF event = "alert_suppressed" THEN 1 ELSE 0)]]

\* Mutant: an open alert keeps the worst severity it had
StickyWritten(cur, sev, now, event) ==
  [event |-> event,
   at    |-> now,
   row   |-> [stored     |-> TRUE,
              status     |-> IF sev # "healthy" /\ Order[cur.status] > Order[sev]
                               THEN cur.status ELSE sev,
              triggered  |-> IF event \in Triggers THEN now ELSE cur.triggered,
              suppressed |-> cur.suppressed + (IF event = "alert_suppressed" THEN 1 ELSE 0)]]

\* What is written for a rule judged sev at time now over row cur, given the
\* event and the status that come out
Written(cur, sev, now, event) ==
  [event |-> event,
   at    |-> now,
   row   |-> [stored     |-> TRUE,
              status     |-> sev,
              triggered  |-> IF event \in Triggers THEN now ELSE cur.triggered,
              suppressed |-> cur.suppressed + (IF event = "alert_suppressed" THEN 1 ELSE 0)]]

CooledDown(rule, cur, now) ==
  cur.triggered = Never \/ now - cur.triggered >= Policy[rule].cooldown

\* Mutant: the cooldown also silences an escalation
MutedTransition(rule, cur, sev, now) ==
  Written(cur, sev, now,
    CASE sev = "healthy" -> IF cur.status = "healthy" THEN "none" ELSE "alert_recovered"
      [] sev # "healthy" /\ cur.status = "healthy" -> "alert_opened"
      [] OTHER -> IF ~CooledDown(rule, cur, now) THEN "none"
                  ELSE IF Order[sev] > Order[cur.status] THEN "alert_escalated"
                  ELSE "alert_suppressed")

Transition(rule, cur, sev, now) ==
  Written(cur, sev, now,
    CASE sev = "healthy" -> IF cur.status = "healthy" THEN "none" ELSE "alert_recovered"
      [] sev # "healthy" /\ cur.status = "healthy" -> "alert_opened"
      [] OTHER -> IF Order[sev] > Order[cur.status] THEN "alert_escalated"
                  ELSE IF CooledDown(rule, cur, now) THEN "alert_suppressed"
                  ELSE "none")

-----------------------------------------------------------------------------
(* The world the polls measure                                             *)

Drift ==
  /\ drifts < MaxDrifts
  /\ drifts' = drifts + 1
  /\ facts' \in Facts \ {facts}
  /\ UNCHANGED <<clock, alert, log, rowLock, pc, reading, buf, draft, faults>>

Tick ==
  /\ clock < MaxTime
  /\ clock' = clock + 1
  /\ UNCHANGED <<facts, drifts, alert, log, rowLock, pc, reading, buf, draft, faults>>

-----------------------------------------------------------------------------
(* One poll                                                                *)

Fault ==
  /\ faults < MaxFaults
  /\ faults' = faults + 1

\* What is evaluated when runtime_metrics fails: metrics = {}
NoMetrics == [total |-> 0, failed |-> 0, orphaned |-> 0, lost |-> 0,
              recoveryFailures |-> 0, auditOk |-> TRUE, serviceOk |-> FALSE]

WithService(f) ==
  [total |-> f.total, failed |-> f.failed, orphaned |-> f.orphaned, lost |-> f.lost,
   recoveryFailures |-> f.recoveryFailures, auditOk |-> TRUE, serviceOk |-> TRUE]

ReadMetrics(p) ==
  /\ pc[p] = "idle"
  /\ \/ reading' = [reading EXCEPT ![p] = WithService(facts)] /\ UNCHANGED faults
     \/ reading' = [reading EXCEPT ![p] = NoMetrics] /\ Fault
  /\ pc' = [pc EXCEPT ![p] = "audit"]
  /\ UNCHANGED <<world, alert, log, rowLock, buf, draft>>

\* verify_audit_chain; its failure counts as an unhealthy chain
VerifyAudit(p) ==
  /\ pc[p] = "audit"
  /\ \/ reading' = [reading EXCEPT ![p].auditOk = facts.auditOk] /\ UNCHANGED faults
     \/ reading' = [reading EXCEPT ![p].auditOk = FALSE] /\ Fault
  /\ pc' = [pc EXCEPT ![p] = "select"]
  /\ UNCHANGED <<world, alert, log, rowLock, buf, draft>>

NoDraft == Written(Healthy, "healthy", 0, "none")

\* The rule the transaction of p is at
Current(p) == Rules[Len(buf[p]) + 1]

\* Mutant: SELECT without FOR UPDATE
UnlockedSelect(p) ==
  /\ pc[p] = "select"
  /\ Len(buf[p]) < Len(Rules)
  /\ LET r == Current(p)
     IN draft' = [draft EXCEPT ![p] = Transition(r, alert[r], Judged(r, reading[p]), clock)]
  /\ pc' = [pc EXCEPT ![p] = "upsert"]
  /\ UNCHANGED <<world, alert, log, rowLock, reading, buf, faults>>

\* SELECT ... FOR UPDATE waits for the row and locks it; a rule without a
\* committed row is read as healthy, and nothing is locked
Select(p) ==
  /\ pc[p] = "select"
  /\ Len(buf[p]) < Len(Rules)
  /\ LET r == Current(p)
     IN /\ alert[r].stored => rowLock[r] \in {NoPoller, p}
        /\ rowLock' = IF alert[r].stored THEN [rowLock EXCEPT ![r] = p] ELSE rowLock
        /\ draft' = [draft EXCEPT ![p] = Transition(r, alert[r], Judged(r, reading[p]), clock)]
  /\ pc' = [pc EXCEPT ![p] = "upsert"]
  /\ UNCHANGED <<world, alert, log, reading, buf, faults>>

\* INSERT ... ON CONFLICT DO UPDATE waits for a concurrent insert of the same
\* rule, then overwrites it; the audit event follows
Upsert(p) ==
  /\ pc[p] = "upsert"
  /\ rowLock[Current(p)] \in {NoPoller, p}
  /\ rowLock' = [rowLock EXCEPT ![Current(p)] = p]
  /\ buf' = [buf EXCEPT ![p] = Append(@, draft[p])]
  /\ draft' = [draft EXCEPT ![p] = NoDraft]
  /\ pc' = [pc EXCEPT ![p] = "select"]
  /\ UNCHANGED <<world, alert, log, reading, faults>>

\* The transaction of p is over, and so is its request
Released(p) ==
  /\ rowLock' = [r \in Rule |-> IF rowLock[r] = p THEN NoPoller ELSE rowLock[r]]
  /\ buf' = [buf EXCEPT ![p] = <<>>]
  /\ pc' = [pc EXCEPT ![p] = "idle"]
  /\ reading' = [reading EXCEPT ![p] = NoMetrics]
  /\ draft' = [draft EXCEPT ![p] = NoDraft]
  /\ UNCHANGED world

\* What p wrote for rule r
WrittenFor(p, r) == buf[p][CHOOSE i \in DOMAIN Rules : Rules[i] = r]

Commit(p) ==
  /\ pc[p] = "select"
  /\ Len(buf[p]) = Len(Rules)
  /\ alert' = [r \in Rule |-> WrittenFor(p, r).row]
  /\ log' = [r \in Rule |->
               LET w == WrittenFor(p, r)
               IN IF w.event = "none" THEN log[r]
                  ELSE Append(log[r], [event |-> w.event, at |-> w.at, status |-> w.row.status])]
  /\ Released(p)
  /\ UNCHANGED faults

\* A statement of the transaction failed: every rule is rolled back, 502
Abort(p) ==
  /\ pc[p] \in {"select", "upsert"}
  /\ Fault
  /\ Released(p)
  /\ UNCHANGED <<alert, log>>

PollStep(p) ==
  \/ ReadMetrics(p) \/ VerifyAudit(p) \/ Select(p) \/ Upsert(p) \/ Commit(p)

Init ==
  /\ facts \in Facts
  /\ drifts = 0
  /\ clock = 0
  /\ alert = [r \in Rule |-> [Healthy EXCEPT !.stored = Stored]]
  /\ log = [r \in Rule |-> <<>>]
  /\ rowLock = [r \in Rule |-> NoPoller]
  /\ pc = [p \in Poller |-> "idle"]
  /\ reading = [p \in Poller |-> NoMetrics]
  /\ buf = [p \in Poller |-> <<>>]
  /\ draft = [p \in Poller |-> NoDraft]
  /\ faults = 0

Next == Drift \/ Tick \/ \E p \in Poller : PollStep(p) \/ Abort(p)

Spec == Init /\ [][Next]_vars

\* Statements return or time out, and the owner keeps polling.  Waiting for a
\* row is first come first served, so a poll is not passed over for ever.
FairSpec == Spec /\ \A p \in Poller : SF_vars(PollStep(p))

-----------------------------------------------------------------------------
(* Properties                                                              *)

Row == [stored : BOOLEAN, status : Severity, triggered : Nat \cup {Never}, suppressed : Nat]
Events == Triggers \cup {"alert_recovered"}
Transitions == [event : Events \cup {"none"}, at : Nat, row : Row]
LogEntry == [event : Events, at : Nat, status : Severity]
Reading == [total : Nat, failed : Nat, orphaned : Nat, lost : Nat,
            recoveryFailures : Nat, auditOk : BOOLEAN, serviceOk : BOOLEAN]

(***************************************************************************)
(* Types of the variables.                                                 *)
(***************************************************************************)
TypeOK ==
  /\ facts \in Facts
  /\ drifts \in 0..MaxDrifts
  /\ clock \in 0..MaxTime
  /\ alert \in [Rule -> Row]
  /\ log \in [Rule -> Seq(LogEntry)]
  /\ rowLock \in [Rule -> Poller \cup {NoPoller}]
  /\ pc \in [Poller -> {"idle", "audit", "select", "upsert"}]
  /\ reading \in [Poller -> Reading]
  /\ buf \in [Poller -> Seq(Transitions)]
  /\ draft \in [Poller -> Transitions]
  /\ faults \in 0..MaxFaults

\* Is the episode the first n events describe still open?
OpenAfter(events, n) == n > 0 /\ events[n].event # "alert_recovered"

(***************************************************************************)
(* "repeated polling does not create an audit event unless a rule opens,   *)
(* escalates, recovers, or reaches a new suppression interval"             *)
(* (docs/OPERATIONS.md): the audit events of a rule form episodes.  Only   *)
(* an open episode is escalated, suppressed or recovered, only a closed    *)
(* one is opened, and the stored status is open exactly when the last      *)
(* episode is, however polls overlap or fail.                              *)
(***************************************************************************)
EpisodesAreWellFormed == \A r \in Rule :
  /\ \A n \in DOMAIN log[r] :
       log[r][n].event = "alert_opened" <=> ~OpenAfter(log[r], n - 1)
  /\ OpenAfter(log[r], Len(log[r])) <=> alert[r].status # "healthy"

(***************************************************************************)
(* Cooldowns: a repetition is announced only when the rule's cooldown has  *)
(* passed since the last announcement, whoever made that one.              *)
(***************************************************************************)
RepetitionsAreSpaced == \A r \in Rule : \A n \in DOMAIN log[r] :
  log[r][n].event = "alert_suppressed" =>
    log[r][n].at - log[r][n - 1].at >= Policy[r].cooldown

(***************************************************************************)
(* A rule never gets worse silently: the commit that raises the stored     *)
(* status appends an event that carries the new one.                       *)
(***************************************************************************)
RisesAreAnnounced ==
  [][\A r \in Rule : Order[alert'[r].status] > Order[alert[r].status] =>
       /\ Len(log'[r]) = Len(log[r]) + 1
       /\ log'[r][Len(log'[r])].status = alert'[r].status]_vars

(***************************************************************************)
(* Stale readings are overwritten: when the facts stop changing and the    *)
(* owner keeps polling, each rule ends up stored as the facts judge it.    *)
(***************************************************************************)
AlertsCatchUp == \A r \in Rule :
  <>[](alert[r].status = Judged(r, [WithService(facts) EXCEPT !.auditOk = facts.auditOk]))

(***************************************************************************)
(* Statements of the repository that the code does not keep.               *)
(***************************************************************************)

\* docs/OPERATIONS.md, as quoted above, of a rule that was never stored: two
\* polls that overlap both find no row to lock, and both open the alert.
OpensOnce == \A r \in Rule : \A n \in DOMAIN log[r] :
  log[r][n].event = "alert_opened" => ~OpenAfter(log[r], n - 1)

MetricRule == Rule \ {"service_health", "audit_integrity"}

\* docs/OPERATIONS.md: "recovered is recorded as a transition".  A poll whose
\* metrics could not be read evaluates {} and records recoveries.
RecoveriesAreMeasured == \A p \in Poller : \A n \in DOMAIN buf[p] :
  buf[p][n].event = "alert_recovered" /\ Rules[n] \in MetricRule => reading[p].serviceOk
=============================================================================
