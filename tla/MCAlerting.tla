----------------------------- MODULE MCAlerting -----------------------------
(***************************************************************************)
(* Two overlapping polls of two rules, and facts that are healthy, at the  *)
(* warning threshold or at the critical one.                               *)
(***************************************************************************)
EXTENDS Alerting

\* A rule that counts and one with a rate, a sample size and a long cooldown
MCRules == <<"orphan_lease_anomaly", "failure_rate">>

Fact(t, f, o, l) == [total |-> t, failed |-> f, orphaned |-> o, lost |-> l,
                     recoveryFailures |-> 0, auditOk |-> TRUE]

\* 2 of 5 failed runs is exactly the warning rate; 4 failures of 4 runs are
\* too few to judge
MCFacts == {Fact(4, 4, 0, 0), Fact(5, 2, 1, 0), Fact(5, 4, 1, 3)}
=============================================================================
