---------------------------- MODULE MCAuditChain ----------------------------
(***************************************************************************)
(* Four writers on a pool of three connections: a run checkpoint, an       *)
(* authorization event, and two polls of the alerts, which each walk the   *)
(* rules in the order of ALERT_POLICY and may append an event per rule.    *)
(***************************************************************************)
EXTENDS AuditChain, TLC

CONSTANTS checkpoint, auth, poll1, poll2, run, rule1, rule2

MCWork ==
  (checkpoint :> <<run>>) @@ (auth :> <<NoRow>>) @@
  (poll1 :> <<rule1, rule2>>) @@ (poll2 :> <<rule1, rule2>>)
=============================================================================
