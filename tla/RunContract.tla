---------------------------- MODULE RunContract ----------------------------
(***************************************************************************)
(* What the owner of the agent is promised about one chat run, without     *)
(* stages, leases, workers or database errors.  A run is accepted, its     *)
(* model is invoked at most once, its answer is saved at most once and     *)
(* only after that invocation, and it is concluded.  A conclusion may be   *)
(* revised (the worker and a recovery may each write one), but "succeeded" *)
(* is only ever written over a saved answer, and once the owner has been   *)
(* handed the answer the success is final.                                 *)
(***************************************************************************)
CONSTANT Run

VARIABLES
  accepted,   \* runs that exist
  invoked,    \* runs whose model call was started
  saved,      \* runs whose answer is stored
  outcome,    \* the conclusion currently on record
  delivered   \* runs whose answer was returned to the owner

vars == <<accepted, invoked, saved, outcome, delivered>>

Outcomes == {"none", "succeeded", "failed"}

Init ==
  /\ accepted = {}
  /\ invoked = {}
  /\ saved = {}
  /\ outcome = [r \in Run |-> "none"]
  /\ delivered = {}

Accept(r) ==
  /\ r \notin accepted
  /\ accepted' = accepted \cup {r}
  /\ UNCHANGED <<invoked, saved, outcome, delivered>>

Invoke(r) ==
  /\ r \in accepted \ invoked
  /\ invoked' = invoked \cup {r}
  /\ UNCHANGED <<accepted, saved, outcome, delivered>>

Save(r) ==
  /\ r \in invoked \ saved
  /\ saved' = saved \cup {r}
  /\ UNCHANGED <<accepted, invoked, outcome, delivered>>

Conclude(r, o) ==
  /\ r \in accepted
  /\ o = "succeeded" => r \in saved
  /\ o = "failed" => r \notin delivered
  /\ outcome' = [outcome EXCEPT ![r] = o]
  /\ UNCHANGED <<accepted, invoked, saved, delivered>>

Deliver(r) ==
  /\ r \in saved
  /\ outcome[r] = "succeeded"
  /\ delivered' = delivered \cup {r}
  /\ UNCHANGED <<accepted, invoked, saved, outcome>>

Next == \E r \in Run :
  \/ Accept(r) \/ Invoke(r) \/ Save(r) \/ Deliver(r)
  \/ \E o \in {"succeeded", "failed"} : Conclude(r, o)

Spec == Init /\ [][Next]_vars
=============================================================================
