--------------------------- MODULE MCRunLifecycle ---------------------------
(***************************************************************************)
(* Small instances of RunLifecycle.  Two chat requests carry the same run  *)
(* id (a client retry); two resume clients are served by one process, so   *)
(* they share its recovery worker id, as server.run_resume_route does.     *)
(***************************************************************************)
EXTENDS RunLifecycle, TLC

CONSTANTS r1, c1, c2, k1, k2, wid, rwid

MCRunOf == [h \in Handler |-> r1]
MCWorkerOf == [h \in Handler |-> IF h \in Chat THEN wid ELSE rwid]

\* The requests of each kind are interchangeable: same run, same worker id.
\* Used in runs without liveness properties only.
Symmetry == Permutations(Chat) \cup Permutations(Resume)
=============================================================================
