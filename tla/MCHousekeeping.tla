--------------------------- MODULE MCHousekeeping ---------------------------
(* Small instances of Housekeeping: casts that bring together requests that
   meet in the schema, in the throttle, or in the rows of the same runs. *)
EXTENDS Housekeeping

MCHandlers == {1, 2, 3}

As(kind, session, client, owner) ==
    [kind |-> kind, session |-> session, client |-> client, owner |-> owner]
Chat(session) == As("chat", session, "home", TRUE)
Sweep == As("TEST_DATA_ONLY", "probe", "home", TRUE)
Trim == As("CHECKPOINTS_ONLY", "probe", "home", TRUE)
Stranger(client) == As("CHECKPOINTS_ONLY", "probe", client, FALSE)

\* The third request is one of the past, whose answer was lost with its process.
Past == Chat("probe")

MCCasts == {
    <<Chat("probe"), Sweep, Past>>, <<Chat("talk"), Sweep, Past>>,
    <<Sweep, Trim, Past>>, <<Trim, Stranger("home"), Past>>, <<Trim, Stranger("away"), Past>>,
    <<Sweep, Sweep, Past>> }

\* Two cleanups meet on a new database; the others in a process that has served
\* before.  The process may die under the first and under a run.
Serving ==
    /\ base = TRUE /\ column = TRUE /\ policy = TRUE /\ unique = TRUE /\ index = "valid"
    /\ pools = 1 /\ ready = TRUE /\ vectors = TRUE
    /\ lock = Nobody /\ task = "done"
    /\ pc = [r \in Handlers |-> "out"]
    /\ deaths = IF cast[1].kind = "chat" THEN 0 ELSE Restarts

\* Two sweeps find the run of the past as the death of its process has left it, with
\* an old checkpoint; in the other casts nothing is left of it.
Left == cast = <<Sweep, Sweep, Past>>

PastInit ==
    /\ cast \in MCCasts
    /\ scope = [s \in Sessions |-> IF s \in TestSessions THEN "test" ELSE "none"]
    /\ run = [r \in Handlers |-> IF r = 3 /\ Left THEN "running" ELSE "none"]
    /\ rows = [r \in Handlers |-> IF r = 3 /\ Left THEN {"message", "quarter"} ELSE {}]
    /\ stage = [r \in Handlers |-> IF r # 3 THEN "none" ELSE IF Left THEN "lost" ELSE "closed"]
    /\ txn = [r \in Handlers |-> NoTxn]
    /\ swept = {}
    /\ where = [r \in Handlers |-> IF r = 3 THEN "answered" ELSE "idle"]
    /\ verdict = [r \in Handlers |-> "none"]

MCInit ==
    /\ AuthInit /\ PastInit
    /\ IF cast = <<Sweep, Trim, Past>> THEN StartupInit ELSE Serving

MCSpec == MCInit /\ [][Next]_vars /\ Fairness
=============================================================================
