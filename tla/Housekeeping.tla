---------------------------- MODULE Housekeeping ----------------------------
(***************************************************************************)
(* A request from its arrival to its answer: authorize_owner (OwnerAuth),  *)
(* the audit event of the attempt and the handler's own first query, which *)
(* both go through _get_pool (Startup), and then the handler: a chat       *)
(* message that writes its run, or a cleanup (Retention).  The process may *)
(* die between any two steps and start again on the same database.         *)
(***************************************************************************)
EXTENDS Startup, OwnerAuth, Retention

ASSUME CastAssumption ==
    Casts \subseteq [Handlers -> [kind : {"chat", "TEST_DATA_ONLY", "CHECKPOINTS_ONLY"},
                                 session : Sessions, client : Clients, owner : BOOLEAN]]

VARIABLES
    where,      \* "idle", "audit", "pool", "work", "answered"
    verdict     \* what authorize_owner has decided

requestVars == <<where, verdict>>
vars == <<startupVars, authVars, retentionVars, requestVars>>

TypeOK ==
    /\ StartupTypeOK /\ AuthTypeOK /\ RetentionTypeOK
    /\ where \in [Handlers -> {"idle", "audit", "pool", "work", "answered"}]
    /\ verdict \in [Handlers -> Verdicts \cup {"none"}]

RequestsInit ==
    /\ where = [r \in Handlers |-> "idle"]
    /\ verdict = [r \in Handlers |-> "none"]

Init == StartupInit /\ AuthInit /\ RetentionInit /\ RequestsInit

ClientOf(r) == cast[r].client
BearsToken(r) == cast[r].owner

Moves(r, to) == where' = [where EXCEPT ![r] = to]

-----------------------------------------------------------------------------
\* authorize_owner up to its audit event; the overflow of the delay ends the
\* request there and then.
Arrive(r) ==
    /\ where[r] = "idle"
    /\ LET v == Verdict(ClientOf(r), BearsToken(r))
       IN  /\ verdict' = [verdict EXCEPT ![r] = v]
           /\ Moves(r, IF v = "error" THEN "answered" ELSE "audit")
           /\ IF v = "error" THEN UNCHANGED pc ELSE Goes(r, "ask")
    /\ Attempt(ClientOf(r), BearsToken(r))
    /\ UNCHANGED <<databaseVars, processVars, retentionVars>>

\* record_auth_event has written the event or has failed: either way the verdict
\* stands, and the handler asks for the pool in its turn.
Audited(r) ==
    /\ where[r] = "audit" /\ pc[r] \in {"served", "failed"}
    /\ IF verdict[r] = "admitted"
       THEN Moves(r, "pool") /\ Goes(r, "ask")
       ELSE Moves(r, "answered") /\ Goes(r, "out")
    /\ UNCHANGED <<databaseVars, processVars, authVars, retentionVars, verdict>>

\* The handler has its pool, or answers 502.
Handled(r) ==
    /\ where[r] = "pool"
    /\ \/ pc[r] = "served" /\ Moves(r, "work") /\ UNCHANGED pc
       \/ pc[r] = "failed" /\ Moves(r, "answered") /\ Goes(r, "out")
    /\ UNCHANGED <<databaseVars, processVars, authVars, retentionVars, verdict>>

InPool(r) ==
    /\ where[r] \in {"audit", "pool"}
    /\ SchemaStep(r)
    /\ UNCHANGED <<authVars, retentionVars, requestVars>>

\* The handler: its queries, and its answer.
Works(r) ==
    /\ where[r] = "work"
    /\ ChatStep(r) \/ Statement(r)
    /\ UNCHANGED <<startupVars, authVars, requestVars>>

Ends(r) ==
    /\ where[r] = "work"
    /\ \/ Commit(r) \/ RollBack(r)
       \/ stage[r] = "closed" /\ UNCHANGED retentionVars
    /\ Moves(r, "answered") /\ Goes(r, "out")
    /\ UNCHANGED <<databaseVars, processVars, authVars, verdict>>

\* Whoever got no result may ask again; a cleanup is asked for again anyway.
AsksAgain(r) ==
    /\ where[r] = "answered" /\ stage[r] = "none"
    /\ Moves(r, "idle")
    /\ verdict' = [verdict EXCEPT ![r] = "none"]
    /\ UNCHANGED <<startupVars, authVars, retentionVars>>

-----------------------------------------------------------------------------
Build == BuildStep /\ UNCHANGED <<authVars, retentionVars, requestVars>>

Time == Tick /\ UNCHANGED <<startupVars, retentionVars, requestVars>>

\* The sweeper, the recovery of a run that has lost its handler, and the months.
Others(r) ==
    /\ where[r] = "answered" /\ World(r)
    /\ UNCHANGED <<startupVars, authVars, requestVars>>

\* Every request under way ends with its connection.
Restart ==
    /\ ProcessDies
    /\ AuthRestart
    /\ RetentionDies
    /\ pc' = [r \in Handlers |-> "out"]
    /\ where' = [r \in Handlers |-> IF where[r] = "idle" THEN "idle" ELSE "answered"]
    /\ verdict' = [r \in Handlers |-> "none"]

Request(r) == Audited(r) \/ Handled(r) \/ InPool(r) \/ Works(r) \/ Ends(r)

Next ==
    \/ \E r \in Handlers : Arrive(r) \/ Request(r) \/ AsksAgain(r) \/ Others(r)
    \/ Build \/ Time \/ Restart

\* The event loop runs whatever can run, asyncio.Lock is first come first served,
\* and so are the row locks of PostgreSQL.
Fairness == \A r \in Handlers : SF_vars(Request(r))

Spec == Init /\ [][Next]_vars /\ Fairness

-----------------------------------------------------------------------------
\* A request refused for the throttle, or for the overflow of its delay, was
\* refused for a wrong token that its own client gave not long ago: refusals
\* never feed on refusals, or on other clients, and end by themselves.
EarnedRefusals ==
    \A r \in Handlers :
      /\ verdict'[r] = "throttled" /\ verdict[r] # "throttled" => wrong[ClientOf(r)] < MaxDelay
      /\ verdict'[r] = "error" /\ verdict[r] # "error" => wrong[ClientOf(r)] <= Reset

RefusalsAreEarned == [][EarnedRefusals]_vars

\* Every request is answered: no failed initialisation keeps the lock, no cleanup
\* and no run wait for each other.
EveryRequestIsAnswered ==
    \A r \in Handlers : where[r] # "idle" ~> where[r] = "answered"
=============================================================================
