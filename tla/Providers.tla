----------------------------- MODULE Providers -----------------------------
(***************************************************************************)
(* The model providers of the process and the agent runs that ask them:    *)
(* the health agent_providers.py keeps for each provider, shared by all    *)
(* runs, and run_ahmed's attempts, fallbacks and retries.  A run is one    *)
(* coroutine: what it does between two awaits is one action.               *)
(***************************************************************************)
EXTENDS Naturals, FiniteSets

CONSTANTS
    Request,        \* calls of run_ahmed
    Provider,       \* the configured providers; a request for another one raises at once
    Rank,           \* the order in which _configured_providers lists them
    Wanted,         \* the provider each request asks for
    MaxRetries,     \* GEMINI_429_MAX_RETRIES
    Threshold       \* GEMINI_429_CIRCUIT_THRESHOLD

ASSUME ProviderAssumption ==
    /\ Rank \in [Provider -> Nat]
    /\ Wanted \in [Request -> Provider]
    /\ MaxRetries \in Nat
    /\ Threshold \in Nat \ {0}

VARIABLES
    health,     \* _provider_states: status, streak of 429s, is it cooling down
    phase,      \* how far the request is
    active,     \* active_candidate
    asked,      \* attempted_providers
    left,       \* iterations of the attempt loop that remain
    fault       \* last_error

runVars == <<phase, active, asked, left, fault>>
vars == <<health, phase, active, asked, left, fault>>

Status == {"READY", "RATE_LIMITED", "UNAUTHORIZED", "ERROR"}
Transient == {"429", "5xx"}
Fault == Transient \cup {"auth", "other"}
Ended == {"answered", "refused", "failed", "cancelled"}
Between == {"preparing", "switching", "waiting"}

Init ==
    /\ health = [p \in Provider |-> [status |-> "READY", streak |-> 0, cooling |-> FALSE]]
    /\ phase = [r \in Request |-> "idle"]
    /\ active = Wanted
    /\ asked = [r \in Request |-> {}]
    /\ left = [r \in Request |-> MaxRetries + 1]
    /\ fault = [r \in Request |-> "none"]

----------------------------------------------------------------------------
(* The health of a provider.                                               *)

\* Mutants: the streak survives the circuit; an error is forgotten like a limit.
RememberingRefreshed(p) ==
    IF health[p].status = "RATE_LIMITED" /\ ~health[p].cooling
      THEN [health[p] EXCEPT !.status = "READY"]
      ELSE health[p]
ForgivingRefreshed(p) ==
    IF health[p].status # "READY" /\ ~health[p].cooling
      THEN [status |-> "READY", streak |-> 0, cooling |-> FALSE]
      ELSE health[p]

\* provider_health: reading an open circuit whose cooldown is over closes it.
Refreshed(p) ==
    IF health[p].status = "RATE_LIMITED" /\ ~health[p].cooling
      THEN [status |-> "READY", streak |-> 0, cooling |-> FALSE]
      ELSE health[p]

RateLimited(h) == [h EXCEPT !.status = "RATE_LIMITED", !.cooling = TRUE]

\* _mark_provider_429 for a 429; any other transient failure leaves no mark.
Marked(h, e) ==
    LET counted == [h EXCEPT !.streak = @ + 1] IN
    IF e # "429" THEN h
    ELSE IF counted.streak >= Threshold THEN RateLimited(counted) ELSE counted

\* The verdict a run that fails leaves on its active provider.
Blamed(h, e) ==
    IF e = "429" THEN RateLimited(h)
    ELSE [h EXCEPT !.status = IF e = "auth" THEN "UNAUTHORIZED" ELSE "ERROR"]

\* The providers outside `excluded` that provider_health finds ready,
\* and those of a set that _ready_fallback meets first: the wanted one leads.
Ready(excluded) == {p \in Provider \ excluded : Refreshed(p).status = "READY"}
Foremost(r, S) ==
    {p \in S : \A q \in S : p = Wanted[r] \/ (q # Wanted[r] /\ Rank[p] <= Rank[q])}

\* GEMINI_429_COOLDOWN_SECONDS pass after the circuit was last opened.
CooldownEnds(p) ==
    /\ health[p].cooling
    /\ health' = [health EXCEPT ![p].cooling = FALSE]
    /\ UNCHANGED runVars

\* The health route and the doctor read a provider's health.
ReadHealth(p) ==
    /\ health' = [health EXCEPT ![p] = Refreshed(p)]
    /\ UNCHANGED runVars

----------------------------------------------------------------------------
(* A run.                                                                  *)

\* The wanted provider cools down and no other one is ready.
Refuse(r) ==
    /\ phase[r] = "idle"
    /\ Refreshed(Wanted[r]).status = "RATE_LIMITED"
    /\ Ready({Wanted[r]}) = {}
    /\ phase' = [phase EXCEPT ![r] = "refused"]
    /\ UNCHANGED <<health, active, asked, left, fault>>

Start(r, p) ==
    /\ phase[r] = "idle"
    /\ IF Refreshed(Wanted[r]).status = "RATE_LIMITED"
         THEN p \in Foremost(r, Ready({Wanted[r]}))
         ELSE p = Wanted[r]
    /\ health' = [health EXCEPT ![p] = Refreshed(p)]
    /\ phase' = [phase EXCEPT ![r] = "preparing"]
    /\ active' = [active EXCEPT ![r] = p]
    /\ UNCHANGED <<asked, left, fault>>

\* Mutant: an attempt that is not counted.
UncountedAsk(r) ==
    /\ phase[r] \in Between
    /\ left[r] > 0
    /\ phase' = [phase EXCEPT ![r] = "asking"]
    /\ asked' = [asked EXCEPT ![r] = @ \cup {active[r]}]
    /\ UNCHANGED <<health, active, left, fault>>

\* The next iteration of the loop: one agent.run on the active provider.
Ask(r) ==
    /\ phase[r] \in Between
    /\ left[r] > 0
    /\ phase' = [phase EXCEPT ![r] = "asking"]
    /\ asked' = [asked EXCEPT ![r] = @ \cup {active[r]}]
    /\ left' = [left EXCEPT ![r] = @ - 1]
    /\ UNCHANGED <<health, active, fault>>

Answer(r) ==
    /\ phase[r] = "asking"
    /\ health' = [health EXCEPT ![active[r]] =
                     [status |-> "READY", streak |-> 0, cooling |-> FALSE]]
    /\ phase' = [phase EXCEPT ![r] = "answered"]
    /\ UNCHANGED <<active, asked, left, fault>>

\* Mutant: only the provider that failed is excluded.
WanderingFallBack(r, e, p) ==
    /\ phase[r] = "asking"
    /\ e \in Transient
    /\ p \in Foremost(r, Ready({active[r]}))
    /\ health' = [[health EXCEPT ![active[r]] = Marked(@, e)] EXCEPT ![p] = Refreshed(p)]
    /\ phase' = [phase EXCEPT ![r] = "switching"]
    /\ active' = [active EXCEPT ![r] = p]
    /\ fault' = [fault EXCEPT ![r] = e]
    /\ UNCHANGED <<asked, left>>

\* A transient failure with another provider ready: record the switch and go on.
FallBack(r, e, p) ==
    /\ phase[r] = "asking"
    /\ e \in Transient
    /\ p \in Foremost(r, Ready(asked[r]))
    /\ health' = [[health EXCEPT ![active[r]] = Marked(@, e)] EXCEPT ![p] = Refreshed(p)]
    /\ phase' = [phase EXCEPT ![r] = "switching"]
    /\ active' = [active EXCEPT ![r] = p]
    /\ fault' = [fault EXCEPT ![r] = e]
    /\ UNCHANGED <<asked, left>>

\* With none ready: sleep, to ask the same provider again.
BackOff(r, e) ==
    /\ phase[r] = "asking"
    /\ e \in Transient
    /\ Ready(asked[r]) = {}
    /\ Cardinality(asked[r]) <= MaxRetries
    /\ health' = [health EXCEPT ![active[r]] = Marked(@, e)]
    /\ phase' = [phase EXCEPT ![r] = "waiting"]
    /\ fault' = [fault EXCEPT ![r] = e]
    /\ UNCHANGED <<active, asked, left>>

\* A failure that no fallback and no retry follows.
Break(r, e) ==
    /\ phase[r] = "asking"
    /\ \/ e \in Fault \ Transient
       \/ e \in Transient /\ Ready(asked[r]) = {} /\ Cardinality(asked[r]) > MaxRetries
    /\ health' = [health EXCEPT ![active[r]] = Blamed(Marked(@, e), e)]
    /\ phase' = [phase EXCEPT ![r] = "failed"]
    /\ fault' = [fault EXCEPT ![r] = e]
    /\ UNCHANGED <<active, asked, left>>

\* The loop is over after a switch or a sleep: the active provider is blamed.
RunOut(r) ==
    /\ phase[r] \in {"switching", "waiting"}
    /\ left[r] = 0
    /\ health' = [health EXCEPT ![active[r]] = Blamed(@, fault[r])]
    /\ phase' = [phase EXCEPT ![r] = "failed"]
    /\ UNCHANGED <<active, asked, left, fault>>

\* The client leaves, or the preparation of evidence raises: no mark on a provider.
Cancel(r) ==
    /\ phase[r] \in Between \cup {"asking"}
    /\ phase' = [phase EXCEPT ![r] = "cancelled"]
    /\ UNCHANGED <<health, active, asked, left, fault>>

----------------------------------------------------------------------------
Proceeds(r) ==
    \/ Ask(r) \/ Answer(r) \/ RunOut(r)
    \/ \E e \in Fault :
          \/ BackOff(r, e)
          \/ Break(r, e)
          \/ \E p \in Provider : FallBack(r, e, p)

Next ==
    \/ \E p \in Provider : CooldownEnds(p) \/ ReadHealth(p)
    \/ \E r \in Request :
          \/ Refuse(r)
          \/ \E p \in Provider : Start(r, p)
          \/ Proceeds(r)
          \/ Cancel(r)

\* A run that has started goes on: the calls of a provider end, by a timeout at least.
Spec == Init /\ [][Next]_vars /\ \A r \in Request : WF_vars(Proceeds(r))

----------------------------------------------------------------------------
\* The types of the variables.
TypeOK ==
    /\ health \in [Provider -> [status : Status, streak : Nat, cooling : BOOLEAN]]
    /\ phase \in [Request -> {"idle", "asking"} \cup Between \cup Ended]
    /\ active \in [Request -> Provider]
    /\ asked \in [Request -> SUBSET Provider]
    /\ left \in [Request -> 0..(MaxRetries + 1)]
    /\ fault \in [Request -> Fault \cup {"none"}]

\* However the marks of concurrent runs interleave with cooldowns and answers, a
\* provider shown READY is one whose 429s in a row are below the threshold, and
\* a circuit that still cools is not one that an answer has closed.
ReadyIsBelowThreshold ==
    \A p \in Provider : health[p].status = "READY" =>
        health[p].streak < Threshold /\ ~health[p].cooling

\* A provider becomes READY again only by an answer of its own or at the end of its
\* cooldown: no run that fails, and no reader of the health, clears an error.
RecoveryIsEarned ==
    [][\A p \in Provider :
          health'[p].status = "READY" /\ health[p].status # "READY" =>
             \/ health[p].status = "RATE_LIMITED" /\ ~health[p].cooling
             \/ \E r \in Request : /\ phase[r] = "asking" /\ active[r] = p
                                   /\ phase'[r] = "answered"]_vars

\* A run never returns to a provider it has asked and left: the switches of a run
\* end after one visit to each provider.
NeverGoesBack ==
    [][\A r \in Request : active'[r] # active[r] => active'[r] \notin asked[r]]_vars

\* Every run that starts ends, whatever its providers answer and the others do.
EveryRunEnds == \A r \in Request : phase[r] = "preparing" ~> phase[r] \in Ended

\* The acceptance report's claim for a fallback: what is recorded names "the actual
\* alternate provider", so a provider a failed run blames was asked by it.
BlamedWasAsked == \A r \in Request : phase[r] = "failed" => active[r] \in asked[r]

=============================================================================
