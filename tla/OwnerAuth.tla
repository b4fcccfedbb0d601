----------------------------- MODULE OwnerAuth -----------------------------
(***************************************************************************)
(* auth.py: the owner's bearer token and the throttle of failed attempts,  *)
(* kept per client in the memory of the process.  authorize_owner decides  *)
(* with no await between the look at the throttle and the note it leaves,  *)
(* so an attempt is one step; the audit event that follows is a query of   *)
(* its own, whose failure is swallowed.                                    *)
(*                                                                         *)
(* Time is the age of each client's last failure, in steps of a clock; an  *)
(* age past Reset counts no further.                                       *)
(***************************************************************************)
EXTENDS Naturals

CONSTANTS
    Clients,        \* the keys of _failed_attempts: hosts
    MaxDelay,       \* _AUTH_BACKOFF_MAX_SECONDS
    Reset,          \* _AUTH_FAILURE_RESET_SECONDS
    TooMany         \* failures whose power of two no float holds

ASSUME AuthAssumption ==
    /\ MaxDelay \in Nat \ {0} /\ Reset \in Nat /\ MaxDelay <= Reset
    /\ TooMany \in Nat \ {0, 1}

VARIABLES
    failures,       \* _failed_attempts: how many; zero when there is no entry
    age,            \* and the time since the last one; past Reset when there is none
    wrong           \* history: the time since a client gave a wrong token

authVars == <<failures, age, wrong>>

Ages == 0..(Reset + 1)

AuthTypeOK ==
    /\ failures \in [Clients -> 0..TooMany]
    /\ age \in [Clients -> Ages] /\ wrong \in [Clients -> Ages]

AuthInit ==
    /\ failures = [c \in Clients |-> 0]
    /\ age = [c \in Clients |-> Reset + 1]
    /\ wrong = [c \in Clients |-> Reset + 1]

Verdicts == {"admitted", "unauthenticated", "throttled", "error"}

-----------------------------------------------------------------------------
\* The failures still remembered of a client.
Remembered(c) == IF age[c] > Reset THEN 0 ELSE failures[c]

\* min(2 ** (failures - 1), MaxDelay) has not passed yet.
TooSoon(c, n) == age[c] < 2^(n - 1) /\ age[c] < MaxDelay

\* _throttle_delay: the power is taken before it is capped.
Verdict(c, right) ==
    LET n == Remembered(c)
    IN  IF n >= TooMany THEN "error"
        ELSE IF n > 0 /\ TooSoon(c, n) THEN "throttled"
        ELSE IF right THEN "admitted" ELSE "unauthenticated"

Entry(c, n, t) ==
    /\ failures' = [failures EXCEPT ![c] = n]
    /\ age' = [age EXCEPT ![c] = t]

\* Mutant: a refused attempt counts as a failure.
NotedAlways(c, verdict) ==
    IF verdict = "admitted" THEN Entry(c, 0, Reset + 1)
    ELSE Entry(c, IF Remembered(c) < TooMany THEN Remembered(c) + 1 ELSE TooMany, 0)

\* _record_failure and _clear_failures; a throttled attempt leaves no note.
Noted(c, verdict) ==
    CASE verdict = "unauthenticated" -> Entry(c, Remembered(c) + 1, 0)
      [] verdict = "admitted" -> Entry(c, 0, Reset + 1)
      [] verdict \in {"throttled", "error"} -> Entry(c, Remembered(c), age[c])

Attempt(c, right) ==
    /\ Noted(c, Verdict(c, right))
    /\ wrong' = [wrong EXCEPT ![c] = IF Verdict(c, right) = "unauthenticated" THEN 0 ELSE @]

\* time.monotonic.
Older(t) == IF t > Reset THEN t ELSE t + 1
Tick ==
    /\ age' = [c \in Clients |-> Older(age[c])]
    /\ wrong' = [c \in Clients |-> Older(wrong[c])]
    /\ UNCHANGED failures

\* The notes are in memory: a restart forgets them.
AuthRestart ==
    /\ failures' = [c \in Clients |-> 0]
    /\ age' = [c \in Clients |-> Reset + 1]
    /\ UNCHANGED wrong
=============================================================================
