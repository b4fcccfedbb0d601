----------------------------- MODULE HttpRetry -----------------------------
(***************************************************************************)
(* The retry loops of the HTTP clients (skill_tools._tavily_post, and the  *)
(* _http_json of academic_search and of github_search): up to a number of  *)
(* attempts, and which outcomes are worth another.                         *)
(***************************************************************************)
EXTENDS Naturals

CONSTANT Retries        \* attempts after the first
ASSUME RetriesAssumption == Retries \in Nat

\* An attempt is answered, answered "no such thing" (404), refused for want of
\* rights, told to slow down (a 429, GitHub's 403 with an empty quota too),
\* failed by the server (5xx), or gets no answer that can be read.
Outcomes == {"ok", "missing", "refused", "limited", "server", "network"}

Retryable == {"limited", "server", "network"}

\* How a loop whose attempts would end like this ends.
Settled(tries) ==
    LET last == CHOOSE i \in DOMAIN tries :
                    /\ tries[i] \notin Retryable \/ i = Retries + 1
                    /\ \A j \in 1..(i - 1) : tries[j] \in Retryable
    IN  tries[last]

\* What a caller may be given.
Answerable == {Settled(tries) : tries \in [1..(Retries + 1) -> Outcomes]}
=============================================================================
