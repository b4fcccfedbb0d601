---------------------------- MODULE GitHubSearch ----------------------------
(***************************************************************************)
(* github_search: the routing by intent, one request a call, and what the  *)
(* provider notes of each answer: its status, and what GitHub says is left  *)
(* of the quota of the bucket asked.  GitHub counts when it handles a       *)
(* request; the answer may arrive after that of a later one.               *)
(***************************************************************************)
EXTENDS ToolCalls, HttpRetry

CONSTANTS
    Quotas,         \* GitHub's own limit of each bucket
    Unknown         \* a figure never given

ASSUME QuotaAssumption ==
    /\ Quotas \in [{"core", "search"} -> Nat]
    /\ Unknown \notin Nat

VARIABLES
    status,         \* _ProviderState.status
    remaining,      \* _RateLimit.remaining of each bucket
    left,           \* at GitHub: what is left of it
    told,           \* history: what GitHub has said was left of it
    repo            \* the state of each call's search

gitHubVars == <<status, remaining, left, told, repo>>

Buckets == {"core", "search"}

\* An answer under way: how the retry loop ends, and the header of that answer.
NoRepo == [step |-> "off", end |-> "ok", header |-> Unknown]

GitHubTypeOK ==
    /\ status \in {"READY", "UNAUTHORIZED", "RATE_LIMITED", "ERROR"}
    /\ remaining \in [Buckets -> Nat \cup {Unknown}]
    /\ \A b \in Buckets : left[b] \in 0..Quotas[b] /\ told[b] \subseteq 0..Quotas[b]
    /\ \A c \in Calls :
         /\ DOMAIN repo[c] = DOMAIN NoRepo
         /\ repo[c].step \in {"off", "asked", "handled", "told"}

GitHubInit ==
    /\ status = "READY"
    /\ remaining = [b \in Buckets |-> Unknown]
    /\ left = Quotas
    /\ told = [b \in Buckets |-> {}]
    /\ repo = [c \in Calls |-> NoRepo]

-----------------------------------------------------------------------------
\* A request names a repository or none, or something that is no name; it has an
\* issue's number or 0; its query may be the repository's name and nothing else, and
\* is about something _intent_from_query tells ("auto": nothing GitHub's).

\* The intent: given, or read off the query.
Intent(ask) ==
    CASE ask.intent = "auto" -> ask.about
      [] ask.intent = "release" -> "latest_release"
      [] ask.intent \notin {"auto", "release"} -> ask.intent

Named(ask, request) == IF ask.repository = "named" THEN request ELSE "refused"

\* GitHubSearchService.search: the request each intent comes to.
Endpoint(ask) ==
    CASE Intent(ask) = "repository" -> "search_repositories"
      [] Intent(ask) = "repository_lookup" -> Named(ask, "lookup_repository")
      [] Intent(ask) = "latest_release" -> Named(ask, "latest_release")
      [] Intent(ask) = "releases" -> Named(ask, "list_releases")
      [] Intent(ask) = "issue_lookup" ->
            IF ask.number = 0 THEN "refused" ELSE Named(ask, "lookup_issue")
      [] Intent(ask) = "issue" ->
            IF ask.repository # "named" THEN "search_issues"
            ELSE IF ask.number # 0 THEN "lookup_issue"
            ELSE IF ask.bare THEN "list_issues" ELSE "search_issues"
      [] Intent(ask) = "auto" -> "none"

\* Where each request counts.
Bucket(ask) ==
    IF Endpoint(ask) \in {"search_repositories", "search_issues"} THEN "search" ELSE "core"

\* A refusal of the arguments, a name that is not one (it raises), a question that is
\* not GitHub's (ok, and not routed), a refusal for want of a repository, or a request.
StartGitHub(c) ==
    LET ask == Asked(c)
        Told == repo' = [repo EXCEPT ![c].step = "told"]
    IN  /\ at[c] = "work" /\ ask.tool = "github_search" /\ repo[c].step = "off"
        /\ \/ /\ ~ask.valid
              /\ Told /\ Returns(c, Returned(FALSE, "arguments"))
           \/ /\ ask.valid /\ ask.repository = "bad name"
              /\ Told /\ Returns(c, Raised)
           \/ /\ ask.valid /\ ask.repository # "bad name" /\ Endpoint(ask) = "none"
              /\ Told /\ Returns(c, Returned(TRUE, "none"))
           \/ /\ ask.valid /\ ask.repository # "bad name" /\ Endpoint(ask) = "refused"
              /\ Told /\ Returns(c, Returned(FALSE, "arguments"))
           \/ /\ ask.valid /\ ask.repository # "bad name"
              /\ Endpoint(ask) \notin {"none", "refused"}
              /\ repo' = [repo EXCEPT ![c].step = "asked"]
              /\ UNCHANGED toolVars
        /\ UNCHANGED <<status, remaining, left, told>>

\* GitHub counts a request in the bucket of its endpoint.
Counts(b) == left' = [left EXCEPT ![b] = @ - 1]

\* The answer under way, and an answer that says what is left.
HandlesAs(c, end, header) ==
    repo' = [repo EXCEPT ![c] = [step |-> "handled", end |-> end, header |-> header]]

Says(c, end, n) ==
    /\ HandlesAs(c, end, n)
    /\ told' = [told EXCEPT ![Bucket(Asked(c))] = @ \cup {n}]

\* GitHub handles the last request of the retry loop: it counts, and says what is
\* left, or is out of quota, or refuses; or it, or the network, fails and says
\* nothing.  _http_json never gives up on a 429 or a 5xx before the last attempt.
GitHubHandles(c) ==
    /\ at[c] = "work" /\ repo[c].step = "asked"
    /\ LET b == Bucket(Asked(c))
       IN  \/ /\ left[b] > 0
              /\ Counts(b)
              /\ \E end \in {"ok", "missing", "shapeless"} : Says(c, end, left[b] - 1)
           \/ /\ left[b] = 0
              /\ Says(c, "limited", 0)
              /\ UNCHANGED left
           \/ /\ Says(c, "refused", left[b])
              /\ UNCHANGED left
           \/ \E end \in Answerable \cap {"server", "network"} :
                /\ HandlesAs(c, end, Unknown)
                /\ UNCHANGED <<left, told>>
    /\ UNCHANGED <<status, remaining, toolVars>>

\* The window of a bucket ends at GitHub.
QuotaReset(b) ==
    /\ left[b] < Quotas[b]
    /\ left' = [left EXCEPT ![b] = Quotas[b]]
    /\ UNCHANGED <<status, remaining, told, repo, toolVars>>

\* _ProviderState.success and failure.  A 404 is a failure here: only a 401 and an
\* exhausted quota have a status of their own.  "refused" is a 401 or another 403.
Shown(end) ==
    CASE end = "ok" -> {"READY"}
      [] end = "limited" -> {"RATE_LIMITED"}
      [] end = "refused" -> {"UNAUTHORIZED", "ERROR"}
      [] end \in {"missing", "shapeless", "server", "network"} -> {"ERROR"}

\* Mutant: the figures of the one bucket are kept for the other.
KeptForBoth(b, header) ==
    [x \in Buckets |-> IF header = Unknown THEN remaining[x] ELSE header]

\* _rate_limit: the bucket's own figures, kept when the header is missing.
Kept(b, header) ==
    [remaining EXCEPT ![b] = IF header = Unknown THEN @ ELSE header]

\* The answer is there.  A provider that failed is an answer without results.
GitHubAnswers(c) ==
    /\ at[c] = "work" /\ repo[c].step = "handled"
    /\ status' \in Shown(repo[c].end)
    /\ remaining' = Kept(Bucket(Asked(c)), repo[c].header)
    /\ repo' = [repo EXCEPT ![c] = [NoRepo EXCEPT !.step = "told"]]
    /\ Returns(c, Returned(TRUE, "none"))
    /\ UNCHANGED <<left, told>>

GitHubStep(c) == StartGitHub(c) \/ GitHubHandles(c) \/ GitHubAnswers(c)

-----------------------------------------------------------------------------
\* What health shows to be left of a bucket is a figure GitHub gave for that very
\* bucket: concurrent answers, late as they may be, and answers without the header
\* never mix the quota of searches with the rest.
QuotasAreGitHubs ==
    \A b \in Buckets : remaining[b] # Unknown => remaining[b] \in told[b]
=============================================================================
