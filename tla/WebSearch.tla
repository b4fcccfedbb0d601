----------------------------- MODULE WebSearch -----------------------------
(***************************************************************************)
(* web_search: the Tavily pipeline of skill_tools (related queries, credit *)
(* budget, ranking, two rounds of extraction) and the fabric of            *)
(* search_fabric, which asks Brave beside it or after it and merges.       *)
(*                                                                         *)
(* A page is a record of what ranking and merging look at: its url (as     *)
(* skill_tools normalizes it) and canonical url (as search_fabric does),   *)
(* its site, title, priority and class, how much text a snippet and an     *)
(* extraction of it hold, how old it is and whether its url is safe.       *)
(***************************************************************************)
EXTENDS ToolCalls, HttpRetry, RankFusion, SequencesExt

\* How old a page is: up to 30 days, up to 365, or more, or not known.
Ages == {"month", "year", "older"}

CONSTANTS
    Pages,          \* what the web holds
    TavilyCatches,  \* the pages a reply of Tavily may list, in its order
    BraveCatches,   \* the same of Brave
    Costs,          \* credits a reply may tell of; 0 when it tells nothing
    Queries,        \* MAX_RESEARCH_QUERIES
    Parallel,       \* MAX_CONCURRENT_SEARCHES
    Budget,         \* DEEP_CREDIT_BUDGET
    FastSources,    \* how many sources a FAST search keeps
    DeepSources,    \* MAX_DEEP_SOURCES
    Enabled,        \* BRAVE_SEARCH_ENABLED
    Keyrings        \* the sets of providers there may be keys for

\* Priorities are sums of fractions of the provider's score: no two are equal.  The
\* canonical url of a safe page names its host; the site is the host without its www.
ASSUME PageAssumption ==
    /\ IsFiniteSet(Pages)
    /\ Pages \subseteq [url : Nat, canonical : Nat, site : STRING, title : Nat,
                        priority : Int, class : STRING, snippet : Nat, text : Nat,
                        age : Ages, safe : BOOLEAN]
    /\ \A p, q \in Pages :
         /\ p.priority = q.priority => p = q
         /\ (p.safe /\ q.safe /\ p.canonical = q.canonical) => p.site = q.site

\* A question asks for so many results, at least one.
ASSUME ResultAssumption ==
    \A r \in Rounds : \A c \in DOMAIN r : r[c].tool = "web_search" => r[c].most \in Nat \ {0}

\* No list of results is longer than the ranks there are shares for.
ASSUME CatchAssumption ==
    /\ TavilyCatches \subseteq Seq(Pages)
    /\ BraveCatches \subseteq Seq(Pages)
    /\ \A pages \in BraveCatches : Len(pages) <= Ranks

ASSUME LimitAssumption ==
    /\ Queries \in Nat \ {0} /\ Parallel \in Nat \ {0} /\ Budget \in Nat \ {0}
    /\ FastSources \in 1..Ranks /\ DeepSources \in 1..Ranks

ASSUME CostAssumption ==
    /\ Costs \subseteq Nat
    /\ \E dearest \in Costs : \A cost \in Costs : cost <= dearest

VARIABLES
    keys,           \* the providers there are keys for
    brave,          \* BraveProvider._state["status"]
    web             \* the state of each call's search

webVars == <<keys, brave, web>>

\* A hit: a page, who found it and at which rank.
Hit(p, by, rank) == [page |-> p, by |-> by, rank |-> rank]

NoSearch == [tavily |-> "off", brave |-> "off", asked |-> 0, known |-> 0, found |-> {},
             ranked |-> <<>>, got |-> {}, ok |-> FALSE, hits |-> <<>>, braveHits |-> <<>>,
             fused |-> <<>>]

WebTypeOK ==
    /\ keys \in Keyrings
    /\ brave \in {"READY", "RATE_LIMITED", "UNAUTHORIZED", "ERROR"}
    /\ \A c \in Calls :
         /\ DOMAIN web[c] = DOMAIN NoSearch
         /\ web[c].tavily \in {"off", "search", "basic", "advanced", "ended", "told"}
         /\ web[c].brave \in {"off", "asked", "ended"}
         /\ web[c].asked \in 0..Queries /\ web[c].known \in Nat /\ web[c].ok \in BOOLEAN
         /\ web[c].found \subseteq Pages /\ web[c].ranked \in Seq(Pages)
         /\ web[c].got \subseteq 1..Len(web[c].ranked)
         /\ \A h \in ToSet(web[c].hits) \cup ToSet(web[c].braveHits) : h.rank \in 1..Ranks

WebInit ==
    /\ keys \in Keyrings
    /\ brave = "READY"
    /\ web = [c \in Calls |-> NoSearch]

-----------------------------------------------------------------------------
\* The Tavily pipeline.

Deep(c) == Asked(c).mode = "DEEP"

\* _research_queries: FAST and plain questions are asked once.
Wanted(c) == IF Deep(c) /\ Asked(c).related THEN Queries ELSE 1

\* _tavily_post and _run_tavily_query: no reply after the retries and a reply
\* without results are alike to the caller.
NoReply == [pages |-> <<>>, credits |-> 0]
Reply(outcome) ==
    IF outcome = "ok" THEN [pages : TavilyCatches, credits : Costs] ELSE {NoReply}
Replies == UNION {Reply(outcome) : outcome \in Answerable}

Better(p, q) == p.priority > q.priority

\* _rank_and_deduplicate: the best page of each url, at most two of a site.
Best(found) == {p \in found : \A q \in found : q.url = p.url => ~Better(q, p)}
Ranked(found, limit) ==
    LET best == Best(found)
        kept == {p \in best :
                   Cardinality({q \in best : q.site = p.site /\ Better(q, p)}) < 2}
        seq  == InOrder(kept, Better)
    IN  SubSeq(seq, 1, IF Len(seq) < limit THEN Len(seq) ELSE limit)

\* The hits of a list, up to a rank: an unsafe url is dropped without moving the ranks.
HitsOf(pages, by, most) ==
    LET safe == Ascending({i \in 1..Len(pages) : i <= most /\ pages[i].safe})
    IN  [k \in DOMAIN safe |-> Hit(pages[safe[k]], by, safe[k])]

\* TavilyProvider.search: what an extraction read stands in for the snippet.
TavilyHits(ranked, got) ==
    HitsOf([i \in 1..Len(ranked) |-> IF i \in got THEN [ranked[i] EXCEPT !.snippet = ranked[i].text]
                                     ELSE ranked[i]],
           "tavily", Len(ranked))

BraveReady == "brave" \in keys /\ brave = "READY"

\* _tavily_web_search returns.  The fabric goes on at once: if it failed and Brave
\* was not asked beside it, Brave is asked now.
TavilyEnds(c, search, ok) ==
    [search EXCEPT
        !.tavily = "ended",
        !.found = {},
        !.ok = ok,
        !.hits = TavilyHits(search.ranked, search.got),
        !.brave = IF ~ok /\ Deep(c) /\ @ = "off" /\ BraveReady THEN "asked" ELSE @]

\* SearchFabric.search begins; Brave is asked beside Tavily if the question is one
\* of those it is for.  A question too long, or no key, ends Tavily's part at once.
Routed(c) == Deep(c) /\ Enabled /\ Asked(c).marked /\ BraveReady

StartWeb(c) ==
    LET begun == [NoSearch EXCEPT !.brave = IF Routed(c) THEN "asked" ELSE "off"]
    IN  /\ at[c] = "work" /\ Asked(c).tool = "web_search"
        /\ web[c].tavily = "off"
        /\ web' = [web EXCEPT ![c] =
              IF Asked(c).valid /\ "tavily" \in keys
              THEN [begun EXCEPT !.tavily = "search"]
              ELSE TavilyEnds(c, begun, FALSE)]
        /\ UNCHANGED <<keys, brave, toolVars>>

\* After the last batch: rank, and extract unless the budget is spent.
AfterQueries(c, search) ==
    LET limit == IF Deep(c) THEN DeepSources ELSE FastSources
        done  == [search EXCEPT !.ranked = Ranked(search.found, limit)]
    IN  IF done.ranked = <<>> THEN TavilyEnds(c, done, FALSE)
        ELSE IF ~Deep(c) \/ search.known >= Budget THEN TavilyEnds(c, done, TRUE)
        ELSE [done EXCEPT !.tavily = "basic", !.found = {}]

\* Mutant: the batches go on whatever they have cost.
UnboundedQueries(c, search) == search.asked < Wanted(c)

\* Another batch, unless the credits known to be spent reach the budget.
MoreQueries(c, search) == search.asked < Wanted(c) /\ search.known < Budget

\* What the replies tell of their cost, added up: the credits, counted one by one.
Sum(replies) ==
    Cardinality({p \in (DOMAIN replies) \X (1..Max(Costs)) : p[2] <= replies[p[1]].credits})

\* One batch of related queries has been answered: nothing looks at its replies
\* before the last of them is there.
Batch(c) ==
    /\ at[c] = "work" /\ web[c].tavily = "search"
    /\ LET left == Wanted(c) - web[c].asked
           size == IF left < Parallel THEN left ELSE Parallel
       IN  \E replies \in [1..size -> Replies] :
             LET search == [web[c] EXCEPT
                              !.asked = @ + size,
                              !.known = @ + Sum(replies),
                              !.found = @ \cup UNION {ToSet(replies[i].pages) : i \in 1..size}]
             IN  web' = [web EXCEPT ![c] =
                    IF MoreQueries(c, search) THEN search ELSE AfterQueries(c, search)]
    /\ UNCHANGED <<keys, brave, toolVars>>

\* _run_tavily_extract: each url is extracted, or not (failed and blank alike); a
\* request that failed extracts none.
Extract(c) ==
    /\ at[c] = "work" /\ web[c].tavily = "basic"
    /\ \E got \in SUBSET (1..Len(web[c].ranked)) :
         LET search == [web[c] EXCEPT !.got = got]
         IN  web' = [web EXCEPT ![c] =
                IF got = 1..Len(search.ranked) THEN TavilyEnds(c, search, TRUE)
                ELSE [search EXCEPT !.tavily = "advanced"]]
    /\ UNCHANGED <<keys, brave, toolVars>>

\* The rest is tried again, harder.
ExtractAgain(c) ==
    /\ at[c] = "work" /\ web[c].tavily = "advanced"
    /\ \E more \in SUBSET ((1..Len(web[c].ranked)) \ web[c].got) :
         web' = [web EXCEPT ![c] =
                   TavilyEnds(c, [web[c] EXCEPT !.got = @ \cup more], TRUE)]
    /\ UNCHANGED <<keys, brave, toolVars>>

-----------------------------------------------------------------------------
\* BraveProvider.search: one attempt; its status is the last answer's.
BraveHits(c, pages) == HitsOf(pages, "brave", Asked(c).most)

BraveStatus(outcome) ==
    CASE outcome = "ok" -> "READY"
      [] outcome = "limited" -> "RATE_LIMITED"
      [] outcome = "refused" -> "UNAUTHORIZED"
      [] outcome \in {"missing", "server", "network"} -> "ERROR"

BraveAnswers(c) ==
    /\ at[c] = "work" /\ web[c].brave = "asked"
    /\ \E outcome \in Outcomes :
         /\ brave' = BraveStatus(outcome)
         /\ \E pages \in IF outcome = "ok" THEN BraveCatches ELSE {<<>>} :
              web' = [web EXCEPT ![c].brave = "ended", ![c].braveHits = BraveHits(c, pages)]
    /\ UNCHANGED <<keys, toolVars>>

-----------------------------------------------------------------------------
\* _merge_results.

\* Titles that SequenceMatcher finds alike; not transitive.
AlikeTitles(s, t) == s - t \in {-1, 0, 1}

\* Mutant: only titles are compared, and a url may be in two groups.
HomeByTitle(groups, hit) ==
    LET near == {g \in 1..Len(groups) :
                   AlikeTitles(groups[g][1].page.title, hit.page.title)}
    IN  IF near = {} THEN Len(groups) + 1 ELSE Min(near)

\* The group a hit belongs to: one that has its url, else the first whose first
\* member is a page of the same site with a title like it, else a new one.
Home(groups, hit) ==
    LET same == {g \in 1..Len(groups) :
                   \E h \in ToSet(groups[g]) : h.page.canonical = hit.page.canonical}
        near == {g \in 1..Len(groups) :
                   /\ groups[g][1].page.site = hit.page.site
                   /\ AlikeTitles(groups[g][1].page.title, hit.page.title)}
        home == IF same # {} THEN same ELSE near
    IN  IF home = {} THEN Len(groups) + 1 ELSE Min(home)

Joined(groups, hit) ==
    LET g == Home(groups, hit)
    IN  IF g > Len(groups) THEN Append(groups, <<hit>>)
        ELSE [groups EXCEPT ![g] = Append(@, hit)]

\* The groups after so many hits.
Grouping(hits) ==
    LET after[n \in 0..Len(hits)] == IF n = 0 THEN <<>> ELSE Joined(after[n - 1], hits[n])
    IN  after

Grouped(hits) == Grouping(hits)[Len(hits)]

Primary(page) == page.class = "primary"

\* The member that stands for a group: most text, then primary, then best ranked.
Ahead(h, k) ==
    \/ h.page.snippet > k.page.snippet
    \/ /\ h.page.snippet = k.page.snippet
       /\ \/ Primary(h.page) /\ ~Primary(k.page)
          \/ (Primary(h.page) <=> Primary(k.page)) /\ h.rank < k.rank

Representative(group) ==
    LET best == {i \in 1..Len(group) : \A j \in 1..Len(group) : ~Ahead(group[j], group[i])}
    IN  group[Min(best)].page

\* The best rank each provider gave to a member.
RanksOf(group) ==
    [by \in {h.by : h \in ToSet(group)} |-> Min({h.rank : h \in {k \in ToSet(group) : k.by = by}})]

\* _recent_bonus, for a question that asks for news.
RecentBonus(page) ==
    CASE page.age = "month" -> 4
      [] page.age = "year" -> 1
      [] OTHER -> 0

\* Reciprocal ranks, 0.03 for a primary source and 0.12 more for it if an official
\* one is asked for, and the bonus of its age.
ShareOf(ranks, by) == IF by \in DOMAIN ranks THEN Share(ranks[by]) ELSE 0
Score(c, page, ranks) ==
    ShareOf(ranks, "tavily") + ShareOf(ranks, "brave")
    + Hundredths((IF Primary(page) THEN 3 ELSE 0)
                 + (IF Primary(page) /\ Asked(c).official THEN 12 ELSE 0)
                 + (IF Asked(c).recency THEN RecentBonus(page) ELSE 0))

Fused(c, group) ==
    LET page == Representative(group)
        ranks == RanksOf(group)
    IN  [page |-> page, ranks |-> ranks, score |-> Score(c, page, ranks)]

\* The order of the answer; the url breaks the last ties.
Before(f, g) ==
    LET place(x) == <<-x.score, IF Primary(x.page) THEN 0 ELSE 1,
                      Min(Range(x.ranks)), x.page.canonical>>
    IN  \E i \in 1..4 : /\ place(f)[i] < place(g)[i]
                        /\ \A j \in 1..(i - 1) : place(f)[j] = place(g)[j]

Merged(c, hits) ==
    LET groups == Grouped(hits)
        fused(i) == Fused(c, groups[i])
        stable(i, j) == \/ Before(fused(i), fused(j))
                        \/ ~Before(fused(j), fused(i)) /\ i < j
        order == InOrder(1..Len(groups), stable)
    IN  [i \in 1..(IF Len(order) < Asked(c).most THEN Len(order) ELSE Asked(c).most)
            |-> fused(order[i])]

\* Mutant: a Brave that has answered counts, with pages or without.
BraveAnswered(search) == search.brave = "ended"

\* SearchFabric.search returns.  Tavily's part is never None, so its last two
\* answers, Brave alone and nobody, are not reached.
BraveCounts(search) == search.braveHits # <<>>

EndWeb(c) ==
    /\ web[c].tavily = "ended" /\ web[c].brave # "asked"
    /\ LET merges == web[c].brave = "ended" /\ BraveCounts(web[c])
           ok == merges \/ web[c].ok
       IN  /\ web' = [web EXCEPT ![c].tavily = "told",
                                 ![c].fused = IF merges THEN Merged(c, web[c].hits \o web[c].braveHits)
                                              ELSE <<>>]
           /\ Returns(c, Returned(ok, IF ok THEN "none" ELSE "unavailable"))
    /\ UNCHANGED <<keys, brave>>

WebStep(c) ==
    \/ StartWeb(c) \/ Batch(c) \/ Extract(c) \/ ExtractAgain(c)
    \/ BraveAnswers(c) \/ EndWeb(c)

-----------------------------------------------------------------------------
\* A web answer the model is handed as a result rests on a provider that found
\* something for this very call: an outage of both is never passed on as "nothing
\* there".
NoSilentOutage ==
    \A c \in Calls :
        (said[c].what = "result" /\ Asked(c).tool = "web_search") =>
            web[c].ranked # <<>> \/ web[c].braveHits # <<>>

\* What a DEEP search learns of its cost stops it: the credits it knows to be spent
\* exceed the budget by at most what one batch of concurrent queries can cost.  The
\* credits of extractions are reported and compared with no budget.
SpendingIsBounded ==
    \A c \in Calls :
        web[c].known <= (Budget - 1) + Parallel * Max(Costs)

\* The merged list names no url twice, drops no source but those after the last
\* one it keeps, and is fair: a source that every provider ranks as well as
\* another one of its class and age does not come after it.
SameKind(f, g) ==
    /\ Primary(f.page) <=> Primary(g.page)
    /\ f.page.age = g.page.age
AsWellRanked(f, g) ==
    \A by \in DOMAIN g.ranks : by \in DOMAIN f.ranks /\ f.ranks[by] < g.ranks[by]

SameSource(page, other) == page.canonical = other.canonical \/ page.site = other.site

FairFusion(hits, list, most) ==
    /\ \A i, j \in 1..Len(list) :
         i < j => /\ list[i].page.canonical # list[j].page.canonical
                  /\ ~(SameKind(list[i], list[j]) /\ AsWellRanked(list[j], list[i]))
    /\ \A i \in 1..Len(list) : \A by \in DOMAIN list[i].ranks :
         \E h \in ToSet(hits) : /\ h.by = by /\ h.rank = list[i].ranks[by]
                                /\ SameSource(h.page, list[i].page)
    /\ (list # <<>> /\ Len(list) < most) =>
         \A h \in ToSet(hits) : \E i \in 1..Len(list) : SameSource(h.page, list[i].page)

FusionIsFair ==
    \A c \in Calls : FairFusion(web[c].hits \o web[c].braveHits, web[c].fused, Asked(c).most)
=============================================================================
