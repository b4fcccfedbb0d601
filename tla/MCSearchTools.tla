--------------------------- MODULE MCSearchTools ---------------------------
(* Small instances of SearchTools: two calls at a time, plans of one to three
   rounds that bring concurrent calls of the same tool together. *)
EXTENDS SearchTools

MCCalls == {1, 2}

Call(tool, args) == [tool |-> tool, args |-> args]
Runtime == Call("inspect_runtime_evidence", "none")
Architecture == Call("inspect_architecture_evidence", "none")
Truth(a) == Call("inspect_source_of_truth", a)
Statuses(a) == Call("inspect_source_status", a)
Proposes == Call("test_sensitive_action", "a")

Asks(a, mode, related, marked, valid) ==
    [tool |-> "web_search", args |-> a, mode |-> mode, related |-> related,
     marked |-> marked, valid |-> valid, most |-> IF related THEN 3 ELSE 2, official |-> TRUE, recency |-> TRUE]
Looks4(a, intent) ==
    [tool |-> "academic_search", args |-> a, intent |-> intent, valid |-> intent # "refused", most |-> 3]
Hubs(a, intent, about, repository, number, bare) ==
    [tool |-> "github_search", args |-> a, valid |-> intent # "unheard of", intent |-> intent,
     about |-> about, repository |-> repository, number |-> number, bare |-> bare]
Repositories(a) == Hubs(a, "repository", "auto", "none", 0, FALSE)
Issues(a, repository, number, bare) == Hubs(a, "issue", "auto", repository, number, bare)
Guesses(a, about) == Hubs(a, "auto", about, "none", 0, FALSE)
Of(a, intent, repository, number) == Hubs(a, intent, "auto", repository, number, FALSE)
Reads(a, valid) == [tool |-> "search_my_files", args |-> a, valid |-> valid, most |-> 2]

MCPlans == {
    <<<<Truth("a"), Truth("a")>>, <<Truth("b"), Truth("a")>>, <<Truth("a")>>>>,
    <<<<Runtime, Architecture>>, <<Statuses("a"), Proposes>>, <<Runtime, Statuses("a")>>>>,
    <<<<Asks("a", "DEEP", TRUE, TRUE, TRUE)>>>>,
    <<<<Asks("a", "DEEP", FALSE, TRUE, TRUE), Asks("b", "DEEP", FALSE, FALSE, TRUE)>>>>,
    <<<<Asks("a", "FAST", TRUE, FALSE, TRUE), Asks("b", "DEEP", TRUE, FALSE, FALSE)>>>>,
    <<<<Looks4("a", "doi"), Looks4("b", "doi citations")>>>>,
    <<<<Looks4("a", "exact_title"), Looks4("b", "topic")>>>>,
    <<<<Looks4("a", "not a doi"), Looks4("b", "author")>>, <<Looks4("a", "refused")>>>>,
    <<<<Repositories("a"), Of("b", "releases", "named", 0)>>, <<Repositories("a")>>>>,
    <<<<Issues("a", "none", 0, FALSE), Issues("b", "named", 0, FALSE)>>,
      <<Of("c", "repository_lookup", "named", 0)>>>>,
    <<<<Issues("a", "named", 0, TRUE), Issues("b", "named", 7, FALSE)>>>>,
    <<<<Of("a", "issue_lookup", "named", 7), Of("b", "release", "named", 0)>>>>,
    <<<<Of("a", "issue_lookup", "named", 0), Of("a", "releases", "none", 0)>>,
      <<Of("a", "issue_lookup", "named", 0)>>>>,
    <<<<Of("a", "unheard of", "none", 0), Of("b", "repository", "bad name", 0)>>,
      <<Guesses("a", "auto"), Guesses("b", "repository")>>>>,
    <<<<Reads("a", TRUE), Reads("b", FALSE)>>>> }

Page(u, canon, site, title, prio, class, snip, text, age, safe) ==
    [url |-> u, canonical |-> canon, site |-> site, title |-> title, priority |-> prio,
     class |-> class, snippet |-> snip, text |-> text, age |-> age, safe |-> safe]

\* One page under two urls, a page of its site with a title like it and one with a
\* title like that, a primary source elsewhere, a page with an unsafe url.
PageA  == Page(1, 1, "s", 1, 5, "unknown", 1, 3, "month", TRUE)
PageA2 == Page(2, 1, "s", 7, 4, "unknown", 2, 3, "month", TRUE)
PageB  == Page(3, 3, "s", 2, 3, "unknown", 2, 2, "year", TRUE)
PageC  == Page(4, 4, "t", 9, 6, "primary", 1, 2, "older", TRUE)
PageD  == Page(5, 5, "u", 8, 2, "unknown", 1, 1, "older", FALSE)
PageE  == Page(6, 6, "s", 3, 1, "unknown", 1, 1, "month", TRUE)
MCPages == {PageA, PageA2, PageB, PageC, PageD, PageE}
MCTavily == {<<>>, <<PageA, PageE>>, <<PageB, PageD>>, <<PageC>>}
MCBrave == {<<>>, <<PageA2, PageC>>, <<PageB, PageA>>}

Spelled(name, spelled) == [name |-> name, spelled |-> spelled]
Work(id, doi, title, notice, cited) ==
    [id |-> id, doi |-> doi, title |-> title, signed |-> "S", notice |-> notice, cited |-> cited]
NoDoi == Spelled("", "plain")

\* Works in different spellings, two of them retracted at OpenAlex and one of these an
\* update at Crossref; one whose DOI is none; works that have none, an id or not.
CrossrefX == Work("", Spelled("x", "plain"), "T", "", 3)
CrossrefY == Work("", Spelled("y", "capitals"), "", "updates", 1)
CrossrefZ == Work("", Spelled("z", "malformed"), "T", "", 0)
CrossrefN == Work("", NoDoi, "", "updates", 2)
OpenAlexX == Work("w1", Spelled("x", "address"), "U", "retracted", 5)
OpenAlexY == Work("w2", Spelled("y", "address"), "T", "retracted", 0)
OpenAlexI == Work("w3", NoDoi, "", "", 2)
OpenAlexN == Work("", NoDoi, "", "retracted", 1)
MCCrossref == {<<>>, <<CrossrefX>>, <<CrossrefX, CrossrefY>>, <<CrossrefZ, CrossrefN>>}
MCOpenAlex == {<<>>, <<OpenAlexX, OpenAlexI>>, <<OpenAlexY, OpenAlexX>>, <<OpenAlexI, OpenAlexN>>}

MCQuotas == [core |-> 2, search |-> 1]

MCChunks == {[document |-> 1, index |-> 1, bonus |-> 0], [document |-> 1, index |-> 2, bonus |-> 1],
             [document |-> 2, index |-> 1, bonus |-> 0]}

MCKeyrings == {{"tavily", "brave"}, {"brave"}, {"tavily"}}

\* A choice of the initial state that the plan's tools do not look at is made once.
PlansFor(tool) == \E i \in 1..Len(plan) : \E c \in DOMAIN plan[i] : plan[i][c].tool = tool
MCInit ==
    /\ Init
    /\ PlansFor("web_search") \/ keys = {"tavily", "brave"}
    /\ PlansFor("search_my_files") \/ library = [d \in Documents |-> "ready"]

MCSpec == MCInit /\ [][Next]_vars
=============================================================================
