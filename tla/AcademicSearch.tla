--------------------------- MODULE AcademicSearch ---------------------------
(***************************************************************************)
(* academic_search: the intents, the resolution of a DOI through Crossref's *)
(* agency endpoint and the registries, OpenAlex and its citation graph, the *)
(* health each request leaves behind, and the merge of the records found.   *)
(*                                                                         *)
(* What a provider lists is a work with an id of its own there, a doi as it *)
(* spells it, a title (up to case), who signed it and when, a notice and a   *)
(* count; each may be missing ("").  The record made of it has the doi       *)
(* normalized, and the fields the merge treats differently: title (the       *)
(* registry's first), update_status (the first notice there is) and          *)
(* citation_count (the greatest).                                            *)
(***************************************************************************)
EXTENDS ToolCalls, HttpRetry, Orders, SequencesExt

CONSTANTS
    CrossrefLists,      \* the works a Crossref reply may list
    OpenAlexLists,      \* the same of OpenAlex
    Agencies            \* what the agency endpoint may name; "" when nothing

ASSUME AgencyAssumption == "" \in Agencies

\* What academic_search is asked for, when its arguments are valid.
Intents == {"doi", "doi citations", "not a doi", "exact_title", "author", "topic",
            "latest_research", "citations"}

\* A question asks for so many results, at least one: one that does not is refused
\* (valid is FALSE), and its number is not looked at.
ASSUME IntentAssumption ==
    \A r \in Rounds : \A c \in DOMAIN r : r[c].tool = "academic_search" =>
        r[c].most \in Nat \ {0} /\ (r[c].valid => r[c].intent \in Intents)

VARIABLES
    health,             \* _ProviderState.status of each provider
    paper               \* the state of each call's search

academicVars == <<health, paper>>

Registries == {"crossref", "datacite"}
Sources == Registries \cup {"openalex"}

\* metadata says what the answer does of a DOI; owner is the provider whose record
\* it carries; heard is a history: how the lookups of the registries ended.
NoPaper == [step |-> "off", agency |-> "", metadata |-> "none", owner |-> "",
            heard |-> {}, found |-> <<>>, merged |-> <<>>]

Steps == {"off", "agency", "lookup", "datacite", "crossref", "work", "graph", "cited",
          "title", "topic", "authors", "told"}

AcademicTypeOK ==
    /\ health \in [Sources -> {"READY", "RATE_LIMITED", "ERROR"}]
    /\ \A c \in Calls :
         /\ DOMAIN paper[c] = DOMAIN NoPaper
         /\ paper[c].step \in Steps
         /\ paper[c].agency \in Agencies \cup Registries
         /\ paper[c].metadata \in {"none", "READY", "NOT_FOUND", "NOT_AVAILABLE"}
         /\ paper[c].owner \in {""} \cup Registries
         /\ paper[c].heard \subseteq Registries \X {"found", "missing", "outage"}

AcademicInit ==
    /\ health = [s \in Sources |-> "READY"]
    /\ paper = [c \in Calls |-> NoPaper]

-----------------------------------------------------------------------------
\* _http_json and _get.  A 404 is no failure, and what a provider answers that is
\* not of the shape asked for is one.
Ends == Answerable \cup {"shapeless"}

Marked(status, end) ==
    CASE end = "ok" -> "READY"
      [] end = "missing" -> status
      [] end = "limited" -> "RATE_LIMITED"
      [] end \in {"refused", "server", "network", "shapeless"} -> "ERROR"

Notes(s, end) == health' = [health EXCEPT ![s] = Marked(@, end)]

\* lookup_doi of a registry, and how it went.
Lookup(end) == IF end = "ok" THEN "found" ELSE IF end = "missing" THEN "missing" ELSE "outage"

Goes(c, steps) == at[c] = "work" /\ paper[c].step \in steps
Becomes(c, p) == paper' = [paper EXCEPT ![c] = p]

\* The call's function returns.
Tells(c, p, ok) ==
    /\ Becomes(c, [p EXCEPT !.step = "told"])
    /\ Returns(c, Returned(ok, IF ok THEN "none" ELSE "terminal"))

\* AcademicSearchService.search: refusals, then by intent, detected if it was "auto".
\* The citations of a question that names no DOI are searched as a topic.
FirstStep(intent) ==
    CASE intent \in {"doi", "doi citations"} -> "agency"
      [] intent = "exact_title" -> "title"
      [] intent = "author" -> "authors"
      [] intent \in {"topic", "latest_research", "citations"} -> "topic"

StartAcademic(c) ==
    /\ Goes(c, {"off"}) /\ Asked(c).tool = "academic_search"
    /\ \/ /\ ~Asked(c).valid
          /\ Becomes(c, [NoPaper EXCEPT !.step = "told"])
          /\ Returns(c, Returned(FALSE, "arguments"))
       \/ /\ Asked(c).valid /\ Asked(c).intent = "not a doi"
          /\ Tells(c, NoPaper, FALSE)
       \/ /\ Asked(c).valid /\ Asked(c).intent # "not a doi"
          /\ Becomes(c, [NoPaper EXCEPT !.step = FirstStep(Asked(c).intent)])
          /\ UNCHANGED toolVars
    /\ UNCHANGED health

-----------------------------------------------------------------------------
\* DOIResolver.resolve.

\* The resolver is done: its answer, or, for the citations of a DOI, OpenAlex next.
Resolved(c, p) ==
    IF Asked(c).intent = "doi citations"
    THEN Becomes(c, [p EXCEPT !.step = "work"]) /\ UNCHANGED toolVars
    ELSE Tells(c, p, p.metadata # "NOT_FOUND")

AskAgency(c) ==
    /\ Goes(c, {"agency"})
    /\ \E end \in Answerable :
         /\ Notes("crossref", end)
         /\ \E agency \in IF end = "ok" THEN Agencies ELSE {""} :
              Becomes(c, [paper[c] EXCEPT
                            !.agency = agency,
                            !.step = IF agency \in Registries THEN "lookup" ELSE "datacite"])
    /\ UNCHANGED toolVars

\* Mutant: a record DataCite has is put down to whatever agency was named.
FoundAnywhere(p, s) == [p EXCEPT !.metadata = "READY", !.owner = s]

\* A record found proves who registered the DOI.
Found(p, s) == [p EXCEPT !.agency = s, !.metadata = "READY", !.owner = s]

Heard(p, s, end) == [p EXCEPT !.heard = @ \cup {<<s, Lookup(end)>>}]

\* The agency is known: its registry has the last word.
LookUpThere(c) ==
    /\ Goes(c, {"lookup"})
    /\ LET s == paper[c].agency
       IN  \E end \in Ends :
             /\ Notes(s, end)
             /\ LET p == Heard(paper[c], s, end)
                IN  Resolved(c, IF end = "ok" THEN Found(p, s)
                                ELSE [p EXCEPT !.metadata = "NOT_FOUND"])

\* It is not: DataCite, then Crossref.
TryDataCite(c) ==
    /\ Goes(c, {"datacite"})
    /\ \E end \in Ends :
         /\ Notes("datacite", end)
         /\ LET p == Heard(paper[c], "datacite", end)
            IN  IF end = "ok" THEN Resolved(c, Found(p, "datacite"))
                ELSE Becomes(c, [p EXCEPT !.step = "crossref"]) /\ UNCHANGED toolVars

TryCrossref(c) ==
    /\ Goes(c, {"crossref"})
    /\ \E end \in Ends :
         /\ Notes("crossref", end)
         /\ LET p == Heard(paper[c], "crossref", end)
            IN  Resolved(c, IF end = "ok" THEN Found(p, "crossref")
                            ELSE [p EXCEPT !.agency = "", !.metadata = "NOT_AVAILABLE"])

\* The citations of a DOI: the work at OpenAlex, then its graph in one request or
\* two, whose successes are not noted.  The answer is ok if the resolver's was.
FindWork(c) ==
    /\ Goes(c, {"work"})
    /\ \E end \in Answerable :
         /\ Notes("openalex", end)
         /\ \/ /\ end = "ok"
               /\ Becomes(c, [paper[c] EXCEPT !.step = "graph"])
               /\ UNCHANGED toolVars
            \/ Tells(c, paper[c], paper[c].metadata # "NOT_FOUND")

Unmarked(s, end) == health' = IF end = "ok" THEN health ELSE [health EXCEPT ![s] = Marked(@, end)]

ReadGraph(c) ==
    /\ Goes(c, {"graph"})
    /\ \E end \in Answerable :
         /\ Unmarked("openalex", end)
         /\ \/ /\ end = "ok"
               /\ Becomes(c, [paper[c] EXCEPT !.step = "cited"])
               /\ UNCHANGED toolVars
            \/ Tells(c, paper[c], paper[c].metadata # "NOT_FOUND")

ReadCitedBy(c) ==
    /\ Goes(c, {"cited"})
    /\ \E end \in Answerable : Unmarked("openalex", end)
    /\ Tells(c, paper[c], paper[c].metadata # "NOT_FOUND")

-----------------------------------------------------------------------------
\* The records.

\* normalize_doi: the resolver's address, a "doi:", the case and the punctuation
\* around it tell no DOI from another; a malformed one is none.
NormalizedDoi(doi) == IF doi.spelled = "malformed" THEN "" ELSE doi.name

OrElse(value, other) == IF value # "" THEN value ELSE other

\* _crossref_result: for want of a title the DOI, as it is spelled, is the title.
\* Its notices are what the work updates, so retraction is none of them.
CrossrefResult(w) ==
    [by |-> "crossref", id |-> OrElse(NormalizedDoi(w.doi), w.doi.name), doi |-> w.doi,
     normalized_doi |-> NormalizedDoi(w.doi),
     title |-> OrElse(w.title, OrElse(w.doi.name, "Untitled work")), signed |-> w.signed,
     update_status |-> IF w.notice = "retracted" THEN "" ELSE w.notice,
     citation_count |-> w.cited]

\* _openalex_result: of the notices it knows retraction.
OpenAlexResult(w) ==
    [by |-> "openalex", id |-> w.id, doi |-> w.doi,
     normalized_doi |-> NormalizedDoi(w.doi),
     title |-> OrElse(w.title, "Untitled work"), signed |-> w.signed,
     update_status |-> IF w.notice = "retracted" THEN "retracted" ELSE "",
     citation_count |-> w.cited]

CrossrefResults(works) == [i \in DOMAIN works |-> CrossrefResult(works[i])]
OpenAlexResults(works) == [i \in DOMAIN works |-> OpenAlexResult(works[i])]

Catalogued == [id : STRING, doi : [name : STRING, spelled : {"plain", "capitals", "address", "malformed"}],
               title : STRING, signed : STRING, notice : STRING, cited : Nat]

ASSUME CatalogueAssumption == CrossrefLists \cup OpenAlexLists \subseteq Seq(Catalogued)

-----------------------------------------------------------------------------
\* merge_academic_results.

\* Mutant: two spellings of a DOI are two works.
BySpelling(r) ==
    CASE r.normalized_doi # "" -> <<"doi", r.doi>>
      [] r.normalized_doi = "" /\ r.id # "" -> <<r.by, r.id>>
      [] r.normalized_doi = "" /\ r.id = "" -> <<"fallback", <<r.title, r.signed>>>>

\* AcademicResult.identity_key: the normalized DOI, else the provider's own id, else
\* the title with who signed it and when.
Identity(r) ==
    CASE r.normalized_doi # "" -> <<"doi", r.normalized_doi>>
      [] r.normalized_doi = "" /\ r.id # "" -> <<r.by, r.id>>
      [] r.normalized_doi = "" /\ r.id = "" -> <<"fallback", <<r.title, r.signed>>>>

Fields == {"title", "update_status"}

\* The places of a group's members that give a value for a field.
Given(group, f) == {i \in DOMAIN group : group[i][f] # ""}

First(group, places, f) == IF places = {} THEN "" ELSE group[Min(places)][f]

\* choose: a registry's value before anybody else's.
Chosen(group, f) ==
    LET registered == {i \in Given(group, f) : group[i].by \in Registries}
    IN  First(group, IF registered # {} THEN registered ELSE Given(group, f), f)

Disputed(group) ==
    {f \in Fields : \E i, j \in Given(group, f) : group[i][f] # group[j][f]}

\* Mutant: what a work is said to update is no metadata to compare.
ConflictingTitles(group) ==
    [f \in Disputed(group) \ {"update_status"} |->
       {<<group[i].by, group[i][f]>> : i \in Given(group, f)}]

\* metadata_conflicts: of a field its members disagree on, who says what.
Conflicts(group) ==
    [f \in Disputed(group) |-> {<<group[i].by, group[i][f]>> : i \in Given(group, f)}]

MergedRecord(group) ==
    [key |-> Identity(group[1]),
     title |-> Chosen(group, "title"),
     update_status |-> First(group, Given(group, "update_status"), "update_status"),
     citation_count |-> Max({r.citation_count : r \in ToSet(group)}),
     provenance |-> group,
     conflicts |-> Conflicts(group)]

\* The places of the records that are the same work as the one at a place.
Same(found, i) == {j \in DOMAIN found : Identity(found[j]) = Identity(found[i])}

\* Groups in the order in which their first members were found.
Leads(found) == {i \in DOMAIN found : \A j \in Same(found, i) : i <= j}

MergedRecords(found) ==
    [k \in DOMAIN Ascending(Leads(found)) |->
       MergedRecord(Picked(found, Same(found, Ascending(Leads(found))[k])))]

\* The first merged records are the answer; an answer without any is ok too.
FirstOf(merged, most) == SubSeq(merged, 1, IF Len(merged) < most THEN Len(merged) ELSE most)

TellsMerged(c, found) ==
    LET merged == FirstOf(MergedRecords(found), Asked(c).most)
    IN  Tells(c, [paper[c] EXCEPT !.found = found, !.merged = merged], TRUE)

ListOf(end, lists) == IF end = "ok" THEN lists ELSE {<<>>}

\* exact_title: Crossref, and OpenAlex too unless exactly one record was found.
SearchTitle(c) ==
    /\ Goes(c, {"title"})
    /\ \E end \in Answerable :
         /\ Notes("crossref", end)
         /\ \E works \in ListOf(end, CrossrefLists) :
              LET found == CrossrefResults(works)
              IN  IF Len(found) = 1 THEN TellsMerged(c, found)
                  ELSE /\ Becomes(c, [paper[c] EXCEPT !.step = "topic", !.found = found])
                       /\ UNCHANGED toolVars

SearchTopic(c) ==
    /\ Goes(c, {"topic"})
    /\ \E end \in Answerable :
         /\ Notes("openalex", end)
         /\ \E works \in ListOf(end, OpenAlexLists) :
              TellsMerged(c, paper[c].found \o OpenAlexResults(works))

SearchAuthors(c) ==
    /\ Goes(c, {"authors"})
    /\ \E end \in Answerable : Notes("openalex", end)
    /\ Tells(c, paper[c], TRUE)

AcademicStep(c) ==
    \/ StartAcademic(c)
    \/ AskAgency(c) \/ LookUpThere(c) \/ TryDataCite(c) \/ TryCrossref(c)
    \/ FindWork(c) \/ ReadGraph(c) \/ ReadCitedBy(c)
    \/ SearchTitle(c) \/ SearchTopic(c) \/ SearchAuthors(c)

-----------------------------------------------------------------------------
\* Two records are one work: they name one DOI, however they spell it; or they name
\* none and are one record of a provider; or nothing but a title and who signed it.
OneWork(r, s) ==
    LET Named(q) == IF q.doi.spelled = "malformed" THEN "" ELSE q.doi.name
    IN  /\ Named(r) = Named(s)
        /\ \/ Named(r) # ""
           \/ r.id # "" /\ r.id = s.id /\ r.by = s.by
           \/ r.id = "" /\ s.id = "" /\ r.title = s.title /\ r.signed = s.signed

\* What a merged record says is what its members say: every value and count is a
\* member's, a registry's title before an index's and the greatest count; and what
\* a member says, a retraction say, stands in the record, or among its conflicts
\* under the provider that says so, with what the others say instead.
SaysWhatItsMembersSay(m) ==
    LET members == ToSet(m.provenance)
        Sayings(f) == {<<r.by, r[f]>> : r \in {q \in members : q[f] # ""}}
    IN  /\ \A f \in Fields : m[f] # "" => \E r \in members : m[f] = r[f]
        /\ \A f \in Fields : \A r \in members :
             (r[f] # "" /\ r[f] # m[f]) => f \in DOMAIN m.conflicts
        /\ \A f \in DOMAIN m.conflicts :
             /\ m.conflicts[f] = Sayings(f)
             /\ \E p, q \in Sayings(f) : p[2] # q[2]
        /\ \A r \in members : r.by \in Registries =>
             \E s \in members : s.by \in Registries /\ s.title = m.title
        /\ \E r \in members : m.citation_count = r.citation_count
        /\ \A r \in members : r.citation_count <= m.citation_count

\* The answer has at most as many records as were asked for.  Each is made of records
\* that were found, all of one work, and says what they say; no two are the same
\* work; and while there is room for more, every record found is in one.
Faithful(found, merged, most) ==
    LET Members(i) == ToSet(merged[i].provenance)
    IN  /\ Len(merged) <= most
        /\ \A r \in ToSet(found) :
             (\E i \in DOMAIN merged : r \in Members(i)) \/ Len(merged) = most
        /\ \A i, j \in DOMAIN merged : \A r \in Members(i), s \in Members(j) :
             OneWork(r, s) <=> i = j
        /\ \A i \in DOMAIN merged :
             /\ Members(i) \subseteq ToSet(found)
             /\ SaysWhatItsMembersSay(merged[i])

MergeIsFaithful ==
    \A c \in Calls :
        paper[c].merged # <<>> => Faithful(paper[c].found, paper[c].merged, Asked(c).most)

\* "The exact lookup proves ownership before structured metadata is used": the
\* agency an answer names beside a record is the registry that answered with it.
OwnershipIsProven ==
    \A c \in Calls :
        (paper[c].metadata = "READY") =>
            /\ paper[c].owner = paper[c].agency
            /\ <<paper[c].owner, "found">> \in paper[c].heard

\* A DOI said to have no metadata is one its registry answered it has none of
\* (agent_runtime.py:90: answers "to return to the model, not infrastructure
\* failures to retry").
NotFoundIsTheRegistrysWord ==
    \A c \in Calls :
        (paper[c].metadata = "NOT_FOUND") => <<paper[c].agency, "missing">> \in paper[c].heard
=============================================================================
