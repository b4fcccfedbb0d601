------------------------- MODULE SearchTools_proofs -------------------------
(***************************************************************************)
(* Proofs about the tools of an attempt and the searches behind them.      *)
(***************************************************************************)
EXTENDS SearchTools, FiniteSetTheorems, WellFoundedInduction, TLAPS

-----------------------------------------------------------------------------
(* What a step of any component is for the tools.                          *)

Ending(c) == at[c] \in {"work", "record"}

\* A step of a tool's function leaves the call at work, or ends its work.
Works(c) ==
    \/ UNCHANGED toolVars
    \/ \E a \in Answers : a.kind # "none" /\ Returns(c, a)

ToolStep ==
    \/ UNCHANGED toolVars
    \/ \E c \in Calls : Works(c) \/ Record(c) \/ TimesOut(c)
    \/ NextRound

\* A Tavily search says whether it found anything.
Definite == \A c \in Calls : web[c].ok \in BOOLEAN

LEMMA AnswersAre ==
  ASSUME NEW ok \in BOOLEAN, NEW error \in Errors
  PROVE  /\ Returned(ok, error) \in Answers /\ Returned(ok, error).kind # "none"
         /\ Raised \in Answers /\ Raised.kind # "none"
BY DEF Returned, Raised, Answers, Errors

LEMMA WebWorks ==
  ASSUME Definite, NEW c \in Calls, Web(c)
  PROVE  Works(c)
<1>1. CASE UNCHANGED toolVars
  BY <1>1 DEF Works
<1>2. CASE EndWeb(c)
  <2> DEFINE ok == (web[c].brave = "ended" /\ BraveCounts(web[c])) \/ web[c].ok
  <2>1. ok \in BOOLEAN
    BY DEF Definite
  <2>2. Returns(c, Returned(ok, IF ok THEN "none" ELSE "unavailable"))
    BY <1>2 DEF EndWeb
  <2> QED BY <2>1, <2>2, AnswersAre DEF Errors, Works
<1> QED
  BY <1>1, <1>2 DEF Web, WebStep, StartWeb, Batch, Extract, ExtractAgain, BraveAnswers

LEMMA AcademicWorks ==
  ASSUME NEW c \in Calls, Academic(c)
  PROVE  Works(c)
<1> USE AnswersAre DEF Works, Errors
<1>1. ASSUME NEW p, NEW ok \in BOOLEAN, Tells(c, p, ok) PROVE Works(c)
  BY <1>1 DEF Tells
<1>2. ASSUME NEW p, Resolved(c, p) PROVE Works(c)
  <2>1. CASE Asked(c).intent = "doi citations"
    BY <1>2, <2>1 DEF Resolved
  <2>2. CASE Asked(c).intent # "doi citations"
    <3>1. Tells(c, p, p.metadata # "NOT_FOUND")
      BY <1>2, <2>2 DEF Resolved
    <3>2. (p.metadata # "NOT_FOUND") \in BOOLEAN
      OBVIOUS
    <3> QED BY <3>1, <3>2, <1>1
  <2> QED BY <2>1, <2>2
<1>3. ASSUME StartAcademic(c) PROVE Works(c)
  <2>1. CASE Returns(c, Returned(FALSE, "arguments"))
    BY <2>1
  <2>2. CASE Tells(c, NoPaper, FALSE)
    BY <2>2, <1>1
  <2> QED BY <1>3, <2>1, <2>2 DEF StartAcademic
<1>4. ASSUME LookUpThere(c) \/ TryDataCite(c) \/ TryCrossref(c) PROVE Works(c)
  <2>1. CASE \E p : Resolved(c, p)
    BY <2>1, <1>2
  <2>2. CASE UNCHANGED toolVars
    BY <2>2
  <2>3. ASSUME LookUpThere(c) PROVE Works(c)
    BY <2>1, <2>3 DEF LookUpThere
  <2>4. ASSUME TryDataCite(c) PROVE Works(c)
    BY <2>1, <2>2, <2>4 DEF TryDataCite
  <2>5. ASSUME TryCrossref(c) PROVE Works(c)
    BY <2>1, <2>5 DEF TryCrossref
  <2> QED BY <1>4, <2>3, <2>4, <2>5
<1>5. ASSUME FindWork(c) \/ ReadGraph(c) \/ ReadCitedBy(c) PROVE Works(c)
  <2>1. (paper[c].metadata # "NOT_FOUND") \in BOOLEAN
    OBVIOUS
  <2>2. CASE Tells(c, paper[c], paper[c].metadata # "NOT_FOUND")
    BY <2>1, <2>2, <1>1
  <2>3. CASE UNCHANGED toolVars
    BY <2>3
  <2> QED BY <1>5, <2>2, <2>3 DEF FindWork, ReadGraph, ReadCitedBy
<1>6. ASSUME SearchTitle(c) \/ SearchTopic(c) \/ SearchAuthors(c) PROVE Works(c)
  <2>1. ASSUME NEW found, TellsMerged(c, found) PROVE Works(c)
    BY <2>1, <1>1 DEF TellsMerged
  <2>2. ASSUME SearchTitle(c) PROVE Works(c)
    BY <2>1, <2>2 DEF SearchTitle
  <2>3. ASSUME SearchTopic(c) PROVE Works(c)
    BY <2>1, <2>3 DEF SearchTopic
  <2>4. ASSUME SearchAuthors(c) PROVE Works(c)
    BY <1>1, <2>4 DEF SearchAuthors
  <2> QED BY <1>6, <2>2, <2>3, <2>4
<1>7. ASSUME AskAgency(c) PROVE Works(c)
  BY <1>7 DEF AskAgency
<1> QED BY <1>3, <1>4, <1>5, <1>6, <1>7 DEF Academic, AcademicStep

LEMMA GitHubWorks ==
  ASSUME NEW c \in Calls, GitHub(c)
  PROVE  Works(c)
BY AnswersAre DEF GitHub, GitHubStep, StartGitHub, GitHubHandles, GitHubAnswers, Errors, Works

LEMMA FilesWork ==
  ASSUME NEW c \in Calls, Files(c)
  PROVE  Works(c)
BY AnswersAre DEF Files, FileStep, StartFiles, SearchWords, EmbedQuestion, SearchVectors,
                  EndFiles, Errors, Works

LEMMA PlainWorks ==
  ASSUME NEW c \in Calls, Plain(c)
  PROVE  Works(c) \/ Record(c)
BY AnswersAre DEF Plain, InspectRuntimeEvidence, InspectArchitectureEvidence,
                  InspectSourceStatus, InspectSourceOfTruth, Inspects, Propose, Errors, Works

LEMMA ToolSteps ==
  ASSUME Definite, Next
  PROVE  ToolStep
BY WebWorks, AcademicWorks, GitHubWorks, FilesWork, PlainWorks
   DEF Next, ToolStep, CallTimesOut, RoundEnds, Reset, QuotaReset, Ingestion, IngestStep

\* Only the next round changes what is asked, and it finds every search forgotten.
LEMMA AskedStays ==
  ASSUME NEW c \in Calls, Works(c) \/ Record(c) \/ TimesOut(c)
  PROVE  /\ UNCHANGED <<plan, round>>
         /\ \A d \in Calls : Asked(d)' = Asked(d)
<1>1. UNCHANGED <<plan, round>>
  BY DEF Works, toolVars, Returns, Record, TimesOut
<1> QED BY <1>1 DEF Asked

-----------------------------------------------------------------------------
(* The failure memory.                                                     *)

\* A call that has not ended is one of the round's.
Live == \A c \in Calls : Ending(c) => c \in DOMAIN plan[round]

\* The notes of a key are its failures since it last succeeded.
NotesAreTrue == \A key \in Keys : notes[key] = Cardinality(SinceSuccess(key))

ToolInv == ToolTypeOK /\ Live /\ NotesAreTrue

LEMMA KeysAre ==
  ASSUME ToolTypeOK
  PROVE  /\ plan[round] \in Rounds
         /\ \A c \in DOMAIN plan[round] : Key(c) \in Keys
<1>1. round \in 1..Len(plan) /\ plan \in Plans
  BY DEF ToolTypeOK
<1>2. plan[round] \in Rounds
  BY <1>1 DEF Rounds
<1> QED BY <1>2 DEF Key, Keys, Asked

LEMMA EndsAre ==
  ASSUME ToolTypeOK, NEW key
  PROVE  /\ Len(ends) \in Nat
         /\ IsFiniteSet(SinceSuccess(key))
         /\ SinceSuccess(key) \subseteq 1..Len(ends)
         /\ Cardinality(SinceSuccess(key)) \in Nat
<1>1. Len(ends) \in Nat
  BY DEF ToolTypeOK
<1>2. SinceSuccess(key) \subseteq 1..Len(ends)
  BY DEF SinceSuccess
<1> HIDE DEF SinceSuccess
<1>3. IsFiniteSet(SinceSuccess(key))
  <2>1. IsFiniteSet(1..Len(ends))
    BY <1>1, FS_Interval
  <2> QED BY <1>2, <2>1, FS_Subset
<1> QED BY <1>1, <1>2, <1>3, FS_CardinalityType

\* The failures since the last success, after another end.
LEMMA SinceSuccessNext ==
  ASSUME ToolTypeOK, NEW k \in Keys, NEW how \in {"failed", "succeeded"},
         ends' = Append(ends, <<k, how>>), NEW key \in Keys
  PROVE  /\ key # k => SinceSuccess(key)' = SinceSuccess(key)
         /\ (key = k /\ how = "failed") =>
               SinceSuccess(key)' = SinceSuccess(key) \cup {Len(ends) + 1}
         /\ (key = k /\ how = "succeeded") => SinceSuccess(key)' = {}
<1> DEFINE n == Len(ends)
<1>1. /\ n \in Nat /\ Len(ends') = n + 1
      /\ \A i \in 1..n : ends'[i] = ends[i]
      /\ ends'[n + 1] = <<k, how>>
  BY DEF ToolTypeOK
<1>2. 1..(n + 1) = (1..n) \cup {n + 1} /\ n + 1 \notin 1..n
  BY <1>1
<1>3. SinceSuccess(key)' = {i \in 1..(n + 1) : /\ ends'[i] = <<key, "failed">>
                                               /\ \A j \in i..(n + 1) : ends'[j] # <<key, "succeeded">>}
  BY <1>1 DEF SinceSuccess
<1>4. SinceSuccess(key) = {i \in 1..n : /\ ends[i] = <<key, "failed">>
                                        /\ \A j \in i..n : ends[j] # <<key, "succeeded">>}
  BY DEF SinceSuccess
<1>5. \A i \in 1..n : \A j : j \in i..(n + 1) <=> j \in i..n \/ j = n + 1
  BY <1>1
<1>6. \A i \in 1..n : \A j \in i..n : j \in 1..n
  BY <1>1
<1>7. ASSUME <<k, how>> # <<key, "succeeded">>, NEW i \in 1..n
      PROVE  i \in SinceSuccess(key)' <=> i \in SinceSuccess(key)
  BY <1>1, <1>2, <1>3, <1>4, <1>5, <1>6, <1>7
<1>8. CASE key # k
  <2>1. n + 1 \notin SinceSuccess(key)'
    BY <1>1, <1>3, <1>8
  <2>2. SinceSuccess(key)' \subseteq 1..n /\ SinceSuccess(key) \subseteq 1..n
    BY <1>2, <1>3, <1>4, <2>1
  <2>3. \A i \in 1..n : i \in SinceSuccess(key)' <=> i \in SinceSuccess(key)
    BY <1>7, <1>8
  <2>4. SinceSuccess(key)' = SinceSuccess(key)
    BY <2>2, <2>3
  <2> QED BY <1>8, <2>4
<1>9. CASE key = k /\ how = "failed"
  <2>1. n + 1 \in SinceSuccess(key)'
    <3>1. \A j \in (n + 1)..(n + 1) : j = n + 1
      BY <1>1
    <3> QED BY <1>1, <1>2, <1>3, <1>9, <3>1
  <2>2. SinceSuccess(key)' \subseteq 1..n \cup {n + 1} /\ SinceSuccess(key) \subseteq 1..n
    BY <1>2, <1>3, <1>4
  <2>3. \A i \in 1..n : i \in SinceSuccess(key)' <=> i \in SinceSuccess(key)
    BY <1>7, <1>9
  <2>4. SinceSuccess(key)' = SinceSuccess(key) \cup {n + 1}
    BY <2>1, <2>2, <2>3
  <2> QED BY <1>9, <2>4
<1>10. CASE key = k /\ how = "succeeded"
  <2>1. \A i \in 1..(n + 1) : n + 1 \in i..(n + 1)
    BY <1>1
  <2>2. SinceSuccess(key)' = {}
    BY <1>1, <1>3, <1>10, <2>1
  <2> QED BY <1>10, <2>2
<1> QED BY <1>8, <1>9, <1>10

LEMMA ToolInit_ToolInv ==
  ASSUME ToolInit
  PROVE  ToolInv
<1>1. round \in 1..Len(plan) /\ plan \in Plans
  BY PlanAssumption DEF ToolInit
<1>2. ToolTypeOK
  BY <1>1 DEF ToolInit, ToolTypeOK, NoAnswer, Answers, Errors, Nothing, Said
<1>3. Live
  BY DEF ToolInit, Live, Ending
<1>4. \A key : SinceSuccess(key) = {}
  <2>1. 1..Len(ends) = {}
    BY DEF ToolInit
  <2> QED BY <2>1 DEF SinceSuccess
<1>5. NotesAreTrue
  BY <1>4, FS_EmptySet DEF ToolInit, NotesAreTrue
<1> QED BY <1>2, <1>3, <1>5 DEF ToolInv

\* An end notes what it should.
LEMMA RecordNotes ==
  ASSUME ToolInv, NEW c \in Calls, Record(c)
  PROVE  /\ ToolInv'
         /\ said'[c].what = "retry" => said'[c].times = Cardinality(SinceSuccess(Key(c)))'
<1>0. PICK k : k = Key(c)
  OBVIOUS
<1>1. /\ ToolTypeOK /\ at[c] = "record" /\ at' = [at EXCEPT ![c] = "done"]
      /\ UNCHANGED <<plan, round, answer, envelopes>>
  BY DEF ToolInv, Record
<1>2. k \in Keys /\ Key(c)' = k
  BY <1>0, <1>1, KeysAre DEF ToolInv, Live, Ending, Key, Asked
<1>3. notes \in [Keys -> Nat] /\ notes[k] = Cardinality(SinceSuccess(k))
  BY <1>2 DEF ToolInv, ToolTypeOK, NotesAreTrue
<1>4. Live'
  BY <1>1 DEF ToolInv, Live, Ending, ToolTypeOK
<1>5. CASE Reflect(c)
  <2>1. /\ ends' = Append(ends, <<k, "failed">>)
        /\ notes' = [notes EXCEPT ![k] = @ + 1]
        /\ said' = [said EXCEPT ![c] = [what |-> "retry", times |-> notes[k] + 1]]
    BY <1>0, <1>5 DEF Reflect
  <2>2. ToolTypeOK'
    BY <1>1, <1>2, <1>3, <2>1 DEF ToolTypeOK, Said
  <2>3. \A key \in Keys \ {k} : SinceSuccess(key)' = SinceSuccess(key)
    BY <1>1, <1>2, <2>1, SinceSuccessNext
  <2>4. SinceSuccess(k)' = SinceSuccess(k) \cup {Len(ends) + 1}
    BY <1>1, <1>2, <2>1, SinceSuccessNext
  <2>5. Len(ends) + 1 \notin SinceSuccess(k)
    BY <1>1, EndsAre
  <2>6. Cardinality(SinceSuccess(k)') = Cardinality(SinceSuccess(k)) + 1
    BY <1>1, <2>4, <2>5, EndsAre, FS_AddElement
  <2>7. \A key \in Keys : notes'[key] = Cardinality(SinceSuccess(key)')
    <3>1. notes'[k] = notes[k] + 1 /\ \A key \in Keys \ {k} : notes'[key] = notes[key]
      BY <1>2, <1>3, <2>1
    <3>2. \A key \in Keys \ {k} : notes'[key] = Cardinality(SinceSuccess(key)')
      BY <2>3, <3>1 DEF ToolInv, NotesAreTrue
    <3> QED BY <1>3, <2>6, <3>1, <3>2
  <2>8. NotesAreTrue'
    BY <2>7 DEF NotesAreTrue
  <2>9. said'[c].times = Cardinality(SinceSuccess(k)')
    BY <1>1, <1>3, <2>1, <2>6 DEF ToolTypeOK
  <2>10. Cardinality(SinceSuccess(Key(c)))' = Cardinality(SinceSuccess(k)')
    BY <1>2 DEF SinceSuccess
  <2> QED BY <1>4, <2>2, <2>8, <2>9, <2>10 DEF ToolInv
<1>6. CASE Clear(c)
  <2>1. /\ ends' = Append(ends, <<k, "succeeded">>)
        /\ notes' = [notes EXCEPT ![k] = 0]
        /\ said' = [said EXCEPT ![c] = [what |-> "result", times |-> 0]]
    BY <1>0, <1>6 DEF Clear, Without
  <2>2. ToolTypeOK'
    BY <1>1, <1>2, <1>3, <2>1 DEF ToolTypeOK, Said
  <2>3. \A key \in Keys \ {k} : SinceSuccess(key)' = SinceSuccess(key)
    BY <1>1, <1>2, <2>1, SinceSuccessNext
  <2>4. SinceSuccess(k)' = {}
    BY <1>1, <1>2, <2>1, SinceSuccessNext
  <2>5. \A key \in Keys : notes'[key] = Cardinality(SinceSuccess(key)')
    <3>1. notes'[k] = 0 /\ \A key \in Keys \ {k} : notes'[key] = notes[key]
      BY <1>2, <1>3, <2>1
    <3>2. \A key \in Keys \ {k} : notes'[key] = Cardinality(SinceSuccess(key)')
      BY <2>3, <3>1 DEF ToolInv, NotesAreTrue
    <3> QED BY <2>4, <3>1, <3>2, FS_EmptySet
  <2>6. NotesAreTrue'
    BY <2>5 DEF NotesAreTrue
  <2>7. said'[c].what # "retry"
    BY <1>1, <2>1 DEF ToolTypeOK
  <2> QED BY <1>4, <2>2, <2>6, <2>7 DEF ToolInv
<1> QED BY <1>5, <1>6 DEF Record

\* The other steps leave the memory as it is.
LEMMA OthersNote ==
  ASSUME ToolInv,
         \/ UNCHANGED toolVars
         \/ \E c \in Calls : Works(c) \/ TimesOut(c)
         \/ NextRound
  PROVE  /\ ToolInv'
         /\ \A c \in Calls : said'[c] # said[c] => said'[c].what # "retry"
<1>1. UNCHANGED <<plan, notes, ends>>
  BY DEF toolVars, Works, Returns, TimesOut, NextRound
<1>2. NotesAreTrue'
  BY <1>1 DEF ToolInv, NotesAreTrue, SinceSuccess
<1>3. ToolTypeOK /\ Live
  BY DEF ToolInv
<1>4. CASE UNCHANGED toolVars
  BY <1>2, <1>3, <1>4 DEF toolVars, ToolTypeOK, Live, Ending, ToolInv
<1>5. ASSUME NEW c \in Calls, NEW a \in Answers, Returns(c, a)
      PROVE  ToolTypeOK' /\ Live' /\ UNCHANGED said
  <2>1. round \in Nat
    BY <1>3 DEF ToolTypeOK
  <2>2. envelopes' \in SUBSET (Nat \X Calls)
    BY <1>3, <1>5, <2>1 DEF ToolTypeOK, Returns
  <2>3. ToolTypeOK'
    BY <1>3, <1>5, <2>2 DEF ToolTypeOK, Returns
  <2> QED BY <1>3, <1>5, <2>3 DEF Returns, Live, Ending, ToolTypeOK
<1>6. ASSUME NEW c \in Calls, TimesOut(c)
      PROVE  ToolTypeOK' /\ Live' /\ \A d \in Calls : said'[d] # said[d] => said'[d].what # "retry"
  BY <1>3, <1>6 DEF ToolTypeOK, TimesOut, Live, Ending, Said
<1>7. CASE NextRound
  <2>1. ToolTypeOK'
    BY <1>3, <1>7 DEF ToolTypeOK, NextRound, NoAnswer, Answers, Errors, Nothing, Said
  <2> QED BY <1>2, <1>7, <2>1 DEF NextRound, Live, Ending, Nothing, ToolInv
<1> QED BY <1>2, <1>4, <1>5, <1>6, <1>7 DEF ToolInv, Works

-----------------------------------------------------------------------------
(* GitHub's quota.                                                         *)

GitHubEnds == {"ok", "missing", "shapeless", "limited", "refused", "server", "network"}
Repos == [step : {"off", "asked", "handled", "told"}, end : GitHubEnds, header : Nat \cup {Unknown}]

GitHubTypes ==
    /\ status \in {"READY", "UNAUTHORIZED", "RATE_LIMITED", "ERROR"}
    /\ remaining \in [Buckets -> Nat \cup {Unknown}]
    /\ left \in [Buckets -> Nat] /\ told \in [Buckets -> SUBSET Nat]
    /\ \A b \in Buckets : left[b] \in 0..Quotas[b] /\ told[b] \subseteq 0..Quotas[b]
    /\ repo \in [Calls -> Repos]

\* A figure under way is one GitHub gave for the bucket of what was asked.
HeadersAreGitHubs ==
    \A c \in Calls :
        (repo[c].step = "handled" /\ repo[c].header # Unknown) =>
            repo[c].header \in told[Bucket(Asked(c))]

OnlyGitHubs == \A c \in Calls : repo[c].step # "off" => Asked(c).tool = "github_search"

GitHubInv == GitHubTypes /\ OnlyGitHubs /\ HeadersAreGitHubs /\ QuotasAreGitHubs

LEMMA GitHubInit_GitHubInv ==
  ASSUME GitHubInit
  PROVE  GitHubInv
<1>1. left \in [Buckets -> Nat] /\ \A b \in Buckets : left[b] \in 0..Quotas[b]
  BY QuotaAssumption DEF GitHubInit, Buckets
<1>2. repo \in [Calls -> Repos] /\ \A c \in Calls : repo[c].step = "off"
  BY DEF GitHubInit, NoRepo, Repos, GitHubEnds
<1>3. GitHubTypes
  BY <1>1, <1>2 DEF GitHubInit, GitHubTypes
<1> QED BY <1>2, <1>3
        DEF GitHubInit, GitHubInv, OnlyGitHubs, HeadersAreGitHubs, QuotasAreGitHubs

LEMMA GitHubStays ==
  ASSUME GitHubInv, UNCHANGED gitHubVars, \A c \in Calls : Asked(c)' = Asked(c)
  PROVE  GitHubInv'
<1>1. GitHubTypes' /\ QuotasAreGitHubs'
  BY DEF GitHubInv, GitHubTypes, QuotasAreGitHubs, gitHubVars
<1>2. OnlyGitHubs'
  BY DEF GitHubInv, OnlyGitHubs, gitHubVars
<1>3. \A c \in Calls : Bucket(Asked(c)') = Bucket(Asked(c))
  OBVIOUS
<1>4. HeadersAreGitHubs'
  <2> SUFFICES ASSUME NEW c \in Calls, repo[c].step = "handled", repo[c].header # Unknown
               PROVE  repo[c].header \in told[Bucket(Asked(c)')]
    BY DEF HeadersAreGitHubs, gitHubVars, Bucket, Endpoint, Named, Intent
  <2> QED BY <1>3 DEF GitHubInv, HeadersAreGitHubs
<1> QED BY <1>1, <1>2, <1>4 DEF GitHubInv

LEMMA GitHubForgets ==
  ASSUME GitHubInv, NEW gone \in SUBSET Calls, Forgets(gone),
         \A c \in Calls \ gone : Asked(c)' = Asked(c)
  PROVE  GitHubInv'
<1>1. /\ UNCHANGED <<status, remaining, left, told>>
      /\ repo' = [c \in Calls |-> IF c \in gone THEN NoRepo ELSE repo[c]]
  BY DEF Forgets
<1>2. repo' \in [Calls -> Repos]
  BY <1>1 DEF GitHubInv, GitHubTypes, NoRepo, Repos, GitHubEnds
<1>3. \A c \in Calls : repo'[c].step # "off" => c \notin gone /\ repo'[c] = repo[c]
  BY <1>1 DEF NoRepo
<1>4. GitHubTypes' /\ QuotasAreGitHubs'
  BY <1>1, <1>2 DEF GitHubInv, GitHubTypes, QuotasAreGitHubs
<1>5. OnlyGitHubs'
  BY <1>3 DEF GitHubInv, OnlyGitHubs
<1>6. HeadersAreGitHubs'
  <2> SUFFICES ASSUME NEW c \in Calls, repo'[c].step = "handled", repo'[c].header # Unknown
               PROVE  repo'[c].header \in told'[Bucket(Asked(c)')]
    BY DEF HeadersAreGitHubs, Bucket, Endpoint, Named, Intent
  <2>1. Asked(c)' = Asked(c) /\ repo'[c] = repo[c]
    BY <1>3
  <2>2. Bucket(Asked(c)') = Bucket(Asked(c))
    BY <2>1
  <2> QED BY <1>1, <2>1, <2>2 DEF GitHubInv, HeadersAreGitHubs
<1> QED BY <1>4, <1>5, <1>6 DEF GitHubInv

LEMMA ResetKeeps ==
  ASSUME GitHubInv, Reset
  PROVE  GitHubInv'
<1>1. PICK b \in Buckets : QuotaReset(b)
  BY DEF Reset
<1>2. /\ left' = [left EXCEPT ![b] = Quotas[b]]
      /\ UNCHANGED <<status, remaining, told, repo, plan, round>>
  BY <1>1 DEF QuotaReset, toolVars
<1>3. Quotas[b] \in Nat
  BY QuotaAssumption DEF Buckets
<1>4. GitHubTypes'
  BY <1>2, <1>3 DEF GitHubInv, GitHubTypes
<1>5. \A c \in Calls : Asked(c)' = Asked(c)
  BY <1>2 DEF Asked
<1>6. \A c \in Calls : Bucket(Asked(c)') = Bucket(Asked(c))
  BY <1>5
<1>7. OnlyGitHubs' /\ QuotasAreGitHubs'
  BY <1>2, <1>5 DEF GitHubInv, OnlyGitHubs, QuotasAreGitHubs
<1>8. HeadersAreGitHubs'
  <2> SUFFICES ASSUME NEW c \in Calls, repo[c].step = "handled", repo[c].header # Unknown
               PROVE  repo[c].header \in told[Bucket(Asked(c)')]
    BY <1>2 DEF HeadersAreGitHubs, Bucket, Endpoint, Named, Intent
  <2> QED BY <1>6 DEF GitHubInv, HeadersAreGitHubs
<1> QED BY <1>4, <1>7, <1>8 DEF GitHubInv

\* What GitHub says goes to the call that asked, and is remembered as told.
LEMMA SaysKeeps ==
  ASSUME GitHubInv, NEW c \in Calls, Asked(c).tool = "github_search",
         \A d \in Calls : Asked(d)' = Asked(d),
         NEW end \in GitHubEnds, NEW n \in 0..Quotas[Bucket(Asked(c))], Says(c, end, n),
         UNCHANGED <<status, remaining>>, left' \in [Buckets -> Nat],
         \A b \in Buckets : left'[b] \in 0..Quotas[b]
  PROVE  GitHubInv'
<1>0. PICK b : b = Bucket(Asked(c))
  OBVIOUS
<1>1. b \in Buckets
  BY <1>0 DEF Bucket, Buckets
<1>2. Quotas[b] \in Nat /\ n \in Nat /\ n # Unknown
  BY <1>0, <1>1, QuotaAssumption DEF Buckets
<1>3. /\ repo' = [repo EXCEPT ![c] = [step |-> "handled", end |-> end, header |-> n]]
      /\ told' = [told EXCEPT ![b] = @ \cup {n}]
  BY <1>0 DEF Says, HandlesAs
<1>4. /\ told'[b] = told[b] \cup {n}
      /\ \A x \in Buckets : told[x] \subseteq told'[x]
      /\ told' \in [Buckets -> SUBSET Nat]
  BY <1>1, <1>2, <1>3 DEF GitHubInv, GitHubTypes
<1>5. \A x \in Buckets : told'[x] \subseteq 0..Quotas[x]
  BY <1>0, <1>1, <1>3 DEF GitHubInv, GitHubTypes
<1>6. repo' \in [Calls -> Repos]
  BY <1>2, <1>3 DEF GitHubInv, GitHubTypes, Repos
<1>7. GitHubTypes'
  BY <1>4, <1>5, <1>6 DEF GitHubInv, GitHubTypes
<1>8. /\ repo'[c].step = "handled" /\ repo'[c].header = n
      /\ \A d \in Calls \ {c} : repo'[d] = repo[d]
  BY <1>3 DEF GitHubInv, GitHubTypes
<1>9. OnlyGitHubs'
  BY <1>8 DEF GitHubInv, OnlyGitHubs
<1>10. \A d \in Calls : Bucket(Asked(d)') = Bucket(Asked(d)) /\ Bucket(Asked(d)) \in Buckets
  BY DEF Bucket, Buckets
<1>11. HeadersAreGitHubs'
  <2> SUFFICES ASSUME NEW d \in Calls, repo'[d].step = "handled", repo'[d].header # Unknown
               PROVE  repo'[d].header \in told'[Bucket(Asked(d)')]
    BY DEF HeadersAreGitHubs, Bucket, Endpoint, Named, Intent
  <2>1. CASE d = c
    BY <1>0, <1>4, <1>8, <1>10, <2>1
  <2>2. CASE d # c
    BY <1>4, <1>8, <1>10, <2>2 DEF GitHubInv, HeadersAreGitHubs
  <2> QED BY <2>1, <2>2
<1>12. QuotasAreGitHubs'
  BY <1>4 DEF GitHubInv, QuotasAreGitHubs
<1> QED BY <1>7, <1>9, <1>11, <1>12 DEF GitHubInv

LEMMA GitHubKeeps ==
  ASSUME GitHubInv, NEW c \in Calls, GitHub(c)
  PROVE  GitHubInv'
<1>1. \A d \in Calls : Asked(d)' = Asked(d)
  BY GitHubWorks, AskedStays
<1>2. GitHubTypes /\ OnlyGitHubs /\ HeadersAreGitHubs /\ QuotasAreGitHubs
  BY DEF GitHubInv
<1>3. \A d \in Calls : Bucket(Asked(d)') = Bucket(Asked(d)) /\ Bucket(Asked(d)) \in Buckets
  BY <1>1 DEF Bucket, Buckets
<1>4. ASSUME UNCHANGED <<status, remaining, left, told>>, NEW r \in Repos,
             repo' = [repo EXCEPT ![c] = r], Asked(c).tool = "github_search",
             r.step # "handled" \/ r.header = Unknown
      PROVE  GitHubInv'
  <2>1. GitHubTypes' /\ QuotasAreGitHubs'
    BY <1>2, <1>4 DEF GitHubTypes, QuotasAreGitHubs
  <2>2. repo'[c] = r /\ \A d \in Calls \ {c} : repo'[d] = repo[d]
    BY <1>2, <1>4 DEF GitHubTypes
  <2>3. OnlyGitHubs'
    BY <1>1, <1>2, <1>4, <2>2 DEF OnlyGitHubs
  <2>4. HeadersAreGitHubs'
    <3> SUFFICES ASSUME NEW d \in Calls, repo'[d].step = "handled", repo'[d].header # Unknown
                 PROVE  repo'[d].header \in told'[Bucket(Asked(d)')]
      BY DEF HeadersAreGitHubs, Bucket, Endpoint, Named, Intent
    <3> QED BY <1>2, <1>3, <1>4, <2>2 DEF HeadersAreGitHubs
  <2> QED BY <2>1, <2>3, <2>4 DEF GitHubInv
<1>5. CASE StartGitHub(c)
  <2>1. /\ Asked(c).tool = "github_search" /\ UNCHANGED <<status, remaining, left, told>>
        /\ \E step \in {"asked", "told"} : repo' = [repo EXCEPT ![c] = [repo[c] EXCEPT !.step = step]]
        /\ repo[c].step = "off"
    BY <1>5 DEF StartGitHub
  <2>2. PICK step \in {"asked", "told"} : repo' = [repo EXCEPT ![c] = [repo[c] EXCEPT !.step = step]]
    BY <2>1
  <2>3. [repo[c] EXCEPT !.step = step] \in Repos /\ [repo[c] EXCEPT !.step = step].step = step
    BY <1>2 DEF GitHubTypes, Repos
  <2> QED BY <1>4, <2>1, <2>2, <2>3
<1>6. CASE GitHubHandles(c)
  <2>0. PICK b : b = Bucket(Asked(c))
    OBVIOUS
  <2>1. /\ repo[c].step = "asked" /\ Asked(c).tool = "github_search"
        /\ UNCHANGED <<status, remaining>> /\ b \in Buckets
    BY <1>2, <1>3, <1>6, <2>0 DEF GitHubHandles, OnlyGitHubs
  <2>2. left[b] \in 0..Quotas[b] /\ Quotas[b] \in Nat
    BY <1>2, <2>1, QuotaAssumption DEF GitHubTypes, Buckets
  <2>3. CASE /\ left[b] > 0 /\ Counts(b)
             /\ \E end \in {"ok", "missing", "shapeless"} : Says(c, end, left[b] - 1)
    <3>1. PICK end \in {"ok", "missing", "shapeless"} : Says(c, end, left[b] - 1)
      BY <2>3
    <3>2. left[b] - 1 \in 0..Quotas[b]
      BY <2>2, <2>3
    <3>3. left' = [left EXCEPT ![b] = left[b] - 1]
      BY <2>3 DEF Counts
    <3>4. left' \in [Buckets -> Nat] /\ \A x \in Buckets : left'[x] \in 0..Quotas[x]
      BY <1>2, <2>1, <2>2, <3>2, <3>3 DEF GitHubTypes
    <3> QED BY <1>1, <2>0, <2>1, <3>1, <3>2, <3>4, SaysKeeps DEF GitHubEnds
  <2>4. CASE left[b] = 0 /\ Says(c, "limited", 0) /\ UNCHANGED left
    <3>1. left' \in [Buckets -> Nat] /\ \A x \in Buckets : left'[x] \in 0..Quotas[x]
      BY <1>2, <2>4 DEF GitHubTypes
    <3>2. 0 \in 0..Quotas[b]
      BY <2>2
    <3> QED BY <1>1, <2>0, <2>1, <2>4, <3>1, <3>2, SaysKeeps DEF GitHubEnds
  <2>5. CASE Says(c, "refused", left[b]) /\ UNCHANGED left
    <3>1. left' \in [Buckets -> Nat] /\ \A x \in Buckets : left'[x] \in 0..Quotas[x]
      BY <1>2, <2>5 DEF GitHubTypes
    <3> QED BY <1>1, <2>0, <2>1, <2>2, <2>5, <3>1, SaysKeeps DEF GitHubEnds
  <2>6. CASE \E end \in Answerable \cap {"server", "network"} :
               HandlesAs(c, end, Unknown) /\ UNCHANGED <<left, told>>
    <3>1. PICK end \in {"server", "network"} : HandlesAs(c, end, Unknown) /\ UNCHANGED <<left, told>>
      BY <2>6
    <3>2. [step |-> "handled", end |-> end, header |-> Unknown] \in Repos
      BY DEF Repos, GitHubEnds
    <3> QED BY <1>4, <2>1, <3>1, <3>2 DEF HandlesAs
  <2> QED BY <1>6, <2>0, <2>3, <2>4, <2>5, <2>6 DEF GitHubHandles
<1>7. CASE GitHubAnswers(c)
  <2>0. PICK b : b = Bucket(Asked(c))
    OBVIOUS
  <2>1. /\ repo[c].step = "handled" /\ b \in Buckets
        /\ status' \in Shown(repo[c].end)
        /\ remaining' = [remaining EXCEPT ![b] = IF repo[c].header = Unknown THEN @ ELSE repo[c].header]
        /\ repo' = [repo EXCEPT ![c] = [NoRepo EXCEPT !.step = "told"]]
        /\ UNCHANGED <<left, told>>
    BY <1>3, <1>7, <2>0 DEF GitHubAnswers, Kept
  <2>2. repo[c].end \in GitHubEnds /\ repo[c].header \in Nat \cup {Unknown}
    BY <1>2 DEF GitHubTypes, Repos
  <2>3. status' \in {"READY", "UNAUTHORIZED", "RATE_LIMITED", "ERROR"}
    BY <2>1, <2>2 DEF Shown, GitHubEnds
  <2>4. [NoRepo EXCEPT !.step = "told"] \in Repos /\ [NoRepo EXCEPT !.step = "told"].step = "told"
    BY DEF NoRepo, Repos, GitHubEnds
  <2>5. GitHubTypes'
    BY <1>2, <2>1, <2>2, <2>3, <2>4 DEF GitHubTypes
  <2>6. repo'[c].step = "told" /\ \A d \in Calls \ {c} : repo'[d] = repo[d]
    BY <1>2, <2>1, <2>4 DEF GitHubTypes
  <2>7. OnlyGitHubs'
    BY <1>1, <1>2, <2>1, <2>6 DEF OnlyGitHubs
  <2>8. HeadersAreGitHubs'
    <3> SUFFICES ASSUME NEW d \in Calls, repo'[d].step = "handled", repo'[d].header # Unknown
                 PROVE  repo'[d].header \in told'[Bucket(Asked(d)')]
      BY DEF HeadersAreGitHubs, Bucket, Endpoint, Named, Intent
    <3> QED BY <1>2, <1>3, <2>1, <2>6 DEF HeadersAreGitHubs
  <2>9. QuotasAreGitHubs'
    BY <1>2, <2>0, <2>1, <2>2 DEF QuotasAreGitHubs, HeadersAreGitHubs, GitHubTypes
  <2> QED BY <2>5, <2>7, <2>8, <2>9 DEF GitHubInv
<1> QED BY <1>5, <1>6, <1>7 DEF GitHub, GitHubStep

-----------------------------------------------------------------------------
(* Lists in a total order.                                                 *)

\* Nothing smaller than any member of it is a member of an empty set only.
LEMMA LeastNatural ==
  ASSUME NEW T \in SUBSET Nat, T # {}
  PROVE  \E x \in T : \A y \in T : x <= y
<1> DEFINE R == {ss \in Nat \X Nat : ss[1] < ss[2]}
<1>1. IsWellFoundedOn(R, Nat)
  BY NatLessThanWellFounded DEF OpToRel
<1>2. \A x, y \in Nat : <<y, x>> \notin R => x <= y
  OBVIOUS
<1> HIDE DEF R
<1>3. PICK x \in T : \A y \in T : ~(<<y, x>> \in R)
  BY <1>1, WFMin
<1>4. \A y \in T : x <= y
  BY <1>2, <1>3
<1> QED BY <1>4

\* InOrder, of an order given as a set of pairs.
Sorted(S, R) ==
    [i \in 1..Cardinality(S) |-> CHOOSE x \in S : Cardinality({y \in S : <<y, x>> \in R}) = i - 1]

\* The list of a finite set in a total order: a member for each place, each member
\* at some place, and the places in the order.
LEMMA OrderedList ==
  ASSUME NEW S, IsFiniteSet(S), NEW R,
         \A x, y \in S : x # y => <<x, y>> \in R \/ <<y, x>> \in R,
         \A x \in S : <<x, x>> \notin R,
         \A x, y, z \in S : <<x, y>> \in R /\ <<y, z>> \in R => <<x, z>> \in R,
         NEW list, list = Sorted(S, R)
  PROVE  /\ Cardinality(S) \in Nat
         /\ list \in [1..Cardinality(S) -> S]
         /\ \A x \in S : \E i \in 1..Cardinality(S) : list[i] = x
         /\ \A i, j \in 1..Cardinality(S) : i < j <=> <<list[i], list[j]>> \in R
<1> DEFINE Below(x) == {y \in S : <<y, x>> \in R}
           n == Cardinality(S)
           T == 0..(n - 1)
           place == [x \in S |-> Cardinality(Below(x))]
<1>1. n \in Nat
  BY FS_CardinalityType
<1>2. IsFiniteSet(T) /\ Cardinality(T) = n
  <2>1. n - 1 \in Int
    BY <1>1
  <2> QED BY <1>1, <2>1, FS_Interval
<1>3. ASSUME NEW x \in S
      PROVE  IsFiniteSet(Below(x)) /\ Cardinality(Below(x)) \in T
  <2>1. Below(x) \in SUBSET (S \ {x})
    OBVIOUS
  <2>2. IsFiniteSet(S \ {x}) /\ Cardinality(S \ {x}) = n - 1
    BY FS_RemoveElement
  <2> HIDE DEF Below
  <2>3. IsFiniteSet(Below(x)) /\ Cardinality(Below(x)) <= n - 1
    BY <2>1, <2>2, FS_Subset
  <2>4. Cardinality(Below(x)) \in Nat
    BY <2>3, FS_CardinalityType
  <2> QED BY <1>1, <2>3, <2>4
<1>4. ASSUME NEW x \in S, NEW y \in S, <<x, y>> \in R
      PROVE  Cardinality(Below(x)) < Cardinality(Below(y))
  <2>1. Below(x) \in SUBSET Below(y) /\ x \in Below(y) /\ x \notin Below(x)
    BY <1>4
  <2> HIDE DEF Below
  <2>2. Cardinality(Below(x)) <= Cardinality(Below(y)) /\ Cardinality(Below(x)) # Cardinality(Below(y))
    BY <1>3, <2>1, FS_Subset
  <2> QED BY <1>1, <1>3, <2>2
<1>5. list = [i \in 1..n |-> CHOOSE x \in S : Cardinality(Below(x)) = i - 1]
  BY DEF Sorted
<1>6. /\ place \in [S -> T]
      /\ \A x \in S : place[x] = Cardinality(Below(x))
      /\ \A x, y \in S : <<x, y>> \in R => place[x] < place[y]
  BY <1>3, <1>4
<1> HIDE DEF Below, place
<1>7. \A x \in S : place[x] \in Int /\ 0 <= place[x] /\ place[x] < n
  BY <1>1, <1>6
<1>8. ASSUME NEW x \in S, NEW y \in S, <<x, y>> \in R
      PROVE  place[x] < place[y] /\ place[x] \in Int /\ place[y] \in Int
  BY <1>6, <1>7, <1>8
<1>9. ASSUME NEW x \in S, NEW y \in S, place[x] = place[y] PROVE x = y
  <2>1. SUFFICES ASSUME x # y PROVE FALSE
    OBVIOUS
  <2>2. <<x, y>> \in R \/ <<y, x>> \in R
    BY <2>1
  <2> QED BY <1>8, <1>9, <2>2
<1>10. place \in Surjection(S, T)
  BY <1>2, <1>6, <1>9, FS_Injection DEF Injection, IsInjective
<1>11. \A i \in 1..n : \E x \in S : Cardinality(Below(x)) = i - 1
  <2>1. \A i \in 1..n : i - 1 \in T
    BY <1>1
  <2>2. \A t \in T : \E x \in S : place[x] = t
    BY <1>10 DEF Surjection
  <2> QED BY <1>6, <2>1, <2>2
<1>12. \A i \in 1..n : list[i] \in S /\ Cardinality(Below(list[i])) = i - 1
  BY <1>5, <1>11
<1>13. \A i \in 1..n : list[i] \in S /\ place[list[i]] = i - 1
  BY <1>6, <1>12
<1>14. list \in [1..n -> S]
  BY <1>5, <1>12
<1>15. ASSUME NEW x \in S PROVE \E i \in 1..n : list[i] = x
  <2>1. PICK i \in 1..n : i = place[x] + 1
    BY <1>1, <1>7
  <2>2. list[i] \in S /\ place[list[i]] = i - 1
    BY <1>13
  <2>3. place[list[i]] = place[x]
    BY <1>1, <1>7, <2>1, <2>2
  <2> QED BY <1>9, <2>2, <2>3
<1>16. ASSUME NEW i \in 1..n, NEW j \in 1..n PROVE i < j <=> <<list[i], list[j]>> \in R
  <2>1. i \in Int /\ j \in Int
    BY <1>1
  <2>2. /\ place[list[i]] = i - 1 /\ place[list[j]] = j - 1
        /\ list[i] \in S /\ list[j] \in S
    BY <1>13
  <2> DEFINE x == list[i]
             y == list[j]
  <2> HIDE DEF x, y
  <2>3. x \in S /\ y \in S /\ place[x] = i - 1 /\ place[y] = j - 1
    BY <2>2 DEF x, y
  <2>4. ASSUME <<x, y>> \in R PROVE i < j
    BY <1>8, <2>1, <2>3, <2>4
  <2>5. ASSUME <<y, x>> \in R PROVE j < i
    BY <1>8, <2>1, <2>3, <2>5
  <2>6. ASSUME x = y PROVE i = j
    BY <2>1, <2>3, <2>6
  <2>7. i < j <=> <<x, y>> \in R
    BY <2>1, <2>3, <2>4, <2>5, <2>6
  <2> QED BY <2>7 DEF x, y
<1> QED BY <1>1, <1>14, <1>15, <1>16

\* Places of a list in their order.
LEMMA AscendingIs ==
  ASSUME NEW S \in SUBSET Nat, IsFiniteSet(S)
  PROVE  /\ Cardinality(S) \in Nat
         /\ Ascending(S) \in [1..Cardinality(S) -> S]
         /\ \A x \in S : \E k \in 1..Cardinality(S) : Ascending(S)[k] = x
         /\ \A k, l \in 1..Cardinality(S) : k < l <=> Ascending(S)[k] < Ascending(S)[l]
<1> DEFINE R == {ss \in S \X S : ss[1] < ss[2]}
<1>1. \A x, y \in S : <<x, y>> \in R <=> x < y
  OBVIOUS
<1> HIDE DEF R
<1>2. /\ \A x, y \in S : x # y => <<x, y>> \in R \/ <<y, x>> \in R
      /\ \A x \in S : <<x, x>> \notin R
      /\ \A x, y, z \in S : <<x, y>> \in R /\ <<y, z>> \in R => <<x, z>> \in R
  BY <1>1
<1>3. \A x \in S : {y \in S : <<y, x>> \in R} = {y \in S : y < x}
  BY <1>1
<1>4. Ascending(S) = [i \in 1..Cardinality(S) |->
                        CHOOSE x \in S : Cardinality({y \in S : y < x}) = i - 1]
  BY DEF Ascending, InOrder
<1>5. \A i : (CHOOSE x \in S : Cardinality({y \in S : y < x}) = i - 1)
             = (CHOOSE x \in S : Cardinality({y \in S : <<y, x>> \in R}) = i - 1)
  BY <1>3
<1>6. Ascending(S) = Sorted(S, R)
  BY <1>4, <1>5 DEF Sorted
<1> HIDE DEF Ascending
<1>7. /\ Cardinality(S) \in Nat
      /\ Ascending(S) \in [1..Cardinality(S) -> S]
      /\ \A x \in S : \E k \in 1..Cardinality(S) : Ascending(S)[k] = x
      /\ \A k, l \in 1..Cardinality(S) : k < l <=> <<Ascending(S)[k], Ascending(S)[l]>> \in R
  BY <1>2, <1>6, OrderedList
<1> QED BY <1>1, <1>7

\* What is picked from a list are the members at the places picked.
LEMMA PickedIs ==
  ASSUME NEW list, NEW S \in SUBSET Nat, IsFiniteSet(S)
  PROVE  /\ Cardinality(S) \in Nat
         /\ Picked(list, S) = [k \in 1..Cardinality(S) |-> list[Ascending(S)[k]]]
         /\ \A x : x \in ToSet(Picked(list, S)) <=> \E i \in S : x = list[i]
<1>1. /\ Cardinality(S) \in Nat
      /\ Ascending(S) \in [1..Cardinality(S) -> S]
      /\ \A x \in S : \E k \in 1..Cardinality(S) : Ascending(S)[k] = x
  BY AscendingIs
<1>2. Picked(list, S) = [k \in 1..Cardinality(S) |-> list[Ascending(S)[k]]]
  BY <1>1 DEF Picked
<1>3. \A x : x \in ToSet(Picked(list, S)) <=> \E k \in 1..Cardinality(S) : x = list[Ascending(S)[k]]
  BY <1>2 DEF ToSet
<1> QED BY <1>1, <1>2, <1>3

\* A finite set of numbers that is not empty has a greatest one.
LEMMA GreatestNatural ==
  ASSUME NEW S \in SUBSET Nat, IsFiniteSet(S), S # {}
  PROVE  Max(S) \in S /\ \A y \in S : Max(S) >= y
<1>1. /\ Cardinality(S) \in Nat
      /\ Ascending(S) \in [1..Cardinality(S) -> S]
      /\ \A x \in S : \E k \in 1..Cardinality(S) : Ascending(S)[k] = x
      /\ \A k, l \in 1..Cardinality(S) : k < l <=> Ascending(S)[k] < Ascending(S)[l]
  BY AscendingIs
<1>2. PICK n \in Nat : n = Cardinality(S)
  BY <1>1
<1>3. n \in 1..n
  <2>1. PICK x \in S : TRUE
    OBVIOUS
  <2>2. \E k \in 1..n : TRUE
    BY <1>1, <1>2, <2>1
  <2> QED BY <2>2
<1>4. Ascending(S)[n] \in S /\ Ascending(S)[n] \in Nat
  BY <1>1, <1>2, <1>3
<1>5. ASSUME NEW y \in S PROVE Ascending(S)[n] >= y
  <2>1. PICK k \in 1..n : Ascending(S)[k] = y
    BY <1>1, <1>2
  <2>2. ~(n < k)
    BY <1>3
  <2> QED BY <1>1, <1>2, <1>3, <1>4, <2>1, <2>2
<1>6. \E x \in S : \A y \in S : x >= y
  BY <1>4, <1>5
<1> QED BY <1>6 DEF Max

-----------------------------------------------------------------------------
(* How the retry loops end.                                                *)

\* A loop ends with the outcome of one of its attempts.
LEMMA AnswerableIsAnOutcome == Answerable \subseteq Outcomes
<1> SUFFICES ASSUME NEW tries \in [1..(Retries + 1) -> Outcomes]
             PROVE  Settled(tries) \in Outcomes
  BY DEF Answerable
<1> DEFINE T == {i \in 1..(Retries + 1) : tries[i] \notin Retryable \/ i = Retries + 1}
           Final(i) == /\ tries[i] \notin Retryable \/ i = Retries + 1
                      /\ \A j \in 1..(i - 1) : tries[j] \in Retryable
<1>1. T \in SUBSET Nat /\ Retries + 1 \in T
  BY RetriesAssumption
<1>2. PICK i \in T : \A j \in T : i <= j
  BY <1>1, LeastNatural
<1>3. i \in DOMAIN tries /\ Final(i)
  BY <1>1, <1>2, RetriesAssumption
<1> HIDE DEF T, Final
<1>4. (CHOOSE k \in DOMAIN tries : Final(k)) \in DOMAIN tries
  BY <1>3
<1>5. Settled(tries) = tries[CHOOSE k \in DOMAIN tries : Final(k)]
  BY DEF Settled, Final
<1> QED BY <1>4, <1>5

-----------------------------------------------------------------------------
(* The resolution of a DOI.                                                *)

PaperFields == {"step", "agency", "metadata", "owner", "heard", "found", "merged"}

\* A call's search of the literature: an owner named beside a record has been heard.
PaperShape(p) ==
    /\ p = [f \in PaperFields |-> p[f]]
    /\ p.step \in Steps /\ p.agency \in Agencies \cup Registries
    /\ p.metadata \in {"none", "READY", "NOT_FOUND", "NOT_AVAILABLE"}
    /\ p.owner \in {""} \cup Registries
    /\ p.heard \subseteq Registries \X {"found", "missing", "outage"}
    /\ p.metadata = "READY" => p.owner = p.agency /\ <<p.owner, "found">> \in p.heard

\* While a DOI is being resolved nothing is said of it, and a lookup has its registry.
Resolving(p) ==
    /\ p.step \in {"agency", "lookup", "datacite", "crossref"} => p.metadata = "none"
    /\ p.step = "lookup" => p.agency \in Registries

AcademicInv ==
    /\ health \in [Sources -> {"READY", "RATE_LIMITED", "ERROR"}]
    /\ paper = [c \in Calls |-> paper[c]]
    /\ \A c \in Calls : /\ PaperShape(paper[c]) /\ Resolving(paper[c])
                        /\ paper[c].step # "off" => Asked(c).tool = "academic_search"

LEMMA NoPaperShape == PaperShape(NoPaper) /\ Resolving(NoPaper) /\ NoPaper.step = "off"
BY AgencyAssumption DEF NoPaper, PaperShape, PaperFields, Resolving, Steps

LEMMA Moves ==
  ASSUME NEW p, PaperShape(p), NEW s \in Steps
  PROVE  /\ PaperShape([p EXCEPT !.step = s])
         /\ [p EXCEPT !.step = s].step = s
         /\ [p EXCEPT !.step = s].metadata = p.metadata
         /\ [p EXCEPT !.step = s].agency = p.agency
BY DEF PaperShape, PaperFields

LEMMA AcademicInit_AcademicInv ==
  ASSUME AcademicInit
  PROVE  AcademicInv
BY NoPaperShape DEF AcademicInit, AcademicInv

LEMMA AcademicStays ==
  ASSUME AcademicInv, UNCHANGED academicVars, \A c \in Calls : Asked(c)' = Asked(c)
  PROVE  AcademicInv'
BY DEF AcademicInv, academicVars, PaperShape, Resolving

LEMMA AcademicForgets ==
  ASSUME AcademicInv, NEW gone \in SUBSET Calls, Forgets(gone),
         \A c \in Calls \ gone : Asked(c)' = Asked(c)
  PROVE  AcademicInv'
<1>1. health' = health /\ paper' = [c \in Calls |-> IF c \in gone THEN NoPaper ELSE paper[c]]
  BY DEF Forgets
<1>2. paper' = [c \in Calls |-> paper'[c]]
  BY <1>1
<1>3. ASSUME NEW c \in Calls
      PROVE  /\ PaperShape(paper'[c]) /\ Resolving(paper'[c])
             /\ paper'[c].step # "off" => Asked(c)'.tool = "academic_search"
  <2>1. CASE c \in gone
    BY <1>1, <2>1, NoPaperShape
  <2>2. CASE c \notin gone
    BY <1>1, <2>2 DEF AcademicInv
  <2> QED BY <2>1, <2>2
<1> QED BY <1>1, <1>2, <1>3 DEF AcademicInv, PaperShape, Resolving

LEMMA HealthKept ==
  ASSUME health \in [Sources -> {"READY", "RATE_LIMITED", "ERROR"}],
         NEW s \in Sources, NEW end \in Ends, Notes(s, end) \/ Unmarked(s, end)
  PROVE  health' \in [Sources -> {"READY", "RATE_LIMITED", "ERROR"}]
<1>1. end \in Outcomes \cup {"shapeless"}
  BY AnswerableIsAnOutcome DEF Ends
<1>2. Marked(health[s], end) \in {"READY", "RATE_LIMITED", "ERROR"}
  BY <1>1 DEF Marked, Outcomes
<1> QED BY <1>2 DEF Notes, Unmarked

\* What a step of the search must show of its paper.
LEMMA BecomesKeeps ==
  ASSUME AcademicInv, NEW c \in Calls, NEW p, Becomes(c, p), PaperShape(p), Resolving(p),
         Asked(c).tool = "academic_search", \A d \in Calls : Asked(d)' = Asked(d),
         health' \in [Sources -> {"READY", "RATE_LIMITED", "ERROR"}]
  PROVE  AcademicInv'
<1>1. paper' = [paper EXCEPT ![c] = p] /\ paper = [d \in Calls |-> paper[d]]
  BY DEF Becomes, AcademicInv
<1>2. paper' = [d \in Calls |-> IF d = c THEN p ELSE paper[d]]
  BY <1>1
<1>3. paper' = [d \in Calls |-> paper'[d]] /\ paper'[c] = p
  BY <1>2
<1>4. ASSUME NEW d \in Calls
      PROVE  /\ PaperShape(paper'[d]) /\ Resolving(paper'[d])
             /\ paper'[d].step # "off" => Asked(d)'.tool = "academic_search"
  <2>1. CASE d = c
    BY <1>3, <2>1
  <2>2. CASE d # c
    BY <1>2, <2>2 DEF AcademicInv
  <2> QED BY <2>1, <2>2
<1> QED BY <1>3, <1>4 DEF AcademicInv, PaperShape, Resolving

LEMMA Hears ==
  ASSUME NEW p, PaperShape(p), p.metadata = "none", NEW s \in Registries, NEW end \in Ends
  PROVE  /\ PaperShape(Heard(p, s, end)) /\ Heard(p, s, end).metadata = "none"
         /\ Heard(p, s, end).step = p.step /\ Heard(p, s, end).agency = p.agency
         /\ end = "ok" => PaperShape(Found(Heard(p, s, end), s))
         /\ PaperShape([Heard(p, s, end) EXCEPT !.metadata = "NOT_FOUND"])
         /\ PaperShape([Heard(p, s, end) EXCEPT !.agency = "", !.metadata = "NOT_AVAILABLE"])
<1>1. <<s, Lookup(end)>> \in Registries \X {"found", "missing", "outage"}
  BY DEF Lookup
<1> DEFINE h == Heard(p, s, end)
<1>2. /\ PaperShape(h) /\ h.metadata = "none" /\ h.step = p.step /\ h.agency = p.agency
      /\ <<s, Lookup(end)>> \in h.heard
  BY <1>1 DEF Heard, PaperShape, PaperFields
<1> HIDE DEF h
<1>3. ASSUME end = "ok" PROVE PaperShape(Found(h, s))
  BY <1>2, <1>3 DEF Lookup, Found, PaperShape, PaperFields
<1>4. PaperShape([h EXCEPT !.metadata = "NOT_FOUND"])
  BY <1>2 DEF PaperShape, PaperFields
<1>5. PaperShape([h EXCEPT !.agency = "", !.metadata = "NOT_AVAILABLE"])
  BY <1>2, AgencyAssumption DEF PaperShape, PaperFields
<1> QED BY <1>2, <1>3, <1>4, <1>5 DEF h

LEMMA AcademicKeeps ==
  ASSUME ToolInv, AcademicInv, NEW c \in Calls, Academic(c)
  PROVE  AcademicInv'
<1>1. \A d \in Calls : Asked(d)' = Asked(d)
  BY AcademicWorks, AskedStays
<1>2. /\ health \in [Sources -> {"READY", "RATE_LIMITED", "ERROR"}]
      /\ PaperShape(paper[c]) /\ Resolving(paper[c])
      /\ paper[c].step # "off" => Asked(c).tool = "academic_search"
  BY DEF AcademicInv
<1>3. /\ Registries \subseteq Sources /\ "openalex" \in Sources /\ "crossref" \in Registries
      /\ "datacite" \in Registries /\ Answerable \subseteq Ends
  BY DEF Sources, Registries, Ends
<1> DEFINE Healthy == health' \in [Sources -> {"READY", "RATE_LIMITED", "ERROR"}]
           Mine == Asked(c).tool = "academic_search"
<1>4. ASSUME NEW p, PaperShape(p), NEW ok, Tells(c, p, ok), Healthy, Mine PROVE AcademicInv'
  <2>1. PaperShape([p EXCEPT !.step = "told"]) /\ Resolving([p EXCEPT !.step = "told"])
    BY <1>4, Moves DEF Resolving, Steps
  <2> QED BY <1>1, <1>4, <2>1, BecomesKeeps DEF Tells
<1>5. ASSUME NEW p, PaperShape(p), NEW s \in Steps, Becomes(c, [p EXCEPT !.step = s]),
             s \in {"agency", "lookup", "datacite", "crossref"} => p.metadata = "none",
             s # "lookup", Healthy, Mine
      PROVE  AcademicInv'
  <2>1. PaperShape([p EXCEPT !.step = s]) /\ Resolving([p EXCEPT !.step = s])
    BY <1>5, Moves DEF Resolving
  <2> QED BY <1>1, <1>5, <2>1, BecomesKeeps
<1>6. ASSUME NEW p, PaperShape(p), Resolved(c, p), Healthy, Mine PROVE AcademicInv'
  BY <1>4, <1>5, <1>6 DEF Resolved, Steps
<1> HIDE DEF Mine
<1>7. CASE StartAcademic(c)
  <2>1. Healthy /\ Mine
    BY <1>2, <1>7 DEF StartAcademic, Mine
  <2>2. CASE Becomes(c, [NoPaper EXCEPT !.step = "told"])
    BY <1>5, <2>1, <2>2, NoPaperShape DEF Steps
  <2>3. CASE Tells(c, NoPaper, FALSE)
    BY <1>4, <2>1, <2>3, NoPaperShape
  <2>4. CASE /\ Asked(c).valid /\ Asked(c).intent # "not a doi"
             /\ Becomes(c, [NoPaper EXCEPT !.step = FirstStep(Asked(c).intent)])
    <3> DEFINE s == FirstStep(Asked(c).intent)
    <3>0. Asked(c).intent \in Intents \ {"not a doi"}
      <4>1. at[c] = "work" /\ c \in DOMAIN plan[round] /\ plan[round] \in Rounds
        BY <1>7, KeysAre DEF StartAcademic, Goes, ToolInv, Live, Ending
      <4>2. Asked(c).tool = "academic_search" /\ Asked(c).valid /\ Asked(c).intent # "not a doi"
        BY <1>7, <2>4 DEF StartAcademic
      <4> QED BY <4>1, <4>2, IntentAssumption DEF Asked
    <3>1. s \in {"agency", "title", "authors", "topic"}
      BY <3>0 DEF FirstStep, Intents
    <3>2. NoPaper.metadata = "none"
      BY DEF NoPaper
    <3> QED BY <1>5, <2>1, <2>4, <3>1, <3>2, NoPaperShape DEF Steps
  <2> QED BY <1>7, <2>2, <2>3, <2>4 DEF StartAcademic
<1>8. CASE AskAgency(c)
  <2>1. PICK end, agency :
           /\ end \in Answerable /\ Notes("crossref", end)
           /\ agency \in IF end = "ok" THEN Agencies ELSE {""}
           /\ Becomes(c, [paper[c] EXCEPT
                            !.agency = agency,
                            !.step = IF agency \in Registries THEN "lookup" ELSE "datacite"])
    BY <1>8 DEF AskAgency
  <2> DEFINE p == [paper[c] EXCEPT
                     !.agency = agency,
                     !.step = IF agency \in Registries THEN "lookup" ELSE "datacite"]
  <2>2. agency \in Agencies
    BY <2>1, AgencyAssumption
  <2>3. paper[c].step = "agency" /\ paper[c].metadata = "none" /\ Mine
    BY <1>2, <1>8 DEF AskAgency, Goes, Resolving, Mine
  <2>4. PaperShape(p) /\ Resolving(p)
    BY <1>2, <2>2, <2>3 DEF PaperShape, PaperFields, Resolving, Steps
  <2>5. Healthy
    BY <1>2, <1>3, <2>1, HealthKept
  <2> QED BY <1>1, <2>1, <2>3, <2>4, <2>5, BecomesKeeps DEF Mine
<1>9. CASE LookUpThere(c)
  <2>1. PICK s, end :
           /\ s = paper[c].agency /\ end \in Ends /\ Notes(s, end)
           /\ Resolved(c, IF end = "ok" THEN Found(Heard(paper[c], s, end), s)
                          ELSE [Heard(paper[c], s, end) EXCEPT !.metadata = "NOT_FOUND"])
    BY <1>9 DEF LookUpThere
  <2>2. paper[c].metadata = "none" /\ s \in Registries /\ Mine
    BY <1>2, <1>9, <2>1 DEF LookUpThere, Goes, Resolving, Mine
  <2>3. Healthy
    BY <1>2, <1>3, <2>1, <2>2, HealthKept
  <2>4. PaperShape(IF end = "ok" THEN Found(Heard(paper[c], s, end), s)
                   ELSE [Heard(paper[c], s, end) EXCEPT !.metadata = "NOT_FOUND"])
    BY <1>2, <2>1, <2>2, Hears
  <2> QED BY <1>6, <2>1, <2>2, <2>3, <2>4
<1>10. CASE TryDataCite(c)
  <2>1. PICK end \in Ends :
           /\ Notes("datacite", end)
           /\ IF end = "ok" THEN Resolved(c, Found(Heard(paper[c], "datacite", end), "datacite"))
              ELSE Becomes(c, [Heard(paper[c], "datacite", end) EXCEPT !.step = "crossref"])
    BY <1>10 DEF TryDataCite
  <2>2. paper[c].metadata = "none" /\ Mine
    BY <1>2, <1>10 DEF TryDataCite, Goes, Resolving, Mine
  <2>3. Healthy
    BY <1>2, <1>3, <2>1, HealthKept
  <2>4. /\ PaperShape(Heard(paper[c], "datacite", end))
        /\ Heard(paper[c], "datacite", end).metadata = "none"
        /\ end = "ok" => PaperShape(Found(Heard(paper[c], "datacite", end), "datacite"))
    BY <1>2, <1>3, <2>2, Hears
  <2>5. CASE end = "ok"
    BY <1>6, <2>1, <2>2, <2>3, <2>4, <2>5
  <2>6. CASE end # "ok"
    BY <1>5, <2>1, <2>2, <2>3, <2>4, <2>6 DEF Steps
  <2> QED BY <2>5, <2>6
<1>11. CASE TryCrossref(c)
  <2>1. PICK end \in Ends :
           /\ Notes("crossref", end)
           /\ Resolved(c, IF end = "ok" THEN Found(Heard(paper[c], "crossref", end), "crossref")
                          ELSE [Heard(paper[c], "crossref", end) EXCEPT
                                  !.agency = "", !.metadata = "NOT_AVAILABLE"])
    BY <1>11 DEF TryCrossref
  <2>2. paper[c].metadata = "none" /\ Mine
    BY <1>2, <1>11 DEF TryCrossref, Goes, Resolving, Mine
  <2>3. Healthy
    BY <1>2, <1>3, <2>1, HealthKept
  <2>4. PaperShape(IF end = "ok" THEN Found(Heard(paper[c], "crossref", end), "crossref")
                   ELSE [Heard(paper[c], "crossref", end) EXCEPT
                           !.agency = "", !.metadata = "NOT_AVAILABLE"])
    BY <1>2, <1>3, <2>2, Hears
  <2> QED BY <1>6, <2>1, <2>2, <2>3, <2>4
<1>12. CASE FindWork(c) \/ ReadGraph(c) \/ ReadCitedBy(c)
  <2>1. paper[c].step # "off" /\ Mine
    BY <1>2, <1>12 DEF FindWork, ReadGraph, ReadCitedBy, Goes, Mine
  <2>2. Healthy
    BY <1>2, <1>3, <1>12, HealthKept DEF FindWork, ReadGraph, ReadCitedBy
  <2>3. \/ Tells(c, paper[c], paper[c].metadata # "NOT_FOUND")
        \/ \E s \in {"graph", "cited"} : Becomes(c, [paper[c] EXCEPT !.step = s])
    BY <1>12 DEF FindWork, ReadGraph, ReadCitedBy
  <2> QED BY <1>2, <1>4, <1>5, <2>1, <2>2, <2>3 DEF Steps
<1>13. ASSUME NEW found, TellsMerged(c, found), Healthy, Mine PROVE AcademicInv'
  <2>1. \A merged : PaperShape([paper[c] EXCEPT !.found = found, !.merged = merged])
    BY <1>2 DEF PaperShape, PaperFields
  <2> QED BY <1>4, <1>13, <2>1 DEF TellsMerged
<1>14. CASE SearchTitle(c)
  <2>1. paper[c].step = "title" /\ Mine
    BY <1>2, <1>14 DEF SearchTitle, Goes, Mine
  <2>2. Healthy
    BY <1>2, <1>3, <1>14, HealthKept DEF SearchTitle
  <2>3. \/ \E found : TellsMerged(c, found)
        \/ \E found : Becomes(c, [paper[c] EXCEPT !.step = "topic", !.found = found])
    BY <1>14 DEF SearchTitle
  <2>4. ASSUME NEW found, Becomes(c, [paper[c] EXCEPT !.step = "topic", !.found = found])
        PROVE  AcademicInv'
    <3>1. /\ PaperShape([paper[c] EXCEPT !.step = "topic", !.found = found])
          /\ Resolving([paper[c] EXCEPT !.step = "topic", !.found = found])
      BY <1>2, <2>1 DEF PaperShape, PaperFields, Resolving, Steps
    <3> QED BY <1>1, <2>1, <2>2, <2>4, <3>1, BecomesKeeps DEF Mine
  <2> QED BY <1>13, <2>1, <2>2, <2>3, <2>4
<1>15. CASE SearchTopic(c)
  <2>1. Mine
    BY <1>2, <1>15 DEF SearchTopic, Goes, Mine
  <2>2. Healthy
    BY <1>2, <1>3, <1>15, HealthKept DEF SearchTopic
  <2> QED BY <1>13, <1>15, <2>1, <2>2 DEF SearchTopic
<1>16. CASE SearchAuthors(c)
  <2>1. Mine
    BY <1>2, <1>16 DEF SearchAuthors, Goes, Mine
  <2>2. Healthy
    BY <1>2, <1>3, <1>16, HealthKept DEF SearchAuthors
  <2> QED BY <1>2, <1>4, <1>16, <2>1, <2>2 DEF SearchAuthors
<1> QED
  BY <1>7, <1>8, <1>9, <1>10, <1>11, <1>12, <1>14, <1>15, <1>16 DEF Academic, AcademicStep

-----------------------------------------------------------------------------
(* The merge of the records.                                               *)

LEMMA Lists ==
  ASSUME NEW n \in Nat, NEW s, s = [i \in 1..n |-> s[i]]
  PROVE  s \in Seq(ToSet(s)) /\ Len(s) = n /\ \A r : r \in ToSet(s) <=> \E i \in 1..n : r = s[i]
<1>1. \A r : r \in ToSet(s) <=> \E i \in 1..n : r = s[i]
  BY DEF ToSet
<1>2. s \in [1..n -> ToSet(s)]
  BY <1>1
<1> QED BY <1>1, <1>2

\* A record is as its provider's parser leaves it.
Made(r) ==
    /\ r.by \in {"crossref", "openalex"} /\ r.citation_count \in Nat
    /\ r.title # "" /\ r.normalized_doi = NormalizedDoi(r.doi)

LEMMA CrossrefMakes ==
  ASSUME NEW w \in Catalogued
  PROVE  Made(CrossrefResult(w))
BY DEF Catalogued, CrossrefResult, Made, OrElse

LEMMA OpenAlexMakes ==
  ASSUME NEW w \in Catalogued
  PROVE  Made(OpenAlexResult(w))
BY DEF Catalogued, OpenAlexResult, Made, OrElse

\* The key of a record tells one work from another.
LEMMA IdentityTells ==
  ASSUME NEW r, NEW s, Made(r), Made(s)
  PROVE  Identity(r) = Identity(s) <=> OneWork(r, s)
<1> DEFINE DoiOf(q) == IF q.doi.spelled = "malformed" THEN "" ELSE q.doi.name
           known == r.normalized_doi
           other == s.normalized_doi
<1>1. DoiOf(r) = known /\ DoiOf(s) = other
  BY DEF Made, NormalizedDoi
<1>2. OneWork(r, s) <=>
        /\ DoiOf(r) = DoiOf(s)
        /\ \/ DoiOf(r) # ""
           \/ r.id # "" /\ r.id = s.id /\ r.by = s.by
           \/ r.id = "" /\ s.id = "" /\ r.title = s.title /\ r.signed = s.signed
  BY DEF OneWork
<1> HIDE DEF DoiOf
<1>3. OneWork(r, s) <=>
        /\ known = other
        /\ \/ known # ""
           \/ r.id # "" /\ r.id = s.id /\ r.by = s.by
           \/ r.id = "" /\ s.id = "" /\ r.title = s.title /\ r.signed = s.signed
  BY <1>1, <1>2
<1>4. r.by # "doi" /\ r.by # "fallback" /\ s.by # "doi" /\ s.by # "fallback"
  BY DEF Made
<1> DEFINE Pair(a, b) == <<a, b>>
<1>5. /\ known # "" => Identity(r) = Pair("doi", known)
      /\ known = "" /\ r.id # "" => Identity(r) = Pair(r.by, r.id)
      /\ known = "" /\ r.id = "" => Identity(r) = Pair("fallback", Pair(r.title, r.signed))
  BY DEF Identity
<1>6. /\ other # "" => Identity(s) = Pair("doi", other)
      /\ other = "" /\ s.id # "" => Identity(s) = Pair(s.by, s.id)
      /\ other = "" /\ s.id = "" => Identity(s) = Pair("fallback", Pair(s.title, s.signed))
  BY DEF Identity
<1>7. \A a, b, c, d : Pair(a, b) = Pair(c, d) <=> a = c /\ b = d
  OBVIOUS
<1> HIDE DEF known, other, Pair
<1>8. "doi" # "fallback"
  OBVIOUS
<1>9. CASE known # "" /\ other # ""
  <2>1. Identity(r) = Pair("doi", known) /\ Identity(s) = Pair("doi", other)
    BY <1>5, <1>6, <1>9
  <2>2. Identity(r) = Identity(s) <=> known = other
    BY <1>7, <2>1
  <2>3. OneWork(r, s) <=> known = other
    BY <1>3, <1>9
  <2> QED BY <2>2, <2>3
<1>10. CASE (known = "") # (other = "")
  <2>1. ~OneWork(r, s)
    BY <1>3, <1>10
  <2>2. Identity(r) # Identity(s)
    <3>1. \A a : /\ Pair("doi", known) # Pair("fallback", a) /\ Pair("doi", other) # Pair("fallback", a)
                /\ Pair("doi", known) # Pair(s.by, a) /\ Pair("doi", other) # Pair(r.by, a)
      BY <1>4, <1>7, <1>8
    <3>2. CASE known # "" /\ other = ""
      BY <1>5, <1>6, <3>1, <3>2
    <3>3. CASE known = "" /\ other # ""
      BY <1>5, <1>6, <3>1, <3>3
    <3> QED BY <1>10, <3>2, <3>3
  <2> QED BY <2>1, <2>2
<1>11. CASE known = "" /\ other = "" /\ r.id = "" /\ s.id = ""
  <2>1. /\ Identity(r) = Pair("fallback", Pair(r.title, r.signed))
        /\ Identity(s) = Pair("fallback", Pair(s.title, s.signed))
    BY <1>5, <1>6, <1>11
  <2>2. Identity(r) = Identity(s) <=> r.title = s.title /\ r.signed = s.signed
    BY <1>7, <2>1
  <2>3. OneWork(r, s) <=> r.title = s.title /\ r.signed = s.signed
    BY <1>3, <1>11
  <2> QED BY <2>2, <2>3
<1>12. CASE known = "" /\ other = "" /\ r.id # "" /\ s.id # ""
  <2>1. Identity(r) = Pair(r.by, r.id) /\ Identity(s) = Pair(s.by, s.id)
    BY <1>5, <1>6, <1>12
  <2>2. Identity(r) = Identity(s) <=> r.by = s.by /\ r.id = s.id
    BY <1>7, <2>1
  <2>3. OneWork(r, s) <=> r.by = s.by /\ r.id = s.id
    BY <1>3, <1>12
  <2> QED BY <2>2, <2>3
<1>13. CASE known = "" /\ other = "" /\ (r.id = "") # (s.id = "")
  <2>1. ~OneWork(r, s)
    BY <1>3, <1>13
  <2>2. Identity(r) # Identity(s)
    <3>1. \A a, b : Pair(r.by, a) # Pair("fallback", b) /\ Pair(s.by, a) # Pair("fallback", b)
      BY <1>4, <1>7
    <3>2. CASE r.id # "" /\ s.id = ""
      BY <1>5, <1>6, <1>13, <3>1, <3>2
    <3>3. CASE r.id = "" /\ s.id # ""
      BY <1>5, <1>6, <1>13, <3>1, <3>3
    <3> QED BY <1>13, <3>2, <3>3
  <2> QED BY <2>1, <2>2
<1> QED BY <1>9, <1>10, <1>11, <1>12, <1>13

LEMMA LeastPlace ==
  ASSUME NEW places \in SUBSET Nat, places # {}
  PROVE  Min(places) \in places
BY LeastNatural DEF Min

\* What is taken of a field is said by one of the places it is taken from.
LEMMA FirstIs ==
  ASSUME NEW group, NEW f, NEW places \in SUBSET Nat, places # {}
  PROVE  \E q \in places : First(group, places, f) = group[q][f]
<1>1. Min(places) \in places
  BY LeastPlace
<1>2. First(group, places, f) = group[Min(places)][f]
  BY DEF First
<1> QED BY <1>1, <1>2

\* A list of records of one work, and what is merged of it.
LEMMA MergedRecordIs ==
  ASSUME NEW group, NEW n \in Nat \ {0}, group = [k \in 1..n |-> group[k]],
         \A k \in 1..n : Made(group[k])
  PROVE  SaysWhatItsMembersSay(MergedRecord(group))
<1> DEFINE m == MergedRecord(group)
           members == ToSet(group)
           cited == [k \in 1..n |-> group[k].citation_count]
           counts == {s.citation_count : s \in members}
           Sayings(f) == {<<r.by, r[f]>> : r \in {q \in members : q[f] # ""}}
<1>1. /\ m["title"] = Chosen(group, "title") /\ m.title = m["title"]
      /\ m["update_status"] = First(group, Given(group, "update_status"), "update_status")
      /\ m.citation_count = Max(counts)
      /\ m.conflicts = Conflicts(group)
      /\ m.provenance = group
  BY DEF MergedRecord
<1> HIDE DEF m
<1>2. DOMAIN group = 1..n /\ 1..n \in SUBSET Nat /\ 1 \in 1..n
  OBVIOUS
<1>3. \A r : r \in members <=> \E k \in 1..n : r = group[k]
  BY <1>2 DEF ToSet
<1> HIDE DEF members
<1>4. ASSUME NEW f
      PROVE  /\ Given(group, f) \in SUBSET (1..n) /\ Given(group, f) \in SUBSET Nat
             /\ \A k \in 1..n : k \in Given(group, f) <=> group[k][f] # ""
  BY <1>2 DEF Given
<1> DEFINE registered == {i \in Given(group, "title") : group[i].by \in Registries}
           places == IF registered # {} THEN registered ELSE Given(group, "title")
<1>5. /\ Given(group, "title") = 1..n
      /\ places \in SUBSET (1..n) /\ places # {} /\ places \in SUBSET Nat
      /\ m["title"] = First(group, places, "title")
      /\ \A p \in 1..n : group[p].by \in Registries => \A q \in places : group[q].by \in Registries
  <2>1. Given(group, "title") = 1..n
    BY <1>4 DEF Made
  <2>2. m["title"] = First(group, places, "title")
    BY <1>1 DEF Chosen
  <2> QED BY <1>2, <2>1, <2>2
<1> HIDE DEF registered, places
<1>6. PICK t \in places : m["title"] = group[t]["title"]
  <2>1. \E q \in places : First(group, places, "title") = group[q]["title"]
    BY <1>5, FirstIs
  <2> QED BY <1>5, <2>1
<1>7. ASSUME NEW f \in Fields
      PROVE  /\ Given(group, f) # {} => \E q \in Given(group, f) : m[f] = group[q][f]
             /\ Given(group, f) = {} => m[f] = ""
  <2>1. CASE f = "title"
    <3>1. t \in Given(group, f) /\ m[f] = group[t][f]
      BY <1>5, <1>6, <2>1
    <3> QED BY <3>1
  <2>2. CASE f = "update_status"
    <3>1. m[f] = First(group, Given(group, f), f)
      BY <1>1, <2>2
    <3>2. ASSUME Given(group, f) # {} PROVE \E q \in Given(group, f) : m[f] = group[q][f]
      <4>1. \E q \in Given(group, f) : First(group, Given(group, f), f) = group[q][f]
        BY <1>4, <3>2, FirstIs
      <4> QED BY <3>1, <4>1
    <3> QED BY <3>1, <3>2 DEF First
  <2> QED BY <2>1, <2>2 DEF Fields
<1>8. ASSUME NEW f \in Fields PROVE m[f] # "" => \E r \in members : m[f] = r[f]
  BY <1>3, <1>4, <1>7
<1>9. ASSUME NEW f \in Fields, NEW r \in members, r[f] # "", r[f] # m[f]
      PROVE  f \in DOMAIN m.conflicts
  <2>1. PICK p \in 1..n : r = group[p]
    BY <1>3
  <2>2. p \in Given(group, f)
    BY <1>4, <1>9, <2>1
  <2>3. PICK q \in Given(group, f) : m[f] = group[q][f]
    BY <1>7, <2>2
  <2>4. f \in Disputed(group)
    BY <1>9, <2>1, <2>2, <2>3 DEF Disputed
  <2> QED BY <1>1, <2>4 DEF Conflicts
<1>10. ASSUME NEW f \in DOMAIN m.conflicts
       PROVE  /\ m.conflicts[f] = Sayings(f)
              /\ \E p, q \in Sayings(f) : p[2] # q[2]
  <2>1. /\ f \in Disputed(group)
        /\ m.conflicts[f] = {<<group[i].by, group[i][f]>> : i \in Given(group, f)}
    BY <1>1, <1>10 DEF Conflicts
  <2>2. PICK i \in Given(group, f), j \in Given(group, f) : group[i][f] # group[j][f]
    BY <2>1 DEF Disputed
  <2>3. ASSUME NEW k \in Given(group, f) PROVE <<group[k].by, group[k][f]>> \in Sayings(f)
    <3>1. group[k] \in members /\ group[k][f] # ""
      BY <1>3, <1>4
    <3> QED BY <3>1
  <2>4. ASSUME NEW x \in Sayings(f)
        PROVE  \E k \in Given(group, f) : x = <<group[k].by, group[k][f]>>
    <3>1. PICK r \in members : r[f] # "" /\ x = <<r.by, r[f]>>
      OBVIOUS
    <3>2. PICK k \in 1..n : r = group[k]
      BY <1>3
    <3> QED BY <1>4, <3>1, <3>2
  <2> HIDE DEF Sayings
  <2>5. m.conflicts[f] = Sayings(f)
    BY <2>1, <2>3, <2>4
  <2>6. <<group[i].by, group[i][f]>>[2] # <<group[j].by, group[j][f]>>[2]
    BY <2>2
  <2> QED BY <2>2, <2>3, <2>5, <2>6
<1>11. ASSUME NEW r \in members, r.by \in Registries
       PROVE  \E s \in members : s.by \in Registries /\ s.title = m.title
  <2>1. PICK p \in 1..n : r = group[p]
    BY <1>3
  <2>2. group[t].by \in Registries /\ group[t] \in members
    BY <1>3, <1>5, <1>6, <1>11, <2>1
  <2> QED BY <1>1, <1>6, <2>2
<1>12. /\ \E r \in members : m.citation_count = r.citation_count
       /\ \A r \in members : r.citation_count <= m.citation_count
  <2>1. counts = {cited[k] : k \in 1..n}
    BY <1>3
  <2>2. cited \in Surjection(1..n, counts)
    BY <2>1 DEF Surjection
  <2>3. counts \in SUBSET Nat /\ counts # {}
    <3>1. \A k \in 1..n : cited[k] \in Nat
      BY DEF Made
    <3> HIDE DEF counts, cited
    <3> QED BY <1>2, <2>1, <3>1
  <2>4. \A c : c \in counts <=> \E r \in members : c = r.citation_count
    OBVIOUS
  <2> HIDE DEF counts, cited
  <2>5. IsFiniteSet(counts)
    BY <2>2, FS_Interval, FS_Surjection
  <2>6. Max(counts) \in counts /\ \A y \in counts : Max(counts) >= y
    BY <2>3, <2>5, GreatestNatural
  <2>7. \A y \in counts : y <= Max(counts)
    BY <2>3, <2>6
  <2> QED BY <1>1, <2>4, <2>6, <2>7
<1> HIDE DEF Sayings
<1>13. m.provenance = group /\ ToSet(m.provenance) = members
  BY <1>1 DEF members
<1>14. SaysWhatItsMembersSay(m)
  BY <1>8, <1>9, <1>10, <1>11, <1>12, <1>13 DEF SaysWhatItsMembersSay, Sayings
<1> QED BY <1>14 DEF m

\* The groups: which records a merged record is made of.
LEMMA GroupsAre ==
  ASSUME NEW found, NEW n \in Nat, found = [j \in 1..n |-> found[j]]
  PROVE  /\ IsFiniteSet(Leads(found)) /\ Leads(found) \in SUBSET (1..n)
         /\ \A i \in 1..n : /\ IsFiniteSet(Same(found, i)) /\ Same(found, i) \in SUBSET (1..n)
                            /\ i \in Same(found, i)
         /\ \A i, j \in Leads(found) : Identity(found[i]) = Identity(found[j]) => i = j
         /\ \A i \in 1..n : \E l \in Leads(found) : i \in Same(found, l)
<1>1. DOMAIN found = 1..n /\ IsFiniteSet(1..n)
  BY FS_Interval
<1>2. Leads(found) \in SUBSET (1..n) /\ IsFiniteSet(Leads(found))
  <2>1. Leads(found) \in SUBSET (1..n)
    BY <1>1 DEF Leads
  <2> QED BY <1>1, <2>1, FS_Subset
<1>3. ASSUME NEW i \in 1..n
      PROVE  /\ IsFiniteSet(Same(found, i)) /\ Same(found, i) \in SUBSET (1..n)
             /\ i \in Same(found, i)
  <2>1. Same(found, i) \in SUBSET (1..n) /\ i \in Same(found, i)
    BY <1>1 DEF Same
  <2> QED BY <1>1, <2>1, FS_Subset
<1>4. ASSUME NEW i \in Leads(found), NEW j \in Leads(found), Identity(found[i]) = Identity(found[j])
      PROVE  i = j
  <2>1. j \in Same(found, i) /\ i \in Same(found, j)
    BY <1>1, <1>2, <1>4 DEF Same
  <2>2. i <= j /\ j <= i
    BY <2>1 DEF Leads
  <2> QED BY <1>2, <2>2
<1>5. ASSUME NEW i \in 1..n PROVE \E l \in Leads(found) : i \in Same(found, l)
  <2>1. PICK l \in Same(found, i) : \A j \in Same(found, i) : l <= j
    <3>1. Same(found, i) \in SUBSET Nat /\ Same(found, i) # {}
      BY <1>3
    <3> QED BY <3>1, LeastNatural
  <2>2. l \in 1..n /\ Identity(found[l]) = Identity(found[i])
    BY <1>1, <2>1 DEF Same
  <2>3. Same(found, l) = Same(found, i)
    BY <2>2 DEF Same
  <2>4. l \in Leads(found)
    BY <1>1, <2>1, <2>2, <2>3 DEF Leads
  <2> QED BY <1>3, <2>3, <2>4
<1> QED BY <1>2, <1>3, <1>4, <1>5

\* A record of a merge: a work's group, in the order of the places.
LEMMA MergedIs ==
  ASSUME NEW found, NEW n \in Nat, found = [j \in 1..n |-> found[j]]
  PROVE  LET m == Cardinality(Leads(found))
             lead == Ascending(Leads(found))
             merged == MergedRecords(found)
         IN  /\ m \in Nat /\ DOMAIN merged = 1..m /\ merged = [k \in 1..m |-> merged[k]]
             /\ lead \in [1..m -> Leads(found)]
             /\ \A l \in Leads(found) : \E k \in 1..m : lead[k] = l
             /\ \A k, l \in 1..m : lead[k] = lead[l] => k = l
             /\ \A k \in 1..m :
                  LET group == Picked(found, Same(found, lead[k]))
                  IN  merged[k] = MergedRecord(group) /\ merged[k].provenance = group
<1> DEFINE m == Cardinality(Leads(found))
           lead == Ascending(Leads(found))
           merged == MergedRecords(found)
<1>1. IsFiniteSet(Leads(found)) /\ Leads(found) \in SUBSET Nat
  BY GroupsAre
<1>2. /\ m \in Nat /\ lead \in [1..m -> Leads(found)]
      /\ \A l \in Leads(found) : \E k \in 1..m : lead[k] = l
      /\ \A k, l \in 1..m : k < l <=> lead[k] < lead[l]
  BY <1>1, AscendingIs
<1> HIDE DEF lead
<1>3. ASSUME NEW k \in 1..m, NEW l \in 1..m, lead[k] = lead[l] PROVE k = l
  <2>1. ~(lead[k] < lead[l]) /\ ~(lead[l] < lead[k])
    BY <1>1, <1>2, <1>3
  <2> QED BY <1>2, <2>1
<1>4. merged = [k \in 1..m |-> MergedRecord(Picked(found, Same(found, lead[k])))]
  BY <1>2 DEF MergedRecords, lead
<1>5. \A group : MergedRecord(group).provenance = group
  BY DEF MergedRecord
<1> HIDE DEF m, merged
<1>6. DOMAIN merged = 1..m /\ merged = [k \in 1..m |-> merged[k]]
  BY <1>4
<1>7. \A k \in 1..m : /\ merged[k] = MergedRecord(Picked(found, Same(found, lead[k])))
                      /\ merged[k].provenance = Picked(found, Same(found, lead[k]))
  BY <1>4, <1>5
<1> QED BY <1>2, <1>3, <1>6, <1>7 DEF m, lead, merged

\* What is kept of a list that is cut.
Start(s, n) == [i \in 1..n |-> s[i]]

LEMMA CutIs ==
  ASSUME NEW s, NEW m \in Nat, s = Start(s, m), NEW most \in Nat
  PROVE  \E n \in 0..m : /\ FirstOf(s, most) = Start(s, n)
                         /\ n <= most /\ (n < most => n = m)
<1>1. s \in Seq(ToSet(s)) /\ Len(s) = m
  BY Lists DEF Start
<1> DEFINE n == IF m < most THEN m ELSE most
<1>2. n \in 0..m /\ n <= most /\ (n < most => n = m)
  OBVIOUS
<1>3. FirstOf(s, most) = SubSeq(s, 1, n)
  BY <1>1 DEF FirstOf
<1> HIDE DEF n
<1>4. SubSeq(s, 1, n) = Start(s, n)
  BY <1>1, <1>2 DEF Start
<1> QED BY <1>2, <1>3, <1>4

\* The merge of the records found, and the cut of it, lose, invent and mistake nothing.
LEMMA MergeIsRight ==
  ASSUME NEW found, NEW n \in Nat, found = [j \in 1..n |-> found[j]],
         \A j \in 1..n : Made(found[j]), NEW most \in Nat
  PROVE  Faithful(found, FirstOf(MergedRecords(found), most), most)
<1> DEFINE m == Cardinality(Leads(found))
           lead == Ascending(Leads(found))
           merged == MergedRecords(found)
           cut == FirstOf(merged, most)
           Group(k) == Picked(found, Same(found, lead[k]))
           Of(k) == ToSet(merged[k].provenance)
           Members(k) == ToSet(cut[k].provenance)
<1>1. /\ m \in Nat /\ DOMAIN merged = 1..m /\ merged = [k \in 1..m |-> merged[k]]
      /\ lead \in [1..m -> Leads(found)]
      /\ \A l \in Leads(found) : \E k \in 1..m : lead[k] = l
      /\ \A k, l \in 1..m : lead[k] = lead[l] => k = l
      /\ \A k \in 1..m : merged[k] = MergedRecord(Group(k)) /\ merged[k].provenance = Group(k)
  BY MergedIs
<1>2. /\ Leads(found) \in SUBSET (1..n)
      /\ \A i \in 1..n : /\ IsFiniteSet(Same(found, i)) /\ Same(found, i) \in SUBSET (1..n)
                         /\ i \in Same(found, i)
      /\ \A i, j \in Leads(found) : Identity(found[i]) = Identity(found[j]) => i = j
      /\ \A i \in 1..n : \E l \in Leads(found) : i \in Same(found, l)
  BY GroupsAre
<1>3. DOMAIN found = 1..n /\ ToSet(found) = {found[j] : j \in 1..n}
  BY DEF ToSet
<1> HIDE DEF m, lead, merged
<1>4. PICK size \in 0..m : /\ cut = Start(merged, size)
                           /\ size <= most /\ (size < most => size = m)
  <2>1. m \in Nat /\ merged = Start(merged, m)
    BY <1>1 DEF Start
  <2>2. \E size \in 0..m : /\ FirstOf(merged, most) = Start(merged, size)
                           /\ size <= most /\ (size < most => size = m)
    BY <2>1, CutIs
  <2> QED BY <2>2
<1> HIDE DEF cut
<1>5. ASSUME NEW k \in 1..m
      PROVE  /\ lead[k] \in 1..n /\ Same(found, lead[k]) \in SUBSET Nat
             /\ IsFiniteSet(Same(found, lead[k]))
             /\ Of(k) = {found[i] : i \in Same(found, lead[k])}
             /\ \A r \in Of(k) : /\ r \in ToSet(found) /\ Made(r)
                                 /\ Identity(r) = Identity(found[lead[k]])
             /\ found[lead[k]] \in Of(k)
  <2>1. lead[k] \in 1..n
    BY <1>1, <1>2
  <2>2. Same(found, lead[k]) \in SUBSET Nat /\ IsFiniteSet(Same(found, lead[k]))
    BY <1>2, <2>1
  <2>3. Of(k) = {found[i] : i \in Same(found, lead[k])}
    <3>1. merged[k].provenance = Picked(found, Same(found, lead[k]))
      BY <1>1
    <3>2. Of(k) = ToSet(Picked(found, Same(found, lead[k])))
      BY <3>1
    <3>3. PICK S : S = Same(found, lead[k])
      OBVIOUS
    <3>4. S \in SUBSET Nat /\ IsFiniteSet(S)
      BY <2>2, <3>3
    <3>5. \A r : r \in ToSet(Picked(found, S)) <=> \E i \in S : r = found[i]
      BY <3>4, PickedIs
    <3> QED BY <3>2, <3>3, <3>5
  <2>4. \A i \in Same(found, lead[k]) : i \in 1..n /\ Identity(found[i]) = Identity(found[lead[k]])
    BY <1>2, <2>1 DEF Same
  <2> HIDE DEF Of
  <2> QED BY <1>2, <1>3, <2>1, <2>2, <2>3, <2>4
<1>6. ASSUME NEW j \in 1..n PROVE \E k \in 1..m : found[j] \in Of(k)
  <2>1. PICK l \in Leads(found) : j \in Same(found, l)
    BY <1>2
  <2>2. PICK k \in 1..m : lead[k] = l
    BY <1>1
  <2> HIDE DEF Of
  <2> QED BY <1>5, <2>1, <2>2
<1>7. ASSUME NEW k \in 1..m
      PROVE  SaysWhatItsMembersSay(merged[k])
  <2> DEFINE group == Group(k)
             length == Cardinality(Same(found, lead[k]))
  <2>1. length \in Nat /\ group = [q \in 1..length |-> found[Ascending(Same(found, lead[k]))[q]]]
    BY <1>5, PickedIs
  <2>2. merged[k] = MergedRecord(group) /\ Of(k) = ToSet(group)
    BY <1>1
  <2>3. found[lead[k]] \in Of(k) /\ \A r \in Of(k) : Made(r)
    BY <1>5
  <2> HIDE DEF group, length, Of
  <2>4. group = [q \in 1..length |-> group[q]] /\ ToSet(group) = {group[q] : q \in 1..length}
    BY <2>1 DEF ToSet
  <2>5. \A q \in 1..length : Made(group[q])
    BY <2>2, <2>3, <2>4
  <2>6. length # 0
    <3>1. \E q \in 1..length : TRUE
      BY <2>2, <2>3, <2>4
    <3> QED BY <2>1, <3>1
  <2> QED BY <2>1, <2>2, <2>4, <2>5, <2>6, MergedRecordIs
<1>8. ASSUME NEW k \in 1..size
      PROVE  k \in 1..m /\ cut[k] = merged[k] /\ Members(k) = Of(k)
  BY <1>1, <1>4 DEF Start
<1>9. DOMAIN cut = 1..size /\ Len(cut) = size
  BY <1>4 DEF Start
<1> HIDE DEF Of, Members
<1>10. ASSUME NEW r \in ToSet(found)
       PROVE  (\E k \in DOMAIN cut : r \in Members(k)) \/ Len(cut) = most
  <2>1. PICK k \in 1..m : r \in Of(k)
    BY <1>3, <1>6
  <2>2. CASE size = m
    BY <1>8, <1>9, <2>1, <2>2
  <2>3. CASE size # m
    BY <1>4, <1>9, <2>3
  <2> QED BY <2>2, <2>3
<1>11. ASSUME NEW k \in DOMAIN cut, NEW l \in DOMAIN cut, NEW r \in Members(k), NEW s \in Members(l)
       PROVE  OneWork(r, s) <=> k = l
  <2>1. k \in 1..m /\ l \in 1..m /\ r \in Of(k) /\ s \in Of(l)
    BY <1>8, <1>9
  <2>2. /\ Made(r) /\ Made(s) /\ lead[k] \in Leads(found) /\ lead[l] \in Leads(found)
        /\ Identity(r) = Identity(found[lead[k]]) /\ Identity(s) = Identity(found[lead[l]])
    BY <1>1, <1>5, <2>1
  <2>3. Identity(r) = Identity(s) <=> k = l
    BY <1>1, <1>2, <2>1, <2>2
  <2> QED BY <2>2, <2>3, IdentityTells
<1>12. ASSUME NEW k \in DOMAIN cut
       PROVE  Members(k) \subseteq ToSet(found) /\ SaysWhatItsMembersSay(cut[k])
  <2>1. k \in 1..m /\ Members(k) = Of(k) /\ cut[k] = merged[k]
    BY <1>8, <1>9
  <2> QED BY <1>5, <1>7, <2>1
<1>13. Len(cut) <= most
  BY <1>4, <1>9
<1>14. Faithful(found, cut, most)
  BY <1>10, <1>11, <1>12, <1>13 DEF Faithful, Members
<1> QED BY <1>14 DEF cut, merged

\* What a search of the literature has found so far, and made of it.
Listing(found) ==
    /\ found \in Seq(ToSet(found))
    /\ \A r \in ToSet(found) : Made(r)

Merging(c, p) ==
    /\ Listing(p.found)
    /\ p.step # "told" => p.merged = <<>>
    /\ p.merged # <<>> => Faithful(p.found, p.merged, Asked(c).most)

MergeInv == \A c \in Calls : Merging(c, paper[c])

LEMMA NothingFound == Listing(<<>>)
<1>1. ToSet(<<>>) = {}
  BY DEF ToSet
<1>2. <<>> \in Seq({})
  OBVIOUS
<1> QED BY <1>1, <1>2 DEF Listing

LEMMA CrossrefLists_Listing ==
  ASSUME NEW end, NEW works \in ListOf(end, CrossrefLists)
  PROVE  Listing(CrossrefResults(works))
<1> DEFINE s == CrossrefResults(works)
<1>1. CASE works = <<>>
  <2>1. s = <<>>
    BY <1>1 DEF CrossrefResults
  <2> QED BY <2>1, NothingFound
<1>2. CASE works \in CrossrefLists
  <2>1. works \in Seq(Catalogued)
    BY <1>2, CatalogueAssumption
  <2>2. /\ Len(works) \in Nat /\ s = [i \in 1..Len(works) |-> s[i]]
        /\ \A i \in 1..Len(works) : works[i] \in Catalogued /\ s[i] = CrossrefResult(works[i])
    BY <2>1 DEF CrossrefResults
  <2> HIDE DEF s
  <2>3. \A i \in 1..Len(works) : Made(s[i])
    BY <2>2, CrossrefMakes
  <2>4. s \in Seq(ToSet(s)) /\ \A r : r \in ToSet(s) <=> \E i \in 1..Len(works) : r = s[i]
    BY <2>2, Lists
  <2> QED BY <2>3, <2>4 DEF Listing, s
<1> QED BY <1>1, <1>2 DEF ListOf

LEMMA OpenAlexLists_Listing ==
  ASSUME NEW end, NEW works \in ListOf(end, OpenAlexLists)
  PROVE  Listing(OpenAlexResults(works))
<1> DEFINE s == OpenAlexResults(works)
<1>1. CASE works = <<>>
  <2>1. s = <<>>
    BY <1>1 DEF OpenAlexResults
  <2> QED BY <2>1, NothingFound
<1>2. CASE works \in OpenAlexLists
  <2>1. works \in Seq(Catalogued)
    BY <1>2, CatalogueAssumption
  <2>2. /\ Len(works) \in Nat /\ s = [i \in 1..Len(works) |-> s[i]]
        /\ \A i \in 1..Len(works) : works[i] \in Catalogued /\ s[i] = OpenAlexResult(works[i])
    BY <2>1 DEF OpenAlexResults
  <2> HIDE DEF s
  <2>3. \A i \in 1..Len(works) : Made(s[i])
    BY <2>2, OpenAlexMakes
  <2>4. s \in Seq(ToSet(s)) /\ \A r : r \in ToSet(s) <=> \E i \in 1..Len(works) : r = s[i]
    BY <2>2, Lists
  <2> QED BY <2>3, <2>4 DEF Listing, s
<1> QED BY <1>1, <1>2 DEF ListOf

\* The records of one provider after those of another.
LEMMA Together ==
  ASSUME NEW s, NEW t, Listing(s), Listing(t)
  PROVE  Listing(s \o t)
<1> DEFINE st == s \o t
           all == ToSet(s) \cup ToSet(t)
<1>1. st \in Seq(all)
  BY DEF Listing
<1> HIDE DEF st, all
<1>2. Len(st) \in Nat /\ st \in [1..Len(st) -> all]
  BY <1>1
<1>3. st = [i \in 1..Len(st) |-> st[i]] /\ \A i \in 1..Len(st) : st[i] \in all
  BY <1>2
<1>4. st \in Seq(ToSet(st)) /\ \A r : r \in ToSet(st) <=> \E i \in 1..Len(st) : r = st[i]
  BY <1>2, <1>3, Lists
<1>5. \A r \in ToSet(st) : r \in ToSet(s) \/ r \in ToSet(t)
  BY <1>3, <1>4 DEF all
<1>6. \A r \in ToSet(st) : Made(r)
  BY <1>5 DEF Listing
<1> QED BY <1>4, <1>6 DEF Listing, st

\* A merge of what a search found.
LEMMA MergesWell ==
  ASSUME NEW found, Listing(found), NEW most \in Nat
  PROVE  Faithful(found, FirstOf(MergedRecords(found), most), most)
<1>1. /\ Len(found) \in Nat /\ found = [i \in 1..Len(found) |-> found[i]]
      /\ \A i \in 1..Len(found) : Made(found[i])
  BY DEF Listing
<1> QED BY <1>1, MergeIsRight

LEMMA MergeInit ==
  ASSUME AcademicInit
  PROVE  MergeInv
BY NothingFound DEF AcademicInit, MergeInv, Merging, NoPaper

LEMMA MergeKept ==
  ASSUME MergeInv, paper = [d \in Calls |-> paper[d]], UNCHANGED <<plan, round>>,
         NEW c \in Calls, NEW p, Becomes(c, p), Merging(c, p)
  PROVE  MergeInv'
<1>1. paper' = [d \in Calls |-> IF d = c THEN p ELSE paper[d]]
  BY DEF Becomes
<1>2. \A d \in Calls : Merging(d, paper'[d])
  BY <1>1 DEF MergeInv
<1> QED BY <1>2 DEF MergeInv, Merging, Asked

\* A paper of which only other fields have changed.
Alike(q, p) == q = [f \in PaperFields |-> q[f]] /\ q.found = p.found /\ q.merged = p.merged

LEMMA StepAlike ==
  ASSUME NEW p, NEW q, Alike(q, p), NEW s
  PROVE  Alike([q EXCEPT !.step = s], p)
BY DEF Alike, PaperFields

LEMMA TellsAlike ==
  ASSUME NEW c, NEW p, NEW q, Alike(q, p), NEW ok, Tells(c, q, ok)
  PROVE  \E r : Becomes(c, r) /\ Alike(r, p)
BY StepAlike DEF Tells

LEMMA ResolvedAlike ==
  ASSUME NEW c, NEW p, NEW q, Alike(q, p), Resolved(c, q)
  PROVE  \E r : Becomes(c, r) /\ Alike(r, p)
<1>1. CASE Asked(c).intent = "doi citations"
  BY <1>1, StepAlike DEF Resolved
<1>2. CASE Asked(c).intent # "doi citations"
  BY <1>2, TellsAlike DEF Resolved
<1> QED BY <1>1, <1>2

LEMMA HeardAlike ==
  ASSUME NEW p, NEW q, Alike(q, p), NEW s, NEW end, NEW a, NEW m
  PROVE  /\ Alike(Heard(q, s, end), p)
         /\ Alike(Found(Heard(q, s, end), s), p)
         /\ Alike([Heard(q, s, end) EXCEPT !.metadata = m], p)
         /\ Alike([Heard(q, s, end) EXCEPT !.agency = a, !.metadata = m], p)
BY DEF Alike, PaperFields, Heard, Found

\* A step of a search that tells nothing of records adds none.
LEMMA OtherSteps ==
  ASSUME NEW c \in Calls, PaperShape(paper[c]), AcademicStep(c), ~SearchTitle(c), ~SearchTopic(c)
  PROVE  \/ paper[c].step # "told" /\ \E q : Becomes(c, q) /\ Alike(q, paper[c])
         \/ \E q : Becomes(c, q) /\ Alike(q, NoPaper)
<1>1. Alike(paper[c], paper[c]) /\ Alike(NoPaper, NoPaper)
  BY DEF Alike, PaperShape, NoPaper, PaperFields
<1>2. CASE StartAcademic(c)
  <2>1. CASE Becomes(c, [NoPaper EXCEPT !.step = "told"])
    BY <1>1, <2>1, StepAlike
  <2>2. CASE Tells(c, NoPaper, FALSE)
    BY <1>1, <2>2, TellsAlike
  <2>3. CASE Becomes(c, [NoPaper EXCEPT !.step = FirstStep(Asked(c).intent)])
    BY <1>1, <2>3, StepAlike
  <2> QED BY <1>2, <2>1, <2>2, <2>3 DEF StartAcademic
<1>3. CASE AskAgency(c)
  <2>1. PICK a, s : Becomes(c, [paper[c] EXCEPT !.agency = a, !.step = s])
    BY <1>3 DEF AskAgency
  <2>2. Alike([paper[c] EXCEPT !.agency = a, !.step = s], paper[c])
    BY <1>1 DEF Alike, PaperFields
  <2> QED BY <1>3, <2>1, <2>2 DEF AskAgency, Goes
<1>4. CASE LookUpThere(c)
  <2>1. PICK s, end : Resolved(c, IF end = "ok" THEN Found(Heard(paper[c], s, end), s)
                                  ELSE [Heard(paper[c], s, end) EXCEPT !.metadata = "NOT_FOUND"])
    BY <1>4 DEF LookUpThere
  <2>2. Alike(IF end = "ok" THEN Found(Heard(paper[c], s, end), s)
              ELSE [Heard(paper[c], s, end) EXCEPT !.metadata = "NOT_FOUND"], paper[c])
    BY <1>1, HeardAlike
  <2> QED BY <1>4, <2>1, <2>2, ResolvedAlike DEF LookUpThere, Goes
<1>5. CASE TryDataCite(c)
  <2>1. PICK end : \/ Resolved(c, Found(Heard(paper[c], "datacite", end), "datacite"))
                   \/ Becomes(c, [Heard(paper[c], "datacite", end) EXCEPT !.step = "crossref"])
    BY <1>5 DEF TryDataCite
  <2>2. /\ Alike(Found(Heard(paper[c], "datacite", end), "datacite"), paper[c])
        /\ Alike([Heard(paper[c], "datacite", end) EXCEPT !.step = "crossref"], paper[c])
    BY <1>1, HeardAlike, StepAlike
  <2> QED BY <1>5, <2>1, <2>2, ResolvedAlike DEF TryDataCite, Goes
<1>6. CASE TryCrossref(c)
  <2>1. PICK end : Resolved(c, IF end = "ok" THEN Found(Heard(paper[c], "crossref", end), "crossref")
                               ELSE [Heard(paper[c], "crossref", end) EXCEPT
                                       !.agency = "", !.metadata = "NOT_AVAILABLE"])
    BY <1>6 DEF TryCrossref
  <2>2. Alike(IF end = "ok" THEN Found(Heard(paper[c], "crossref", end), "crossref")
              ELSE [Heard(paper[c], "crossref", end) EXCEPT
                      !.agency = "", !.metadata = "NOT_AVAILABLE"], paper[c])
    BY <1>1, HeardAlike
  <2> QED BY <1>6, <2>1, <2>2, ResolvedAlike DEF TryCrossref, Goes
<1>7. CASE FindWork(c) \/ ReadGraph(c) \/ ReadCitedBy(c) \/ SearchAuthors(c)
  <2>1. \/ \E s : Becomes(c, [paper[c] EXCEPT !.step = s])
        \/ \E ok : Tells(c, paper[c], ok)
    BY <1>7 DEF FindWork, ReadGraph, ReadCitedBy, SearchAuthors
  <2>2. paper[c].step # "told"
    BY <1>7 DEF FindWork, ReadGraph, ReadCitedBy, SearchAuthors, Goes
  <2> QED BY <1>1, <2>1, <2>2, StepAlike, TellsAlike
<1> QED BY <1>2, <1>3, <1>4, <1>5, <1>6, <1>7 DEF AcademicStep

\* A search asks for a record at least.
LEMMA RecordsAsked ==
  ASSUME ToolInv, AcademicInv, NEW c \in Calls, NEW steps, Goes(c, steps), "off" \notin steps
  PROVE  Asked(c).most \in Nat \ {0}
<1>1. at[c] = "work" /\ Asked(c).tool = "academic_search"
  BY DEF Goes, AcademicInv
<1>2. plan \in Plans /\ round \in 1..Len(plan) /\ c \in DOMAIN plan[round]
  BY <1>1 DEF ToolInv, ToolTypeOK, Live, Ending
<1>3. plan[round] \in Rounds
  BY <1>2 DEF Rounds
<1> QED BY <1>1, <1>2, <1>3, IntentAssumption DEF Asked

\* The merge is right from the first step of a search to the last.
LEMMA MergeSteps ==
  ASSUME ToolInv, AcademicInv, MergeInv, NEW c \in Calls, Academic(c)
  PROVE  MergeInv'
<1>1. /\ paper = [d \in Calls |-> paper[d]] /\ PaperShape(paper[c])
      /\ Merging(c, paper[c]) /\ paper[c] = [f \in PaperFields |-> paper[c][f]]
  BY DEF AcademicInv, MergeInv, PaperShape
<1>0. UNCHANGED <<plan, round>>
  BY AcademicWorks, AskedStays
<1>2. ASSUME NEW found, Listing(found), TellsMerged(c, found), Asked(c).most \in Nat \ {0}
      PROVE  MergeInv'
  <2> DEFINE merged == FirstOf(MergedRecords(found), Asked(c).most)
             q == [[paper[c] EXCEPT !.found = found, !.merged = merged] EXCEPT !.step = "told"]
  <2>1. Becomes(c, q)
    BY <1>2 DEF TellsMerged, Tells
  <2>4. Faithful(found, merged, Asked(c).most)
    BY <1>2, MergesWell
  <2> HIDE DEF merged
  <2>2. q.found = found /\ q.merged = merged /\ q.step = "told"
    BY <1>1 DEF PaperFields
  <2> HIDE DEF q
  <2>3. Merging(c, q)
    BY <1>2, <2>2, <2>4 DEF Merging
  <2> QED BY <1>0, <1>1, <2>1, <2>3, MergeKept
<1>3. CASE SearchTitle(c)
  <2>0. PICK end \in Answerable : \E works \in ListOf(end, CrossrefLists) :
           \/ TellsMerged(c, CrossrefResults(works))
           \/ Becomes(c, [paper[c] EXCEPT !.step = "topic", !.found = CrossrefResults(works)])
    BY <1>3 DEF SearchTitle
  <2>1. PICK works \in ListOf(end, CrossrefLists) :
           \/ TellsMerged(c, CrossrefResults(works))
           \/ Becomes(c, [paper[c] EXCEPT !.step = "topic", !.found = CrossrefResults(works)])
    BY <2>0
  <2>2. Listing(CrossrefResults(works))
    BY CrossrefLists_Listing
  <2>3. paper[c].merged = <<>> /\ Asked(c).most \in Nat \ {0}
    BY <1>1, <1>3, RecordsAsked DEF SearchTitle, Goes, Merging
  <2> DEFINE q == [paper[c] EXCEPT !.step = "topic", !.found = CrossrefResults(works)]
  <2>4. q.found = CrossrefResults(works) /\ q.merged = <<>>
    BY <1>1, <2>3 DEF PaperFields
  <2> HIDE DEF q
  <2>5. Merging(c, q)
    BY <2>2, <2>4 DEF Merging
  <2> QED BY <1>0, <1>1, <1>2, <2>1, <2>2, <2>3, <2>5, MergeKept DEF q
<1>4. CASE SearchTopic(c)
  <2>0. PICK end \in Answerable : \E works \in ListOf(end, OpenAlexLists) :
           TellsMerged(c, paper[c].found \o OpenAlexResults(works))
    BY <1>4 DEF SearchTopic
  <2>1. PICK works \in ListOf(end, OpenAlexLists) :
           TellsMerged(c, paper[c].found \o OpenAlexResults(works))
    BY <2>0
  <2>2. Asked(c).most \in Nat \ {0}
    BY <1>4, RecordsAsked DEF SearchTopic
  <2>3. Listing(paper[c].found \o OpenAlexResults(works))
    BY <1>1, OpenAlexLists_Listing, Together DEF Merging
  <2> QED BY <1>2, <2>1, <2>2, <2>3
<1>5. CASE ~SearchTitle(c) /\ ~SearchTopic(c)
  <2>1. CASE paper[c].step # "told" /\ \E q : Becomes(c, q) /\ Alike(q, paper[c])
    <3>1. PICK q : Becomes(c, q) /\ Alike(q, paper[c])
      BY <2>1
    <3>2. Merging(c, q)
      BY <1>1, <2>1, <3>1 DEF Merging, Alike
    <3> QED BY <1>0, <1>1, <3>1, <3>2, MergeKept
  <2>2. CASE \E q : Becomes(c, q) /\ Alike(q, NoPaper)
    <3>1. PICK q : Becomes(c, q) /\ Alike(q, NoPaper)
      BY <2>2
    <3>2. Merging(c, q)
      BY <3>1, NothingFound DEF Merging, Alike, NoPaper
    <3> QED BY <1>0, <1>1, <3>1, <3>2, MergeKept
  <2>3. AcademicStep(c)
    BY DEF Academic
  <2> QED BY <1>1, <1>5, <2>1, <2>2, <2>3, OtherSteps
<1> QED BY <1>3, <1>4, <1>5

\* A step of anything else leaves the papers as they are, or forgets some; what a call
\* asked changes only when all are forgotten.
LEMMA PapersMove ==
  ASSUME Definite, [Next]_vars
  PROVE  \/ UNCHANGED <<paper, plan, round>>
         \/ \E gone \in SUBSET Calls :
               /\ paper' = [c \in Calls |-> IF c \in gone THEN NoPaper ELSE paper[c]]
               /\ gone = Calls \/ UNCHANGED <<plan, round>>
         \/ \E c \in Calls : Academic(c)
<1>1. CASE UNCHANGED vars
  BY <1>1 DEF vars, academicVars, toolVars
<1>2. ASSUME NEW c \in Calls, Web(c) \/ GitHub(c) \/ Files(c) \/ Plain(c)
      PROVE  UNCHANGED <<paper, plan, round>>
  <2>1. UNCHANGED paper
    BY <1>2 DEF Web, GitHub, Files, Plain, academicVars
  <2>2. UNCHANGED <<plan, round>>
    BY <1>2, WebWorks, FilesWork, GitHubWorks, PlainWorks, AskedStays
  <2> QED BY <2>1, <2>2
<1>3. ASSUME Reset \/ Ingestion PROVE UNCHANGED <<paper, plan, round>>
  BY <1>3 DEF Reset, Ingestion, IngestStep, QuotaReset, academicVars, toolVars
<1>4. ASSUME NEW gone \in SUBSET Calls, Forgets(gone)
      PROVE  paper' = [c \in Calls |-> IF c \in gone THEN NoPaper ELSE paper[c]]
  BY <1>4 DEF Forgets
<1>5. ASSUME NEW c \in Calls, CallTimesOut(c)
      PROVE {c} \in SUBSET Calls /\ Forgets({c}) /\ UNCHANGED <<plan, round>>
  BY <1>5 DEF CallTimesOut, TimesOut
<1>6. ASSUME RoundEnds PROVE Forgets(Calls)
  BY <1>6 DEF RoundEnds
<1> QED BY <1>1, <1>2, <1>3, <1>4, <1>5, <1>6 DEF Next

LEMMA Next_MergeInv ==
  ASSUME Definite, ToolInv, AcademicInv, MergeInv, [Next]_vars
  PROVE  MergeInv'
<1>1. CASE UNCHANGED <<paper, plan, round>>
  BY <1>1 DEF MergeInv, Merging, Asked
<1>2. ASSUME NEW gone \in SUBSET Calls,
             paper' = [c \in Calls |-> IF c \in gone THEN NoPaper ELSE paper[c]],
             gone = Calls \/ UNCHANGED <<plan, round>>
      PROVE  MergeInv'
  <2>1. ASSUME NEW c \in Calls, c \in gone PROVE Merging(c, paper[c])'
    <3>1. paper'[c] = NoPaper
      BY <1>2, <2>1
    <3>2. NoPaper.found = <<>> /\ NoPaper.merged = <<>>
      BY DEF NoPaper
    <3> QED BY <3>1, <3>2, NothingFound DEF Merging
  <2>2. ASSUME NEW c \in Calls, c \notin gone PROVE Merging(c, paper[c])'
    <3>1. paper'[c] = paper[c] /\ UNCHANGED <<plan, round>>
      BY <1>2, <2>2
    <3> QED BY <3>1 DEF MergeInv, Merging, Asked
  <2> QED BY <2>1, <2>2 DEF MergeInv
<1> QED BY <1>1, <1>2, PapersMove, MergeSteps

-----------------------------------------------------------------------------
(* The library.                                                            *)

LookupFields == {"step", "words", "vectors", "rows"}

LookupShape(l) ==
    /\ l = [f \in LookupFields |-> l[f]]
    /\ l.step \in {"off", "words", "storage", "vectors", "rows", "told"}
    /\ l.words \in Seq(Chunks) /\ l.vectors \in Seq(Chunks)

FileInv ==
    /\ library \in [Documents -> {"absent", "fts_ready", "ready"}]
    /\ lookup = [c \in Calls |-> lookup[c]]
    /\ \A c \in Calls : LookupShape(lookup[c])

LEMMA NoLookupShape == LookupShape(NoLookup)
BY DEF NoLookup, LookupShape, LookupFields

LEMMA FileInit_FileInv ==
  ASSUME FileInit
  PROVE  FileInv
BY NoLookupShape DEF FileInit, FileInv

LEMMA FileStays ==
  ASSUME FileInv, UNCHANGED fileVars
  PROVE  FileInv'
BY DEF FileInv, fileVars, LookupShape

LEMMA FileForgets ==
  ASSUME FileInv, NEW gone \in SUBSET Calls, Forgets(gone)
  PROVE  FileInv'
<1>1. library' = library /\ lookup' = [c \in Calls |-> IF c \in gone THEN NoLookup ELSE lookup[c]]
  BY DEF Forgets
<1>2. lookup' = [c \in Calls |-> lookup'[c]]
  BY <1>1
<1>3. ASSUME NEW c \in Calls PROVE LookupShape(lookup'[c])
  BY <1>1, NoLookupShape DEF FileInv
<1> QED BY <1>1, <1>2, <1>3 DEF FileInv, LookupShape

\* What the database lists is a list of chunks.
LEMMA ListsAreOfChunks ==
  ASSUME NEW statuses, NEW rows \in Listed(statuses)
  PROVE  rows \in Seq(Chunks)
<1>1. PICK S \in SUBSET Chunks : rows \in SetToSeqs(S)
  BY DEF Listed
<1>2. Cardinality(S) \in Nat
  BY ChunkAssumption, FS_Subset, FS_CardinalityType
<1>3. rows \in [1..Cardinality(S) -> S]
  BY <1>1 DEF SetToSeqs
<1> QED BY <1>2, <1>3

LEMMA FilesKeep ==
  ASSUME FileInv, NEW c \in Calls, Files(c)
  PROVE  FileInv'
<1>1. LookupShape(lookup[c]) /\ library' = library
  BY DEF FileInv, Files, FileStep, StartFiles, SearchWords, EmbedQuestion, SearchVectors, EndFiles
<1>2. ASSUME NEW l, LookupShape(l), lookup' = [lookup EXCEPT ![c] = l] PROVE FileInv'
  <2>1. lookup' = [d \in Calls |-> IF d = c THEN l ELSE lookup[d]]
    BY <1>2 DEF FileInv
  <2>2. lookup' = [d \in Calls |-> lookup'[d]]
    BY <2>1
  <2>3. ASSUME NEW d \in Calls PROVE LookupShape(lookup'[d])
    BY <1>2, <2>1 DEF FileInv
  <2> QED BY <1>1, <2>2, <2>3 DEF FileInv, LookupShape
<1>3. ASSUME NEW step \in {"words", "storage", "vectors", "rows", "told"}
      PROVE  /\ LookupShape([lookup[c] EXCEPT !.step = step])
             /\ \A rows \in Seq(Chunks) :
                  /\ LookupShape([lookup[c] EXCEPT !.step = step, !.words = rows])
                  /\ LookupShape([lookup[c] EXCEPT !.step = step, !.vectors = rows])
             /\ \A rows : LookupShape([lookup[c] EXCEPT !.step = step, !.rows = rows])
  BY <1>1 DEF LookupShape, LookupFields
<1>4. CASE StartFiles(c)
  BY <1>2, <1>3, <1>4 DEF StartFiles
<1>5. CASE SearchWords(c)
  <2>1. \/ \E rows \in Seq(Chunks) :
              lookup' = [lookup EXCEPT ![c] = [lookup[c] EXCEPT !.step = "storage", !.words = rows]]
        \/ lookup' = [lookup EXCEPT ![c] = [lookup[c] EXCEPT !.step = "told"]]
    BY <1>5, ListsAreOfChunks DEF SearchWords, FileInv
  <2> QED BY <1>2, <1>3, <2>1
<1>6. CASE EmbedQuestion(c)
  BY <1>2, <1>3, <1>6 DEF EmbedQuestion
<1>7. CASE SearchVectors(c)
  <2>1. \/ \E rows \in Seq(Chunks) :
              lookup' = [lookup EXCEPT ![c] = [lookup[c] EXCEPT !.step = "rows", !.vectors = rows]]
        \/ lookup' = [lookup EXCEPT ![c] = [lookup[c] EXCEPT !.step = "told"]]
    BY <1>7, ListsAreOfChunks DEF SearchVectors, FileInv
  <2> QED BY <1>2, <1>3, <2>1
<1>8. CASE EndFiles(c)
  BY <1>2, <1>3, <1>8 DEF EndFiles
<1> QED BY <1>4, <1>5, <1>6, <1>7, <1>8 DEF Files, FileStep

LEMMA IngestionKeeps ==
  ASSUME FileInv, Ingestion
  PROVE  FileInv'
<1>1. lookup' = lookup /\ library' \in [Documents -> {"absent", "fts_ready", "ready"}]
  BY DEF FileInv, Ingestion, IngestStep
<1> QED BY <1>1 DEF FileInv, LookupShape

-----------------------------------------------------------------------------
(* The excerpts given of what both searches list.                          *)

\* What divides the score 1 evenly.
LEMMA EvenShare ==
  ASSUME NEW d \in Nat \ {0}, Scale % d = 0
  PROVE  Scale \div d \in Nat \ {0} /\ Scale = d * (Scale \div d)
<1>1. Scale \in Nat \ {0}
  BY FusionAssumption
<1>2. Scale \div d \in Nat
  BY <1>1
<1>3. Scale = d * (Scale \div d)
  BY <1>1
<1>4. Scale \div d # 0
  BY <1>1, <1>3
<1> QED BY <1>2, <1>3, <1>4

\* Products grow with their factors.
LEMMA Products ==
  ASSUME NEW a \in Nat, NEW b \in Nat, NEW n \in Nat
  PROVE  a * n \in Nat /\ (a <= b => a * n <= b * n) /\ (a < b /\ n # 0 => a * n < b * n)
OBVIOUS

\* The higher a rank, the greater its share.
LEMMA SharesFall ==
  ASSUME NEW r \in 1..Ranks, NEW s \in 1..Ranks
  PROVE  /\ Share(r) \in Nat \ {0}
         /\ r < s => Share(r) > Share(s)
<1>0. K \in Nat /\ Ranks \in Nat /\ Scale % (K + r) = 0 /\ Scale % (K + s) = 0
  BY FusionAssumption
<1>1. r \in Nat \ {0} /\ s \in Nat \ {0} /\ K + r \in Nat \ {0} /\ K + s \in Nat \ {0}
  BY <1>0
<1>2. /\ Share(r) \in Nat \ {0} /\ Scale = (K + r) * Share(r)
      /\ Share(s) \in Nat \ {0} /\ Scale = (K + s) * Share(s)
  BY <1>0, <1>1, EvenShare DEF Share
<1>3. ASSUME r < s, Share(r) <= Share(s) PROVE FALSE
  <2>1. Share(r) * (K + r) <= Share(s) * (K + r)
    BY <1>1, <1>2, <1>3, Products
  <2>2. K + r < K + s
    BY <1>0, <1>1, <1>3
  <2>3. (K + r) * Share(s) < (K + s) * Share(s)
    BY <1>1, <1>2, <2>2, Products
  <2> HIDE DEF Share
  <2> QED BY <1>1, <1>2, <2>1, <2>3
<1> HIDE DEF Share
<1> QED BY <1>2, <1>3

\* A list of chunks no longer than the ranks there are.
Short(list) == list \in Seq(Chunks) /\ Len(list) <= Ranks

LEMMA RanksAre ==
  ASSUME NEW list, Short(list), NEW k
  PROVE  /\ k \in ToSet(list) => RankIn(k, list) \in 1..Ranks
         /\ PointsIn(k, list) \in Nat
<1>1. ASSUME k \in ToSet(list) PROVE RankIn(k, list) \in 1..Ranks
  <2>1. \E i \in 1..Len(list) : list[i] = k
    BY <1>1 DEF Short, ToSet
  <2>2. RankIn(k, list) \in 1..Len(list)
    BY <2>1 DEF RankIn
  <2> QED BY <2>2, FusionAssumption DEF Short
<1> QED BY <1>1, SharesFall DEF PointsIn

LEMMA PointsAre ==
  ASSUME NEW words, NEW vectors, Short(words), Short(vectors), NEW k \in Chunks
  PROVE  Points(k, words, vectors) \in Nat
<1>1. Hundredths(k.bonus) \in Nat
  BY FusionAssumption, ChunkAssumption DEF Hundredths
<1> QED BY <1>1, RanksAre DEF Points

\* What is ranked above a chunk in a list has more points of it.
LEMMA InBoth ==
  ASSUME NEW list, Short(list), NEW j, NEW k,
         k \in ToSet(list) => j \in ToSet(list) /\ RankIn(j, list) < RankIn(k, list)
  PROVE  /\ PointsIn(j, list) >= PointsIn(k, list)
         /\ k \in ToSet(list) => PointsIn(j, list) > PointsIn(k, list)
<1>1. CASE k \in ToSet(list)
  <2>1. RankIn(j, list) \in 1..Ranks /\ RankIn(k, list) \in 1..Ranks
    BY <1>1, RanksAre
  <2>2. PointsIn(j, list) = Share(RankIn(j, list)) /\ PointsIn(k, list) = Share(RankIn(k, list))
    BY <1>1 DEF PointsIn
  <2>3. Share(RankIn(j, list)) \in Nat /\ Share(RankIn(k, list)) \in Nat
    BY <2>1, SharesFall
  <2>4. Share(RankIn(j, list)) > Share(RankIn(k, list))
    BY <1>1, <2>1, SharesFall
  <2> QED BY <2>2, <2>3, <2>4
<1>2. CASE k \notin ToSet(list)
  <2>1. PointsIn(k, list) = 0
    BY <1>2 DEF PointsIn
  <2>2. PointsIn(j, list) \in Nat
    BY RanksAre
  <2> QED BY <1>2, <2>1, <2>2
<1> QED BY <1>1, <1>2

\* What both searches rank above a chunk has more points.
LEMMA OverHasMore ==
  ASSUME NEW words, NEW vectors, Short(words), Short(vectors), NEW j \in Chunks, NEW k \in Chunks,
         k \in ToSet(words) \cup ToSet(vectors), Over(j, k, words, vectors)
  PROVE  Points(j, words, vectors) > Points(k, words, vectors)
<1>1. /\ PointsIn(j, words) >= PointsIn(k, words) /\ PointsIn(j, vectors) >= PointsIn(k, vectors)
      /\ \/ PointsIn(j, words) > PointsIn(k, words)
         \/ PointsIn(j, vectors) > PointsIn(k, vectors)
  BY InBoth DEF Over
<1>2. /\ PointsIn(j, words) \in Nat /\ PointsIn(k, words) \in Nat
      /\ PointsIn(j, vectors) \in Nat /\ PointsIn(k, vectors) \in Nat
  BY RanksAre
<1>3. /\ Hundredths(j.bonus) \in Nat /\ Hundredths(k.bonus) \in Nat
      /\ Hundredths(j.bonus) >= Hundredths(k.bonus)
  <2>1. Scale \div 100 \in Nat
    BY FusionAssumption
  <2>2. j.bonus \in Nat /\ k.bonus \in Nat /\ k.bonus <= j.bonus
    BY ChunkAssumption DEF Over
  <2> QED BY <2>1, <2>2, Products DEF Hundredths
<1> QED BY <1>1, <1>2, <1>3 DEF Points

\* The fused list is fair to its two lists.
LEMMA HybridIsFair ==
  ASSUME NEW c, NEW words, NEW vectors, Short(words), Short(vectors),
         Asked(c).most \in Nat \ {0}
  PROVE  FairExcerpts(words, vectors, Hybrid(c, words, vectors), Asked(c).most)
<1> DEFINE S == ToSet(words) \cup ToSet(vectors)
           P(k) == Points(k, words, vectors)
           Sooner(j, k) == \/ P(j) > P(k)
                           \/ P(j) = P(k) /\ j.document < k.document
                           \/ P(j) = P(k) /\ j.document = k.document /\ j.index < k.index
           all == InOrder(S, Sooner)
           n == Cardinality(S)
           most == Asked(c).most
           m == IF Len(all) < most THEN Len(all) ELSE most
           R == {ss \in S \X S : Sooner(ss[1], ss[2])}
<1>1. S \subseteq Chunks /\ IsFiniteSet(S)
  <2>1. S \subseteq Chunks
    BY DEF Short, ToSet
  <2> QED BY <2>1, ChunkAssumption, FS_Subset
<1>2. \A k \in S : P(k) \in Nat /\ k.document \in Nat /\ k.index \in Nat
  BY <1>1, PointsAre, ChunkAssumption
<1>3. \A j, k \in S : (j.document = k.document /\ j.index = k.index) => j = k
  BY <1>1, ChunkAssumption
<1> HIDE DEF S, P
<1>4. \A x, y \in S : <<x, y>> \in R <=> Sooner(x, y)
  OBVIOUS
<1>5. /\ \A x, y \in S : x # y => Sooner(x, y) \/ Sooner(y, x)
      /\ \A x \in S : ~Sooner(x, x)
      /\ \A x, y, z \in S : Sooner(x, y) /\ Sooner(y, z) => Sooner(x, z)
  BY <1>2, <1>3
<1>6. all = Sorted(S, R)
  <2>1. \A x \in S : {y \in S : <<y, x>> \in R} = {y \in S : Sooner(y, x)}
    BY <1>4
  <2>2. \A i : (CHOOSE x \in S : Cardinality({y \in S : Sooner(y, x)}) = i - 1)
               = (CHOOSE x \in S : Cardinality({y \in S : <<y, x>> \in R}) = i - 1)
    BY <2>1
  <2>3. all = [i \in 1..n |-> CHOOSE x \in S : Cardinality({y \in S : Sooner(y, x)}) = i - 1]
    BY DEF InOrder
  <2> QED BY <2>2, <2>3 DEF Sorted
<1>7. Hybrid(c, words, vectors) = SubSeq(all, 1, m)
  BY DEF Hybrid, S, P
<1> HIDE DEF R, Sooner, all
<1>8. /\ \A x, y \in S : x # y => <<x, y>> \in R \/ <<y, x>> \in R
      /\ \A x \in S : <<x, x>> \notin R
      /\ \A x, y, z \in S : <<x, y>> \in R /\ <<y, z>> \in R => <<x, z>> \in R
  BY <1>4, <1>5
<1>9. /\ n \in Nat /\ all \in [1..n -> S]
      /\ \A x \in S : \E i \in 1..n : all[i] = x
      /\ \A i, j \in 1..n : i < j <=> <<all[i], all[j]>> \in R
  BY <1>1, <1>6, <1>8, OrderedList
<1> HIDE DEF n
<1>10. all \in Seq(S) /\ Len(all) = n /\ m \in 0..n /\ (m < most => m = n)
  BY <1>9
<1> HIDE DEF m, most
<1>11. /\ Hybrid(c, words, vectors) = [i \in 1..m |-> all[i]]
       /\ Len(Hybrid(c, words, vectors)) = m
  BY <1>7, <1>10
<1>12. ASSUME NEW i \in 1..m, NEW j \in ToSet(words), Over(j, all[i], words, vectors)
       PROVE  \E h \in 1..(i - 1) : Hybrid(c, words, vectors)[h] = j
  <2>1. j \in S /\ all[i] \in S /\ i \in 1..n
    BY <1>9, <1>10 DEF S
  <2>2. P(j) > P(all[i])
    BY <1>1, <1>12, <2>1, OverHasMore DEF P, S
  <2>3. <<j, all[i]>> \in R
    BY <1>4, <2>1, <2>2 DEF Sooner
  <2>4. PICK h \in 1..n : all[h] = j
    BY <1>9, <2>1
  <2>5. h < i
    BY <1>9, <2>1, <2>3, <2>4
  <2> QED BY <1>10, <1>11, <2>1, <2>4, <2>5
<1>13. ASSUME m < most
       PROVE  ToSet(words) \subseteq ToSet(Hybrid(c, words, vectors))
  <2>1. m = n
    BY <1>10, <1>13
  <2>2. \A j \in ToSet(words) : \E h \in 1..m : Hybrid(c, words, vectors)[h] = j
    BY <1>9, <1>11, <2>1 DEF S
  <2> QED BY <1>11, <2>2 DEF ToSet
<1> QED BY <1>11, <1>12, <1>13 DEF FairExcerpts, most

\* What is given of a call's search is fair, from lists of chunks.
Fair(c, l) ==
    /\ Short(l.words) /\ Short(l.vectors)
    /\ l.step \in {"words", "storage", "vectors", "rows"} => Asked(c).most \in Nat \ {0}
    /\ l.step # "told" => l.rows = <<>>
    /\ FairExcerpts(l.words, l.vectors, l.rows, Asked(c).most)

FairInv == \A c \in Calls : Fair(c, lookup[c])

LEMMA NothingIsFair ==
  ASSUME NEW words, NEW vectors, NEW most
  PROVE  FairExcerpts(words, vectors, <<>>, most) /\ Short(<<>>)
BY FusionAssumption DEF FairExcerpts, Short

LEMMA NoLookupIsFair ==
  ASSUME NEW c
  PROVE  Fair(c, NoLookup)
BY NothingIsFair DEF Fair, NoLookup

LEMMA ListsAreRanked ==
  ASSUME NEW statuses, NEW rows \in Listed(statuses)
  PROVE  Short(rows)
<1>1. PICK S \in SUBSET Chunks : rows \in SetToSeqs(S)
  BY DEF Listed
<1>2. Cardinality(S) \in Nat /\ Cardinality(Chunks) \in Nat /\ Cardinality(S) <= Cardinality(Chunks)
  BY ChunkAssumption, FS_Subset, FS_CardinalityType
<1>3. rows \in [1..Cardinality(S) -> S]
  BY <1>1 DEF SetToSeqs
<1>4. Len(rows) = Cardinality(S) /\ rows \in Seq(Chunks)
  BY <1>2, <1>3
<1> QED BY <1>2, <1>4, ChunkAssumption, FusionAssumption DEF Short

\* A call that searches, of valid arguments, asks for an excerpt at least.
LEMMA MostIs ==
  ASSUME ToolInv, NEW c \in Calls, Looks(c, "off"), Asked(c).valid
  PROVE  Asked(c).most \in Nat \ {0}
<1>1. plan \in Plans /\ round \in 1..Len(plan) /\ c \in DOMAIN plan[round]
  BY DEF ToolInv, ToolTypeOK, Live, Ending, Looks
<1>2. plan[round] \in Rounds
  BY <1>1 DEF Rounds
<1> QED BY <1>1, <1>2, ExcerptAssumption DEF Looks, Asked

LEMMA FairSteps ==
  ASSUME ToolInv, FileInv, FairInv, NEW c \in Calls, Files(c)
  PROVE  FairInv'
<1> DEFINE old == lookup[c]
<1>1. /\ LookupShape(old) /\ Fair(c, old) /\ old = [f \in LookupFields |-> old[f]]
      /\ lookup = [d \in Calls |-> lookup[d]]
  BY DEF FileInv, FairInv, LookupShape
<1>2. \A d : Asked(d)' = Asked(d)
  BY DEF Files, FileStep, StartFiles, SearchWords, EmbedQuestion, SearchVectors, EndFiles, Returns,
         toolVars, Asked
<1>3. ASSUME NEW l, Fair(c, l), lookup' = [lookup EXCEPT ![c] = l] PROVE FairInv'
  <2>1. \A d \in Calls : lookup'[d] = IF d = c THEN l ELSE lookup[d]
    BY <1>1, <1>3
  <2>2. \A d \in Calls : Fair(d, lookup'[d])
    BY <1>3, <2>1 DEF FairInv
  <2> QED BY <1>2, <2>2 DEF FairInv, Fair
<1>4. ASSUME NEW s, old.step # "told", s # "told",
             s \in {"words", "storage", "vectors", "rows"} => Asked(c).most \in Nat \ {0}
      PROVE  /\ Fair(c, [old EXCEPT !.step = s])
             /\ \A rows : Short(rows) => /\ Fair(c, [old EXCEPT !.step = s, !.words = rows])
                                          /\ Fair(c, [old EXCEPT !.step = s, !.vectors = rows])
  BY <1>1, <1>4, NothingIsFair DEF Fair, LookupFields
<1>5. ASSUME old.step # "told" PROVE Fair(c, [old EXCEPT !.step = "told"])
  BY <1>1, <1>5, NothingIsFair DEF Fair, LookupFields
<1> HIDE DEF old
<1>6. CASE StartFiles(c)
  <2>1. old.step = "off" /\ Looks(c, "off")
    BY <1>6 DEF StartFiles, Looks, old
  <2>2. CASE Asked(c).valid
    <3>1. lookup' = [lookup EXCEPT ![c] = [old EXCEPT !.step = "words"]]
      BY <1>1, <1>6, <2>2 DEF StartFiles, old
    <3>2. Asked(c).most \in Nat \ {0}
      BY <2>1, <2>2, MostIs
    <3> QED BY <1>3, <1>4, <2>1, <3>1, <3>2
  <2>3. CASE ~Asked(c).valid
    <3>1. lookup' = [lookup EXCEPT ![c] = [old EXCEPT !.step = "told"]]
      BY <1>1, <1>6, <2>3 DEF StartFiles, old
    <3> QED BY <1>3, <1>5, <2>1, <3>1
  <2> QED BY <2>2, <2>3
<1>7. CASE SearchWords(c)
  <2>1. old.step = "words" /\ Asked(c).most \in Nat \ {0}
    BY <1>1, <1>7 DEF SearchWords, Looks, old, Fair
  <2>2. \/ \E rows : Short(rows) /\
              lookup' = [lookup EXCEPT ![c] = [old EXCEPT !.step = "storage", !.words = rows]]
        \/ lookup' = [lookup EXCEPT ![c] = [old EXCEPT !.step = "told"]]
    BY <1>1, <1>7, ListsAreRanked DEF SearchWords, old
  <2> QED BY <1>3, <1>4, <1>5, <2>1, <2>2
<1>8. CASE EmbedQuestion(c)
  <2>1. old.step = "storage" /\ Asked(c).most \in Nat \ {0}
    BY <1>1, <1>8 DEF EmbedQuestion, Looks, old, Fair
  <2>2. \/ \E s \in {"vectors", "rows"} : lookup' = [lookup EXCEPT ![c] = [old EXCEPT !.step = s]]
        \/ lookup' = [lookup EXCEPT ![c] = [old EXCEPT !.step = "told"]]
    BY <1>1, <1>8 DEF EmbedQuestion, old
  <2> QED BY <1>3, <1>4, <1>5, <2>1, <2>2
<1>9. CASE SearchVectors(c)
  <2>1. old.step = "vectors" /\ Asked(c).most \in Nat \ {0}
    BY <1>1, <1>9 DEF SearchVectors, Looks, old, Fair
  <2>2. \/ \E rows : Short(rows) /\
              lookup' = [lookup EXCEPT ![c] = [old EXCEPT !.step = "rows", !.vectors = rows]]
        \/ lookup' = [lookup EXCEPT ![c] = [old EXCEPT !.step = "told"]]
    BY <1>1, <1>9, ListsAreRanked DEF SearchVectors, old
  <2> QED BY <1>3, <1>4, <1>5, <2>1, <2>2
<1>10. CASE EndFiles(c)
  <2> DEFINE rows == Hybrid(c, old.words, old.vectors)
  <2>1. old.step = "rows" /\ Asked(c).most \in Nat \ {0} /\ Short(old.words) /\ Short(old.vectors)
    BY <1>1, <1>10 DEF EndFiles, Looks, old, Fair
  <2>2. FairExcerpts(old.words, old.vectors, rows, Asked(c).most)
    BY <2>1, HybridIsFair
  <2> HIDE DEF rows
  <2>3. Fair(c, [old EXCEPT !.step = "told", !.rows = rows])
    BY <1>1, <2>1, <2>2 DEF Fair, LookupFields
  <2>4. lookup' = [lookup EXCEPT ![c] = [old EXCEPT !.step = "told", !.rows = rows]]
    BY <1>1, <1>10 DEF EndFiles, old, rows
  <2> QED BY <1>3, <2>3, <2>4
<1> QED BY <1>6, <1>7, <1>8, <1>9, <1>10 DEF Files, FileStep

\* A step of anything else leaves the searches of files as they are, or forgets some;
\* what a call asked changes only when all are forgotten.
LEMMA LookupsMove ==
  ASSUME Definite, [Next]_vars
  PROVE  \/ UNCHANGED <<lookup, plan, round>>
         \/ \E gone \in SUBSET Calls :
               /\ lookup' = [c \in Calls |-> IF c \in gone THEN NoLookup ELSE lookup[c]]
               /\ gone = Calls \/ UNCHANGED <<plan, round>>
         \/ \E c \in Calls : Files(c)
<1>1. CASE UNCHANGED vars
  BY <1>1 DEF vars, fileVars, toolVars
<1>2. ASSUME NEW c \in Calls, Web(c) \/ Academic(c) \/ GitHub(c) \/ Plain(c)
      PROVE  UNCHANGED <<lookup, plan, round>>
  <2>1. UNCHANGED lookup
    BY <1>2 DEF Web, Academic, GitHub, Plain, fileVars
  <2>2. UNCHANGED <<plan, round>>
    BY <1>2, WebWorks, AcademicWorks, GitHubWorks, PlainWorks, AskedStays
  <2> QED BY <2>1, <2>2
<1>3. ASSUME Reset \/ Ingestion PROVE UNCHANGED <<lookup, plan, round>>
  BY <1>3 DEF Reset, Ingestion, IngestStep, QuotaReset, fileVars, toolVars
<1>4. ASSUME NEW gone \in SUBSET Calls, Forgets(gone)
      PROVE  lookup' = [c \in Calls |-> IF c \in gone THEN NoLookup ELSE lookup[c]]
  BY <1>4 DEF Forgets
<1>5. ASSUME NEW c \in Calls, CallTimesOut(c)
      PROVE {c} \in SUBSET Calls /\ Forgets({c}) /\ UNCHANGED <<plan, round>>
  BY <1>5 DEF CallTimesOut, TimesOut
<1>6. ASSUME RoundEnds PROVE Forgets(Calls)
  BY <1>6 DEF RoundEnds
<1> QED BY <1>1, <1>2, <1>3, <1>4, <1>5, <1>6 DEF Next

LEMMA Next_FairInv ==
  ASSUME Definite, ToolInv, FileInv, FairInv, [Next]_vars
  PROVE  FairInv'
<1>1. CASE UNCHANGED <<lookup, plan, round>>
  BY <1>1 DEF FairInv, Fair, Asked
<1>2. ASSUME NEW gone \in SUBSET Calls,
             lookup' = [c \in Calls |-> IF c \in gone THEN NoLookup ELSE lookup[c]],
             gone = Calls \/ UNCHANGED <<plan, round>>
      PROVE  FairInv'
  <2>1. ASSUME NEW c \in Calls, c \in gone PROVE Fair(c, lookup[c])'
    <3>1. lookup'[c] = NoLookup
      BY <1>2, <2>1
    <3> QED BY <3>1, NothingIsFair DEF Fair, NoLookup
  <2>2. ASSUME NEW c \in Calls, c \notin gone PROVE Fair(c, lookup[c])'
    <3>1. lookup'[c] = lookup[c] /\ UNCHANGED <<plan, round>>
      BY <1>2, <2>2
    <3> QED BY <3>1 DEF FairInv, Fair, Asked
  <2> QED BY <2>1, <2>2 DEF FairInv
<1> QED BY <1>1, <1>2, LookupsMove, FairSteps

-----------------------------------------------------------------------------
(* The search of the web.                                                  *)

\* The pages kept, best first.
LEMMA InOrderOfPages ==
  ASSUME NEW S \in SUBSET Pages
  PROVE  /\ Cardinality(S) \in Nat
         /\ InOrder(S, Better) \in [1..Cardinality(S) -> S]
<1> DEFINE R == {ss \in S \X S : Better(ss[1], ss[2])}
<1>0. IsFiniteSet(S)
  BY PageAssumption, FS_Subset
<1>1. \A x, y \in S : <<x, y>> \in R <=> Better(x, y)
  OBVIOUS
<1> HIDE DEF R
<1>2. /\ \A x, y \in S : x # y => <<x, y>> \in R \/ <<y, x>> \in R
      /\ \A x \in S : <<x, x>> \notin R
      /\ \A x, y, z \in S : <<x, y>> \in R /\ <<y, z>> \in R => <<x, z>> \in R
  BY <1>1, PageAssumption DEF Better
<1>3. \A i : (CHOOSE x \in S : Cardinality({y \in S : Better(y, x)}) = i - 1)
             = (CHOOSE x \in S : Cardinality({y \in S : <<y, x>> \in R}) = i - 1)
  <2>1. \A x \in S : {y \in S : <<y, x>> \in R} = {y \in S : Better(y, x)}
    BY <1>1
  <2> QED BY <2>1
<1>4. InOrder(S, Better) = [i \in 1..Cardinality(S) |->
                              CHOOSE x \in S : Cardinality({y \in S : Better(y, x)}) = i - 1]
  BY DEF InOrder
<1>5. InOrder(S, Better) = Sorted(S, R)
  BY <1>3, <1>4 DEF Sorted
<1> QED BY <1>0, <1>2, <1>5, OrderedList

SearchFields == {"tavily", "brave", "asked", "known", "found", "ranked", "got", "ok", "hits",
                 "braveHits", "fused"}

Dearest == Max(Costs)

SearchShape(s) ==
    /\ s = [f \in SearchFields |-> s[f]]
    /\ s.tavily \in {"off", "search", "basic", "advanced", "ended", "told"}
    /\ s.brave \in {"off", "asked", "ended"}
    /\ s.asked \in 0..Queries /\ s.known \in Nat /\ s.ok \in BOOLEAN
    /\ s.found \subseteq Pages /\ s.ranked \in Seq(Pages) /\ Len(s.ranked) <= Ranks
    /\ s.got \subseteq 1..Len(s.ranked)
    /\ \A h \in ToSet(s.hits) : h.rank \in 1..Ranks
    /\ \A h \in ToSet(s.braveHits) : h.rank \in 1..Ranks

\* What is extracted, and what is called found, was found; the budget has been
\* overdrawn by a batch at most.
Sound(s) ==
    /\ s.tavily \in {"basic", "advanced"} => s.ranked # <<>>
    /\ s.ok => s.ranked # <<>>
    /\ s.tavily = "search" => s.got = {} /\ ~s.ok
    /\ s.known <= (Budget - 1) + Parallel * Dearest

\* A search goes on while there are queries left and credits.
Searching(c, s) == s.tavily = "search" => s.asked < Wanted(c) /\ s.known < Budget

Begun(s) == s.tavily # "off" \/ s.brave # "off"

WebInv ==
    /\ keys \in Keyrings
    /\ brave \in {"READY", "RATE_LIMITED", "UNAUTHORIZED", "ERROR"}
    /\ web = [c \in Calls |-> web[c]]
    /\ \A c \in Calls :
         /\ SearchShape(web[c]) /\ Sound(web[c]) /\ Searching(c, web[c])
         /\ Begun(web[c]) => Asked(c).tool = "web_search"

\* A table of a rows and b columns.
LEMMA Table ==
  ASSUME NEW a \in Nat, NEW b \in Nat
  PROVE  /\ IsFiniteSet((1..a) \X (1..b))
         /\ Cardinality((1..a) \X (1..b)) = a * b
         /\ a * b \in Nat
<1>1. IsFiniteSet(1..a) /\ Cardinality(1..a) = a
  BY FS_Interval
<1>2. IsFiniteSet(1..b) /\ Cardinality(1..b) = b
  BY FS_Interval
<1>3. /\ IsFiniteSet((1..a) \X (1..b))
      /\ Cardinality((1..a) \X (1..b)) = Cardinality(1..a) * Cardinality(1..b)
  BY <1>1, <1>2, FS_Product
<1>4. Cardinality((1..a) \X (1..b)) = a * b
  BY <1>1, <1>2, <1>3
<1> QED BY <1>3, <1>4, FS_CardinalityType

LEMMA DearestIs == Dearest \in Nat /\ Parallel * Dearest \in Nat
<1>1. \E x \in Costs : \A y \in Costs : x >= y
  BY CostAssumption
<1>2. Max(Costs) \in Costs
  BY <1>1 DEF Max
<1>3. Dearest \in Nat
  BY <1>2, CostAssumption DEF Dearest
<1> QED BY <1>3, LimitAssumption, Table

LEMMA NoSearchShape ==
  /\ SearchShape(NoSearch) /\ Sound(NoSearch) /\ NoSearch.tavily = "off" /\ ~Begun(NoSearch)
  /\ \A b \in {"off", "asked"} :
       LET begun == [NoSearch EXCEPT !.brave = b]
       IN  /\ SearchShape(begun) /\ Sound(begun) /\ begun.tavily = "off"
           /\ begun.asked = 0 /\ begun.known = 0 /\ begun.got = {} /\ ~begun.ok
<1>1. 0 \in 0..Queries /\ 0 <= (Budget - 1) + Parallel * Dearest
  BY LimitAssumption, DearestIs
<1>2. <<>> \in Seq(Pages) /\ Len(<<>>) = 0 /\ 0 <= Ranks /\ ToSet(<<>>) = {}
  BY FusionAssumption DEF ToSet
<1> QED BY <1>1, <1>2 DEF NoSearch, SearchShape, SearchFields, Sound, Begun

LEMMA HitsAreRanked ==
  ASSUME NEW pages, Len(pages) \in Nat, Len(pages) <= Ranks, NEW by, NEW most
  PROVE  \A h \in ToSet(HitsOf(pages, by, most)) : h.rank \in 1..Ranks
<1> DEFINE S == {i \in 1..Len(pages) : i <= most /\ pages[i].safe}
           safe == Ascending(S)
<1>1. S \in SUBSET Nat /\ IsFiniteSet(S) /\ \A i \in S : i \in 1..Ranks
  <2>1. IsFiniteSet(1..Len(pages))
    BY FS_Interval
  <2>2. S \in SUBSET (1..Len(pages))
    OBVIOUS
  <2>3. IsFiniteSet(S)
    BY <2>1, <2>2, FS_Subset
  <2> QED BY <2>2, <2>3, FusionAssumption
<1> HIDE DEF S
<1>2. safe \in [1..Cardinality(S) -> S]
  BY <1>1, AscendingIs
<1>3. HitsOf(pages, by, most) = [k \in DOMAIN safe |-> Hit(pages[safe[k]], by, safe[k])]
  BY DEF HitsOf, S
<1> HIDE DEF safe
<1>4. \A k \in DOMAIN safe : Hit(pages[safe[k]], by, safe[k]).rank \in 1..Ranks
  BY <1>1, <1>2 DEF Hit
<1> QED BY <1>3, <1>4 DEF ToSet

LEMMA RankedAre ==
  ASSUME NEW found \in SUBSET Pages, NEW limit \in 1..Ranks
  PROVE  Ranked(found, limit) \in Seq(Pages) /\ Len(Ranked(found, limit)) <= Ranks
<1> DEFINE best == Best(found)
           kept == {p \in best :
                      Cardinality({q \in best : q.site = p.site /\ Better(q, p)}) < 2}
           seq == InOrder(kept, Better)
           n == IF Len(seq) < limit THEN Len(seq) ELSE limit
<1>1. kept \in SUBSET Pages
  BY DEF Best
<1>2. Ranked(found, limit) = SubSeq(seq, 1, n)
  BY DEF Ranked
<1> HIDE DEF kept
<1>3. Cardinality(kept) \in Nat /\ seq \in [1..Cardinality(kept) -> kept]
  BY <1>1, InOrderOfPages
<1> HIDE DEF seq
<1>4. seq \in Seq(Pages)
  BY <1>1, <1>3
<1>5. n \in 0..Len(seq) /\ n <= Ranks
  BY <1>4, FusionAssumption
<1> HIDE DEF n
<1>6. SubSeq(seq, 1, n) \in Seq(Pages) /\ Len(SubSeq(seq, 1, n)) = n
  BY <1>4, <1>5
<1> QED BY <1>2, <1>5, <1>6

LEMMA SumsAre ==
  ASSUME NEW size \in Nat, size <= Parallel, NEW replies, DOMAIN replies = 1..size
  PROVE  Sum(replies) \in Nat /\ Sum(replies) <= Parallel * Dearest
<1> DEFINE All == (1..Parallel) \X (1..Dearest)
           Told == {p \in (DOMAIN replies) \X (1..Dearest) : p[2] <= replies[p[1]].credits}
<1>1. Parallel \in Nat /\ Dearest \in Nat
  BY LimitAssumption, DearestIs
<1>2. IsFiniteSet(All) /\ Cardinality(All) = Parallel * Dearest
  BY <1>1, Table
<1>3. Told \in SUBSET All
  BY <1>1
<1>4. Sum(replies) = Cardinality(Told)
  BY DEF Sum, Dearest
<1> HIDE DEF Told, All
<1> QED BY <1>2, <1>3, <1>4, FS_Subset, FS_CardinalityType

LEMMA WebInit_WebInv ==
  ASSUME WebInit
  PROVE  WebInv
BY NoSearchShape DEF WebInit, WebInv, Searching

LEMMA WebStays ==
  ASSUME WebInv, UNCHANGED webVars, \A c \in Calls : Asked(c)' = Asked(c)
  PROVE  WebInv'
<1>1. \A c \in Calls : Wanted(c)' = Wanted(c)
  BY DEF Wanted, Deep
<1> QED BY <1>1 DEF WebInv, webVars, SearchShape, Sound, Searching, Dearest, Begun

LEMMA WebForgets ==
  ASSUME WebInv, NEW gone \in SUBSET Calls, Forgets(gone),
         \A c \in Calls \ gone : Asked(c)' = Asked(c)
  PROVE  WebInv'
<1>1. /\ UNCHANGED <<keys, brave>>
      /\ web' = [c \in Calls |-> IF c \in gone THEN NoSearch ELSE web[c]]
  BY DEF Forgets
<1>2. web' = [c \in Calls |-> web'[c]]
  BY <1>1
<1>3. ASSUME NEW c \in Calls
      PROVE  /\ SearchShape(web'[c]) /\ Sound(web'[c])
             /\ web'[c].tavily = "search" =>
                   web'[c].asked < Wanted(c)' /\ web'[c].known < Budget
             /\ Begun(web'[c]) => Asked(c)'.tool = "web_search"
  <2>1. CASE c \in gone
    BY <1>1, <2>1, NoSearchShape
  <2>2. CASE c \notin gone
    <3>1. Asked(c)' = Asked(c) /\ Wanted(c)' = Wanted(c)
      BY <2>2 DEF Wanted, Deep
    <3> QED BY <1>1, <2>2, <3>1 DEF WebInv, Searching
  <2> QED BY <2>1, <2>2
<1> QED BY <1>1, <1>2, <1>3 DEF WebInv, SearchShape, Sound, Searching, Dearest, Begun

\* What a step of the search must show of its state.
LEMMA WebBecomes ==
  ASSUME WebInv, NEW c \in Calls, NEW s, web' = [web EXCEPT ![c] = s],
         SearchShape(s), Sound(s), Searching(c, s), Asked(c).tool = "web_search",
         keys' = keys, brave' \in {"READY", "RATE_LIMITED", "UNAUTHORIZED", "ERROR"},
         \A d \in Calls : Asked(d)' = Asked(d)
  PROVE  WebInv'
<1>1. web' = [d \in Calls |-> IF d = c THEN s ELSE web[d]]
  BY DEF WebInv
<1>2. web' = [d \in Calls |-> web'[d]]
  BY <1>1
<1>3. \A d \in Calls : Wanted(d)' = Wanted(d)
  BY DEF Wanted, Deep
<1>4. ASSUME NEW d \in Calls
      PROVE  /\ SearchShape(web'[d]) /\ Sound(web'[d])
             /\ web'[d].tavily = "search" =>
                   web'[d].asked < Wanted(d)' /\ web'[d].known < Budget
             /\ Begun(web'[d]) => Asked(d)'.tool = "web_search"
  <2>1. CASE d = c
    BY <1>1, <1>3, <2>1 DEF Searching
  <2>2. CASE d # c
    BY <1>1, <1>3, <2>2 DEF WebInv, Searching
  <2> QED BY <2>1, <2>2
<1> QED BY <1>2, <1>3, <1>4 DEF WebInv, SearchShape, Sound, Searching, Dearest, Begun

\* The pipeline ends.
LEMMA TavilyEndsWell ==
  ASSUME NEW c \in Calls, NEW s, SearchShape(s), Sound(s), NEW ok \in BOOLEAN,
         ok => s.ranked # <<>>
  PROVE  /\ SearchShape(TavilyEnds(c, s, ok)) /\ Sound(TavilyEnds(c, s, ok))
         /\ TavilyEnds(c, s, ok).tavily = "ended"
<1> DEFINE hits == TavilyHits(s.ranked, s.got)
           b == IF ~ok /\ Deep(c) /\ s.brave = "off" /\ BraveReady THEN "asked" ELSE s.brave
           pages == [i \in 1..Len(s.ranked) |->
                       IF i \in s.got THEN [s.ranked[i] EXCEPT !.snippet = s.ranked[i].text]
                                      ELSE s.ranked[i]]
<1>1. Len(pages) = Len(s.ranked) /\ Len(s.ranked) \in Nat
  BY DEF SearchShape
<1>2. hits = HitsOf(pages, "tavily", Len(s.ranked))
  BY DEF TavilyHits
<1> HIDE DEF hits, pages
<1>3. \A h \in ToSet(hits) : h.rank \in 1..Ranks
  BY <1>1, <1>2, HitsAreRanked DEF SearchShape
<1>4. TavilyEnds(c, s, ok) =
         [s EXCEPT !.tavily = "ended", !.found = {}, !.ok = ok, !.hits = hits, !.brave = b]
  BY DEF TavilyEnds, hits, SearchShape, SearchFields
<1>5. b \in {"off", "asked", "ended"}
  BY DEF SearchShape
<1> HIDE DEF b
<1>6. SearchShape(TavilyEnds(c, s, ok))
  BY <1>3, <1>4, <1>5 DEF SearchShape, SearchFields
<1> QED BY <1>4, <1>6 DEF Sound, SearchShape, SearchFields

LEMMA WebKeeps ==
  ASSUME WebInv, NEW c \in Calls, Web(c)
  PROVE  WebInv'
<1>1. \A d \in Calls : Asked(d)' = Asked(d)
  <2>1. Definite
    BY DEF WebInv, SearchShape, Definite
  <2> QED BY <2>1, WebWorks, AskedStays
<1>2. /\ SearchShape(web[c]) /\ Sound(web[c]) /\ Searching(c, web[c])
      /\ Begun(web[c]) => Asked(c).tool = "web_search"
      /\ brave \in {"READY", "RATE_LIMITED", "UNAUTHORIZED", "ERROR"}
      /\ web = [d \in Calls |-> web[d]]
  BY DEF WebInv
<1> DEFINE Mine == Asked(c).tool = "web_search"
<1>3. ASSUME NEW s, web' = [web EXCEPT ![c] = s], SearchShape(s), Sound(s),
             s.tavily # "search", Mine, UNCHANGED <<keys, brave>>
      PROVE  WebInv'
  BY <1>1, <1>2, <1>3, WebBecomes DEF Searching
<1> HIDE DEF Mine
<1>4. CASE StartWeb(c)
  <2> DEFINE b == IF Routed(c) THEN "asked" ELSE "off"
             begun == [NoSearch EXCEPT !.brave = b]
  <2>1. /\ Mine /\ UNCHANGED <<keys, brave>>
        /\ web' = [web EXCEPT ![c] = IF Asked(c).valid /\ "tavily" \in keys
                                     THEN [begun EXCEPT !.tavily = "search"]
                                     ELSE TavilyEnds(c, begun, FALSE)]
    BY <1>4 DEF StartWeb, Mine
  <2>2. b \in {"off", "asked"}
    OBVIOUS
  <2> HIDE DEF b
  <2>3. /\ SearchShape(begun) /\ Sound(begun) /\ begun.asked = 0 /\ begun.known = 0
        /\ begun.got = {} /\ ~begun.ok
    BY <2>2, NoSearchShape
  <2> HIDE DEF begun
  <2>4. CASE Asked(c).valid /\ "tavily" \in keys
    <3> DEFINE s == [begun EXCEPT !.tavily = "search"]
    <3>1. SearchShape(s) /\ Sound(s) /\ s.asked = 0 /\ s.known = 0
      BY <2>3 DEF SearchShape, SearchFields, Sound
    <3>2. Searching(c, s)
      BY <3>1, LimitAssumption DEF Searching, Wanted
    <3>3. web' = [web EXCEPT ![c] = s]
      BY <2>1, <2>4
    <3> HIDE DEF s
    <3> QED BY <1>1, <1>2, <2>1, <3>1, <3>2, <3>3, WebBecomes DEF Mine
  <2>5. CASE ~(Asked(c).valid /\ "tavily" \in keys)
    <3>1. web' = [web EXCEPT ![c] = TavilyEnds(c, begun, FALSE)]
      BY <2>1, <2>5
    <3>2. /\ SearchShape(TavilyEnds(c, begun, FALSE)) /\ Sound(TavilyEnds(c, begun, FALSE))
          /\ TavilyEnds(c, begun, FALSE).tavily = "ended"
      BY <2>3, TavilyEndsWell
    <3> QED BY <1>3, <2>1, <3>1, <3>2
  <2> QED BY <2>4, <2>5
<1>5. CASE Batch(c)
  <2> DEFINE more == Wanted(c) - web[c].asked
             size == IF more < Parallel THEN more ELSE Parallel
  <2>1. /\ web[c].tavily = "search" /\ UNCHANGED <<keys, brave>>
        /\ Mine /\ web[c].asked < Wanted(c) /\ web[c].known < Budget /\ web[c].got = {}
    BY <1>2, <1>5 DEF Batch, Searching, Sound, Begun, Mine
  <2>2. PICK replies \in [1..size -> Replies] :
           LET search == [web[c] EXCEPT
                            !.asked = @ + size,
                            !.known = @ + Sum(replies),
                            !.found = @ \cup UNION {ToSet(replies[i].pages) : i \in 1..size}]
           IN  web' = [web EXCEPT ![c] =
                  IF MoreQueries(c, search) THEN search ELSE AfterQueries(c, search)]
    BY <1>5 DEF Batch
  <2>3. /\ Wanted(c) \in 1..Queries /\ Parallel \in Nat \ {0} /\ web[c].asked \in 0..Queries
        /\ Queries \in Nat
    BY <1>2, LimitAssumption DEF Wanted, SearchShape
  <2>4. size \in Nat /\ size <= Parallel /\ web[c].asked + size \in 0..Queries
    BY <2>1, <2>3
  <2> DEFINE found == web[c].found \cup UNION {ToSet(replies[i].pages) : i \in 1..size}
             asked == web[c].asked + size
             known == web[c].known + Sum(replies)
             search == [web[c] EXCEPT !.asked = asked, !.known = known, !.found = found]
  <2>5. web' = [web EXCEPT ![c] =
                  IF MoreQueries(c, search) THEN search ELSE AfterQueries(c, search)]
    BY <2>2
  <2> HIDE DEF size
  <2>6. Sum(replies) \in Nat /\ Sum(replies) <= Parallel * Dearest
    BY <2>4, SumsAre
  <2>7. found \subseteq Pages
    <3>1. ASSUME NEW r \in Replies PROVE r.pages \in Seq(Pages)
      <4>1. \/ r \in [pages : TavilyCatches, credits : Costs]
            \/ r = [pages |-> <<>>, credits |-> 0]
        BY DEF Replies, Reply, NoReply
      <4>2. <<>> \in Seq(Pages)
        OBVIOUS
      <4>3. CASE r \in [pages : TavilyCatches, credits : Costs]
        <5>1. r.pages \in TavilyCatches
          BY <4>3
        <5> QED BY <5>1, CatchAssumption
      <4>4. CASE r = [pages |-> <<>>, credits |-> 0]
        BY <4>2, <4>4
      <4> QED BY <4>1, <4>3, <4>4
    <3>2. \A i \in 1..size : ToSet(replies[i].pages) \subseteq Pages
      BY <3>1 DEF ToSet
    <3> QED BY <1>2, <3>2 DEF SearchShape
  <2> HIDE DEF found
  <2>8. web[c].known + Sum(replies) <= (Budget - 1) + Parallel * Dearest
    <3>1. web[c].known <= Budget - 1 /\ web[c].known \in Nat
      BY <1>2, <2>1, LimitAssumption DEF SearchShape
    <3>2. Parallel * Dearest \in Nat
      BY DearestIs
    <3> QED BY <2>6, <3>1, <3>2, LimitAssumption
  <2>9. /\ SearchShape(search) /\ Sound(search) /\ search.tavily = "search" /\ search.got = {}
        /\ search.found = found
    <3>1. SearchShape(search)
      <4>1. asked \in 0..Queries /\ known \in Nat
        BY <1>2, <2>4, <2>6 DEF SearchShape
      <4> HIDE DEF asked, known
      <4> QED BY <1>2, <2>1, <2>7, <4>1 DEF SearchShape, SearchFields
    <3>2. /\ search.tavily = "search" /\ search.got = {} /\ search.found = found
          /\ search.ok = web[c].ok /\ search.ranked = web[c].ranked
          /\ search.known = web[c].known + Sum(replies)
      BY <1>2, <2>1 DEF SearchShape, SearchFields
    <3> HIDE DEF search
    <3> QED BY <1>2, <2>1, <2>8, <3>1, <3>2 DEF Sound
  <2> HIDE DEF search
  <2>10. CASE MoreQueries(c, search)
    <3>1. Searching(c, search) /\ web' = [web EXCEPT ![c] = search]
      BY <2>5, <2>10 DEF MoreQueries, Searching
    <3> QED BY <1>1, <1>2, <2>1, <2>9, <3>1, WebBecomes DEF Mine
  <2>11. CASE ~MoreQueries(c, search)
    <3> DEFINE limit == IF Deep(c) THEN DeepSources ELSE FastSources
               ranked == Ranked(search.found, limit)
               done == [search EXCEPT !.ranked = ranked]
    <3>1. limit \in 1..Ranks
      BY LimitAssumption
    <3>2. ranked \in Seq(Pages) /\ Len(ranked) <= Ranks
      BY <2>7, <2>9, <3>1, RankedAre
    <3>3. web' = [web EXCEPT ![c] =
                    IF done.ranked = <<>> THEN TavilyEnds(c, done, FALSE)
                    ELSE IF ~Deep(c) \/ search.known >= Budget THEN TavilyEnds(c, done, TRUE)
                    ELSE [done EXCEPT !.tavily = "basic", !.found = {}]]
      BY <2>5, <2>11 DEF AfterQueries
    <3> HIDE DEF ranked
    <3>4. SearchShape(done) /\ done.tavily = "search" /\ done.ranked = ranked
      BY <2>9, <3>2 DEF SearchShape, SearchFields
    <3>5. Sound(done)
      BY <2>9, <3>4 DEF Sound, SearchShape, SearchFields
    <3>6. ASSUME done.ranked # <<>>
          PROVE  LET s == [done EXCEPT !.tavily = "basic", !.found = {}]
                 IN  SearchShape(s) /\ Sound(s) /\ s.tavily # "search"
      BY <3>4, <3>5, <3>6 DEF Sound, SearchShape, SearchFields
    <3> HIDE DEF done
    <3> QED BY <1>3, <2>1, <3>3, <3>4, <3>5, <3>6, TavilyEndsWell
  <2> QED BY <2>10, <2>11
<1>6. CASE Extract(c)
  <2>1. PICK got \in SUBSET (1..Len(web[c].ranked)) :
           LET search == [web[c] EXCEPT !.got = got]
           IN  web' = [web EXCEPT ![c] =
                  IF got = 1..Len(search.ranked) THEN TavilyEnds(c, search, TRUE)
                  ELSE [search EXCEPT !.tavily = "advanced"]]
    BY <1>6 DEF Extract
  <2> DEFINE search == [web[c] EXCEPT !.got = got]
  <2>2. /\ web[c].tavily = "basic" /\ Mine /\ web[c].ranked # <<>> /\ UNCHANGED <<keys, brave>>
    BY <1>2, <1>6 DEF Extract, Begun, Mine, Sound
  <2>3. /\ SearchShape(search) /\ Sound(search) /\ search.ranked # <<>>
        /\ SearchShape([search EXCEPT !.tavily = "advanced"])
        /\ Sound([search EXCEPT !.tavily = "advanced"])
        /\ [search EXCEPT !.tavily = "advanced"].tavily = "advanced"
    BY <1>2, <2>2 DEF SearchShape, SearchFields, Sound
  <2>4. \/ web' = [web EXCEPT ![c] = TavilyEnds(c, search, TRUE)]
        \/ web' = [web EXCEPT ![c] = [search EXCEPT !.tavily = "advanced"]]
    BY <2>1
  <2> HIDE DEF search
  <2> QED BY <1>3, <2>2, <2>3, <2>4, TavilyEndsWell
<1>7. CASE ExtractAgain(c)
  <2>1. PICK more \in SUBSET ((1..Len(web[c].ranked)) \ web[c].got) :
           web' = [web EXCEPT ![c] = TavilyEnds(c, [web[c] EXCEPT !.got = @ \cup more], TRUE)]
    BY <1>7 DEF ExtractAgain
  <2> DEFINE search == [web[c] EXCEPT !.got = @ \cup more]
  <2>2. web[c].tavily = "advanced" /\ Mine /\ web[c].ranked # <<>> /\ UNCHANGED <<keys, brave>>
    BY <1>2, <1>7 DEF ExtractAgain, Begun, Mine, Sound
  <2>3. SearchShape(search) /\ Sound(search) /\ search.ranked # <<>>
    BY <1>2, <2>2 DEF SearchShape, SearchFields, Sound
  <2>4. web' = [web EXCEPT ![c] = TavilyEnds(c, search, TRUE)]
    BY <2>1
  <2> HIDE DEF search
  <2> QED BY <1>3, <2>2, <2>3, <2>4, TavilyEndsWell
<1>8. CASE BraveAnswers(c)
  <2>1. PICK outcome \in Outcomes, pages \in BraveCatches \cup {<<>>} :
           /\ brave' = BraveStatus(outcome)
           /\ web' = [web EXCEPT ![c] = [web[c] EXCEPT !.brave = "ended",
                                                       !.braveHits = BraveHits(c, pages)]]
    BY <1>8 DEF BraveAnswers
  <2>2. keys' = keys /\ brave' \in {"READY", "RATE_LIMITED", "UNAUTHORIZED", "ERROR"}
    BY <1>8, <2>1 DEF BraveAnswers, BraveStatus, Outcomes
  <2> DEFINE hits == BraveHits(c, pages)
             s == [web[c] EXCEPT !.brave = "ended", !.braveHits = hits]
  <2>3. Len(pages) \in Nat /\ Len(pages) <= Ranks
    BY CatchAssumption, FusionAssumption
  <2>4. \A h \in ToSet(hits) : h.rank \in 1..Ranks
    BY <2>3, HitsAreRanked DEF BraveHits
  <2> HIDE DEF hits
  <2>5. SearchShape(s) /\ Sound(s) /\ Searching(c, s)
    BY <1>2, <2>4 DEF SearchShape, SearchFields, Sound, Searching
  <2>6. Mine
    BY <1>2, <1>8 DEF BraveAnswers, Begun, Mine
  <2> QED BY <1>1, <2>1, <2>2, <2>5, <2>6, WebBecomes DEF hits, Mine
<1>9. CASE EndWeb(c)
  <2>1. PICK fused :
           web' = [web EXCEPT ![c] = [web[c] EXCEPT !.tavily = "told", !.fused = fused]]
    BY <1>9 DEF EndWeb
  <2>2. UNCHANGED <<keys, brave>> /\ Mine
    BY <1>2, <1>9 DEF EndWeb, Begun, Mine
  <2> DEFINE s == [web[c] EXCEPT !.tavily = "told", !.fused = fused]
  <2>3. SearchShape(s) /\ Sound(s) /\ s.tavily = "told"
    BY <1>2 DEF SearchShape, SearchFields, Sound
  <2> QED BY <1>3, <2>1, <2>2, <2>3
<1> QED BY <1>4, <1>5, <1>6, <1>7, <1>8, <1>9 DEF Web, WebStep

-----------------------------------------------------------------------------
(* What a web answer rests on.                                             *)

\* Somebody found something for this call.
Evidence(c) == web[c].ranked # <<>> \/ web[c].braveHits # <<>>

Rests(c) ==
    /\ said[c].what # "nothing" => at[c] = "done"
    /\ (Asked(c).tool = "web_search" /\ at[c] = "record" /\ answer[c].ok) => Evidence(c)
    /\ (Asked(c).tool = "web_search" /\ said[c].what = "result") => Evidence(c)

AnswersRest == \A c \in Calls : Rests(c)

\* Every other tool than web_search.
LEMMA OthersWork ==
  ASSUME AcademicInv, GitHubInv, NEW c \in Calls,
         Academic(c) \/ GitHub(c) \/ Files(c) \/ (Plain(c) /\ ~Record(c))
  PROVE  Asked(c).tool # "web_search"
<1>1. ASSUME Academic(c) PROVE Asked(c).tool = "academic_search"
  BY <1>1 DEF AcademicInv, Academic, AcademicStep, StartAcademic, AskAgency, LookUpThere,
              TryDataCite, TryCrossref, FindWork, ReadGraph, ReadCitedBy, SearchTitle, SearchTopic,
              SearchAuthors, Goes
<1>2. ASSUME GitHub(c) PROVE Asked(c).tool = "github_search"
  BY <1>2 DEF GitHubInv, OnlyGitHubs, GitHub, GitHubStep, StartGitHub, GitHubHandles, GitHubAnswers
<1>3. ASSUME Files(c) PROVE Asked(c).tool = "search_my_files"
  BY <1>3 DEF Files, FileStep, StartFiles, SearchWords, EmbedQuestion, SearchVectors, EndFiles, Looks
<1>4. ASSUME Plain(c), ~Record(c) PROVE Asked(c).tool \in Inspections \cup {"test_sensitive_action"}
  BY <1>4 DEF Plain, InspectRuntimeEvidence, InspectArchitectureEvidence, InspectSourceStatus,
              InspectSourceOfTruth, Inspects, Propose, Inspections
<1> QED BY <1>1, <1>2, <1>3, <1>4 DEF Inspections

LEMMA RestInit ==
  ASSUME ToolInit
  PROVE  AnswersRest
BY DEF ToolInit, AnswersRest, Rests, NoAnswer, Nothing

\* A function that works leaves the other calls alone, and has told nothing before.
LEMMA RestAfterWork ==
  ASSUME ToolTypeOK, AnswersRest, NEW c \in Calls, Works(c),
         \A d \in Calls \ {c} : Evidence(d)' = Evidence(d),
         \/ UNCHANGED <<toolVars, webVars>>
         \/ at[c] = "work" /\ UNCHANGED toolVars
         \/ Asked(c).tool # "web_search"
         \/ \E a \in Answers : Returns(c, a) /\ (a.ok => Evidence(c)')
  PROVE  AnswersRest'
<1>1. \A d \in Calls : Asked(d)' = Asked(d)
  BY AskedStays
<1>2. \A d \in Calls \ {c} : at'[d] = at[d] /\ answer'[d] = answer[d]
  BY DEF Works, Returns, toolVars, ToolTypeOK
<1>3. said' = said
  BY DEF Works, Returns, toolVars
<1>4. ASSUME NEW d \in Calls \ {c} PROVE Rests(d)'
  BY <1>1, <1>2, <1>3, <1>4 DEF AnswersRest, Rests
<1>5. Rests(c)'
  <2>1. CASE UNCHANGED <<toolVars, webVars>>
    BY <1>1, <2>1 DEF toolVars, webVars, AnswersRest, Rests, Evidence
  <2>2. CASE at[c] = "work" /\ UNCHANGED toolVars
    BY <1>1, <2>2 DEF toolVars, AnswersRest, Rests
  <2>3. CASE \E a \in Answers : Returns(c, a) /\ (Asked(c).tool = "web_search" => (a.ok => Evidence(c)'))
    BY <1>1, <1>3, <2>3 DEF Returns, AnswersRest, Rests, ToolTypeOK
  <2>4. CASE Asked(c).tool # "web_search"
    <3>1. CASE UNCHANGED toolVars
      BY <1>1, <2>4, <3>1 DEF toolVars, AnswersRest, Rests
    <3>2. CASE \E a \in Answers : Returns(c, a)
      BY <2>3, <2>4, <3>2
    <3> QED BY <3>1, <3>2 DEF Works
  <2> QED BY <2>1, <2>2, <2>3, <2>4
<1> QED BY <1>4, <1>5 DEF AnswersRest

LEMMA WebRests ==
  ASSUME ToolTypeOK, WebInv, AnswersRest, NEW c \in Calls, Web(c)
  PROVE  AnswersRest'
<1>1. Works(c)
  BY WebWorks DEF WebInv, SearchShape, Definite
<1>2. /\ SearchShape(web[c]) /\ Sound(web[c])
      /\ \E s : web' = [web EXCEPT ![c] = s]
      /\ web = [d \in Calls |-> web[d]]
  BY DEF WebInv, Web, WebStep, StartWeb, Batch, Extract, ExtractAgain, BraveAnswers, EndWeb
<1>3. \A d \in Calls \ {c} : web'[d] = web[d]
  BY <1>2
<1>4. \A d \in Calls \ {c} : Evidence(d)' = Evidence(d)
  BY <1>3 DEF Evidence
<1>5. CASE ~EndWeb(c)
  <2>1. at[c] = "work" /\ UNCHANGED toolVars
    BY <1>5 DEF Web, WebStep, StartWeb, Batch, Extract, ExtractAgain, BraveAnswers
  <2> QED BY <1>1, <1>4, <2>1, RestAfterWork
<1>6. CASE EndWeb(c)
  <2> DEFINE ok == (web[c].brave = "ended" /\ BraveCounts(web[c])) \/ web[c].ok
             a == Returned(ok, IF ok THEN "none" ELSE "unavailable")
  <2>1. Returns(c, a) /\ ok \in BOOLEAN
    BY <1>2, <1>6 DEF EndWeb, SearchShape
  <2>2. a \in Answers /\ a.ok = ok
    BY <2>1, AnswersAre DEF Errors, Returned
  <2>3. web'[c].ranked = web[c].ranked /\ web'[c].braveHits = web[c].braveHits
    BY <1>2, <1>6 DEF EndWeb, SearchShape, SearchFields
  <2>4. ok => Evidence(c)'
    BY <1>2, <2>3 DEF Sound, BraveCounts, Evidence
  <2> QED BY <1>1, <1>4, <2>1, <2>2, <2>4, RestAfterWork
<1> QED BY <1>5, <1>6

LEMMA RecordRests ==
  ASSUME ToolTypeOK, AnswersRest, NEW c \in Calls, Record(c), UNCHANGED webVars
  PROVE  AnswersRest'
<1>1. \A d \in Calls : Asked(d)' = Asked(d) /\ (Evidence(d)' = Evidence(d))
  BY AskedStays DEF webVars, Evidence
<1>2. /\ at[c] = "record" /\ at' = [at EXCEPT ![c] = "done"] /\ answer' = answer
      /\ \A d \in Calls \ {c} : said'[d] = said[d]
      /\ said'[c].what = "result" => ~Reflects(c)
  BY DEF Record, Reflect, Clear, ToolTypeOK
<1>3. ASSUME Asked(c).tool = "web_search", ~Reflects(c) PROVE answer[c].ok
  BY <1>3 DEF Reflects
<1>4. Rests(c)'
  BY <1>1, <1>2, <1>3 DEF AnswersRest, Rests, ToolTypeOK
<1>5. ASSUME NEW d \in Calls \ {c} PROVE Rests(d)'
  BY <1>1, <1>2, <1>5 DEF AnswersRest, Rests, ToolTypeOK
<1> QED BY <1>4, <1>5 DEF AnswersRest

LEMMA TimeoutRests ==
  ASSUME ToolTypeOK, AnswersRest, NEW c \in Calls, CallTimesOut(c)
  PROVE  AnswersRest'
<1>1. /\ at' = [at EXCEPT ![c] = "done"] /\ answer' = answer
      /\ said' = [said EXCEPT ![c] = [what |-> "timeout", times |-> 0]]
      /\ TimesOut(c)
      /\ web' = [d \in Calls |-> IF d \in {c} THEN NoSearch ELSE web[d]]
  BY DEF CallTimesOut, TimesOut, Forgets
<1>2. \A d \in Calls : Asked(d)' = Asked(d)
  BY <1>1, AskedStays
<1>3. Rests(c)'
  BY <1>1 DEF AnswersRest, Rests, ToolTypeOK
<1>4. ASSUME NEW d \in Calls \ {c} PROVE Rests(d)'
  BY <1>1, <1>2, <1>4 DEF AnswersRest, Rests, ToolTypeOK, Evidence
<1> QED BY <1>3, <1>4 DEF AnswersRest

-----------------------------------------------------------------------------
(* The fusion of the hits of both providers.                               *)

\* A hit as a provider makes it; hits of one page are hits of one site.
Provided(h) ==
    /\ h.rank \in 1..Ranks /\ h.by \in {"tavily", "brave"}
    /\ h.page.canonical \in Nat /\ h.page.snippet \in Nat /\ h.page.age \in Ages

Hits(hits) ==
    /\ hits \in Seq(ToSet(hits))
    /\ \A h \in ToSet(hits) : Provided(h)
    /\ \A h, k \in ToSet(hits) : h.page.canonical = k.page.canonical => h.page.site = k.page.site

\* What the groups are after n hits: each of one site, a page in one of them only, and
\* every one of the hits in some.
OneSite(hits, groups) ==
    \A g \in 1..Len(groups) :
        /\ groups[g] \in Seq(ToSet(hits)) /\ groups[g] # <<>>
        /\ \A h \in ToSet(groups[g]) : h.page.site = groups[g][1].page.site

Apart(groups) ==
    \A f, g \in 1..Len(groups) : \A h \in ToSet(groups[f]), k \in ToSet(groups[g]) :
        h.page.canonical = k.page.canonical => f = g

Houses(groups, hits, n) ==
    \A i \in 1..n : \E g \in 1..Len(groups) : hits[i] \in ToSet(groups[g])

GroupsFit(hits, groups, n) ==
    /\ groups \in Seq(Seq(ToSet(hits)))
    /\ OneSite(hits, groups) /\ Apart(groups) /\ Houses(groups, hits, n)

IsGrouping(f, hits, m) ==
    f = [n \in 0..m |-> IF n = 0 THEN <<>> ELSE Joined(f[n - 1], hits[n])]

LEMMA GroupingIs ==
  ASSUME NEW hits, Len(hits) \in Nat
  PROVE  IsGrouping(Grouping(hits), hits, Len(hits))
<1> DEFINE Bad == {m \in Nat : ~\E f : IsGrouping(f, hits, m)}
<1>1. Bad = {}
  <2>1. SUFFICES ASSUME Bad # {} PROVE FALSE
    OBVIOUS
  <2>2. PICK m \in Bad : \A k \in Bad : m <= k
    BY <2>1, LeastNatural
  <2>3. CASE m = 0
    <3> DEFINE f == [n \in 0..0 |-> <<>>]
    <3>1. IsGrouping(f, hits, 0)
      BY DEF IsGrouping
    <3> QED BY <2>2, <2>3, <3>1
  <2>4. CASE m # 0
    <3>1. m - 1 \in Nat /\ m - 1 \notin Bad /\ m \in Nat
      BY <2>2, <2>4
    <3>2. PICK f : IsGrouping(f, hits, m - 1)
      BY <3>1
    <3> DEFINE g == [n \in 0..m |-> IF n = m THEN Joined(f[m - 1], hits[m]) ELSE f[n]]
    <3>3. \A n \in 0..(m - 1) : f[n] = IF n = 0 THEN <<>> ELSE Joined(f[n - 1], hits[n])
      BY <3>1, <3>2 DEF IsGrouping
    <3>4. \A n \in 0..m : g[n] = IF n = 0 THEN <<>> ELSE Joined(g[n - 1], hits[n])
      BY <3>1, <3>3, <2>4
    <3>5. IsGrouping(g, hits, m)
      BY <3>4 DEF IsGrouping
    <3> QED BY <2>2, <3>5
  <2> QED BY <2>3, <2>4
<1>2. \E f : IsGrouping(f, hits, Len(hits))
  BY <1>1
<1>3. Grouping(hits) = CHOOSE f : IsGrouping(f, hits, Len(hits))
  BY DEF Grouping, IsGrouping
<1> QED BY <1>2, <1>3

LEMMA MembersAre ==
  ASSUME NEW S, NEW s \in Seq(S)
  PROVE  /\ ToSet(s) \subseteq S /\ Len(s) \in Nat
         /\ s # <<>> => Len(s) # 0 /\ s[1] \in ToSet(s)
         /\ \A i \in 1..Len(s) : s[i] \in ToSet(s)
         /\ \A x \in ToSet(s) : \E i \in 1..Len(s) : s[i] = x
BY DEF ToSet

\* A list and one more.
LEMMA OneMore ==
  ASSUME NEW S, NEW s \in Seq(S), NEW x \in S
  PROVE  /\ Append(s, x) \in Seq(S) /\ Append(s, x) # <<>> /\ Len(Append(s, x)) = Len(s) + 1
         /\ s # <<>> => Append(s, x)[1] = s[1]
         /\ \A y : y \in ToSet(Append(s, x)) <=> y \in ToSet(s) \/ y = x
<1>1. /\ Append(s, x) \in Seq(S) /\ Len(Append(s, x)) = Len(s) + 1 /\ Len(s) \in Nat
      /\ \A i \in 1..Len(s) : Append(s, x)[i] = s[i]
      /\ Append(s, x)[Len(s) + 1] = x
  OBVIOUS
<1>2. \A i \in 1..(Len(s) + 1) : i \in 1..Len(s) \/ i = Len(s) + 1
  BY <1>1
<1>3. ASSUME NEW y \in ToSet(Append(s, x)) PROVE y \in ToSet(s) \/ y = x
  <2>1. PICK i \in 1..(Len(s) + 1) : Append(s, x)[i] = y
    BY <1>1, MembersAre
  <2> QED BY <1>1, <1>2, <2>1, MembersAre
<1>4. ASSUME NEW y, y \in ToSet(s) \/ y = x PROVE y \in ToSet(Append(s, x))
  <2>1. \E i \in 1..(Len(s) + 1) : Append(s, x)[i] = y
    <3>1. CASE y = x
      BY <1>1, <3>1
    <3>2. CASE y \in ToSet(s)
      <4>1. PICK i \in 1..Len(s) : s[i] = y
        BY <3>2, MembersAre
      <4> QED BY <1>1, <4>1
    <3> QED BY <1>4, <3>1, <3>2
  <2> DEFINE t == Append(s, x)
  <2>2. t \in Seq(S) /\ \E i \in 1..Len(t) : t[i] = y
    BY <1>1, <2>1
  <2> HIDE DEF t
  <2>3. y \in ToSet(t)
    BY <2>2, MembersAre
  <2> QED BY <2>3 DEF t
<1>5. Append(s, x) # <<>>
  BY <1>1
<1>6. s # <<>> => 1 \in 1..Len(s)
  OBVIOUS
<1> QED BY <1>1, <1>3, <1>4, <1>5, <1>6

\* A hit joins the groups.
LEMMA JoinedFits ==
  ASSUME NEW hits, Hits(hits), NEW n \in 1..Len(hits), NEW groups, GroupsFit(hits, groups, n - 1)
  PROVE  GroupsFit(hits, Joined(groups, hits[n]), n)
<1> DEFINE hit == hits[n]
           same == {g \in 1..Len(groups) :
                      \E h \in ToSet(groups[g]) : h.page.canonical = hit.page.canonical}
           near == {g \in 1..Len(groups) :
                      /\ groups[g][1].page.site = hit.page.site
                      /\ AlikeTitles(groups[g][1].page.title, hit.page.title)}
           home == IF same # {} THEN same ELSE near
           N == Len(groups)
           joined == Joined(groups, hit)
           H == ToSet(hits)
<1>1. /\ N \in Nat /\ groups \in Seq(Seq(H)) /\ Len(hits) \in Nat
      /\ \A g \in 1..N : groups[g] \in Seq(H) /\ groups[g] # <<>> /\ Len(groups[g]) \in Nat
      /\ hit \in H
  <2>1. N \in Nat /\ groups \in Seq(Seq(H))
    BY DEF GroupsFit
  <2>2. hits \in Seq(H) /\ Len(hits) \in Nat
    BY DEF Hits
  <2>3. hit \in H
    BY <2>2, MembersAre
  <2>4. \A g \in 1..N : groups[g] \in Seq(H) /\ groups[g] # <<>>
    BY DEF GroupsFit, OneSite
  <2> QED BY <2>1, <2>2, <2>3, <2>4
<1>2. Home(groups, hit) = IF home = {} THEN N + 1 ELSE Min(home)
  BY DEF Home
<1>3. home # {} => Min(home) \in home
  <2>1. home \in SUBSET Nat
    BY <1>1
  <2> HIDE DEF home
  <2> QED BY <2>1, LeastPlace
<1>4. \A i \in 1..n : i = n \/ i \in 1..(n - 1)
  BY <1>1
<1> HIDE DEF H
<1>5. CASE home = {}
  <2>1. joined = Append(groups, <<hit>>)
    <3> HIDE DEF home
    <3> QED BY <1>1, <1>2, <1>5 DEF Joined
  <2>2. /\ joined \in Seq(Seq(H)) /\ Len(joined) = N + 1
        /\ \A g \in 1..N : joined[g] = groups[g]
        /\ joined[N + 1] = <<hit>> /\ ToSet(<<hit>>) = {hit} /\ <<hit>> \in Seq(H)
    BY <1>1, <2>1 DEF ToSet
  <2>3. \A g \in 1..(N + 1) : g \in 1..N \/ g = N + 1
    BY <1>1
  <2>4. \A g \in 1..N : \A h \in ToSet(groups[g]) : h.page.canonical # hit.page.canonical
    BY <1>5
  <2> HIDE DEF joined, hit, N
  <2>5. OneSite(hits, joined)
    <3>1. \A g \in 1..N : /\ joined[g] \in Seq(H) /\ joined[g] # <<>>
                         /\ \A h \in ToSet(joined[g]) : h.page.site = joined[g][1].page.site
      BY <1>1, <2>2 DEF OneSite, GroupsFit, N
    <3>2. /\ joined[N + 1] \in Seq(H) /\ joined[N + 1] # <<>> /\ joined[N + 1][1] = hit
          /\ \A h \in ToSet(joined[N + 1]) : h = hit
      BY <2>2
    <3>3. \A h \in ToSet(joined[N + 1]) : h.page.site = joined[N + 1][1].page.site
      BY <3>2
    <3> QED BY <2>2, <2>3, <3>1, <3>2, <3>3 DEF OneSite, H
  <2>6. Apart(joined)
    BY <2>2, <2>3, <2>4 DEF Apart, GroupsFit, N
  <2>7. Houses(joined, hits, n)
    <3>1. hits[n] \in ToSet(joined[N + 1]) /\ N + 1 \in 1..Len(joined)
      <4>1. hit \in ToSet(joined[N + 1])
        BY <2>2
      <4>2. N + 1 \in 1..Len(joined)
        BY <1>1, <2>2
      <4> QED BY <4>1, <4>2 DEF hit
    <3>2. ASSUME NEW i \in 1..(n - 1) PROVE \E g \in 1..Len(joined) : hits[i] \in ToSet(joined[g])
      <4>1. PICK g \in 1..N : hits[i] \in ToSet(groups[g])
        BY DEF Houses, GroupsFit, N
      <4> QED BY <1>1, <2>2, <4>1
    <3> QED BY <1>4, <3>1, <3>2 DEF Houses
  <2> QED BY <2>2, <2>5, <2>6, <2>7 DEF GroupsFit, joined, hit, H
<1>6. CASE home # {}
  <2> DEFINE g == Min(home)
  <2>1. g \in 1..N /\ g \in home
    BY <1>3, <1>6
  <2>2. joined = [groups EXCEPT ![g] = Append(groups[g], hit)]
    <3> HIDE DEF home
    <3>1. Home(groups, hit) = g
      BY <1>2, <1>6
    <3>2. ~(g > N)
      BY <1>1, <2>1
    <3> HIDE DEF g, hit
    <3> QED BY <3>1, <3>2 DEF Joined
  <2>3. /\ groups[g][1].page.site = hit.page.site
        /\ \A f \in 1..N : \A h \in ToSet(groups[f]) :
              h.page.canonical = hit.page.canonical => f = g
    <3>1. CASE same # {}
      <4>1. PICK h \in ToSet(groups[g]) : h.page.canonical = hit.page.canonical
        BY <2>1, <3>1
      <4>2. h \in H
        BY <1>1, <2>1, MembersAre
      <4> HIDE DEF hit, g, N, same, home
      <4>3. h.page.site = hit.page.site
        BY <1>1, <4>1, <4>2 DEF Hits, H
      <4>4. h.page.site = groups[g][1].page.site
        BY <2>1, <4>1 DEF GroupsFit, OneSite, N
      <4> QED BY <2>1, <4>1, <4>3, <4>4 DEF GroupsFit, Apart, N
    <3>2. CASE same = {}
      <4>1. g \in near
        BY <2>1, <3>2
      <4>2. \A f \in 1..N : \A h \in ToSet(groups[f]) : h.page.canonical # hit.page.canonical
        BY <3>2
      <4> QED BY <4>1, <4>2
    <3> QED BY <3>1, <3>2
  <2> HIDE DEF joined, hit, g, N, same, near, home
  <2>4. /\ joined \in Seq(Seq(H)) /\ Len(joined) = N
        /\ \A f \in 1..N : f # g => joined[f] = groups[f]
        /\ joined[g] = Append(groups[g], hit)
    BY <1>1, <2>1, <2>2 DEF N
  <2>5. /\ joined[g] \in Seq(H) /\ joined[g] # <<>> /\ joined[g][1] = groups[g][1]
        /\ \A h : h \in ToSet(joined[g]) <=> h \in ToSet(groups[g]) \/ h = hit
    <3>1. groups[g] \in Seq(H) /\ groups[g] # <<>> /\ hit \in H
      BY <1>1, <2>1
    <3> DEFINE s == groups[g]
    <3> HIDE DEF s
    <3>2. /\ Append(s, hit) \in Seq(H) /\ Append(s, hit) # <<>> /\ Append(s, hit)[1] = s[1]
          /\ \A y : y \in ToSet(Append(s, hit)) <=> y \in ToSet(s) \/ y = hit
      BY <3>1, OneMore DEF s
    <3> QED BY <2>4, <3>2 DEF s
  <2>6. OneSite(hits, joined)
    <3>1. \A f \in 1..N : f # g =>
             /\ joined[f] \in Seq(H) /\ joined[f] # <<>>
             /\ \A h \in ToSet(joined[f]) : h.page.site = joined[f][1].page.site
      BY <1>1, <2>4 DEF OneSite, GroupsFit, N
    <3>2. \A h \in ToSet(joined[g]) : h.page.site = joined[g][1].page.site
      BY <2>1, <2>3, <2>5 DEF OneSite, GroupsFit, N
    <3> QED BY <2>4, <2>5, <3>1, <3>2 DEF OneSite, H
  <2>7. Apart(joined)
    <3> SUFFICES ASSUME NEW e \in 1..N, NEW f \in 1..N, NEW h \in ToSet(joined[e]),
                        NEW k \in ToSet(joined[f]), h.page.canonical = k.page.canonical
                 PROVE  e = f
      BY <2>4 DEF Apart
    <3>1. h \in ToSet(groups[e]) \/ (e = g /\ h = hit)
      BY <2>4, <2>5
    <3>2. k \in ToSet(groups[f]) \/ (f = g /\ k = hit)
      BY <2>4, <2>5
    <3> QED BY <2>3, <3>1, <3>2 DEF Apart, GroupsFit, N
  <2>8. Houses(joined, hits, n)
    <3>1. hits[n] \in ToSet(joined[g])
      BY <2>5 DEF hit
    <3>2. ASSUME NEW i \in 1..(n - 1) PROVE \E f \in 1..N : hits[i] \in ToSet(joined[f])
      <4>1. PICK f \in 1..N : hits[i] \in ToSet(groups[f])
        BY DEF Houses, GroupsFit, N
      <4> QED BY <2>4, <2>5, <4>1
    <3> QED BY <1>4, <2>1, <2>4, <3>1, <3>2 DEF Houses
  <2> QED BY <2>4, <2>6, <2>7, <2>8 DEF GroupsFit, joined, hit, H
<1> QED BY <1>5, <1>6

\* The groups of all hits.
LEMMA GroupedFits ==
  ASSUME NEW hits, Hits(hits)
  PROVE  GroupsFit(hits, Grouped(hits), Len(hits))
<1> DEFINE after == Grouping(hits)
           Bad == {n \in Nat : n <= Len(hits) /\ ~GroupsFit(hits, after[n], n)}
<1>1. /\ Len(hits) \in Nat
      /\ \A n \in 0..Len(hits) : after[n] = IF n = 0 THEN <<>> ELSE Joined(after[n - 1], hits[n])
  <2>1. Len(hits) \in Nat
    BY DEF Hits
  <2>2. IsGrouping(after, hits, Len(hits))
    BY <2>1, GroupingIs
  <2> HIDE DEF after
  <2> QED BY <2>1, <2>2 DEF IsGrouping
<1> HIDE DEF after
<1>2. Bad = {}
  <2>1. SUFFICES ASSUME Bad # {} PROVE FALSE
    OBVIOUS
  <2>2. PICK n \in Bad : \A k \in Bad : n <= k
    BY <2>1, LeastNatural
  <2>3. CASE n = 0
    <3>1. after[0] = <<>>
      BY <1>1
    <3>2. GroupsFit(hits, <<>>, 0)
      BY DEF GroupsFit, OneSite, Apart, Houses
    <3> QED BY <2>2, <2>3, <3>1, <3>2
  <2>4. CASE n # 0
    <3>1. n \in 1..Len(hits) /\ n - 1 \in Nat /\ n - 1 \notin Bad /\ n - 1 <= Len(hits)
      BY <1>1, <2>2, <2>4
    <3>2. GroupsFit(hits, after[n - 1], n - 1) /\ after[n] = Joined(after[n - 1], hits[n])
      BY <1>1, <3>1
    <3> QED BY <2>2, <3>1, <3>2, JoinedFits
  <2> QED BY <2>3, <2>4
<1> QED BY <1>1, <1>2 DEF Grouped, after

\* Of numbered things with values one has the greatest, and one the least.
LEMMA GreatestNumber ==
  ASSUME NEW n \in Nat, NEW value, \A i \in 1..n : value[i] \in Nat,
         NEW P \in SUBSET (1..n), P # {}
  PROVE  \E i \in P : \A j \in P : value[i] >= value[j]
<1> DEFINE V == {value[i] : i \in P}
<1>1. IsFiniteSet(P)
  <2>1. IsFiniteSet(1..n)
    BY FS_Interval
  <2> QED BY <2>1, FS_Subset
<1>2. V \in SUBSET Nat /\ V # {}
  OBVIOUS
<1>3. IsFiniteSet(V)
  <2> DEFINE f == [i \in P |-> value[i]]
  <2>1. f \in Surjection(P, V)
    BY DEF Surjection
  <2> QED BY <1>1, <2>1, FS_Surjection
<1> HIDE DEF V
<1>4. Max(V) \in V /\ \A y \in V : Max(V) >= y
  BY <1>2, <1>3, GreatestNatural
<1> QED BY <1>4 DEF V

LEMMA LeastNumber ==
  ASSUME NEW n \in Nat, NEW value, \A i \in 1..n : value[i] \in Nat,
         NEW P \in SUBSET (1..n), P # {}
  PROVE  \E i \in P : \A j \in P : value[i] <= value[j]
<1> DEFINE V == {value[i] : i \in P}
<1>1. V \in SUBSET Nat /\ V # {}
  OBVIOUS
<1>2. PICK v \in V : \A y \in V : v <= y
  BY <1>1, LeastNatural
<1> QED BY <1>2

\* The member that stands for a group is one of it.
LEMMA RepresentativeIs ==
  ASSUME NEW S, \A h \in S : Provided(h), NEW group \in Seq(S), group # <<>>
  PROVE  \E i \in 1..Len(group) : Representative(group) = group[i].page
<1> DEFINE n == Len(group)
           best == {i \in 1..n : \A j \in 1..n : ~Ahead(group[j], group[i])}
           length == [i \in 1..n |-> group[i].page.snippet]
           rank == [i \in 1..n |-> group[i].rank]
<1>1. /\ n \in Nat \ {0}
      /\ \A i \in 1..n : group[i] \in S /\ group[i].page.snippet \in Nat /\ group[i].rank \in Nat
  BY FusionAssumption DEF Provided
<1>2. /\ \A i \in 1..n : length[i] \in Nat /\ length[i] = group[i].page.snippet
      /\ \A i \in 1..n : rank[i] \in Nat /\ rank[i] = group[i].rank
  BY <1>1
<1> HIDE DEF n, length, rank
<1>3. PICK longest \in 1..n : \A j \in 1..n : length[longest] >= length[j]
  <2>0. 1 \in 1..n
    BY <1>1
  <2>1. 1..n \in SUBSET (1..n) /\ 1..n # {}
    BY <2>0
  <2>2. n \in Nat /\ \A i \in 1..n : length[i] \in Nat
    BY <1>1, <1>2
  <2>3. \E i \in 1..n : \A j \in 1..n : length[i] >= length[j]
    BY <2>1, <2>2, GreatestNumber
  <2> QED BY <2>3
<1> DEFINE long == {i \in 1..n : length[i] = length[longest]}
           first == {i \in long : Primary(group[i].page)}
           ones == IF first = {} THEN long ELSE first
<1>4. ones \in SUBSET (1..n) /\ ones # {}
  OBVIOUS
<1>5. PICK i \in ones : \A j \in ones : rank[i] <= rank[j]
  <2> HIDE DEF ones
  <2> QED BY <1>1, <1>2, <1>4, LeastNumber
<1>6. i \in 1..n /\ length[i] = length[longest]
  OBVIOUS
<1>7. ASSUME NEW j \in 1..n, Ahead(group[j], group[i]) PROVE FALSE
  <2>1. /\ length[j] <= length[i] /\ length[j] \in Nat /\ length[i] \in Nat
        /\ rank[j] \in Nat /\ rank[i] \in Nat
    BY <1>2, <1>3, <1>6
  <2>2. /\ length[j] = length[i]
        /\ \/ Primary(group[j].page) /\ ~Primary(group[i].page)
           \/ (Primary(group[j].page) <=> Primary(group[i].page)) /\ rank[j] < rank[i]
    BY <1>2, <1>6, <1>7, <2>1 DEF Ahead
  <2>3. j \in long
    BY <1>6, <2>2
  <2>4. Primary(group[j].page) <=> Primary(group[i].page)
    BY <2>2, <2>3
  <2>5. j \in ones
    BY <2>3, <2>4
  <2> QED BY <1>5, <2>1, <2>2, <2>4, <2>5
<1>8. best \in SUBSET Nat /\ best # {} /\ best \subseteq 1..n
  BY <1>1, <1>6, <1>7
<1>9. Representative(group) = group[Min(best)].page
  BY DEF Representative, n
<1> HIDE DEF best
<1>10. Min(best) \in best
  BY <1>8, LeastPlace
<1> QED BY <1>8, <1>9, <1>10 DEF n

\* The ranks of a group are those of members of it, by provider.
Placed(ranks) ==
    /\ DOMAIN ranks \subseteq {"tavily", "brave"} /\ DOMAIN ranks # {}
    /\ \A by \in DOMAIN ranks : ranks[by] \in 1..Ranks

LEMMA RanksOfAre ==
  ASSUME NEW S, \A h \in S : Provided(h), NEW group \in Seq(S), group # <<>>
  PROVE  /\ Placed(RanksOf(group))
         /\ \A by \in DOMAIN RanksOf(group) :
              \E h \in ToSet(group) : h.by = by /\ h.rank = RanksOf(group)[by]
<1> DEFINE ranks == RanksOf(group)
           Told(by) == {h.rank : h \in {k \in ToSet(group) : k.by = by}}
<1>1. \A h \in ToSet(group) : h \in S /\ Provided(h)
  BY MembersAre
<1>2. /\ DOMAIN ranks = {h.by : h \in ToSet(group)}
      /\ \A by \in DOMAIN ranks : ranks[by] = Min(Told(by))
  BY DEF RanksOf
<1>3. DOMAIN ranks \subseteq {"tavily", "brave"} /\ DOMAIN ranks # {}
  <2>1. group[1] \in ToSet(group)
    BY MembersAre
  <2> QED BY <1>1, <1>2, <2>1 DEF Provided
<1>4. ASSUME NEW by \in DOMAIN ranks
      PROVE  \E h \in ToSet(group) : h.by = by /\ h.rank = ranks[by]
  <2>1. Told(by) \in SUBSET Nat /\ Told(by) # {}
    BY <1>1, <1>2, FusionAssumption DEF Provided
  <2>2. ranks[by] = Min(Told(by))
    BY <1>2
  <2>3. Min(Told(by)) \in Told(by)
    <3> DEFINE given == Told(by)
    <3>1. given \in SUBSET Nat /\ given # {}
      BY <2>1
    <3> HIDE DEF given
    <3>2. Min(given) \in given
      BY <3>1, LeastPlace
    <3> QED BY <3>2 DEF given
  <2> QED BY <2>2, <2>3
<1>5. ASSUME NEW by \in DOMAIN ranks PROVE ranks[by] \in 1..Ranks
  BY <1>1, <1>4 DEF Provided
<1> QED BY <1>3, <1>4, <1>5 DEF Placed

\* The bonus of a page.
Bonus(c, page) ==
    (IF Primary(page) THEN 3 ELSE 0)
    + (IF Primary(page) /\ Asked(c).official THEN 12 ELSE 0)
    + (IF Asked(c).recency THEN RecentBonus(page) ELSE 0)

LEMMA ScoreIs ==
  ASSUME NEW c, NEW page, NEW ranks, Placed(ranks)
  PROVE  /\ \A by : ShareOf(ranks, by) \in Nat
         /\ Hundredths(Bonus(c, page)) \in Nat
         /\ Score(c, page, ranks) = ShareOf(ranks, "tavily") + ShareOf(ranks, "brave")
                                    + Hundredths(Bonus(c, page))
<1>1. \A by : ShareOf(ranks, by) \in Nat
  BY SharesFall DEF ShareOf, Placed
<1>2. Bonus(c, page) \in Nat
  BY DEF Bonus, RecentBonus
<1>3. Scale \div 100 \in Nat
  BY FusionAssumption
<1>4. Hundredths(Bonus(c, page)) \in Nat
  BY <1>2, <1>3, Products DEF Hundredths
<1>5. Score(c, page, ranks) = ShareOf(ranks, "tavily") + ShareOf(ranks, "brave")
                                    + Hundredths(Bonus(c, page))
  BY DEF Score, Bonus
<1> QED BY <1>1, <1>4, <1>5

\* Of two sources of a kind the better ranked has the better score.
LEMMA BetterScore ==
  ASSUME NEW c, NEW f, NEW g, Placed(f.ranks), Placed(g.ranks), SameKind(f, g), AsWellRanked(f, g)
  PROVE  Score(c, f.page, f.ranks) > Score(c, g.page, g.ranks)
<1>1. ASSUME NEW by
      PROVE  /\ ShareOf(f.ranks, by) >= ShareOf(g.ranks, by)
             /\ by \in DOMAIN g.ranks => ShareOf(f.ranks, by) > ShareOf(g.ranks, by)
  <2>1. CASE by \in DOMAIN g.ranks
    <3>1. /\ by \in DOMAIN f.ranks /\ f.ranks[by] < g.ranks[by]
          /\ f.ranks[by] \in 1..Ranks /\ g.ranks[by] \in 1..Ranks
      BY <2>1 DEF AsWellRanked, Placed
    <3>2. Share(f.ranks[by]) > Share(g.ranks[by])
      BY <3>1, SharesFall
    <3>3. Share(f.ranks[by]) \in Nat /\ Share(g.ranks[by]) \in Nat
      BY <3>1, SharesFall
    <3> QED BY <2>1, <3>1, <3>2, <3>3 DEF ShareOf
  <2>2. CASE by \notin DOMAIN g.ranks
    <3>1. ShareOf(g.ranks, by) = 0
      BY <2>2 DEF ShareOf
    <3>2. ShareOf(f.ranks, by) \in Nat
      BY ScoreIs
    <3> QED BY <2>2, <3>1, <3>2
  <2> QED BY <2>1, <2>2
<1>2. \/ ShareOf(f.ranks, "tavily") > ShareOf(g.ranks, "tavily")
      \/ ShareOf(f.ranks, "brave") > ShareOf(g.ranks, "brave")
  BY <1>1 DEF Placed
<1>3. Bonus(c, f.page) = Bonus(c, g.page)
  BY DEF Bonus, RecentBonus, SameKind
<1>4. /\ ShareOf(f.ranks, "tavily") \in Nat /\ ShareOf(f.ranks, "brave") \in Nat
      /\ ShareOf(g.ranks, "tavily") \in Nat /\ ShareOf(g.ranks, "brave") \in Nat
      /\ Hundredths(Bonus(c, g.page)) \in Nat
      /\ Score(c, f.page, f.ranks) = ShareOf(f.ranks, "tavily") + ShareOf(f.ranks, "brave")
                                     + Hundredths(Bonus(c, f.page))
      /\ Score(c, g.page, g.ranks) = ShareOf(g.ranks, "tavily") + ShareOf(g.ranks, "brave")
                                     + Hundredths(Bonus(c, g.page))
  BY ScoreIs
<1> QED BY <1>1, <1>2, <1>3, <1>4

\* The order of the answer, place by place.
LEMMA BeforeIs ==
  ASSUME NEW f, NEW g
  PROVE  LET a(x) == -x.score
             b(x) == IF Primary(x.page) THEN 0 ELSE 1
             d(x) == Min(Range(x.ranks))
             e(x) == x.page.canonical
         IN  Before(f, g) <=> \/ a(f) < a(g)
                              \/ a(f) = a(g) /\ b(f) < b(g)
                              \/ a(f) = a(g) /\ b(f) = b(g) /\ d(f) < d(g)
                              \/ a(f) = a(g) /\ b(f) = b(g) /\ d(f) = d(g) /\ e(f) < e(g)
<1> DEFINE place(x) == <<-x.score, IF Primary(x.page) THEN 0 ELSE 1,
                         Min(Range(x.ranks)), x.page.canonical>>
           p == place(f)
           q == place(g)
<1>1. Before(f, g) <=> \E i \in 1..4 : p[i] < q[i] /\ \A j \in 1..(i - 1) : p[j] = q[j]
  BY DEF Before
<1>2. 1..4 = {1, 2, 3, 4} /\ 1..(1 - 1) = {} /\ 1..(2 - 1) = {1} /\ 1..(3 - 1) = {1, 2}
      /\ 1..(4 - 1) = {1, 2, 3}
  OBVIOUS
<1>3. /\ p[1] = -f.score /\ p[2] = (IF Primary(f.page) THEN 0 ELSE 1)
      /\ p[3] = Min(Range(f.ranks)) /\ p[4] = f.page.canonical
      /\ q[1] = -g.score /\ q[2] = (IF Primary(g.page) THEN 0 ELSE 1)
      /\ q[3] = Min(Range(g.ranks)) /\ q[4] = g.page.canonical
  OBVIOUS
<1> HIDE DEF p, q
<1>4. Before(f, g) <=> \/ p[1] < q[1]
                       \/ p[1] = q[1] /\ p[2] < q[2]
                       \/ p[1] = q[1] /\ p[2] = q[2] /\ p[3] < q[3]
                       \/ p[1] = q[1] /\ p[2] = q[2] /\ p[3] = q[3] /\ p[4] < q[4]
  BY <1>1, <1>2
<1> QED BY <1>3, <1>4

\* What is fused of a group.
LEMMA FusedIs ==
  ASSUME NEW c, NEW S, \A h \in S : Provided(h), NEW group \in Seq(S), group # <<>>
  PROVE  /\ \E i \in 1..Len(group) : Fused(c, group).page = group[i].page
         /\ Placed(Fused(c, group).ranks)
         /\ \A by \in DOMAIN Fused(c, group).ranks :
              \E h \in ToSet(group) : h.by = by /\ h.rank = Fused(c, group).ranks[by]
         /\ Fused(c, group).score = Score(c, Fused(c, group).page, Fused(c, group).ranks)
         /\ Fused(c, group).score \in Nat /\ Min(Range(Fused(c, group).ranks)) \in Nat
         /\ Fused(c, group).page.canonical \in Nat
<1> DEFINE f == Fused(c, group)
           page == Representative(group)
           ranks == RanksOf(group)
<1>1. f.page = page /\ f.ranks = ranks /\ f.score = Score(c, page, ranks)
  BY DEF Fused
<1>2. PICK i \in 1..Len(group) : page = group[i].page
  BY RepresentativeIs
<1>3. /\ Placed(ranks)
      /\ \A by \in DOMAIN ranks : \E h \in ToSet(group) : h.by = by /\ h.rank = ranks[by]
  BY RanksOfAre
<1>4. page.canonical \in Nat
  BY <1>2 DEF Provided
<1> HIDE DEF f, page, ranks
<1>5. Score(c, page, ranks) \in Nat
  <2>1. /\ ShareOf(ranks, "tavily") \in Nat /\ ShareOf(ranks, "brave") \in Nat
        /\ Hundredths(Bonus(c, page)) \in Nat
        /\ Score(c, page, ranks) = ShareOf(ranks, "tavily") + ShareOf(ranks, "brave")
                                   + Hundredths(Bonus(c, page))
    BY <1>3, ScoreIs
  <2> QED BY <2>1
<1>6. Min(Range(ranks)) \in Nat
  <2>1. Range(ranks) \in SUBSET Nat /\ Range(ranks) # {}
    BY <1>3, FusionAssumption DEF Placed, Range
  <2> DEFINE R == Range(ranks)
  <2>2. R \in SUBSET Nat /\ R # {}
    BY <2>1
  <2> HIDE DEF R
  <2>3. Min(R) \in R
    BY <2>2, LeastPlace
  <2> QED BY <2>2, <2>3 DEF R
<1>7. f.ranks = ranks /\ f.page = page
  BY <1>1
<1> QED BY <1>1, <1>2, <1>3, <1>4, <1>5, <1>6 DEF f

\* The order the sort leaves sources in, by their places before it.
StableOrder(fused, n) ==
    {ii \in (1..n) \X (1..n) : \/ Before(fused[ii[1]], fused[ii[2]])
                               \/ ~Before(fused[ii[2]], fused[ii[1]]) /\ ii[1] < ii[2]}

\* Sources in the order of the answer, ties in the order of their groups.
LEMMA StableOrderIs ==
  ASSUME NEW n \in Nat, NEW fused,
         \A i \in 1..n : /\ fused[i].score \in Nat /\ Min(Range(fused[i].ranks)) \in Nat
                         /\ fused[i].page.canonical \in Nat,
         NEW R, R = StableOrder(fused, n)
  PROVE  /\ \A x, y \in 1..n : x # y => <<x, y>> \in R \/ <<y, x>> \in R
         /\ \A x \in 1..n : <<x, x>> \notin R
         /\ \A x, y, z \in 1..n : <<x, y>> \in R /\ <<y, z>> \in R => <<x, z>> \in R
         /\ \A x, y \in 1..n : <<x, y>> \in R => fused[x].score >= fused[y].score
<1> DEFINE a == [i \in 1..n |-> -fused[i].score]
           b == [i \in 1..n |-> IF Primary(fused[i].page) THEN 0 ELSE 1]
           d == [i \in 1..n |-> Min(Range(fused[i].ranks))]
           e == [i \in 1..n |-> fused[i].page.canonical]
           B(i, j) == \/ a[i] < a[j]
                      \/ a[i] = a[j] /\ b[i] < b[j]
                      \/ a[i] = a[j] /\ b[i] = b[j] /\ d[i] < d[j]
                      \/ a[i] = a[j] /\ b[i] = b[j] /\ d[i] = d[j] /\ e[i] < e[j]
<1>1. \A i \in 1..n : a[i] \in Int /\ b[i] \in Int /\ d[i] \in Int /\ e[i] \in Int
  OBVIOUS
<1>2. \A i, j \in 1..n : Before(fused[i], fused[j]) <=> B(i, j)
  BY BeforeIs
<1>3. \A i, j \in 1..n : <<i, j>> \in R <=> B(i, j) \/ (~B(j, i) /\ i < j)
  BY <1>2 DEF StableOrder
<1>4. \A i, j \in 1..n : a[i] <= a[j] => fused[i].score >= fused[j].score
  OBVIOUS
<1> HIDE DEF a, b, d, e
<1>5. /\ \A i \in 1..n : ~B(i, i)
      /\ \A i, j \in 1..n : ~(B(i, j) /\ B(j, i))
      /\ \A i, j, k \in 1..n : B(i, j) /\ B(j, k) => B(i, k)
      /\ \A i, j, k \in 1..n : ~B(i, j) /\ ~B(j, k) => ~B(i, k)
      /\ \A i, j \in 1..n : B(i, j) => a[i] <= a[j]
      /\ \A i, j \in 1..n : ~B(j, i) => a[i] <= a[j]
  <2>1. /\ \A i \in 1..n : ~B(i, i)
        /\ \A i, j \in 1..n : ~(B(i, j) /\ B(j, i))
    BY <1>1
  <2>2. \A i, j, k \in 1..n : B(i, j) /\ B(j, k) => B(i, k)
    BY <1>1
  <2>3. \A i, j, k \in 1..n : ~B(i, j) /\ ~B(j, k) => ~B(i, k)
    BY <1>1
  <2>4. /\ \A i, j \in 1..n : B(i, j) => a[i] <= a[j]
        /\ \A i, j \in 1..n : ~B(j, i) => a[i] <= a[j]
    BY <1>1
  <2> QED BY <2>1, <2>2, <2>3, <2>4
<1> HIDE DEF B
<1>6. \A x, y \in 1..n : x # y => <<x, y>> \in R \/ <<y, x>> \in R
  <2>1. \A x, y \in 1..n : x # y => x < y \/ y < x
    OBVIOUS
  <2> QED BY <1>3, <2>1
<1>7. \A x \in 1..n : <<x, x>> \notin R
  BY <1>3, <1>5
<1>8. ASSUME NEW x \in 1..n, NEW y \in 1..n, NEW z \in 1..n, <<x, y>> \in R, <<y, z>> \in R
      PROVE  <<x, z>> \in R
  <2>1. CASE B(x, y) /\ B(y, z)
    BY <1>3, <1>5, <2>1
  <2>2. CASE B(x, y) /\ ~B(z, y)
    BY <1>3, <1>5, <2>2
  <2>3. CASE ~B(y, x) /\ B(y, z)
    BY <1>3, <1>5, <2>3
  <2>4. CASE ~B(y, x) /\ ~B(z, y) /\ x < y /\ y < z
    BY <1>3, <1>5, <2>4
  <2> QED BY <1>3, <1>8, <2>1, <2>2, <2>3, <2>4
<1>9. \A x, y \in 1..n : <<x, y>> \in R => fused[x].score >= fused[y].score
  BY <1>3, <1>4, <1>5
<1> QED BY <1>6, <1>7, <1>8, <1>9

\* The merge of hits is fair.
LEMMA MergedIsFair ==
  ASSUME NEW c, NEW hits, Hits(hits), Asked(c).most \in Nat
  PROVE  FairFusion(hits, Merged(c, hits), Asked(c).most)
<1> DEFINE H == ToSet(hits)
           groups == Grouped(hits)
           N == Len(groups)
           fused == [i \in 1..N |-> Fused(c, groups[i])]
           stable(i, j) == \/ Before(Fused(c, groups[i]), Fused(c, groups[j]))
                           \/ ~Before(Fused(c, groups[j]), Fused(c, groups[i])) /\ i < j
           order == InOrder(1..N, stable)
           R == StableOrder(fused, N)
           Places == 1..N
           most == Asked(c).most
           m == IF Len(order) < most THEN Len(order) ELSE most
           list == Merged(c, hits)
<1>1. /\ groups \in Seq(Seq(H)) /\ OneSite(hits, groups) /\ Apart(groups)
      /\ Houses(groups, hits, Len(hits))
  BY GroupedFits DEF GroupsFit
<1>2. N \in Nat /\ \A g \in 1..N : groups[g] \in Seq(H) /\ groups[g] # <<>>
  BY <1>1 DEF OneSite
<1>3. list = [i \in 1..m |-> Fused(c, groups[order[i]])]
  BY DEF Merged
<1>4. \A h \in H : Provided(h)
  BY DEF Hits
<1> HIDE DEF groups, H
<1>5. ASSUME NEW g \in 1..N
      PROVE  /\ fused[g] = Fused(c, groups[g])
             /\ \E i \in 1..Len(groups[g]) : fused[g].page = groups[g][i].page
             /\ Placed(fused[g].ranks)
             /\ \A by \in DOMAIN fused[g].ranks :
                  \E h \in ToSet(groups[g]) : h.by = by /\ h.rank = fused[g].ranks[by]
             /\ fused[g].score = Score(c, fused[g].page, fused[g].ranks)
             /\ fused[g].score \in Nat /\ Min(Range(fused[g].ranks)) \in Nat
             /\ fused[g].page.canonical \in Nat
  <2>1. fused[g] = Fused(c, groups[g])
    OBVIOUS
  <2>2. groups[g] \in Seq(H) /\ groups[g] # <<>>
    BY <1>2
  <2> DEFINE group == groups[g]
             f == Fused(c, group)
  <2>3. group \in Seq(H) /\ group # <<>> /\ fused[g] = f
    BY <2>1, <2>2
  <2> HIDE DEF fused, group
  <2>4. /\ \E i \in 1..Len(group) : f.page = group[i].page
        /\ Placed(f.ranks)
        /\ \A by \in DOMAIN f.ranks : \E h \in ToSet(group) : h.by = by /\ h.rank = f.ranks[by]
        /\ f.score = Score(c, f.page, f.ranks)
        /\ f.score \in Nat /\ Min(Range(f.ranks)) \in Nat /\ f.page.canonical \in Nat
    BY <1>4, <2>3, FusedIs
  <2> HIDE DEF f
  <2> QED BY <2>1, <2>3, <2>4 DEF group
<1> HIDE DEF N
<1>6. order = Sorted(1..N, R)
  <2>1. \A i, j \in 1..N : <<i, j>> \in R <=> stable(i, j)
    BY <1>5 DEF StableOrder
  <2> HIDE DEF R, stable
  <2>2. \A x \in 1..N : {y \in 1..N : <<y, x>> \in R} = {y \in 1..N : stable(y, x)}
    BY <2>1
  <2>3. \A i : (CHOOSE x \in 1..N : Cardinality({y \in 1..N : stable(y, x)}) = i - 1)
               = (CHOOSE x \in 1..N : Cardinality({y \in 1..N : <<y, x>> \in R}) = i - 1)
    BY <2>2
  <2>4. order = [i \in 1..Cardinality(1..N) |->
                   CHOOSE x \in 1..N : Cardinality({y \in 1..N : stable(y, x)}) = i - 1]
    BY DEF InOrder
  <2> QED BY <2>3, <2>4 DEF Sorted
<1> HIDE DEF fused, order, stable
<1>7. /\ \A x, y \in 1..N : x # y => <<x, y>> \in R \/ <<y, x>> \in R
      /\ \A x \in 1..N : <<x, x>> \notin R
      /\ \A x, y, z \in 1..N : <<x, y>> \in R /\ <<y, z>> \in R => <<x, z>> \in R
      /\ \A x, y \in 1..N : <<x, y>> \in R => fused[x].score >= fused[y].score
  <2>1. N \in Nat
    BY <1>2
  <2> QED BY <2>1, <1>5, StableOrderIs
<1> HIDE DEF R
<1>8. IsFiniteSet(Places) /\ Cardinality(Places) = N /\ Places = 1..N
  <2>1. N \in Nat
    BY <1>2
  <2> QED BY <2>1, FS_Interval
<1>9. /\ order \in [1..N -> 1..N]
      /\ \A x \in 1..N : \E i \in 1..N : order[i] = x
      /\ \A i, j \in 1..N : i < j <=> <<order[i], order[j]>> \in R
  <2> HIDE DEF Places
  <2>1. /\ \A x, y \in Places : x # y => <<x, y>> \in R \/ <<y, x>> \in R
        /\ \A x \in Places : <<x, x>> \notin R
        /\ \A x, y, z \in Places : <<x, y>> \in R /\ <<y, z>> \in R => <<x, z>> \in R
        /\ order = Sorted(Places, R) /\ IsFiniteSet(Places)
    BY <1>6, <1>7, <1>8
  <2>2. /\ order \in [1..Cardinality(Places) -> Places]
        /\ \A x \in Places : \E i \in 1..Cardinality(Places) : order[i] = x
        /\ \A i, j \in 1..Cardinality(Places) : i < j <=> <<order[i], order[j]>> \in R
    BY <2>1, OrderedList
  <2> QED BY <1>8, <2>2
<1>10. N \in Nat
  BY <1>2 DEF N
<1>11. Len(order) = N /\ m \in 0..N /\ (m < most => m = N)
  BY <1>9, <1>10
<1> HIDE DEF m, most
<1>12. /\ Len(list) = m /\ DOMAIN list = 1..m
       /\ \A i \in 1..m : list[i] = fused[order[i]] /\ order[i] \in 1..N /\ i \in 1..N
  <2>1. \A i \in 1..m : i \in 1..N /\ order[i] \in 1..N
    <3>1. \A i \in 1..m : i \in 1..N
      BY <1>10, <1>11
    <3> QED BY <1>9, <3>1
  <2> QED BY <1>3, <1>5, <1>10, <1>11, <2>1
<1> HIDE DEF list
<1>13. ASSUME NEW g \in 1..N
       PROVE  \E h \in ToSet(groups[g]) : h \in H /\ fused[g].page = h.page
  BY <1>2, <1>5, MembersAre DEF N
<1>14. \A g \in 1..N : \A h, k \in ToSet(groups[g]) : h.page.site = k.page.site
  BY <1>1 DEF OneSite, N
<1>15. ASSUME NEW i \in 1..m, NEW j \in 1..m, i < j
       PROVE  /\ list[i].page.canonical # list[j].page.canonical
              /\ ~(SameKind(list[i], list[j]) /\ AsWellRanked(list[j], list[i]))
  <2> DEFINE f == order[i]
             g == order[j]
  <2>1. /\ f \in 1..N /\ g \in 1..N /\ list[i] = fused[f] /\ list[j] = fused[g]
        /\ <<f, g>> \in R
    BY <1>9, <1>12, <1>15
  <2>2. f # g
    BY <1>7, <2>1
  <2> HIDE DEF f, g
  <2>3. PICK h \in ToSet(groups[f]), k \in ToSet(groups[g]) :
           fused[f].page = h.page /\ fused[g].page = k.page
    BY <1>13, <2>1
  <2>4. h.page.canonical # k.page.canonical
    BY <1>1, <2>1, <2>2 DEF Apart, N
  <2>5. ASSUME SameKind(fused[f], fused[g]), AsWellRanked(fused[g], fused[f]) PROVE FALSE
    <3>1. SameKind(fused[g], fused[f])
      BY <2>5 DEF SameKind
    <3>2. fused[g].score > fused[f].score
      <4> DEFINE better == fused[g]
                 worse == fused[f]
      <4>1. /\ Placed(better.ranks) /\ better.score = Score(c, better.page, better.ranks)
            /\ Placed(worse.ranks) /\ worse.score = Score(c, worse.page, worse.ranks)
            /\ SameKind(better, worse) /\ AsWellRanked(better, worse)
        BY <1>5, <2>1, <2>5, <3>1
      <4> HIDE DEF better, worse
      <4>2. better.score > worse.score
        BY <4>1, BetterScore
      <4> QED BY <4>2 DEF better, worse
    <3>3. fused[f].score >= fused[g].score /\ fused[f].score \in Nat /\ fused[g].score \in Nat
      BY <1>5, <1>7, <2>1
    <3> QED BY <3>2, <3>3
  <2> QED BY <2>1, <2>3, <2>4, <2>5
<1>16. ASSUME NEW i \in 1..m, NEW by \in DOMAIN list[i].ranks
       PROVE  \E h \in ToSet(hits) : /\ h.by = by /\ h.rank = list[i].ranks[by]
                                     /\ SameSource(h.page, list[i].page)
  <2> DEFINE g == order[i]
  <2>1. g \in 1..N /\ list[i] = fused[g]
    BY <1>12
  <2> HIDE DEF g
  <2>2. PICK h \in ToSet(groups[g]) : h.by = by /\ h.rank = fused[g].ranks[by]
    BY <1>5, <1>16, <2>1
  <2>3. PICK k \in ToSet(groups[g]) : fused[g].page = k.page
    BY <1>13, <2>1
  <2>4. h.page.site = k.page.site /\ h \in H
    BY <1>2, <1>14, <2>1, MembersAre DEF N
  <2> QED BY <2>1, <2>2, <2>3, <2>4 DEF SameSource, H
<1>17. ASSUME m < most, NEW h \in ToSet(hits)
       PROVE  \E i \in 1..m : SameSource(h.page, list[i].page)
  <2>1. PICK n \in 1..Len(hits) : hits[n] = h
    BY MembersAre DEF Hits
  <2>2. PICK g \in 1..N : h \in ToSet(groups[g])
    BY <1>1, <2>1 DEF Houses, N
  <2>3. PICK i \in 1..m : order[i] = g
    BY <1>9, <1>11, <1>17
  <2>4. PICK k \in ToSet(groups[g]) : fused[g].page = k.page
    BY <1>13
  <2>5. h.page.site = k.page.site
    BY <1>14, <2>2
  <2> QED BY <1>12, <2>3, <2>4, <2>5 DEF SameSource
<1> QED BY <1>12, <1>15, <1>16, <1>17 DEF FairFusion, list, most

\* A page as it is, or with what was extracted of it.
Reads(page, p) ==
    /\ page.canonical = p.canonical /\ page.site = p.site /\ page.safe = p.safe
    /\ page.age = p.age /\ page.snippet \in Nat

\* What a provider offers: safe pages, ranked.
Offered(hits, by) ==
    /\ hits \in Seq(ToSet(hits))
    /\ \A h \in ToSet(hits) : /\ h.by = by /\ h.rank \in 1..Ranks
                              /\ \E p \in Pages : p.safe /\ Reads(h.page, p)

LEMMA PagesAre ==
  ASSUME NEW p \in Pages
  PROVE  Reads(p, p) /\ Reads([p EXCEPT !.snippet = p.text], p)
BY PageAssumption DEF Reads

LEMMA HitsAreOffered ==
  ASSUME NEW pages, Len(pages) \in Nat, Len(pages) <= Ranks, NEW by, NEW most,
         \A i \in 1..Len(pages) : \E p \in Pages : Reads(pages[i], p)
  PROVE  Offered(HitsOf(pages, by, most), by)
<1> DEFINE S == {i \in 1..Len(pages) : i <= most /\ pages[i].safe}
           safe == Ascending(S)
           hits == HitsOf(pages, by, most)
<1>1. S \in SUBSET Nat /\ IsFiniteSet(S) /\ \A i \in S : i \in 1..Ranks
  <2>1. IsFiniteSet(1..Len(pages))
    BY FS_Interval
  <2>2. S \in SUBSET (1..Len(pages))
    OBVIOUS
  <2>3. IsFiniteSet(S)
    BY <2>1, <2>2, FS_Subset
  <2> QED BY <2>2, <2>3, FusionAssumption
<1>2. \A i \in S : pages[i].safe /\ \E p \in Pages : Reads(pages[i], p)
  OBVIOUS
<1> HIDE DEF S
<1>3. safe \in [1..Cardinality(S) -> S] /\ Cardinality(S) \in Nat
  BY <1>1, AscendingIs
<1>4. hits = [k \in 1..Cardinality(S) |-> Hit(pages[safe[k]], by, safe[k])]
  <2>1. hits = [k \in DOMAIN safe |-> Hit(pages[safe[k]], by, safe[k])]
    BY DEF HitsOf, S
  <2> QED BY <1>3, <2>1
<1> HIDE DEF safe, hits
<1>5. \A k \in 1..Cardinality(S) : /\ hits[k].by = by /\ hits[k].rank = safe[k]
                                   /\ hits[k].page = pages[safe[k]] /\ safe[k] \in S
  BY <1>3, <1>4 DEF Hit
<1>6. ASSUME NEW h \in ToSet(hits)
      PROVE  /\ h.by = by /\ h.rank \in 1..Ranks
             /\ \E p \in Pages : p.safe /\ Reads(h.page, p)
  <2>1. PICK k \in 1..Cardinality(S) : h = hits[k]
    BY <1>4 DEF ToSet
  <2> DEFINE i == safe[k]
  <2>2. h.by = by /\ h.rank = i /\ h.page = pages[i] /\ i \in S
    BY <1>5, <2>1
  <2> HIDE DEF i, safe, hits
  <2>3. PICK p \in Pages : Reads(pages[i], p)
    BY <1>2, <2>2
  <2>4. p.safe
    BY <1>2, <2>2, <2>3 DEF Reads
  <2> QED BY <1>1, <2>2, <2>3, <2>4
<1>7. hits \in Seq(ToSet(hits))
  <2>1. DOMAIN hits = 1..Cardinality(S) /\ \A k \in 1..Cardinality(S) : hits[k] \in ToSet(hits)
    BY <1>4 DEF ToSet
  <2>2. hits \in [1..Cardinality(S) -> ToSet(hits)]
    BY <1>4, <2>1
  <2> QED BY <1>3, <2>2
<1> QED BY <1>6, <1>7 DEF Offered, hits

LEMMA TavilyOffers ==
  ASSUME NEW ranked \in Seq(Pages), Len(ranked) <= Ranks, NEW got
  PROVE  Offered(TavilyHits(ranked, got), "tavily")
<1> DEFINE pages == [i \in 1..Len(ranked) |->
                       IF i \in got THEN [ranked[i] EXCEPT !.snippet = ranked[i].text]
                                    ELSE ranked[i]]
<1>1. Len(pages) = Len(ranked) /\ Len(ranked) \in Nat
  OBVIOUS
<1>2. ASSUME NEW i \in 1..Len(pages) PROVE \E p \in Pages : Reads(pages[i], p)
  <2>1. ranked[i] \in Pages
    BY <1>1
  <2>2. pages[i] = [ranked[i] EXCEPT !.snippet = ranked[i].text] \/ pages[i] = ranked[i]
    BY <1>1
  <2> HIDE DEF pages
  <2> QED BY <2>1, <2>2, PagesAre
<1>3. TavilyHits(ranked, got) = HitsOf(pages, "tavily", Len(ranked))
  BY DEF TavilyHits
<1> HIDE DEF pages
<1> QED BY <1>1, <1>2, <1>3, HitsAreOffered

LEMMA BraveOffers ==
  ASSUME NEW c, NEW pages \in BraveCatches \cup {<<>>}
  PROVE  Offered(BraveHits(c, pages), "brave")
<1>1. pages \in Seq(Pages) /\ Len(pages) \in Nat /\ Len(pages) <= Ranks
  <2>1. CASE pages = <<>>
    <3>1. <<>> \in Seq(Pages) /\ Len(<<>>) = 0
      OBVIOUS
    <3> QED BY <2>1, <3>1, FusionAssumption
  <2>2. CASE pages \in BraveCatches
    BY <2>2, CatchAssumption
  <2> QED BY <2>1, <2>2
<1>2. ASSUME NEW i \in 1..Len(pages) PROVE \E p \in Pages : Reads(pages[i], p)
  <2>1. pages[i] \in Pages
    BY <1>1
  <2> QED BY <2>1, PagesAre
<1> QED BY <1>1, <1>2, HitsAreOffered DEF BraveHits

\* Two lists, one after the other.
LEMMA Joining ==
  ASSUME NEW s, NEW t, s \in Seq(ToSet(s)), t \in Seq(ToSet(t))
  PROVE  /\ s \o t \in Seq(ToSet(s \o t))
         /\ ToSet(s \o t) \subseteq ToSet(s) \cup ToSet(t)
<1> DEFINE X == ToSet(s) \cup ToSet(t)
           both == s \o t
<1>1. s \in Seq(X) /\ t \in Seq(X)
  BY MembersAre
<1> HIDE DEF X
<1>2. both \in Seq(X)
  BY <1>1
<1> HIDE DEF both
<1>3. ToSet(both) \subseteq X
  BY <1>2, MembersAre
<1>4. Len(both) \in Nat /\ both = [i \in 1..Len(both) |-> both[i]]
  BY <1>2
<1>5. \A i \in 1..Len(both) : both[i] \in ToSet(both)
  BY <1>2, MembersAre
<1>6. both \in [1..Len(both) -> ToSet(both)]
  BY <1>4, <1>5
<1>7. both \in Seq(ToSet(both))
  BY <1>4, <1>6
<1> QED BY <1>3, <1>7 DEF both, X

LEMMA OffersAreHits ==
  ASSUME NEW s, NEW t, Offered(s, "tavily"), Offered(t, "brave")
  PROVE  Hits(s \o t)
<1>1. /\ s \o t \in Seq(ToSet(s \o t))
      /\ ToSet(s \o t) \subseteq ToSet(s) \cup ToSet(t)
  BY Joining DEF Offered
<1>2. \A h \in ToSet(s \o t) :
         /\ h.by \in {"tavily", "brave"} /\ h.rank \in 1..Ranks
         /\ \E p \in Pages : p.safe /\ Reads(h.page, p)
  BY <1>1 DEF Offered
<1>3. \A h \in ToSet(s \o t) : Provided(h)
  BY <1>2, PageAssumption DEF Provided, Reads
<1>4. ASSUME NEW h \in ToSet(s \o t), NEW k \in ToSet(s \o t), h.page.canonical = k.page.canonical
      PROVE  h.page.site = k.page.site
  <2>1. PICK p \in Pages : p.safe /\ Reads(h.page, p)
    BY <1>2
  <2>2. PICK q \in Pages : q.safe /\ Reads(k.page, q)
    BY <1>2
  <2> QED BY <1>4, <2>1, <2>2, PageAssumption DEF Reads
<1> QED BY <1>1, <1>3, <1>4 DEF Hits

\* What a search has so far is offered by its providers, and what it answers is fair.
FusesWell(c, s) ==
    /\ Offered(s.hits, "tavily") /\ Offered(s.braveHits, "brave")
    /\ s.tavily # "told" => s.fused = <<>>
    /\ s.tavily = "told" => s.brave # "asked"
    /\ FairFusion(s.hits \o s.braveHits, s.fused, Asked(c).most)

FusionInv == \A c \in Calls : FusesWell(c, web[c])

LEMMA NothingIsOffered ==
  ASSUME NEW by
  PROVE  Offered(<<>>, by)
BY DEF Offered, ToSet

LEMMA NothingIsFused ==
  ASSUME NEW hits, NEW most
  PROVE  FairFusion(hits, <<>>, most)
BY DEF FairFusion

LEMMA NoSearchFuses ==
  ASSUME NEW c
  PROVE  FusesWell(c, NoSearch)
BY NothingIsOffered, NothingIsFused DEF FusesWell, NoSearch

\* How a step changes what a search has.
Gathers(c, s, t) ==
    /\ s.tavily # "told" /\ t.tavily # "told"
    /\ t.fused \in {s.fused, <<>>} /\ t.braveHits \in {s.braveHits, <<>>}
    /\ t.hits \in {s.hits, <<>>, TavilyHits(t.ranked, t.got)}

LEMMA EndGathers ==
  ASSUME NEW c, NEW s, NEW x, SearchShape(x), NEW ok, s.tavily # "told",
         x.fused \in {s.fused, <<>>}, x.braveHits \in {s.braveHits, <<>>}
  PROVE  Gathers(c, s, TavilyEnds(c, x, ok))
BY DEF SearchShape, SearchFields, TavilyEnds, Gathers

LEMMA WebGathers ==
  ASSUME WebInv, NEW c \in Calls, Web(c), ~BraveAnswers(c), ~EndWeb(c)
  PROVE  \E t : web' = [web EXCEPT ![c] = t] /\ Gathers(c, web[c], t)
<1> DEFINE s == web[c]
<1>1. SearchShape(s) /\ s = [f \in SearchFields |-> s[f]]
  BY DEF WebInv, SearchShape
<1>2. CASE StartWeb(c)
  <2>1. PICK b \in {"off", "asked"} :
           \/ web' = [web EXCEPT ![c] = [[NoSearch EXCEPT !.brave = b] EXCEPT !.tavily = "search"]]
           \/ web' = [web EXCEPT ![c] = TavilyEnds(c, [NoSearch EXCEPT !.brave = b], FALSE)]
    BY <1>2 DEF StartWeb
  <2>2. s.tavily # "told"
    BY <1>2 DEF StartWeb
  <2> DEFINE begun == [NoSearch EXCEPT !.brave = b]
  <2>3. SearchShape(begun)
    BY NoSearchShape
  <2>4. begun.fused = <<>> /\ begun.braveHits = <<>> /\ begun.hits = <<>>
    BY DEF NoSearch
  <2>5. Gathers(c, s, [begun EXCEPT !.tavily = "search"])
    BY <2>2, <2>3, <2>4 DEF Gathers, SearchShape, SearchFields
  <2> HIDE DEF begun
  <2>6. Gathers(c, s, TavilyEnds(c, begun, FALSE))
    BY <2>2, <2>3, <2>4, EndGathers
  <2> QED BY <2>1, <2>5, <2>6 DEF begun
<1>3. CASE Batch(c)
  <2>1. PICK search :
           /\ search.fused = s.fused /\ search.braveHits = s.braveHits /\ search.hits = s.hits
           /\ search.tavily = "search" /\ search = [f \in SearchFields |-> search[f]]
           /\ web' = [web EXCEPT ![c] =
                        IF MoreQueries(c, search) THEN search ELSE AfterQueries(c, search)]
    <3> DEFINE togo == Wanted(c) - s.asked
               size == IF togo < Parallel THEN togo ELSE Parallel
               After(replies) == [s EXCEPT
                              !.asked = @ + size,
                              !.known = @ + Sum(replies),
                              !.found = @ \cup UNION {ToSet(replies[i].pages) : i \in 1..size}]
    <3>1. PICK replies \in [1..size -> Replies] :
             web' = [web EXCEPT ![c] = IF MoreQueries(c, After(replies)) THEN After(replies)
                                       ELSE AfterQueries(c, After(replies))]
      BY <1>3 DEF Batch
    <3>2. s.tavily = "search"
      BY <1>3 DEF Batch
    <3>3. /\ After(replies).fused = s.fused /\ After(replies).braveHits = s.braveHits
          /\ After(replies).hits = s.hits /\ After(replies).tavily = "search"
          /\ After(replies) = [f \in SearchFields |-> After(replies)[f]]
      BY <1>1, <3>2 DEF SearchFields
    <3> HIDE DEF After
    <3> QED BY <3>1, <3>3
  <2>2. s.tavily # "told"
    BY <1>3 DEF Batch
  <2>3. Gathers(c, s, search)
    BY <2>1, <2>2 DEF Gathers
  <2> DEFINE limit == IF Deep(c) THEN DeepSources ELSE FastSources
             done == [search EXCEPT !.ranked = Ranked(search.found, limit)]
  <2>4. AfterQueries(c, search) \in {TavilyEnds(c, done, FALSE), TavilyEnds(c, done, TRUE),
                                     [done EXCEPT !.tavily = "basic", !.found = {}]}
    BY DEF AfterQueries
  <2>5. /\ done.fused = s.fused /\ done.braveHits = s.braveHits /\ done.hits = s.hits
        /\ done = [f \in SearchFields |-> done[f]]
    BY <2>1 DEF SearchFields
  <2> HIDE DEF done
  <2>6. Gathers(c, s, [done EXCEPT !.tavily = "basic", !.found = {}])
    BY <2>2, <2>5 DEF Gathers, SearchFields
  <2>7. \A ok : Gathers(c, s, TavilyEnds(c, done, ok))
    BY <2>2, <2>5 DEF TavilyEnds, Gathers, SearchFields
  <2> QED BY <2>1, <2>3, <2>4, <2>6, <2>7
<1>4. CASE Extract(c)
  <2>1. PICK got :
           \/ web' = [web EXCEPT ![c] = TavilyEnds(c, [s EXCEPT !.got = got], TRUE)]
           \/ web' = [web EXCEPT ![c] = [[s EXCEPT !.got = got] EXCEPT !.tavily = "advanced"]]
    BY <1>4 DEF Extract
  <2>2. s.tavily # "told"
    BY <1>4 DEF Extract
  <2> DEFINE search == [s EXCEPT !.got = got]
  <2>3. /\ search.fused = s.fused /\ search.braveHits = s.braveHits /\ search.hits = s.hits
        /\ search = [f \in SearchFields |-> search[f]]
    BY <1>1 DEF SearchFields
  <2> HIDE DEF search
  <2>4. Gathers(c, s, [search EXCEPT !.tavily = "advanced"])
    BY <2>2, <2>3 DEF Gathers, SearchFields
  <2>5. Gathers(c, s, TavilyEnds(c, search, TRUE))
    BY <2>2, <2>3 DEF TavilyEnds, Gathers, SearchFields
  <2> QED BY <2>1, <2>4, <2>5 DEF search
<1>5. CASE ExtractAgain(c)
  <2>1. PICK more : web' = [web EXCEPT ![c] = TavilyEnds(c, [s EXCEPT !.got = @ \cup more], TRUE)]
    BY <1>5 DEF ExtractAgain
  <2>2. s.tavily # "told"
    BY <1>5 DEF ExtractAgain
  <2> DEFINE search == [s EXCEPT !.got = @ \cup more]
  <2>3. /\ search.fused = s.fused /\ search.braveHits = s.braveHits /\ search.hits = s.hits
        /\ search = [f \in SearchFields |-> search[f]]
    BY <1>1 DEF SearchFields
  <2> HIDE DEF search
  <2>4. Gathers(c, s, TavilyEnds(c, search, TRUE))
    BY <2>2, <2>3 DEF TavilyEnds, Gathers, SearchFields
  <2> QED BY <2>1, <2>4 DEF search
<1> QED BY <1>2, <1>3, <1>4, <1>5 DEF Web, WebStep

LEMMA FusionSteps ==
  ASSUME ToolInv, WebInv, WebInv', FusionInv, NEW c \in Calls, Web(c)
  PROVE  FusionInv'
<1> DEFINE s == web[c]
<1>1. /\ SearchShape(s) /\ s = [f \in SearchFields |-> s[f]] /\ FusesWell(c, s)
      /\ web = [d \in Calls |-> web[d]] /\ SearchShape(web[c])'
  BY DEF WebInv, SearchShape, FusionInv
<1>2. \A d \in Calls : Asked(d)' = Asked(d)
  BY WebWorks, AskedStays DEF WebInv, SearchShape, Definite
<1>3. ASSUME NEW t, FusesWell(c, t), web' = [web EXCEPT ![c] = t] PROVE FusionInv'
  <2>1. \A d \in Calls : web'[d] = IF d = c THEN t ELSE web[d]
    BY <1>1, <1>3
  <2>2. \A d \in Calls : FusesWell(d, web'[d])
    BY <1>3, <2>1 DEF FusionInv
  <2> QED BY <1>2, <2>2 DEF FusionInv, FusesWell
<1>4. CASE ~BraveAnswers(c) /\ ~EndWeb(c)
  <2>1. PICK t : web' = [web EXCEPT ![c] = t] /\ Gathers(c, s, t)
    BY <1>4, WebGathers
  <2>2. web'[c] = t
    BY <1>1, <2>1
  <2>3. t.ranked \in Seq(Pages) /\ Len(t.ranked) <= Ranks
    BY <1>1, <2>2 DEF SearchShape
  <2>4. Offered(t.hits, "tavily") /\ Offered(t.braveHits, "brave") /\ t.fused = <<>>
    BY <1>1, <2>1, <2>3, TavilyOffers, NothingIsOffered DEF Gathers, FusesWell
  <2>5. FusesWell(c, t)
    BY <2>1, <2>4, NothingIsFused DEF FusesWell, Gathers
  <2> QED BY <1>3, <2>1, <2>5
<1>5. CASE BraveAnswers(c)
  <2>1. PICK pages \in BraveCatches \cup {<<>>} :
           web' = [web EXCEPT ![c] = [s EXCEPT !.brave = "ended", !.braveHits = BraveHits(c, pages)]]
    BY <1>5 DEF BraveAnswers
  <2>2. s.brave = "asked"
    BY <1>5 DEF BraveAnswers
  <2> DEFINE hits == BraveHits(c, pages)
             t == [s EXCEPT !.brave = "ended", !.braveHits = hits]
  <2>3. Offered(hits, "brave")
    BY BraveOffers
  <2> HIDE DEF hits
  <2>4. /\ t.braveHits = hits /\ t.hits = s.hits /\ t.fused = s.fused /\ t.tavily = s.tavily
        /\ t.brave = "ended"
    BY <1>1 DEF SearchFields
  <2> HIDE DEF t
  <2>5. s.tavily # "told" /\ s.fused = <<>>
    BY <1>1, <2>2 DEF FusesWell
  <2>6. FusesWell(c, t)
    BY <1>1, <2>3, <2>4, <2>5, NothingIsFused DEF FusesWell
  <2> QED BY <1>3, <2>1, <2>6 DEF t, hits
<1>6. CASE EndWeb(c)
  <2> DEFINE merges == s.brave = "ended" /\ BraveCounts(s)
             hits == s.hits \o s.braveHits
             fused == IF merges THEN Merged(c, hits) ELSE <<>>
             t == [s EXCEPT !.tavily = "told", !.fused = fused]
  <2>1. web' = [web EXCEPT ![c] = t]
    BY <1>6 DEF EndWeb
  <2>2. s.tavily = "ended" /\ s.brave # "asked" /\ at[c] = "work"
    BY <1>6 DEF EndWeb, Returns
  <2>3. Asked(c).most \in Nat
    <3>1. Asked(c).tool = "web_search"
      BY <2>2 DEF WebInv, Begun
    <3>2. plan \in Plans /\ round \in 1..Len(plan) /\ c \in DOMAIN plan[round]
      BY <2>2 DEF ToolInv, ToolTypeOK, Live, Ending
    <3>3. plan[round] \in Rounds
      BY <3>2 DEF Rounds
    <3> QED BY <3>1, <3>2, <3>3, ResultAssumption DEF Asked
  <2>4. Hits(hits)
    BY <1>1, OffersAreHits DEF FusesWell
  <2> HIDE DEF hits
  <2>5. FairFusion(hits, fused, Asked(c).most)
    BY <2>3, <2>4, MergedIsFair, NothingIsFused
  <2> HIDE DEF fused
  <2>6. /\ t.braveHits = s.braveHits /\ t.hits = s.hits /\ t.fused = fused /\ t.tavily = "told"
        /\ t.brave = s.brave
    BY <1>1 DEF SearchFields
  <2> HIDE DEF t
  <2>7. FusesWell(c, t)
    BY <1>1, <2>2, <2>5, <2>6 DEF FusesWell, hits
  <2> QED BY <1>3, <2>1, <2>7
<1> QED BY <1>4, <1>5, <1>6

\* A step of anything else leaves the searches of the web as they are, or forgets some.
LEMMA SearchesMove ==
  ASSUME Definite, [Next]_vars
  PROVE  \/ UNCHANGED <<web, plan, round>>
         \/ \E gone \in SUBSET Calls :
               /\ web' = [c \in Calls |-> IF c \in gone THEN NoSearch ELSE web[c]]
               /\ gone = Calls \/ UNCHANGED <<plan, round>>
         \/ \E c \in Calls : Web(c)
<1>1. CASE UNCHANGED vars
  BY <1>1 DEF vars, webVars, toolVars
<1>2. ASSUME NEW c \in Calls, Academic(c) \/ GitHub(c) \/ Files(c) \/ Plain(c)
      PROVE  UNCHANGED <<web, plan, round>>
  <2>1. UNCHANGED web
    BY <1>2 DEF Academic, GitHub, Files, Plain, webVars
  <2>2. UNCHANGED <<plan, round>>
    BY <1>2, FilesWork, AcademicWorks, GitHubWorks, PlainWorks, AskedStays
  <2> QED BY <2>1, <2>2
<1>3. ASSUME Reset \/ Ingestion PROVE UNCHANGED <<web, plan, round>>
  BY <1>3 DEF Reset, Ingestion, IngestStep, QuotaReset, webVars, toolVars
<1>4. ASSUME NEW gone \in SUBSET Calls, Forgets(gone)
      PROVE  web' = [c \in Calls |-> IF c \in gone THEN NoSearch ELSE web[c]]
  BY <1>4 DEF Forgets
<1>5. ASSUME NEW c \in Calls, CallTimesOut(c)
      PROVE {c} \in SUBSET Calls /\ Forgets({c}) /\ UNCHANGED <<plan, round>>
  BY <1>5 DEF CallTimesOut, TimesOut
<1>6. ASSUME RoundEnds PROVE Forgets(Calls)
  BY <1>6 DEF RoundEnds
<1> QED BY <1>1, <1>2, <1>3, <1>4, <1>5, <1>6 DEF Next

LEMMA Next_FusionInv ==
  ASSUME ToolInv, WebInv, WebInv', FusionInv, [Next]_vars
  PROVE  FusionInv'
<1>0. Definite
  BY DEF WebInv, SearchShape, Definite
<1>1. CASE UNCHANGED <<web, plan, round>>
  BY <1>1 DEF FusionInv, FusesWell, Asked
<1>2. ASSUME NEW gone \in SUBSET Calls,
             web' = [c \in Calls |-> IF c \in gone THEN NoSearch ELSE web[c]],
             gone = Calls \/ UNCHANGED <<plan, round>>
      PROVE  FusionInv'
  <2>1. ASSUME NEW c \in Calls, c \in gone PROVE FusesWell(c, web[c])'
    <3>1. web'[c] = NoSearch
      BY <1>2, <2>1
    <3> QED BY <3>1, NothingIsOffered, NothingIsFused DEF FusesWell, NoSearch
  <2>2. ASSUME NEW c \in Calls, c \notin gone PROVE FusesWell(c, web[c])'
    <3>1. web'[c] = web[c] /\ UNCHANGED <<plan, round>>
      BY <1>2, <2>2
    <3> QED BY <3>1 DEF FusionInv, FusesWell, Asked
  <2> QED BY <2>1, <2>2 DEF FusionInv
<1> QED BY <1>0, <1>1, <1>2, SearchesMove, FusionSteps

-----------------------------------------------------------------------------
(* All of it.                                                              *)

SearchInv == ToolInv /\ WebInv /\ AcademicInv /\ GitHubInv /\ FileInv /\ AnswersRest

LEMMA Init_SearchInv ==
  ASSUME Init
  PROVE  SearchInv
BY ToolInit_ToolInv, WebInit_WebInv, AcademicInit_AcademicInv, GitHubInit_GitHubInv,
   FileInit_FileInv, RestInit DEF Init, SearchInv

LEMMA Forgetting ==
  ASSUME SearchInv, NEW gone \in SUBSET Calls, Forgets(gone),
         \A c \in Calls \ gone : Asked(c)' = Asked(c)
  PROVE  WebInv' /\ AcademicInv' /\ GitHubInv' /\ FileInv'
BY WebForgets, AcademicForgets, GitHubForgets, FileForgets DEF SearchInv

LEMMA Next_SearchInv ==
  ASSUME SearchInv, [Next]_vars
  PROVE  SearchInv'
<1>0. /\ ToolInv /\ ToolTypeOK /\ WebInv /\ AcademicInv /\ GitHubInv /\ FileInv /\ AnswersRest
      /\ Definite
  BY DEF SearchInv, ToolInv, WebInv, SearchShape, Definite
<1>1. ASSUME NEW c \in Calls, Works(c)
      PROVE  ToolInv' /\ \A d \in Calls : Asked(d)' = Asked(d)
  BY <1>0, <1>1, OthersNote, AskedStays
<1>2. ASSUME NEW c \in Calls, Works(c), Asked(c).tool # "web_search", UNCHANGED webVars
      PROVE  AnswersRest'
  BY <1>0, <1>2, RestAfterWork DEF webVars, Evidence
<1>3. ASSUME NEW c \in Calls, Web(c) PROVE SearchInv'
  BY <1>0, <1>1, <1>3, WebWorks, WebKeeps, WebRests, AcademicStays, GitHubStays, FileStays
     DEF SearchInv, Web
<1>4. ASSUME NEW c \in Calls, Academic(c) PROVE SearchInv'
  BY <1>0, <1>1, <1>2, <1>4, AcademicWorks, OthersWork, WebStays, AcademicKeeps, GitHubStays, FileStays
     DEF SearchInv, Academic
<1>5. ASSUME NEW c \in Calls, GitHub(c) PROVE SearchInv'
  BY <1>0, <1>1, <1>2, <1>5, GitHubWorks, OthersWork, WebStays, AcademicStays, GitHubKeeps, FileStays
     DEF SearchInv, GitHub
<1>6. ASSUME NEW c \in Calls, Files(c) PROVE SearchInv'
  BY <1>0, <1>1, <1>2, <1>6, FilesWork, OthersWork, WebStays, AcademicStays, GitHubStays, FilesKeep
     DEF SearchInv, Files
<1>7. ASSUME NEW c \in Calls, Plain(c) PROVE SearchInv'
  <2>1. UNCHANGED <<webVars, academicVars, gitHubVars, fileVars>>
    BY <1>7 DEF Plain
  <2>2. CASE Record(c)
    BY <1>0, <2>1, <2>2, RecordNotes, AskedStays, RecordRests, WebStays, AcademicStays,
       GitHubStays, FileStays DEF SearchInv
  <2>3. CASE ~Record(c)
    BY <1>0, <1>1, <1>2, <1>7, <2>1, <2>3, PlainWorks, OthersWork, WebStays, AcademicStays,
       GitHubStays, FileStays DEF SearchInv
  <2> QED BY <2>2, <2>3
<1>8. ASSUME NEW c \in Calls, CallTimesOut(c) PROVE SearchInv'
  <2>1. TimesOut(c) /\ Forgets({c}) /\ {c} \in SUBSET Calls
    BY <1>8 DEF CallTimesOut
  <2>2. ToolInv' /\ \A d \in Calls : Asked(d)' = Asked(d)
    BY <1>0, <2>1, OthersNote, AskedStays
  <2>3. WebInv' /\ AcademicInv' /\ GitHubInv' /\ FileInv'
    BY <2>1, <2>2, Forgetting
  <2> QED BY <1>0, <1>8, <2>2, <2>3, TimeoutRests DEF SearchInv
<1>9. CASE RoundEnds
  <2>1. NextRound /\ Forgets(Calls)
    BY <1>9 DEF RoundEnds
  <2>2. ToolInv'
    BY <1>0, <2>1, OthersNote
  <2>3. WebInv' /\ AcademicInv' /\ GitHubInv' /\ FileInv'
    BY <2>1, Forgetting
  <2>4. AnswersRest'
    BY <2>1 DEF NextRound, AnswersRest, Rests, NoAnswer, Nothing
  <2> QED BY <2>2, <2>3, <2>4 DEF SearchInv
<1>10. ASSUME UNCHANGED <<toolVars, webVars, academicVars>>
       PROVE  /\ ToolInv' /\ WebInv' /\ AcademicInv' /\ AnswersRest'
              /\ \A d \in Calls : Asked(d)' = Asked(d)
  <2>1. \A d \in Calls : Asked(d)' = Asked(d)
    BY <1>10 DEF toolVars, Asked
  <2>2. ToolInv'
    BY <1>0, <1>10, OthersNote
  <2>3. AnswersRest'
    BY <1>0, <1>10, <2>1 DEF toolVars, webVars, AnswersRest, Rests, Evidence
  <2> QED BY <1>0, <1>10, <2>1, <2>2, <2>3, WebStays, AcademicStays
<1>11. CASE Reset
  <2>1. UNCHANGED <<toolVars, webVars, academicVars, fileVars>>
    BY <1>11 DEF Reset, QuotaReset
  <2> QED BY <1>0, <1>10, <1>11, <2>1, ResetKeeps, FileStays DEF SearchInv
<1>12. CASE Ingestion
  <2>1. UNCHANGED <<toolVars, webVars, academicVars, gitHubVars>>
    BY <1>12 DEF Ingestion, IngestStep
  <2> QED BY <1>0, <1>10, <1>12, <2>1, IngestionKeeps, GitHubStays DEF SearchInv
<1>13. CASE UNCHANGED vars
  BY <1>0, <1>10, <1>13, GitHubStays, FileStays DEF SearchInv, vars
<1> QED
  BY <1>3, <1>4, <1>5, <1>6, <1>7, <1>8, <1>9, <1>11, <1>12, <1>13 DEF Next

LEMMA SearchInvAlways == Spec => []SearchInv
BY Init_SearchInv, Next_SearchInv, PTL DEF Spec

LEMMA FusionInvAlways == Spec => []FusionInv
<1>1. Init => FusionInv
  BY NoSearchFuses DEF Init, WebInit, FusionInv
<1>2. SearchInv /\ SearchInv' /\ FusionInv /\ [Next]_vars => FusionInv'
  BY Next_FusionInv DEF SearchInv
<1> QED BY <1>1, <1>2, SearchInvAlways, PTL DEF Spec

LEMMA FairInvAlways == Spec => []FairInv
<1>1. Init => FairInv
  BY NoLookupIsFair DEF Init, FileInit, FairInv
<1>2. SearchInv /\ FairInv /\ [Next]_vars => FairInv'
  <2>1. SearchInv => Definite
    BY DEF SearchInv, WebInv, SearchShape, Definite
  <2> QED BY <2>1, Next_FairInv DEF SearchInv
<1> QED BY <1>1, <1>2, SearchInvAlways, PTL DEF Spec

-----------------------------------------------------------------------------
\* Every variable of the tools and of the searches has its type.
THEOREM TypeCorrect == Spec => []TypeOK
<1>1. ASSUME SearchInv PROVE TypeOK
  <2>1. WebTypeOK
    <3> SUFFICES ASSUME NEW c \in Calls, SearchShape(web[c])
                 PROVE  /\ DOMAIN web[c] = DOMAIN NoSearch
                        /\ \A h \in ToSet(web[c].hits) \cup ToSet(web[c].braveHits) :
                              h.rank \in 1..Ranks
      BY <1>1 DEF SearchInv, WebInv, WebTypeOK, SearchShape
    <3> QED BY DEF SearchShape, SearchFields, NoSearch
  <2>2. AcademicTypeOK
    <3> SUFFICES ASSUME NEW c \in Calls, PaperShape(paper[c])
                 PROVE  DOMAIN paper[c] = DOMAIN NoPaper
      BY <1>1 DEF SearchInv, AcademicInv, AcademicTypeOK, PaperShape
    <3> QED BY DEF PaperShape, PaperFields, NoPaper
  <2>3. GitHubTypeOK
    BY <1>1 DEF SearchInv, GitHubInv, GitHubTypes, GitHubTypeOK, Repos, NoRepo
  <2>4. FileTypeOK
    <3> SUFFICES ASSUME NEW c \in Calls, LookupShape(lookup[c])
                 PROVE  DOMAIN lookup[c] = DOMAIN NoLookup
      BY <1>1 DEF SearchInv, FileInv, FileTypeOK, LookupShape
    <3> QED BY DEF LookupShape, LookupFields, NoLookup
  <2> QED BY <1>1, <2>1, <2>2, <2>3, <2>4 DEF SearchInv, ToolInv, TypeOK
<1> QED BY <1>1, SearchInvAlways, PTL

\* "The exact same call has now failed N times" is always true when it is said.
THEOREM FailuresAreCountedHonestly == Spec => FailureCountIsHonest
<1> DEFINE Honest == \A c \in Calls :
             (said'[c] # said[c] /\ said'[c].what = "retry") =>
                 said'[c].times = Cardinality(SinceSuccess(Key(c))')
<1>1. ASSUME SearchInv, [Next]_vars PROVE [Honest]_toolVars
  <2>0. ToolInv /\ ToolTypeOK /\ Definite
    BY <1>1 DEF SearchInv, ToolInv, WebInv, SearchShape, Definite
  <2>1. CASE UNCHANGED vars
    BY <2>1 DEF vars
  <2>2. CASE Next
    <3>1. CASE \E d \in Calls : Record(d)
      <4>1. PICK d \in Calls : Record(d)
        BY <3>1
      <4>2. said'[d].what = "retry" => said'[d].times = Cardinality(SinceSuccess(Key(d)))'
        BY <2>0, <4>1, RecordNotes
      <4>3. \A c \in Calls \ {d} : said'[c] = said[c]
        BY <2>0, <4>1 DEF Record, Reflect, Clear, ToolTypeOK
      <4> QED BY <4>2, <4>3
    <3>2. CASE \/ UNCHANGED toolVars
               \/ \E c \in Calls : Works(c) \/ TimesOut(c)
               \/ NextRound
      <4>1. \A c \in Calls : said'[c] # said[c] => said'[c].what # "retry"
        BY <2>0, <3>2, OthersNote
      <4> QED BY <4>1
    <3> QED BY <2>0, <2>2, <3>1, <3>2, ToolSteps DEF ToolStep
  <2> QED BY <1>1, <2>1, <2>2
<1> QED BY <1>1, SearchInvAlways, PTL DEF Spec, FailureCountIsHonest

\* What is shown to be left of a bucket is always a figure GitHub gave for it.
THEOREM QuotasAreAlwaysGitHubs == Spec => []QuotasAreGitHubs
<1>1. SearchInv => QuotasAreGitHubs
  BY DEF SearchInv, GitHubInv
<1> QED BY <1>1, SearchInvAlways, PTL

\* The agency named beside a record is always the registry that answered with it.
THEOREM OwnershipIsAlwaysProven == Spec => []OwnershipIsProven
<1>1. SearchInv => OwnershipIsProven
  BY DEF SearchInv, AcademicInv, PaperShape, OwnershipIsProven
<1> QED BY <1>1, SearchInvAlways, PTL

\* A web answer given as a result always rests on something a provider found.
THEOREM OutagesAreNeverSilent == Spec => []NoSilentOutage
<1>1. SearchInv => NoSilentOutage
  BY DEF SearchInv, AnswersRest, Rests, Evidence, NoSilentOutage
<1> QED BY <1>1, SearchInvAlways, PTL

\* A search never overdraws its budget by more than one batch.
THEOREM SpendingIsAlwaysBounded == Spec => []SpendingIsBounded
<1>1. SearchInv => SpendingIsBounded
  BY DEF SearchInv, WebInv, Sound, Dearest, SpendingIsBounded
<1> QED BY <1>1, SearchInvAlways, PTL

\* However providers spell, repeat or leave out what they list, the merge loses,
\* invents and mistakes nothing.
THEOREM MergesAreAlwaysFaithful == Spec => []MergeIsFaithful
<1>1. Init => MergeInv
  BY MergeInit DEF Init
<1>2. SearchInv /\ MergeInv /\ [Next]_vars => MergeInv'
  <2>1. SearchInv => Definite
    BY DEF SearchInv, WebInv, SearchShape, Definite
  <2> QED BY <2>1, Next_MergeInv DEF SearchInv
<1>3. MergeInv => MergeIsFaithful
  BY DEF MergeInv, Merging, MergeIsFaithful
<1> QED BY <1>1, <1>2, <1>3, SearchInvAlways, PTL DEF Spec

\* However many pages and chunks are found, and in whatever orders: no page is merged
\* twice, no source and no chunk is lost while there is room, every rank shown is one
\* that was given, and what all rank higher comes first.
THEOREM RankingsAreAlwaysFair == Spec => []RankingsAreFair
<1>1. FusionInv => FusionIsFair
  BY DEF FusionInv, FusesWell, FusionIsFair
<1>2. FairInv => ExcerptsAreFair
  BY DEF FairInv, Fair, ExcerptsAreFair
<1>3. FusionInv /\ FairInv => RankingsAreFair
  BY <1>1, <1>2 DEF RankingsAreFair
<1> QED BY <1>3, FusionInvAlways, FairInvAlways, PTL
=============================================================================
