---------------------------- MODULE SearchTools ----------------------------
(***************************************************************************)
(* The tools of one attempt with the functions behind them: concurrent     *)
(* calls share the failure memory (ToolCalls), the providers' states       *)
(* (WebSearch, AcademicSearch, GitHubSearch) and the library (FileSearch). *)
(* A call may be cancelled by the tool timeout wherever it is.             *)
(***************************************************************************)
EXTENDS WebSearch, AcademicSearch, GitHubSearch, FileSearch

vars == <<toolVars, webVars, academicVars, gitHubVars, fileVars>>

TypeOK == ToolTypeOK /\ WebTypeOK /\ AcademicTypeOK /\ GitHubTypeOK /\ FileTypeOK

Init == ToolInit /\ WebInit /\ AcademicInit /\ GitHubInit /\ FileInit

Web(c) == WebStep(c) /\ UNCHANGED <<academicVars, gitHubVars, fileVars>>
Academic(c) == AcademicStep(c) /\ UNCHANGED <<webVars, gitHubVars, fileVars>>
GitHub(c) == GitHubStep(c) /\ UNCHANGED <<webVars, academicVars, fileVars>>
Files(c) == FileStep(c) /\ UNCHANGED <<webVars, academicVars, gitHubVars>>

\* The tools without a search behind them, and the end of every call.
Plain(c) ==
    /\ \/ InspectRuntimeEvidence(c) \/ InspectArchitectureEvidence(c)
       \/ InspectSourceStatus(c) \/ InspectSourceOfTruth(c)
       \/ Propose(c)
       \/ Record(c)
    /\ UNCHANGED <<webVars, academicVars, gitHubVars, fileVars>>

\* A coroutine's state goes with it; what it left in the providers stays.
Forgets(gone) ==
    /\ web' = [c \in Calls |-> IF c \in gone THEN NoSearch ELSE web[c]]
    /\ paper' = [c \in Calls |-> IF c \in gone THEN NoPaper ELSE paper[c]]
    /\ repo' = [c \in Calls |-> IF c \in gone THEN NoRepo ELSE repo[c]]
    /\ lookup' = [c \in Calls |-> IF c \in gone THEN NoLookup ELSE lookup[c]]
    /\ UNCHANGED <<keys, brave, health, status, remaining, left, told, library>>

CallTimesOut(c) == TimesOut(c) /\ Forgets({c})
RoundEnds == NextRound /\ Forgets(Calls)

\* The rest of the world.
Reset == \E b \in Buckets : QuotaReset(b) /\ UNCHANGED <<webVars, academicVars, fileVars>>
Ingestion == IngestStep /\ UNCHANGED <<webVars, academicVars, gitHubVars>>

Next ==
    \/ \E c \in Calls : Web(c) \/ Academic(c) \/ GitHub(c) \/ Files(c) \/ Plain(c) \/ CallTimesOut(c)
    \/ RoundEnds
    \/ Reset
    \/ Ingestion

Spec == Init /\ [][Next]_vars

-----------------------------------------------------------------------------
\* What the model is given in one list out of several, pages of the web or chunks of
\* the files, is ranked fairly: see each.
RankingsAreFair == FusionIsFair /\ ExcerptsAreFair
=============================================================================
