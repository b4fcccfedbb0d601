----------------------------- MODULE ToolCalls -----------------------------
(***************************************************************************)
(* The tools of one attempt of run_ahmed (agent_runtime._build_agent) and  *)
(* the failure memory they share.  The model asks for a round of tool      *)
(* calls, which run concurrently; the next round starts when all of them   *)
(* have ended.  A call runs its tool's function, records a tool event, and *)
(* as its last step, after its last await, writes the failure memory.      *)
(*                                                                         *)
(* What a tool's function returns is left open here: SearchTools composes  *)
(* this module with the functions themselves.  The recorder swallows its   *)
(* own errors (server.save_tool_event), so it only delays a call.          *)
(***************************************************************************)
EXTENDS Naturals, Sequences, FiniteSets

CONSTANTS
    Calls,      \* the places of a round: calls that may run at once
    Plans       \* what the model may ask for: sequences of rounds, each a
                \* function from the calls of the round to what is asked

ASSUME PlanAssumption == \A p \in Plans : Len(p) \in Nat \ {0} /\ DOMAIN p = 1..Len(p)

VARIABLES
    plan,       \* the rounds of this attempt
    round,      \* the current one
    at,         \* where each call is: "idle", "work", "record", "done"
    answer,     \* what the tool's function returned or raised
    notes,      \* deps.tool_failure_notes: how many of them bear each key
    said,       \* what the model is told of the call
    envelopes,  \* deps.evidence_envelopes: the calls that added one
    ends        \* history: how each call ended, in order

toolVars == <<plan, round, at, answer, notes, said, envelopes, ends>>

Inspections == {"inspect_runtime_evidence", "inspect_architecture_evidence",
                "inspect_source_status", "inspect_source_of_truth"}
Searches == {"web_search", "academic_search", "github_search", "search_my_files"}
Tools == Inspections \cup Searches \cup {"test_sensitive_action"}

\* The tools that append an envelope to the run's evidence.
Witnesses == {"inspect_source_status", "inspect_source_of_truth"}

Asked(c) == plan[round][c]

\* _tool_call_signature: the tool and the arguments it strips and sorts.
Key(c) == <<Asked(c).tool, Asked(c).args>>

\* What a function returns: ok, and an error code of its own; or it raises.
Returned(ok, error) == [kind |-> "returned", ok |-> ok, error |-> error]
Raised == [kind |-> "raised", ok |-> FALSE, error |-> "exception"]
NoAnswer == [kind |-> "none", ok |-> FALSE, error |-> "none"]

Errors == {"none", "arguments", "terminal", "unavailable", "exception"}
Answers == [kind : {"none", "returned", "raised"}, ok : BOOLEAN, error : Errors]

Nothing == [what |-> "nothing", times |-> 0]
Said == [what : {"nothing", "result", "retry", "timeout"}, times : Nat]

Rounds == UNION {{p[i] : i \in 1..Len(p)} : p \in Plans}
Keys == UNION {{<<r[c].tool, r[c].args>> : c \in DOMAIN r} : r \in Rounds}

\* The types of the tools' own state.
ToolTypeOK ==
    /\ plan \in Plans /\ round \in 1..Len(plan)
    /\ at \in [Calls -> {"idle", "work", "record", "done"}]
    /\ answer \in [Calls -> Answers]
    /\ said \in [Calls -> Said]
    /\ notes \in [Keys -> Nat]
    /\ envelopes \in SUBSET (Nat \X Calls)
    /\ ends \in Seq(Keys \X {"failed", "succeeded"})

ToolInit ==
    /\ plan \in Plans
    /\ round = 1
    /\ at = [c \in Calls |-> IF c \in DOMAIN plan[1] THEN "work" ELSE "idle"]
    /\ answer = [c \in Calls |-> NoAnswer]
    /\ notes = [key \in Keys |-> 0]
    /\ said = [c \in Calls |-> Nothing]
    /\ envelopes = {}
    /\ ends = <<>>

-----------------------------------------------------------------------------
\* The tool's function has returned a, or raised it.  The two tools that
\* inspect sources add their envelope at once, before the event is recorded.
Returns(c, a) ==
    /\ at[c] = "work"
    /\ at' = [at EXCEPT ![c] = "record"]
    /\ answer' = [answer EXCEPT ![c] = a]
    /\ envelopes' = IF Asked(c).tool \in Witnesses /\ a.kind = "returned"
                    THEN envelopes \cup {<<round, c>>}
                    ELSE envelopes
    /\ UNCHANGED <<plan, round, notes, said, ends>>

\* An inspection changes nothing: it reads files in a thread, or one stored source,
\* and its result, whatever it says, is an answer.
Inspects(c, tool) ==
    /\ at[c] = "work" /\ Asked(c).tool = tool
    /\ \E a \in {Returned(TRUE, "none"), Raised} : Returns(c, a)

InspectRuntimeEvidence(c) == Inspects(c, "inspect_runtime_evidence")
InspectArchitectureEvidence(c) == Inspects(c, "inspect_architecture_evidence")
InspectSourceStatus(c) == Inspects(c, "inspect_source_status")
InspectSourceOfTruth(c) == Inspects(c, "inspect_source_of_truth")

\* test_sensitive_action: create_pending_action is PendingActions' CreateAction.
Propose(c) ==
    /\ at[c] = "work" /\ Asked(c).tool = "test_sensitive_action"
    /\ \E a \in {Returned(TRUE, "none"), Raised} : Returns(c, a)

\* Whether the tool turns the answer into a retry prompt.  Of the refusals of
\* academic_search only those of its arguments count as failures.
AcademicReflects(a) == ~a.ok /\ a.error = "arguments"

Reflects(c) ==
    \/ answer[c].kind = "raised"
    \/ IF Asked(c).tool = "academic_search"
       THEN AcademicReflects(answer[c])
       ELSE ~answer[c].ok

\* _reflect_on_tool_failure: another note, and how often this very call has failed.
Reflect(c) ==
    /\ notes' = [notes EXCEPT ![Key(c)] = @ + 1]
    /\ said' = [said EXCEPT ![c] = [what |-> "retry", times |-> notes[Key(c)] + 1]]
    /\ ends' = Append(ends, <<Key(c), "failed">>)

\* Mutant: a success of the tool clears its whole memory.
WithoutTheTool(key) == [k \in Keys |-> IF k[1] = key[1] THEN 0 ELSE notes[k]]

\* _clear_tool_failure_note: the notes of this very call go.
Without(key) == [notes EXCEPT ![key] = 0]

Clear(c) ==
    /\ notes' = Without(Key(c))
    /\ said' = [said EXCEPT ![c] = [what |-> "result", times |-> 0]]
    /\ ends' = Append(ends, <<Key(c), "succeeded">>)

\* The recorder has returned: the call ends, with no await in between.
Record(c) ==
    /\ at[c] = "record"
    /\ at' = [at EXCEPT ![c] = "done"]
    /\ IF Reflects(c) THEN Reflect(c) ELSE Clear(c)
    /\ UNCHANGED <<plan, round, answer, envelopes>>

\* tool_timeout: the call is cancelled wherever it waits, and writes no note.
TimesOut(c) ==
    /\ at[c] \in {"work", "record"}
    /\ at' = [at EXCEPT ![c] = "done"]
    /\ said' = [said EXCEPT ![c] = [what |-> "timeout", times |-> 0]]
    /\ UNCHANGED <<plan, round, answer, notes, envelopes, ends>>

\* The model answers a finished round with another.
NextRound ==
    /\ \A c \in Calls : at[c] \in {"idle", "done"}
    /\ round < Len(plan)
    /\ round' = round + 1
    /\ at' = [c \in Calls |-> IF c \in DOMAIN plan[round + 1] THEN "work" ELSE "idle"]
    /\ answer' = [c \in Calls |-> NoAnswer]
    /\ said' = [c \in Calls |-> Nothing]
    /\ UNCHANGED <<plan, notes, envelopes, ends>>

-----------------------------------------------------------------------------
\* The failures of a key since it last succeeded, by the history.
SinceSuccess(key) ==
    {i \in 1..Len(ends) : /\ ends[i] = <<key, "failed">>
                          /\ \A j \in i..Len(ends) : ends[j] # <<key, "succeeded">>}

\* "The exact same call has now failed N times" is true when it is said: whatever
\* else the attempt did meanwhile, and in whatever order concurrent calls ended, N
\* is the number of failures of these very arguments since they last succeeded
\* (the claim of _reflect_on_tool_failure's docstring).
FailureCountIsHonest ==
    [][\A c \in Calls :
         (said'[c] # said[c] /\ said'[c].what = "retry") =>
             said'[c].times = Cardinality(SinceSuccess(Key(c))')]_toolVars
=============================================================================
