---------------------------- MODULE MCProviders ----------------------------
(***************************************************************************)
(* Three concurrent runs, two that want one provider and one that wants    *)
(* the other, with one retry and a circuit that opens at the second 429.   *)
(***************************************************************************)
EXTENDS Providers, TLC

CONSTANTS r1, r2, r3, gemini, openai

MCRank == gemini :> 1 @@ openai :> 2
MCWanted == r1 :> gemini @@ r2 :> openai @@ r3 :> gemini

=============================================================================
