----------------------------- MODULE RankFusion -----------------------------
(***************************************************************************)
(* Reciprocal rank fusion, as _merge_results (search_fabric) and           *)
(* _hybrid_results (my_files) use it: an item gets 1 / (K + rank) from each *)
(* list it is in, and bonuses counted in hundredths.  Scores are scaled to  *)
(* whole numbers, exactly.                                                  *)
(***************************************************************************)
EXTENDS Orders

CONSTANTS
    K,          \* SEARCH_RRF_K, MY_FILES_RRF_K
    Ranks,      \* how long a list may be
    Scale       \* the score 1

ASSUME FusionAssumption ==
    /\ K \in Nat /\ Ranks \in Nat \ {0} /\ Scale \in Nat \ {0}
    /\ Scale % 100 = 0
    /\ \A r \in 1..Ranks : Scale % (K + r) = 0

Share(rank) == Scale \div (K + rank)
Hundredths(n) == n * (Scale \div 100)
=============================================================================
