------------------------------- MODULE Orders -------------------------------
(***************************************************************************)
(* Finite sets as lists, and parts of lists, in their order: what sorted   *)
(* and comprehensions with a condition are to the searches.                *)
(***************************************************************************)
EXTENDS Naturals, FiniteSets

\* The members of a finite set in the total order before.
InOrder(S, before(_, _)) ==
    [i \in 1..Cardinality(S) |->
        CHOOSE x \in S : Cardinality({y \in S : before(y, x)}) = i - 1]

\* Places of a list from the first to the last.
Ascending(places) == InOrder(places, LAMBDA i, j : i < j)

\* The members of a list at some of its places.
Picked(list, places) == [k \in DOMAIN Ascending(places) |-> list[Ascending(places)[k]]]
=============================================================================
