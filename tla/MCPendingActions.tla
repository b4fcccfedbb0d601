------------------------- MODULE MCPendingActions -------------------------
(***************************************************************************)
(* Two tool calls with the same reason, and two approvals and a rejection  *)
(* of the action they ask for, all at once.                                *)
(***************************************************************************)
EXTENDS PendingActions

CONSTANTS a1, a2, k1

MCKeyOf == [c \in Call |-> k1]
MCAbout == [c \in Client |-> k1]
=============================================================================
