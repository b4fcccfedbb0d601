------------------------------ MODULE Requests ------------------------------
(* The requests the server's one process may handle at once. *)
EXTENDS Naturals, FiniteSets

CONSTANTS
    Handlers,       \* their handlers
    Nobody          \* none of them

ASSUME HandlersAssumption == Nobody \notin Handlers
=============================================================================
