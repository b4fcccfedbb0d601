------------------------------ MODULE MCIngest ------------------------------
(***************************************************************************)
(* Three requests: one for a searchable and an empty file, one for the     *)
(* same searchable file, and one for it again with a file of no bytes.     *)
(* Both kinds of race, a batch cut short and a shared blob arise.          *)
(***************************************************************************)
EXTENDS Ingest, TLC

CONSTANTS a1, a2, a3, b1, z1, x1, r1, r2, r3, a, b, z, x

MCUpload == {a1, a2, a3, b1, z1, x1}
MCBatch == r1 :> <<a1, b1>> @@ r2 :> <<a2, x1>> @@ r3 :> <<a3, z1>>
MCContentOf == a1 :> a @@ a2 :> a @@ a3 :> a @@ b1 :> b @@ z1 :> z @@ x1 :> x
MCKind == a :> "searchable" @@ b :> "empty" @@ z :> "void" @@ x :> "invalid"

=============================================================================
