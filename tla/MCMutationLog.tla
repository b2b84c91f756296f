--------------------------- MODULE MCMutationLog ---------------------------
(***************************************************************************)
(* Instances of the mutation log for TLC: two different elements, one      *)
(* value a mutator writes and one malloc leaves behind, all told apart.    *)
(***************************************************************************)
EXTENDS MutationLog

MCArgument == <<"first", "second">>
MCValues   == {"mutated"}
MCGarbage  == "garbage"
=============================================================================
