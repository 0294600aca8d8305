------------------------------- MODULE MCStorage -------------------------------
(***************************************************************************)
(* Two commands on a small storage.                                        *)
(***************************************************************************)
EXTENDS Storage, TLC

\* Tasks differ in nothing but their names.
Interchangeable == Permutations(Tasks)

=============================================================================
