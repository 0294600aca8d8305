------------------------------- MODULE MCFedBOX -------------------------------
(***************************************************************************)
(* Small installations.                                                    *)
(***************************************************************************)
EXTENDS FedBOX, TLC

\* Commands differ in nothing but their names, and so do sessions.
Interchangeable == Permutations(Commands) \cup Permutations(Sessions)

=============================================================================
