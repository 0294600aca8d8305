------------------------------- MODULE MCServer -------------------------------
(***************************************************************************)
(* Server.tla under any sequence of signals from outside.                  *)
(***************************************************************************)
EXTENDS Server, TLC

=============================================================================
