-------------------------- MODULE MCDisplayQueries --------------------------
(* Instances of DisplayQueries for TLC. *)
EXTENDS DisplayQueries

CONSTANTS mine, theirs, more, user

\* The mutation of one user matches that user's keys only.
Scope == [w \in Writers |-> {mine}]
=============================================================================
