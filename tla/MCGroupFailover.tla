-------------------------- MODULE MCGroupFailover --------------------------
(* Instances of GroupFailover for TLC: two members, one group. *)
EXTENDS GroupFailover

CONSTANTS a, b, g

TwoMembers == <<a, b>>
OneGroup == {g}
ThreeTasks == {Flusher, Sweeper, Admin}
=============================================================================
