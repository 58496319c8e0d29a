--------------------------- MODULE MCHostLiveness ---------------------------
(* Instances of HostLiveness for TLC. *)
EXTENDS HostLiveness

MCHandler(e) == <<"transition", e>>
MCNotifier(e) == <<"notice", e>>
TwoTasksEach == {MCHandler(e) : e \in 1..MaxEpoch} \cup {MCNotifier(e) : e \in 1..MaxEpoch}
TwoCallers == {Background, Heartbeat}
OneHost == {Host}
=============================================================================
