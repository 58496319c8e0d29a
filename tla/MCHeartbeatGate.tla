--------------------------- MODULE MCHeartbeatGate ---------------------------
(* Instances of HeartbeatGate for TLC. *)
EXTENDS HeartbeatGate, TLC

CONSTANTS a, b, c, d

FourHosts == {a, b, c, d}
SteadyAB == {a, b}

=============================================================================
