------------------------------- MODULE MCV3Pool -------------------------------
(* Instances of V3Pool for TLC. *)
EXTENDS V3Pool

CONSTANTS c1, c2, c3, k1, s1, s2, s3, s4, b1, b2, b3, b4, b5

TwoCallers == {c1, c2}
ThreeCallers == {c1, c2, c3}
OneKey == {k1}
SomeSessions == {s1, s2, s3, s4}
SomeBuckets == {b1, b2, b3, b4, b5}

===============================================================================
