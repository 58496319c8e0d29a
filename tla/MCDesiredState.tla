--------------------------- MODULE MCDesiredState ---------------------------
(* Instances of DesiredState for TLC. *)
EXTENDS DesiredState

Visible == <<"visible">>
Visible2 == <<"visible", "visible">>
Quiet == <<"quiet">>
QuietLast == <<"visible", "quiet">>
=============================================================================
