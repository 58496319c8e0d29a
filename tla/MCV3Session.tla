----------------------------- MODULE MCV3Session -----------------------------
(* Instances of V3Session for TLC. *)
EXTENDS V3Session

(* Opts(c, s): an option of the client and of the server. *)
Opts(c, s) == [e \in Ends |-> IF e = "client" THEN c ELSE s]

One == Opts(1, 1)
Two == Opts(2, 2)
OneTwo == Opts(1, 2)
Zero == Opts(0, 0)
OneZero == Opts(1, 0)
ThreeZero == Opts(3, 0)
Four == Opts(4, 4)

Quiet == Opts({}, {})
ClientDrains == Opts({"end", "drain"}, {"end"})
ServerRefuses == Opts({"end"}, {"end", "drain"})
ServerIdles == Opts({"end"}, {"end", "idle"})
Faults == Opts({"end", "drain", "break", "stall", "deadline"}, {"end", "idle", "shut"})
ForeignClient == Opts({"foreign"}, {"drain"})

=============================================================================
