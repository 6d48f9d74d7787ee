--------------------------- MODULE MCDiameterTasks ---------------------------
(* Instances of DiameterTasks for TLC.                                     *)
EXTENDS DiameterTasks

CONSTANTS t1, p, q, a, b, v1, v2, v3, c1, c2

Rtr(reason, impis, impus) ==
  [kind |-> "RTR", reason |-> reason, impis |-> impis, impus |-> impus]
Ppr(impi, profile, default, charging) ==
  [kind |-> "PPR", impi |-> impi, profile |-> profile, default |-> default,
   charging |-> charging]

AllRequests ==
  {Rtr("PERMANENT_TERMINATION", {a}, {}), Rtr("REMOVE_SCSCF", {a}, {p}),
   Rtr("invalid", {a}, {p}), Rtr("NEW_SERVER_ASSIGNED", {a, b}, {p}),
   Ppr(a, v2, p, None), Ppr(a, v3, p, c2), Ppr(a, None, p, c2), Ppr(a, v2, q, None),
   Ppr(a, None, p, None)}

\* Two private IDs share p; a may have q as well.
Shared == [reg |-> "REGISTERED", impis |-> {a, b}, doc |-> v1, charging |-> c1, aged |-> FALSE]
OnlyA  == [Shared EXCEPT !.impis = {a}]
MCCaches == {[k \in Impus |-> IF k = p THEN Shared ELSE None],
             [k \in Impus |-> IF k = p THEN Shared ELSE OnlyA]}
=============================================================================
