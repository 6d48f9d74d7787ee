----------------------------- MODULE MCHomestead -----------------------------
(* Instances of Homestead for TLC.                                         *)
EXTENDS Homestead

CONSTANTS d1, d2, h1, p, q, a, b, c1, c2

Doc(version) == [impi |-> a, form |-> "good", version |-> version]

Rtr(reason, impis, impus) ==
  [kind |-> "RTR", reason |-> reason, impis |-> impis, impus |-> impus]
Ppr(profile, default, charging) ==
  [kind |-> "PPR", impi |-> a, profile |-> profile, default |-> default, charging |-> charging]
RequestSeq ==
  <<Rtr("PERMANENT_TERMINATION", {a, b}, {}), Rtr("REMOVE_SCSCF", {a}, {p}),
    Rtr("NEW_SERVER_ASSIGNED", {a, b}, {p}), Rtr("invalid", {a}, {}),
    Ppr(Doc(2), p, None), Ppr(Doc(3), p, c2), Ppr(None, p, c2), Ppr(None, p, None),
    Ppr(Doc(2), q, None)>>
MCRequests == {RequestSeq[i] : i \in DOMAIN RequestSeq}

\* d1 and d2 may swap their requests: one of the two ways is enough.
MCInit ==
  /\ HomesteadInit
  /\ \E i, j \in DOMAIN RequestSeq :
       i =< j /\ task[d1].req = RequestSeq[i] /\ task[d2].req = RequestSeq[j]

MCSpec == MCInit /\ [][HomesteadNext]_allVars /\ WF_allVars(HomesteadNext)

PutRequest(type, impi) ==
  [method |-> "PUT", management |-> FALSE, type |-> type, impu |-> p, impi |-> impi,
   wildcard |-> None, noCache |-> FALSE]
MCHttpRequests ==
  {PutRequest("REG", a), PutRequest("REG", b),
   PutRequest("CALL", None), PutRequest("DEREG_USER", None)}

MCProfiles == {Doc(1), Doc(2), Doc(3)}
Registered == [reg |-> "REGISTERED", impis |-> {a, b}, doc |-> Doc(1), charging |-> c1,
               aged |-> FALSE]
\* The subscription has one registration set, p; q is nobody's.
MCCaches == {[k \in Impus |-> IF k = p THEN Registered ELSE None]}
MCSubscriptions == [i \in Impis |-> {p}]
MCHssData == [k \in Impus |-> [doc |-> Doc(1), charging |-> c1]]

\* The instance is one of those that the theorem Agree is about.
ASSUME InstanceAssumption == OneSetEach
=============================================================================
