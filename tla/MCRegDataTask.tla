---------------------------- MODULE MCRegDataTask ----------------------------
(* Instances of RegDataTask for TLC.                                       *)
EXTENDS RegDataTask

CONSTANTS t1, t2, p, w, v, a, b

PutRequest(type, impi, wildcard, noCache) ==
  [method |-> "PUT", management |-> FALSE, type |-> type, impu |-> p,
   impi |-> impi, wildcard |-> wildcard, noCache |-> noCache]

Get == [method |-> "GET", management |-> FALSE, type |-> "UNKNOWN", impu |-> p,
        impi |-> None, wildcard |-> None, noCache |-> FALSE]

\* What Sprout and the operator may send about one subscriber, whose public ID
\* may match a wildcard, which Sprout may know.  A REG need not have a private ID.
RequestSeq ==
  <<PutRequest("REG", a, None, FALSE), PutRequest("REG", b, None, TRUE),
    PutRequest("REG", None, None, FALSE),
    PutRequest("CALL", None, None, FALSE), PutRequest("DEREG_USER", None, None, FALSE),
    PutRequest("DEREG_ADMIN", None, w, FALSE),
    PutRequest("DEREG_AUTH_TIMEOUT", None, None, FALSE),
    PutRequest("UNKNOWN", None, None, FALSE), Get, [Get EXCEPT !.method = "POST"],
    [Get EXCEPT !.management = TRUE]>>
MCRequests == {RequestSeq[i] : i \in DOMAIN RequestSeq}

\* t1 and t2 may swap their requests: one of the two ways is enough.
MCInit ==
  /\ Init
  /\ \E i, j \in DOMAIN RequestSeq :
       i =< j /\ task[t1].req = RequestSeq[i] /\ task[t2].req = RequestSeq[j]

MCSpec == MCInit /\ [][Next]_vars /\ Fairness

Good == [impi |-> a, form |-> "good", version |-> 1]
MCDocuments == {Good, [Good EXCEPT !.form = "noIds"], [Good EXCEPT !.form = "bad"]}

\* Rows with the columns in two orders, and one without a document.
MCCharging == {<<"primary", "secondary">>}
Xml == [name |-> "ims_subscription_xml", value |-> Good]
Primary == [name |-> "primary_ccf", value |-> "primary"]
Secondary == [name |-> "secondary_ccf", value |-> "secondary"]
MCRows == {<<Xml, Secondary, Primary>>, <<Primary, Secondary, Xml>>, <<Primary, Secondary>>}

\* The cache is empty at first, or both IDs are registered with a.
Registered == [reg |-> "REGISTERED", impis |-> {a}, doc |-> Good,
               charging |-> <<"primary", "secondary">>, aged |-> FALSE]
MCCaches == {[k \in PublicIds |-> None], [k \in PublicIds |-> Registered]}

\* The HSS may change its mind about the wildcard.
MCWildcards == [k \in PublicIds |-> IF k = p THEN {w, v} ELSE {}]
=============================================================================
