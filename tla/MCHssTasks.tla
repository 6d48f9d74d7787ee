------------------------------ MODULE MCHssTasks ------------------------------
(* Instances of HssTasks for TLC.                                          *)
EXTENDS HssTasks

CONSTANTS t1, t2

Av(file, impu, authorization, server) ==
  [kind |-> "av", file |-> file, impu |-> impu, authorization |-> authorization,
   server |-> server]
Status(network, type, sos) ==
  [kind |-> "status", network |-> network, type |-> type, sos |-> sos]
Location(originating, type) ==
  [kind |-> "location", originating |-> originating, type |-> type]

\* Requests of every kind, with every value of every parameter in one of them.
MCQuestions ==
  {[Av("digest", "impu", Empty, Empty) EXCEPT !.kind = "digest"],
   Av("av", "impu", Empty, "scscf"), Av("aka", "impu", "base64 auts", Empty),
   Av("aka2", "impu", Empty, Empty),
   Av("invalid", "impu", Empty, Empty), Av("av", Empty, Empty, Empty),
   Status(Empty, Empty, FALSE), Status("visited", "DEREG", FALSE),
   Status(Empty, "CAPAB", TRUE), Status(Empty, "REG", FALSE),
   Location("true", Empty), Location("false", "CAPAB"), Location(Empty, "DEREG")}

\* Every answer an HSS may give, except for differences no request can see: the
\* scheme matters in a successful MAA only, the wildcard in no answer.
MCAnswers ==
  {a \in DiameterAnswers :
     ~a.wildcard /\ (a.result # "DIAMETER_SUCCESS" => a.scheme = "other")}

\* Two vectors that mix the 3GPP's AVPs with the others, so that each part comes in
\* either; a server in each of the forms.
MCFacts ==
  {[qop |-> "auth-int", ha1As |-> "3GPP", realmAs |-> "3GPP", qopAs |-> "other"],
   [qop |-> Empty, ha1As |-> "other", realmAs |-> "other", qopAs |-> "3GPP"],
   [by |-> "name", wildcard |-> Empty], [by |-> "capability", wildcard |-> "wildcard"],
   [by |-> "capabilities", wildcard |-> Empty]}

\* Rows with all columns, in two orders, and rows that lack some.
Col(name) == [name |-> name, value |-> name]
MCRows ==
  {<<Col("digest_ha1"), Col("digest_realm"), Col("digest_qop"), Col("public_id_")>>,
   <<Col("public_id_"), Col("digest_realm"), Col("digest_ha1")>>,
   <<Col("digest_ha1"), Col("digest_realm")>>, <<Col("public_id_")>>}
=============================================================================
