------------------------------- MODULE HssTasks -------------------------------
(***************************************************************************)
(* The HTTP handlers that put one question to the HSS and pass the answer  *)
(* on: ImpiDigestTask and ImpiAvTask (a MAR), ImpiRegistrationStatusTask   *)
(* (a UAR) and ImpuLocationInfoTask (a LIR), over either HssConnection.    *)
(* Tasks run concurrently and share the penalties recorded for the load    *)
(* monitor and the health checker.                                         *)
(***************************************************************************)
EXTENDS HssAnswers, CxMessages, Naturals, FiniteSets

CONSTANTS
  Tasks,      \* the HTTP requests
  Questions,  \* the requests Sprout may send, a subset of HttpRequests
  Answers,    \* the Diameter answers considered, a subset of DiameterAnswers
  Facts,      \* what the HSS may have to say, a subset of Vectors \cup Places
  Rows,       \* the rows of Homestead-Prov's table of private IDs
  DestHost    \* the configured Destination-Host, or Empty

-----------------------------------------------------------------------------
(* What Sprout asks, and what an HSS knows.                                *)

HttpRequests ==
  [kind : {"digest", "av"}, file : {"digest", "av", "aka", "aka2", "invalid"},
   impu : {Empty, "impu"}, authorization : {Empty, "base64 auts"}, server : {Empty, "scscf"}]
  \cup [kind : {"status"}, network : {Empty, "visited"},
        type : {Empty, "REG", "DEREG", "CAPAB"}, sos : BOOLEAN]
  \cup [kind : {"location"}, originating : {Empty, "true", "false"},
        type : {Empty, "REG", "DEREG", "CAPAB"}]

\* An authentication vector, and the AVPs in which the HSS sends each part of a
\* digest: the 3GPP's or its own.
Dialects == {"3GPP", "other"}
Vectors == [qop : {Empty, "auth-int"}, ha1As : Dialects, realmAs : Dialects, qopAs : Dialects]

\* The S-CSCF of a subscriber, by its name, as a capability, or by other
\* capabilities only; and the wildcard its public ID belongs to.
Places == [by : {"name", "capability", "capabilities"}, wildcard : {Empty, "wildcard"}]

ASSUME HssTasksAssumption ==
  /\ IsFiniteSet(Tasks) /\ Questions \subseteq HttpRequests
  /\ Answers \subseteq DiameterAnswers /\ Facts \subseteq Vectors \cup Places
  /\ DestHost \in {Empty, "host"}

VARIABLES
  hss,        \* the configured HssConnection: "diameter" or "hsprov"
  task,       \* Task -> its state, see TaskStates
  penalties,  \* number of penalties recorded
  passes      \* number of times the health check has passed

vars == <<hss, task, penalties, passes>>

Nothing == <<>>

RequestOf(kind) == CASE kind \in {"digest", "av"} -> "MAR"
                     [] kind = "status"   -> "UAR"
                     [] kind = "location" -> "LIR"

\* What a task's HSS request met with, whatever the code made of it.
Fates == {"none", "answered", "unanswered", "overloaded", "dbError"}

\* A task: what it was asked, the request it sent, and with a reply of 200 what it
\* was sent back (a vector's scheme and the facts, or a row) and what it replied.
IsTask(x) ==
  /\ x.req \in Questions /\ x.pc \in {"new", "waiting", "gone"}
  /\ x.replies \in 0..1
  /\ x.code \in {0, 200, 403, 404, 500, 503, 504}
  /\ x.fate \in Fates
  /\ x.code # 200 <=> x.told = Nothing

TypeOK ==
  /\ hss \in {"diameter", "hsprov"}
  /\ \A t \in Tasks : IsTask(task[t])
  /\ penalties \in Nat /\ passes \in Nat

NewTask(q) == [req |-> q, pc |-> "new", replies |-> 0, code |-> 0, fate |-> "none",
               sent |-> Nothing, heard |-> Nothing, told |-> Nothing]

Init ==
  /\ hss \in {"diameter", "hsprov"}
  /\ task \in [Tasks -> {NewTask(q) : q \in Questions}]
  /\ penalties = 0 /\ passes = 0

-----------------------------------------------------------------------------
(* The replies.                                                            *)

\* Mutant: the code that docs/homestead_api.md:107 gives, of registration data, for
\* an unresponsive database.
MarCodeBadGateway(kind, rc, scheme) ==
  CASE rc = "SUCCESS" -> IF scheme = "DIGEST" \/ (kind = "av" /\ scheme # "other")
                         THEN 200 ELSE 404
    [] rc = "SERVER_UNAVAILABLE" -> 503
    [] rc = "NOT_FOUND" -> 404
    [] rc = "TIMEOUT" -> 502
    [] OTHER -> 500

\* on_mar_response.  A vector of the other kind than the URL asked for, or of
\* no supported scheme, is not found.
MarCode(kind, rc, scheme) ==
  CASE rc = "SUCCESS" -> IF scheme = "DIGEST" \/ (kind = "av" /\ scheme # "other")
                         THEN 200 ELSE 404
    [] rc = "SERVER_UNAVAILABLE" -> 503
    [] rc = "NOT_FOUND" -> 404
    [] rc = "TIMEOUT" -> 504
    [] OTHER -> 500

\* on_uar_response.
UarCode(rc) ==
  CASE rc = "SUCCESS" -> 200
    [] rc = "NOT_FOUND" -> 404
    [] rc = "FORBIDDEN" -> 403
    [] rc = "TIMEOUT" -> 504
    [] rc = "SERVER_UNAVAILABLE" -> 503
    [] OTHER -> 500

\* on_lir_response.
LirCode(rc) ==
  CASE rc = "SUCCESS" -> 200
    [] rc = "NOT_FOUND" -> 404
    [] rc = "TIMEOUT" -> 504
    [] rc = "SERVER_UNAVAILABLE" -> 503
    [] OTHER -> 500

Code(kind, rc, scheme) ==
  CASE kind \in {"digest", "av"} -> MarCode(kind, rc, scheme)
    [] kind = "status"   -> UarCode(rc)
    [] kind = "location" -> LirCode(rc)

-----------------------------------------------------------------------------
(* The content of the replies with code 200.                               *)

\* ImpiAvTask::send_reply.  The quality of protection has a default.
AvReply(scheme, av) ==
  IF scheme = "DIGEST" THEN [digest |-> [av EXCEPT !.qop = IF @ = Empty THEN "auth" ELSE @]]
                       ELSE [aka |-> av]

\* ImpiDigestTask::send_reply and ImpiAvTask's.
VectorReply(kind, scheme, av) ==
  IF kind = "digest" THEN [digest_ha1 |-> av.ha1] ELSE AvReply(scheme, av)

\* The JSON objects of on_uar_response and on_lir_response: the server by its
\* name or the capabilities a server needs, and its name if that is one of them.
PlaceReply(result, server, capabilities, wildcard) ==
  [result   |-> result,
   scscf    |-> IF server # Empty THEN server ELSE capabilities.server_name,
   needs    |-> IF server # Empty THEN Nothing
                ELSE <<capabilities.mandatory, capabilities.optional>>,
   wildcard |-> wildcard]

\* What the Mar-, Uar- and LirDiameterTransaction make of the AVPs of a successful
\* answer, and the task of that.
DiameterReply(kind, a, m) ==
  IF RequestOf(kind) = "MAR"
  THEN VectorReply(kind, a.scheme,
         CASE a.scheme = "DIGEST" -> digest_auth_vector(m)
           [] a.scheme = "AKAV1"  -> aka_auth_vector(m)
           [] a.scheme = "AKAV2"  -> akav2_auth_vector(m))
  ELSE PlaceReply(
         IF a.result # "none" THEN a.result ELSE a.experimental,
         ValueOf(m.SERVER_NAME),
         IF m.SERVER_NAME = Absent THEN server_capabilities(m) ELSE NoCapabilities,
         IF kind = "location" THEN ValueOf(m.WILDCARDED_PUBLIC_IDENTITY) ELSE Empty)

\* The answers that HsProvHssConnection makes up for a UAR and a LIR.
HsProvPlace == PlaceReply("DIAMETER_SUCCESS", "configured", NoCapabilities, Empty)

\* The task x after its reply and delete this.
Replied(x, code, fate, heard, reply) ==
  [x EXCEPT !.pc = "gone", !.replies = @ + 1, !.code = code, !.fate = fate,
            !.heard = IF code = 200 THEN heard ELSE Nothing,
            !.told = IF code = 200 THEN reply ELSE Nothing]

\* Mutant: a LIR timeout records no penalty.
RespondLenient(t, rc, scheme, fate, heard, reply) ==
  LET k == task[t].req.kind  code == Code(k, rc, scheme) IN
  /\ task' = [task EXCEPT ![t] = Replied(task[t], code, fate, heard, reply)]
  /\ penalties' = penalties + (IF rc = "TIMEOUT" /\ k # "location" THEN 1 ELSE 0)
  /\ passes' = passes + (IF k = "status" /\ rc = "SUCCESS" THEN 1 ELSE 0)

\* The callback of task t: it replies, records a penalty for a timeout and a
\* passed health check for an authorised registration, and deletes itself.
Respond(t, rc, scheme, fate, heard, reply) ==
  LET k == task[t].req.kind  code == Code(k, rc, scheme) IN
  /\ task' = [task EXCEPT ![t] = Replied(task[t], code, fate, heard, reply)]
  /\ penalties' = penalties + (IF rc = "TIMEOUT" THEN 1 ELSE 0)
  /\ passes' = passes + (IF k = "status" /\ rc = "SUCCESS" THEN 1 ELSE 0)

-----------------------------------------------------------------------------
(* The handlers.                                                           *)

\* ImpiDigestTask's and ImpiAvTask's parse_request.
SchemeOf(q) ==
  CASE q.kind = "digest" \/ q.file = "digest" -> "DIGEST"
    [] q.kind = "av" /\ q.file = "av"   -> "Unknown"
    [] q.kind = "av" /\ q.file = "aka"  -> "AKAV1"
    [] q.kind = "av" /\ q.file = "aka2" -> "AKAV2"

\* parse_request fails on an unknown scheme, and get_av rejects a request
\* without a public ID.
Rejected(q) == \/ q.kind = "av" /\ q.file = "invalid"
               \/ q.kind \in {"digest", "av"} /\ q.impu = Empty

Reject(t) ==
  /\ task[t].pc = "new" /\ Rejected(task[t].req)
  /\ task' = [task EXCEPT ![t] = Replied(task[t], 404, "none", Nothing, Nothing)]
  /\ UNCHANGED <<hss, penalties, passes>>

OrDefault(value, default) == IF value = Empty THEN default ELSE value

base64_decode(text) == IF text = Empty THEN Empty ELSE "auts"

\* send_mar and the run functions of the tasks, and the send_*_request functions
\* of DiameterHssConnection.
DiameterRequest(q) ==
  CASE RequestOf(q.kind) = "MAR" ->
         MultimediaAuthRequest("realm", DestHost, OrDefault(q.server, "configured"), SchemeOf(q),
           IF q.kind = "av" THEN base64_decode(q.authorization) ELSE Empty)
    [] q.kind = "status" ->
         UserAuthorizationRequest(DestHost, "realm", OrDefault(q.network, "home"), q.type, q.sos)
    [] q.kind = "location" ->
         LocationInfoRequest(DestHost, "realm", q.originating, q.type)

\* Mutant: no transaction is made for a LIR to Homestead-Prov.
SendNoLir(t) ==
  LET q == task[t].req IN
  /\ task[t].pc = "new" /\ ~Rejected(q)
  /\ IF hss = "hsprov" /\ AnsweredInline(RequestOf(q.kind), FALSE)
     THEN Respond(t, "SUCCESS", "other", "answered", Nothing, HsProvPlace)
     ELSE /\ hss = "hsprov" => q.kind # "location"
          /\ task' = [task EXCEPT ![t].pc = "waiting"]
          /\ UNCHANGED <<penalties, passes>>
  /\ UNCHANGED hss

\* The request goes to the HSS.  Homestead-Prov answers a UAR on the spot, in the
\* same thread.
Send(t) ==
  LET q == task[t].req IN
  /\ task[t].pc = "new" /\ ~Rejected(q)
  /\ IF hss = "hsprov" /\ AnsweredInline(RequestOf(q.kind), FALSE)
     THEN Respond(t, "SUCCESS", "other", "answered", Nothing, HsProvPlace)
     ELSE /\ task' = [task EXCEPT ![t] =
               [@ EXCEPT !.pc = "waiting",
                         !.sent = IF hss = "diameter" THEN DiameterRequest(q) ELSE Nothing]]
          /\ UNCHANGED <<penalties, passes>>
  /\ UNCHANGED hss

\* The AVPs in which an HSS puts what it has to say (external).
AvpsOf(fact) ==
  LET as(dialect, mine, value) == IF dialect = mine THEN value ELSE Absent
      qop == IF fact.qop = Empty THEN Absent ELSE fact.qop
  IN IF fact \in Vectors
     THEN [CX_DIGEST_HA1   |-> as("3GPP", fact.ha1As, "ha1"),
           DIGEST_HA1      |-> as("other", fact.ha1As, "ha1"),
           CX_DIGEST_REALM |-> as("3GPP", fact.realmAs, "realm"),
           DIGEST_REALM    |-> as("other", fact.realmAs, "realm"),
           CX_DIGEST_QOP   |-> as("3GPP", fact.qopAs, qop),
           DIGEST_QOP      |-> as("other", fact.qopAs, qop),
           SIP_AUTHENTICATE |-> "rand", SIP_AUTHORIZATION |-> "res",
           CONFIDENTIALITY_KEY |-> "ck", INTEGRITY_KEY |-> "ik"]
     ELSE [SERVER_NAME |-> as("name", fact.by, "assigned"),
           MANDATORY_CAPABILITY |-> <<"m">>, OPTIONAL_CAPABILITY |-> <<"o">>,
           CAPABILITIES_SERVER_NAME |-> as("capability", fact.by, "assigned"),
           WILDCARDED_PUBLIC_IDENTITY |->
             IF fact.wildcard = Empty THEN Absent ELSE fact.wildcard]

\* The Diameter stack has an answer for task t: DiameterTransaction's
\* on_response.
OnResponse(t, a, fact) ==
  LET k == task[t].req.kind
      fate == CASE a.result = "DIAMETER_UNABLE_TO_DELIVER" -> "unanswered"
                [] a.result = "DIAMETER_TOO_BUSY" -> "overloaded"
                [] OTHER -> "answered"
      rc == DiameterResult(RequestOf(k), a)
  IN /\ hss = "diameter" /\ task[t].pc = "waiting"
     /\ fact \in Vectors <=> RequestOf(k) = "MAR"
     /\ Respond(t, rc, a.scheme, fate, [scheme |-> a.scheme, fact |-> fact],
                IF rc = "SUCCESS" THEN DiameterReply(k, a, AvpsOf(fact)) ELSE Nothing)
     /\ UNCHANGED hss

\* The Diameter stack gives up on task t's request: on_timeout.
OnTimeout(t) ==
  /\ hss = "diameter" /\ task[t].pc = "waiting"
  /\ Respond(t, TimeoutResult, "other", "unanswered", Nothing, Nothing)
  /\ UNCHANGED hss

\* The Cassandra store has a result for task t: HsProvTransaction's on_success
\* and on_failure.  Homestead-Prov has digests only.  A row that is there may lack
\* what a MAR needs.
OnCassandraResult(t, r, row) ==
  LET k == task[t].req.kind  get == GetAuthVector(row)
      found == IF RequestOf(k) = "MAR" /\ r = "OK" THEN get.result ELSE r
  IN /\ hss = "hsprov" /\ task[t].pc = "waiting"
     /\ Respond(t, HsProvResult(found), "DIGEST",
                IF found = "other" THEN "dbError" ELSE "answered", [row |-> row],
                IF RequestOf(k) = "MAR" THEN VectorReply(k, "DIGEST", get.av) ELSE HsProvPlace)
     /\ UNCHANGED hss

Next ==
  \E t \in Tasks :
    \/ Reject(t)
    \/ Send(t)
    \/ \E a \in Answers, fact \in Facts : OnResponse(t, a, fact)
    \/ OnTimeout(t)
    \/ \E r \in CassandraResults, row \in Rows : OnCassandraResult(t, r, row)

Spec == Init /\ [][Next]_vars

\* A task's thread runs, the Diameter stack times a request out unless an answer
\* comes first, and the Cassandra thread pool calls back for every transaction.
Fairness ==
  \A t \in Tasks :
    /\ WF_vars(Reject(t) \/ Send(t))
    /\ WF_vars(OnTimeout(t))
    /\ WF_vars(\E r \in CassandraResults, row \in Rows : OnCassandraResult(t, r, row))

FairSpec == Spec /\ Fairness

-----------------------------------------------------------------------------
(* Properties.                                                             *)

\* The code of a reply tells Sprout what became of the request.  A 503, which
\* makes Sprout try another Homestead, means that no HSS answered: the request
\* was undeliverable or timed out.  A 504 means that the HSS or the database
\* failed while dealing with it; a 200 means that it was answered
\* (on_mar_response, on_uar_response and on_lir_response).
ReplyTellsFate ==
  \A t \in Tasks : task[t].pc = "gone" =>
    LET x == task[t] IN
    /\ x.code = 503 <=> x.fate = "unanswered"
    /\ x.code = 504 => x.fate \in {"overloaded", "dbError"}
    /\ x.code = 200 => x.fate = "answered"

\* The load monitor hears of exactly the requests that were answered with 504,
\* which are those that an overloaded HSS or a database failed (ResultCode::TIMEOUT;
\* a Diameter timeout gives 503 and no penalty), and the health checker of exactly
\* the registrations that were authorised (record_penalty and health_check_passed
\* in the response handlers).
MonitorsAreTold ==
  /\ penalties = Cardinality({t \in Tasks : task[t].code = 504})
  /\ passes = Cardinality({t \in Tasks : task[t].req.kind = "status"
                                         /\ task[t].code = 200})

\* What the HSS understands is what Sprout asked, as TS 29.229 gives the AVPs their
\* meaning: the authorization type defaults to a registration, an emergency is
\* flagged, a request that is not flagged as originating is terminating, and the
\* S-CSCF and the visited network are Sprout's or the configured ones.  The
\* destination realm and host are where they belong, although the requests take
\* them in different orders (the constructors of cx.cpp and their callers).
HssHearsQuestion ==
  \A t \in Tasks : task[t].sent # Nothing =>
    LET q == task[t].req  m == task[t].sent
        authType(avp) == CASE avp = "DE_REGISTRATION" -> "DEREG"
                           [] avp = "REGISTRATION_AND_CAPABILITIES" -> "CAPAB"
                           [] OTHER -> "REG"
    IN /\ m.DESTINATION_REALM = "realm"
       /\ m.DESTINATION_HOST = IF DestHost = Empty THEN Absent ELSE DestHost
       /\ RequestOf(q.kind) = "MAR" =>
            /\ m.SERVER_NAME = IF q.server = Empty THEN "configured" ELSE q.server
            /\ m.SIP_AUTH_SCHEME = "Unknown" <=> q.kind = "av" /\ q.file = "av"
            /\ m.SIP_AUTH_SCHEME \in {"AKAV1", "AKAV2"} <=>
                 q.kind = "av" /\ q.file \in {"aka", "aka2"}
            /\ m.SIP_AUTHORIZATION = IF q.kind = "av" /\ q.authorization = "base64 auts"
                                     THEN "auts" ELSE Absent
       /\ q.kind = "status" =>
            /\ authType(m.USER_AUTHORIZATION_TYPE) = IF q.type = Empty THEN "REG" ELSE q.type
            /\ m.VISITED_NETWORK_IDENTIFIER = IF q.network = Empty THEN "home" ELSE q.network
            /\ m.UAR_FLAGS # Absent <=> q.sos
       /\ q.kind = "location" =>
            /\ m.ORIGINATING_REQUEST # Absent <=> q.originating = "true"
            /\ authType(m.USER_AUTHORIZATION_TYPE) = "CAPAB" <=> q.type = "CAPAB"

\* What Sprout is told is what the HSS has said, in whichever AVPs the HSS says it:
\* no part of a vector is lost or comes from another one, a server named by the HSS
\* is named to Sprout, and capabilities are passed on unless the HSS names a server
\* directly.  From Homestead-Prov a digest comes only if the private ID has the
\* public ID (the answers of cx.cpp, GetAuthVector::perform, and the replies).
SproutHearsAnswer ==
  \A t \in Tasks : task[t].code = 200 /\ task[t].heard # Nothing =>
    LET kind == task[t].req.kind  told == task[t].told  heard == task[t].heard
        fact == heard.fact  scheme == heard.scheme
        qop == IF fact.qop = Empty THEN "auth" ELSE fact.qop
        digest == [ha1 |-> "ha1", realm |-> "realm", qop |-> qop]
        aka == [challenge |-> <<"base64", "rand">>, response |-> <<"hex", "res">>,
                crypt_key |-> <<"hex", "ck">>, integrity_key |-> <<"hex", "ik">>,
                version |-> IF scheme = "AKAV2" THEN 2 ELSE 1]
    IN IF hss = "diameter"
       THEN IF kind = "digest" THEN told = [digest_ha1 |-> "ha1"]
            ELSE IF kind = "av"
              THEN told = IF scheme = "DIGEST" THEN [digest |-> digest] ELSE [aka |-> aka]
            ELSE /\ told.scscf = IF fact.by = "capabilities" THEN Empty ELSE "assigned"
                 /\ told.needs = Nothing <=> fact.by = "name"
                 /\ kind = "location" => told.wildcard = fact.wildcard
       ELSE RequestOf(kind) = "MAR" =>
              /\ HasColumn(heard.row, "public_id_")
              /\ HasColumn(heard.row, "digest_ha1")

\* Every task ends: the inline answer, the answer, the timeout and the
\* database's failure all lead to a reply and delete the task.
EveryTaskReplies == \A t \in Tasks : <>(task[t].pc = "gone")
=============================================================================
