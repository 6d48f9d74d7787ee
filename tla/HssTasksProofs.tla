---------------------------- MODULE HssTasksProofs ----------------------------
(* Proofs about HssTasks: its invariants.                                  *)
EXTENDS HssTasks, FiniteSetTheorems, TLAPS

\* A task's state has exactly these parts.
IsRecord(x) ==
  x = [req |-> x.req, pc |-> x.pc, replies |-> x.replies, code |-> x.code, fate |-> x.fate,
       sent |-> x.sent, heard |-> x.heard, told |-> x.told]

\* What a code says of the fate of the request.
TellsFate(x) ==
  /\ x.code = 503 <=> x.fate = "unanswered"
  /\ x.code = 504 => x.fate \in {"overloaded", "dbError"}
  /\ x.code = 200 => x.fate = "answered"

\* What the HSS makes of the message m is the question q.
Understood(q, m) ==
  LET authType(avp) == CASE avp = "DE_REGISTRATION" -> "DEREG"
                         [] avp = "REGISTRATION_AND_CAPABILITIES" -> "CAPAB"
                         [] OTHER -> "REG"
  IN /\ m.DESTINATION_REALM = "realm"
     /\ m.DESTINATION_HOST = IF DestHost = Empty THEN Absent ELSE DestHost
     /\ RequestOf(q.kind) = "MAR" =>
          /\ m.SERVER_NAME = IF q.server = Empty THEN "configured" ELSE q.server
          /\ m.SIP_AUTH_SCHEME = "Unknown" <=> q.kind = "av" /\ q.file = "av"
          /\ m.SIP_AUTH_SCHEME \in {"AKAV1", "AKAV2"} <=>
               q.kind = "av" /\ q.file \in {"aka", "aka2"}
          /\ m.SIP_AUTHORIZATION = IF q.kind = "av" /\ q.authorization = "base64 auts"
                                   THEN "auts" ELSE Absent
     /\ q.kind = "status" =>
          /\ authType(m.USER_AUTHORIZATION_TYPE) = IF q.type = Empty THEN "REG" ELSE q.type
          /\ m.VISITED_NETWORK_IDENTIFIER = IF q.network = Empty THEN "home" ELSE q.network
          /\ m.UAR_FLAGS # Absent <=> q.sos
     /\ q.kind = "location" =>
          /\ m.ORIGINATING_REQUEST # Absent <=> q.originating = "true"
          /\ authType(m.USER_AUTHORIZATION_TYPE) = "CAPAB" <=> q.type = "CAPAB"

\* What Sprout is told is what the HSS, or the database's row, has said.
Tells(kind, heard, told) ==
  LET fact == heard.fact  scheme == heard.scheme
      qop == IF fact.qop = Empty THEN "auth" ELSE fact.qop
      digest == [ha1 |-> "ha1", realm |-> "realm", qop |-> qop]
      aka == [challenge |-> <<"base64", "rand">>, response |-> <<"hex", "res">>,
              crypt_key |-> <<"hex", "ck">>, integrity_key |-> <<"hex", "ik">>,
              version |-> IF scheme = "AKAV2" THEN 2 ELSE 1]
  IN IF hss = "diameter"
     THEN IF kind = "digest" THEN told = [digest_ha1 |-> "ha1"]
          ELSE IF kind = "av"
            THEN told = IF scheme = "DIGEST" THEN [digest |-> digest] ELSE [aka |-> aka]
          ELSE /\ told.scscf = IF fact.by = "capabilities" THEN Empty ELSE "assigned"
               /\ told.needs = Nothing <=> fact.by = "name"
               /\ kind = "location" => told.wildcard = fact.wildcard
     ELSE RequestOf(kind) = "MAR" =>
            /\ HasColumn(heard.row, "public_id_")
            /\ HasColumn(heard.row, "digest_ha1")

TaskInv(x) ==
  /\ IsRecord(x) /\ IsTask(x)
  /\ x.replies = IF x.pc = "gone" THEN 1 ELSE 0
  /\ x.pc # "gone" => x.code = 0
  /\ x.pc = "gone" => TellsFate(x)
  /\ x.sent # Nothing => Understood(x.req, x.sent)

ToldInv(x) == x.code = 200 /\ x.heard # Nothing => Tells(x.req.kind, x.heard, x.told)

Penalised == {t \in Tasks : task[t].code = 504}
Passed == {t \in Tasks : task[t].req.kind = "status" /\ task[t].code = 200}

IndInv ==
  /\ hss \in {"diameter", "hsprov"}
  /\ DOMAIN task = Tasks /\ task = [t \in Tasks |-> task[t]]
  /\ \A t \in Tasks : TaskInv(task[t]) /\ ToldInv(task[t])
  /\ penalties = Cardinality(Penalised) /\ passes = Cardinality(Passed)

-----------------------------------------------------------------------------
(* Requests and replies.                                                   *)

\* Each kind of question has its Diameter request.
LEMMA Kinds ==
  ASSUME NEW q \in Questions
  PROVE  /\ q.kind \in {"digest", "av", "status", "location"}
         /\ RequestOf(q.kind) \in {"MAR", "UAR", "LIR"}
         /\ RequestOf(q.kind) = "MAR" <=> q.kind \in {"digest", "av"}
<1>1. q.kind \in {"digest", "av", "status", "location"}
  BY HssTasksAssumption DEF HttpRequests
<1> QED BY <1>1 DEF RequestOf

\* A reply has a body, which is not the absence of one.
LEMMA Bodies ==
  /\ \A v : [digest_ha1 |-> v] # Nothing
  /\ \A v : [digest |-> v] # Nothing
  /\ \A v : [aka |-> v] # Nothing
  /\ \A v1, v2, v3, v4 : [result |-> v1, scscf |-> v2, needs |-> v3, wildcard |-> v4] # Nothing
<1>1. DOMAIN Nothing = {}
  BY DEF Nothing
<1> QED BY <1>1

\* A reply with a vector has a body.
LEMMA VectorBody == ASSUME NEW kind, NEW scheme, NEW av PROVE VectorReply(kind, scheme, av) # Nothing
BY Bodies DEF VectorReply, AvReply

\* So has one with a server name or capabilities.
LEMMA PlaceBody ==
  ASSUME NEW r, NEW s, NEW c, NEW w PROVE PlaceReply(r, s, c, w) # Nothing
<1> DEFINE scscf == IF s # Empty THEN s ELSE c.server_name
           needs == IF s # Empty THEN Nothing ELSE <<c.mandatory, c.optional>>
<1>1. PlaceReply(r, s, c, w) = [result |-> r, scscf |-> scscf, needs |-> needs, wildcard |-> w]
  BY DEF PlaceReply
<1> HIDE DEF scscf, needs
<1> QED BY <1>1, Bodies

\* The codes of the response handlers.
LEMMA Codes ==
  ASSUME NEW q \in Questions, NEW rc \in ResultCodes, NEW scheme
  PROVE  LET code == Code(q.kind, rc, scheme) IN
         /\ code \in {200, 403, 404, 500, 503, 504}
         /\ code = 503 <=> rc = "SERVER_UNAVAILABLE"
         /\ code = 504 <=> rc = "TIMEOUT"
         /\ code = 200 => rc = "SUCCESS"
         /\ q.kind = "status" => (code = 200 <=> rc = "SUCCESS")
<1>1. CASE q.kind \in {"digest", "av"}
  <2>1. Code(q.kind, rc, scheme) = MarCode(q.kind, rc, scheme)
    BY <1>1 DEF Code
  <2> QED BY <1>1, <2>1 DEF MarCode, ResultCodes
<1>2. CASE q.kind = "status"
  <2>1. Code(q.kind, rc, scheme) = UarCode(rc)
    BY <1>2 DEF Code
  <2> QED BY <1>2, <2>1 DEF UarCode, ResultCodes
<1>3. CASE q.kind = "location"
  <2>1. Code(q.kind, rc, scheme) = LirCode(rc)
    BY <1>3 DEF Code
  <2> QED BY <1>3, <2>1 DEF LirCode, ResultCodes
<1> QED BY <1>1, <1>2, <1>3, Kinds

-----------------------------------------------------------------------------
(* The steps.                                                              *)

\* Only task t changes.
LEMMA OneTask ==
  ASSUME IndInv, NEW t \in Tasks, NEW y, task' = [task EXCEPT ![t] = y]
  PROVE  /\ DOMAIN task' = Tasks /\ task' = [u \in Tasks |-> task'[u]] /\ task'[t] = y
         /\ \A u \in Tasks : u # t => task'[u] = task[u]
BY DEF IndInv

\* The fields of a task that has replied.
LEMMA ReplyFields ==
  ASSUME NEW x, IsRecord(x), x.replies = 0, NEW code, NEW fate, NEW heard, NEW reply
  PROVE  Replied(x, code, fate, heard, reply)
         = [req |-> x.req, pc |-> "gone", replies |-> 1, code |-> code, fate |-> fate,
            sent |-> x.sent, heard |-> IF code = 200 THEN heard ELSE Nothing,
            told |-> IF code = 200 THEN reply ELSE Nothing]
<1> DEFINE h == IF code = 200 THEN heard ELSE Nothing
           r == IF code = 200 THEN reply ELSE Nothing
           x1 == [x EXCEPT !.pc = "gone"]
           x2 == [x1 EXCEPT !.replies = 1]
           x3 == [x2 EXCEPT !.code = code]
           x4 == [x3 EXCEPT !.fate = fate]
           x5 == [x4 EXCEPT !.heard = h]
           x6 == [x5 EXCEPT !.told = r]
           R(pc, n, c, f, he, to) ==
             [req |-> x.req, pc |-> pc, replies |-> n, code |-> c, fate |-> f,
              sent |-> x.sent, heard |-> he, told |-> to]
<1>1. x = R(x.pc, 0, x.code, x.fate, x.heard, x.told)
  BY DEF IsRecord
<1>2. x1 = R("gone", 0, x.code, x.fate, x.heard, x.told)
  BY <1>1
<1> HIDE DEF x1, h, r
<1>3. x2 = R("gone", 1, x.code, x.fate, x.heard, x.told)
  BY <1>2
<1> HIDE DEF x2
<1>4. x3 = R("gone", 1, code, x.fate, x.heard, x.told)
  BY <1>3
<1> HIDE DEF x3
<1>5. x4 = R("gone", 1, code, fate, x.heard, x.told)
  BY <1>4
<1> HIDE DEF x4
<1>6. x5 = R("gone", 1, code, fate, h, x.told)
  BY <1>5
<1> HIDE DEF x5
<1>7. x6 = R("gone", 1, code, fate, h, r)
  BY <1>6
<1>8. x.replies + 1 = 1
  OBVIOUS
<1>9. Replied(x, code, fate, heard, reply) = x6
  BY <1>8, Zenon DEF Replied, x1, x2, x3, x4, x5, h, r
<1> HIDE DEF x6
<1> QED BY <1>7, <1>9 DEF h, r

\* One more task among those that the monitors have heard of, or not.
LEMMA Counts ==
  ASSUME NEW S \in SUBSET Tasks, NEW t \in Tasks, t \notin S, NEW more \in BOOLEAN
  PROVE  Cardinality(IF more THEN S \cup {t} ELSE S) = Cardinality(S) + (IF more THEN 1 ELSE 0)
<1>1. IsFiniteSet(S)
  BY FS_Subset, HssTasksAssumption
<1>2. Cardinality(S \cup {t}) = Cardinality(S) + 1
  BY <1>1, FS_AddElement
<1>3. Cardinality(S) \in Nat
  BY <1>1, FS_CardinalityType
<1> QED BY <1>2, <1>3

\* A callback with a result that matches the fate of the request.
LEMMA RespondStep ==
  ASSUME IndInv, NEW t \in Tasks, task[t].pc # "gone",
         NEW rc \in ResultCodes, NEW scheme, NEW fate \in Fates, NEW heard, NEW reply,
         Respond(t, rc, scheme, fate, heard, reply), UNCHANGED hss,
         rc = "SERVER_UNAVAILABLE" <=> fate = "unanswered",
         rc = "TIMEOUT" => fate \in {"overloaded", "dbError"},
         rc = "SUCCESS" => fate = "answered",
         Code(task[t].req.kind, rc, scheme) = 200 =>
           reply # Nothing /\ (heard = Nothing \/ Tells(task[t].req.kind, heard, reply))
  PROVE  IndInv'
<1> DEFINE x == task[t]
           code == Code(x.req.kind, rc, scheme)
           y == Replied(x, code, fate, heard, reply)
<1>1. TaskInv(x) /\ x.req \in Questions /\ x.replies = 0 /\ x.code = 0
  BY DEF IndInv, TaskInv, IsTask
<1>2. /\ code \in {200, 403, 404, 500, 503, 504}
      /\ code = 503 <=> rc = "SERVER_UNAVAILABLE"
      /\ code = 504 <=> rc = "TIMEOUT"
      /\ code = 200 => rc = "SUCCESS"
      /\ x.req.kind = "status" => (code = 200 <=> rc = "SUCCESS")
  <2>1. x.req \in Questions
    BY <1>1
  <2> HIDE DEF x
  <2> QED BY <2>1, Codes
<1>3. /\ task' = [task EXCEPT ![t] = y]
      /\ penalties' = penalties + (IF rc = "TIMEOUT" THEN 1 ELSE 0)
      /\ passes' = passes + (IF x.req.kind = "status" /\ rc = "SUCCESS" THEN 1 ELSE 0)
  BY DEF Respond
<1> HIDE DEF code
<1>4. y = [req |-> x.req, pc |-> "gone", replies |-> 1, code |-> code, fate |-> fate,
           sent |-> x.sent, heard |-> IF code = 200 THEN heard ELSE Nothing,
           told |-> IF code = 200 THEN reply ELSE Nothing]
  BY <1>1, ReplyFields DEF TaskInv
<1> HIDE DEF y
<1>5. /\ y.req = x.req /\ y.pc = "gone" /\ y.replies = 1 /\ y.code = code /\ y.fate = fate
      /\ y.told = IF code = 200 THEN reply ELSE Nothing
      /\ y.heard = IF code = 200 THEN heard ELSE Nothing
      /\ y.sent = x.sent
  BY <1>4
<1>6. IsRecord(y)
  BY <1>4 DEF IsRecord
<1>7. TaskInv(y)
  <2>1. y.code # 200 <=> y.told = Nothing
    BY <1>5 DEF code
  <2>2. IsTask(y)
    BY <1>1, <1>2, <1>5, <2>1 DEF IsTask
  <2>3. TellsFate(y)
    BY <1>2, <1>5 DEF TellsFate
  <2> QED BY <1>1, <1>5, <1>6, <2>2, <2>3 DEF TaskInv
<1>8. ToldInv(y)
  BY <1>5 DEF ToldInv, code
<1>9. /\ DOMAIN task' = Tasks /\ task' = [u \in Tasks |-> task'[u]] /\ task'[t] = y
      /\ \A u \in Tasks : u # t => task'[u] = task[u]
  BY <1>3, OneTask
<1>10. \A u \in Tasks : TaskInv(task'[u]) /\ ToldInv(task'[u])
  BY <1>7, <1>8, <1>9 DEF IndInv
<1>11. \A u \in Tasks : ToldInv(task[u])'
  BY <1>10 DEF ToldInv, Tells
<1>12. penalties' = Cardinality(Penalised')
  <2>1. Penalised' = IF code = 504 THEN Penalised \cup {t} ELSE Penalised
    BY <1>1, <1>5, <1>9 DEF Penalised
  <2>2. Penalised \in SUBSET Tasks /\ t \notin Penalised
    BY <1>1 DEF Penalised
  <2>3. Cardinality(Penalised') = penalties + (IF code = 504 THEN 1 ELSE 0)
    BY <2>1, <2>2, Counts DEF IndInv
  <2> QED BY <1>2, <1>3, <2>3
<1>13. passes' = Cardinality(Passed')
  <2> DEFINE more == x.req.kind = "status" /\ code = 200
  <2>1. Passed' = IF more THEN Passed \cup {t} ELSE Passed
    BY <1>1, <1>5, <1>9 DEF Passed
  <2>2. Passed \in SUBSET Tasks /\ t \notin Passed
    BY <1>1 DEF Passed
  <2>3. Cardinality(Passed') = passes + (IF more THEN 1 ELSE 0)
    BY <2>1, <2>2, Counts DEF IndInv
  <2>4. more <=> x.req.kind = "status" /\ rc = "SUCCESS"
    BY <1>2
  <2> QED BY <1>3, <2>3, <2>4
<1> QED BY <1>9, <1>10, <1>11, <1>12, <1>13 DEF IndInv

\* A step of task t that the monitors do not hear of.
LEMMA SilentStep ==
  ASSUME IndInv, NEW t \in Tasks, NEW y, task' = [task EXCEPT ![t] = y], TaskInv(y),
         y.req = task[t].req, y.code \notin {200, 504}, task[t].code = 0,
         UNCHANGED <<hss, penalties, passes>>
  PROVE  IndInv'
<1>1. /\ DOMAIN task' = Tasks /\ task' = [u \in Tasks |-> task'[u]] /\ task'[t] = y
      /\ \A u \in Tasks : u # t => task'[u] = task[u]
  BY OneTask, ZenonT(40)
<1>2. \A u \in Tasks : TaskInv(task'[u]) /\ ToldInv(task'[u])
  BY <1>1 DEF IndInv, ToldInv
<1>3. \A u \in Tasks : ToldInv(task[u])'
  BY <1>2 DEF ToldInv, Tells
<1>4. Penalised' = Penalised /\ Passed' = Passed
  BY <1>1 DEF Penalised, Passed
<1> QED BY <1>1, <1>2, <1>3, <1>4 DEF IndInv

\* Reject keeps the invariant.
LEMMA RejectStep == ASSUME IndInv, NEW t \in Tasks, Reject(t) PROVE IndInv'
<1> DEFINE x == task[t]  y == Replied(x, 404, "none", Nothing, Nothing)
<1>1. /\ TaskInv(x) /\ x.replies = 0 /\ x.code = 0
      /\ task' = [task EXCEPT ![t] = y] /\ UNCHANGED <<hss, penalties, passes>>
  BY DEF IndInv, TaskInv, Reject
<1>2. y = [req |-> x.req, pc |-> "gone", replies |-> 1, code |-> 404, fate |-> "none",
           sent |-> x.sent, heard |-> Nothing, told |-> Nothing]
  BY <1>1, ReplyFields DEF TaskInv
<1> HIDE DEF y
<1>3. /\ y.req = x.req /\ y.pc = "gone" /\ y.replies = 1 /\ y.code = 404 /\ y.fate = "none"
      /\ y.sent = x.sent /\ y.told = Nothing
  BY <1>2
<1>4. IsRecord(y)
  BY <1>2 DEF IsRecord
<1>5. IsTask(y) /\ TellsFate(y)
  BY <1>1, <1>3 DEF TaskInv, IsTask, Fates, TellsFate
<1>6. TaskInv(y)
  BY <1>1, <1>3, <1>4, <1>5 DEF TaskInv
<1>7. y.req = task[t].req /\ y.code \notin {200, 504} /\ task[t].code = 0
  BY <1>1, <1>3
<1> QED BY <1>1, <1>6, <1>7, SilentStep, ZenonT(40)

\* The request says what was asked.
LEMMA RequestUnderstood ==
  ASSUME NEW q \in Questions, ~Rejected(q) PROVE Understood(q, DiameterRequest(q))
<1>1. q \in HttpRequests /\ DestHost \in {Empty, "host"}
  BY HssTasksAssumption
<1>2. CASE q.kind \in {"digest", "av"}
  <2>1. /\ q.file \in {"digest", "av", "aka", "aka2", "invalid"}
        /\ q.authorization \in {Empty, "base64 auts"} /\ q.server \in {Empty, "scscf"}
    BY <1>1, <1>2 DEF HttpRequests
  <2>2. RequestOf(q.kind) = "MAR"
    BY <1>2 DEF RequestOf
  <2>3. DiameterRequest(q) =
          MultimediaAuthRequest("realm", DestHost, OrDefault(q.server, "configured"),
            SchemeOf(q), IF q.kind = "av" THEN base64_decode(q.authorization) ELSE Empty)
    BY <1>2, <2>2 DEF DiameterRequest
  <2>4. /\ SchemeOf(q) = "Unknown" <=> q.kind = "av" /\ q.file = "av"
        /\ SchemeOf(q) \in {"AKAV1", "AKAV2"} <=> q.kind = "av" /\ q.file \in {"aka", "aka2"}
    BY <1>2, <2>1 DEF SchemeOf, Rejected
  <2> DEFINE m == DiameterRequest(q)
  <2>5. /\ m.DESTINATION_REALM = "realm"
        /\ m.DESTINATION_HOST = IF DestHost = Empty THEN Absent ELSE DestHost
        /\ m.SERVER_NAME = IF q.server = Empty THEN "configured" ELSE q.server
        /\ m.SIP_AUTH_SCHEME = SchemeOf(q)
    BY <2>3 DEF MultimediaAuthRequest, AddIf, OrDefault
  <2>6. m.SIP_AUTHORIZATION = IF q.kind = "av" /\ q.authorization = "base64 auts"
                              THEN "auts" ELSE Absent
    <3> DEFINE auts == IF q.kind = "av" THEN base64_decode(q.authorization) ELSE Empty
    <3>1. m.SIP_AUTHORIZATION = IF auts # Empty THEN auts ELSE Absent
      BY <2>3 DEF MultimediaAuthRequest, AddIf
    <3>2. auts = IF q.kind = "av" /\ q.authorization = "base64 auts" THEN "auts" ELSE Empty
      BY <2>1 DEF base64_decode, Empty
    <3> QED BY <3>1, <3>2 DEF Empty
  <2>7. q.kind # "status" /\ q.kind # "location"
    BY <1>2
  <2> QED BY <2>4, <2>5, <2>6, <2>7 DEF Understood
<1>3. CASE q.kind = "status"
  <2>1. /\ q.network \in {Empty, "visited"} /\ q.type \in {Empty, "REG", "DEREG", "CAPAB"}
        /\ q.sos \in BOOLEAN
    BY <1>1, <1>3 DEF HttpRequests
  <2>2. RequestOf(q.kind) # "MAR"
    BY <1>3 DEF RequestOf
  <2>3. DiameterRequest(q) =
          UserAuthorizationRequest(DestHost, "realm", OrDefault(q.network, "home"), q.type, q.sos)
    BY <1>3, <2>2 DEF DiameterRequest
  <2> DEFINE m == DiameterRequest(q)
  <2>4. /\ m.DESTINATION_REALM = "realm"
        /\ m.DESTINATION_HOST = IF DestHost = Empty THEN Absent ELSE DestHost
        /\ m.VISITED_NETWORK_IDENTIFIER = IF q.network = Empty THEN "home" ELSE q.network
        /\ m.UAR_FLAGS = IF q.sos THEN "EMERGENCY" ELSE Absent
        /\ m.USER_AUTHORIZATION_TYPE = CASE q.type = "DEREG" -> "DE_REGISTRATION"
                                         [] q.type = "CAPAB" -> "REGISTRATION_AND_CAPABILITIES"
                                         [] OTHER            -> "REGISTRATION"
    BY <2>3 DEF UserAuthorizationRequest, AddIf, OrDefault
  <2> QED BY <1>3, <2>1, <2>2, <2>4 DEF Understood, Empty, Absent
<1>4. CASE q.kind = "location"
  <2>1. /\ q.originating \in {Empty, "true", "false"}
        /\ q.type \in {Empty, "REG", "DEREG", "CAPAB"}
    BY <1>1, <1>4 DEF HttpRequests
  <2>2. RequestOf(q.kind) # "MAR"
    BY <1>4 DEF RequestOf
  <2>3. DiameterRequest(q) = LocationInfoRequest(DestHost, "realm", q.originating, q.type)
    BY <1>4, <2>2 DEF DiameterRequest
  <2> DEFINE m == DiameterRequest(q)
  <2>4. /\ m.DESTINATION_REALM = "realm"
        /\ m.DESTINATION_HOST = IF DestHost = Empty THEN Absent ELSE DestHost
        /\ m.ORIGINATING_REQUEST = IF q.originating = "true" THEN "ORIGINATING" ELSE Absent
        /\ m.USER_AUTHORIZATION_TYPE =
             IF q.type = "CAPAB" THEN "REGISTRATION_AND_CAPABILITIES" ELSE Absent
    BY <2>3 DEF LocationInfoRequest, AddIf
  <2> QED BY <1>4, <2>1, <2>2, <2>4 DEF Understood, Empty, Absent
<1> QED BY <1>2, <1>3, <1>4, Kinds

\* Send keeps the invariant.
LEMMA SendStep == ASSUME IndInv, NEW t \in Tasks, Send(t) PROVE IndInv'
<1> DEFINE x == task[t]
           m == IF hss = "diameter" THEN DiameterRequest(x.req) ELSE Nothing
           y == [x EXCEPT !.pc = "waiting"]
           z == [y EXCEPT !.sent = m]
<1>1. /\ TaskInv(x) /\ x.req \in Questions /\ x.pc = "new" /\ x.replies = 0 /\ x.code = 0
      /\ ~Rejected(x.req) /\ UNCHANGED hss
  BY DEF IndInv, TaskInv, IsTask, Send
<1>2. CASE Respond(t, "SUCCESS", "other", "answered", Nothing, HsProvPlace)
  <2>1. HsProvPlace # Nothing
    BY PlaceBody DEF HsProvPlace
  <2>2. "SUCCESS" \in ResultCodes /\ "answered" \in Fates
    BY DEF ResultCodes, Fates
  <2> QED BY <1>1, <1>2, <2>1, <2>2, RespondStep
<1>3. CASE task' = [task EXCEPT ![t] = z] /\ UNCHANGED <<penalties, passes>>
  <2>1. m # Nothing => Understood(x.req, m)
    BY <1>1, RequestUnderstood
  <2> HIDE DEF m
  <2>2. y = [req |-> x.req, pc |-> "waiting", replies |-> 0, code |-> 0, fate |-> x.fate,
             sent |-> x.sent, heard |-> x.heard, told |-> x.told]
    BY <1>1 DEF TaskInv, IsRecord
  <2> HIDE DEF y
  <2>3. z = [req |-> x.req, pc |-> "waiting", replies |-> 0, code |-> 0, fate |-> x.fate,
             sent |-> m, heard |-> x.heard, told |-> x.told]
    BY <2>2
  <2> HIDE DEF z
  <2>4. /\ z.req = x.req /\ z.pc = "waiting" /\ z.replies = 0 /\ z.code = 0
        /\ z.fate = x.fate /\ z.sent = m /\ z.told = x.told
    BY <2>3
  <2>5. IsRecord(z)
    BY <2>3 DEF IsRecord
  <2>6. TaskInv(z)
    BY <1>1, <2>1, <2>4, <2>5 DEF TaskInv, IsTask
  <2>7. z.req = task[t].req /\ z.code \notin {200, 504} /\ task[t].code = 0
    BY <1>1, <2>4
  <2>8. task' = [task EXCEPT ![t] = z] /\ UNCHANGED <<hss, penalties, passes>>
    BY <1>1, <1>3
  <2> QED BY <2>6, <2>7, <2>8, SilentStep, ZenonT(40)
<1> QED BY <1>2, <1>3 DEF Send

-----------------------------------------------------------------------------
(* The answers.                                                            *)

\* What on_response makes of a result code.
LEMMA Results ==
  ASSUME NEW a \in Answers, NEW request \in {"MAR", "UAR", "LIR"}
  PROVE  LET rc == DiameterResult(request, a) IN
         /\ rc \in ResultCodes
         /\ rc = "SERVER_UNAVAILABLE" <=> a.result = "DIAMETER_UNABLE_TO_DELIVER"
         /\ rc = "TIMEOUT" => a.result = "DIAMETER_TOO_BUSY"
         /\ rc = "SUCCESS" => a.result \notin {"DIAMETER_UNABLE_TO_DELIVER", "DIAMETER_TOO_BUSY"}
         /\ rc = "SUCCESS" /\ request = "MAR" => a.scheme \in {"DIGEST", "AKAV1", "AKAV2"}
<1>1. /\ a.scheme \in Schemes
      /\ (a.result = "none") # (a.experimental = "none")
  BY HssTasksAssumption DEF DiameterAnswers
<1>2. CASE request = "MAR"
  <2>1. DiameterResult(request, a) = MaaResult(a)
    BY <1>2 DEF DiameterResult
  <2> QED BY <1>1, <1>2, <2>1 DEF MaaResult, Is3gpp, ResultCodes, Schemes
<1>3. CASE request = "UAR"
  <2>1. DiameterResult(request, a) = UaaResult(a)
    BY <1>3 DEF DiameterResult
  <2> QED BY <1>1, <1>3, <2>1 DEF UaaResult, ResultCodes
<1>4. CASE request = "LIR"
  <2>1. DiameterResult(request, a) = LiaResult(a)
    BY <1>4 DEF DiameterResult
  <2> QED BY <1>1, <1>4, <2>1 DEF LiaResult, Is3gpp, ResultCodes
<1> QED BY <1>2, <1>3, <1>4

\* A vector comes out of the AVPs as the HSS put it in.
LEMMA DigestTold ==
  ASSUME NEW fact \in Vectors
  PROVE  LET v == digest_auth_vector(AvpsOf(fact)) IN
         v = [ha1 |-> "ha1", realm |-> "realm", qop |-> fact.qop]
<1> DEFINE m == AvpsOf(fact)
           as(dialect, mine, value) == IF dialect = mine THEN value ELSE Absent
           qop == IF fact.qop = Empty THEN Absent ELSE fact.qop
<1>1. /\ fact.ha1As \in {"3GPP", "other"} /\ fact.realmAs \in {"3GPP", "other"}
      /\ fact.qopAs \in {"3GPP", "other"} /\ fact.qop \in {Empty, "auth-int"}
  BY DEF Vectors, Dialects
<1>2. /\ m.CX_DIGEST_HA1 = as("3GPP", fact.ha1As, "ha1")
      /\ m.DIGEST_HA1 = as("other", fact.ha1As, "ha1")
      /\ m.CX_DIGEST_REALM = as("3GPP", fact.realmAs, "realm")
      /\ m.DIGEST_REALM = as("other", fact.realmAs, "realm")
      /\ m.CX_DIGEST_QOP = as("3GPP", fact.qopAs, qop)
      /\ m.DIGEST_QOP = as("other", fact.qopAs, qop)
  BY DEF AvpsOf
<1> HIDE DEF m
<1>3. EitherAvp(m.CX_DIGEST_HA1, m.DIGEST_HA1) = "ha1"
  BY <1>1, <1>2 DEF EitherAvp, ValueOf, Absent
<1>4. EitherAvp(m.CX_DIGEST_REALM, m.DIGEST_REALM) = "realm"
  BY <1>1, <1>2 DEF EitherAvp, ValueOf, Absent
<1>5. EitherAvp(m.CX_DIGEST_QOP, m.DIGEST_QOP) = fact.qop
  BY <1>1, <1>2 DEF EitherAvp, ValueOf, Absent, Empty
<1>6. digest_auth_vector(m) = [ha1 |-> "ha1", realm |-> "realm", qop |-> fact.qop]
  BY <1>3, <1>4, <1>5 DEF digest_auth_vector
<1> QED BY <1>6 DEF m

\* An AKA vector reaches Sprout in base64 and hex, with its version.
LEMMA AkaTold ==
  ASSUME NEW fact \in Vectors
  PROVE  LET v(n) == [challenge |-> <<"base64", "rand">>, response |-> <<"hex", "res">>,
                      crypt_key |-> <<"hex", "ck">>, integrity_key |-> <<"hex", "ik">>,
                      version |-> n]
         IN /\ aka_auth_vector(AvpsOf(fact)) = v(1)
            /\ akav2_auth_vector(AvpsOf(fact)) = v(2)
<1> DEFINE m == AvpsOf(fact)
           v(n) == [challenge |-> <<"base64", "rand">>, response |-> <<"hex", "res">>,
                    crypt_key |-> <<"hex", "ck">>, integrity_key |-> <<"hex", "ik">>,
                    version |-> n]
<1>1. /\ m.SIP_AUTHENTICATE = "rand" /\ m.SIP_AUTHORIZATION = "res"
      /\ m.CONFIDENTIALITY_KEY = "ck" /\ m.INTEGRITY_KEY = "ik"
  BY DEF AvpsOf
<1> HIDE DEF m
<1>2. aka_auth_vector(m) = v(1)
  BY <1>1 DEF aka_auth_vector, Encoded, Absent
<1>3. [v(1) EXCEPT !.version = 2] = v(2)
  OBVIOUS
<1>4. akav2_auth_vector(m) = v(2)
  BY <1>2, <1>3 DEF akav2_auth_vector
<1> QED BY <1>2, <1>4 DEF m

\* The reply to a MAR that the HSS has answered.
LEMMA VectorTold ==
  ASSUME hss = "diameter", NEW kind \in {"digest", "av"}, NEW a, NEW fact \in Vectors,
         a.scheme \in {"DIGEST", "AKAV1", "AKAV2"}, Code(kind, "SUCCESS", a.scheme) = 200
  PROVE  LET reply == DiameterReply(kind, a, AvpsOf(fact)) IN
         /\ reply # Nothing
         /\ Tells(kind, [scheme |-> a.scheme, fact |-> fact], reply)
<1> DEFINE m == AvpsOf(fact)
           av == CASE a.scheme = "DIGEST" -> digest_auth_vector(m)
                   [] a.scheme = "AKAV1"  -> aka_auth_vector(m)
                   [] a.scheme = "AKAV2"  -> akav2_auth_vector(m)
           reply == DiameterReply(kind, a, m)
           digest(qop) == [ha1 |-> "ha1", realm |-> "realm", qop |-> qop]
           aka(n) == [challenge |-> <<"base64", "rand">>, response |-> <<"hex", "res">>,
                      crypt_key |-> <<"hex", "ck">>, integrity_key |-> <<"hex", "ik">>,
                      version |-> n]
           heard == [scheme |-> a.scheme, fact |-> fact]
<1>1. reply = VectorReply(kind, a.scheme, av)
  BY DEF DiameterReply, RequestOf
<1>2. kind = "digest" => a.scheme = "DIGEST"
  BY DEF Code, MarCode
<1>3. heard.fact = fact /\ heard.scheme = a.scheme
  OBVIOUS
<1> HIDE DEF heard
<1>4. CASE a.scheme = "DIGEST"
  <2>1. av = digest(fact.qop)
    BY <1>4, DigestTold
  <2>2. av.ha1 = "ha1"
    BY <2>1
  <2>3. [av EXCEPT !.qop = IF @ = Empty THEN "auth" ELSE @]
        = digest(IF fact.qop = Empty THEN "auth" ELSE fact.qop)
    BY <2>1
  <2> HIDE DEF av, digest
  <2>4. reply = IF kind = "digest" THEN [digest_ha1 |-> "ha1"]
                ELSE [digest |-> digest(IF fact.qop = Empty THEN "auth" ELSE fact.qop)]
    BY <1>1, <1>4, <2>2, <2>3 DEF VectorReply, AvReply
  <2> HIDE DEF reply
  <2>5. Tells(kind, heard, reply)
    BY <1>3, <1>4, <2>4 DEF Tells, digest
  <2> QED BY <2>5, <1>1, VectorBody DEF heard, reply
<1>5. CASE a.scheme \in {"AKAV1", "AKAV2"}
  <2>1. av = aka(IF a.scheme = "AKAV2" THEN 2 ELSE 1)
    BY <1>5, AkaTold
  <2> HIDE DEF av, aka
  <2>2. kind = "av" /\ reply = [aka |-> aka(IF a.scheme = "AKAV2" THEN 2 ELSE 1)]
    BY <1>1, <1>2, <1>5, <2>1 DEF VectorReply, AvReply
  <2> HIDE DEF reply
  <2>3. Tells(kind, heard, reply)
    BY <1>3, <1>5, <2>2 DEF Tells, aka
  <2> QED BY <2>3, <1>1, VectorBody DEF heard, reply
<1> QED BY <1>4, <1>5

\* The reply to a UAR or a LIR that the HSS has answered.
LEMMA PlaceTold ==
  ASSUME hss = "diameter", NEW kind \in {"status", "location"}, NEW a,
         NEW fact \in Places, fact \notin Vectors
  PROVE  LET reply == DiameterReply(kind, a, AvpsOf(fact)) IN
         /\ reply # Nothing
         /\ Tells(kind, [scheme |-> a.scheme, fact |-> fact], reply)
<1> DEFINE m == AvpsOf(fact)
           result == IF a.result # "none" THEN a.result ELSE a.experimental
           server == ValueOf(m.SERVER_NAME)
           capabilities == IF m.SERVER_NAME = Absent THEN server_capabilities(m) ELSE NoCapabilities
           wildcard == IF kind = "location" THEN ValueOf(m.WILDCARDED_PUBLIC_IDENTITY) ELSE Empty
           reply == DiameterReply(kind, a, m)
           heard == [scheme |-> a.scheme, fact |-> fact]
<1>1. /\ fact.by \in {"name", "capability", "capabilities"}
      /\ fact.wildcard \in {Empty, "wildcard"}
  BY DEF Places
<1>2. /\ m.SERVER_NAME = IF "name" = fact.by THEN "assigned" ELSE Absent
      /\ m.MANDATORY_CAPABILITY = <<"m">> /\ m.OPTIONAL_CAPABILITY = <<"o">>
      /\ m.CAPABILITIES_SERVER_NAME = IF "capability" = fact.by THEN "assigned" ELSE Absent
      /\ m.WILDCARDED_PUBLIC_IDENTITY = IF fact.wildcard = Empty THEN Absent ELSE fact.wildcard
  BY DEF AvpsOf
<1>3. reply = PlaceReply(result, server, capabilities, wildcard)
  BY DEF DiameterReply, RequestOf
<1>4. heard.fact = fact
  OBVIOUS
<1> HIDE DEF m, result, reply, heard
<1>5. /\ server = IF fact.by = "name" THEN "assigned" ELSE Empty
      /\ fact.by # "name" => m.SERVER_NAME = Absent
      /\ ValueOf(m.CAPABILITIES_SERVER_NAME)
           = IF fact.by = "capability" THEN "assigned" ELSE Empty
      /\ kind = "location" => wildcard = fact.wildcard
  BY <1>1, <1>2 DEF ValueOf, Absent, Empty
<1>6. fact.by # "name" =>
        /\ capabilities.mandatory = <<"m">> /\ capabilities.optional = <<"o">>
        /\ capabilities.server_name = IF fact.by = "capability" THEN "assigned" ELSE Empty
  BY <1>2, <1>5 DEF server_capabilities
<1> HIDE DEF server, capabilities, wildcard
<1>7. /\ reply.scscf = IF server # Empty THEN server ELSE capabilities.server_name
      /\ reply.needs = IF server # Empty THEN Nothing
                       ELSE <<capabilities.mandatory, capabilities.optional>>
      /\ reply.wildcard = wildcard
  BY <1>3 DEF PlaceReply
<1>8. <<capabilities.mandatory, capabilities.optional>> # Nothing
  BY DEF Nothing
<1>9. Tells(kind, heard, reply)
  BY <1>1, <1>4, <1>5, <1>6, <1>7, <1>8 DEF Tells, Empty
<1>10. reply # Nothing
  BY <1>3, PlaceBody
<1> QED BY <1>9, <1>10 DEF heard, reply, m

\* OnResponse keeps the invariant.
LEMMA OnResponseStep ==
  ASSUME IndInv, NEW t \in Tasks, NEW a \in Answers, NEW fact \in Facts, OnResponse(t, a, fact)
  PROVE  IndInv'
<1> DEFINE k == task[t].req.kind
           fate == CASE a.result = "DIAMETER_UNABLE_TO_DELIVER" -> "unanswered"
                     [] a.result = "DIAMETER_TOO_BUSY" -> "overloaded"
                     [] OTHER -> "answered"
           rc == DiameterResult(RequestOf(k), a)
           heard == [scheme |-> a.scheme, fact |-> fact]
           reply == IF rc = "SUCCESS" THEN DiameterReply(k, a, AvpsOf(fact)) ELSE Nothing
<1>1. /\ hss = "diameter" /\ task[t].pc = "waiting" /\ UNCHANGED hss
      /\ (fact \in Vectors <=> RequestOf(k) = "MAR")
      /\ Respond(t, rc, a.scheme, fate, heard, reply)
  BY DEF OnResponse
<1>2. task[t].req \in Questions
  BY DEF IndInv, TaskInv, IsTask
<1>3. /\ k \in {"digest", "av", "status", "location"}
      /\ RequestOf(k) \in {"MAR", "UAR", "LIR"}
      /\ RequestOf(k) = "MAR" <=> k \in {"digest", "av"}
  BY <1>2, Kinds
<1>4. /\ rc \in ResultCodes
      /\ rc = "SERVER_UNAVAILABLE" <=> a.result = "DIAMETER_UNABLE_TO_DELIVER"
      /\ rc = "TIMEOUT" => a.result = "DIAMETER_TOO_BUSY"
      /\ rc = "SUCCESS" => a.result \notin {"DIAMETER_UNABLE_TO_DELIVER", "DIAMETER_TOO_BUSY"}
      /\ rc = "SUCCESS" /\ RequestOf(k) = "MAR" => a.scheme \in {"DIGEST", "AKAV1", "AKAV2"}
  BY <1>3, Results
<1>5. /\ fate \in Fates /\ (fate = "unanswered" <=> a.result = "DIAMETER_UNABLE_TO_DELIVER")
      /\ a.result = "DIAMETER_TOO_BUSY" => fate = "overloaded"
      /\ a.result \notin {"DIAMETER_UNABLE_TO_DELIVER", "DIAMETER_TOO_BUSY"} => fate = "answered"
  BY DEF Fates
<1>6. ASSUME Code(k, rc, a.scheme) = 200
      PROVE  reply # Nothing /\ Tells(k, heard, reply)
  <2>1. rc = "SUCCESS"
    BY <1>2, <1>4, <1>6, Codes
  <2>2. CASE RequestOf(k) = "MAR"
    <3>1. /\ fact \in Vectors /\ k \in {"digest", "av"} /\ Code(k, "SUCCESS", a.scheme) = 200
          /\ a.scheme \in {"DIGEST", "AKAV1", "AKAV2"}
      BY <1>1, <1>3, <1>4, <1>6, <2>1, <2>2
    <3>2. reply = DiameterReply(k, a, AvpsOf(fact))
      BY <2>1
    <3> HIDE DEF k, rc
    <3>3. /\ DiameterReply(k, a, AvpsOf(fact)) # Nothing
          /\ Tells(k, heard, DiameterReply(k, a, AvpsOf(fact)))
      BY <1>1, <3>1, VectorTold
    <3> QED BY <3>2, <3>3
  <2>3. CASE RequestOf(k) # "MAR"
    <3>1. fact \in Places /\ fact \notin Vectors /\ k \in {"status", "location"}
      BY <1>1, <1>3, <2>3, HssTasksAssumption
    <3>2. reply = DiameterReply(k, a, AvpsOf(fact))
      BY <2>1
    <3> HIDE DEF k, rc
    <3>3. /\ DiameterReply(k, a, AvpsOf(fact)) # Nothing
          /\ Tells(k, heard, DiameterReply(k, a, AvpsOf(fact)))
      BY <1>1, <3>1, PlaceTold
    <3> QED BY <3>2, <3>3
  <2> QED BY <2>2, <2>3
<1> HIDE DEF fate, rc, heard, reply
<1>7. /\ rc = "SERVER_UNAVAILABLE" <=> fate = "unanswered"
      /\ rc = "TIMEOUT" => fate \in {"overloaded", "dbError"}
      /\ rc = "SUCCESS" => fate = "answered"
  BY <1>4, <1>5
<1>8. Code(task[t].req.kind, rc, a.scheme) = 200 =>
        reply # Nothing /\ (heard = Nothing \/ Tells(task[t].req.kind, heard, reply))
  BY <1>6
<1>9. task[t].pc # "gone" /\ rc \in ResultCodes /\ fate \in Fates
  BY <1>1, <1>4, <1>5
<1> QED BY <1>1, <1>7, <1>8, <1>9, RespondStep

\* OnTimeout keeps the invariant.
LEMMA OnTimeoutStep == ASSUME IndInv, NEW t \in Tasks, OnTimeout(t) PROVE IndInv'
<1>1. /\ task[t].pc # "gone" /\ UNCHANGED hss
      /\ Respond(t, "SERVER_UNAVAILABLE", "other", "unanswered", Nothing, Nothing)
  BY DEF OnTimeout, TimeoutResult
<1>2. "SERVER_UNAVAILABLE" \in ResultCodes /\ "unanswered" \in Fates
  BY DEF ResultCodes, Fates
<1>3. task[t].req \in Questions
  BY DEF IndInv, TaskInv, IsTask
<1>4. Code(task[t].req.kind, "SERVER_UNAVAILABLE", "other") # 200
  BY <1>2, <1>3, Codes
<1> QED BY <1>1, <1>2, <1>4, RespondStep

\* A digest comes only from a row with the public ID and a password.
LEMMA RowTold ==
  ASSUME NEW row
  PROVE  LET get == GetAuthVector(row) IN
         /\ get.result \in {"OK", "NOT_FOUND"}
         /\ get.result = "OK" => HasColumn(row, "public_id_") /\ HasColumn(row, "digest_ha1")
<1> DEFINE av == [ha1 |-> Column(row, "digest_ha1"), realm |-> Column(row, "digest_realm"),
                  qop |-> Column(row, "digest_qop")]
           get == GetAuthVector(row)
<1>1. get.result = IF HasColumn(row, "public_id_") /\ Column(row, "digest_ha1") # Empty
                   THEN "OK" ELSE "NOT_FOUND"
  <2>1. get.result = IF HasColumn(row, "public_id_") /\ av.ha1 # Empty
                     THEN "OK" ELSE "NOT_FOUND"
    BY DEF GetAuthVector
  <2>2. av.ha1 = Column(row, "digest_ha1")
    OBVIOUS
  <2> QED BY <2>1, <2>2
<1>2. ~HasColumn(row, "digest_ha1") => Column(row, "digest_ha1") = Empty
  BY DEF HasColumn, Column
<1> QED BY <1>1, <1>2

\* OnCassandraResult keeps the invariant.
LEMMA OnCassandraResultStep ==
  ASSUME IndInv, NEW t \in Tasks, NEW r \in CassandraResults, NEW row \in Rows,
         OnCassandraResult(t, r, row)
  PROVE  IndInv'
<1> DEFINE k == task[t].req.kind
           get == GetAuthVector(row)
           found == IF RequestOf(k) = "MAR" /\ r = "OK" THEN get.result ELSE r
           rc == HsProvResult(found)
           fate == IF found = "other" THEN "dbError" ELSE "answered"
           heard == [row |-> row]
           reply == IF RequestOf(k) = "MAR" THEN VectorReply(k, "DIGEST", get.av) ELSE HsProvPlace
<1>1. /\ hss = "hsprov" /\ task[t].pc = "waiting" /\ UNCHANGED hss
      /\ Respond(t, rc, "DIGEST", fate, heard, reply)
  BY DEF OnCassandraResult
<1>2. task[t].req \in Questions
  BY DEF IndInv, TaskInv, IsTask
<1>3. /\ get.result \in {"OK", "NOT_FOUND"}
      /\ get.result = "OK" => HasColumn(row, "public_id_") /\ HasColumn(row, "digest_ha1")
  BY RowTold
<1>4. heard.row = row
  OBVIOUS
<1>5. reply # Nothing
  BY VectorBody, PlaceBody DEF HsProvPlace
<1> HIDE DEF get, heard, reply
<1>6. found \in {"OK", "NOT_FOUND", "other"}
  BY <1>3 DEF CassandraResults
<1>7. /\ rc \in ResultCodes /\ fate \in Fates
      /\ rc # "SERVER_UNAVAILABLE" /\ fate # "unanswered"
      /\ (rc = "TIMEOUT" => fate = "dbError") /\ (rc = "SUCCESS" => fate = "answered")
      /\ (rc = "SUCCESS" => found = "OK")
  <2> HIDE DEF found
  <2> QED BY <1>6 DEF HsProvResult, ResultCodes, Fates
<1>8. ASSUME Code(k, rc, "DIGEST") = 200 PROVE Tells(k, heard, reply)
  <2>1. rc = "SUCCESS"
    BY <1>2, <1>7, <1>8, Codes, SMTT(40)
  <2>2. found = "OK"
    BY <1>7, <2>1
  <2>3. RequestOf(k) = "MAR" => get.result = "OK"
    BY <1>6, <2>2
  <2> HIDE DEF rc, found
  <2> QED BY <1>1, <1>3, <1>4, <2>3 DEF Tells
<1> HIDE DEF rc, fate, found
<1>9. task[t].pc # "gone"
  BY <1>1
<1> QED BY <1>1, <1>5, <1>7, <1>8, <1>9, RespondStep

-----------------------------------------------------------------------------
(* The invariant is inductive.                                             *)

\* The initial states satisfy the invariant.
LEMMA InitInd == Init => IndInv
<1> SUFFICES ASSUME Init PROVE IndInv
  OBVIOUS
<1>1. ASSUME NEW q \in Questions PROVE TaskInv(NewTask(q)) /\ NewTask(q).code = 0
  <2> DEFINE x == NewTask(q)
  <2>1. x = [req |-> q, pc |-> "new", replies |-> 0, code |-> 0, fate |-> "none",
             sent |-> Nothing, heard |-> Nothing, told |-> Nothing]
    BY DEF NewTask
  <2> HIDE DEF x
  <2>2. /\ x.req = q /\ x.pc = "new" /\ x.replies = 0 /\ x.code = 0 /\ x.fate = "none"
        /\ x.sent = Nothing /\ x.told = Nothing
    BY <2>1
  <2>3. IsRecord(x)
    BY <2>1 DEF IsRecord
  <2>4. IsTask(x)
    BY <2>2 DEF IsTask, Fates
  <2>5. TaskInv(x)
    BY <2>2, <2>3, <2>4 DEF TaskInv
  <2> QED BY <2>2, <2>5 DEF x
<1>2. \A t \in Tasks : TaskInv(task[t]) /\ task[t].code = 0
  BY <1>1 DEF Init
<1>3. \A t \in Tasks : ToldInv(task[t])
  BY <1>2 DEF ToldInv
<1>4. Penalised = {} /\ Passed = {}
  BY <1>2 DEF Penalised, Passed
<1>5. penalties = Cardinality(Penalised) /\ passes = Cardinality(Passed)
  BY <1>4, FS_EmptySet DEF Init
<1> QED BY <1>2, <1>3, <1>5 DEF Init, IndInv

\* Every step keeps the invariant.
LEMMA NextInd == IndInv /\ [Next]_vars => IndInv'
<1> SUFFICES ASSUME IndInv, [Next]_vars PROVE IndInv'
  OBVIOUS
<1>1. CASE Next
  BY <1>1, RejectStep, SendStep, OnResponseStep, OnTimeoutStep, OnCassandraResultStep, SMTT(40) DEF Next
<1>2. CASE UNCHANGED vars
  BY <1>2 DEF vars, IndInv, ToldInv, Tells, Penalised, Passed
<1> QED BY <1>1, <1>2

\* The invariant holds in all behaviours.
LEMMA Inductive == Spec => []IndInv
BY InitInd, NextInd, PTL DEF Spec

-----------------------------------------------------------------------------
(* The theorems.                                                           *)

\* The number of penalties and of passed health checks is a number, and every
\* task replies with a code of its handler, with a body exactly if that is 200.
THEOREM TypesKept == Spec => []TypeOK
<1>1. IndInv => TypeOK
  <2> SUFFICES ASSUME IndInv PROVE TypeOK
    OBVIOUS
  <2>1. Penalised \in SUBSET Tasks /\ Passed \in SUBSET Tasks
    BY DEF Penalised, Passed
  <2>2. penalties \in Nat /\ passes \in Nat
    BY <2>1, FS_Subset, FS_CardinalityType, HssTasksAssumption DEF IndInv
  <2> QED BY <2>2 DEF IndInv, TaskInv, TypeOK
<1> QED BY <1>1, Inductive, PTL

\* However many requests there are, and whatever the HSS or the database answers
\* to each, the code of a reply says what became of the request
\* (on_mar_response, on_uar_response, on_lir_response).
THEOREM FateIsTold == Spec => []ReplyTellsFate
<1>1. IndInv => ReplyTellsFate
  BY DEF IndInv, TaskInv, TellsFate, ReplyTellsFate
<1> QED BY <1>1, Inductive, PTL

\* The penalties and the passed health checks are as many as the requests that
\* they are recorded for, however the handlers interleave (record_penalty and
\* health_check_passed).
THEOREM Monitors == Spec => []MonitorsAreTold
<1>1. IndInv => MonitorsAreTold
  BY DEF IndInv, MonitorsAreTold, Penalised, Passed
<1> QED BY <1>1, Inductive, PTL

\* For every request Sprout may send, the HSS is asked what Sprout asked (the
\* constructors of cx.cpp and their callers).
THEOREM QuestionsHeard == Spec => []HssHearsQuestion
<1>1. IndInv => HssHearsQuestion
  BY DEF IndInv, TaskInv, Understood, HssHearsQuestion
<1> QED BY <1>1, Inductive, PTL

\* For every answer of the HSS, in any of the AVPs it may choose, and for every
\* row of the database, Sprout is told what was said (the answers of cx.cpp,
\* GetAuthVector::perform and the handlers' replies).
THEOREM AnswersHeard == Spec => []SproutHearsAnswer
<1>1. IndInv => SproutHearsAnswer
  BY DEF IndInv, ToldInv, Tells, SproutHearsAnswer
<1> QED BY <1>1, Inductive, PTL
=============================================================================
