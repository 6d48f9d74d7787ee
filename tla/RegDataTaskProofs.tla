-------------------------- MODULE RegDataTaskProofs --------------------------
(***************************************************************************)
(* Proofs about RegDataTask: the inductive invariant, what every callback  *)
(* makes of a task's state and of the cache, and what a step looks like    *)
(* from outside, for the modules that compose RegDataTask; then the        *)
(* invariant of requests that do not overlap, and the theorems on          *)
(* invariants and action properties.                                       *)
(***************************************************************************)
EXTENDS RegDataTask, TLAPS

\* Zenon proves most of the leaves below; the others name SMT.
USE ZenonT(60)

\* What a task knows at each of its steps: how often it has replied, which SAR
\* its request has led to, what it will write, and on whose word.
TaskInv(x) ==
  /\ x.replies = IF x.pc \in {"saved", "gone"} THEN 1 ELSE 0
  /\ x.req.impi # None => x.impi = x.req.impi
  /\ x.pc \notin {"new", "gone"} =>
       /\ x.req.method \in {"GET", "PUT"}
       /\ x.req.method = "PUT" => x.req.type # "UNKNOWN"
  /\ x.pc \in {"sar", "put", "del"} => x.req.method = "PUT"
  /\ x.pc \in {"sar", "put"} =>
       /\ x.req.type = "REG" =>
            /\ x.irs.reg = "REGISTERED" /\ x.sar \in {"REGISTRATION", "RE_REGISTRATION"}
            /\ x.sar = "REGISTRATION" => x.impi \in x.irs.impis
       /\ x.req.type = "CALL" =>
            x.irs.reg = "UNREGISTERED" /\ x.sar = "UNREGISTERED_USER"
       /\ x.req.type \notin {"REG", "CALL"} => x.sar = x.req.type
  /\ x.pc = "put" => x.heard = "SUCCESS" /\ Assigns(x.sar) /\ x.irs.doc.form = "good"
  /\ x.pc = "del" => /\ is_deregistration_request(x.req.type)
                     /\ x.heard \notin {"none", TimeoutResult}

\* The cache has no record of a subscriber who is not registered.
StoredInv == \A k \in PublicIds : cache[k] # None => cache[k].reg # "NOT_REGISTERED"

IndInv == TypeOK /\ StoredInv /\ \A t \in Tasks : TaskInv(task[t])

\* Requests come one after the other, and nothing but time has upset the cache.
Calm == hssConn = "diameter" /\ upsets \subseteq {"ages", "expires"}

\* The HSS has sent a document with identities for whatever it has assigned.
Parsed ==
  \A t \in Tasks : task[t].heard = "SUCCESS" /\ Assigns(task[t].sar)
                    => task[t].irs.doc.form = "good"

Agree(k) == Cached(k) => assigned[k] = cache[k].reg

\* The HSS has acted on the task's SAR, or answered it, and the cache has not
\* followed yet.
Settling(x) ==
  \/ x.pc \in {"put", "del"}
  \/ x.pc = "sar" /\ x.saa # None /\ ~is_auth_failure_request(x.sar)

\* What a task that has the cache for itself knows of the HSS and of the cache.
SerialTask(x) ==
  /\ x.pc \in {"new", "lookup"} => x.saa = None
  /\ x.pc \in {"new", "lookup", "sar"} => x.heard # "SUCCESS"
  /\ x.pc = "put" \/ (x.pc = "sar" /\ x.saa # None /\ Assigns(x.sar))
       => assigned[public_id(x)] = x.irs.reg
  /\ x.pc \in {"sar", "put"} /\ x.req.type = "CALL" => ~Cached(public_id(x))

\* Why the cache and the HSS agree between requests: they disagree only about
\* the subscriber whose task is about to write or delete the record.
SerialInv ==
  Calm => /\ \A t, u \in Busy : t = u
          /\ \A t \in Tasks : SerialTask(task[t])
          /\ Parsed => \A k \in PublicIds :
               Agree(k) \/ \E t \in Tasks : Settling(task[t]) /\ public_id(task[t]) = k

Codes == {200, 400, 404, 405, 500, 503, 504}

\* What a task has that no reply and no deletion changes.
Kept == {"req", "impi", "wildcard", "irs", "cached", "sar", "saa", "heard", "rc"}

-----------------------------------------------------------------------------
(* The operators on a task's state.                                        *)

\* No record is the mark of a missing one.
LEMMA NoneNoIrs == None \notin Irss
BY RegDataAssumption DEF RegDataConstants

\* The fields of an HTTP request.
LEMMA RequestTypes ==
  ASSUME NEW r \in HttpRequests
  PROVE  /\ r.method \in {"PUT", "GET", "POST"} /\ r.management \in BOOLEAN
         /\ r.type \in Types \cup {"UNKNOWN"} /\ r.impu \in PublicIds
         /\ r.impi \in Devices /\ r.wildcard \in PublicIds \cup {None}
BY RegDataAssumption DEF RegDataConstants

\* The identity a task is about is a public ID.
LEMMA PublicIdType == ASSUME NEW x \in TaskStates PROVE public_id(x) \in PublicIds
<1>1. x.req \in HttpRequests /\ x.wildcard \in PublicIds \cup {None}
  BY SMTT(30) DEF TaskStates
<1>2. x.req.impu \in PublicIds /\ x.req.wildcard \in PublicIds \cup {None}
  BY <1>1, RequestTypes
<1> QED BY <1>1, <1>2 DEF public_id, wildcard_id

\* The refusals' codes are codes of a reply.
LEMMA RefusalCodes == {400, 404, 405, 503, 504} \subseteq Codes
  BY SMTT(30) DEF Codes

\* A reply changes the code and the number of replies; a deletion the step.
LEMMA ReplyFields ==
  ASSUME NEW x \in TaskStates, x.replies = 0, NEW code \in Codes
  PROVE  LET y == send_http_reply(x, code) IN
         /\ y \in TaskStates /\ y.replies = 1 /\ y.code = code /\ y.pc = x.pc
         /\ \A f \in Kept : y[f] = x[f]
<1> DEFINE y == [x EXCEPT !.code = code]
           z == [y EXCEPT !.replies = 1]
<1>1. y \in TaskStates /\ y.replies = 0 /\ y.code = code /\ y.pc = x.pc
  BY SMTT(30) DEF TaskStates, Codes
<1>2. \A f \in Kept : y[f] = x[f]
  BY SMTT(30) DEF TaskStates, Kept
<1>3. send_http_reply(x, code) = [y EXCEPT !.replies = x.replies + 1]
  BY DEF send_http_reply, TaskStates
<1>4. send_http_reply(x, code) = z
  BY SMTT(30), <1>3
<1> HIDE DEF y
<1>5. z \in TaskStates /\ z.replies = 1 /\ z.code = code /\ z.pc = x.pc
  BY SMTT(30), <1>1 DEF TaskStates
<1>6. \A f \in Kept : z[f] = x[f]
  BY SMTT(30), <1>1, <1>2 DEF TaskStates, Kept
<1> QED BY <1>4, <1>5, <1>6

\* A deleted task keeps its fields.
LEMMA DeleteFields ==
  ASSUME NEW x \in TaskStates
  PROVE  LET y == DeleteThis(x) IN
         /\ y \in TaskStates /\ y.pc = "gone" /\ y.replies = x.replies /\ y.code = x.code
         /\ \A f \in Kept : y[f] = x[f]
BY SMTT(30) DEF DeleteThis, TaskStates, Kept

\* A task that has not replied may reply and be deleted.
LEMMA ReplyAndDelete ==
  ASSUME NEW x \in TaskStates, x.replies = 0, NEW code \in Codes,
         x.req.impi # None => x.impi = x.req.impi
  PROVE  LET y == DeleteThis(send_http_reply(x, code)) IN
         /\ y \in TaskStates /\ TaskInv(y) /\ y.code = code /\ y.replies = 1 /\ y.pc = "gone"
         /\ \A f \in Kept : y[f] = x[f]
<1> DEFINE z == send_http_reply(x, code)
<1>1. z \in TaskStates /\ z.replies = 1 /\ z.code = code /\ \A f \in Kept : z[f] = x[f]
  BY ReplyFields
<1> HIDE DEF z
<1> DEFINE y == DeleteThis(z)
<1>2. /\ y \in TaskStates /\ y.pc = "gone" /\ y.replies = 1 /\ y.code = code
      /\ \A f \in Kept : y[f] = x[f]
  BY <1>1, DeleteFields
<1>3. y.req = x.req /\ y.impi = x.impi
  BY <1>2 DEF Kept
<1> HIDE DEF y
<1>4. TaskInv(y)
  BY <1>2, <1>3 DEF TaskInv
<1> QED BY <1>2, <1>4 DEF y, z

\* The code that send_reply sends is 200 only if that is the saved code.
ReplyCode(x) == IF x.rc # 200 THEN x.rc ELSE IF x.irs.doc.form = "bad" THEN 500 ELSE 200

\* The code of the reply; 200 only if the task has it as its result.
LEMMA SendReply ==
  ASSUME NEW x \in TaskStates
  PROVE  /\ send_reply(x) = send_http_reply(x, ReplyCode(x)) /\ ReplyCode(x) \in Codes
         /\ ReplyCode(x) = 200 => x.rc = 200
<1>1. x.rc \in {200, 404, 500, 503, 504}
  BY SMTT(30) DEF TaskStates
<1> QED BY SMTT(30), <1>1 DEF send_reply, ReplyCode, Codes

\* A 200 to a deregistration, or with a document to a registration or a call,
\* does not come at this point.
Silent(y) ==
  y.replies = 1 /\ y.code = 200 =>
    /\ ~is_deregistration_request(y.req.type)
    /\ y.req.type \in {"REG", "CALL"} => y.irs.doc.form # "good"

\* What x and y, two states of a task, have in common.
SameTask(x, y) ==
  /\ y.req = x.req /\ y.impi = x.impi /\ y.wildcard = x.wildcard /\ y.irs = x.irs
  /\ y.cached = x.cached /\ y.sar = x.sar /\ y.saa = x.saa /\ y.heard = x.heard

\* Tasks with the same kept fields are the same for the invariant.
LEMMA KeptSame == ASSUME NEW x, NEW y, \A f \in Kept : y[f] = x[f] PROVE SameTask(x, y)
BY DEF Kept, SameTask

\* put_in_cache starts a put, or ends the task because of a bad document.
LEMMA PutInCache ==
  ASSUME NEW x \in TaskStates, TaskInv(x), x.pc = "sar", x.heard = "SUCCESS", Assigns(x.sar)
  PROVE  LET y == put_in_cache(x) IN
         /\ y \in TaskStates /\ TaskInv(y) /\ Silent(y) /\ SameTask(x, y)
         /\ y.pc = "put" \/ (y.pc = "gone" /\ y.irs.doc.form # "good")
<1> DEFINE y == [x EXCEPT !.pc = "put"]
           z == DeleteThis(send_http_reply(x, ReplyCode(x)))
<1>1. x.replies = 0 /\ (x.req.impi # None => x.impi = x.req.impi)
  BY DEF TaskInv
<1>2. ASSUME x.irs.doc.form = "good" PROVE y \in TaskStates /\ TaskInv(y) /\ y.replies = 0
  BY SMTT(30), <1>1, <1>2 DEF TaskStates, TaskInv
<1>3. y.pc = "put" /\ SameTask(x, y)
  BY SMTT(30) DEF TaskStates, SameTask
<1>4. ASSUME x.irs.doc.form # "good"
      PROVE  /\ z \in TaskStates /\ TaskInv(z) /\ Silent(z) /\ SameTask(x, z)
             /\ z.pc = "gone" /\ z.irs.doc.form # "good"
  <2>1. /\ z \in TaskStates /\ TaskInv(z) /\ \A f \in Kept : z[f] = x[f]
        /\ z.pc = "gone"
    BY <1>1, SendReply, ReplyAndDelete
  <2>2. SameTask(x, z) /\ z.req = x.req /\ z.irs = x.irs
    BY <2>1, KeptSame DEF SameTask
  <2>3. ~is_deregistration_request(x.req.type)
    BY DEF TaskInv, Assigns, is_deregistration_request
  <2> HIDE DEF z
  <2> QED BY <1>4, <2>1, <2>2, <2>3 DEF Silent
<1>5. put_in_cache(x) = IF x.irs.doc.form = "good" THEN y ELSE z
  BY SendReply DEF put_in_cache
<1> HIDE DEF y, z
<1> QED BY SMTT(30), <1>2, <1>3, <1>4, <1>5 DEF Silent

\* What the answer to its SAR makes of task x.
SarOutcome(x, result, data, y) ==
  /\ y.heard = result /\ y.saa = None /\ y.sar = x.sar /\ y.req = x.req
  /\ result # "NEW_WILDCARD" => public_id(y) = public_id(x)
  /\ \/ y.pc = "lookup" /\ result = "NEW_WILDCARD"
     \/ /\ y.pc \in {"put", "del", "gone"}
        /\ y.irs.reg = x.irs.reg /\ y.irs.impis = x.irs.impis
  /\ result = "SUCCESS" /\ Assigns(x.sar) =>
       /\ y.pc = "put" \/ (y.pc = "gone" /\ y.irs.doc.form # "good")
       /\ y.irs.doc = data.doc /\ y.irs.charging = data.charging
  /\ result # "SUCCESS" => y.replies = 0 \/ y.code # 200
  /\ result = "SUCCESS" /\ is_deregistration_request(x.req.type) => y.pc = "del"

\* on_sar_response, for any answer of the HSS.
LEMMA SarResponse ==
  ASSUME NEW x \in TaskStates, TaskInv(x), x.pc = "sar", NEW result \in ResultCodes,
         NEW data \in Data, NEW wildcard \in PublicIds \cup {None}
  PROVE  LET y == on_sar_response(x, result, data, wildcard) IN
         y \in TaskStates /\ TaskInv(y) /\ Silent(y) /\ SarOutcome(x, result, data, y)
<1> DEFINE late == result = "TIMEOUT"
           code == HttpCode(result)
           named == IF result = "NEW_WILDCARD" THEN wildcard ELSE x.wildcard
           y == [x EXCEPT !.saa = None, !.heard = result, !.rc = code,
                          !.penalty = late, !.wildcard = named]
           again == [y EXCEPT !.rc = 200, !.irs = NoIrs, !.pc = "lookup"]
           irs == [x.irs EXCEPT !.doc = data.doc, !.charging = data.charging, !.aged = FALSE]
           put == [y EXCEPT !.irs = irs]
           del == [y EXCEPT !.pc = "del"]
           end == DeleteThis(send_http_reply(y, ReplyCode(y)))
<1>1. /\ x.replies = 0 /\ (x.req.impi # None => x.impi = x.req.impi) /\ x.req.method = "PUT"
      /\ x.req.type # "UNKNOWN"
  BY DEF TaskInv
<1>2. HttpCode(result) \in {200, 404, 500, 503, 504} /\ (HttpCode(result) = 200 <=> result = "SUCCESS")
  BY SMTT(30) DEF HttpCode, ResultCodes
<1>3. y \in TaskStates
  <2>1. late \in BOOLEAN /\ code \in {200, 404, 500, 503, 504} /\ named \in PublicIds \cup {None}
    BY SMTT(30), <1>2 DEF TaskStates
  <2> HIDE DEF late, code, named
  <2> DEFINE y1 == [x EXCEPT !.saa = None]
             y2 == [y1 EXCEPT !.heard = result]
             y3 == [y2 EXCEPT !.rc = code]
             y4 == [y3 EXCEPT !.penalty = late]
             y5 == [y4 EXCEPT !.wildcard = named]
  <2>2. y = y5
    BY SMTT(30) DEF TaskStates
  <2> HIDE DEF y
  <2>3. y1 \in TaskStates
    BY SMTT(30) DEF TaskStates
  <2> HIDE DEF y1
  <2>4. y2 \in TaskStates
    BY SMTT(30), <2>3 DEF TaskStates
  <2> HIDE DEF y2
  <2>5. y3 \in TaskStates
    BY SMTT(30), <2>1, <2>4 DEF TaskStates
  <2> HIDE DEF y3
  <2>6. y4 \in TaskStates
    BY SMTT(30), <2>1, <2>5 DEF TaskStates
  <2> HIDE DEF y4
  <2>7. y5 \in TaskStates
    BY SMTT(30), <2>1, <2>6 DEF TaskStates
  <2> QED BY <2>2, <2>7
<1>4. /\ y.pc = "sar" /\ y.req = x.req /\ y.impi = x.impi /\ y.irs = x.irs /\ y.sar = x.sar
      /\ y.replies = 0 /\ y.heard = result /\ y.rc = HttpCode(result) /\ y.cached = x.cached
      /\ y.saa = None /\ y.wildcard = named
  BY SMTT(30), <1>1 DEF TaskStates
<1>5. TaskInv(y)
  BY <1>4 DEF TaskInv
<1> HIDE DEF y
<1>6. again \in TaskStates /\ TaskInv(again) /\ again.replies = 0 /\ again.pc = "lookup"
      /\ again.heard = result /\ again.saa = None /\ again.sar = x.sar /\ again.req = x.req
  <2>1. NoIrs \in Irss
    BY DEF NoIrs, Irss, RegStates
  <2>2. again \in TaskStates
    <3> DEFINE z1 == [y EXCEPT !.rc = 200]
               z2 == [z1 EXCEPT !.irs = NoIrs]
    <3>1. again = [z2 EXCEPT !.pc = "lookup"]
      BY SMTT(30), <1>3 DEF TaskStates
    <3>2. z1 \in TaskStates
      BY SMTT(30), <1>3 DEF TaskStates
    <3> HIDE DEF z1
    <3>3. z2 \in TaskStates
      BY SMTT(30), <2>1, <3>2 DEF TaskStates
    <3> HIDE DEF z2
    <3>4. [z2 EXCEPT !.pc = "lookup"] \in TaskStates
      BY SMTT(30), <3>3 DEF TaskStates
    <3> HIDE DEF again
    <3> QED BY <3>1, <3>4
  <2>3. /\ again.replies = 0 /\ again.req = y.req /\ again.impi = y.impi /\ again.pc = "lookup"
        /\ again.heard = result /\ again.saa = None /\ again.sar = x.sar
    BY SMTT(30), <1>3, <1>4 DEF TaskStates
  <2> HIDE DEF again
  <2> QED BY <1>1, <1>4, <2>2, <2>3 DEF TaskInv
<1>7. ASSUME result = "SUCCESS", Assigns(x.sar)
      PROVE  LET z == put_in_cache(put) IN
             z \in TaskStates /\ TaskInv(z) /\ Silent(z) /\ SarOutcome(x, result, data, z)
  <2>1. /\ irs \in Irss /\ irs.reg = x.irs.reg /\ irs.impis = x.irs.impis
        /\ irs.doc = data.doc /\ irs.charging = data.charging
    <3>1. x.irs \in Irss
      BY SMTT(30) DEF TaskStates
    <3> QED BY <3>1 DEF Irss, Data
  <2> HIDE DEF irs
  <2>2. /\ put \in TaskStates /\ put.pc = "sar" /\ put.replies = 0 /\ put.req = x.req
        /\ put.impi = x.impi /\ put.irs = irs /\ put.sar = x.sar /\ put.heard = result
        /\ put.saa = None /\ put.wildcard = x.wildcard
    BY SMTT(30), <1>3, <1>4, <1>7, <2>1 DEF TaskStates
  <2> HIDE DEF put
  <2>3. TaskInv(put)
    BY <2>1, <2>2 DEF TaskInv
  <2> DEFINE z == put_in_cache(put)
  <2>4. /\ z \in TaskStates /\ TaskInv(z) /\ Silent(z) /\ SameTask(put, z)
        /\ z.pc = "put" \/ (z.pc = "gone" /\ z.irs.doc.form # "good")
    BY <1>7, <2>2, <2>3, PutInCache
  <2> HIDE DEF z
  <2>5. /\ z.heard = result /\ z.saa = None /\ z.sar = x.sar /\ z.req = x.req
        /\ z.irs = irs /\ public_id(z) = public_id(x)
    BY <2>2, <2>4 DEF SameTask, public_id, wildcard_id
  <2>6. ~is_deregistration_request(x.req.type)
    BY <1>7 DEF TaskInv, Assigns, is_deregistration_request
  <2>7. SarOutcome(x, result, data, z)
    BY <1>7, <2>1, <2>4, <2>5, <2>6 DEF SarOutcome
  <2> QED BY <2>4, <2>7 DEF z
<1>8. ASSUME ClearsCache(x, result)
      PROVE  /\ del \in TaskStates /\ TaskInv(del) /\ del.replies = 0 /\ del.pc = "del"
             /\ SameTask(y, del)
  <2>1. is_deregistration_request(x.req.type) /\ result \notin {"none", TimeoutResult}
    BY <1>8 DEF ClearsCache, TimeoutResult, ResultCodes
  <2>2. /\ del \in TaskStates /\ del.pc = "del" /\ del.replies = 0 /\ del.req = x.req
        /\ del.impi = x.impi /\ del.heard = result /\ SameTask(y, del)
    BY SMTT(30), <1>3, <1>4 DEF TaskStates, SameTask
  <2> HIDE DEF del
  <2> QED BY <1>1, <2>1, <2>2 DEF TaskInv
<1>9. ASSUME ~(result = "SUCCESS" /\ Assigns(x.sar)), ~ClearsCache(x, result)
      PROVE  /\ end \in TaskStates /\ TaskInv(end) /\ Silent(end) /\ end.pc = "gone"
             /\ SameTask(y, end) /\ (end.code = 200 => result = "SUCCESS")
  <2>1. /\ end \in TaskStates /\ TaskInv(end) /\ end.code = ReplyCode(y) /\ end.pc = "gone"
        /\ \A f \in Kept : end[f] = y[f]
    BY SMTT(30), <1>1, <1>3, <1>4, SendReply, ReplyAndDelete
  <2>2. end.req = x.req /\ SameTask(y, end)
    BY <1>4, <2>1, KeptSame DEF SameTask
  <2>3. end.code = 200 => result = "SUCCESS"
    <3>1. ReplyCode(y) = 200 => y.rc = 200
      BY <1>3, SendReply
    <3> QED BY SMTT(30), <1>2, <1>4, <2>1, <3>1
  <2>4. result = "SUCCESS" => /\ ~is_deregistration_request(x.req.type)
                              /\ x.req.type \notin {"REG", "CALL"}
    BY <1>9 DEF ClearsCache, TaskInv, Assigns
  <2> HIDE DEF end
  <2> QED BY <2>1, <2>2, <2>3, <2>4 DEF Silent
<1>10. on_sar_response(x, result, data, wildcard) =
         IF result = "NEW_WILDCARD" /\ IsNews(x, wildcard) THEN again
         ELSE IF result = "SUCCESS" /\ Assigns(x.sar) THEN put_in_cache(put)
         ELSE IF ClearsCache(x, result) THEN del ELSE end
  <2>1. [y EXCEPT !.irs = [y.irs EXCEPT !.doc = data.doc, !.charging = data.charging,
                                        !.aged = FALSE]] = put
    BY <1>4
  <2>2. send_reply(y) = send_http_reply(y, ReplyCode(y))
    BY <1>3, SendReply
  <2> QED BY SMTT(30), <2>1, <2>2 DEF on_sar_response, y
<1> HIDE DEF again, put, del, end
<1>11. result = "NEW_WILDCARD" => SarOutcome(x, result, data, again)
  BY <1>6 DEF SarOutcome
<1>12. ASSUME NEW z, SameTask(y, z), z.pc \in {"del", "gone"}, ~(result = "SUCCESS" /\ Assigns(x.sar)),
             result = "SUCCESS" /\ is_deregistration_request(x.req.type) => z.pc = "del",
             z.replies = 0 \/ (z.code = 200 => result = "SUCCESS")
       PROVE  SarOutcome(x, result, data, z)
  <2>1. /\ z.heard = result /\ z.saa = None /\ z.sar = x.sar /\ z.req = x.req
        /\ z.irs = x.irs /\ z.wildcard = named
    BY <1>4, <1>12 DEF SameTask
  <2>2. result # "NEW_WILDCARD" => public_id(z) = public_id(x)
    BY <2>1 DEF public_id, wildcard_id
  <2> QED BY <1>12, <2>1, <2>2 DEF SarOutcome
<1>13. result = "SUCCESS" /\ is_deregistration_request(x.req.type) => ClearsCache(x, result)
  BY DEF ClearsCache
<1> QED BY SMTT(30), <1>6, <1>7, <1>8, <1>9, <1>10, <1>11, <1>12, <1>13 DEF Silent

\* The SAR that a request leads to, and what the task will write if the HSS
\* accepts it.
SarOf(x, sar) ==
  /\ x.req.type = "REG" =>
       /\ x.irs.reg = "REGISTERED" /\ sar \in {"REGISTRATION", "RE_REGISTRATION"}
       /\ sar = "REGISTRATION" => x.impi \in x.irs.impis
  /\ x.req.type = "CALL" => x.irs.reg = "UNREGISTERED" /\ sar = "UNREGISTERED_USER"
  /\ x.req.type \notin {"REG", "CALL"} => sar = x.req.type

\* What a task is when it processes the record of its subscriber.
Working(x) ==
  /\ x.replies = 0 /\ (x.req.impi # None => x.impi = x.req.impi)
  /\ x.req.method = "PUT" /\ x.req.type # "UNKNOWN"

\* Sending a SAR the task has a reason for keeps what it knows.
LEMMA SendSar ==
  ASSUME NEW x \in TaskStates, Working(x), NEW sar \in SarTypes, SarOf(x, sar)
  PROVE  LET y == send_server_assignment_request(x, sar) IN
         y \in TaskStates /\ TaskInv(y) /\ Silent(y)
<1> DEFINE z == [x EXCEPT !.pc = "sar"]
           y == [z EXCEPT !.sar = sar]
<1>1. z \in TaskStates
  BY SMTT(30) DEF TaskStates
<1>2. /\ y.pc = "sar" /\ y.sar = sar /\ y.replies = 0 /\ y.req = x.req /\ y.impi = x.impi
      /\ y.irs = x.irs
  BY SMTT(30) DEF TaskStates, Working
<1>3. y = [x EXCEPT !.pc = "sar", !.sar = sar]
  BY SMTT(30) DEF TaskStates
<1> HIDE DEF z
<1>4. y \in TaskStates
  BY SMTT(30), <1>1 DEF TaskStates
<1> HIDE DEF y
<1>5. TaskInv(y)
  BY <1>2 DEF TaskInv, Working, SarOf
<1>6. NoData \in Data /\ "SUCCESS" \in ResultCodes
  BY DEF NoData, Data, ResultCodes
<1>7. LET w == on_sar_response(y, "SUCCESS", NoData, None) IN
      w \in TaskStates /\ TaskInv(w) /\ Silent(w)
  BY <1>2, <1>4, <1>5, <1>6, SarResponse
<1>8. Silent(y)
  BY SMTT(30), <1>2 DEF Silent
<1>9. send_server_assignment_request(x, sar) \in {y, on_sar_response(y, "SUCCESS", NoData, None)}
  BY <1>3 DEF send_server_assignment_request
<1> QED BY <1>4, <1>5, <1>7, <1>8, <1>9

\* A reply with code 200 is true of the record c that is in the cache.
Holds(y, c) ==
  y.replies = 1 /\ y.code = 200 /\ y.req.method = "PUT" =>
    /\ y.req.type = "REG" /\ y.irs.doc.form = "good" =>
         /\ c # None /\ c.reg = "REGISTERED"
         /\ y.req.impi # None /\ y.sar # "RE_REGISTRATION" => y.req.impi \in c.impis
    /\ y.req.type = "CALL" /\ y.irs.doc.form = "good" => c # None /\ c.reg # "NOT_REGISTERED"
    /\ is_deregistration_request(y.req.type) => c = None

\* The same for the reply of a task that was x, which may be silent.
HoldsAt(x, y, c) == Silent(y) \/ (public_id(y) = public_id(x) /\ Holds(y, c))

\* A task that has not replied with 200 has claimed nothing.
LEMMA SilentHolds == ASSUME NEW y, Silent(y), NEW c PROVE Holds(y, c)
BY DEF Silent, Holds

\* A reply from what the task has read.
LEMMA ReplyNow ==
  ASSUME NEW x \in TaskStates, Working(x)
  PROVE  LET y == DeleteThis(send_reply(x)) IN
         /\ y \in TaskStates /\ TaskInv(y)
         /\ \A f \in Kept : y[f] = x[f]
<1>1. send_reply(x) = send_http_reply(x, ReplyCode(x)) /\ ReplyCode(x) \in Codes
  BY SendReply
<1> QED BY SMTT(30), <1>1, ReplyAndDelete DEF Working

\* c is in the cache, or there is none and the task has an empty record.
Reads(irs, c) == irs \in Irss /\ ((c # None /\ irs = c) \/ (c = None /\ irs = NoIrs))

\* A registration, with or without a new binding.
LEMMA RegisterStep ==
  ASSUME NEW x \in TaskStates, Working(x), x.req.type = "REG", x.impi \in Devices,
         NEW c, Reads(x.irs, c), NEW newBinding \in BOOLEAN,
         x.req.impi # None /\ x.irs.doc # NoDocument /\ x.impi \notin x.irs.impis => newBinding
  PROVE  LET y == OnRegister(x, newBinding) IN
         y \in TaskStates /\ TaskInv(y) /\ HoldsAt(x, y, c)
<1>1. CASE x.irs.reg = "REGISTERED" /\ ~newBinding /\ (x.irs.aged \/ x.req.noCache)
  <2>1. SarOf(x, "RE_REGISTRATION") /\ "RE_REGISTRATION" \in SarTypes
    BY <1>1 DEF SarOf, SarTypes
  <2>2. OnRegister(x, newBinding) = send_server_assignment_request(x, "RE_REGISTRATION")
    BY <1>1 DEF OnRegister
  <2> QED BY <2>1, <2>2, SendSar DEF HoldsAt
<1>2. CASE x.irs.reg = "REGISTERED" /\ ~newBinding /\ ~(x.irs.aged \/ x.req.noCache)
  <2> DEFINE y == DeleteThis(send_reply(x))
  <2>1. OnRegister(x, newBinding) = y
    BY <1>2 DEF OnRegister
  <2>2. y \in TaskStates /\ TaskInv(y) /\ \A f \in Kept : y[f] = x[f]
    BY ReplyNow
  <2>3. y.req = x.req /\ y.irs = x.irs /\ y.impi = x.impi /\ public_id(y) = public_id(x)
    BY <2>2 DEF Kept, public_id, wildcard_id
  <2> HIDE DEF y
  <2>4. x.irs.doc.form = "good" => /\ c # None /\ c.reg = "REGISTERED"
                                   /\ x.req.impi # None => x.req.impi \in c.impis
    BY SMTT(30), <1>2 DEF Reads, NoIrs, NoDocument, Working
  <2>5. Holds(y, c)
    BY <2>3, <2>4 DEF Holds, is_deregistration_request
  <2> QED BY <2>1, <2>2, <2>3, <2>5 DEF HoldsAt
<1>3. CASE ~(x.irs.reg = "REGISTERED" /\ ~newBinding)
  <2> DEFINE irs == [x.irs EXCEPT !.reg = "REGISTERED", !.impis = x.irs.impis \cup {x.impi}]
             y == [x EXCEPT !.irs = irs]
  <2>1. irs \in Irss /\ irs.reg = "REGISTERED" /\ x.impi \in irs.impis
    <3>1. x.irs \in Irss
      BY DEF Reads
    <3> QED BY <3>1 DEF Irss, RegStates
  <2> HIDE DEF irs
  <2>2. y \in TaskStates /\ y.irs = irs /\ y.req = x.req /\ y.impi = x.impi /\ y.replies = x.replies
    BY SMTT(30), <2>1 DEF TaskStates
  <2>3. OnRegister(x, newBinding) = send_server_assignment_request(y, "REGISTRATION")
    BY <1>3 DEF OnRegister, irs
  <2> HIDE DEF y
  <2>4. Working(y) /\ SarOf(y, "REGISTRATION") /\ "REGISTRATION" \in SarTypes
    BY <2>1, <2>2 DEF Working, SarOf, SarTypes
  <2> QED BY <2>2, <2>3, <2>4, SendSar DEF HoldsAt
<1> QED BY <1>1, <1>2, <1>3

\* A call.
LEMMA CallStep ==
  ASSUME NEW x \in TaskStates, Working(x), x.req.type = "CALL", NEW c, Reads(x.irs, c)
  PROVE  LET y == OnCall(x) IN
         y \in TaskStates /\ TaskInv(y) /\ HoldsAt(x, y, c)
<1>1. CASE x.irs.reg = "NOT_REGISTERED"
  <2> DEFINE y == [x EXCEPT !.irs.reg = "UNREGISTERED"]
  <2>1. /\ y \in TaskStates /\ y.irs.reg = "UNREGISTERED" /\ y.req = x.req /\ y.impi = x.impi
        /\ y.replies = x.replies
    BY SMTT(30) DEF TaskStates, Irss, RegStates
  <2>2. OnCall(x) = send_server_assignment_request(y, "UNREGISTERED_USER")
    BY <1>1 DEF OnCall
  <2> HIDE DEF y
  <2>3. Working(y) /\ SarOf(y, "UNREGISTERED_USER") /\ "UNREGISTERED_USER" \in SarTypes
    BY <2>1 DEF Working, SarOf, SarTypes
  <2> QED BY <2>1, <2>2, <2>3, SendSar DEF HoldsAt
<1>2. CASE x.irs.reg # "NOT_REGISTERED"
  <2> DEFINE y == DeleteThis(send_reply(x))
  <2>1. OnCall(x) = y
    BY <1>2 DEF OnCall
  <2>2. y \in TaskStates /\ TaskInv(y) /\ \A f \in Kept : y[f] = x[f]
    BY ReplyNow
  <2>3. y.req = x.req /\ public_id(y) = public_id(x)
    BY <2>2 DEF Kept, public_id, wildcard_id
  <2> HIDE DEF y
  <2>4. c # None /\ c.reg # "NOT_REGISTERED"
    BY SMTT(30), <1>2 DEF Reads, NoIrs
  <2>5. Holds(y, c)
    BY <2>3, <2>4 DEF Holds, is_deregistration_request
  <2> QED BY <2>1, <2>2, <2>3, <2>5 DEF HoldsAt
<1> QED BY <1>1, <1>2

\* A deregistration.
LEMMA DeregisterStep ==
  ASSUME NEW x \in TaskStates, Working(x), is_deregistration_request(x.req.type), NEW c
  PROVE  LET y == OnDeregister(x) IN
         y \in TaskStates /\ TaskInv(y) /\ HoldsAt(x, y, c)
<1>1. x.req.type \in SarTypes /\ x.req.type \notin {"REG", "CALL"}
  BY DEF is_deregistration_request, SarTypes, Types
<1>2. CASE x.irs.reg # "NOT_REGISTERED"
  <2> DEFINE y == [x EXCEPT !.irs.reg = "NOT_REGISTERED"]
  <2>1. y \in TaskStates /\ y.req = x.req /\ y.impi = x.impi /\ y.replies = x.replies
    BY SMTT(30) DEF TaskStates, Irss, RegStates
  <2>2. OnDeregister(x) = send_server_assignment_request(y, x.req.type)
    BY <1>2 DEF OnDeregister
  <2> HIDE DEF y
  <2>3. Working(y) /\ SarOf(y, x.req.type)
    BY <1>1, <2>1 DEF Working, SarOf
  <2> QED BY <1>1, <2>1, <2>2, <2>3, SendSar DEF HoldsAt
<1>3. CASE x.irs.reg = "NOT_REGISTERED"
  <2> DEFINE y == DeleteThis(send_http_reply(x, 400))
  <2>1. y \in TaskStates /\ TaskInv(y) /\ y.code = 400
    <3>1. 400 \in Codes
      BY SMTT(30), RefusalCodes
    <3> QED BY SMTT(30), <3>1, ReplyAndDelete DEF Working
  <2>2. OnDeregister(x) = y
    BY <1>3 DEF OnDeregister
  <2> HIDE DEF y
  <2> QED BY SMTT(30), <2>1, <2>2 DEF HoldsAt, Silent
<1> QED BY <1>2, <1>3

\* The private ID a task works with is a private ID.
LEMMA PrivateIdType ==
  ASSUME NEW doc \in Documents \cup {NoDocument}
  PROVE  get_private_id(doc) \in Devices
<1>1. CASE doc = NoDocument
  BY <1>1 DEF get_private_id, NoDocument, Devices
<1>2. CASE doc # NoDocument
  <2>1. doc \in [impi : PrivateIds, form : {"good", "noIds", "bad"}, version : Nat]
    BY <1>2, RegDataAssumption DEF RegDataConstants
  <2> QED BY <2>1 DEF get_private_id, Devices
<1> QED BY <1>1, <1>2

\* Whatever the lookup finds, the task goes on, or replies with what is true of
\* the record it found.
LEMMA ProcessReceived ==
  ASSUME NEW x \in TaskStates, TaskInv(x), x.pc = "lookup", NEW irs, NEW c, Reads(irs, c)
  PROVE  LET y == process_received_reg_data(x, irs) IN
         y \in TaskStates /\ TaskInv(y) /\ HoldsAt(x, y, c)
<1> DEFINE newBinding == /\ x.impi # None /\ irs.doc # NoDocument
                         /\ x.impi \notin irs.impis
           impi == IF x.impi = None THEN get_private_id(irs.doc) ELSE x.impi
           x1 == [x EXCEPT !.irs = irs]
           x2 == [x1 EXCEPT !.cached = irs.reg]
           y == [x2 EXCEPT !.impi = impi]
<1>1. /\ x.req \in HttpRequests /\ x.replies = 0 /\ (x.req.impi # None => x.impi = x.req.impi)
      /\ x.req.method \in {"GET", "PUT"} /\ (x.req.method = "PUT" => x.req.type # "UNKNOWN")
  BY SMTT(30) DEF TaskInv, TaskStates
<1>2. irs \in Irss /\ irs.reg \in RegStates /\ irs.doc \in Documents \cup {NoDocument}
  BY DEF Reads, Irss
<1>3. impi \in Devices /\ (x.req.impi # None => impi = x.req.impi)
  <2>1. x.impi \in Devices
    BY SMTT(30) DEF TaskStates
  <2> QED BY <1>1, <1>2, <2>1, PrivateIdType
<1> HIDE DEF impi
<1>4. /\ x1 \in TaskStates /\ x1.req = x.req /\ x1.replies = 0 /\ x1.impi = x.impi /\ x1.irs = irs
      /\ x1.wildcard = x.wildcard
  BY SMTT(30), <1>1, <1>2 DEF TaskStates
<1>5. x2 = [x EXCEPT !.irs = irs, !.cached = irs.reg]
  BY SMTT(30) DEF TaskStates
<1>6. y = [x EXCEPT !.irs = irs, !.cached = irs.reg, !.impi = impi]
  BY SMTT(30) DEF TaskStates
<1> HIDE DEF x1
<1>7. /\ x2 \in TaskStates /\ x2.req = x.req /\ x2.replies = 0 /\ x2.impi = x.impi /\ x2.irs = irs
      /\ x2.wildcard = x.wildcard
  BY SMTT(30), <1>2, <1>4 DEF TaskStates
<1> HIDE DEF x2
<1>8. /\ y \in TaskStates /\ y.req = x.req /\ y.replies = 0 /\ y.impi = impi /\ y.irs = irs
      /\ public_id(y) = public_id(x)
  BY SMTT(30), <1>3, <1>7 DEF TaskStates, public_id, wildcard_id
<1> HIDE DEF y
<1>9. CASE x.req.method = "GET"
  <2> DEFINE z == DeleteThis(send_http_reply(x2, ReplyCode(x2)))
  <2>1. ReplyCode(x2) \in Codes /\ send_reply(x2) = send_http_reply(x2, ReplyCode(x2))
    BY <1>7, SendReply
  <2>2. z \in TaskStates /\ TaskInv(z) /\ \A f \in Kept : z[f] = x2[f]
    BY SMTT(30), <1>1, <1>7, <2>1, ReplyAndDelete
  <2>3. z.req = x.req /\ public_id(z) = public_id(x)
    BY <1>7, <2>2 DEF Kept, public_id, wildcard_id
  <2>4. process_received_reg_data(x, irs) = z
    BY <1>5, <1>9, <2>1 DEF process_received_reg_data
  <2> HIDE DEF z
  <2> QED BY <1>9, <2>2, <2>3, <2>4 DEF HoldsAt, Holds
<1>10. CASE x.req.method = "PUT"
  <2>1. Working(y) /\ Reads(y.irs, c)
    BY <1>1, <1>3, <1>8, <1>10 DEF Working
  <2>2. process_received_reg_data(x, irs) =
          IF x.req.type = "REG" THEN OnRegister(y, newBinding)
          ELSE IF x.req.type = "CALL" THEN OnCall(y)
          ELSE IF is_deregistration_request(x.req.type) THEN OnDeregister(y)
          ELSE send_server_assignment_request(y, x.req.type)
    BY <1>6, <1>10 DEF process_received_reg_data, impi
  <2>3. CASE x.req.type = "REG"
    <3>1. y.impi \in Devices /\ (y.req.impi # None => x.impi = y.impi /\ x.impi # None)
      BY <1>1, <1>3, <1>8
    <3>2. /\ newBinding \in BOOLEAN
          /\ y.req.impi # None /\ y.irs.doc # NoDocument /\ y.impi \notin y.irs.impis => newBinding
      BY <1>8, <3>1
    <3> HIDE DEF newBinding
    <3> QED BY <1>8, <2>1, <2>2, <2>3, <3>1, <3>2, RegisterStep DEF HoldsAt
  <2>4. CASE x.req.type = "CALL"
    BY <1>8, <2>1, <2>2, <2>4, CallStep DEF HoldsAt
  <2>5. CASE is_deregistration_request(x.req.type)
    <3>1. x.req.type \notin {"REG", "CALL"}
      BY <2>5 DEF is_deregistration_request
    <3> QED BY <1>8, <2>1, <2>2, <2>5, <3>1, DeregisterStep DEF HoldsAt
  <2>6. CASE ~is_deregistration_request(x.req.type) /\ x.req.type \notin {"REG", "CALL"}
    <3>1. x.req.type \in Types \cup {"UNKNOWN"}
      BY <1>1, RequestTypes
    <3>2. x.req.type \in SarTypes /\ SarOf(y, x.req.type)
      BY <1>1, <1>8, <1>10, <2>6, <3>1 DEF SarTypes, SarOf
    <3> QED BY <1>8, <2>1, <2>2, <2>6, <3>2, SendSar DEF HoldsAt
  <2> QED BY <2>3, <2>4, <2>5, <2>6
<1> QED BY <1>1, <1>9, <1>10

\* What does not change when a task that has its IRS goes on or ends.
Alike(x, y) ==
  y.req = x.req /\ y.wildcard = x.wildcard /\ y.saa = x.saa /\ y.heard = x.heard

\* A task that replies and ends is alike otherwise.
LEMMA AlikeEnds ==
  ASSUME NEW x \in TaskStates, NEW code
  PROVE  LET y == DeleteThis(send_http_reply(x, code)) IN
         Alike(x, y) /\ y.pc = "gone" /\ y.irs = x.irs
BY SMTT(30) DEF DeleteThis, send_http_reply, TaskStates, Alike

\* So is one that sends a SAR.
LEMMA AlikeSends ==
  ASSUME NEW x \in TaskStates, NEW irs, NEW sar, hssConn = "diameter"
  PROVE  LET y == send_server_assignment_request([x EXCEPT !.irs = irs], sar) IN
         Alike(x, y) /\ y.pc = "sar" /\ y.irs = irs
<1>1. send_server_assignment_request([x EXCEPT !.irs = irs], sar) =
        [x EXCEPT !.irs = irs, !.pc = "sar", !.sar = sar]
  BY SMTT(30) DEF send_server_assignment_request, TaskStates
<1>2. LET y == [x EXCEPT !.irs = irs, !.pc = "sar", !.sar = sar] IN
      Alike(x, y) /\ y.pc = "sar" /\ y.irs = irs
  BY SMTT(30) DEF TaskStates, Alike
<1> QED BY <1>1, <1>2

\* The private IDs that a registration may add: its own, if it has one.
Adds(x, i) == x.req.type = "REG" /\ (x.req.impi # None => i = x.req.impi)

\* What a task that was x and has read irs goes on with: it sends a SAR, for a
\* call only if the subscriber is not registered, or ends with what it has read,
\* for a registration only if the subscriber is registered.
LookedUp(x, irs, y) ==
  /\ Alike(x, y) /\ y.pc \in {"sar", "gone"}
  /\ y.pc = "sar" =>
       /\ x.req.type = "CALL" => irs.reg = "NOT_REGISTERED"
       /\ \A i \in y.irs.impis : i \in irs.impis \/ Adds(x, i)
  /\ y.pc = "gone" => /\ y.irs = irs
                      /\ x.req.type = "REG" /\ x.req.method = "PUT" => irs.reg = "REGISTERED"

\* With a Diameter HSS no answer comes on the spot.
LEMMA LookupOutcome ==
  ASSUME NEW x \in TaskStates, TaskInv(x), x.pc = "lookup", NEW irs, NEW c, Reads(irs, c),
         hssConn = "diameter"
  PROVE  LookedUp(x, irs, process_received_reg_data(x, irs))
<1> DEFINE newBinding == /\ x.impi # None /\ irs.doc # NoDocument
                         /\ x.impi \notin irs.impis
           impi == IF x.impi = None THEN get_private_id(irs.doc) ELSE x.impi
           x2 == [x EXCEPT !.irs = irs, !.cached = irs.reg]
           y == [x EXCEPT !.irs = irs, !.cached = irs.reg, !.impi = impi]
           z == process_received_reg_data(x, irs)
<1>1. irs \in Irss /\ irs.reg \in RegStates /\ irs.doc \in Documents \cup {NoDocument}
  BY DEF Reads, Irss
<1>2. x.impi \in Devices /\ x.req.method \in {"GET", "PUT"}
  BY SMTT(30) DEF TaskStates, TaskInv
<1>3. impi \in Devices
  BY <1>1, <1>2, PrivateIdType
<1> HIDE DEF impi
<1> DEFINE x1 == [x EXCEPT !.irs = irs]
<1>4. x2 \in TaskStates /\ Alike(x, x2) /\ x2.irs = irs
  <2>1. x1 \in TaskStates /\ Alike(x, x1) /\ x1.irs = irs
    BY SMTT(30), <1>1 DEF TaskStates, Alike
  <2>2. x2 = [x1 EXCEPT !.cached = irs.reg]
    BY SMTT(30) DEF TaskStates
  <2> HIDE DEF x1, x2
  <2>3. LET v == [x1 EXCEPT !.cached = irs.reg] IN
        v \in TaskStates /\ Alike(x1, v) /\ v.irs = irs
    BY SMTT(30), <1>1, <2>1 DEF TaskStates, Alike
  <2> QED BY <2>1, <2>2, <2>3 DEF Alike
<1>5. y \in TaskStates /\ Alike(x, y) /\ y.irs = irs /\ y.req = x.req /\ y.impi = impi
  <2>1. y = [x2 EXCEPT !.impi = impi]
    BY SMTT(30) DEF TaskStates
  <2> HIDE DEF x2, y
  <2>2. LET v == [x2 EXCEPT !.impi = impi] IN
        v \in TaskStates /\ Alike(x2, v) /\ v.irs = irs /\ v.impi = impi
    BY SMTT(30), <1>3, <1>4 DEF TaskStates, Alike
  <2> QED BY <1>4, <2>1, <2>2 DEF Alike
<1>6. z = IF x.req.method = "GET" THEN DeleteThis(send_reply(x2))
          ELSE IF x.req.type = "REG" THEN OnRegister(y, newBinding)
          ELSE IF x.req.type = "CALL" THEN OnCall(y)
          ELSE IF is_deregistration_request(x.req.type) THEN OnDeregister(y)
          ELSE send_server_assignment_request(y, x.req.type)
  BY DEF process_received_reg_data, impi
<1> SUFFICES LookedUp(x, irs, z)
  OBVIOUS
<1> HIDE DEF x2, y, z, newBinding
<1>7. ASSUME NEW w \in {x2, y}, NEW code, z = DeleteThis(send_http_reply(w, code)),
             x.req.type = "REG" /\ x.req.method = "PUT" => irs.reg = "REGISTERED"
      PROVE  LookedUp(x, irs, z)
  <2>1. Alike(x, z) /\ z.pc = "gone" /\ z.irs = irs
    BY SMTT(30), <1>4, <1>5, <1>7, AlikeEnds DEF Alike
  <2> QED BY <1>7, <2>1 DEF LookedUp
<1>8. DeleteThis(send_reply(x2)) = DeleteThis(send_http_reply(x2, ReplyCode(x2)))
      /\ DeleteThis(send_reply(y)) = DeleteThis(send_http_reply(y, ReplyCode(y)))
  BY <1>4, <1>5, SendReply
<1>9. ASSUME NEW new, NEW sar, z = send_server_assignment_request([y EXCEPT !.irs = new], sar),
             x.req.type = "CALL" => irs.reg = "NOT_REGISTERED",
             \A i \in new.impis : i \in irs.impis \/ Adds(x, i)
      PROVE  LookedUp(x, irs, z)
  <2>1. Alike(x, z) /\ z.pc = "sar" /\ z.irs = new
    BY SMTT(30), <1>5, <1>9, AlikeSends DEF Alike
  <2> QED BY <1>9, <2>1 DEF LookedUp
<1>10. y = [y EXCEPT !.irs = irs]
  BY SMTT(30), <1>5 DEF TaskStates
<1>11. CASE x.req.method = "GET"
  BY <1>6, <1>7, <1>8, <1>11
<1>12. CASE x.req.method # "GET" /\ x.req.type = "REG"
  <2> DEFINE new == [irs EXCEPT !.reg = "REGISTERED", !.impis = @ \cup {y.impi}]
  <2>1. \A i \in new.impis : i \in irs.impis \/ Adds(x, i)
    <3>1. new.impis = irs.impis \cup {y.impi}
      BY <1>1 DEF Irss
    <3>2. x.req \in HttpRequests /\ (x.req.impi # None => x.impi = x.req.impi)
      BY SMTT(30) DEF TaskStates, TaskInv
    <3>3. x.req.impi # None => y.impi = x.req.impi
      BY <1>5, <3>2 DEF impi
    <3> QED BY <1>12, <3>1, <3>3 DEF Adds
  <2>2. \/ z = send_server_assignment_request(y, "RE_REGISTRATION")
        \/ z = send_server_assignment_request([y EXCEPT !.irs = new], "REGISTRATION")
        \/ z = DeleteThis(send_reply(y)) /\ irs.reg = "REGISTERED"
    BY <1>5, <1>6, <1>12 DEF OnRegister
  <2> HIDE DEF new
  <2> QED BY <1>7, <1>8, <1>9, <1>10, <1>12, <2>1, <2>2
<1>13. CASE x.req.method # "GET" /\ x.req.type = "CALL"
  <2> DEFINE new == [irs EXCEPT !.reg = "UNREGISTERED"]
  <2>1. [y EXCEPT !.irs.reg = "UNREGISTERED"] = [y EXCEPT !.irs = new] /\ new.impis = irs.impis
    BY <1>1, <1>5 DEF Irss
  <2>2. \/ z = send_server_assignment_request([y EXCEPT !.irs = new], "UNREGISTERED_USER")
           /\ irs.reg = "NOT_REGISTERED"
        \/ z = DeleteThis(send_reply(y))
    BY <1>5, <1>6, <1>13, <2>1 DEF OnCall
  <2> HIDE DEF new
  <2> QED BY <1>7, <1>8, <1>9, <1>13, <2>1, <2>2
<1>14. CASE x.req.method # "GET" /\ is_deregistration_request(x.req.type)
  <2> DEFINE new == [irs EXCEPT !.reg = "NOT_REGISTERED"]
  <2>1. [y EXCEPT !.irs.reg = "NOT_REGISTERED"] = [y EXCEPT !.irs = new] /\ new.impis = irs.impis
    BY <1>1, <1>5 DEF Irss
  <2>2. x.req.type \notin {"REG", "CALL"}
    BY <1>14 DEF is_deregistration_request
  <2>3. \/ z = send_server_assignment_request([y EXCEPT !.irs = new], x.req.type)
        \/ z = DeleteThis(send_http_reply(y, 400))
    BY <1>5, <1>6, <1>14, <2>1, <2>2 DEF OnDeregister
  <2> HIDE DEF new
  <2> QED BY <1>7, <1>9, <2>1, <2>2, <2>3
<1>15. CASE /\ x.req.method # "GET" /\ x.req.type \notin {"REG", "CALL"}
            /\ ~is_deregistration_request(x.req.type)
  BY <1>6, <1>9, <1>10, <1>15
<1> QED BY <1>11, <1>12, <1>13, <1>14, <1>15

-----------------------------------------------------------------------------
(* One lemma for each callback: the task it leaves behind, and the rest.   *)

\* Task t makes a step, and a reply in it is true of the cache.
Steps(t) ==
  \E y \in TaskStates :
    /\ Become(t, y) /\ TaskInv(y)
    /\ y.replies # task[t].replies => Holds(y, cache'[public_id(y)])

\* The other variables are as they should be after the step.
Rest ==
  /\ hssConn' \in {"diameter", "hsprov"}
  /\ cache' \in [PublicIds -> Irss \cup {None}]
  /\ assigned' \in [PublicIds -> RegStates]
  /\ upsets' \subseteq UpsetKinds \cup {"overlap"}
  /\ \A k \in PublicIds : cache'[k] # None => cache'[k].reg # "NOT_REGISTERED"

\* If cache and HSS stay the same, so does the rest of the invariant.
LEMMA RestSame ==
  ASSUME IndInv, UNCHANGED <<hssConn, cache, assigned>>,
         upsets' \subseteq UpsetKinds \cup {"overlap"}
  PROVE  Rest
BY DEF IndInv, TypeOK, StoredInv, Rest

\* An upset is recorded, as one of its kinds.
LEMMA UpsetTypes ==
  ASSUME IndInv, NEW kind \in UpsetKinds, Upset(kind)
  PROVE  upsets' \subseteq UpsetKinds \cup {"overlap"} /\ ~(upsets' \subseteq upsets \cup {"overlap"})
<1>1. kind \notin upsets /\ upsets' = upsets \cup {kind} /\ kind # "overlap"
  BY DEF Upset, UpsetKinds
<1> QED BY <1>1 DEF IndInv, TypeOK

\* A step of one task that keeps its part and the rest keeps the invariant.
LEMMA KeepsInv ==
  ASSUME IndInv, NEW t \in Tasks, Steps(t), Rest
  PROVE  IndInv'
<1>1. PICK y \in TaskStates : Become(t, y) /\ TaskInv(y)
  BY DEF Steps
<1>2. task' \in [Tasks -> TaskStates] /\ \A u \in Tasks : TaskInv(task'[u])
  BY <1>1 DEF IndInv, TypeOK, Become
<1> QED BY <1>2 DEF IndInv, TypeOK, StoredInv, Rest

\* Run keeps the task's part and the rest.
LEMMA RunStep == ASSUME IndInv, NEW t \in Tasks, Run(t) PROVE Steps(t) /\ Rest
<1> DEFINE x == task[t]
           y == [x EXCEPT !.pc = "lookup"]
           z(code) == DeleteThis(send_http_reply(x, code))
<1>1. /\ x \in TaskStates /\ TaskInv(x) /\ x.pc = "new" /\ x.replies = 0
      /\ (x.req.impi # None => x.impi = x.req.impi)
  BY DEF IndInv, TypeOK, Run, TaskInv
<1>2. ASSUME NEW code \in {400, 405}
      PROVE  z(code) \in TaskStates /\ TaskInv(z(code)) /\ \A c : Holds(z(code), c)
  <2>1. code \in Codes
    BY SMTT(30), RefusalCodes
  <2>2. z(code) \in TaskStates /\ TaskInv(z(code)) /\ z(code).code = code
    BY SMTT(30), <1>1, <2>1, ReplyAndDelete
  <2> HIDE DEF z
  <2> QED BY SMTT(30), <2>2 DEF Holds
<1>3. y \in TaskStates /\ y.replies = 0 /\ y.pc = "lookup" /\ y.req = x.req /\ y.impi = x.impi
  BY SMTT(30), <1>1 DEF TaskStates
<1>4. \/ \E code \in {400, 405} : Become(t, z(code))
      \/ /\ Become(t, y) /\ x.req.method \in {"GET", "PUT"}
         /\ x.req.method = "PUT" => x.req.type # "UNKNOWN"
  BY SMTT(30) DEF Run
<1> HIDE DEF y, z
<1>5. ASSUME x.req.method \in {"GET", "PUT"}, x.req.method = "PUT" => x.req.type # "UNKNOWN"
      PROVE  TaskInv(y)
  BY <1>1, <1>3, <1>5 DEF TaskInv
<1>6. Steps(t)
  BY SMTT(30), <1>1, <1>2, <1>3, <1>4, <1>5 DEF Steps
<1>7. UNCHANGED <<hssConn, cache, assigned>> /\ upsets' \subseteq UpsetKinds \cup {"overlap"}
  BY DEF Run, IndInv, TypeOK
<1> QED BY <1>6, <1>7, RestSame

\* OnGetRegData keeps the task's part and the rest.
LEMMA OnGetRegDataStep == ASSUME IndInv, NEW t \in Tasks, OnGetRegData(t) PROVE Steps(t) /\ Rest
<1> DEFINE x == task[t]  k == public_id(x)
           y == process_received_reg_data(x, IrsOf(k))
           z == DeleteThis(send_http_reply(x, 404))
<1>1. /\ x \in TaskStates /\ TaskInv(x) /\ x.pc = "lookup" /\ x.replies = 0
      /\ (x.req.impi # None => x.impi = x.req.impi)
  BY DEF IndInv, TypeOK, OnGetRegData, TaskInv
<1>2. k \in PublicIds
  BY <1>1, PublicIdType
<1>3. Reads(IrsOf(k), cache[k])
  <2>1. NoIrs \in Irss /\ cache[k] \in Irss \cup {None}
    BY <1>2 DEF NoIrs, Irss, RegStates, IndInv, TypeOK
  <2> QED BY <2>1 DEF Reads, IrsOf, Cached
<1>4. y \in TaskStates /\ TaskInv(y) /\ HoldsAt(x, y, cache[k])
  BY <1>1, <1>3, ProcessReceived
<1>5. z \in TaskStates /\ TaskInv(z) /\ z.code = 404
  <2>1. 404 \in Codes
    BY SMTT(30), RefusalCodes
  <2> QED BY SMTT(30), <1>1, <2>1, ReplyAndDelete
<1>6. /\ Become(t, y) \/ Become(t, z)
      /\ UNCHANGED <<hssConn, cache, assigned, upsets>>
  BY DEF OnGetRegData
<1> HIDE DEF y, z
<1>7. Holds(y, cache'[public_id(y)]) /\ Holds(z, cache'[public_id(z)])
  <2>1. Silent(y) => Holds(y, cache[public_id(y)])
    BY SilentHolds
  <2>2. Holds(z, cache[public_id(z)])
    BY SMTT(30), <1>5 DEF Holds
  <2> QED BY <1>4, <1>6, <2>1, <2>2 DEF HoldsAt
<1>8. Steps(t)
  BY <1>4, <1>5, <1>6, <1>7 DEF Steps
<1> QED BY <1>6, <1>8, RestSame, SMTT(40) DEF IndInv, TypeOK

\* OnGetRegDataFailure keeps the task's part and the rest.
LEMMA OnGetRegDataFailureStep ==
  ASSUME IndInv, NEW t \in Tasks, OnGetRegDataFailure(t) PROVE Steps(t) /\ Rest
<1> DEFINE z == DeleteThis(send_http_reply(task[t], 504))
<1>1. /\ task[t] \in TaskStates /\ task[t].replies = 0
      /\ (task[t].req.impi # None => task[t].impi = task[t].req.impi)
  BY DEF IndInv, TypeOK, OnGetRegDataFailure, TaskInv
<1>2. z \in TaskStates /\ TaskInv(z) /\ z.code = 504
  <2>1. 504 \in Codes
    BY SMTT(30), RefusalCodes
  <2> QED BY SMTT(30), <1>1, <2>1, ReplyAndDelete
<1>3. Become(t, z) /\ UNCHANGED <<hssConn, cache, assigned>> /\ Upset("cacheFails")
  BY DEF OnGetRegDataFailure
<1> HIDE DEF z
<1>4. Steps(t)
  BY SMTT(30), <1>2, <1>3 DEF Steps, Holds
<1> QED BY <1>3, <1>4, RestSame, UpsetTypes DEF UpsetKinds

\* The HSS's or the database's answer, or its absence.
LEMMA SarStep ==
  ASSUME IndInv, NEW t \in Tasks, task[t].pc = "sar", NEW result \in ResultCodes,
         NEW data \in Data, NEW wildcard \in PublicIds \cup {None},
         Become(t, on_sar_response(task[t], result, data, wildcard))
  PROVE  Steps(t)
<1> DEFINE y == on_sar_response(task[t], result, data, wildcard)
<1>1. task[t] \in TaskStates /\ TaskInv(task[t])
  BY DEF IndInv, TypeOK
<1>2. y \in TaskStates /\ TaskInv(y) /\ Silent(y)
  BY <1>1, SarResponse
<1> HIDE DEF y
<1>3. Holds(y, cache'[public_id(y)])
  BY <1>2, SilentHolds
<1> QED BY <1>2, <1>3 DEF Steps, y

\* HssAccept keeps the task's part and the rest.
LEMMA HssAcceptStep ==
  ASSUME IndInv, NEW t \in Tasks, NEW data \in Data, HssAccept(t, data) PROVE Steps(t) /\ Rest
<1> DEFINE x == task[t]  y == [x EXCEPT !.saa = data]  k == public_id(x)
<1>1. x \in TaskStates /\ TaskInv(x) /\ x.pc = "sar"
  BY DEF IndInv, TypeOK, HssAccept
<1>2. /\ y \in TaskStates /\ y.pc = "sar" /\ y.req = x.req /\ y.impi = x.impi /\ y.irs = x.irs
      /\ y.sar = x.sar /\ y.replies = x.replies
  BY SMTT(30), <1>1 DEF TaskStates, Data
<1>3. /\ Become(t, y) /\ assigned' = [assigned EXCEPT ![k] = AssignedBy(x.sar, @)]
      /\ UNCHANGED <<hssConn, cache, upsets>>
  BY SMTT(40) DEF HssAccept
<1> HIDE DEF y
<1>4. TaskInv(y)
  BY <1>1, <1>2 DEF TaskInv
<1>5. AssignedBy(x.sar, assigned[k]) \in RegStates
  <2>1. x.sar \in SarTypes
    <3>1. x.req \in HttpRequests
      BY SMTT(30), <1>1 DEF TaskStates
    <3>2. x.req.type \in Types \cup {"UNKNOWN"} /\ x.req.type # "UNKNOWN"
      BY <1>1, <3>1, RequestTypes DEF TaskInv
    <3> QED BY <1>1, <3>2 DEF TaskInv, SarTypes
  <2>2. assigned[k] \in RegStates
    BY <1>1, PublicIdType DEF IndInv, TypeOK
  <2>3. \/ x.sar \in {"REGISTRATION", "RE_REGISTRATION"} \/ x.sar = "UNREGISTERED_USER"
        \/ is_deregistration_request(x.sar) \/ is_auth_failure_request(x.sar)
        \/ x.sar \in {"REG", "CALL"}
    BY <2>1 DEF SarTypes, Types, is_deregistration_request, is_auth_failure_request
  <2>4. x.sar \notin {"REG", "CALL"}
    BY <1>1 DEF TaskInv
  <2> QED BY <2>2, <2>3, <2>4 DEF AssignedBy, RegStates,
             is_deregistration_request, is_auth_failure_request
<1>6. assigned' \in [PublicIds -> RegStates]
  BY <1>3, <1>5 DEF IndInv, TypeOK
<1>7. Steps(t)
  BY <1>2, <1>3, <1>4 DEF Steps
<1> QED BY <1>3, <1>6, <1>7 DEF Rest, IndInv, TypeOK, StoredInv

\* HssAnswer keeps the task's part and the rest.
LEMMA HssAnswerStep ==
  ASSUME IndInv, NEW t \in Tasks,
         \/ OnAccepted(t) \/ OnAnswerLost(t)
         \/ \E result \in Rejections : OnRejected(t, result)
         \/ \E wildcard \in PublicIds : OnNewWildcard(t, wildcard)
         \/ \E r \in CassandraResults, row \in Rows : OnCassandraResult(t, r, row)
  PROVE  Steps(t) /\ Rest
<1>1. task[t] \in TaskStates
  BY DEF IndInv, TypeOK
<1>2. NoData \in Data /\ {"SUCCESS", "NEW_WILDCARD", TimeoutResult} \subseteq ResultCodes
  BY DEF NoData, Data, ResultCodes, TimeoutResult
<1>3. CASE OnAccepted(t)
  <2>1. task[t].saa \in Data
    BY SMTT(30), <1>1, <1>3 DEF OnAccepted, TaskStates, Data
  <2>2. Steps(t)
    BY <1>2, <1>3, <2>1, SarStep, SMTT(40) DEF OnAccepted
  <2> QED BY <1>3, <2>2, RestSame DEF OnAccepted, IndInv, TypeOK
<1>4. CASE OnAnswerLost(t)
  <2>1. Steps(t)
    BY <1>2, <1>4, SarStep DEF OnAnswerLost
  <2>2. upsets' \subseteq UpsetKinds \cup {"overlap"}
    BY <1>4, UpsetTypes DEF OnAnswerLost, UpsetKinds
  <2> QED BY <1>4, <2>1, <2>2, RestSame, SMTT(40) DEF OnAnswerLost
<1>5. ASSUME NEW result \in Rejections, OnRejected(t, result) PROVE Steps(t) /\ Rest
  <2>1. result \in ResultCodes
    BY DEF Rejections, SaaResult, ResultCodes
  <2>2. Steps(t)
    BY <1>2, <1>5, <2>1, SarStep, SMTT(40) DEF OnRejected
  <2> QED BY <1>5, <2>2, RestSame DEF OnRejected, IndInv, TypeOK
<1>6. ASSUME NEW wildcard \in PublicIds, OnNewWildcard(t, wildcard) PROVE Steps(t) /\ Rest
  <2>1. Steps(t)
    BY <1>2, <1>6, SarStep DEF OnNewWildcard
  <2> QED BY <1>6, <2>1, RestSame, SMTT(40) DEF OnNewWildcard, IndInv, TypeOK
<1>7. ASSUME NEW r \in CassandraResults, NEW row \in Rows, OnCassandraResult(t, r, row)
      PROVE  Steps(t) /\ Rest
  <2>1. HsProvResult(r) \in ResultCodes
    BY SMTT(40) DEF CassandraResults, HsProvResult, ResultCodes
  <2>2. GetRegData(row) \in Data
    BY RegDataAssumption, SMTT(40) DEF GetRegData, Data, RegDataConstants
  <2>3. /\ task[t].pc = "sar"
        /\ Become(t, on_sar_response(task[t], HsProvResult(r), GetRegData(row), None))
    BY <1>7 DEF OnCassandraResult
  <2>4. Steps(t)
    BY <2>1, <2>2, <2>3, SarStep
  <2> QED BY <1>7, <2>4, RestSame DEF OnCassandraResult, IndInv, TypeOK
<1> QED BY <1>3, <1>4, <1>5, <1>6, <1>7

\* What a put writes: the record of a subscriber who is known, and after a
\* registration is registered, with the private ID that has registered.
LEMMA PutRecord ==
  ASSUME IndInv, NEW t \in Tasks, task[t].pc = "put", NEW k \in PublicIds
  PROVE  LET x == task[t]  irs == Put(x, k) IN
         /\ irs \in Irss /\ irs.reg # "NOT_REGISTERED" /\ x.req.type \in {"REG", "CALL"}
         /\ x.req.type = "REG" => /\ irs.reg = "REGISTERED"
                                  /\ x.sar # "RE_REGISTRATION" => x.impi \in irs.impis
<1> DEFINE x == task[t]
           added == IF x.sar = "REGISTRATION" THEN {x.impi} ELSE {}
           merged == [x.irs EXCEPT !.impis = cache[k].impis \cup added]
<1>1. x \in TaskStates /\ TaskInv(x) /\ x.irs \in Irss /\ cache[k] \in Irss \cup {None}
  BY SMTT(40) DEF IndInv, TypeOK, TaskStates
<1>2. /\ x.req.type \in {"REG", "CALL"}
      /\ x.req.type = "REG" => /\ x.irs.reg = "REGISTERED"
                               /\ x.sar # "RE_REGISTRATION" =>
                                    x.sar = "REGISTRATION" /\ x.impi \in x.irs.impis
      /\ x.req.type = "CALL" => x.irs.reg = "UNREGISTERED" /\ x.sar = "UNREGISTERED_USER"
  <2>1. x.req.type \notin {"REG", "CALL"} => Assigns(x.req.type)
    BY <1>1 DEF TaskInv
  <2>2. x.req \in HttpRequests
    BY SMTT(30), <1>1 DEF TaskStates
  <2>3. x.req.type \in Types \cup {"UNKNOWN"}
    BY <2>2, RequestTypes
  <2>4. x.req.type \in {"REG", "CALL"}
    BY <2>1, <2>3 DEF Assigns, Types
  <2> QED BY <1>1, <2>4, SMTT(40) DEF TaskInv
<1>3. added \in SUBSET Devices
  BY <1>1, <1>2 DEF Irss
<1> HIDE DEF added
<1>4. ASSUME Cached(k) PROVE merged \in Irss /\ merged.reg = x.irs.reg /\ added \subseteq merged.impis
  <2>1. cache[k] \in Irss
    BY <1>1, <1>4 DEF Cached
  <2>2. cache[k].impis \cup added \in SUBSET Devices
    BY <1>3, <2>1 DEF Irss
  <2> QED BY <1>1, <2>2 DEF Irss
<1>5. x.sar = "REGISTRATION" => x.impi \in added
  BY DEF added
<1>6. /\ Put(x, k) \in {x.irs, merged, cache[k]}
      /\ Put(x, k) = merged => Cached(k) \/ Put(x, k) = x.irs
      /\ Put(x, k) = cache[k] => \/ Put(x, k) \in {x.irs, merged}
                                 \/ Cached(k) /\ x.irs.reg # "REGISTERED"
  BY DEF Put, added
<1>7. CASE Put(x, k) = x.irs
  BY <1>1, <1>2, <1>7
<1>8. CASE Cached(k) /\ Put(x, k) = merged
  <2> HIDE DEF merged
  <2> QED BY <1>2, <1>4, <1>5, <1>8
<1>9. CASE Cached(k) /\ Put(x, k) = cache[k] /\ x.irs.reg # "REGISTERED"
  BY <1>1, <1>2, <1>9 DEF Cached, IndInv, StoredInv
<1> HIDE DEF merged
<1> QED BY <1>6, <1>7, <1>8, <1>9, SMTT(40)

\* A put that succeeds changes the task's record only.
LEMMA CachePutRest ==
  ASSUME IndInv, NEW t \in Tasks, task[t].pc = "put", CachePut(task[t]),
         UNCHANGED <<hssConn, assigned>>, upsets' \subseteq UpsetKinds \cup {"overlap"}
  PROVE  /\ Rest /\ cache'[public_id(task[t])] = Put(task[t], public_id(task[t]))
         /\ \A k \in PublicIds : k # public_id(task[t]) => cache'[k] = cache[k]
<1> DEFINE k == public_id(task[t])
<1>1. task[t] \in TaskStates
  BY DEF IndInv, TypeOK
<1>2. k \in PublicIds
  BY <1>1, PublicIdType
<1>3. Put(task[t], k) \in Irss /\ Put(task[t], k).reg # "NOT_REGISTERED"
  BY <1>2, PutRecord
<1>4. cache' = [cache EXCEPT ![k] = Put(task[t], k)]
  BY DEF CachePut
<1> HIDE DEF k
<1>5. /\ cache' \in [PublicIds -> Irss \cup {None}] /\ cache'[k] = Put(task[t], k)
      /\ \A j \in PublicIds : j # k => cache'[j] = cache[j]
  BY <1>2, <1>3, <1>4 DEF IndInv, TypeOK
<1>6. \A j \in PublicIds : cache'[j] # None => cache'[j].reg # "NOT_REGISTERED"
  BY <1>3, <1>5 DEF IndInv, StoredInv
<1> QED BY <1>5, <1>6 DEF Rest, IndInv, TypeOK, k

\* So does a delete.
LEMMA CacheDeleteRest ==
  ASSUME IndInv, NEW t \in Tasks, CacheDelete(task[t]),
         UNCHANGED <<hssConn, assigned>>, upsets' \subseteq UpsetKinds \cup {"overlap"}
  PROVE  /\ Rest /\ cache'[public_id(task[t])] = None
         /\ \A k \in PublicIds : k # public_id(task[t]) => cache'[k] = cache[k]
<1> DEFINE k == public_id(task[t])
<1>1. task[t] \in TaskStates
  BY DEF IndInv, TypeOK
<1>2. k \in PublicIds
  BY <1>1, PublicIdType
<1>3. cache' = [cache EXCEPT ![k] = None]
  BY DEF CacheDelete
<1> HIDE DEF k
<1>4. /\ cache' \in [PublicIds -> Irss \cup {None}] /\ cache'[k] = None
      /\ \A j \in PublicIds : j # k => cache'[j] = cache[j]
  BY <1>2, <1>3 DEF IndInv, TypeOK
<1>5. \A j \in PublicIds : cache'[j] # None => cache'[j].reg # "NOT_REGISTERED"
  BY <1>4 DEF IndInv, StoredInv
<1> QED BY <1>4, <1>5 DEF Rest, IndInv, TypeOK, k

\* The reply after the local write.
LEMMA ReplySaved ==
  ASSUME NEW x \in TaskStates, TaskInv(x), x.pc \in {"put", "del"}
  PROVE  LET y == [send_reply(x) EXCEPT !.pc = "saved"] IN
         /\ y \in TaskStates /\ TaskInv(y) /\ y.pc = "saved" /\ public_id(y) = public_id(x)
         /\ y.req = x.req /\ y.impi = x.impi /\ y.sar = x.sar /\ y.irs = x.irs
         /\ SameTask(x, y)
<1> DEFINE z == send_http_reply(x, ReplyCode(x))
           y == [z EXCEPT !.pc = "saved"]
<1>1. x.replies = 0
  BY DEF TaskInv
<1>2. ReplyCode(x) \in Codes /\ send_reply(x) = z
  BY SendReply
<1>3. z \in TaskStates /\ z.replies = 1 /\ \A f \in Kept : z[f] = x[f]
  BY <1>1, <1>2, ReplyFields
<1> HIDE DEF z
<1>4. /\ y \in TaskStates /\ y.replies = 1 /\ y.pc = "saved"
      /\ y.req = x.req /\ y.impi = x.impi /\ y.sar = x.sar /\ y.irs = x.irs
      /\ y.wildcard = x.wildcard
  BY SMTT(30), <1>3 DEF TaskStates, Kept
<1>5. TaskInv(y)
  BY <1>4 DEF TaskInv
<1>6. public_id(y) = public_id(x)
  BY SMTT(30), <1>4 DEF public_id, wildcard_id
<1>7. SameTask(x, y)
  <2>1. SameTask(x, z)
    BY <1>3, KeptSame
  <2> QED BY SMTT(30), <1>3, <2>1 DEF TaskStates, SameTask
<1> QED BY <1>2, <1>4, <1>5, <1>6, <1>7

\* OnPutProgress keeps the task's part and the rest.
LEMMA OnPutProgressStep == ASSUME IndInv, NEW t \in Tasks, OnPutProgress(t) PROVE Steps(t) /\ Rest
<1> DEFINE x == task[t]  k == public_id(x)
           y == [send_reply(x) EXCEPT !.pc = "saved"]
<1>1. x \in TaskStates /\ TaskInv(x) /\ x.pc = "put"
  BY DEF IndInv, TypeOK, OnPutProgress
<1>2. /\ y \in TaskStates /\ TaskInv(y) /\ public_id(y) = k
      /\ y.req = x.req /\ y.impi = x.impi /\ y.sar = x.sar
  BY <1>1, ReplySaved
<1>3. Become(t, y) /\ CachePut(x) /\ UNCHANGED <<hssConn, assigned, upsets>>
  BY DEF OnPutProgress
<1> HIDE DEF y
<1>4. Rest /\ cache'[k] = Put(x, k)
  BY <1>1, <1>3, CachePutRest DEF IndInv, TypeOK
<1>5. k \in PublicIds
  BY <1>1, PublicIdType, SMTT(40)
<1>6. /\ Put(x, k) \in Irss /\ Put(x, k).reg # "NOT_REGISTERED" /\ x.req.type \in {"REG", "CALL"}
      /\ x.req.type = "REG" => /\ Put(x, k).reg = "REGISTERED"
                               /\ x.sar # "RE_REGISTRATION" => x.impi \in Put(x, k).impis
  BY <1>1, <1>5, PutRecord
<1>7. Put(x, k) # None
  BY <1>6, NoneNoIrs
<1>8. Holds(y, Put(x, k))
  BY <1>1, <1>2, <1>6, <1>7 DEF Holds, is_deregistration_request, TaskInv
<1> QED BY <1>2, <1>3, <1>4, <1>8 DEF Steps

\* OnPutFailure keeps the task's part and the rest.
LEMMA OnPutFailureStep == ASSUME IndInv, NEW t \in Tasks, OnPutFailure(t) PROVE Steps(t) /\ Rest
<1> DEFINE x == task[t]  z == DeleteThis(send_http_reply(x, 503))
<1>1. /\ x \in TaskStates /\ x.pc = "put" /\ x.replies = 0
      /\ (x.req.impi # None => x.impi = x.req.impi)
  BY DEF IndInv, TypeOK, OnPutFailure, TaskInv
<1>2. z \in TaskStates /\ TaskInv(z) /\ z.code = 503
  <2>1. 503 \in Codes
    BY SMTT(30), RefusalCodes
  <2> QED BY SMTT(30), <1>1, <2>1, ReplyAndDelete
<1>3. /\ Become(t, z) /\ UNCHANGED <<hssConn, assigned>> /\ Upset("cacheFails")
      /\ CachePut(x) \/ UNCHANGED cache
  BY DEF OnPutFailure
<1> HIDE DEF z
<1>4. Steps(t)
  BY SMTT(30), <1>2, <1>3 DEF Steps, Holds
<1>5. upsets' \subseteq UpsetKinds \cup {"overlap"}
  BY <1>3, UpsetTypes DEF UpsetKinds
<1> QED BY <1>1, <1>3, <1>4, <1>5, CachePutRest, RestSame, SMTT(40)

\* OnDelete keeps the task's part and the rest.
LEMMA OnDeleteStep ==
  ASSUME IndInv, NEW t \in Tasks, OnDeleteProgress(t) \/ OnDeleteNotFound(t)
  PROVE  Steps(t) /\ Rest
<1> DEFINE x == task[t]  k == public_id(x)
           y == [send_reply(x) EXCEPT !.pc = "saved"]
           z == DeleteThis(send_reply(x))
<1>1. /\ x \in TaskStates /\ TaskInv(x) /\ x.pc = "del" /\ Working(x)
      /\ x.req.type \notin {"REG", "CALL"}
  BY DEF IndInv, TypeOK, OnDeleteProgress, OnDeleteNotFound, TaskInv, Working,
         is_deregistration_request
<1>2. y \in TaskStates /\ TaskInv(y) /\ public_id(y) = k /\ y.req = x.req
  BY <1>1, ReplySaved, SMTT(40)
<1>3. z \in TaskStates /\ TaskInv(z) /\ public_id(z) = k /\ z.req = x.req
  BY <1>1, ReplyNow DEF Kept, public_id, wildcard_id
<1>4. UNCHANGED <<hssConn, assigned, upsets>>
  BY DEF OnDeleteProgress, OnDeleteNotFound
<1>5. \/ Become(t, y) /\ CacheDelete(x)
      \/ Become(t, z) /\ UNCHANGED cache /\ ~Cached(k)
  BY DEF OnDeleteProgress, OnDeleteNotFound
<1>6. Rest /\ cache'[k] = None
  BY <1>4, <1>5, CacheDeleteRest, RestSame DEF IndInv, TypeOK, Cached
<1> HIDE DEF y, z
<1>7. Holds(y, None) /\ Holds(z, None)
  BY <1>1, <1>2, <1>3 DEF Holds
<1> QED BY <1>2, <1>3, <1>5, <1>6, <1>7 DEF Steps

\* OnDeleteFailure keeps the task's part and the rest.
LEMMA OnDeleteFailureStep ==
  ASSUME IndInv, NEW t \in Tasks, OnDeleteFailure(t) PROVE Steps(t) /\ Rest
<1> DEFINE x == task[t]
           code == IF x.rc = 200 THEN 503 ELSE x.rc
           z == DeleteThis(send_http_reply(x, code))
<1>1. /\ x \in TaskStates /\ x.replies = 0 /\ (x.req.impi # None => x.impi = x.req.impi)
  BY DEF IndInv, TypeOK, OnDeleteFailure, TaskInv
<1>2. code \in Codes /\ code # 200
  BY <1>1, SMTT(40) DEF Codes, TaskStates
<1>3. /\ Become(t, z) /\ UNCHANGED <<hssConn, assigned>> /\ Upset("cacheFails")
      /\ CacheDelete(x) \/ UNCHANGED cache
  BY DEF OnDeleteFailure
<1> HIDE DEF code
<1>4. z \in TaskStates /\ TaskInv(z) /\ z.code = code
  BY <1>1, <1>2, ReplyAndDelete
<1> HIDE DEF z
<1>5. Steps(t)
  BY <1>2, <1>3, <1>4 DEF Steps, Holds
<1>6. upsets' \subseteq UpsetKinds \cup {"overlap"}
  BY <1>3, UpsetTypes DEF UpsetKinds
<1> QED BY <1>3, <1>5, <1>6, CacheDeleteRest, RestSame, SMTT(40)

\* OnCacheSuccess keeps the task's part and the rest.
LEMMA OnCacheSuccessStep ==
  ASSUME IndInv, NEW t \in Tasks, OnCacheSuccess(t) PROVE Steps(t) /\ Rest
<1> DEFINE x == task[t]  y == DeleteThis(x)
<1>1. /\ x \in TaskStates /\ x.replies = 1 /\ (x.req.impi # None => x.impi = x.req.impi)
  BY DEF IndInv, TypeOK, OnCacheSuccess, TaskInv
<1>2. /\ y \in TaskStates /\ y.pc = "gone" /\ y.replies = 1 /\ y.req = x.req /\ y.impi = x.impi
  BY <1>1, DeleteFields, SMTT(40) DEF Kept
<1>3. Become(t, y) /\ UNCHANGED <<hssConn, cache, assigned, upsets>>
  BY DEF OnCacheSuccess
<1> HIDE DEF y
<1>4. TaskInv(y)
  BY <1>1, <1>2 DEF TaskInv
<1>5. Steps(t)
  BY <1>1, <1>2, <1>3, <1>4 DEF Steps
<1> QED BY <1>3, <1>5, RestSame, SMTT(40) DEF IndInv, TypeOK

\* A record ages or expires.
LEMMA TimeStep ==
  ASSUME IndInv, NEW k \in PublicIds, Age(k) \/ Expire(k) PROVE Rest /\ task' = task
<1>1. /\ UNCHANGED <<hssConn, assigned, task>> /\ (Upset("ages") \/ Upset("expires"))
      /\ cache[k] # None
      /\ \/ cache' = [cache EXCEPT ![k].aged = TRUE]
         \/ cache' = [cache EXCEPT ![k] = None]
  BY DEF Age, Expire, Cached
<1>2. upsets' \subseteq UpsetKinds \cup {"overlap"}
  BY <1>1, UpsetTypes DEF UpsetKinds
<1>3. cache[k] \in Irss /\ cache[k].reg # "NOT_REGISTERED"
  BY <1>1 DEF IndInv, TypeOK, StoredInv
<1>4. LET irs == [cache[k] EXCEPT !.aged = TRUE] IN irs \in Irss /\ irs.reg = cache[k].reg
  BY <1>3 DEF Irss
<1>5. \A j \in PublicIds : cache'[j] \in {cache[j], None, [cache[k] EXCEPT !.aged = TRUE]}
  BY <1>1 DEF IndInv, TypeOK
<1>6. cache' \in [PublicIds -> Irss \cup {None}]
  BY <1>1, <1>4 DEF IndInv, TypeOK
<1>7. \A j \in PublicIds : cache'[j] # None => cache'[j].reg # "NOT_REGISTERED"
  BY <1>3, <1>4, <1>5 DEF IndInv, StoredInv
<1> QED BY <1>1, <1>2, <1>6, <1>7 DEF Rest, IndInv, TypeOK

-----------------------------------------------------------------------------
(* The invariant is inductive.                                             *)

\* Every step of a task keeps its part and the rest.
LEMMA TaskStep ==
  ASSUME IndInv, NEW t \in Tasks, Run(t) \/ HssStep(t) \/ CacheStep(t)
  PROVE  Steps(t) /\ Rest
<1>1. CASE Run(t)
  BY <1>1, RunStep
<1>2. CASE HssStep(t)
  <2>1. CASE \E doc \in Documents, charging \in Charging :
               HssAccept(t, [doc |-> doc, charging |-> charging])
    <3>1. PICK doc \in Documents, charging \in Charging :
                 HssAccept(t, [doc |-> doc, charging |-> charging])
      BY <2>1
    <3>2. [doc |-> doc, charging |-> charging] \in Data
      BY DEF Data
    <3> QED BY <3>1, <3>2, HssAcceptStep
  <2>2. CASE \/ OnAccepted(t) \/ OnAnswerLost(t)
             \/ \E result \in Rejections : OnRejected(t, result)
             \/ \E wildcard \in PublicIds : OnNewWildcard(t, wildcard)
             \/ \E r \in CassandraResults, row \in Rows : OnCassandraResult(t, r, row)
    BY <2>2, HssAnswerStep
  <2> QED BY <1>2, <2>1, <2>2 DEF HssStep
<1>3. CASE CacheStep(t)
  BY <1>3, OnGetRegDataStep, OnGetRegDataFailureStep, OnPutProgressStep, OnPutFailureStep,
     OnDeleteStep, OnDeleteFailureStep, OnCacheSuccessStep DEF CacheStep
<1> QED BY <1>1, <1>2, <1>3

\* The initial states satisfy the invariant.
LEMMA InitInd == Init => IndInv
<1> SUFFICES ASSUME Init PROVE IndInv
  OBVIOUS
<1>1. /\ cache \in [PublicIds -> Irss \cup {None}]
      /\ \A k \in PublicIds : cache[k] # None => cache[k].reg # "NOT_REGISTERED"
  BY RegDataAssumption DEF Init, RegDataConstants
<1>2. NoIrs \in Irss
  BY DEF NoIrs, Irss, RegStates
<1>3. \A k \in PublicIds : IrsOf(k).reg \in RegStates
  BY <1>1, <1>2 DEF IrsOf, Cached, Irss
<1>4. assigned \in [PublicIds -> RegStates]
  BY <1>3, SMTT(40) DEF Init
<1>5. ASSUME NEW r \in HttpRequests PROVE NewTask(r) \in TaskStates /\ TaskInv(NewTask(r))
  <2>1. r.impi \in Devices
    BY RequestTypes
  <2>2. NewTask(r) \in TaskStates
    BY <1>2, <2>1, SMTT(40) DEF NewTask, TaskStates, RegStates, SarTypes, ResultCodes
  <2>3. /\ NewTask(r).pc = "new" /\ NewTask(r).replies = 0
        /\ NewTask(r).req = r /\ NewTask(r).impi = r.impi
    BY DEF NewTask
  <2>4. TaskInv(NewTask(r))
    BY <2>3 DEF TaskInv
  <2> QED BY <2>2, <2>4
<1>6. task \in [Tasks -> TaskStates] /\ \A t \in Tasks : TaskInv(task[t])
  BY <1>5 DEF Init
<1> QED BY <1>1, <1>4, <1>6 DEF Init, IndInv, TypeOK, StoredInv

\* Every step keeps the invariant.
LEMMA NextInd == IndInv /\ [Next]_vars => IndInv'
<1> SUFFICES ASSUME IndInv, [Next]_vars PROVE IndInv'
  OBVIOUS
<1>1. CASE \E t \in Tasks : Run(t) \/ HssStep(t) \/ CacheStep(t)
  BY <1>1, TaskStep, KeepsInv
<1>2. CASE \E k \in PublicIds : Age(k) \/ Expire(k)
  <2>1. Rest /\ task' = task
    BY <1>2, TimeStep
  <2> QED BY <2>1 DEF IndInv, TypeOK, StoredInv, Rest
<1>3. CASE UNCHANGED vars
  BY <1>3 DEF vars, IndInv, TypeOK, StoredInv
<1> QED BY <1>1, <1>2, <1>3 DEF Next

\* The invariant holds in all behaviours.
LEMMA Inductive == Spec => []IndInv
BY InitInd, NextInd, PTL DEF Spec

\* A step changes the state of its own task only.
LEMMA Becomes ==
  ASSUME IndInv, NEW t \in Tasks, NEW y, Become(t, y)
  PROVE  task'[t] = y /\ \A u \in Tasks : u # t => task'[u] = task[u]
BY DEF IndInv, TypeOK, Become

\* What the HSS has assigned by a SAR is what the task will write.
LEMMA AssignedState ==
  ASSUME NEW x \in TaskStates, TaskInv(x), x.pc \in {"sar", "put"}, Assigns(x.sar)
  PROVE  x.req.type \in {"REG", "CALL"} /\ \A state : AssignedBy(x.sar, state) = x.irs.reg
<1>1. x.req \in HttpRequests
  BY SMTT(30) DEF TaskStates
<1>2. x.req.type \in Types \cup {"UNKNOWN"}
  BY <1>1, RequestTypes
<1>3. x.req.type \in {"REG", "CALL"}
  BY <1>2 DEF TaskInv, Assigns, Types
<1>4. CASE x.req.type = "REG"
  <2>1. x.sar \in {"REGISTRATION", "RE_REGISTRATION"} /\ x.irs.reg = "REGISTERED"
    BY <1>4 DEF TaskInv
  <2> QED BY <1>3, <2>1 DEF AssignedBy, is_deregistration_request, is_auth_failure_request
<1>5. CASE x.req.type = "CALL"
  <2>1. x.sar = "UNREGISTERED_USER" /\ x.irs.reg = "UNREGISTERED"
    BY <1>5 DEF TaskInv
  <2> QED BY <1>3, <2>1 DEF AssignedBy, is_deregistration_request, is_auth_failure_request
<1> QED BY <1>3, <1>4, <1>5

\* A SAR that is under way assigns a state, reports a failed authentication or
\* ends a registration.
LEMMA SarKinds ==
  ASSUME NEW x \in TaskStates, TaskInv(x), x.pc = "sar"
  PROVE  \/ Assigns(x.sar) \/ is_auth_failure_request(x.sar)
         \/ is_deregistration_request(x.req.type)
<1>1. x.req \in HttpRequests /\ x.req.type # "UNKNOWN"
  BY SMTT(30) DEF TaskStates, TaskInv
<1>2. x.req.type \in Types
  BY <1>1, RequestTypes
<1>3. /\ x.req.type = "REG" => x.sar \in {"REGISTRATION", "RE_REGISTRATION"}
      /\ x.req.type = "CALL" => x.sar = "UNREGISTERED_USER"
      /\ x.req.type \notin {"REG", "CALL"} => x.sar = x.req.type
  BY DEF TaskInv
<1> QED BY <1>2, <1>3 DEF Assigns, Types, is_auth_failure_request, is_deregistration_request

-----------------------------------------------------------------------------
(* A step of a task with a Diameter HSS, seen from outside.                *)

Says200(x, y) == y.replies # x.replies /\ y.code = 200

\* What a step makes y of task x, when c is what the cache has for its public ID.
Moved(x, y, c) ==
  /\ y.req = x.req /\ public_id(y) = public_id(x)
  /\ x.pc = "new" => y.pc \in {"lookup", "gone"} /\ y.saa = x.saa /\ ~Says200(x, y)
  /\ x.pc = "lookup" =>
       /\ y.pc \in {"sar", "gone"} /\ y.saa = x.saa
       /\ y.pc = "sar" =>
            /\ x.req.type = "CALL" => c = None
            /\ \A i \in y.irs.impis : \/ c # None /\ i \in c.impis
                                      \/ Adds(x, i)
       /\ Says200(x, y) /\ x.req.type = "REG" => c # None /\ y.irs = c
  /\ x.pc = "sar" =>
       /\ y.pc \in {"put", "del", "gone"} /\ y.saa = None /\ y.sar = x.sar
       /\ y.irs.reg = x.irs.reg /\ y.irs.impis = x.irs.impis
       /\ y.pc = "put" \/ (Says200(x, y) /\ x.req.type = "REG") =>
            x.saa # None /\ y.irs.doc = x.saa.doc /\ y.irs.charging = x.saa.charging
       /\ y.heard = "SUCCESS" =>
            /\ Assigns(x.sar) /\ x.saa.doc.form = "good" => y.pc = "put"
            /\ is_deregistration_request(x.req.type) => y.pc = "del"
  /\ x.pc \in {"put", "del", "saved"} => y.pc \in {"saved", "gone"} /\ SameTask(x, y)
  /\ x.pc = "saved" => ~Says200(x, y)

\* What task x has put where c was.
PutBy(x, c, irs) ==
  /\ \/ irs = c /\ c # None /\ x.req.type # "REG"
     \/ irs.reg = x.irs.reg /\ irs.doc = x.irs.doc /\ irs.charging = x.irs.charging
  /\ \A i \in irs.impis : i \in x.irs.impis \/ (c # None /\ i \in c.impis)

\* What the step does to the cache.
Wrote(x) ==
  LET k == public_id(x) IN
  /\ \A j \in PublicIds : j # k => cache'[j] = cache[j]
  /\ \/ /\ cache' = cache
        /\ x.pc \in {"put", "del"} =>
             "cacheFails" \in upsets' \/ (x.pc = "del" /\ cache[k] = None)
     \/ x.pc = "put" /\ PutBy(x, cache[k], cache'[k]) /\ cache'[k] # None
     \/ x.pc = "del" /\ cache'[k] = None

Moves(t) ==
  /\ task[t].pc # "gone" /\ Moved(task[t], task'[t], cache[public_id(task[t])])
  /\ \A u \in Tasks : u # t => task'[u] = task[u]
  /\ UNCHANGED <<hssConn, assigned>> /\ upsets \subseteq upsets'
  /\ task[t].pc = "new" => Busy = {} \/ "overlap" \in upsets'
  /\ task[t].pc = "sar" /\ task[t].saa # None =>
       task'[t].heard = "SUCCESS" \/ "answerLost" \in upsets'
  /\ Wrote(task[t])


\* What a put makes of a record.
LEMMA PutByTask ==
  ASSUME IndInv, NEW t \in Tasks, task[t].pc = "put", NEW k
  PROVE  PutBy(task[t], cache[k], Put(task[t], k))
<1> DEFINE x == task[t]
           added == IF x.sar = "REGISTRATION" THEN {x.impi} ELSE {}
           merged == [x.irs EXCEPT !.impis = cache[k].impis \cup added]
<1>1. /\ x \in TaskStates /\ TaskInv(x) /\ Assigns(x.sar)
  BY DEF IndInv, TypeOK, TaskInv
<1>2. /\ x.req.type \in {"REG", "CALL"} /\ x.irs \in Irss
      /\ x.req.type = "REG" => x.irs.reg = "REGISTERED"
  <2>1. x.req.type \in {"REG", "CALL"}
    BY <1>1, AssignedState
  <2> QED BY SMTT(30), <1>1, <2>1 DEF TaskStates, TaskInv
<1>3. added \subseteq x.irs.impis
  BY <1>1, <1>2 DEF TaskInv
<1> HIDE DEF added
<1>4. /\ merged.reg = x.irs.reg /\ merged.doc = x.irs.doc /\ merged.charging = x.irs.charging
      /\ merged.impis = cache[k].impis \cup added
  BY <1>2 DEF Irss
<1>5. \/ Put(x, k) = x.irs
      \/ Cached(k) /\ Put(x, k) = merged
      \/ Cached(k) /\ Put(x, k) = cache[k] /\ x.irs.reg # "REGISTERED"
  BY DEF Put, added
<1> HIDE DEF merged, x
<1> QED BY <1>2, <1>3, <1>4, <1>5 DEF PutBy, Cached, x

\* Starting a task is a move.
LEMMA RunMoves ==
  ASSUME IndInv, NEW t \in Tasks, Run(t) PROVE Moves(t)
<1> DEFINE x == task[t]
           y == [x EXCEPT !.pc = "lookup"]
           z(code) == DeleteThis(send_http_reply(x, code))
<1>1. /\ x \in TaskStates /\ x.pc = "new" /\ x.replies = 0
      /\ (x.req.impi # None => x.impi = x.req.impi)
  BY DEF IndInv, TypeOK, Run, TaskInv
<1>2. y.pc = "lookup" /\ y.replies = x.replies /\ Alike(x, y)
  BY SMTT(30), <1>1 DEF TaskStates, Alike
<1>3. ASSUME NEW code \in {400, 405} PROVE z(code).pc = "gone" /\ z(code).code # 200 /\ Alike(x, z(code))
  <2>1. code \in Codes
    BY SMTT(30), RefusalCodes
  <2>2. z(code).pc = "gone" /\ z(code).code = code
    BY SMTT(30), <1>1, <2>1, ReplyAndDelete
  <2> QED BY SMTT(30), <1>1, <2>2, AlikeEnds
<1>4. Become(t, y) \/ \E code \in {400, 405} : Become(t, z(code))
  BY DEF Run
<1> HIDE DEF y, z
<1>5. /\ task'[t].pc \in {"lookup", "gone"} /\ Alike(x, task'[t]) /\ ~Says200(x, task'[t])
      /\ \A u \in Tasks : u # t => task'[u] = task[u]
  BY SMTT(30), <1>2, <1>3, <1>4, Becomes DEF Says200
<1>6. Moved(x, task'[t], cache[public_id(x)])
  BY <1>1, <1>5 DEF Moved, Alike, public_id, wildcard_id
<1>7. /\ UNCHANGED <<hssConn, cache, assigned>> /\ upsets \subseteq upsets'
      /\ Busy = {} \/ "overlap" \in upsets'
  BY DEF Run
<1> QED BY <1>1, <1>5, <1>6, <1>7 DEF Moves, Wrote

\* The outcomes of the lookup are moves.
LEMMA LookupMoves ==
  ASSUME IndInv, hssConn = "diameter", NEW t \in Tasks, OnGetRegData(t) \/ OnGetRegDataFailure(t)
  PROVE  Moves(t)
<1> DEFINE x == task[t]  k == public_id(x)
           y == process_received_reg_data(x, IrsOf(k))
           z(code) == DeleteThis(send_http_reply(x, code))
<1>1. /\ x \in TaskStates /\ TaskInv(x) /\ x.pc = "lookup" /\ x.replies = 0
      /\ (x.req.impi # None => x.impi = x.req.impi) /\ x.req.method \in {"GET", "PUT"}
  BY DEF IndInv, TypeOK, OnGetRegData, OnGetRegDataFailure, TaskInv
<1>2. k \in PublicIds
  BY <1>1, PublicIdType
<1>3. Reads(IrsOf(k), cache[k])
  <2>1. NoIrs \in Irss /\ cache[k] \in Irss \cup {None}
    BY <1>2 DEF NoIrs, Irss, RegStates, IndInv, TypeOK
  <2> QED BY <2>1 DEF Reads, IrsOf, Cached
<1>4. LookedUp(x, IrsOf(k), y)
  BY <1>1, <1>3, LookupOutcome
<1>5. ASSUME NEW code \in {404, 504} PROVE z(code).pc = "gone" /\ z(code).code # 200 /\ Alike(x, z(code))
  <2>1. code \in Codes
    BY SMTT(30), RefusalCodes
  <2>2. z(code).pc = "gone" /\ z(code).code = code
    BY <1>1, <2>1, ReplyAndDelete
  <2> QED BY SMTT(30), <1>1, <2>2, AlikeEnds
<1>6. \/ Become(t, y) /\ (Cached(k) \/ x.req.method # "GET")
      \/ \E code \in {404, 504} : Become(t, z(code))
  BY DEF OnGetRegData, OnGetRegDataFailure
<1> HIDE DEF y, z
<1>7. /\ \A u \in Tasks : u # t => task'[u] = task[u]
      /\ \/ task'[t] = y /\ (Cached(k) \/ x.req.method # "GET")
         \/ task'[t].pc = "gone" /\ task'[t].code # 200 /\ Alike(x, task'[t])
  BY SMTT(30), <1>5, <1>6, Becomes
<1>8. ASSUME task'[t] = y, Cached(k) \/ x.req.method # "GET"
      PROVE  Moved(x, task'[t], cache[k])
  <2>1. /\ Cached(k) => IrsOf(k) = cache[k] /\ cache[k].reg # "NOT_REGISTERED"
        /\ ~Cached(k) => cache[k] = None /\ IrsOf(k).reg = "NOT_REGISTERED" /\ IrsOf(k).impis = {}
    BY <1>2 DEF IrsOf, Cached, NoIrs, IndInv, StoredInv
  <2>2. /\ Alike(x, y) /\ y.pc \in {"sar", "gone"}
        /\ y.pc = "sar" =>
             /\ x.req.type = "CALL" => cache[k] = None
             /\ \A i \in y.irs.impis : \/ cache[k] # None /\ i \in cache[k].impis
                                       \/ Adds(x, i)
    BY <1>4, <2>1 DEF LookedUp, Cached
  <2>3. y.pc = "gone" /\ x.req.type = "REG" => cache[k] # None /\ y.irs = cache[k]
    BY <1>1, <1>4, <1>8, <2>1 DEF LookedUp, Cached
  <2>4. y.pc = "sar" => ~Says200(x, y)
    <3>1. TaskInv(y)
      BY <1>1, <1>3, ProcessReceived DEF y
    <3> QED BY <1>1, <3>1 DEF TaskInv, Says200
  <2> QED BY <1>1, <1>8, <2>2, <2>3, <2>4 DEF Moved, Alike, public_id, wildcard_id
<1>9. ASSUME task'[t].pc = "gone", task'[t].code # 200, Alike(x, task'[t])
      PROVE  Moved(x, task'[t], cache[k])
  BY <1>1, <1>9, ZenonT(90) DEF Moved, Alike, Says200, public_id, wildcard_id
<1>10. UNCHANGED <<hssConn, cache, assigned>> /\ upsets \subseteq upsets'
  BY DEF OnGetRegData, OnGetRegDataFailure, Upset
<1> QED BY <1>1, <1>7, <1>8, <1>9, <1>10 DEF Moves, Wrote

\* The answers of the HSS, and their loss, are moves.
LEMMA AnswerMoves ==
  ASSUME IndInv, hssConn = "diameter", NEW t \in Tasks,
         \/ OnAccepted(t) \/ OnAnswerLost(t)
         \/ \E result \in Rejections : OnRejected(t, result)
  PROVE  Moves(t)
<1> DEFINE x == task[t]
           answer(result, data) == on_sar_response(x, result, data, None)
<1>1. /\ x \in TaskStates /\ TaskInv(x) /\ x.pc = "sar" /\ x.replies = 0
      /\ UNCHANGED <<hssConn, cache, assigned>> /\ upsets \subseteq upsets'
  BY DEF IndInv, TypeOK, TaskInv, OnAccepted, OnAnswerLost, OnRejected, Upset
<1>2. PICK result \in ResultCodes, data \in Data :
        /\ Become(t, answer(result, data)) /\ result # "NEW_WILDCARD"
        /\ result = "SUCCESS" => x.saa # None /\ data = x.saa
        /\ x.saa # None => result = "SUCCESS" \/ "answerLost" \in upsets'
  <2>1. NoData \in Data /\ "SUCCESS" \in ResultCodes /\ TimeoutResult \in ResultCodes \ {"SUCCESS", "NEW_WILDCARD"}
    BY DEF NoData, Data, ResultCodes, TimeoutResult
  <2>2. Rejections \subseteq ResultCodes \ {"SUCCESS", "NEW_WILDCARD"}
    BY DEF Rejections, SaaResult, ResultCodes
  <2>3. x.saa \in Data \cup {None}
    BY <1>1 DEF TaskStates
  <2> HIDE DEF answer, x
  <2>4. CASE OnAccepted(t)
    BY <2>1, <2>3, <2>4 DEF OnAccepted, answer, x
  <2>5. CASE OnAnswerLost(t)
    BY <2>1, <2>5 DEF OnAnswerLost, Upset, answer, x
  <2>6. CASE \E result \in Rejections : OnRejected(t, result)
    BY <2>1, <2>2, <2>6 DEF OnRejected, answer, x
  <2> QED BY <2>4, <2>5, <2>6
<1> DEFINE y == answer(result, data)
<1>3. TaskInv(y) /\ SarOutcome(x, result, data, y)
  BY <1>1, SarResponse
<1> HIDE DEF answer, y
<1>4. task'[t] = y /\ \A u \in Tasks : u # t => task'[u] = task[u]
  BY <1>2, Becomes DEF y
<1>5. /\ y.heard = result /\ y.saa = None /\ y.sar = x.sar /\ y.req = x.req
      /\ public_id(y) = public_id(x) /\ y.pc \in {"put", "del", "gone"}
      /\ y.irs.reg = x.irs.reg /\ y.irs.impis = x.irs.impis
      /\ result = "SUCCESS" /\ Assigns(x.sar) =>
           /\ y.pc = "put" \/ (y.pc = "gone" /\ y.irs.doc.form # "good")
           /\ y.irs.doc = data.doc /\ y.irs.charging = data.charging
      /\ result = "SUCCESS" /\ is_deregistration_request(x.req.type) => y.pc = "del"
      /\ result # "SUCCESS" => ~Says200(x, y)
  BY <1>1, <1>2, <1>3 DEF SarOutcome, Says200
<1>6. y.pc = "put" => result = "SUCCESS" /\ Assigns(x.sar)
  BY <1>3, <1>5 DEF TaskInv
<1>7. x.req.type = "REG" => Assigns(x.sar)
  BY <1>1 DEF TaskInv, Assigns
<1>8. Moved(x, y, cache[public_id(x)])
  BY <1>1, <1>2, <1>5, <1>6, <1>7 DEF Moved
<1> QED BY <1>1, <1>2, <1>4, <1>5, <1>8 DEF Moves, Wrote

\* What a task makes of itself when it has written, or failed to.
LEMMA WriteMoves ==
  ASSUME IndInv, NEW t \in Tasks, task[t].pc \in {"put", "del", "saved"}, NEW y, Become(t, y),
         y.pc \in {"saved", "gone"}, SameTask(task[t], y),
         task[t].pc = "saved" => y.replies = task[t].replies,
         UNCHANGED <<hssConn, assigned>>, upsets \subseteq upsets', Wrote(task[t])
  PROVE  Moves(t)
<1>1. task'[t] = y /\ \A u \in Tasks : u # t => task'[u] = task[u]
  BY Becomes
<1>2. Moved(task[t], y, cache[public_id(task[t])])
  BY DEF Moved, SameTask, Says200, public_id, wildcard_id
<1> QED BY <1>1, <1>2 DEF Moves

\* The outcomes of a put are moves.
LEMMA PutMoves ==
  ASSUME IndInv, NEW t \in Tasks, OnPutProgress(t) \/ OnPutFailure(t) PROVE Moves(t)
<1> DEFINE x == task[t]  k == public_id(x)
           y == [send_reply(x) EXCEPT !.pc = "saved"]
           z == DeleteThis(send_http_reply(x, 503))
<1>1. /\ x \in TaskStates /\ TaskInv(x) /\ x.pc = "put" /\ x.replies = 0
      /\ (x.req.impi # None => x.impi = x.req.impi)
      /\ UNCHANGED <<hssConn, assigned>> /\ upsets \subseteq upsets'
  BY DEF IndInv, TypeOK, TaskInv, OnPutProgress, OnPutFailure, Upset
<1>2. y.pc = "saved" /\ SameTask(x, y)
  BY <1>1, ReplySaved
<1>3. z.pc = "gone" /\ SameTask(x, z)
  <2>1. z.pc = "gone" /\ \A f \in Kept : z[f] = x[f]
    BY SMTT(30), <1>1, ReplyAndDelete DEF Codes
  <2> QED BY SMTT(30), <2>1, KeptSame
<1>4. /\ Become(t, y) \/ Become(t, z)
      /\ CachePut(x) \/ (cache' = cache /\ "cacheFails" \in upsets')
  BY DEF OnPutProgress, OnPutFailure, Upset
<1>5. Wrote(x)
  <2>1. CASE CachePut(x)
    <3>1. upsets' \subseteq UpsetKinds \cup {"overlap"}
      BY UpsetTypes DEF OnPutProgress, OnPutFailure, UpsetKinds, IndInv, TypeOK
    <3>2. k \in PublicIds /\ cache'[k] = Put(x, k) /\ \A j \in PublicIds : j # k => cache'[j] = cache[j]
      BY <1>1, <2>1, <3>1, CachePutRest, PublicIdType
    <3>3. PutBy(x, cache[k], Put(x, k))
      BY <1>1, PutByTask
    <3>4. Put(x, k) # None
      <4>1. Put(x, k) \in Irss
        BY <1>1, <3>2, PutRecord
      <4> QED BY <4>1, NoneNoIrs
    <3> HIDE DEF x, k
    <3> QED BY <1>1, <3>2, <3>3, <3>4 DEF Wrote, k
  <2>2. CASE cache' = cache /\ "cacheFails" \in upsets'
    BY <2>2 DEF Wrote
  <2> QED BY <1>4, <2>1, <2>2
<1> HIDE DEF y, z
<1> QED BY <1>1, <1>2, <1>3, <1>4, <1>5, WriteMoves

\* The outcomes of a delete are moves.
LEMMA DeleteMoves ==
  ASSUME IndInv, NEW t \in Tasks, OnDeleteProgress(t) \/ OnDeleteNotFound(t) \/ OnDeleteFailure(t)
  PROVE  Moves(t)
<1> DEFINE x == task[t]  k == public_id(x)
           code == IF x.rc = 200 THEN 503 ELSE x.rc
           y == [send_reply(x) EXCEPT !.pc = "saved"]
           z(c) == DeleteThis(send_http_reply(x, c))
<1>1. /\ x \in TaskStates /\ TaskInv(x) /\ x.pc = "del" /\ x.replies = 0
      /\ (x.req.impi # None => x.impi = x.req.impi)
      /\ UNCHANGED <<hssConn, assigned>> /\ upsets \subseteq upsets'
  BY DEF IndInv, TypeOK, TaskInv, OnDeleteProgress, OnDeleteNotFound, OnDeleteFailure, Upset
<1>2. y.pc = "saved" /\ SameTask(x, y)
  BY <1>1, ReplySaved
<1>3. ASSUME NEW c \in Codes PROVE z(c).pc = "gone" /\ SameTask(x, z(c))
  <2>1. z(c).pc = "gone" /\ \A f \in Kept : z(c)[f] = x[f]
    BY <1>1, <1>3, ReplyAndDelete
  <2> QED BY <2>1, KeptSame
<1>4. {code, ReplyCode(x)} \subseteq Codes /\ send_reply(x) = send_http_reply(x, ReplyCode(x))
  <2>1. code \in Codes
    BY SMTT(30), <1>1 DEF TaskStates, Codes
  <2> QED BY SMTT(30), <1>1, <2>1, SendReply
<1>5. /\ Become(t, y) \/ \E c \in {code, ReplyCode(x)} : Become(t, z(c))
      /\ CacheDelete(x) \/ (cache' = cache /\ ("cacheFails" \in upsets' \/ cache[k] = None))
  BY <1>4 DEF OnDeleteProgress, OnDeleteNotFound, OnDeleteFailure, Upset, Cached
<1>6. Wrote(x)
  <2>1. CASE CacheDelete(x)
    <3>1. upsets' \subseteq UpsetKinds \cup {"overlap"}
      BY UpsetTypes DEF OnDeleteProgress, OnDeleteNotFound, OnDeleteFailure, UpsetKinds, IndInv, TypeOK
    <3>2. cache'[k] = None /\ \A j \in PublicIds : j # k => cache'[j] = cache[j]
      BY <1>1, <2>1, <3>1, CacheDeleteRest
    <3> QED BY <1>1, <3>2 DEF Wrote
  <2>2. CASE cache' = cache /\ ("cacheFails" \in upsets' \/ cache[k] = None)
    BY <1>1, <2>2 DEF Wrote
  <2> QED BY <1>5, <2>1, <2>2
<1> HIDE DEF y, z, code
<1> QED BY <1>1, <1>2, <1>3, <1>4, <1>5, <1>6, WriteMoves

\* The end of a cache operation is a move.
LEMMA EndMoves == ASSUME IndInv, NEW t \in Tasks, OnCacheSuccess(t) PROVE Moves(t)
<1>1. /\ task[t] \in TaskStates /\ task[t].pc = "saved" /\ UNCHANGED <<hssConn, cache, assigned, upsets>>
      /\ Become(t, DeleteThis(task[t]))
  BY DEF IndInv, TypeOK, OnCacheSuccess
<1>2. /\ DeleteThis(task[t]).pc = "gone" /\ SameTask(task[t], DeleteThis(task[t]))
      /\ DeleteThis(task[t]).replies = task[t].replies
  BY SMTT(30), <1>1, DeleteFields, KeptSame
<1>3. Wrote(task[t])
  BY <1>1 DEF Wrote
<1> QED BY <1>1, <1>2, <1>3, WriteMoves

\* Every step of a task is a move, when the HSS is asked over Diameter.
LEMMA TaskMoves ==
  ASSUME IndInv, hssConn = "diameter", NEW t \in Tasks,
         \/ Run(t) \/ CacheStep(t) \/ OnAccepted(t) \/ OnAnswerLost(t)
         \/ \E result \in Rejections : OnRejected(t, result)
  PROVE  Moves(t)
BY RunMoves, LookupMoves, AnswerMoves, PutMoves, DeleteMoves, EndMoves DEF CacheStep

\* A step is upset only by what may upset it.
LEMMA UpsetsGrow ==
  ASSUME NEW t \in Tasks,
         \/ Run(t) \/ CacheStep(t) \/ OnAccepted(t) \/ OnAnswerLost(t)
         \/ \E result \in Rejections : OnRejected(t, result)
  PROVE  upsets' \subseteq upsets \cup Upsets \cup {"overlap"}
<1>1. CASE Run(t) \/ CacheStep(t)
  BY <1>1 DEF Run, CacheStep, OnGetRegData, OnGetRegDataFailure, OnPutProgress, OnPutFailure,
     OnDeleteProgress, OnDeleteNotFound, OnDeleteFailure, OnCacheSuccess, Upset
<1>2. CASE \/ OnAccepted(t) \/ OnAnswerLost(t)
           \/ \E result \in Rejections : OnRejected(t, result)
  BY <1>2 DEF OnAccepted, OnAnswerLost, OnRejected, Upset
<1> QED BY <1>1, <1>2

-----------------------------------------------------------------------------
(* Requests that are handled one after the other.                          *)

\* No other task is busy with the one that makes a step.
Alone(t) == \A u \in Busy : u = t

\* Unless the one busy task is settling, cache and HSS agree about everybody.
LEMMA AllAgreeAlone ==
  ASSUME SerialInv, Calm, Parsed, NEW t \in Tasks, Alone(t), ~Settling(task[t])
  PROVE  \A k \in PublicIds : Agree(k)
<1>1. \A u \in Tasks : Settling(task[u]) => u \in Busy
  BY DEF Settling, Busy
<1> QED BY <1>1 DEF SerialInv, Alone

\* What a step of task t has to do for SerialInv.
LEMMA SerialStep ==
  ASSUME IndInv, SerialInv, Calm, NEW t \in Tasks, Alone(t),
         \A u \in Tasks : u # t => task'[u] = task[u],
         \A k \in PublicIds : k # public_id(task[t]) =>
                               cache'[k] = cache[k] /\ assigned'[k] = assigned[k],
         SerialTask(task[t])',
         task[t].heard = "SUCCESS" =>
           /\ task'[t].heard = "SUCCESS" /\ task'[t].sar = task[t].sar
           /\ task'[t].irs = task[t].irs,
         Parsed /\ Parsed' => \/ \A k \in PublicIds : k = public_id(task[t]) => Agree(k)'
                              \/ /\ Settling(task'[t])
                                 /\ public_id(task'[t]) = public_id(task[t])
  PROVE  SerialInv'
<1> DEFINE k0 == public_id(task[t])
<1>1. \A u \in Busy' : u = t
  BY DEF Alone, Busy
<1>2. ASSUME NEW u \in Tasks PROVE SerialTask(task[u])'
  <2>1. CASE u = t
    BY <2>1
  <2>2. CASE u # t
    <3>1. task'[u] = task[u] /\ task[u].pc \in {"new", "gone"} /\ SerialTask(task[u])
      BY <2>2 DEF Alone, Busy, SerialInv
    <3> QED BY <3>1 DEF SerialTask
  <2> QED BY <2>1, <2>2
<1>3. Parsed' => Parsed
  <2> SUFFICES ASSUME Parsed', NEW u \in Tasks, task[u].heard = "SUCCESS", Assigns(task[u].sar)
               PROVE  task[u].irs.doc.form = "good"
    BY DEF Parsed
  <2>1. task'[u].heard = "SUCCESS" /\ task'[u].sar = task[u].sar /\ task'[u].irs = task[u].irs
    OBVIOUS
  <2> QED BY <2>1 DEF Parsed
<1>4. ASSUME Parsed', NEW k \in PublicIds, k # k0 PROVE Agree(k)'
  <2>1. Agree(k)
    <3>1. \A u \in Tasks : Settling(task[u]) => u = t
      BY DEF Settling, Busy, Alone
    <3> QED BY <1>3, <1>4, <3>1 DEF SerialInv
  <2> QED BY <1>4, <2>1 DEF Agree, Cached
<1>5. ASSUME Parsed', NEW k \in PublicIds
      PROVE  Agree(k)' \/ \E u \in Tasks : Settling(task'[u]) /\ public_id(task'[u]) = k
  BY <1>3, <1>4, <1>5
<1> QED BY <1>1, <1>2, <1>5 DEF SerialInv

\* The same, for a step that leaves the cache and the HSS alone.
LEMMA SerialQuiet ==
  ASSUME IndInv, SerialInv, Calm, NEW t \in Tasks, Alone(t), UNCHANGED <<cache, assigned>>,
         \A u \in Tasks : u # t => task'[u] = task[u],
         SerialTask(task[t])', ~Settling(task[t]), task[t].heard # "SUCCESS"
  PROVE  SerialInv'
<1>1. Parsed => \A k \in PublicIds : Agree(k)'
  BY AllAgreeAlone DEF Agree, Cached
<1> QED BY <1>1, SerialStep

\* A task that is busy is alone, as long as tasks do not overlap.
LEMMA BusyAlone ==
  ASSUME SerialInv, Calm, NEW t \in Tasks, task[t].pc \notin {"new", "gone"}
  PROVE  Alone(t)
BY DEF SerialInv, Alone, Busy

\* While all is calm no upset happens but time's.
LEMMA NoUpset == ASSUME Calm', NEW kind, kind \notin {"ages", "expires"} PROVE ~Upset(kind)
BY DEF Calm, Upset

\* A task that has not sent its SAR goes on, sends it, or ends.
LEMMA EarlySerial ==
  ASSUME IndInv, SerialInv, Calm, NEW t \in Tasks, Alone(t), UNCHANGED <<cache, assigned>>,
         \A u \in Tasks : u # t => task'[u] = task[u],
         task[t].pc \in {"new", "lookup"}, Alike(task[t], task'[t]),
         task'[t].pc \in {"lookup", "sar", "gone"},
         task'[t].pc = "sar" /\ task[t].req.type = "CALL" => ~Cached(public_id(task[t]))
  PROVE  SerialInv'
<1>1. SerialTask(task[t])
  BY DEF SerialInv
<1>2. task[t].saa = None /\ task[t].heard # "SUCCESS" /\ ~Settling(task[t])
  BY <1>1 DEF SerialTask, Settling
<1>3. public_id(task'[t]) = public_id(task[t])
  BY DEF Alike, public_id, wildcard_id
<1>4. SerialTask(task[t])'
  BY <1>2, <1>3 DEF SerialTask, Alike, Cached
<1> QED BY <1>2, <1>4, SerialQuiet

\* Starting a task keeps SerialInv.
LEMMA RunSerial == ASSUME IndInv, SerialInv, Calm, Calm', NEW t \in Tasks, Run(t) PROVE SerialInv'
<1> DEFINE x == task[t]
           y == [x EXCEPT !.pc = "lookup"]
           z(code) == DeleteThis(send_http_reply(x, code))
<1>1. x \in TaskStates /\ x.pc = "new" /\ UNCHANGED <<cache, assigned>>
  BY DEF IndInv, TypeOK, Run
<1>2. Alone(t)
  <2>1. Busy = {}
    BY DEF Run, Calm
  <2> QED BY <2>1 DEF Alone
<1>3. Alike(x, y) /\ y.pc = "lookup"
  BY SMTT(30), <1>1 DEF TaskStates, Alike
<1>4. \A code \in {400, 405} : Alike(x, z(code)) /\ z(code).pc = "gone"
  BY SMTT(30), <1>1, AlikeEnds
<1>5. Become(t, y) \/ \E code \in {400, 405} : Become(t, z(code))
  BY DEF Run
<1> HIDE DEF y, z
<1>6. Alike(x, task'[t]) /\ task'[t].pc \in {"lookup", "gone"}
      /\ \A u \in Tasks : u # t => task'[u] = task[u]
  BY SMTT(30), <1>3, <1>4, <1>5, Becomes
<1> QED BY <1>1, <1>2, <1>6, EarlySerial

\* The lookup keeps SerialInv.
LEMMA LookupSerial ==
  ASSUME IndInv, SerialInv, Calm, NEW t \in Tasks, OnGetRegData(t) PROVE SerialInv'
<1> DEFINE x == task[t]  k == public_id(x)
           y == process_received_reg_data(x, IrsOf(k))
           z == DeleteThis(send_http_reply(x, 404))
<1>1. x \in TaskStates /\ TaskInv(x) /\ x.pc = "lookup" /\ UNCHANGED <<cache, assigned>>
  BY DEF IndInv, TypeOK, OnGetRegData
<1>2. k \in PublicIds
  BY <1>1, PublicIdType
<1>3. Reads(IrsOf(k), cache[k])
  <2>1. NoIrs \in Irss /\ cache[k] \in Irss \cup {None}
    BY <1>2 DEF NoIrs, Irss, RegStates, IndInv, TypeOK
  <2> QED BY <2>1 DEF Reads, IrsOf, Cached
<1>4. /\ Alike(x, y) /\ y.pc \in {"sar", "gone"}
      /\ y.pc = "sar" /\ x.req.type = "CALL" => IrsOf(k).reg = "NOT_REGISTERED"
  <2>1. LookedUp(x, IrsOf(k), y)
    BY <1>1, <1>3, LookupOutcome DEF Calm
  <2> HIDE DEF y
  <2> QED BY <2>1 DEF LookedUp
<1>5. IrsOf(k).reg = "NOT_REGISTERED" => ~Cached(k)
  BY <1>2 DEF IndInv, StoredInv, IrsOf, Cached
<1>6. Alike(x, z) /\ z.pc = "gone"
  BY SMTT(30), <1>1, AlikeEnds
<1>7. Become(t, y) \/ Become(t, z)
  BY DEF OnGetRegData
<1> HIDE DEF y, z
<1>8. /\ Alike(x, task'[t]) /\ task'[t].pc \in {"sar", "gone"}
      /\ task'[t].pc = "sar" /\ x.req.type = "CALL" => ~Cached(k)
      /\ \A u \in Tasks : u # t => task'[u] = task[u]
  BY <1>4, <1>5, <1>6, <1>7, Becomes
<1>9. Alone(t)
  BY <1>1, BusyAlone
<1> QED BY <1>1, <1>8, <1>9, EarlySerial

\* The HSS accepting a SAR keeps SerialInv.
LEMMA AcceptSerial ==
  ASSUME IndInv, SerialInv, Calm, NEW t \in Tasks, NEW data \in Data, HssAccept(t, data)
  PROVE  SerialInv'
<1> DEFINE x == task[t]  y == [x EXCEPT !.saa = data]  k == public_id(x)
<1>1. /\ x \in TaskStates /\ TaskInv(x) /\ x.pc = "sar" /\ x.saa = None
      /\ SerialTask(x) /\ x.heard # "SUCCESS"
  BY DEF IndInv, TypeOK, HssAccept, SerialInv, SerialTask
<1>2. k \in PublicIds
  BY <1>1, PublicIdType
<1>3. /\ y.pc = "sar" /\ y.req = x.req /\ y.irs = x.irs /\ y.sar = x.sar /\ y.heard = x.heard
      /\ y.wildcard = x.wildcard
  BY SMTT(30), <1>1 DEF TaskStates
<1>4. /\ Become(t, y) /\ assigned' = [assigned EXCEPT ![k] = AssignedBy(x.sar, assigned[k])]
      /\ cache' = cache
  BY DEF HssAccept
<1> HIDE DEF y, k
<1>5. /\ assigned'[k] = AssignedBy(x.sar, assigned[k])
      /\ \A j \in PublicIds : j # k => assigned'[j] = assigned[j]
  BY <1>2, <1>4 DEF IndInv, TypeOK
<1>6. task'[t] = y /\ \A u \in Tasks : u # t => task'[u] = task[u]
  BY <1>4, Becomes
<1>7. public_id(task'[t]) = k
  BY <1>3, <1>6 DEF k, public_id, wildcard_id
<1>8. Assigns(x.sar) => assigned'[k] = x.irs.reg
  BY <1>1, <1>5, AssignedState
<1>9. SerialTask(task[t])'
  BY <1>1, <1>3, <1>4, <1>6, <1>7, <1>8 DEF SerialTask, Cached, k
<1>10. Parsed => Settling(task'[t]) \/ \A j \in PublicIds : j = k => Agree(j)'
  <2>1. CASE is_auth_failure_request(x.sar)
    <3>1. assigned'[k] = assigned[k]
      BY <1>5, <2>1 DEF AssignedBy, is_auth_failure_request, is_deregistration_request
    <3>2. ~Settling(x) /\ Alone(t)
      BY <1>1, BusyAlone DEF Settling
    <3> QED BY <1>2, <1>4, <3>1, <3>2, AllAgreeAlone DEF Agree, Cached
  <2>2. CASE ~is_auth_failure_request(x.sar)
    <3>1. data # None /\ y.saa = data
      BY SMTT(30), <1>1, RegDataAssumption DEF TaskStates, y, RegDataConstants
    <3> QED BY <1>3, <1>6, <2>2, <3>1 DEF Settling
  <2> QED BY <2>1, <2>2
<1>11. Alone(t)
  BY <1>1, BusyAlone
<1>12. \A j \in PublicIds : j # k => cache'[j] = cache[j] /\ assigned'[j] = assigned[j]
  BY <1>4, <1>5
<1>13. Parsed => \/ \A j \in PublicIds : j = k => Agree(j)'
                 \/ Settling(task'[t]) /\ public_id(task'[t]) = k
  BY <1>7, <1>10
<1> QED BY <1>1, <1>6, <1>9, <1>11, <1>12, <1>13, SerialStep DEF k

\* The answer to a SAR is SUCCESS exactly if the HSS has acted on it.
LEMMA AnswerSerial ==
  ASSUME IndInv, SerialInv, Calm, NEW t \in Tasks, task[t].pc = "sar", NEW result, NEW data,
         UNCHANGED <<cache, assigned>>, \A u \in Tasks : u # t => task'[u] = task[u],
         TaskInv(task'[t]), SarOutcome(task[t], result, data, task'[t]),
         task[t].saa # None <=> result = "SUCCESS"
  PROVE  SerialInv'
<1> DEFINE x == task[t]  y == task'[t]  k == public_id(x)
<1>1. x \in TaskStates /\ TaskInv(x) /\ SerialTask(x) /\ x.heard # "SUCCESS" /\ Alone(t)
  BY BusyAlone DEF IndInv, TypeOK, SerialInv, SerialTask
<1>2. /\ y.heard = result /\ y.saa = None /\ y.sar = x.sar /\ y.req = x.req
      /\ result # "NEW_WILDCARD" => public_id(y) = k
      /\ \/ y.pc = "lookup" /\ result = "NEW_WILDCARD"
         \/ y.pc \in {"put", "del", "gone"} /\ y.irs.reg = x.irs.reg
      /\ result = "SUCCESS" /\ Assigns(x.sar) =>
           y.pc = "put" \/ (y.pc = "gone" /\ y.irs.doc.form # "good")
      /\ result = "SUCCESS" /\ is_deregistration_request(x.req.type) => y.pc = "del"
  BY DEF SarOutcome
<1>3. y.pc = "put" => result = "SUCCESS" /\ Assigns(x.sar)
  BY <1>2 DEF TaskInv
<1> HIDE DEF k
<1>4. y.pc = "put" => assigned[k] = x.irs.reg /\ (x.req.type = "CALL" => ~Cached(k))
  BY <1>1, <1>3 DEF SerialTask, k
<1>5. SerialTask(task[t])'
  BY <1>2, <1>3, <1>4 DEF SerialTask, Cached
<1>6. Parsed /\ Parsed' => \/ \A j \in PublicIds : j = k => Agree(j)'
                           \/ Settling(y) /\ public_id(y) = k
  <2> SUFFICES ASSUME Parsed, Parsed', Settling(x) PROVE Settling(y) /\ public_id(y) = k
    BY <1>1, AllAgreeAlone DEF Agree, Cached
  <2>1. result = "SUCCESS" /\ ~is_auth_failure_request(x.sar)
    BY DEF Settling
  <2>2. CASE Assigns(x.sar)
    <3>1. y.irs.doc.form = "good"
      BY <1>2, <2>1, <2>2 DEF Parsed
    <3> QED BY <1>2, <2>1, <2>2, <3>1 DEF Settling
  <2>3. CASE is_deregistration_request(x.req.type)
    BY <1>2, <2>1, <2>3 DEF Settling
  <2> QED BY <1>1, <2>1, <2>2, <2>3, SarKinds
<1> QED BY <1>1, <1>5, <1>6, SerialStep DEF k

\* The answer to a SAR keeps SerialInv.
LEMMA SarSerial ==
  ASSUME IndInv, SerialInv, Calm, NEW t \in Tasks, task[t].pc = "sar", NEW result \in ResultCodes,
         NEW data \in Data, NEW wildcard \in PublicIds \cup {None},
         Become(t, on_sar_response(task[t], result, data, wildcard)),
         UNCHANGED <<cache, assigned>>, task[t].saa # None <=> result = "SUCCESS"
  PROVE  SerialInv'
<1> DEFINE y == on_sar_response(task[t], result, data, wildcard)
<1>1. task[t] \in TaskStates /\ TaskInv(task[t])
  BY DEF IndInv, TypeOK
<1>2. TaskInv(y) /\ SarOutcome(task[t], result, data, y)
  BY <1>1, SarResponse
<1>3. task'[t] = y /\ \A u \in Tasks : u # t => task'[u] = task[u]
  BY Becomes
<1> HIDE DEF y
<1> QED BY <1>2, <1>3, AnswerSerial

\* A step of the HSS keeps SerialInv.
LEMMA HssSerial ==
  ASSUME IndInv, SerialInv, Calm, Calm', NEW t \in Tasks, HssStep(t) PROVE SerialInv'
<1>1. /\ NoData \in Data /\ {"SUCCESS", "NEW_WILDCARD"} \subseteq ResultCodes
      /\ task[t] \in TaskStates
  BY DEF NoData, Data, ResultCodes, IndInv, TypeOK
<1>2. ASSUME NEW doc \in Documents, NEW charging \in Charging,
             HssAccept(t, [doc |-> doc, charging |-> charging])
      PROVE  SerialInv'
  <2>1. [doc |-> doc, charging |-> charging] \in Data
    BY DEF Data
  <2> QED BY <1>2, <2>1, AcceptSerial
<1>3. CASE OnAccepted(t)
  <2>1. task[t].saa \in Data
    BY <1>1, <1>3 DEF OnAccepted, TaskStates
  <2> QED BY <1>1, <1>3, <2>1, SarSerial DEF OnAccepted
<1>4. ASSUME NEW result \in Rejections, OnRejected(t, result) PROVE SerialInv'
  <2>1. result \in ResultCodes /\ result # "SUCCESS"
    BY DEF Rejections, SaaResult, ResultCodes
  <2> QED BY <1>1, <1>4, <2>1, SarSerial DEF OnRejected
<1>5. ASSUME NEW wildcard \in PublicIds, OnNewWildcard(t, wildcard) PROVE SerialInv'
  BY <1>1, <1>5, SarSerial DEF OnNewWildcard
<1>6. ~OnAnswerLost(t)
  BY NoUpset DEF OnAnswerLost
<1>7. \A r, row : ~OnCassandraResult(t, r, row)
  BY DEF OnCassandraResult, Calm
<1> QED BY <1>2, <1>3, <1>4, <1>5, <1>6, <1>7 DEF HssStep

\* A task that has settled with the HSS brings the cache into line, or is done.
LEMMA SettledSerial ==
  ASSUME IndInv, SerialInv, Calm, NEW t \in Tasks, task[t].pc \in {"put", "del", "saved"},
         assigned' = assigned, \A u \in Tasks : u # t => task'[u] = task[u],
         \A k \in PublicIds : k # public_id(task[t]) => cache'[k] = cache[k],
         task'[t].pc \in {"saved", "gone"}, SameTask(task[t], task'[t]),
         \/ cache' = cache /\ task[t].pc = "saved"
         \/ \A k \in PublicIds : k = public_id(task[t]) => Agree(k)'
  PROVE  SerialInv'
<1>1. Alone(t)
  BY BusyAlone
<1>2. SerialTask(task[t])'
  BY DEF SerialTask
<1>3. Parsed => \A k \in PublicIds : k = public_id(task[t]) => Agree(k)'
  <2>1. CASE cache' = cache /\ task[t].pc = "saved"
    <3>1. ~Settling(task[t])
      BY <2>1 DEF Settling
    <3> QED BY <1>1, <2>1, <3>1, AllAgreeAlone DEF Agree, Cached
  <2> QED BY <2>1
<1> QED BY <1>1, <1>2, <1>3, SerialStep DEF SameTask

\* A put keeps SerialInv.
LEMMA PutSerial ==
  ASSUME IndInv, SerialInv, Calm, NEW t \in Tasks, OnPutProgress(t) PROVE SerialInv'
<1> DEFINE x == task[t]  k == public_id(x)
           y == [send_reply(x) EXCEPT !.pc = "saved"]
<1>1. /\ x \in TaskStates /\ TaskInv(x) /\ x.pc = "put" /\ SerialTask(x)
      /\ upsets' \subseteq UpsetKinds \cup {"overlap"}
  BY DEF IndInv, TypeOK, OnPutProgress, SerialInv
<1>2. y.pc = "saved" /\ SameTask(x, y)
  BY <1>1, ReplySaved
<1>3. Become(t, y) /\ CachePut(x) /\ UNCHANGED <<hssConn, assigned>>
  BY DEF OnPutProgress
<1> HIDE DEF y
<1>4. cache'[k] = Put(x, k) /\ \A j \in PublicIds : j # k => cache'[j] = cache[j]
  BY <1>1, <1>3, CachePutRest
<1>5. assigned[k] = x.irs.reg /\ (x.req.type = "CALL" => ~Cached(k))
  BY <1>1 DEF SerialTask
<1>6. /\ x.req.type \in {"REG", "CALL"} /\ (x.req.type = "REG" => x.irs.reg = "REGISTERED")
      /\ x.irs \in Irss
  <2>1. Assigns(x.sar)
    BY <1>1 DEF TaskInv
  <2>2. x.req.type \in {"REG", "CALL"}
    BY <1>1, <2>1, AssignedState
  <2>3. x.req.type = "REG" => x.irs.reg = "REGISTERED"
    BY <1>1 DEF TaskInv
  <2>4. x.irs \in Irss
    BY <1>1 DEF TaskStates
  <2> QED BY <2>2, <2>3, <2>4
<1> HIDE DEF k
<1>7. Put(x, k).reg = x.irs.reg
  <2>1. CASE ~Cached(k)
    BY <2>1 DEF Put
  <2>2. CASE Cached(k)
    <3>1. x.irs.reg = "REGISTERED"
      BY <1>5, <1>6, <2>2
    <3> DEFINE added == IF x.sar = "REGISTRATION" THEN {x.impi} ELSE {}
    <3>2. Put(x, k) \in {x.irs, [x.irs EXCEPT !.impis = cache[k].impis \cup added]}
      BY <2>2, <3>1 DEF Put
    <3> HIDE DEF added
    <3> QED BY <1>6, <3>2 DEF Irss
  <2> QED BY <2>1, <2>2
<1>8. \A j \in PublicIds : j = k => Agree(j)'
  BY <1>3, <1>4, <1>5, <1>7 DEF Agree, Cached
<1>9. task'[t] = y /\ \A u \in Tasks : u # t => task'[u] = task[u]
  BY <1>3, Becomes
<1> QED BY <1>1, <1>2, <1>3, <1>4, <1>8, <1>9, SettledSerial DEF k

\* A delete keeps SerialInv.
LEMMA DeleteSerial ==
  ASSUME IndInv, SerialInv, Calm, NEW t \in Tasks, OnDeleteProgress(t) \/ OnDeleteNotFound(t)
  PROVE  SerialInv'
<1> DEFINE x == task[t]  k == public_id(x)
           y == [send_reply(x) EXCEPT !.pc = "saved"]
           z == DeleteThis(send_reply(x))
<1>1. /\ x \in TaskStates /\ TaskInv(x) /\ x.pc = "del" /\ Working(x)
      /\ UNCHANGED <<hssConn, assigned>> /\ upsets' \subseteq UpsetKinds \cup {"overlap"}
  BY DEF IndInv, TypeOK, OnDeleteProgress, OnDeleteNotFound, TaskInv, Working,
         is_deregistration_request
<1>2. y.pc = "saved" /\ SameTask(x, y)
  BY <1>1, ReplySaved
<1>3. z.pc = "gone" /\ SameTask(x, z)
  <2>1. ReplyCode(x) \in Codes /\ send_reply(x) = send_http_reply(x, ReplyCode(x))
    BY <1>1, SendReply
  <2>2. z.pc = "gone" /\ \A f \in Kept : z[f] = x[f]
    BY SMTT(30), <1>1, <2>1, ReplyAndDelete DEF Working
  <2> QED BY <2>2, KeptSame
<1>4. \/ Become(t, y) /\ CacheDelete(x)
      \/ Become(t, z) /\ UNCHANGED cache /\ ~Cached(k)
  BY DEF OnDeleteProgress, OnDeleteNotFound
<1> HIDE DEF y, z
<1>5. cache'[k] = None /\ \A j \in PublicIds : j # k => cache'[j] = cache[j]
  BY <1>1, <1>4, CacheDeleteRest DEF Cached
<1>6. task'[t] \in {y, z} /\ \A u \in Tasks : u # t => task'[u] = task[u]
  BY <1>4, Becomes
<1>7. \A j \in PublicIds : j = k => Agree(j)'
  BY <1>5 DEF Agree, Cached
<1> QED BY <1>1, <1>2, <1>3, <1>5, <1>6, <1>7, SettledSerial

\* The end of a cache operation keeps SerialInv.
LEMMA EndSerial ==
  ASSUME IndInv, SerialInv, Calm, NEW t \in Tasks, OnCacheSuccess(t) PROVE SerialInv'
<1>1. /\ task[t] \in TaskStates /\ task[t].pc = "saved" /\ UNCHANGED <<cache, assigned>>
      /\ Become(t, DeleteThis(task[t]))
  BY DEF IndInv, TypeOK, OnCacheSuccess
<1>2. DeleteThis(task[t]).pc = "gone" /\ SameTask(task[t], DeleteThis(task[t]))
  BY SMTT(30), <1>1, DeleteFields, KeptSame
<1>3. /\ task'[t] = DeleteThis(task[t]) /\ \A u \in Tasks : u # t => task'[u] = task[u]
  BY <1>1, Becomes
<1> QED BY <1>1, <1>2, <1>3, SettledSerial

\* A record that ages keeps its state; one that expires says nothing.
LEMMA TimeSerial ==
  ASSUME IndInv, SerialInv, Calm, NEW k \in PublicIds, Age(k) \/ Expire(k) PROVE SerialInv'
<1>1. /\ UNCHANGED <<assigned, task>> /\ cache[k] # None
      /\ \/ cache' = [cache EXCEPT ![k].aged = TRUE]
         \/ cache' = [cache EXCEPT ![k] = None]
  BY DEF Age, Expire, Cached
<1>2. cache[k] \in Irss
  BY <1>1 DEF IndInv, TypeOK
<1>3. LET irs == [cache[k] EXCEPT !.aged = TRUE] IN irs.reg = cache[k].reg
  BY <1>2 DEF Irss
<1>4. ASSUME NEW j \in PublicIds
      PROVE  \/ cache'[j] = None
             \/ cache[j] # None /\ cache'[j].reg = cache[j].reg
  BY <1>1, <1>3 DEF IndInv, TypeOK
<1>5. \A j \in PublicIds : (~Cached(j) => ~Cached(j)') /\ (Agree(j) => Agree(j)')
  BY <1>1, <1>4 DEF Agree, Cached
<1>6. \A t \in Tasks : public_id(task[t]) \in PublicIds
  BY PublicIdType DEF IndInv, TypeOK
<1>7. \A t \in Tasks : SerialTask(task[t]) => SerialTask(task[t])'
  BY <1>1, <1>5, <1>6 DEF SerialTask
<1>8. Busy' = Busy /\ (Parsed' <=> Parsed)
  BY <1>1 DEF Busy, Parsed
<1> QED BY <1>1, <1>5, <1>7, <1>8 DEF SerialInv

\* Upsets are not forgotten, and the HSS connection stays.
LEMMA CalmBefore == ASSUME Next, Calm' PROVE Calm
<1>1. hssConn' = hssConn /\ upsets \subseteq upsets'
  <2>1. \A t \in Tasks : Run(t) => hssConn' = hssConn /\ upsets \subseteq upsets'
    BY DEF Run
  <2>2. \A t \in Tasks : HssStep(t) => hssConn' = hssConn /\ upsets \subseteq upsets'
    BY DEF HssStep, HssAccept, OnAccepted, OnRejected, OnNewWildcard, OnAnswerLost,
           OnCassandraResult, Upset
  <2>3. \A t \in Tasks : CacheStep(t) => hssConn' = hssConn /\ upsets \subseteq upsets'
    BY DEF CacheStep, OnGetRegData, OnGetRegDataFailure, OnPutProgress, OnPutFailure,
           OnDeleteProgress, OnDeleteNotFound, OnDeleteFailure, OnCacheSuccess, Upset
  <2>4. \A k \in PublicIds : Age(k) \/ Expire(k) => hssConn' = hssConn /\ upsets \subseteq upsets'
    BY DEF Age, Expire, Upset
  <2> QED BY <2>1, <2>2, <2>3, <2>4 DEF Next
<1> QED BY <1>1 DEF Calm

\* Every step keeps SerialInv.
LEMMA NextSerial == IndInv /\ SerialInv /\ [Next]_vars => SerialInv'
<1> SUFFICES ASSUME IndInv, SerialInv, Next, Calm' PROVE SerialInv'
  <2>1. UNCHANGED vars /\ SerialInv => SerialInv'
    BY DEF vars, SerialInv, Calm, Busy, SerialTask, Parsed, Agree, Cached
  <2> QED BY <2>1 DEF SerialInv
<1>1. Calm
  BY CalmBefore
<1>2. ASSUME NEW t \in Tasks, CacheStep(t) PROVE SerialInv'
  <2>1. ~OnGetRegDataFailure(t) /\ ~OnPutFailure(t) /\ ~OnDeleteFailure(t)
    BY NoUpset DEF OnGetRegDataFailure, OnPutFailure, OnDeleteFailure
  <2> QED BY <1>1, <1>2, <2>1, LookupSerial, PutSerial, DeleteSerial, EndSerial DEF CacheStep
<1> QED BY <1>1, <1>2, RunSerial, HssSerial, TimeSerial DEF Next

\* The initial states satisfy SerialInv.
LEMMA InitSerial == Init => SerialInv
<1> SUFFICES ASSUME Init PROVE SerialInv
  OBVIOUS
<1>1. ASSUME NEW t \in Tasks
      PROVE  task[t].pc = "new" /\ task[t].saa = None /\ task[t].heard = "none"
  BY SMTT(30) DEF Init, NewTask
<1>2. Busy = {} /\ \A t \in Tasks : SerialTask(task[t])
  BY <1>1 DEF Busy, SerialTask
<1>3. \A k \in PublicIds : Agree(k)
  BY DEF Init, Agree, IrsOf, Cached
<1> QED BY <1>2, <1>3 DEF SerialInv

\* SerialInv holds in all behaviours.
LEMMA Serial == Spec => []SerialInv
BY InitSerial, NextSerial, Inductive, PTL DEF Spec

-----------------------------------------------------------------------------
(* The theorems.                                                           *)

\* Every task's state and every record of the cache keeps its type, whatever the
\* HSS, the subscriber database or the cache answers to however many tasks.
THEOREM TypesKept == Spec => []TypeOK
<1>1. IndInv => TypeOK
  BY DEF IndInv
<1> QED BY <1>1, Inductive, PTL

\* No request is answered twice, and none is dropped without an answer: a task
\* has replied once when it is gone, or when only the cache's last callback is
\* still to come, and not before (on_put_reg_data_progress and its siblings).
THEOREM Replied == Spec => []OneReply
<1>1. IndInv => OneReply
  BY DEF IndInv, TaskInv, OneReply
<1> QED BY <1>1, Inductive, PTL

\* Between requests that do not overlap the cache and the HSS agree on every
\* subscriber the cache knows, whatever the requests, the HSS's answers and the
\* wildcards it names, and however records age and expire, unless a cache
\* operation has failed, an answer was lost or a document lists no identities.
THEOREM Matches == Spec => []CacheMatchesHss
<1>1. SerialInv => CacheMatchesHss
  <2> SUFFICES ASSUME SerialInv, Calm, Busy = {}, Parsed, NEW k \in PublicIds PROVE Agree(k)
    BY DEF CacheMatchesHss, Calm, Parsed, Agree
  <2>1. \A t \in Tasks : ~Settling(task[t])
    BY DEF Busy, Settling
  <2> QED BY <2>1 DEF SerialInv
<1> QED BY <1>1, Serial, PTL

\* The two steps in which a task changes the cache without a failure.
LEMMA Writes ==
  ASSUME IndInv, NEW t \in Tasks, Run(t) \/ HssStep(t) \/ CacheStep(t),
         upsets' \subseteq upsets \cup {"overlap"}, cache' # cache
  PROVE  OnPutProgress(t) \/ OnDeleteProgress(t)
<1>1. ~Upset("cacheFails")
  BY UpsetTypes DEF UpsetKinds
<1>2. ~Run(t) /\ ~OnGetRegData(t) /\ ~OnDeleteNotFound(t) /\ ~OnCacheSuccess(t)
  BY DEF Run, OnGetRegData, OnDeleteNotFound, OnCacheSuccess
<1>3. ~OnGetRegDataFailure(t) /\ ~OnPutFailure(t) /\ ~OnDeleteFailure(t)
  BY <1>1 DEF OnGetRegDataFailure, OnPutFailure, OnDeleteFailure
<1>4. ~HssStep(t)
  BY DEF HssStep, HssAccept, OnAccepted, OnRejected, OnNewWildcard, OnAnswerLost,
         OnCassandraResult
<1> QED BY <1>2, <1>3, <1>4 DEF CacheStep

\* A step that changes a record is one of a task that has the HSS's word for it.
LEMMA FollowsStep ==
  ASSUME IndInv, Next, task' # task, upsets' \subseteq upsets \cup {"overlap"},
         NEW k \in PublicIds, cache'[k] # cache[k]
  PROVE  \E t \in Tasks :
           LET x == task[t] IN
           /\ public_id(x) = k /\ task'[t].pc = "saved" /\ x.pc # "saved"
           /\ IF cache'[k] # None
              THEN x.heard = "SUCCESS" /\ Assigns(x.sar)
              ELSE /\ is_deregistration_request(x.req.type)
                   /\ x.heard \notin {"none", TimeoutResult}
<1>1. PICK t \in Tasks : Run(t) \/ HssStep(t) \/ CacheStep(t)
  BY DEF Next, Age, Expire
<1>2. OnPutProgress(t) \/ OnDeleteProgress(t)
  BY <1>1, Writes
<1> DEFINE x == task[t]  y == [send_reply(x) EXCEPT !.pc = "saved"]
<1>3. x \in TaskStates /\ TaskInv(x) /\ x.pc \in {"put", "del"} /\ Become(t, y)
  BY <1>2 DEF IndInv, TypeOK, OnPutProgress, OnDeleteProgress
<1>4. y.pc = "saved"
  BY <1>3, ReplySaved
<1> HIDE DEF y
<1>5. task'[t] = y
  BY <1>3 DEF IndInv, TypeOK, Become
<1>6. UNCHANGED <<hssConn, assigned, upsets>>
  BY <1>2 DEF OnPutProgress, OnDeleteProgress
<1>7. upsets' \subseteq UpsetKinds \cup {"overlap"}
  BY <1>6, SMTT(40) DEF IndInv, TypeOK
<1>8. CASE OnPutProgress(t)
  <2>1. x.pc = "put" /\ CachePut(x)
    BY <1>8 DEF OnPutProgress
  <2>2. /\ k = public_id(x) /\ cache'[k] = Put(x, k)
    BY <1>6, <1>7, <2>1, CachePutRest, SMTT(40)
  <2>3. cache'[k] # None
    BY <2>1, <2>2, PutRecord, RegDataAssumption, SMTT(40) DEF RegDataConstants
  <2> QED BY <1>3, <1>4, <1>5, <2>1, <2>2, <2>3 DEF TaskInv
<1>9. CASE OnDeleteProgress(t)
  <2>1. x.pc = "del" /\ CacheDelete(x)
    BY <1>9, SMTT(40) DEF OnDeleteProgress
  <2>2. k = public_id(x) /\ cache'[k] = None
    BY <1>6, <1>7, <2>1, CacheDeleteRest
  <2> QED BY <1>3, <1>4, <1>5, <2>1, <2>2 DEF TaskInv
<1> QED BY <1>2, <1>8, <1>9

\* The cache holds what the HSS has said: with any number of tasks at work on one
\* subscriber, a record that changes without a failure of the cache was written
\* by a task whose SAR the HSS accepted, or removed by a deregistration that the
\* HSS answered (on_sar_response).
THEOREM FollowsHss == Spec => CacheFollowsHss
<1>1. IndInv /\ [Next]_vars =>
        [task' # task /\ upsets' \subseteq upsets \cup {"overlap"} =>
           \A k \in PublicIds : cache'[k] # cache[k] =>
           \E t \in Tasks :
             LET x == task[t] IN
             /\ public_id(x) = k /\ task'[t].pc = "saved" /\ x.pc # "saved"
             /\ IF cache'[k] # None
                THEN x.heard = "SUCCESS" /\ Assigns(x.sar)
                ELSE /\ is_deregistration_request(x.req.type)
                     /\ x.heard \notin {"none", TimeoutResult}]_vars
  BY FollowsStep
<1> QED BY <1>1, Inductive, PTL DEF Spec, CacheFollowsHss

\* A reply, when it is sent, is the first and holds of the cache.
LEMMA AnswerStep ==
  ASSUME IndInv, Next, NEW t \in Tasks, Replies(t)
  PROVE  Holds(task'[t], cache'[public_id(task'[t])]) /\ task'[t].replies = 1
<1>1. task' # task
  BY SMTT(30) DEF Replies, IndInv, TypeOK, TaskStates
<1>2. PICK u \in Tasks : Run(u) \/ HssStep(u) \/ CacheStep(u)
  BY <1>1, SMTT(40) DEF Next, Age, Expire
<1>3. PICK y \in TaskStates :
        /\ Become(u, y) /\ TaskInv(y)
        /\ y.replies # task[u].replies => Holds(y, cache'[public_id(y)])
  BY <1>2, TaskStep, SMTT(40) DEF Steps
<1>4. task[t].replies \in {0, 1} /\ y.replies \in {0, 1}
  BY <1>3 DEF IndInv, TaskInv
<1>5. u = t /\ task'[t] = y
  BY SMTT(30), <1>3, <1>4 DEF Replies, IndInv, TypeOK, Become
<1> QED BY SMTT(30), <1>3, <1>4, <1>5 DEF Replies

\* A 200 tells Sprout the truth at the moment it is sent: the registered
\* subscriber is in the cache with the request's private ID, the called one is known, the
\* deregistered one is no longer there, whatever other tasks have done meanwhile
\* (process_received_reg_data, on_put_reg_data_progress).
THEOREM AnswersHold == Spec => AnswerHolds
<1>1. IndInv /\ [Next]_vars =>
        [\A t \in Tasks :
           LET x == task'[t]  irs == cache'[public_id(x)] IN
           Replies(t) /\ x.code = 200 /\ x.req.method = "PUT" =>
             /\ x.req.type = "REG" /\ x.irs.doc.form = "good" =>
                  /\ irs # None /\ irs.reg = "REGISTERED"
                  /\ x.req.impi # None /\ x.sar # "RE_REGISTRATION" => x.req.impi \in irs.impis
             /\ x.req.type = "CALL" /\ x.irs.doc.form = "good" =>
                  irs # None /\ irs.reg # "NOT_REGISTERED"
             /\ is_deregistration_request(x.req.type) => irs = None]_vars
  BY AnswerStep DEF Holds
<1> QED BY <1>1, Inductive, PTL DEF Spec, AnswerHolds
=============================================================================
