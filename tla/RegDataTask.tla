----------------------------- MODULE RegDataTask -----------------------------
(***************************************************************************)
(* ImpuRegDataTask and ImpuReadRegDataTask (src/http_handlers.cpp): the    *)
(* handlers of /impu/<public ID>/reg-data, with which Sprout registers,    *)
(* looks up and deregisters subscribers.                                   *)
(*                                                                         *)
(* A task reads the subscriber's implicit registration set (IRS) from the  *)
(* cache, may assign itself to the subscriber with a Server-Assignment-    *)
(* Request (SAR) to the HSS, and puts or deletes the IRS.  It lives in the *)
(* callbacks of the cache and of the HSS connection; each callback is one  *)
(* step.  The cache keeps here the promises of hss_cache_processor.h       *)
(* (MemcachedCache models how): each operation takes effect at once, or    *)
(* fails, with or without effect.                                          *)
(***************************************************************************)
EXTENDS HssAnswers, CxMessages, Naturals, FiniteSets

CONSTANTS
  Tasks,         \* the HTTP requests that may arrive
  PublicIds,     \* public IDs and wildcards, each with an IRS of its own
  PrivateIds,
  None,          \* the empty string; also the private ID that a REG may not have
  HttpRequests,  \* the requests Sprout and the operator may send
  Documents,     \* the documents the HSS may send: [impi, form, version]
  Charging,      \* the charging addresses, as the HSS has them
  Rows,          \* the rows of Homestead-Prov's table of public IDs
  HssWildcards,  \* public ID -> the wildcards the HSS says it belongs to
  Caches,        \* the contents the cache may have at first
  MaxBusy,       \* bound: tasks in progress at the same time
  Upsets,        \* which of UpsetKinds may happen, each of them once
  MaxUpsets      \* bound: how many

Types == {"REG", "CALL", "DEREG_USER", "DEREG_ADMIN", "DEREG_TIMEOUT",
          "DEREG_AUTH_FAIL", "DEREG_AUTH_TIMEOUT"}

\* A cache operation fails, a record ages or expires, or the HSS's answer is
\* lost after the HSS has acted on the SAR.
UpsetKinds == {"cacheFails", "ages", "expires", "answerLost"}

NoDocument == [impi |-> None, form |-> "empty", version |-> 0]

\* What a SAA brings.
Data == [doc : Documents \cup {NoDocument}, charging : Charging \cup {None}]
NoData == [doc |-> NoDocument, charging |-> None]

RegStates == {"NOT_REGISTERED", "UNREGISTERED", "REGISTERED"}

\* The private IDs of a record.  A REG without one, for which no document names
\* one either, adds the empty string.
Devices == PrivateIds \cup {None}

\* An IRS: aged tells whether hss_reregistration_time has passed since its
\* TTL was set.
Irss == [reg : RegStates, impis : SUBSET Devices, doc : Documents \cup {NoDocument},
         charging : Charging \cup {None}, aged : BOOLEAN]
NoIrs == [reg |-> "NOT_REGISTERED", impis |-> {}, doc |-> NoDocument,
          charging |-> None, aged |-> FALSE]

\* What the constants are.
RegDataConstants ==
  /\ None \notin PublicIds \cup PrivateIds /\ None \notin Irss /\ None \notin Data
  /\ HttpRequests \subseteq
       [method : {"PUT", "GET", "POST"}, management : BOOLEAN,
        type : Types \cup {"UNKNOWN"}, impu : PublicIds,
        impi : Devices, wildcard : PublicIds \cup {None}, noCache : BOOLEAN]
  /\ Documents \subseteq
       [impi : PrivateIds, form : {"good", "noIds", "bad"}, version : Nat] \cup {NoDocument}
  /\ \A row \in Rows :
       /\ GetXml(row, NoDocument) \in Documents \cup {NoDocument}
       /\ Values(row, {"primary_ccf"}) \o Values(row, {"secondary_ccf"}) \in Charging
  /\ Caches \subseteq [PublicIds -> Irss \cup {None}]
  /\ \A c \in Caches, k \in PublicIds : c[k] # None => c[k].reg # "NOT_REGISTERED"
  /\ HssWildcards \in [PublicIds -> SUBSET PublicIds]
  /\ Upsets \subseteq UpsetKinds
  /\ MaxBusy \in Nat /\ MaxUpsets \in Nat

ASSUME RegDataAssumption == RegDataConstants

VARIABLES
  hssConn,  \* the configured HssConnection: "diameter" or "hsprov"
  cache,    \* public ID -> IRS in the cache, or None
  assigned, \* public ID -> the registration state the HSS has (external)
  task,     \* Task -> its state
  upsets    \* the upsets so far, and "overlap" if two tasks have been busy at once

vars == <<hssConn, cache, assigned, task, upsets>>

-----------------------------------------------------------------------------
(* Tasks.                                                                  *)

SarTypes == {"REGISTRATION", "RE_REGISTRATION", "UNREGISTERED_USER"} \cup Types

TaskStates ==
  [pc       : {"new", "lookup", "sar", "put", "del", "saved", "gone"},
   req      : HttpRequests,
   impi     : Devices,                  \* _impi
   wildcard : PublicIds \cup {None},    \* _hss_wildcard
   irs      : Irss,                     \* _irs
   cached   : RegStates \cup {"UNKNOWN"},   \* _cached_reg_state
   sar      : SarTypes \cup {"none"},   \* type of the SAR sent last
   saa      : Data \cup {None},         \* the HSS's consent, on its way
   heard    : ResultCodes \cup {"none"},    \* the last SAA's result
   rc       : {200, 404, 500, 503, 504},    \* _http_rc
   penalty  : BOOLEAN,
   code     : {0, 200, 400, 404, 405, 500, 503, 504},  \* sent to Sprout
   replies  : Nat]

NewTask(r) ==
  [pc |-> "new", req |-> r, impi |-> r.impi, wildcard |-> None, irs |-> NoIrs,
   cached |-> "UNKNOWN", sar |-> "none", saa |-> None, heard |-> "none", rc |-> 200,
   penalty |-> FALSE, code |-> 0, replies |-> 0]

TypeOK ==
  /\ hssConn \in {"diameter", "hsprov"}
  /\ cache \in [PublicIds -> Irss \cup {None}]
  /\ assigned \in [PublicIds -> RegStates]
  /\ task \in [Tasks -> TaskStates]
  /\ upsets \subseteq UpsetKinds \cup {"overlap"}

Cached(k) == cache[k] # None

\* The IRS of k, a blank one if there is none in the cache.
IrsOf(k) == IF Cached(k) THEN cache[k] ELSE NoIrs

Init ==
  /\ hssConn \in {"diameter", "hsprov"}
  /\ cache \in Caches
  /\ assigned = [k \in PublicIds |-> IrsOf(k).reg]
  /\ task \in [Tasks -> {NewTask(r) : r \in HttpRequests}]
  /\ upsets = {}

is_deregistration_request(type) ==
  type \in {"DEREG_USER", "DEREG_ADMIN", "DEREG_TIMEOUT"}
is_auth_failure_request(type) ==
  type \in {"DEREG_AUTH_FAIL", "DEREG_AUTH_TIMEOUT"}

\* The wildcard to use: the HSS's is more up to date than Sprout's.
wildcard_id(x) == IF x.wildcard # None THEN x.wildcard ELSE x.req.wildcard
public_id(x) == IF wildcard_id(x) = None THEN x.req.impu ELSE wildcard_id(x)

get_private_id(doc) == IF doc.form = "bad" THEN None ELSE doc.impi

\* The SARs that assign the subscriber to this server.
Assigns(sar) == sar \in {"REGISTRATION", "RE_REGISTRATION", "UNREGISTERED_USER"}

-----------------------------------------------------------------------------
(* What a callback makes of its task, step by step: the member functions   *)
(* of the class as operators on the task's state.                          *)

\* Sends an HTTP reply.
send_http_reply(x, code) == [x EXCEPT !.code = code, !.replies = @ + 1]

DeleteThis(x) == [x EXCEPT !.pc = "gone"]

\* The saved failure code, or the IRS as an XML document, which cannot be
\* built from a User-Data that does not parse.
send_reply(x) ==
  send_http_reply(x, IF x.rc # 200 THEN x.rc
                     ELSE IF x.irs.doc.form = "bad" THEN 500 ELSE 200)

\* A document without public identities names no record to write.
put_in_cache(x) ==
  IF x.irs.doc.form = "good" THEN [x EXCEPT !.pc = "put"]
                             ELSE DeleteThis(send_reply(x))

\* docs/homestead_api.md:107 has 502 for an HSS or a database that fails or does
\* not respond; no path of the code sends it.
HttpCode(result) ==
  CASE result = "SUCCESS"            -> 200
    [] result = "SERVER_UNAVAILABLE" -> 503
    [] result = "NOT_FOUND"          -> 404
    [] result = "TIMEOUT"            -> 504
    [] OTHER                         -> 500

\* Mutant: a wildcard that did not change is looked up again.
NewsAlways(x, wildcard) == TRUE

\* The HSS names another wildcard than the one the lookup used.
IsNews(x, wildcard) == wildcard_id(x) # wildcard

\* Mutant: the cache is cleared although the SAR was not delivered.
ClearsAlways(x, result) == is_deregistration_request(x.req.type)

\* A deregistration clears the cache even if the HSS rejects it.  Not so if it
\* was not delivered: Sprout may retry it at another Homestead, which has to
\* find the record.
ClearsCache(x, result) ==
  is_deregistration_request(x.req.type) /\ result # "SERVER_UNAVAILABLE"

\* The HSS's wildcard starts the task over if it is news; an assignment is
\* cached with the HSS's document and a fresh TTL.
on_sar_response(x, result, data, wildcard) ==
  LET y == [x EXCEPT !.saa = None, !.heard = result, !.rc = HttpCode(result),
                     !.penalty = (result = "TIMEOUT"),
                     !.wildcard = IF result = "NEW_WILDCARD" THEN wildcard ELSE @]
  IN IF result = "NEW_WILDCARD" /\ IsNews(x, wildcard)
       THEN [y EXCEPT !.rc = 200, !.irs = NoIrs, !.pc = "lookup"]
     ELSE IF result = "SUCCESS" /\ Assigns(x.sar)
       THEN put_in_cache([y EXCEPT !.irs = [@ EXCEPT !.doc = data.doc, !.charging = data.charging,
                                                    !.aged = FALSE]])
     ELSE IF ClearsCache(x, result) THEN [y EXCEPT !.pc = "del"]
     ELSE DeleteThis(send_reply(y))

\* Homestead-Prov answers a SAR that assigns nothing on the spot.
send_server_assignment_request(x, sar) ==
  LET y == [x EXCEPT !.pc = "sar", !.sar = sar]
  IN IF hssConn = "hsprov" /\ AnsweredInline("SAR", Assigns(sar))
     THEN on_sar_response(y, "SUCCESS", NoData, None) ELSE y

\* A private ID that the record does not list is a new binding, for which a
\* registered subscriber registers again.  Without one the task has taken the
\* document's, or none.
OnRegister(x, newBinding) ==
  IF x.irs.reg = "REGISTERED" /\ ~newBinding
  THEN IF x.irs.aged \/ x.req.noCache
       THEN send_server_assignment_request(x, "RE_REGISTRATION")
       ELSE DeleteThis(send_reply(x))
  ELSE send_server_assignment_request(
         [x EXCEPT !.irs = [x.irs EXCEPT !.reg = "REGISTERED", !.impis = @ \cup {x.impi}]],
         "REGISTRATION")

\* Mutant: a call is taken for a registration.
OnCallRegisters(x) ==
  IF x.irs.reg = "NOT_REGISTERED"
  THEN send_server_assignment_request([x EXCEPT !.irs.reg = "REGISTERED"],
                                      "UNREGISTERED_USER")
  ELSE DeleteThis(send_reply(x))

OnCall(x) ==
  IF x.irs.reg = "NOT_REGISTERED"
  THEN send_server_assignment_request([x EXCEPT !.irs.reg = "UNREGISTERED"],
                                      "UNREGISTERED_USER")
  ELSE DeleteThis(send_reply(x))

OnDeregister(x) ==
  IF x.irs.reg # "NOT_REGISTERED"
  THEN send_server_assignment_request([x EXCEPT !.irs.reg = "NOT_REGISTERED"],
                                      x.req.type)
  ELSE DeleteThis(send_http_reply(x, 400))

\* The task has an IRS, the cache's or an empty one.
process_received_reg_data(x, irs) ==
  LET newBinding == /\ x.impi # None /\ irs.doc # NoDocument
                    /\ x.impi \notin irs.impis
      y == [x EXCEPT !.irs = irs, !.cached = irs.reg,
                     !.impi = IF @ = None THEN get_private_id(irs.doc) ELSE @]
  IN IF x.req.method = "GET"
       THEN DeleteThis(send_reply([x EXCEPT !.irs = irs, !.cached = irs.reg]))
     ELSE IF x.req.type = "REG" THEN OnRegister(y, newBinding)
     ELSE IF x.req.type = "CALL" THEN OnCall(y)
     ELSE IF is_deregistration_request(x.req.type) THEN OnDeregister(y)
     ELSE send_server_assignment_request(y, x.req.type)

-----------------------------------------------------------------------------
(* The callbacks.                                                          *)

Become(t, x) == task' = [task EXCEPT ![t] = x]

Upset(kind) ==
  /\ kind \in Upsets \ upsets /\ Cardinality(upsets \ {"overlap"}) < MaxUpsets
  /\ upsets' = upsets \cup {kind}

Busy == {t \in Tasks : task[t].pc \notin {"new", "gone"}}

\* run: management requests may only read, a PUT needs a known request type.
Run(t) ==
  LET x == task[t]
      bad == \/ x.req.method \notin {"GET", "PUT"}
             \/ x.req.management /\ x.req.method # "GET"
  IN /\ x.pc = "new" /\ Cardinality(Busy) < MaxBusy
     /\ Become(t, IF bad THEN DeleteThis(send_http_reply(x, 405))
                  ELSE IF x.req.method = "PUT" /\ x.req.type = "UNKNOWN"
                    THEN DeleteThis(send_http_reply(x, 400))
                  ELSE [x EXCEPT !.pc = "lookup"])
     /\ upsets' = IF Busy = {} THEN upsets ELSE upsets \cup {"overlap"}
     /\ UNCHANGED <<hssConn, cache, assigned>>

\* The cache answers get_reg_data.  A PUT takes a missing record for an empty
\* one.
OnGetRegData(t) ==
  LET x == task[t]  k == public_id(x) IN
  /\ x.pc = "lookup"
  /\ Become(t, IF ~Cached(k) /\ x.req.method = "GET"
               THEN DeleteThis(send_http_reply(x, 404))
               ELSE process_received_reg_data(x, IrsOf(k)))
  /\ UNCHANGED <<hssConn, cache, assigned, upsets>>

\* The lookup fails.
OnGetRegDataFailure(t) ==
  /\ task[t].pc = "lookup" /\ Upset("cacheFails")
  /\ Become(t, DeleteThis(send_http_reply(task[t], 504)))
  /\ UNCHANGED <<hssConn, cache, assigned>>

\* The state in which a SAR that the HSS accepts leaves the subscriber.
AssignedBy(sar, state) ==
  CASE sar \in {"REGISTRATION", "RE_REGISTRATION"} -> "REGISTERED"
    [] sar = "UNREGISTERED_USER"      -> "UNREGISTERED"
    [] is_deregistration_request(sar) -> "NOT_REGISTERED"
    [] is_auth_failure_request(sar)   -> state

\* A Diameter HSS accepts the SAR and sends its answer (external).
HssAccept(t, data) ==
  LET x == task[t] IN
  /\ hssConn = "diameter" /\ x.pc = "sar" /\ x.saa = None
  /\ assigned' = [assigned EXCEPT ![public_id(x)] = AssignedBy(x.sar, @)]
  /\ Become(t, [x EXCEPT !.saa = data])
  /\ UNCHANGED <<hssConn, cache, upsets>>

\* The answer arrives.
OnAccepted(t) ==
  LET x == task[t] IN
  /\ x.pc = "sar" /\ x.saa # None
  /\ Become(t, on_sar_response(x, "SUCCESS", x.saa, None))
  /\ UNCHANGED <<hssConn, cache, assigned, upsets>>

\* The answer does not arrive in time.
OnAnswerLost(t) ==
  LET x == task[t] IN
  /\ x.pc = "sar" /\ x.saa # None /\ Upset("answerLost")
  /\ Become(t, on_sar_response(x, TimeoutResult, NoData, None))
  /\ UNCHANGED <<hssConn, cache, assigned>>

\* The HSS rejects the SAR, or the SAR does not get there.
OnRejected(t, result) ==
  LET x == task[t] IN
  /\ hssConn = "diameter" /\ x.pc = "sar" /\ x.saa = None
  /\ Become(t, on_sar_response(x, result, NoData, None))
  /\ UNCHANGED <<hssConn, cache, assigned, upsets>>

\* The HSS says that the public ID belongs to a wildcarded one.
OnNewWildcard(t, wildcard) ==
  LET x == task[t] IN
  /\ hssConn = "diameter" /\ x.pc = "sar" /\ x.saa = None
  /\ wildcard \in HssWildcards[x.req.impu]
  /\ Become(t, on_sar_response(x, "NEW_WILDCARD", NoData, wildcard))
  /\ UNCHANGED <<hssConn, cache, assigned, upsets>>

\* Mutant: the charging addresses come in the order of the columns.
GetRegDataInOrder(row) ==
  [doc |-> GetXml(row, NoDocument), charging |-> Values(row, {"primary_ccf", "secondary_ccf"})]

\* GetRegData::perform: whatever the order of the columns, the primary address
\* comes first.
GetRegData(row) ==
  [doc |-> GetXml(row, NoDocument),
   charging |-> Values(row, {"primary_ccf"}) \o Values(row, {"secondary_ccf"})]

\* Homestead-Prov's database answers a SAR that assigns.
OnCassandraResult(t, r, row) ==
  LET x == task[t] IN
  /\ hssConn = "hsprov" /\ x.pc = "sar"
  /\ Become(t, on_sar_response(x, HsProvResult(r), GetRegData(row), None))
  /\ UNCHANGED <<hssConn, cache, assigned, upsets>>

\* A put, as MemcachedCache does it.  A task that had found no record writes
\* its own: over any record that has appeared since if it registers, not at
\* all in that case if it does not.  A task that had found one merges what it
\* added into the record that is there now.
Put(x, k) ==
  LET found == x.cached # "NOT_REGISTERED"
      added == IF x.sar = "REGISTRATION" THEN {x.impi} ELSE {}
  IN IF ~Cached(k) THEN x.irs
     ELSE IF found THEN [x.irs EXCEPT !.impis = cache[k].impis \cup added]
     ELSE IF x.irs.reg = "REGISTERED" THEN x.irs
     ELSE cache[k]

CachePut(x) == cache' = [cache EXCEPT ![public_id(x)] = Put(x, public_id(x))]

CacheDelete(x) == cache' = [cache EXCEPT ![public_id(x)] = None]

\* Mutant: the reply does not wait for the write.
OnPutAtOnce(t) ==
  /\ task[t].pc = "put"
  /\ Become(t, [send_reply(task[t]) EXCEPT !.pc = "saved"])
  /\ UNCHANGED <<hssConn, cache, assigned, upsets>>

\* on_put_reg_data_progress: the local site has the record.
OnPutProgress(t) ==
  /\ task[t].pc = "put" /\ CachePut(task[t])
  /\ Become(t, [send_reply(task[t]) EXCEPT !.pc = "saved"])
  /\ UNCHANGED <<hssConn, assigned, upsets>>

\* The failed put may have taken effect.
OnPutFailure(t) ==
  /\ task[t].pc = "put" /\ Upset("cacheFails")
  /\ CachePut(task[t]) \/ UNCHANGED cache
  /\ Become(t, DeleteThis(send_http_reply(task[t], 503)))
  /\ UNCHANGED <<hssConn, assigned>>

\* on_del_impu_progress.
OnDeleteProgress(t) ==
  /\ task[t].pc = "del" /\ CacheDelete(task[t])
  /\ Become(t, [send_reply(task[t]) EXCEPT !.pc = "saved"])
  /\ UNCHANGED <<hssConn, assigned, upsets>>

\* Mutant: a missing record is benign, but the task stays to hear more.
OnDeleteNotFoundStays(t) ==
  /\ task[t].pc = "del" /\ ~Cached(public_id(task[t]))
  /\ Become(t, send_reply(task[t]))
  /\ UNCHANGED <<hssConn, cache, assigned, upsets>>

\* on_del_impu_failure: there is no record any more, which is benign.
OnDeleteNotFound(t) ==
  /\ task[t].pc = "del" /\ ~Cached(public_id(task[t]))
  /\ Become(t, DeleteThis(send_reply(task[t])))
  /\ UNCHANGED <<hssConn, cache, assigned, upsets>>

\* Any other failure of the delete, which may have taken effect.
OnDeleteFailure(t) ==
  LET x == task[t] IN
  /\ x.pc = "del" /\ Upset("cacheFails")
  /\ CacheDelete(x) \/ UNCHANGED cache
  /\ Become(t, DeleteThis(send_http_reply(x, IF x.rc = 200 THEN 503 ELSE x.rc)))
  /\ UNCHANGED <<hssConn, assigned>>

\* on_put_reg_data_success and on_del_impu_success: the remote sites are done.
OnCacheSuccess(t) ==
  /\ task[t].pc = "saved" /\ Become(t, DeleteThis(task[t]))
  /\ UNCHANGED <<hssConn, cache, assigned, upsets>>

\* hss_reregistration_time passes after the record's TTL was set.
Age(k) ==
  /\ Cached(k) /\ ~cache[k].aged /\ Upset("ages")
  /\ cache' = [cache EXCEPT ![k].aged = TRUE]
  /\ UNCHANGED <<hssConn, assigned, task>>

\* The record's TTL passes.
Expire(k) ==
  /\ Cached(k) /\ Upset("expires")
  /\ cache' = [cache EXCEPT ![k] = None]
  /\ UNCHANGED <<hssConn, assigned, task>>

Rejections == {SaaResult(a) : a \in DiameterAnswers} \ {"SUCCESS", "NEW_WILDCARD"}

HssStep(t) ==
  \/ \E doc \in Documents, charging \in Charging :
       HssAccept(t, [doc |-> doc, charging |-> charging])
  \/ OnAccepted(t)
  \/ \E result \in Rejections : OnRejected(t, result)
  \/ \E wildcard \in PublicIds : OnNewWildcard(t, wildcard)
  \/ OnAnswerLost(t)
  \/ \E r \in CassandraResults, row \in Rows : OnCassandraResult(t, r, row)

CacheStep(t) ==
  \/ OnGetRegData(t) \/ OnGetRegDataFailure(t)
  \/ OnPutProgress(t) \/ OnPutFailure(t)
  \/ OnDeleteProgress(t) \/ OnDeleteNotFound(t) \/ OnDeleteFailure(t)
  \/ OnCacheSuccess(t)

Next ==
  \/ \E t \in Tasks : Run(t) \/ HssStep(t) \/ CacheStep(t)
  \/ \E k \in PublicIds : Age(k) \/ Expire(k)

Spec == Init /\ [][Next]_vars

\* The HTTP threads run every request; a SAR that the HSS does not answer times
\* out; the HSS connection calls back with every answer; the cache's thread pool
\* runs every lookup to its end.  Nothing is taken for granted of the cache's
\* writes, whose loops may not end (DeleteLoopEnds of MemcachedCache).
Fairness ==
  \A t \in Tasks :
    /\ WF_vars(Run(t)) /\ WF_vars(OnGetRegData(t) \/ OnGetRegDataFailure(t))
    /\ WF_vars(OnRejected(t, TimeoutResult)) /\ WF_vars(OnAccepted(t))
    /\ WF_vars(\E r \in CassandraResults, row \in Rows : OnCassandraResult(t, r, row))

FairSpec == Spec /\ Fairness

-----------------------------------------------------------------------------
(* Properties.                                                             *)

\* Whichever chain of callbacks a task goes through, and however often the
\* HSS starts it over, Sprout gets exactly one reply, and gets it before the
\* task is deleted (every send_reply / send_http_reply and delete this).
OneReply ==
  \A t \in Tasks :
    task[t].replies = IF task[t].pc \in {"saved", "gone"} THEN 1 ELSE 0

\* The cache holds what the HSS has said.  Except for what a failing cache
\* operation leaves behind, a record is written only by a task whose last SAR
\* the HSS has accepted, and removed only by a deregistration that the HSS has
\* answered (on_sar_response and its comment on undelivered SARs).
CacheFollowsHss ==
  [][task' # task /\ upsets' \subseteq upsets \cup {"overlap"} =>
       \A k \in PublicIds : cache'[k] # cache[k] =>
       \E t \in Tasks :
         LET x == task[t] IN
         /\ public_id(x) = k /\ task'[t].pc = "saved" /\ x.pc # "saved"
         /\ IF cache'[k] # None
            THEN x.heard = "SUCCESS" /\ Assigns(x.sar)
            ELSE /\ is_deregistration_request(x.req.type)
                 /\ x.heard \notin {"none", TimeoutResult}]_vars

Replies(t) == task'[t].replies > task[t].replies

\* A reply is true when it is sent.  After a 200 to a registration the cache
\* has the subscriber registered, with the request's private ID if it has one,
\* unless the HSS sent a document without identities; after a 200 to a call the
\* subscriber is known; after a 200 to a deregistration the record is gone
\* (send_reply comes after the local write in every on_put and on_del
\* callback).  A re-registration adds no private ID: its record may have been
\* replaced by one without it.  The code deletes the record with Homestead-Prov
\* as well, where docs/homestead_api.md:93 has the user set to UNREGISTERED.
AnswerHolds ==
  [][\A t \in Tasks :
       LET x == task'[t]  irs == cache'[public_id(x)] IN
       Replies(t) /\ x.code = 200 /\ x.req.method = "PUT" =>
         /\ x.req.type = "REG" /\ x.irs.doc.form = "good" =>
              /\ irs # None /\ irs.reg = "REGISTERED"
              /\ x.req.impi # None /\ x.sar # "RE_REGISTRATION" => x.req.impi \in irs.impis
         /\ x.req.type = "CALL" /\ x.irs.doc.form = "good" =>
              irs # None /\ irs.reg # "NOT_REGISTERED"
         /\ is_deregistration_request(x.req.type) => irs = None]_vars

\* Requests that are handled one after the other, with a cache that works, no
\* lost answer and an HSS whose documents list identities, leave no record that
\* the HSS disagrees with: what the cache says of a subscriber is the state the
\* HSS has assigned.
CacheMatchesHss ==
  /\ hssConn = "diameter" /\ Busy = {} /\ upsets \subseteq {"ages", "expires"}
  /\ \A t \in Tasks : task[t].heard = "SUCCESS" /\ Assigns(task[t].sar)
                       => task[t].irs.doc.form = "good"
  => \A k \in PublicIds : Cached(k) => assigned[k] = cache[k].reg

\* Every task comes to its end, or to the write of the cache that is all it
\* waits for, unless the HSS goes on naming another wildcard than the last time.
\* In particular a task whose wildcard the HSS repeats is not started over for
\* ever ("Return an error rather than retrying to avoid looping",
\* on_sar_response; an HSS that alternates between two wildcards does keep a
\* task going).
EveryTaskEnds ==
  \A t \in Tasks :
    \/ <>(task[t].pc \in {"put", "del", "saved", "gone"})
    \/ \A k \in PublicIds \cup {None} : []<>(task[t].wildcard # k)
=============================================================================
