------------------------------ MODULE Homestead ------------------------------
(***************************************************************************)
(* Homestead between Sprout and the HSS: the registration-data requests of *)
(* Sprout (RegDataTask) and the RTRs and PPRs of the HSS (DiameterTasks)   *)
(* on one cache.  The HSS has a profile, charging addresses and a          *)
(* registration state for each registration set; Sprout has the bindings   *)
(* and the profile that it was told last.                                  *)
(***************************************************************************)
EXTENDS DiameterTasks

CONSTANTS
  HttpTasks,     \* the HTTP requests that may arrive
  HttpRequests,  \* what Sprout may send
  HttpUpsets,    \* the upsets of RegDataTask that may happen
  HttpRejections, \* the results with which a SAR may fail
  Subscriptions, \* private ID -> its default public IDs, as the HSS has them
  HssData        \* default public ID -> the profile and charging addresses the HSS has at first

ASSUME HomesteadAssumption ==
  /\ Subscriptions \in [Impis -> SUBSET Impus]
  /\ HssData \in [Impus -> [doc : Profiles, charging : Charging]]
  /\ \A c \in Caches, k \in Impus :
       c[k] # None => HssData[k] = [doc |-> c[k].doc, charging |-> c[k].charging]
  /\ "cacheFails" \in HttpUpsets => "cacheFails" \in Upsets

\* The public ID whose record a request of Sprout is about.
KeyOf(r) == IF r.wildcard = None THEN r.impu ELSE r.wildcard

\* What AllAgree takes for granted of the HSS and of Sprout.  A private ID has one
\* registration set, whose record the cache's index leads to; Sprout registers it
\* there, by its private ID.  An RTR names one public ID, or all the private IDs
\* of a registration set.  Every profile has identities.
OneSetEach ==
  /\ \A i \in Impis : \A k, l \in Subscriptions[i] : k = l
  /\ \A c \in Caches, k \in Impus :
       c[k] # None => \A i \in c[k].impis : i \in Impis /\ k \in Subscriptions[i]
  /\ \A r \in HttpRequests :
       r.type = "REG" => r.impi \in Impis /\ KeyOf(r) \in Subscriptions[r.impi]
  /\ \A r \in Requests : r.kind = "RTR" /\ ValidRtr(r) =>
       IF RtrImpus(r) = {}
       THEN \A i \in r.impis, j \in Impis :
              Subscriptions[i] \cap Subscriptions[j] # {} => j \in r.impis
       ELSE \A k, l \in r.impus : k = l
  /\ \A doc \in Profiles : doc.form = "good"

VARIABLES
  hssConn, assigned, http,   \* hssConn, assigned and task of RegDataTask
  hss,    \* default public ID -> the HSS's profile and charging addresses (external)
  raced   \* history: two requests have met in one of the windows below

allVars == <<vars, hssConn, assigned, http, hss, raced>>

\* RegDataTask, with what is proved of it.
Http == INSTANCE RegDataTaskProofs WITH
  Tasks <- HttpTasks, PublicIds <- Impus, PrivateIds <- Impis, Documents <- Profiles,
  Rows <- {}, HssWildcards <- [k \in Impus |-> {}], Upsets <- HttpUpsets, task <- http

\* The constants are as RegDataTask wants them.
ASSUME HttpAssumption == Http!RegDataConstants /\ HttpRejections \subseteq Http!Rejections

HomesteadTypeOK == TypeOK /\ Http!TypeOK

HomesteadInit ==
  /\ Init
  /\ hssConn = "diameter"
  /\ assigned = [k \in Impus |-> Http!IrsOf(k).reg]
  /\ http \in [HttpTasks -> {Http!NewTask(r) : r \in HttpRequests}]
  /\ hss = HssData
  /\ raced = FALSE

-----------------------------------------------------------------------------
(* Sprout's requests.                                                      *)

\* Sprout takes the profile out of a reply to a registration, and has no bindings
\* left after a deregistration (external).
SproutHears(h) ==
  LET x == http'[h]  k == Http!public_id(x) IN
  sprout' = IF x.replies = http[h].replies \/ x.code # 200 THEN sprout
            ELSE IF x.req.type = "REG"
              THEN [sprout EXCEPT ![k] = [impis |-> @.impis \cup {x.impi}, profile |-> x.irs.doc]]
            ELSE IF Http!is_deregistration_request(x.req.type)
              THEN [sprout EXCEPT ![k] = [impis |-> {}, profile |-> None]]
            ELSE sprout

\* The HSS answers a SAR with the data it has.
HssAccepts(h) ==
  /\ Http!HssAccept(h, hss[Http!public_id(http[h])])
  /\ UNCHANGED sprout

HttpStep(h) ==
  /\ \/ HssAccepts(h)
     \/ /\ \/ Http!Run(h) \/ Http!CacheStep(h)
           \/ Http!OnAccepted(h) \/ Http!OnAnswerLost(h)
           \/ \E result \in HttpRejections : Http!OnRejected(h, result)
        /\ SproutHears(h)
  /\ UNCHANGED <<task, hss>>

-----------------------------------------------------------------------------
(* The HSS's requests.                                                     *)

\* The registration sets that an RTR is about.
Terminated(r) ==
  IF RtrImpus(r) = {} THEN UNION {Subscriptions[i] : i \in r.impis} ELSE r.impus

\* The HSS's data change when it sends a PPR, and the assignment ends when it
\* sends an RTR (external).
HssSends(r) ==
  IF r.kind = "PPR"
  THEN /\ hss' = [k \in Impus |->
            [doc |-> IF k = r.default /\ r.profile # None THEN r.profile ELSE hss[k].doc,
             charging |-> IF k \in Subscriptions[r.impi] /\ r.charging # None
                          THEN r.charging ELSE hss[k].charging]]
       /\ UNCHANGED assigned
  ELSE /\ assigned' = [k \in Impus |->
            IF ValidRtr(r) /\ k \in Terminated(r) THEN "NOT_REGISTERED" ELSE assigned[k]]
       /\ UNCHANGED hss

DiameterStep(t) ==
  /\ Step(t)
  /\ IF task[t].pc = "new" THEN HssSends(task[t].req) ELSE UNCHANGED <<assigned, hss>>
  /\ UNCHANGED <<hssConn, http>>

-----------------------------------------------------------------------------
(* The windows in which two requests may do each other harm.               *)

\* The HSS sends a request while its answer to a SAR, which is older, is still on
\* its way to the cache.
AnswerOutdated ==
  /\ \E t \in Tasks : task[t].pc = "new" /\ task'[t].pc # "new"
  /\ \E h \in HttpTasks : http[h].saa # None \/ http[h].pc = "put"

\* A request reads the cache after Sprout has been told of a new profile, and
\* before the profile is there.
EarlyRead ==
  \E h \in HttpTasks, t \in Tasks :
    /\ http[h].pc = "lookup" /\ http'[h].pc # "lookup"
    /\ task[t].pc = "put" /\ Http!public_id(http[h]) \in task[t].told

\* A record is deleted, or expires, that a PPR has read and will write.
LateDelete ==
  \E k \in Impus, t \in Tasks :
    /\ cache[k] # None /\ cache'[k] = None
    /\ task[t].req.kind = "PPR" /\ task[t].pc \in {"sprout", "put"} /\ k \in SetsOf(task[t])

History == raced' = (raced \/ AnswerOutdated \/ EarlyRead \/ LateDelete)

HomesteadNext ==
  /\ \/ \E h \in HttpTasks : HttpStep(h)
     \/ \E t \in Tasks : DiameterStep(t)
     \/ \E k \in Impus : (Http!Age(k) \/ Http!Expire(k)) /\ UNCHANGED <<sprout, task, hss>>
  /\ Cardinality(Busy') + Cardinality(Http!Busy') =< MaxBusy
  /\ History

HomesteadSpec == HomesteadInit /\ [][HomesteadNext]_allVars

\* Homestead does not stand still while one of its requests can go on, which is
\* enough here since no request is started over.  It includes that the cache's
\* operations end, which they do not always (DeleteLoopEnds of MemcachedCache).
HomesteadFairSpec == HomesteadSpec /\ WF_allVars(HomesteadNext)

-----------------------------------------------------------------------------
(* Properties.                                                             *)

Quiet == Busy = {} /\ Http!Busy = {}

\* A PPR that was refused, or found no set to give its charging addresses to.
Missed(x) ==
  \/ x.answer = "DIAMETER_REQ_FAILURE"
  \/ x.req.charging # None /\ x.pc \in {"put", "saved", "gone"} /\ SetsOf(x) = {}

\* The three agree.  When nothing is going on any more, every registration set
\* in the cache that a device is bound to has the state, the profile and the
\* charging addresses that the HSS has, and Sprout, if it has bindings of it,
\* has the same profile.  This is so however a request of Sprout interleaves
\* with one of the HSS, and whatever the SARs come to, as long as none of the
\* windows above is hit (nothing in the code closes them), the HSS's requests
\* do not overlap, the cache works, no answer is lost after the HSS has acted
\* on the SAR, and no PPR has been refused or found nothing to change
\* (PushProfileTask, which tells Sprout before the cache; ImpuRegDataTask, which
\* reads the cache, asks the HSS and writes the cache).  A set without private
\* IDs, made by a call, is left out: the cache has no index by which an RTR or a
\* PPR for a private ID could find it.
AllAgree ==
  /\ Quiet /\ ~raced /\ upsets \subseteq {"ages", "expires"}
  /\ \A t \in Tasks : task[t].req.kind = "PPR" => ~Missed(task[t])
  => \A k \in Impus : Cached(k) /\ cache[k].impis # {} =>
       /\ cache[k].reg = assigned[k]
       /\ cache[k].doc = hss[k].doc /\ cache[k].charging = hss[k].charging
       /\ sprout[k].impis # {} => sprout[k].profile = cache[k].doc

\* Every request of either side is answered and its task deleted, if the cache's
\* operations end: no callback of one leaves another waiting (the callbacks of
\* ImpuRegDataTask, RegistrationTerminationTask and PushProfileTask on one cache).
EveryRequestEnds ==
  <>(/\ \A t \in Tasks : task[t].pc = "gone"
     /\ \A h \in HttpTasks : http[h].pc = "gone")
=============================================================================
