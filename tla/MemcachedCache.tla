---------------------------- MODULE MemcachedCache ----------------------------
(***************************************************************************)
(* MemcachedCache (src/memcached_cache.cpp) at work: the worker threads of *)
(* the Homesteads of all sites read and change implicit registration sets  *)
(* (IRSs) in shared memcached stores.                                      *)
(*                                                                         *)
(* A worker serves one request at a time.  It reads the IRS (from the      *)
(* store of its own site, else from the other sites), changes its private  *)
(* copy the way the handler does, and puts or deletes it, first in its own *)
(* site's store and then in every remote one.  Each call to a store is one *)
(* step, so the calls of different workers interleave; everything a worker *)
(* does between two calls touches only its own state and belongs to the    *)
(* step of the call it follows.                                            *)
(*                                                                         *)
(* The environment may make calls fail, let entries expire and crash       *)
(* workers, a bounded number of times.                                     *)
(***************************************************************************)
EXTENDS ImplicitRegSet

CONSTANTS
  Workers,     \* worker threads, of all Homesteads
  Sites,       \* Worker -> <<its local store, remote store, ...>>
  Requests,    \* the requests workers may be given
  MaxOps,      \* bound: requests in all
  OneAtATime,  \* bound: no two requests are in progress at the same time
  Upsets,      \* what the environment may do, see UpsetKinds
  MaxUpsets    \* bound: how often it does so

Kinds == {"REG", "CALL", "DEREG", "RTR", "PPR"}

\* A store call fails, an entry expires, a worker crashes.
UpsetKinds == {"fault", "expiry", "crash"}

ASSUME CacheAssumption ==
  /\ Sites \in [Workers -> Seq(Stores)]
  /\ \A w \in Workers : Sites[w] # << >>
  /\ Requests \subseteq [kind : Kinds, impu : Impus, impi : Impis]
  /\ Upsets \subseteq UpsetKinds
  /\ MaxOps \in Nat /\ OneAtATime \in BOOLEAN /\ MaxUpsets \in Nat

VARIABLES
  impu,     \* Store -> Key -> entry of the "impu" table
  mapping,  \* Store -> Impi -> entry of the "impi_mapping" table
  lastCas,  \* Store -> last CAS value the store handed out
  worker,   \* Worker -> the state of its request, see WorkerStates
  ops,      \* number of requests so far
  upsets    \* number of upsets so far

stores == <<impu, mapping, lastCas>>
vars   == <<stores, worker, ops, upsets>>

-----------------------------------------------------------------------------
(* The state of a worker.                                                  *)

\* The store call it makes next.
Pcs == {"idle", "getMapping", "get", "getRemote", "follow", "followRemote",
        "create", "set", "delete", "getStored", "work", "assocDelete",
        "mapDeleteGet", "mapDelete", "mapRefreshGet", "mapRefresh",
        "mapAddGet", "mapAdd"}

\* The references to an IRS, in the order in which they are brought up to
\* date: associated IMPUs first, then IMPI mappings; in each table the
\* deleted ones, the unchanged ones (when the IRS is refreshed), the added.
Phases == <<"assocDelete", "assocRefresh", "assocAdd",
            "mapDelete", "mapRefresh", "mapAdd">>
AssocPhases == {Phases[n] : n \in 1..3}
MapPhases == {Phases[n] : n \in 4..6}

AssocReferences == AssocPhases \X Impus
References == AssocReferences \cup (MapPhases \X Impis)

\* Progress of a read: the IMPU asked for, the key being read, the IMPUs to
\* try if this one leads nowhere, the remote stores' answers so far and the
\* remote stores still to answer.
Reads ==
  [asked : Keys, key : Keys, queue : SUBSET Keys,
   answers : [Stores -> ImpuEntries], unread : SUBSET Stores]

NoRead == [asked |-> NoImpu, key |-> NoImpu, queue |-> {},
           answers |-> [s \in Stores |-> AbsentImpu], unread |-> {}]
NoItem == << >>
NoRequest == [kind |-> "none"]

WorkerStates ==
  [pc     : Pcs,
   req    : Requests \cup {NoRequest},
   read   : Reads,
   irs    : ImplicitRegSets,            \* its copy of the IRS
   site   : Nat \ {0},                  \* position in Sites of the store
   cas    : Nat,                        \* CAS for its next write of the record
   todo   : SUBSET References,          \* references still to update
   item   : References \cup {NoItem},   \* the one it is working on
   mp     : MappingEntries,             \* the ImpiMapping it has in hand
   status : {"OK", "ERROR", "DATA_CONTENTION"},  \* of the update loops
   told   : {"nothing", "success", "failure"}]   \* what the handler heard

Idle ==
  [pc |-> "idle", req |-> NoRequest, read |-> NoRead, irs |-> NewSet,
   site |-> 1, cas |-> 0, todo |-> {}, item |-> NoItem,
   mp |-> AbsentMapping, status |-> "OK", told |-> "nothing"]

TypeOK ==
  /\ impu \in [Stores -> [Keys -> ImpuEntries]]
  /\ mapping \in [Stores -> [Impis -> MappingEntries]]
  /\ lastCas \in [Stores -> Nat]
  /\ worker \in [Workers -> WorkerStates]
  /\ ops \in 0..MaxOps
  /\ upsets \in 0..MaxUpsets

Init ==
  /\ impu = [s \in Stores |-> [k \in Keys |-> AbsentImpu]]
  /\ mapping = [s \in Stores |-> [p \in Impis |-> AbsentMapping]]
  /\ lastCas = [s \in Stores |-> 0]
  /\ worker = [w \in Workers |-> Idle]
  /\ ops = 0
  /\ upsets = 0

LocalStore(w) == Sites[w][1]
RemoteStores(w) == {Sites[w][n] : n \in 2..Len(Sites[w])}
Store(w) == Sites[w][worker[w].site]
Deleting(x) == x.req.kind \in {"DEREG", "RTR"}

\* Worker w is now in state x.
Become(w, x) == worker' = [worker EXCEPT ![w] = x]

-----------------------------------------------------------------------------
(* Store calls (Store is external).                                        *)

\* The call is answered, or it fails with Store::Status::ERROR.
Upset(kind) == kind \in Upsets /\ upsets < MaxUpsets /\ upsets' = upsets + 1
Answered == UNCHANGED upsets
Fails == Upset("fault")

WriteImpu(s, k, rec) ==
  /\ lastCas' = [lastCas EXCEPT ![s] = @ + 1]
  /\ impu' = [impu EXCEPT ![s][k] = [cas |-> lastCas[s] + 1, rec |-> rec]]
  /\ UNCHANGED mapping

RemoveImpu(s, k) ==
  /\ impu' = [impu EXCEPT ![s][k] = AbsentImpu]
  /\ UNCHANGED <<mapping, lastCas>>

WriteMapping(s, p, impus) ==
  /\ lastCas' = [lastCas EXCEPT ![s] = @ + 1]
  /\ mapping' = [mapping EXCEPT ![s][p] = [cas |-> lastCas[s] + 1,
                                           impus |-> impus]]
  /\ UNCHANGED impu

RemoveMapping(s, p) ==
  /\ mapping' = [mapping EXCEPT ![s][p] = AbsentMapping]
  /\ UNCHANGED <<impu, lastCas>>

-----------------------------------------------------------------------------
(* Moving on: the state of worker w after state x.                         *)

\* The request is over: the worker drops what it holds.
Released(answer) == [Idle EXCEPT !.told = answer]

\* Mutants: a new set is merged with the record too; the CAS value is used in
\* whatever store.
FirstCallMerges(x, i, s) ==
  IF i.store # s THEN "getStored" ELSE IF Deleting(x) THEN "delete" ELSE "set"

FirstCallAnyStore(x, i, s) ==
  IF ~i.existing THEN "create" ELSE IF Deleting(x) THEN "delete" ELSE "set"

\* First call of put_irs_action or delete_irs_action on store s for IRS i:
\* the record the IRS was read from can be written (or deleted) right away,
\* any other store is read first.
FirstCall(x, i, s) ==
  IF ~i.existing THEN "create"
  ELSE IF i.store # s THEN "getStored"
  ELSE IF Deleting(x) THEN "delete" ELSE "set"

\* It turns to its n-th store with IRS i.
Entered(w, x, i, n) ==
  [Idle EXCEPT !.pc = FirstCall(x, i, Sites[w][n]), !.req = x.req,
               !.irs = i, !.site = n, !.cas = i.cas, !.told = x.told]

\* Mutants: the last remote store is left out; a failure in the local store
\* is reported as success.
LeftShort(w, x, ok) ==
  LET told == IF x.site # 1 THEN x.told
              ELSE IF ok THEN "success" ELSE "failure"
  IN IF ok /\ x.site + 1 < Len(Sites[w])
     THEN Entered(w, [x EXCEPT !.told = told], x.irs, x.site + 1)
     ELSE Released(told)

LeftHappy(w, x, ok) ==
  IF x.site < Len(Sites[w])
  THEN Entered(w, [x EXCEPT !.told = "success"], x.irs, x.site + 1)
  ELSE Released("success")

\* perform: the handler hears of success once the local store is done, and
\* then the remote stores follow, whatever becomes of each; it hears of
\* failure if the local store failed.  put_ims_sub_action (PPR) reports
\* success in every case.
Left(w, x, ok) ==
  LET success == ok \/ x.req.kind = "PPR"
      told    == IF x.site # 1 THEN x.told
                 ELSE IF success THEN "success" ELSE "failure"
  IN IF x.site < Len(Sites[w]) /\ (x.site # 1 \/ success)
     THEN Entered(w, [x EXCEPT !.told = told], x.irs, x.site + 1)
     ELSE Released(told)

\* The references to bring up to date once the record is written or gone.
WorkList(i) ==
  LET Unchanged == IF i.refreshed THEN {"UNCHANGED"} ELSE {}
      Refs(phase, data, states) ==
        {phase} \X get_elements_in_state(data, states)
  IN UNION {Refs("assocDelete",  i.impus, {"DELETED"}),
            Refs("assocRefresh", i.impus, Unchanged),
            Refs("assocAdd",     i.impus, {"ADDED"}),
            Refs("mapDelete",    i.impis, {"DELETED"}),
            Refs("mapRefresh",   i.impis, Unchanged),
            Refs("mapAdd",       i.impis, {"ADDED"})}

\* The IRS's own record is done.  Deleting an IRS deletes all references
\* to it that the worker knows of.
RecordDone(w, x) ==
  LET i == IF Deleting(x) THEN delete_all(x.irs) ELSE x.irs
  IN IF WorkList(i) = {}
     THEN Left(w, [x EXCEPT !.irs = i], TRUE)
     ELSE [x EXCEPT !.pc = "work", !.irs = i, !.todo = WorkList(i)]

\* One reference is done, leaving status st.  put_irs_action ignores what
\* the two update functions return; delete_irs_action does not touch the
\* mappings if the associated IMPUs failed, and returns the last status.
ReferenceDone(w, x, ref, st) ==
  LET left    == x.todo \ {ref}
      switch  == ref \in AssocReferences /\ left \cap AssocReferences = {}
      abandon == switch /\ Deleting(x) /\ st # "OK"
  IN IF left = {} \/ abandon
     THEN Left(w, x, ~Deleting(x) \/ st = "OK")
     ELSE [x EXCEPT !.pc = "work", !.todo = left, !.item = NoItem,
                    !.mp = AbsentMapping,
                    !.status = IF switch THEN "OK" ELSE st]

\* It goes on to call pc for ref, with mapping m in hand.
Continued(x, ref, pc, m, st) ==
  [x EXCEPT !.pc = pc, !.item = ref, !.mp = m, !.status = st]

-----------------------------------------------------------------------------
(* What the handlers do with an IRS between reading and writing it.        *)

\* REG: a new binding, or a set that is not registered, gets the IMPI; the
\* HSS's answer gives the document, the charging addresses and a new TTL.
Registered(i, impi, xml, charging) ==
  LET known == /\ i.reg = "REGISTERED"
               /\ i.xml = NoProfile \/ impi \in get_associated_impis(i)
      bound == IF known THEN i ELSE add_associated_impi(i, impi)
  IN set_ttl(set_ims_sub_xml(set_charging_addresses(
       set_reg_state(bound, "REGISTERED"), charging), xml))

\* CALL for a subscriber that is not registered.
Unregistered(i, xml, charging) ==
  set_ttl(set_ims_sub_xml(set_charging_addresses(
    set_reg_state(i, "UNREGISTERED"), charging), xml))

\* PPR: a new document, new charging addresses or both.
Pushed(i, xml, charging) ==
  LET j == IF xml = NoProfile THEN i ELSE set_ims_sub_xml(i, xml) IN
  IF charging = NoCharging THEN j ELSE set_charging_addresses(j, charging)

\* The document the HSS sends for a request about an IMPU lists that IMPU.
HssDocuments(k) == {xml \in Profiles : k \in get_public_ids(xml)}

\* What a PPR may bring for an IRS: a document, charging addresses or both.
\* A document that changes the default IMPU is rejected.
Pushes(i) ==
  {push \in (Profiles \cup {NoProfile}) \X Charging :
     /\ push # <<NoProfile, NoCharging>>
     /\ push[1] # NoProfile => get_default_id(push[1]) = i.default}

\* The IRSs a handler may put or delete, given the one it found.
PutSets(req, i) ==
  CASE req.kind = "REG" ->
         {Registered(i, req.impi, xml, c) :
            xml \in HssDocuments(req.impu), c \in Charging}
    [] req.kind = "CALL" -> {}
    [] req.kind = "DEREG" ->
         {mark_as_refreshed(set_reg_state(i, "NOT_REGISTERED"))}
    [] req.kind = "RTR" -> {mark_as_refreshed(i)}
    [] req.kind = "PPR" -> {Pushed(i, push[1], push[2]) : push \in Pushes(i)}

\* The IRSs a handler may put if there is none.
NewSets(req) ==
  CASE req.kind = "REG" ->
         {Registered(NewSet, req.impi, xml, c) :
            xml \in HssDocuments(req.impu), c \in Charging}
    [] req.kind = "CALL" ->
         {Unregistered(NewSet, xml, c) :
            xml \in HssDocuments(req.impu), c \in Charging}
    [] req.kind \in {"DEREG", "RTR", "PPR"} -> {}

\* Every handler may also end here: the answer is in the cache, the HSS
\* cannot be reached or rejects the request, or Sprout does.
Handled(w, x, sets) ==
  {Released("nothing")} \cup {Entered(w, x, i, 1) : i \in sets}

\* get_implicit_registration_sets_for_impus goes on to the next IMPU, until
\* it has found one IRS.
NextKeys(x, keys) ==
  {[Idle EXCEPT !.pc = "get", !.req = x.req,
                !.read = [NoRead EXCEPT !.asked = k, !.key = k,
                                        !.queue = keys \ {k}]] : k \in keys}

\* There is no IRS for the IMPU asked for.
NotFound(w, x) ==
  IF x.read.queue = {} THEN Handled(w, x, NewSets(x.req))
                       ELSE NextKeys(x, x.read.queue)

\* Store s answered the read with an entry.  The record of an associated
\* IMPU leads to its default IMPU; what is found there must be a default
\* IMPU's record that lists the IMPU the request asked for.
Found(w, x, s, entry) ==
  LET first == x.pc \in {"get", "getRemote"}
      rec   == entry.rec
  IN IF is_default_impu(rec)
        /\ (first \/ has_associated_impu(rec, x.read.asked))
     THEN Handled(w, x, PutSets(x.req, FromImpu(x.read.key, s, entry)))
     ELSE IF first
     THEN {[x EXCEPT !.pc = "follow",
                     !.read = [NoRead EXCEPT !.asked = x.read.asked,
                                             !.key = rec.default,
                                             !.queue = x.read.queue]]}
     ELSE NotFound(w, x)

-----------------------------------------------------------------------------
(* Requests and reads.                                                     *)

Start(w, r) ==
  /\ worker[w].pc = "idle" /\ ops < MaxOps
  /\ OneAtATime => \A v \in Workers : worker[v].pc = "idle"
  /\ ops' = ops + 1
  /\ IF r.kind \in {"RTR", "PPR"}
     THEN Become(w, [Idle EXCEPT !.pc = "getMapping", !.req = r])
     ELSE Become(w, [Idle EXCEPT !.pc = "get", !.req = r,
                                 !.read = [NoRead EXCEPT !.asked = r.impu,
                                                         !.key = r.impu]])
  /\ UNCHANGED <<stores, upsets>>

\* get_impi_mapping_gr: the local store, then the remote ones in turn until
\* one has the mapping.  Only an error of the local store counts.
GetMapping(w) ==
  LET x      == worker[w]
      entry  == mapping[Store(w)][x.req.impi]
      Absent == IF x.site < Len(Sites[w])
                THEN Become(w, [x EXCEPT !.site = @ + 1])
                ELSE Become(w, Released("nothing"))
  IN /\ x.pc = "getMapping"
     /\ \/ /\ Answered /\ IsPresent(entry)
           /\ \E y \in NextKeys(x, entry.impus) : Become(w, y)
        \/ Answered /\ ~IsPresent(entry) /\ Absent
        \/ Fails /\ x.site = 1 /\ Become(w, Released("nothing"))
        \/ Fails /\ x.site # 1 /\ Absent
     /\ UNCHANGED <<stores, ops>>

\* get_impu_for_impu_gr: the local store, and if it does not have the record
\* all the remote stores in parallel.
GetImpu(w) ==
  LET x     == worker[w]
      entry == impu[LocalStore(w)][x.read.key]
  IN /\ x.pc \in {"get", "follow"}
     /\ \/ /\ Answered /\ IsPresent(entry)
           /\ \E y \in Found(w, x, LocalStore(w), entry) : Become(w, y)
        \/ /\ Answered /\ ~IsPresent(entry) /\ RemoteStores(w) = {}
           /\ \E y \in NotFound(w, x) : Become(w, y)
        \/ /\ Answered /\ ~IsPresent(entry) /\ RemoteStores(w) # {}
           /\ Become(w, [x EXCEPT
                !.pc = IF @ = "get" THEN "getRemote" ELSE "followRemote",
                !.read.unread = RemoteStores(w)])
        \/ Fails /\ Become(w, Released("nothing"))
     /\ UNCHANGED <<stores, ops>>

\* The answers of the remote stores come in any order.  Once all are there,
\* the first store in the list that has the record is used, and a failed
\* read counts as "no record".
GetRemoteImpu(w, s) ==
  LET x == worker[w]
      Answer(entry) ==
        LET y == [x EXCEPT !.read.answers[s] = entry, !.read.unread = @ \ {s}]
            Has(n) == IsPresent(y.read.answers[Sites[w][n]])
            first  == {n \in 2..Len(Sites[w]) :
                         Has(n) /\ \A m \in 2..(n - 1) : ~Has(m)}
        IN IF y.read.unread # {} THEN Become(w, y)
           ELSE IF first = {} THEN \E z \in NotFound(w, y) : Become(w, z)
           ELSE \E n \in first :
                \E z \in Found(w, y, Sites[w][n], y.read.answers[Sites[w][n]]) :
                  Become(w, z)
  IN /\ x.pc \in {"getRemote", "followRemote"} /\ s \in x.read.unread
     /\ \/ Answered /\ Answer(impu[s][x.read.key])
        \/ Fails /\ Answer(AbsentImpu)
     /\ UNCHANGED <<stores, ops>>

-----------------------------------------------------------------------------
(* Writing the record of the default IMPU.  A write that fails may or may  *)
(* not have reached the store.                                             *)

\* Mutant: an UNREGISTERED set is written blindly too.
CreateImpuBlind(w) ==
  LET x == worker[w]
  IN /\ x.pc = "create" /\ Answered
     /\ WriteImpu(Store(w), x.irs.default, create_impu(x.irs))
     /\ Become(w, RecordDone(w, x)) /\ UNCHANGED ops

\* create_irs_impu: a REGISTERED set is written blindly, any other only if
\* there is no record yet.
CreateImpu(w) ==
  LET x     == worker[w]
      s     == Store(w)
      rec   == create_impu(x.irs)
      allow == \/ rec.reg = "REGISTERED"
               \/ SetAllowed(impu[s][x.irs.default], 0)
      Write == allow /\ WriteImpu(s, x.irs.default, rec)
  IN /\ x.pc = "create"
     /\ \/ /\ Answered /\ (Write \/ (~allow /\ UNCHANGED stores))
           /\ Become(w, RecordDone(w, x))
        \/ /\ Fails /\ (Write \/ UNCHANGED stores)
           /\ Become(w, Left(w, x, FALSE))
     /\ UNCHANGED ops

\* perform_irs_impu_action, with set_impu.
SetImpu(w) ==
  LET x     == worker[w]
      s     == Store(w)
      allow == SetAllowed(impu[s][x.irs.default], x.cas)
      Write == allow /\ WriteImpu(s, x.irs.default, create_impu(x.irs))
  IN /\ x.pc = "set"
     /\ \/ Answered /\ Write /\ Become(w, RecordDone(w, x))
        \/ /\ Answered /\ ~allow /\ UNCHANGED stores
           /\ Become(w, [x EXCEPT !.pc = "getStored"])
        \/ /\ Fails /\ (Write \/ UNCHANGED stores)
           /\ Become(w, Left(w, x, FALSE))
     /\ UNCHANGED ops

\* perform_irs_impu_action, with delete_impu: the CAS value is not used.
DeleteImpu(w) ==
  LET x      == worker[w]
      Remove == RemoveImpu(Store(w), x.irs.default)
  IN /\ x.pc = "delete"
     /\ \/ Answered /\ Remove /\ Become(w, RecordDone(w, x))
        \/ /\ Fails /\ (Remove \/ UNCHANGED stores)
           /\ Become(w, Left(w, x, FALSE))
     /\ UNCHANGED ops

\* perform_irs_impu_action, when the IRS is not from this store or the write
\* met a conflict: read the record and merge it into the IRS.  A read that
\* fails is taken for "no record".
GetStored(w) ==
  LET x     == worker[w]
      entry == impu[Store(w)][x.irs.default]
      Retry(i, c) == [x EXCEPT !.pc = IF Deleting(x) THEN "delete" ELSE "set",
                               !.irs = i, !.cas = c]
      Absent == IF Deleting(x) THEN RecordDone(w, x) ELSE Retry(x.irs, 0)
      Merged == Retry(update_from_impu_from_store(x.irs, entry.rec), entry.cas)
      Taken  == IF x.irs.refreshed THEN Retry(x.irs, entry.cas)
                                   ELSE Left(w, x, FALSE)
  IN /\ x.pc = "getStored"
     /\ \/ Answered /\ ~IsPresent(entry) /\ Become(w, Absent)
        \/ /\ Answered /\ IsPresent(entry)
           /\ Become(w, IF is_default_impu(entry.rec) THEN Merged ELSE Taken)
        \/ Fails /\ Become(w, Absent)
     /\ UNCHANGED <<stores, ops>>

-----------------------------------------------------------------------------
(* Bringing the references up to date, phase by phase.                     *)

IsNext(x, ref) ==
  /\ x.pc = "work" /\ ref \in x.todo
  /\ \E n \in DOMAIN Phases :
       /\ ref[1] = Phases[n]
       /\ \A r \in x.todo : \A m \in 1..(n - 1) : r[1] # Phases[m]

\* Is the worker at loop head pc for ref, for the first time or again?
Looping(x, ref, pc) == IsNext(x, ref) \/ (x.pc = pc /\ x.item = ref)

\* update_irs_associated_impus, deleted ones: the record is read, and deleted
\* if it still leads to this IRS.
GetAssociated(w, ref) ==
  LET x     == worker[w]
      entry == impu[Store(w)][ref[2]]
      ours  == entry.rec = AssociatedImpu(x.irs.default)
      Skip  == Become(w, ReferenceDone(w, x, ref, x.status))
  IN /\ IsNext(x, ref) /\ ref[1] = "assocDelete"
     /\ \/ /\ Answered /\ ours
           /\ Become(w, Continued(x, ref, "assocDelete", x.mp, x.status))
        \/ Answered /\ ~ours /\ Skip
        \/ Fails /\ Skip
     /\ UNCHANGED <<stores, ops>>

DeleteAssociated(w) ==
  LET x      == worker[w]
      Remove == RemoveImpu(Store(w), x.item[2])
  IN /\ x.pc = "assocDelete"
     /\ \/ /\ Answered /\ Remove
           /\ Become(w, ReferenceDone(w, x, x.item, "OK"))
        \/ /\ Fails /\ (Remove \/ UNCHANGED stores)
           /\ Become(w, ReferenceDone(w, x, x.item, "ERROR"))
     /\ UNCHANGED ops

\* update_irs_associated_impus, refreshed and added ones: written blindly.
SetAssociated(w, ref) ==
  LET x     == worker[w]
      Write == WriteImpu(Store(w), ref[2], AssociatedImpu(x.irs.default))
  IN /\ IsNext(x, ref) /\ ref[1] \in {"assocRefresh", "assocAdd"}
     /\ (Answered /\ Write) \/ (Fails /\ (Write \/ UNCHANGED stores))
     /\ Become(w, ReferenceDone(w, x, ref, x.status))
     /\ UNCHANGED ops

\* set_impi_mapping of mapping m: compared and set.
SetMapping(w, ref, m, retry) ==
  LET x     == worker[w]
      s     == Store(w)
      allow == SetAllowed(mapping[s][ref[2]], m.cas)
      Write == allow /\ WriteMapping(s, ref[2], m.impus)
  IN \/ Answered /\ Write /\ Become(w, ReferenceDone(w, x, ref, "OK"))
     \/ /\ Answered /\ ~allow /\ UNCHANGED stores
        /\ Become(w, Continued(x, ref, retry, m, "DATA_CONTENTION"))
     \/ /\ Fails /\ (Write \/ UNCHANGED stores)
        /\ Become(w, ReferenceDone(w, x, ref, "ERROR"))

\* Mutant: the status of the read is not kept separate.
GetMappingToDeleteOneStatus(w, ref) ==
  LET x     == worker[w]
      entry == mapping[Store(w)][ref[2]]
  IN /\ Looping(x, ref, "mapDeleteGet") /\ ref[1] = "mapDelete" /\ Answered
     /\ Become(w, IF IsPresent(entry)
                  THEN Continued(x, ref, "mapDelete",
                         [entry EXCEPT !.impus = @ \ {x.irs.default}], "OK")
                  ELSE ReferenceDone(w, x, ref, "NOT_FOUND"))
     /\ UNCHANGED <<stores, ops>>

\* update_irs_impi_mappings, deleted ones: the loop goes round while status is
\* DATA_CONTENTION, and only a write changes status.
GetMappingToDelete(w, ref) ==
  LET x     == worker[w]
      d     == x.irs.default
      entry == mapping[Store(w)][ref[2]]
      ours  == IsPresent(entry) /\ d \in entry.impus
      Skip  == Become(w, IF x.status = "DATA_CONTENTION"
                         THEN Continued(x, ref, "mapDeleteGet", AbsentMapping,
                                        x.status)
                         ELSE ReferenceDone(w, x, ref, x.status))
  IN /\ Looping(x, ref, "mapDeleteGet") /\ ref[1] = "mapDelete"
     /\ \/ /\ Answered /\ ours
           /\ Become(w, Continued(x, ref, "mapDelete",
                          [entry EXCEPT !.impus = @ \ {d}], x.status))
        \/ Answered /\ ~ours /\ Skip
        \/ Fails /\ Skip
     /\ UNCHANGED <<stores, ops>>

\* An empty mapping is deleted, without regard to its CAS value.
DeleteMapping(w) ==
  LET x      == worker[w]
      Remove == RemoveMapping(Store(w), x.item[2])
  IN /\ x.pc = "mapDelete"
     /\ \/ x.mp.impus # {} /\ SetMapping(w, x.item, x.mp, "mapDeleteGet")
        \/ /\ x.mp.impus = {} /\ Answered /\ Remove
           /\ Become(w, ReferenceDone(w, x, x.item, "OK"))
        \/ /\ x.mp.impus = {} /\ Fails /\ (Remove \/ UNCHANGED stores)
           /\ Become(w, ReferenceDone(w, x, x.item, "ERROR"))
     /\ UNCHANGED ops

\* update_irs_impi_mappings, unchanged ones of a refreshed set.
GetMappingToRefresh(w, ref) ==
  LET x     == worker[w]
      entry == mapping[Store(w)][ref[2]]
      With(m) == Become(w, Continued(x, ref, "mapRefresh",
                   [m EXCEPT !.impus = @ \cup {x.irs.default}], x.status))
  IN /\ Looping(x, ref, "mapRefreshGet") /\ ref[1] = "mapRefresh"
     /\ (Answered /\ With(entry)) \/ (Fails /\ With(AbsentMapping))
     /\ UNCHANGED <<stores, ops>>

RefreshMapping(w) ==
  /\ worker[w].pc = "mapRefresh"
  /\ SetMapping(w, worker[w].item, worker[w].mp, "mapRefreshGet")
  /\ UNCHANGED ops

\* update_irs_impi_mappings, added ones: first as if there were no mapping.
AddMapping(w, ref) ==
  LET x == worker[w]
      m == IF x.pc = "mapAdd" THEN x.mp
           ELSE [cas |-> 0, impus |-> {x.irs.default}]
  IN /\ Looping(x, ref, "mapAdd") /\ ref[1] = "mapAdd"
     /\ SetMapping(w, ref, m, "mapAddGet")
     /\ UNCHANGED ops

\* Mutants: the CAS of the stored mapping is taken over but not its content;
\* nothing of it is taken over.
GetCasToAdd(w) ==
  LET x == worker[w]
      c == mapping[Store(w)][x.item[2]].cas
  IN /\ x.pc = "mapAddGet" /\ Answered
     /\ Become(w, [x EXCEPT !.pc = "mapAdd", !.mp.cas = c])
     /\ UNCHANGED <<stores, ops>>

RetryToAdd(w) ==
  /\ worker[w].pc = "mapAddGet" /\ Answered
  /\ Become(w, [worker[w] EXCEPT !.pc = "mapAdd"])
  /\ UNCHANGED <<stores, ops>>

\* After a conflict the stored mapping is taken over, if there is one.
GetMappingToAdd(w) ==
  LET x     == worker[w]
      d     == x.irs.default
      entry == mapping[Store(w)][x.item[2]]
      Over  == IF d \in entry.impus /\ ~x.irs.refreshed
               THEN ReferenceDone(w, x, x.item, "OK")
               ELSE Continued(x, x.item, "mapAdd",
                              [entry EXCEPT !.impus = @ \cup {d}], x.status)
  IN /\ x.pc = "mapAddGet"
     /\ \/ Answered /\ IsPresent(entry) /\ Become(w, Over)
        \/ /\ Answered /\ ~IsPresent(entry)
           /\ Become(w, [x EXCEPT !.pc = "mapAdd"])
        \/ Fails /\ Become(w, ReferenceDone(w, x, x.item, "ERROR"))
     /\ UNCHANGED <<stores, ops>>

-----------------------------------------------------------------------------
(* The environment.                                                        *)

\* A Homestead dies in the middle of a request; another worker takes over its
\* place, and what it had written stays in the stores.
Crash(w) ==
  /\ worker[w].pc # "idle" /\ Upset("crash")
  /\ Become(w, Released("nothing"))
  /\ UNCHANGED <<stores, ops>>

\* memcached drops an entry whose time has come.
ExpireImpu(s, k) ==
  /\ IsPresent(impu[s][k]) /\ Upset("expiry")
  /\ RemoveImpu(s, k)
  /\ UNCHANGED <<worker, ops>>

ExpireMapping(s, p) ==
  /\ IsPresent(mapping[s][p]) /\ Upset("expiry")
  /\ RemoveMapping(s, p)
  /\ UNCHANGED <<worker, ops>>

-----------------------------------------------------------------------------
Reading(w) ==
  GetMapping(w) \/ GetImpu(w) \/ \E s \in Stores : GetRemoteImpu(w, s)

WritingRecord(w) ==
  CreateImpu(w) \/ SetImpu(w) \/ DeleteImpu(w) \/ GetStored(w)

UpdatingReferences(w) ==
  \/ \E ref \in References :
       \/ GetAssociated(w, ref)
       \/ SetAssociated(w, ref)
       \/ GetMappingToDelete(w, ref)
       \/ GetMappingToRefresh(w, ref)
       \/ AddMapping(w, ref)
  \/ DeleteAssociated(w) \/ DeleteMapping(w)
  \/ RefreshMapping(w) \/ GetMappingToAdd(w)

Work(w) == Reading(w) \/ WritingRecord(w) \/ UpdatingReferences(w)

Environment ==
  \/ \E w \in Workers : Crash(w)
  \/ \E s \in Stores, k \in Keys : ExpireImpu(s, k)
  \/ \E s \in Stores, p \in Impis : ExpireMapping(s, p)

Next ==
  \/ \E w \in Workers, r \in Requests : Start(w, r)
  \/ \E w \in Workers : Work(w)
  \/ Environment

Spec == Init /\ [][Next]_vars

\* A worker thread that has a call to make makes it.
FairSpec == Spec /\ \A w \in Workers : WF_vars(Work(w))

-----------------------------------------------------------------------------
(* Safety of concurrent updates.                                           *)

\* A conditional write of an IRS's record that is going to succeed replaces
\* no identity the writer has not seen: perform_irs_impu_action writes the
\* record it read, or merges the stored one before it tries again, so nothing
\* another Homestead added in between is dropped unnoticed.
WriterKnowsRecord ==
  \A w \in Workers :
    LET x     == worker[w]
        entry == impu[Store(w)][x.irs.default]
    IN (/\ x.pc = "set" /\ SetAllowed(entry, x.cas)
        /\ is_default_impu(entry.rec))
       => /\ entry.rec.impis \subseteq Tracked(x.irs.impis)
          /\ entry.rec.assoc \subseteq Tracked(x.irs.impus)

\* A conditional write of an IMPI mapping that is going to succeed keeps the
\* other default IMPUs of that IMPI ("Updating the mappings needs to be
\* CASed, as each of the IMPIs maps to an array, which may be mutated by
\* multiple Homesteads simultaneously").
MappingWriterKnows ==
  \A w \in Workers :
    LET x     == worker[w]
        entry == mapping[Store(w)][x.item[2]]
    IN x.pc \in {"mapDelete", "mapRefresh", "mapAdd"} =>
         (IsPresent(entry) /\ SetAllowed(entry, x.mp.cas)
          => entry.impus \ {x.irs.default} \subseteq x.mp.impus)

\* The registration state of every subscriber in every store.
RegState ==
  [x \in Stores \X Keys |->
     LET rec == impu[x[1]][x[2]].rec IN
     IF is_default_impu(rec) THEN rec.reg ELSE "NONE"]

\* Each store implements SubscriberState: concurrent registrations, calls,
\* profile pushes and removals never turn a REGISTERED record into an
\* UNREGISTERED one (create_irs_impu, update_from_impu_from_store).
Subscriber == INSTANCE SubscriberState
                WITH Subscribers <- Stores \X Keys, state <- RegState
ImplementsSubscriberState == Subscriber!Spec

\* The same as an action property: "we don't want to overwrite it with the
\* UNREGISTERED data".
NeverDowngraded ==
  [][\A x \in Stores \X Keys :
       RegState[x] = "REGISTERED" => RegState'[x] # "UNREGISTERED"]_vars

-----------------------------------------------------------------------------
(* Consistency once every request has been dealt with.                     *)

Quiet == \A w \in Workers : worker[w].pc = "idle"

\* The records, the associated IMPUs' records and the IMPI mappings of a
\* store agree, in both directions ("we should eventually get consistency"),
\* as long as no store call has failed: nobody repairs what that leaves.
IndexesAgree ==
  Quiet /\ upsets = 0 =>
    \A s \in Stores :
      LET Sets == {k \in Keys : is_default_impu(impu[s][k].rec)} IN
      /\ \A k \in Sets : \A a \in impu[s][k].rec.assoc :
           impu[s][a].rec = AssociatedImpu(k)
      /\ \A k \in Sets : \A p \in impu[s][k].rec.impis :
           k \in mapping[s][p].impus
      /\ \A a \in Keys \ Sets : IsPresent(impu[s][a]) =>
           /\ impu[s][a].rec.default \in Sets
           /\ a \in impu[s][impu[s][a].rec.default].rec.assoc
      /\ \A p \in Impis : \A k \in mapping[s][p].impus :
           k \in Sets /\ p \in impu[s][k].rec.impis

\* All sites hold the same data, as long as no store call has failed (perform
\* repeats the local action at every remote store).
SitesAgree ==
  Quiet /\ upsets = 0 =>
    \A s, t \in Stores :
      /\ \A k \in Keys : impu[s][k].rec = impu[t][k].rec
      /\ \A p \in Impis : mapping[s][p].impus = mapping[t][p].impus

\* The handler of worker w has been told that its request of one of these
\* kinds succeeded, and the remote stores are still being written.
Succeeded(w, kinds) ==
  /\ worker[w].pc # "idle" /\ worker[w].told = "success"
  /\ worker[w].req.kind \in kinds

\* What its own site's store then holds for its IRS.
LocalRecord(w) == impu[LocalStore(w)][worker[w].irs.default].rec

\* Once the handler of a registration or a removal has been told that it
\* succeeded, the local store holds its record, or no longer does (perform calls
\* the progress callback after the local action only).  Of its references
\* nothing is said: put_irs_action does not report that one was not written.
SuccessIsStored ==
  \A w \in Workers :
    /\ Succeeded(w, {"REG"}) =>
         /\ is_default_impu(LocalRecord(w))
         /\ LocalRecord(w).reg = "REGISTERED"
         /\ worker[w].req.impi \in LocalRecord(w).impis
    /\ Succeeded(w, {"DEREG", "RTR"}) => LocalRecord(w) = NoRecord

-----------------------------------------------------------------------------
(* Progress.                                                               *)

\* Every request is dealt with: the retry loops on DATA_CONTENTION end.
EveryRequestEnds ==
  \A w \in Workers : worker[w].pc # "idle" ~> worker[w].pc = "idle"

\* The loop that removes a default IMPU from an IMPI mapping ends: it goes
\* round only after it lost a race to another writer.
DeleteLoopEnds ==
  \A w \in Workers :
    worker[w].pc = "mapDeleteGet" ~> worker[w].pc # "mapDeleteGet"
=============================================================================
