---------------------------- MODULE DiameterTasks ----------------------------
(***************************************************************************)
(* RegistrationTerminationTask and PushProfileTask                         *)
(* (src/diameter_handlers.cpp): the handlers of the requests that the HSS  *)
(* sends.  A Registration-Termination-Request (RTR) takes registration     *)
(* sets away; a Push-Profile-Request (PPR) changes a subscriber's profile  *)
(* or charging addresses.  Both tell Sprout, over HTTP and synchronously,  *)
(* and both change the cache and answer the HSS, in different orders.      *)
(*                                                                         *)
(* The cache is kept as simple as in RegDataTask: each operation takes     *)
(* effect at once or meets a failure, with or without effect, which the    *)
(* cache may or may not report.  It is the cache of one site: what the     *)
(* writes of several sites can do to each other is in MemcachedCache.      *)
(***************************************************************************)
EXTENDS Naturals, FiniteSets

CONSTANTS
  Tasks,      \* the Diameter requests that may arrive
  Impus,      \* default public IDs
  Impis,      \* private IDs
  Profiles,   \* versions of a subscriber's User-Data
  Charging,   \* charging addresses
  None,       \* absent, or the empty string
  Requests,   \* the requests the HSS may send
  Caches,     \* the contents the cache may have at first
  MaxBusy,    \* bound: requests in progress at the same time
  Upsets,     \* {"cacheFails"} if the cache may fail, once, and {} if not
  MaxUpsets   \* bound: how many upsets, with those of other tasks

Reasons == {"PERMANENT_TERMINATION", "NEW_SERVER_ASSIGNED", "SERVER_CHANGE",
            "REMOVE_SCSCF", "invalid"}

\* A cached registration set as in RegDataTask, and what Sprout has for it.  The
\* private ID may be the empty string, which no request of the HSS names.
Devices == Impis \cup {None}
Records == [reg : {"UNREGISTERED", "REGISTERED"}, impis : SUBSET Devices, doc : Profiles,
            charging : Charging, aged : BOOLEAN]
Bindings == [impis : SUBSET Devices, profile : Profiles \cup {None}]

\* A PPR names the default public ID of the profile it carries.
Rtrs == [kind : {"RTR"}, reason : Reasons, impis : SUBSET Impis \ {{}},
         impus : SUBSET Impus]
Pprs == [kind : {"PPR"}, impi : Impis, profile : Profiles \cup {None},
         default : Impus, charging : Charging \cup {None}]

ASSUME DiameterTasksAssumption ==
  /\ None \notin Profiles \cup Charging \cup Impus /\ None \notin Records
  /\ Requests \subseteq Rtrs \cup Pprs
  /\ Caches \subseteq [Impus -> Records \cup {None}]
  /\ MaxBusy \in Nat /\ MaxUpsets \in Nat

VARIABLES
  cache,   \* default public ID -> the cached record, or None
  sprout,  \* default public ID -> the bindings Sprout has (external)
  task,    \* Task -> its state
  upsets   \* the upsets so far

vars == <<cache, sprout, task, upsets>>

Answers == {"none", "DIAMETER_REQ_SUCCESS", "DIAMETER_REQ_FAILURE"}

TaskStates ==
  [pc      : {"new", "lookup", "sprout", "del", "put", "saved", "gone"},
   req     : Requests,
   sets    : [Impus -> Records \cup {None}],  \* _reg_sets, or _ims_sub
   told    : SUBSET Impus,                   \* what Sprout has been told of
   answer  : Answers,
   answers : Nat]

NoSets == [k \in Impus |-> None]

TypeOK ==
  /\ cache \in [Impus -> Records \cup {None}]
  /\ sprout \in [Impus -> Bindings]
  /\ task \in [Tasks -> TaskStates]
  /\ "cacheFails" \in upsets => "cacheFails" \in Upsets

Cached(k) == cache[k] # None

NewTask(r) == [pc |-> "new", req |-> r, sets |-> NoSets, told |-> {},
               answer |-> "none", answers |-> 0]

Init ==
  /\ cache \in Caches
  /\ sprout = [k \in Impus |->
       IF Cached(k) THEN [impis |-> cache[k].impis, profile |-> cache[k].doc]
                    ELSE [impis |-> {}, profile |-> None]]
  /\ task \in [Tasks -> {NewTask(r) : r \in Requests}]
  /\ upsets = {}

-----------------------------------------------------------------------------
(* Steps of a task.                                                        *)

Become(t, x) == task' = [task EXCEPT ![t] = x]
Upset ==
  /\ "cacheFails" \in Upsets \ upsets /\ Cardinality(upsets \ {"overlap"}) < MaxUpsets
  /\ upsets' = upsets \cup {"cacheFails"}
Busy == {t \in Tasks : task[t].pc \notin {"new", "gone"}}

\* send_rta and send_ppa.
Answer(x, answer) == [x EXCEPT !.answer = answer, !.answers = @ + 1]
DeleteThis(x) == [x EXCEPT !.pc = "gone"]
Fail(x) == DeleteThis(Answer(x, "DIAMETER_REQ_FAILURE"))

\* The public IDs of an RTR count unless the server changes.
RtrImpus(r) ==
  IF r.reason \in {"SERVER_CHANGE", "NEW_SERVER_ASSIGNED"} THEN {} ELSE r.impus

\* The reasons for which an RTR without, or with, public IDs is valid.
ValidRtr(r) ==
  IF RtrImpus(r) = {} THEN r.reason # "invalid"
  ELSE r.reason \in {"PERMANENT_TERMINATION", "REMOVE_SCSCF"}

\* run of both tasks.  A PPR without any data is answered at once.
Run(t) ==
  LET x == task[t]
      empty == x.req.profile = None /\ x.req.charging = None
  IN /\ x.pc = "new" /\ Cardinality(Busy) < MaxBusy
     /\ IF x.req.kind = "RTR"
        THEN Become(t, IF ValidRtr(x.req) THEN [x EXCEPT !.pc = "lookup"] ELSE Fail(x))
        ELSE Become(t, IF empty THEN DeleteThis(Answer(x, "DIAMETER_REQ_SUCCESS"))
                       ELSE [x EXCEPT !.pc = "lookup"])
     /\ upsets' = IF Busy = {} THEN upsets ELSE upsets \cup {"overlap"}
     /\ UNCHANGED <<cache, sprout>>

\* get_implicit_registration_sets_for_impus stops at the first record it
\* finds; which of the public IDs comes first is the caller's business.
FirstOf(impus) ==
  LET there == {k \in impus : Cached(k)}
  IN IF there = {} THEN {{}} ELSE {{k} : k \in there}

\* get_impus_for_impi: the cache's index by private ID.
ImpusOf(impi) == {k \in Impus : Cached(k) /\ impi \in cache[k].impis}

\* get_implicit_registration_sets_for_impis: one record for each private ID.
FirstOfEach(impis) ==
  {UNION {f[i] : i \in impis} :
     f \in {g \in [impis -> SUBSET Impus] : \A i \in impis : g[i] \in FirstOf(ImpusOf(i))}}

Read(impus) == [k \in Impus |-> IF k \in impus THEN cache[k] ELSE None]
SetsOf(x) == {k \in Impus : x.sets[k] # None}

\* get_registration_sets_success, up to the call of deregister_bindings.
OnGetRegSets(t) ==
  LET x == task[t] IN
  /\ x.pc = "lookup" /\ x.req.kind = "RTR"
  /\ \E found \in IF RtrImpus(x.req) = {} THEN FirstOfEach(x.req.impis)
                                          ELSE FirstOf(x.req.impus) :
       Become(t, IF found = {} THEN DeleteThis(Answer(x, "DIAMETER_REQ_SUCCESS"))
                 ELSE [x EXCEPT !.pc = "sprout", !.sets = Read(found)])
  /\ UNCHANGED <<cache, sprout, upsets>>

\* Mutant: the PPR's User-Data is taken over although there is none.
PushedEmpty(r, k, irs) ==
  [irs EXCEPT !.doc      = IF k = r.default THEN r.profile ELSE @,
              !.charging = IF r.charging # None THEN r.charging ELSE @]

\* Mutant: a PPR is about its profile or about charging addresses, not both.
PushedOneThing(r, k, irs) ==
  [irs EXCEPT !.doc      = IF k = r.default /\ r.profile # None THEN r.profile ELSE @,
              !.charging = IF r.charging # None /\ r.profile = None THEN r.charging ELSE @]

\* What a PPR makes of the registration set of k.
Pushed(r, k, irs) ==
  [irs EXCEPT !.doc      = IF k = r.default /\ r.profile # None THEN r.profile ELSE @,
              !.charging = IF r.charging # None THEN r.charging ELSE @]

\* on_get_ims_sub_success, up to the call of change_associated_identities if
\* there is a profile to tell Sprout of.  The profile's default public ID must
\* be one of the subscription's; the new charging addresses go to all its
\* sets.  An IMPI without a mapping fails the lookup; one whose mapping is left
\* over from records that have gone has an empty subscription.
OnGetImsSub(t) ==
  LET x == task[t]  r == x.req
      Sets(found) == [k \in Impus |-> IF k \in found THEN Pushed(r, k, cache[k]) ELSE None]
  IN /\ x.pc = "lookup" /\ r.kind = "PPR"
     /\ \/ ImpusOf(r.impi) = {} /\ Become(t, Fail(x))
        \/ \E found \in FirstOf(ImpusOf(r.impi)) :
             Become(t, IF r.profile # None /\ r.default \notin found THEN Fail(x)
                       ELSE [x EXCEPT !.sets = Sets(found),
                                      !.pc = IF r.profile # None THEN "sprout"
                                                                 ELSE "put"])
     /\ UNCHANGED <<cache, sprout, upsets>>

\* get_registration_sets_failure and on_get_ims_sub_failure.
OnGetFailure(t) ==
  /\ task[t].pc = "lookup" /\ Upset /\ Become(t, Fail(task[t]))
  /\ UNCHANGED <<cache, sprout>>

-----------------------------------------------------------------------------
(* Sprout's side (external) and the answers.                               *)

\* Sprout drops the bindings it is told of.  With PERMANENT_TERMINATION these
\* are those of the RTR's private IDs, otherwise all of the registration sets.
Deregistered(x) ==
  [k \in Impus |->
     IF k \notin SetsOf(x) THEN sprout[k]
     ELSE [sprout[k] EXCEPT
             !.impis = IF x.req.reason = "PERMANENT_TERMINATION"
                       THEN @ \ x.req.impis ELSE {}]]

\* Sprout takes over the profile for the bindings it has.
Reprofiled(x) == [sprout EXCEPT ![x.req.default].profile = x.req.profile]

\* deregister_bindings returns.  The RTA tells the HSS what Sprout said; the
\* cached sets are deleted either way.
OnDeregisterBindings(t) ==
  LET x == task[t]
      Told(answer) == Become(t, [Answer(x, answer) EXCEPT !.pc = "del", !.told = SetsOf(x)])
  IN /\ x.pc = "sprout" /\ x.req.kind = "RTR"
     /\ \/ Told("DIAMETER_REQ_SUCCESS") /\ sprout' = Deregistered(x)
        \/ Told("DIAMETER_REQ_FAILURE") /\ sprout' \in {sprout, Deregistered(x)}
     /\ UNCHANGED <<cache, upsets>>

\* Mutant: Sprout's refusal is not looked at.
OnChangeIgnored(t) ==
  LET x == task[t] IN
  /\ x.pc = "sprout" /\ x.req.kind = "PPR"
  /\ \/ /\ Become(t, [x EXCEPT !.pc = "put", !.told = {x.req.default}])
        /\ sprout' = Reprofiled(x)
     \/ /\ Become(t, [x EXCEPT !.pc = "put"])
        /\ sprout' \in {sprout, Reprofiled(x)}
  /\ UNCHANGED <<cache, upsets>>

\* change_associated_identities returns.  A PPR that Sprout does not accept
\* fails and is not saved.
OnChangeAssociatedIdentities(t) ==
  LET x == task[t] IN
  /\ x.pc = "sprout" /\ x.req.kind = "PPR"
  /\ \/ /\ Become(t, [x EXCEPT !.pc = "put", !.told = {x.req.default}])
        /\ sprout' = Reprofiled(x)
     \/ /\ Become(t, Fail(x))
        /\ sprout' \in {sprout, Reprofiled(x)}
  /\ UNCHANGED <<cache, upsets>>

CacheDelete(impus) == cache' = [k \in Impus |-> IF k \in impus THEN None ELSE cache[k]]

\* put_ims_subscription merges what the PPR changed into the record it finds,
\* and makes a record again if it finds none.  This is its effect at one site,
\* where a CAS value guards the write (put_irs_action, step by step in
\* MemcachedCache); with several sites it may do more (NeverDowngraded there).
Put(x, k) ==
  IF Cached(k) THEN Pushed(x.req, k, cache[k]) ELSE x.sets[k]

CachePut(x) == cache' = [k \in Impus |-> IF k \in SetsOf(x) THEN Put(x, k) ELSE cache[k]]

\* delete_reg_sets_progress does nothing and delete_reg_sets_success deletes
\* the task, whose answer is long gone.  The success is that of the last set:
\* delete_irss_action forgets the status of the others.
OnDelete(t) ==
  LET sets == SetsOf(task[t]) IN
  /\ task[t].pc = "del" /\ Become(t, DeleteThis(task[t]))
  /\ \/ CacheDelete(sets) /\ UNCHANGED upsets
     \/ Upset /\ \E some \in SUBSET sets \ {{}} : CacheDelete(some)
  /\ UNCHANGED sprout

\* delete_reg_sets_failure: nobody is told.
OnDeleteFailure(t) ==
  /\ task[t].pc = "del" /\ Become(t, DeleteThis(task[t]))
  /\ Upset /\ \E some \in SUBSET SetsOf(task[t]) : CacheDelete(some)
  /\ UNCHANGED sprout

\* on_save_ims_sub_progress.  put_ims_sub_action says OK whatever became of its
\* writes.
OnSaveProgress(t) ==
  /\ task[t].pc = "put"
  /\ Become(t, [Answer(task[t], "DIAMETER_REQ_SUCCESS") EXCEPT !.pc = "saved"])
  /\ \/ CachePut(task[t]) /\ UNCHANGED upsets
     \/ Upset /\ UNCHANGED cache
  /\ UNCHANGED sprout

\* Mutant: the failure callback takes the task for answered.
OnSaveFailureSilent(t) ==
  /\ task[t].pc = "put" /\ Upset /\ (CachePut(task[t]) \/ UNCHANGED cache)
  /\ Become(t, DeleteThis(task[t]))
  /\ UNCHANGED sprout

\* on_save_ims_sub_failure, which HssCache allows for.
OnSaveFailure(t) ==
  /\ task[t].pc = "put" /\ Upset /\ (CachePut(task[t]) \/ UNCHANGED cache)
  /\ Become(t, Fail(task[t]))
  /\ UNCHANGED sprout

\* Mutant: the last callback leaves the task alone.
OnSaveSuccessLeaks(t) ==
  /\ task[t].pc = "saved" /\ Become(t, task[t])
  /\ UNCHANGED <<cache, sprout, upsets>>

\* on_save_ims_sub_success.
OnSaveSuccess(t) ==
  /\ task[t].pc = "saved" /\ Become(t, DeleteThis(task[t]))
  /\ UNCHANGED <<cache, sprout, upsets>>

Step(t) ==
  \/ Run(t)
  \/ OnGetRegSets(t) \/ OnGetImsSub(t) \/ OnGetFailure(t)
  \/ OnDeregisterBindings(t) \/ OnChangeAssociatedIdentities(t)
  \/ OnDelete(t) \/ OnDeleteFailure(t)
  \/ OnSaveProgress(t) \/ OnSaveFailure(t) \/ OnSaveSuccess(t)

Next == \E t \in Tasks : Step(t)

Spec == Init /\ [][Next]_vars

-----------------------------------------------------------------------------
(* Properties.                                                             *)

\* The HSS gets exactly one answer to each request: an RTA before the sets are
\* deleted, whatever becomes of that, and a PPA when the outcome is known
\* (send_rta, send_ppa and the callbacks that come after them).
OneAnswer ==
  \A t \in Tasks :
    task[t].answers = IF task[t].pc \in {"del", "saved", "gone"} THEN 1 ELSE 0

\* Sprout comes first: no request changes or removes a registration set in the
\* cache because of a profile or a termination that Sprout has not been told
\* of, and for a profile has not accepted (on_get_ims_sub_success returns early
\* if Sprout refuses).
SproutComesFirst ==
  [][task' # task => \A k \in Impus :
       /\ cache'[k] = None /\ cache[k] # None =>
            \E t \in Tasks : task[t].pc = "del" /\ k \in task[t].told
       /\ cache'[k] # None /\ cache[k] # None /\ cache'[k].doc # cache[k].doc =>
            \E t \in Tasks : /\ task[t].pc = "put" /\ k \in task[t].told
                             /\ cache'[k].doc = task[t].req.profile]_vars

\* What the comment in RegistrationTerminationTask::run says of an RTR without
\* public IDs: "we want to deregister all of the IRSs for the provided list of
\* IMPIs".  When such an RTR has been answered positively and its deletion is
\* done, the cache holds no set for its private IDs.
AllSetsTerminated ==
  \A t \in Tasks :
    LET x == task[t] IN
    x.req.kind = "RTR" /\ RtrImpus(x.req) = {} /\ x.pc = "gone"
      /\ x.answer = "DIAMETER_REQ_SUCCESS" /\ upsets = {} =>
        \A i \in x.req.impis : ImpusOf(i) = {}
=============================================================================
