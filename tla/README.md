# Homestead: a TLA+ verification project

Homestead stands between Sprout (the SIP servers) and the HSS (the operator's
subscriber database). It answers Sprout's HTTP questions by asking the HSS over
Diameter, keeps what it has learnt in memcached, and passes on what the HSS
tells it unasked. Paths below are relative to `src/`.

## 1. Inventory

| Part | State | Operations | Talks to |
|---|---|---|---|
| `ImpuStore` (`src/impu_store.cpp`) | one memcached cluster: default-IMPU, associated-IMPU and IMPI-mapping records with CAS values | get, set (CAS), set without CAS, add, delete; an IMPU record is written as a version, a length and compressed JSON | memcached |
| implicit registration set (IRS) (`include/memcached_cache.h`) | identities with a state (added, unchanged, deleted), document, charging addresses, registration state, the store and CAS value it was read from | setters, `set_elements`, merge with a stored record | the cache |
| `MemcachedCache` (`src/memcached_cache.cpp`) | local and remote stores | get, put and delete of an IRS or of a whole subscription; each is a sequence of store calls with retry loops | `ImpuStore` |
| `HssCacheProcessor` | thread pool and its queue | start, stop; runs the above, calls back: progress, success, failure | the tasks |
| HSS connections (`diameter_hss_connection.cpp`, `hsprov_hss_connection.cpp`) | transactions in progress | MAR, UAR, LIR, SAR; answer, timeout, database result | HSS or Cassandra |
| Cx messages (`src/cx.cpp`), rows (`src/hsprov_store.cpp`) | none | build a request's AVPs, read an answer's; read the columns of a row | HSS connections |
| HTTP tasks (`src/http_handlers.cpp`) | one object per request, alive over several callbacks | authentication, registration status, location, registration data (GET and PUT) | Sprout, HSS connection, cache |
| Diameter tasks (`src/diameter_handlers.cpp`) | one object per request | RTR (deregister), PPR (push profile) | HSS, Sprout, cache |
| `main` (`src/main.cpp`) | what has been created and started | start everything, wait for SIGTERM, stop and delete everything | all of them |

What makes it hard:

* A subscriber's data are several memcached entries, in several clusters, that
  are written one at a time by any number of processes with only a
  compare-and-set per entry. A process may stop between two writes, entries
  expire, a write that failed may have taken effect.
* A task's steps are callbacks on different threads. Between two of them the
  cache and the HSS change. Every path must reply exactly once and delete the
  task after its last callback.
* Stacks and pools have threads that keep calling handlers while `main` starts,
  stops and deletes what the handlers use.
* The HSS, the cache and Sprout hold three copies of a registration, and
  nothing orders the requests that change them.

What has to be right: no update is lost that its writer did not know of; a registered
subscriber is not turned into an unregistered one; the indexes (associated IMPU to
default IMPU, IMPI to default IMPU) agree with the records; what was reported as done
is stored; every request ends with one reply that is true when it is sent; what Sprout
asks reaches the HSS, and what the HSS says reaches Sprout; a stored record can be
read; the cache changes only on the word of the HSS; Sprout is told before the cache
changes. `PROJECT.json` lists the hazards one by one, with the line where each bites
and the properties that cover it.

## 2. Modules

| Module | Models |
|---|---|
| `ImpuStore` | the records, their CAS values, and which identities a document names |
| `ImplicitRegSet` | the IRS and every operation on it, as operators |
| `SubscriberState` | abstract: what the cache promises about a registration state |
| `MemcachedCache` | the cache: one action per store call |
| `ImpuEncoding` | how an IMPU record becomes bytes and back, byte by byte where the code loops |
| `MemcachedCacheInv` | the inductive invariants of the proofs, and what they assume |
| `MemcachedCacheProofs` | proofs: operations on a set, what a worker does between store calls, each action, and that writers know what they replace |
| `MemcachedCacheSubscribers` | proofs: every step of a worker as one of a few forms, and that subscribers are kept apart |
| `MemcachedCacheOutcomes` | proofs: the registration state at one site, and that what was reported as done is stored |
| `MemcachedCacheAgreement` | proofs: indexes and sites agree after requests served one at a time |
| `CxMessages` | the AVPs of a MAR, UAR and LIR, what is read out of the answers, and what a database row comes to |
| `HssAnswers` | what either HSS connection makes of an answer, a timeout or a database result |
| `HssTasks` | the tasks that ask the HSS one question (MAR, UAR, LIR) |
| `RegDataTask` | the registration-data task, with the cache and the HSS it works on |
| `DiameterTasks` | the RTR and PPR tasks, with the cache and Sprout |
| `Homestead` | composition: `RegDataTask` and `DiameterTasks` on one cache, between one HSS and one Sprout |
| `Lifecycle` | `main`'s start-up and shutdown, the two thread pools, and requests that arrive at any time |
| `HssTasksProofs`, `LifecycleProofs`, `RegDataTaskProofs` | proofs about the module each is named after, with its inductive invariant |
| `HomesteadProofs` | proofs about `DiameterTasks` and `Homestead`, up to that HSS, cache and Sprout agree |
| `MC...` | instances for TLC |

**MemcachedCache.** `impu[s][k]` and `mapping[s][p]` are the entries of store
`s`; an entry with CAS value 0 is absent. `worker[w]` is a thread with one
request in hand: its program counter names the store call it makes next
(`get`, `getRemote`, `create`, `set`, `getStored`, `delete`, then the associated
records and the mappings), `site` the store it is writing (the local one first),
`irs` the set in hand, `todo` the references left in the current phase, and
`told` what the handler has been told. A request is what a task does with the
cache: REG (read, set the answer of the HSS, put), CALL (likewise, with state
UNREGISTERED), DEREG and RTR (read, delete), PPR (read the subscription of an
IMPI, change it, put). The part of the task between the read and the write is
in the same step as the end of the read, which loses no interleaving: it touches
the set in hand only. A step is one store call; the code between two calls is
local to the thread. Remote reads are one step per store, in any order.

The memcached semantics are external: a conditional write succeeds if and only
if the CAS value is the entry's (0: absent), a successful write takes a new CAS
value, a delete is unconditional. Three upsets may happen, up to `MaxUpsets`:
a call that fails with or without effect, an entry that expires, a process that
stops.

**HssTasks, RegDataTask, DiameterTasks.** A task's `pc` names the callback it
waits for; each callback is an action. `replies` and `answers` of the last two
count, so that a second reply or none shows. In `RegDataTask`, `assigned` is what the HSS has
recorded; it is external, and changes when the HSS accepts a SAR whether or
not the answer arrives. In `DiameterTasks`, `sprout` is what Sprout has been
told; it is external too. Both keep the cache as one record per default identity
whose operations take effect at once, or fail with or without effect: what the
operations do in between is `MemcachedCache`'s subject. `DiameterTasks` lets a
delete or a put lose some sets without reporting it, since `delete_irss_action`
returns the last status only and `put_ims_sub_action` none.

**CxMessages.** A message is a record of the AVPs whose presence or value depends
on the request; strings are tokens. Each constructor is an operator with the
constructor's parameters in the constructor's order, so that `HssTasks` passes
arguments as the code does. `HssTasks` keeps what was sent, what was heard and
what Sprout was told, which `HssHearsQuestion` and `SproutHearsAnswer` compare.

**Homestead** extends `DiameterTasks` and instantiates `RegDataTask` (through
`RegDataTaskProofs`, so that what is proved of it can be used) with the same `cache`.
The HSS (`hss`, `assigned`) and Sprout (`sprout`) are external: the HSS's
data change when it sends a PPR or RTR or accepts a SAR, and it answers a SAR with
the data it has then; Sprout takes the profile out of a reply. `raced` is a history
variable: it records that one of the windows of section 3 was hit.

**ImpuEncoding.** One action per pass of `compress_data_v0`'s buffer loop and of
`decode_varbyte`'s loop. Shifts and the width of an int are as in the code; the
JSON text is its length and members, LZ4 is external.

**Lifecycle.** `at` is the step of `main`, `up` the set of components that are
there. A request that uses a component that is not there is `stray`; in the code
it would use a NULL or deleted pointer. Work that is queued when the pool is
deleted is `lost`. Pools, stacks and the Cassandra store are libraries, modelled
by what the code counts on.

## 3. Runs

Passing runs (distinct states):

| Run | Checks | Instance |
|---|---|---|
| `cache_serial` | `IndexesAgree`, `SitesAgree`, `SuccessIsStored` | two subscribers that share a device, one with a barred associated IMPU, two sites, one request at a time, a store call may fail; 301 thousand |
| `cache_concurrent` | `TypeOK`, `WriterKnowsRecord`, `StateInv`, `ImplementsSubscriberState` | one site, two workers, three requests, one fault, expiry or crash; 821 thousand |
| `cache_sites` | `MappingWriterKnows`, `KnowledgeInv` | two sites, workers that read and write each other's store for two subscribers with one device, one fault or crash; 683 thousand |
| `cache_progress` | `EveryRequestEnds` | two workers, requests that remove nobody, under fairness; 143 thousand |
| `hss_tasks` | `TypeOK`, `ReplyTellsFate`, `MonitorsAreTold`, `HssHearsQuestion`, `SproutHearsAnswer`, `EveryTaskReplies` | two tasks, either connection, every value of a parameter in some request, under fairness; 52 thousand |
| `regdata` | `TypeOK`, `OneReply`, `CacheMatchesHss`, `CacheFollowsHss`, `AnswerHolds`, `EveryTaskEnds` | two tasks that may race, with and without a private ID, an identity that may match either of two wildcards, one lost answer, cache failure, ageing or expiry, documents of every form, under fairness; 562 thousand |
| `homestead` | `HomesteadTypeOK`, `AllAgree`, `OneAnswer`, `SproutComesFirst`, `EveryRequestEnds` | one request of Sprout and two RTRs or PPRs, two busy at a time, one upset, under fairness; 1032 thousand |
| `encoding` | `TypeOK`, `RoundTrip`, `RefusedOnlyIfTooBig`, `LengthIsSafe`, `LengthIsUnderstood` | every length up to one more than an int holds, every value of version 0 of up to five bytes; 621 thousand |
| `lifecycle` | `TypeOK`, `StraysOnlyAtTheEnd`, `WorkersAreServed`, `RemoteReadsHaveThreads`, `ShutdownEnds`, `RequestsEnd` | two requests of any kinds, one thread, two remote stores, under fairness; 38 thousand |

Runs whose property the code violates. Each states what a comment of the
repository says; `PROJECT.json` quotes it.

| Run | What the code does |
|---|---|
| `delete_loop` | the loop that takes a default IMPU out of a mapping keeps a stale DATA_CONTENTION and never ends |
| `downgrade` | a push that merged an UNREGISTERED local record overwrites the REGISTERED remote one it was read from |
| `rtr_first_only` | an RTR for a device's sets terminates one of them |

Other places where the code and its comments differ, which the models contain
but no run is about:

* `memcached_cache.cpp:616`: an emptied mapping is deleted without CAS, with what
  was added to it since it was read.
* `memcached_cache.cpp:712`: the loop that adds a default IMPU keeps a stale CAS
  value after the mapping has gone, and every further write conflicts.
* `memcached_cache.cpp:1033`: a put is reported as done if its record was written,
  whatever became of the associated records and mappings; `SuccessIsStored` is about
  the record.
* `memcached_cache.cpp:1177`: a push whose local write failed is reported as
  saved.
* `base_hss_cache.cpp:45`: new charging addresses reach one of a device's sets,
  for the same reason as in `rtr_first_only`.
* `http_handlers.cpp:1213`: a wildcard that has not changed gives an error "to avoid
  looping". The code compares with the current wildcard only, so an HSS that names two
  in turn keeps a task going for ever. `EveryTaskEnds` shows, with two wildcards, that
  nothing else does, short of a cache write that does not end.
* `diameter_hss_connection.cpp:225`: an overloaded HSS gives 504 where
  `docs/homestead_api.md:48` says 500.
* `http_handlers.cpp:1197`, `1247`, `1254`: for registration data,
  `docs/homestead_api.md:107` says "If the Cassandra database or the HSS return an error
  or do not respond, a 502 Bad Gateway error is returned". The code gives 500, 503 or
  504 (`HttpCode`), and no path of it a 502.
* `http_handlers.cpp:1281`: `docs/homestead_api.md:93` says "If a HSS is not configured,
  Clearwater will set the user to UNREGISTERED state" by a deregistration. The code
  deletes the record with either connection, and it is this that `AnswerHolds` states:
  after a 200 to a deregistration no record is left.
* `http_handlers.cpp:995`: `docs/homestead_api.md:105` says that "a user which is not in
  REGISTERED state" is not deregistered but gets a 400. The code gives it to one who is
  not in the cache (NOT_REGISTERED); an UNREGISTERED one is deregistered.
* `http_handlers.cpp:885`, `947`: a REG without `private_id` for a subscriber whose
  document is not cached adds the empty private ID to the set, and to the index.
  `RegDataTask` has such requests; `AnswerHolds` asks for the private ID of a request
  that has one.
* `main.cpp:1210`: after `wait_stopped` the HSS connection's threads still run, and
  an answer or a request of the HSS hands work to the deleted pool, which
  `include/hss_cache_processor.h:44` calls illegal; the handlers and the dictionary
  are deleted before the Diameter stack stops, too. `StraysOnlyAtTheEnd` confines
  this to the last steps of the shutdown.

**Bounds.** Two workers or two sites are what a lost update needs, and a third
worker what `downgrade` needs. Two default IMPUs, one with an associated IMPU,
and two IMPIs give a shared device and a set with two devices. Three requests
(`MaxOps`) are a subscriber that comes, changes and goes. One upset at a time is
checked (`MaxUpsets`); the theorems below hold for any number. `MaxBusy` is the
number of tasks in progress; in `MemcachedCache` requests are either served one at a
time (`OneAtATime`) or not. Workers, or tasks, are
interchangeable where all have the same site, and symmetry is used there for
safety only. `encoding` has 3 bits of a length in a byte
and an int of 8 bits instead of 7 and 32: as in the code the sign bit is neither
the first nor the last of its group, and a further group is shifted past the width.
In `lifecycle` two requests compete for one thread, and two remote stores make a
thread wait for more than one read. Deadlock is not checked: all models stop when the
requests allowed by their bounds are done.

**What races break.** `IndexesAgree`, `SitesAgree` and `CacheMatchesHss` are claimed
for requests one at a time. They fail when requests race: the code accepts some of
those races in its comments ("can't guarantee perfect consistency", "isn't worth
resolving") and claims nothing of the others. `AllAgree` is about racing requests:
when all is quiet, HSS, cache and Sprout agree, for every interleaving of a request
of Sprout with one of the HSS that avoids three windows nothing in the code closes:

* `AnswerOutdated`: the HSS sends a request while an older SAA of its is on the way
  to the cache, which then stores the older data;
* `EarlyRead`: a registration is answered from the cache after Sprout was given a
  new profile and before the cache has it;
* `LateDelete`: a record goes that a PPR has read, and the PPR writes it back.

It also leaves out requests of the HSS that overlap, a cache that fails, an answer
lost after the HSS acted, a PPR that was refused or found nothing to change (a mapping
whose record has gone is an empty subscription, and such a PPR is answered with
success), and records without private IDs, which a call makes and no index leads to.
The cache is that of one site, and the merge of a PPR with the record it finds is one
step of it (`Put`): the CAS loop that makes it so, and what it does not achieve with
two sites, are in `MemcachedCache` (`ImplementsSubscriberState`, and the run
`downgrade`). `OneSetEach` says what it takes for granted of the HSS's data: a private
ID has one registration set (with several, the code finds one of them, as
`rtr_first_only` shows), registrations carry it, and an RTR names one public ID or all
the private IDs of a set.

**Fairness.** A worker thread that has a call to make makes it (memcached calls
return or time out); the Diameter stack calls back for every request, with an
answer or a timeout; the Cassandra pool calls back; HTTP calls to Sprout return.
All of it is weak fairness per thread or task. `regdata` assumes nothing of cache
writes: neither a deletion (`delete_loop`) nor an addition (`memcached_cache.cpp:712`)
always ends, so `EveryTaskEnds` goes up to the write. `homestead` and `lifecycle` do
assume that every operation of the cache ends, deletions included: they show that the
handlers and `main` do not get stuck, not that the cache never keeps a thread.
`homestead` needs otherwise less: that the whole does not stand still while a request
can go on. In `lifecycle` `main`, remote
reads, callbacks and answers are weakly fair; a queued item is taken under strong
fairness while the pool runs, since other items may occupy the thread in between
(the pool, a library, is taken to starve no item), and is owed nothing once the pool
is stopped: `RequestsEnd` is about requests up to the signal. `EveryRequestEnds` of
`cache_progress` is checked for requests that do not remove a subscriber: with removals
it fails, which `delete_loop` shows.

## 4. Proofs

For every choice of stores, sites, workers, identities, documents, requests and
bounds that satisfies the named assumptions (of the kind "the empty identity is
not an IMPU", "every worker has at least its local store"):

* `TypeCorrect`: `Spec => []TypeOK`.
* `WritersKnowRecords`: `Spec => []WriterKnowsRecord`. A conditional write of a
  default record that is going to succeed drops no IMPI or associated IMPU that
  its writer has not seen.
* `MappingWritersKnow`: `Spec => []MappingWriterKnows`, the same of mappings.
* `WorkersAreInformed`: `Spec => []KnowledgeInv`, which the two rest on.
* `UpdateSeesRecord` (`MemcachedCacheProofs`): a merge leaves the set tracking
  every identity of the stored record and all it tracked before.
* `HssTasksProofs`: `TypesKept`, `FateIsTold`, `Monitors`, `QuestionsHeard`,
  `AnswersHeard` prove the five invariants of `hss_tasks`, for any finite set of tasks
  and every mixture of AVPs.
* `StateHolds`, `RegistrationKept` and `NoDowngrade`, for caches with one site
  (`SingleSite`): `StateInv`, the refinement of `SubscriberState`, and
  `NeverDowngraded`. With several sites the last two are false: `downgrade` is the
  counterexample.
* `SubscribersAreApart` (`MemcachedCacheSubscribers`), if `OneDefault` holds:
  `Spec => []OwnInv`. Whatever races or fails, a record and a set in hand hold
  identities of one subscriber only, and a request writes only its own.
* `OutcomeIsStored` (`MemcachedCacheOutcomes`), for requests served one at a time,
  without expiry: `Spec => []SuccessIsStored`, whatever fails or crashes.
* `IndexesStayInAgreement` and `SitesStayInAgreement` (`MemcachedCacheAgreement`), for
  requests served one at a time: `Spec => []IndexesAgree` and `Spec => []SitesAgree`,
  for any number of sites, workers, identities and documents.
* `RegDataTaskProofs`: `TypesKept`, `Replied`, `Matches` (`CacheMatchesHss`), and the
  action properties `FollowsHss` and `AnswersHold`.
* `HomesteadProofs`, of `DiameterTasks` on its own: `Types`, `Answered`, and the action
  property `SproutFirst`.
* `HomesteadProofs`, of both kinds of requests on one cache: `HomesteadTypes`,
  `HomesteadAnswered`, `HomesteadSproutFirst`, and
  if `OneSetEach` holds, `Agree`: `HomesteadSpec => []AllAgree`. These are all the safety
  properties of the run `homestead`, for any number of requests of both sides.
* `LifecycleProofs`: `Types`, `NoEarlyStrays`, `Workers`, `RemoteReadsFit`, for any
  finite set of requests and any number of threads and sites.

`WriterKnowsRecord` is not inductive: it speaks of the moment of the write, and
the knowledge is gathered earlier. `KnowledgeInv` says of every worker, whatever
it is doing, that the set in hand tracks all of any record that still has the CAS
value it would be written with, that the entries it has read are current or have
been replaced, and the same of the mapping in hand. That needs `CasInv`: CAS
values are never used twice, so an unchanged CAS value means an unchanged
record. `TypeInv` adds to the type that the program counter and the reference
in hand belong together. The argument has two halves. First, what a worker does
to the set in hand only makes it track more (`Grows`; the first lemmas of
`MemcachedCacheProofs`), so the knowledge survives. Second, a store step changes
one entry, to a new CAS value or to absence, so it can only make others' claims
vacuous (`StoreStepInformed`). Each action then has a lemma `...Moves` that it
is such a step.

`RegistrationKept` needs to know which state a write replaces. `StateInv` says that a
worker that is about to write with a CAS value knows the state of the record that has
it: the set in hand is REGISTERED if that record is, and a handler that has set the
state has set REGISTERED. With one site every record a worker merges is the one it
will replace, so each merge establishes this; with two sites a set read at one is
merged with the other's record. Each step of a worker is then a step of
`SubscriberState`, or changes no state.

The last four theorems about the cache take for granted, beyond the assumptions on
the constants (the instance of `cache_serial` satisfies all of it):

* `OneDefault`: documents that share an identity have the same default IMPU, which is
  what 3GPP's implicit registration sets are. Without it a set can be stored under one
  default IMPU and merged with the record of another.
* `OneAtATime` (not for `SubscribersAreApart`), since races break the rest: section 3.
* No expiry, for `OutcomeIsStored`: a record that has expired is not there, whatever
  was reported. For the other two, expiry is an upset, which `IndexesAgree` and
  `SitesAgree` exclude themselves.
* `StoresDiffer`: a worker's stores are different ones; `EveryStoreOnce`, for the
  agreement, that they are also all there are.
* `AskedByDefault`, for the agreement: the HSS is asked to register, or about a call
  for, the default IMPU of a set. A request for an associated IMPU that the cache does
  not know finds nothing, takes the set for a new one, and writes it without CAS over
  the default IMPU's record, with the devices that has; their mappings then lead to a
  record that does not list them (TLC finds this when such a request is added to the
  instance).

`SuccessIsStored` and the agreement need what a request makes of a worker, not how.
`MemcachedCacheSubscribers` therefore first shows that every action is a step of one
of three forms: `ReadStep` (the read waits, follows a reference, hits or misses),
`RecordStep` (the record is finished, retried or given up) and `ReferenceStep` (one
reference is done, or goes on). The invariants are then carried through these forms:

* `OwnInv` says that records and sets in hand belong to the document they hold. With
  `OneDefault` a new document from the HSS has the same default IMPU, and a merge adds
  identities of the same subscriber only.
* `LocalInv`, with one worker busy (`Alone`), says that the local store has not changed
  since it was read: a conditional write meets no conflict, and once the record is done
  the store has the outcome (`Outcome`), which no later reference disturbs, since with
  `OwnInv` none has the key of the default record.
* `AgreeInv` says that all stores agree about every subscriber but the one being
  written, and how far that one is (`Progress`): stores not reached yet are as the set
  was read (`Before`); stores done have the new record and exactly the references it
  lists (`After`); in the store at hand they differ in `todo` only (`ListedBut`). So
  every loop over references is an invariant about what is left of `todo`, and the
  order in which it is worked through does not matter.

The other invariants:

* A task's properties follow from what it knows at each step (`TaskInv`): how often
  it has replied, and why it may do what it does next. In `RegDataTask` that is
  which SAR it sent, what the HSS said to it, and what it will write; `StoredInv`
  adds that the cache never holds a record that is not registered, or else a
  call could be answered with one. In `DiameterTasks` it is whom Sprout was told of.
  In `HssTasks` it is that what was sent means the question; the counters equal the
  sizes of the sets of tasks they count, of which a step adds one at most.
* `CacheMatchesHss` (`Matches`) speaks of moments when no task is busy. `SerialInv`
  says what holds in between: one task at most is busy; where cache and HSS differ,
  that task has the HSS's answer and has not written it yet (`Settling`), and it will
  write the state that the HSS has assigned.
* `AllAgree` (`Agree`) rests on `AgreeInv`, which generalizes `SerialInv` to three
  parties: as long as nothing that `AllAgree` excludes has happened (`Safe`), at most
  one request of each side is under way, each is right about what the HSS has
  (`HttpKnows`, `HssKnows`), and wherever the cache or Sprout differs from the HSS, a
  request under way is going to put it right (`Converges`). A step of the HSS's
  request is compared with `ConvergesBy`, one of Sprout's with `CacheSettled` and
  `SproutSettled`, in which the other side is left as it is. Each window of section 3
  is used in one place only: `AnswerOutdated` keeps `HttpKnows` when the HSS's data
  change, `EarlyRead` keeps Sprout's profile, `LateDelete` keeps the record that a PPR
  counts on. What a step of `RegDataTask` does is taken from its own lemmas
  (`TaskMoves`), not from its definitions.
* `Lifecycle`: `StagesInv` says which components are there at each step of `main`,
  `TasksInv` what a request's state says of them. `RemoteReadsFit` adds `ThreadsInv`:
  no more requests run than there are threads, and only those have remote reads.

Only model-checked: liveness (the prover has no fairness), and the encoding, whose
properties are about recursion over data and use `Bitwise`.

In the larger modules Zenon is the prover by default (`USE ZenonT`); leaves that need
arithmetic, or the fields of updated records, name SMT.

## 5. Not modelled

* The SAR's constructor: among other things the wildcard it carries, where
  `docs/homestead_api.md:98` says "either `call` or `dereg-user`" and
  `include_wildcard_on_sar` (`cx.cpp:644`) leaves out a user's deregistration and
  has those by timeout and by the administrator; the accessors of RTR and PPR; messages
  that only tests build.
* The XML and JSON that replies consist of, and the exception a JSON record without
  `registration_state` would cause.
* Option parsing, SNMP tables, alarms, SAS events and statistics: no control flow of
  the handlers reads them. The example program.
* Exceptions in a work item: the pool that catches them is a library's.
* TTLs appear as entries that may age or expire at any time. In `MemcachedCache` an
  RTR removes one set and a PPR changes one, which is what the code's early `break`
  leaves; `DiameterTasks` has several.

## 6. Plan

1. Associated IMPUs that two sets claim (the get and delete of an associated
   record), and a device with several sets in `MemcachedCache`'s RTR.
2. The order in which two racing pushes reach Sprout and the cache.
3. The SAR's constructor in `CxMessages`.
