------------------------------ MODULE Lifecycle ------------------------------
(***************************************************************************)
(* The life of a Homestead process: what main (src/main.cpp) starts and    *)
(* stops, in which order, while requests come in; and the thread pools     *)
(* that run the cache's operations, HssCacheProcessor's for the operations *)
(* and MemcachedCache's for the reads of the remote stores.                *)
(*                                                                         *)
(* The thread pool, the HTTP and Diameter stacks and the Cassandra store   *)
(* are libraries (external), modelled by what the code counts on: a pool   *)
(* runs what is queued until it is stopped and may or may not run what is  *)
(* in the queue then, join waits for what is running; a stack calls        *)
(* handlers from its start until it has been stopped and joined; the HSS   *)
(* sends requests once the realm manager has connected to it.              *)
(***************************************************************************)
EXTENDS Naturals, FiniteSets

CONSTANTS
  Tasks,     \* the requests that may come in
  Threads,   \* cache_threads
  Remotes    \* number of remote IMPU stores

ASSUME LifecycleAssumption ==
  /\ IsFiniteSet(Tasks) /\ Threads \in Nat \ {0} /\ Remotes \in Nat

VARIABLES
  hss,    \* the configured HssConnection: "diameter" or "hsprov"
  at,     \* the step main takes next
  up,     \* what is there: see Components
  term,   \* SIGTERM has come: term_sem is posted
  task,   \* Task -> [kind, pc, round]
  reads   \* Task -> reads of remote stores its thread waits for

vars == <<hss, at, up, term, task, reads>>

Components ==
  {"cachePool",   \* MemcachedCache with its pool for remote reads
   "pool",        \* _thread_pool of HssCacheProcessor, not NULL
   "poolRuns",    \* its threads have not been told to stop
   "hssThreads",  \* threads of the Diameter stack or the Cassandra store
   "handlers",    \* configuration and handlers of RTRs and PPRs, dictionary
   "hssConn",     \* the HssConnection of the HTTP handlers
   "http", "management",   \* the HTTP stacks take requests
   "peers"}       \* the HSS can send requests

\* A request for registration data, with one or two operations on the cache
\* around a SAR; one that only reads; one that only asks the HSS; an RTR or a
\* PPR, with two operations.
Kinds == {"regdata", "read", "query", "push"}

Pcs == {"idle", "queued", "running", "remote", "fetched", "hss",
        "done", "lost", "stray"}

-----------------------------------------------------------------------------
(* The steps of main.                                                      *)

StartSteps ==
  {"create_memcached_cache", "start_threads", "start HSS", "configure HSS",
   "start http", "start management", "start realm manager"}

StopSteps ==
  {"sem_wait", "stop http", "stop management", "stop pool", "wait_stopped",
   "stop realm manager", "delete handlers", "stop HSS", "delete"}

\* Mutant: the signalling interface is opened before the HSS is there.
OpensEarly(s) ==
  CASE s = "create_memcached_cache" -> "start_threads"
    [] s = "start_threads"       -> "start http"
    [] s = "start http"          -> "start HSS"
    [] s = "start HSS"           -> "configure HSS"
    [] s = "configure HSS"       -> "start management"
    [] s = "start management"    -> IF hss = "diameter" THEN "start realm manager"
                                                        ELSE "sem_wait"
    [] s = "start realm manager" -> "sem_wait"

\* The order in which main starts things.
StartOrder(s) ==
  CASE s = "create_memcached_cache" -> "start_threads"
    [] s = "start_threads"       -> "start HSS"
    [] s = "start HSS"           -> "configure HSS"
    [] s = "configure HSS"       -> "start http"
    [] s = "start http"          -> "start management"
    [] s = "start management"    -> IF hss = "diameter" THEN "start realm manager"
                                                        ELSE "sem_wait"
    [] s = "start realm manager" -> "sem_wait"

\* Mutant: the cache is deleted before the pool that uses it has stopped.
DeletesEarly(s) ==
  CASE s = "sem_wait"            -> "stop http"
    [] s = "stop http"           -> "stop management"
    [] s = "stop management"     -> "stop pool"
    [] s = "stop pool"           -> "delete"
    [] s = "delete"              -> "wait_stopped"
    [] s = "wait_stopped"        -> IF hss = "diameter" THEN "stop realm manager"
                                                        ELSE "stop HSS"
    [] s = "stop realm manager"  -> "delete handlers"
    [] s = "delete handlers"     -> "stop HSS"
    [] s = "stop HSS"            -> "exited"

\* The order in which it stops them.
StopOrder(s) ==
  CASE s = "sem_wait"            -> "stop http"
    [] s = "stop http"           -> "stop management"
    [] s = "stop management"     -> "stop pool"
    [] s = "stop pool"           -> "wait_stopped"
    [] s = "wait_stopped"        -> IF hss = "diameter" THEN "stop realm manager"
                                                        ELSE "stop HSS"
    [] s = "stop realm manager"  -> "delete handlers"
    [] s = "delete handlers"     -> "stop HSS"
    [] s = "stop HSS"            -> "delete"
    [] s = "delete"              -> "exited"

\* What a step creates or starts.
Starts(s) ==
  CASE s = "create_memcached_cache" -> {"cachePool"}
    [] s = "start_threads"       -> {"pool", "poolRuns"}
    [] s = "start HSS"           -> IF hss = "diameter" THEN {"hssThreads", "handlers"}
                                                        ELSE {"hssThreads"}
    [] s = "configure HSS"       -> {"hssConn"}
    [] s = "start http"          -> {"http"}
    [] s = "start management"    -> {"management"}
    [] s = "start realm manager" -> {"peers"}
    [] OTHER -> {}

\* What a step stops or deletes.  Stopping a stack includes waiting for its
\* threads; connections to the HSS last until its stack stops.
Stops(s) ==
  CASE s = "stop http"           -> {"http"}
    [] s = "stop management"     -> {"management"}
    [] s = "stop pool"           -> {"poolRuns"}
    [] s = "wait_stopped"        -> {"pool"}
    [] s = "delete handlers"     -> {"handlers"}
    [] s = "stop HSS"            -> {"hssThreads", "peers"}
    [] s = "delete"              -> {"cachePool"}
    [] OTHER -> {}

\* The steps of start-up that may fail, upon which the process exits.
MayFail == {"create_memcached_cache", "start_threads", "start HSS",
            "start http", "start management"}

\* Stopping a stack may throw, which main logs before it goes on.
MayNotStop == {"stop http", "stop management"} \cup
              (IF hss = "diameter" THEN {"stop HSS"} ELSE {})

\* The tasks a thread of the pool is busy with.
Running == {t \in Tasks : task[t].pc \in {"running", "remote", "fetched"}}

\* Mutant: the pool is deleted without waiting for its threads.
WaitsForNoThread(s) == s = "sem_wait" => term

\* main waits for the signal, and for the pool's threads.
MayGoOn(s) ==
  /\ s = "sem_wait" => term
  /\ s = "wait_stopped" => Running = {}

\* What was still queued when the pool is deleted is lost.
MainStep ==
  /\ MayGoOn(at)
  /\ \/ at \in StartSteps /\ at' = StartOrder(at)
     \/ at \in StopSteps /\ at' = StopOrder(at)
  /\ \/ up' = (up \cup Starts(at)) \ Stops(at)
     \/ at \in MayNotStop /\ up' = up
  /\ task' = [t \in Tasks |->
       IF at = "wait_stopped" /\ task[t].pc = "queued"
       THEN [task[t] EXCEPT !.pc = "lost"] ELSE task[t]]
  /\ UNCHANGED <<hss, term, reads>>

\* Start-up fails: exit(2) or exit(3).
FailToStart ==
  /\ at \in MayFail /\ at' = "exited"
  /\ UNCHANGED <<hss, up, term, task, reads>>

\* terminate_handler.
Terminate ==
  /\ at # "exited" /\ ~term /\ term' = TRUE
  /\ UNCHANGED <<hss, at, up, task, reads>>

-----------------------------------------------------------------------------
(* Requests.  A handler that uses what is not there has strayed: the code  *)
(* dereferences a pointer that is NULL or deleted.                         *)

\* A stack takes a request: the interfaces serve while they are up, the HSS
\* sends requests while it is connected.
Accepted(t) ==
  CASE task[t].kind \in {"regdata", "query"} -> "http" \in up
    [] task[t].kind = "read"  -> "management" \in up
    [] task[t].kind = "push"  -> "peers" \in up

\* What the handler of a new request uses besides the pool.
Needs(t) ==
  CASE task[t].kind = "regdata" -> {"hssConn", "pool"}
    [] task[t].kind = "query"   -> {"hssConn", "hssThreads"}
    [] task[t].kind = "read"    -> {"pool"}
    [] task[t].kind = "push"    -> {"handlers", "pool"}

Goto(t, pc, round) == task' = [task EXCEPT ![t].pc = pc, ![t].round = round]

\* add_work, through _thread_pool.
AddWork(t, round) ==
  IF "pool" \in up THEN Goto(t, "queued", round) ELSE Goto(t, "stray", round)

Arrive(t) ==
  /\ at # "exited" /\ task[t].pc = "idle" /\ Accepted(t)
  /\ IF ~(Needs(t) \subseteq up) THEN Goto(t, "stray", 1)
     ELSE IF task[t].kind = "query" THEN Goto(t, "hss", 1) ELSE AddWork(t, 1)
  /\ UNCHANGED <<hss, at, up, term, reads>>

\* A thread of the pool takes the work; when the pool is being stopped it may
\* also end instead.
Take(t) ==
  /\ at # "exited" /\ task[t].pc = "queued" /\ "pool" \in up
  /\ Cardinality(Running) < Threads
  /\ Goto(t, "running", task[t].round)
  /\ UNCHANGED <<hss, at, up, term, reads>>

\* Mutant: the local store is read with the remote ones.
ReadsAll(t) ==
  /\ at # "exited" /\ task[t].pc = "running" /\ Remotes > 0
  /\ Goto(t, "remote", task[t].round)
  /\ reads' = [reads EXCEPT ![t] = Remotes + 1]
  /\ UNCHANGED <<hss, at, up, term>>

\* The local store has no answer: get_impu_for_impu_gr hands a read of every
\* remote store to the cache's pool and waits for all of them.
ReadRemotes(t) ==
  /\ at # "exited" /\ task[t].pc = "running" /\ Remotes > 0
  /\ Goto(t, "remote", task[t].round)
  /\ reads' = [reads EXCEPT ![t] = Remotes]
  /\ UNCHANGED <<hss, at, up, term>>

\* Mutant: the pool is sized for one remote store.
ThreadsForOneStore == Threads

\* The size of the cache's pool.
RemoteThreads == Threads * Remotes

\* Mutant: the last read does not wake the thread.
RemoteReadForgets(t) ==
  /\ at # "exited" /\ reads[t] > 0 /\ "cachePool" \in up
  /\ reads' = [reads EXCEPT ![t] = @ - 1]
  /\ IF reads[t] = 0 THEN Goto(t, "fetched", task[t].round) ELSE UNCHANGED task
  /\ UNCHANGED <<hss, at, up, term>>

\* A thread of the cache's pool finishes one of them.
RemoteRead(t) ==
  /\ at # "exited" /\ reads[t] > 0 /\ "cachePool" \in up
  /\ reads' = [reads EXCEPT ![t] = @ - 1]
  /\ IF reads[t] = 1 THEN Goto(t, "fetched", task[t].round) ELSE UNCHANGED task
  /\ UNCHANGED <<hss, at, up, term>>

\* The operation has ended, and its callback runs on the pool's thread: it
\* replies; or it sends a SAR; or, for a push, it hands over the next operation.
Callback(t) ==
  /\ at # "exited" /\ task[t].pc \in {"running", "fetched"}
  /\ \/ Goto(t, "done", task[t].round)
     \/ /\ task[t].kind = "regdata" /\ task[t].round = 1
        /\ IF "hssThreads" \in up THEN Goto(t, "hss", 1) ELSE Goto(t, "stray", 1)
     \/ task[t].kind = "push" /\ task[t].round = 1 /\ AddWork(t, 2)
  /\ UNCHANGED <<hss, at, up, term, reads>>

\* The answer of the HSS, or the timeout of the request, on a thread of the HSS
\* connection: the handler reads it with the dictionary and replies, or stores
\* what it was told.
OnAnswer(t) ==
  /\ at # "exited" /\ task[t].pc = "hss" /\ "hssThreads" \in up
  /\ IF hss = "diameter" /\ "handlers" \notin up THEN Goto(t, "stray", task[t].round)
     ELSE \/ Goto(t, "done", task[t].round)
          \/ task[t].kind = "regdata" /\ AddWork(t, 2)
  /\ UNCHANGED <<hss, at, up, term, reads>>

Init ==
  /\ hss \in {"diameter", "hsprov"}
  /\ at = "create_memcached_cache" /\ up = {} /\ term = FALSE
  /\ task \in [Tasks -> [kind : Kinds, pc : {"idle"}, round : {1}]]
  /\ reads = [t \in Tasks |-> 0]

TypeOK ==
  /\ hss \in {"diameter", "hsprov"} /\ at \in StartSteps \cup StopSteps \cup {"exited"}
  /\ up \subseteq Components /\ term \in BOOLEAN
  /\ task \in [Tasks -> [kind : Kinds, pc : Pcs, round : {1, 2}]]
  /\ reads \in [Tasks -> 0..Remotes]

Next ==
  \/ MainStep \/ FailToStart \/ Terminate
  \/ \E t \in Tasks : \/ Arrive(t) \/ Take(t) \/ ReadRemotes(t)
                      \/ RemoteRead(t) \/ Callback(t) \/ OnAnswer(t)

Spec == Init /\ [][Next]_vars

\* main and the threads keep running, and the HSS connection reports an answer
\* or a timeout for every request; the pool's threads are owed nothing more once
\* the pool has been told to stop.
FairSpec ==
  /\ Spec /\ WF_vars(MainStep)
  /\ \A t \in Tasks :
       /\ SF_vars("poolRuns" \in up /\ Take(t))
       /\ WF_vars(RemoteRead(t)) /\ WF_vars(Callback(t)) /\ WF_vars(OnAnswer(t))

-----------------------------------------------------------------------------
(* Properties.                                                             *)

\* The order of start-up and of shutdown keeps what a handler uses alive: no
\* request and no callback finds a component missing before the cache's pool
\* has been deleted.  What strays does so in the rest of the shutdown, where
\* the HSS connection's threads still run and the pool is gone, which the
\* comment on wait_stopped calls illegal.
StraysOnlyAtTheEnd ==
  \A t \in Tasks : task[t].pc = "stray" =>
    at \in {"stop realm manager", "delete handlers", "stop HSS", "delete", "exited"}

\* While a thread of the pool works, the pool, the cache it reads and writes, the
\* remote stores' pool it waits for and the HSS connection its callbacks use are
\* all there.
WorkersAreServed ==
  Running # {} => {"pool", "cachePool", "hssThreads", "hssConn"} \subseteq up

\* The reads of remote stores that wait for a thread of the cache's pool or run
\* on one.
RemoteReads == {r \in Tasks \X (1..Remotes) : r[2] <= reads[r[1]]}

\* The cache's pool has a thread for every remote read that can be outstanding, so
\* that a request is never delayed by another one's read of a site that is slow to
\* answer: main sizes it for all threads of the processor and all remote stores.
RemoteReadsHaveThreads == Cardinality(RemoteReads) <= RemoteThreads

\* A SIGTERM, at any time, ends the process: main waits for the pool's threads,
\* these wait for remote reads, and the pool that serves those stays until the
\* processor's threads are done.
ShutdownEnds == term ~> (at = "exited")

\* Every request that is taken is answered, unless the process is told to stop or
\* fails to start: while it serves, no work stays in a queue and no handler or
\* callback finds that what it uses is not there.
RequestsEnd ==
  \A t \in Tasks :
    (task[t].pc # "idle") ~> (task[t].pc = "done" \/ term \/ at = "exited")
=============================================================================
