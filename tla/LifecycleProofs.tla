--------------------------- MODULE LifecycleProofs ---------------------------
(***************************************************************************)
(* What start-up and shutdown guarantee, for any number of requests,       *)
(* threads and remote stores.                                              *)
(***************************************************************************)
EXTENDS Lifecycle, FiniteSetTheorems, TLAPS

\* The steps before the first request can come in, those while the handlers have
\* all they use, and those after the pool has been deleted.
Early == {"create_memcached_cache", "start_threads", "start HSS",
          "configure HSS", "start http"}

Serving == {"start management", "start realm manager", "sem_wait",
            "stop http", "stop management", "stop pool", "wait_stopped"}

Ending == {"stop realm manager", "delete handlers", "stop HSS", "delete"}

Served == {"pool", "cachePool", "hssThreads", "hssConn"}

\* What is there at each step of main.
StagesInv ==
  /\ at \in {"start_threads", "start HSS", "configure HSS", "start http"}
       => "cachePool" \in up
  /\ at \in {"start HSS", "configure HSS", "start http"} => "pool" \in up
  /\ at \in {"configure HSS", "start http"} => "hssThreads" \in up
  /\ at \in {"configure HSS", "start http"} /\ hss = "diameter" => "handlers" \in up
  /\ at = "start http" => "hssConn" \in up
  /\ at \in Serving => Served \subseteq up
  /\ at \in Serving /\ hss = "diameter" => "handlers" \in up
  /\ at \in Early => "http" \notin up /\ "management" \notin up /\ "peers" \notin up
  /\ at \in Ending => "pool" \notin up
  /\ "peers" \in up \/ at = "start realm manager" => hss = "diameter"
  /\ at \in Ending \cup {"stop http", "stop management", "stop pool", "wait_stopped"}
       => term

\* What the state of a request says about the state of the process.
TasksInv ==
  \A t \in Tasks :
    /\ task[t].pc # "idle" => at \notin Early
    /\ task[t].pc \in {"queued", "running", "remote", "fetched"} => Served \subseteq up
    /\ task[t].pc = "stray" => at \in Ending \cup {"exited"}
    /\ task[t].pc = "lost" => term /\ "pool" \notin up

IInv == TypeOK /\ StagesInv /\ TasksInv

\* The initial states satisfy the invariant.
LEMMA InitIInv == Init => IInv
<1> SUFFICES ASSUME Init PROVE IInv
  OBVIOUS
<1>1. /\ hss \in {"diameter", "hsprov"} /\ at \in StartSteps
      /\ up \subseteq Components /\ term \in BOOLEAN
  BY DEF Init, StartSteps
<1>2. task \in [Tasks -> [kind : Kinds, pc : Pcs, round : {1, 2}]]
  BY DEF Init, Pcs
<1>3. reads \in [Tasks -> 0..Remotes]
  BY LifecycleAssumption DEF Init
<1>4. StagesInv
  BY DEF Init, StagesInv, Early, Serving, Ending
<1>5. TasksInv
  BY DEF Init, TasksInv
<1> QED BY <1>1, <1>2, <1>3, <1>4, <1>5 DEF IInv, TypeOK

\* main's steps keep what is there in line with the step main has reached.
LEMMA MainStages == ASSUME IInv, MainStep PROVE StagesInv'
<1> USE DEF Early, Serving, Ending, Served
<1>1. CASE at \in StartSteps
  <2>1. /\ at' = StartOrder(at) /\ UNCHANGED <<hss, term>>
        /\ up' = (up \cup Starts(at)) \ Stops(at)
    BY <1>1 DEF MainStep, StartSteps, StopSteps, MayNotStop
  <2>2. CASE at = "create_memcached_cache"
    BY <2>1, <2>2 DEF IInv, StagesInv, StartOrder, Starts, Stops
  <2>3. CASE at = "start_threads"
    BY <2>1, <2>3 DEF IInv, StagesInv, StartOrder, Starts, Stops
  <2>4. CASE at = "start HSS"
    BY <2>1, <2>4 DEF IInv, StagesInv, StartOrder, Starts, Stops
  <2>5. CASE at = "configure HSS"
    BY <2>1, <2>5 DEF IInv, StagesInv, StartOrder, Starts, Stops
  <2>6. CASE at = "start http"
    BY <2>1, <2>6 DEF IInv, StagesInv, StartOrder, Starts, Stops
  <2>7. CASE at = "start management"
    BY <2>1, <2>7 DEF IInv, TypeOK, StagesInv, StartOrder, Starts, Stops
  <2>8. CASE at = "start realm manager"
    BY <2>1, <2>8 DEF IInv, TypeOK, StagesInv, StartOrder, Starts, Stops
  <2> QED BY <1>1, <2>2, <2>3, <2>4, <2>5, <2>6, <2>7, <2>8 DEF StartSteps
<1>2. CASE at \in StopSteps
  <2>1. /\ at' = StopOrder(at) /\ UNCHANGED <<hss, term>> /\ MayGoOn(at)
        /\ \/ up' = (up \cup Starts(at)) \ Stops(at)
           \/ at \in MayNotStop /\ up' = up
    BY <1>2 DEF MainStep, StartSteps, StopSteps
  <2>2. CASE at = "sem_wait"
    BY <2>1, <2>2 DEF IInv, StagesInv, StopOrder, Starts, Stops, MayNotStop, MayGoOn
  <2>3. CASE at \in {"stop http", "stop management", "stop pool"}
    BY <2>1, <2>3 DEF IInv, StagesInv, StopOrder, Starts, Stops, MayNotStop
  <2>4. CASE at = "wait_stopped"
    BY <2>1, <2>4 DEF IInv, StagesInv, StopOrder, Starts, Stops, MayNotStop
  <2>5. CASE at \in {"stop realm manager", "delete handlers"}
    BY <2>1, <2>5 DEF IInv, StagesInv, StopOrder, Starts, Stops, MayNotStop
  <2>6. CASE at \in {"stop HSS", "delete"}
    BY <2>1, <2>6 DEF IInv, StagesInv, StopOrder, Starts, Stops, MayNotStop
  <2> QED BY <1>2, <2>2, <2>3, <2>4, <2>5, <2>6 DEF StopSteps
<1> QED BY <1>1, <1>2 DEF MainStep

\* main's steps strand no request that the pool still runs or has queued.
LEMMA MainTasks == ASSUME IInv, MainStep PROVE TypeOK' /\ TasksInv'
<1>1. /\ at \in StartSteps \cup StopSteps /\ MayGoOn(at) /\ UNCHANGED <<hss, term, reads>>
      /\ \/ up' = (up \cup Starts(at)) \ Stops(at)
         \/ at \in MayNotStop /\ up' = up
      /\ \A t \in Tasks : task'[t] = IF at = "wait_stopped" /\ task[t].pc = "queued"
                            THEN [task[t] EXCEPT !.pc = "lost"] ELSE task[t]
  BY DEF MainStep
<1>2. at' \in (StartSteps \cup StopSteps \cup {"exited"}) \ {"create_memcached_cache"}
  BY DEF IInv, TypeOK, MainStep, StartSteps, StopSteps, StartOrder, StopOrder
<1>3. up' \subseteq Components
  BY <1>1 DEF IInv, TypeOK, Components, Starts
<1>4. task' \in [Tasks -> [kind : Kinds, pc : Pcs, round : {1, 2}]]
  BY DEF IInv, TypeOK, MainStep, Pcs
<1>5. TypeOK'
  BY <1>1, <1>2, <1>3, <1>4 DEF IInv, TypeOK
<1>6. ASSUME NEW t \in Tasks
      PROVE /\ task'[t].pc # "idle" => at' \notin Early
            /\ task'[t].pc \in {"queued", "running", "remote", "fetched"} => Served \subseteq up'
            /\ task'[t].pc = "stray" => at' \in Ending \cup {"exited"}
            /\ task'[t].pc = "lost" => term' /\ "pool" \notin up'
  <2>1. task[t] \in [kind : Kinds, pc : Pcs, round : {1, 2}]
    BY DEF IInv, TypeOK
  <2>2. \/ task'[t].pc = task[t].pc
           /\ (at = "wait_stopped" => task[t].pc # "queued")
        \/ task'[t].pc = "lost" /\ task[t].pc = "queued" /\ at = "wait_stopped"
    BY <1>1, <2>1
  <2>3. task'[t].pc # "idle" => at' \notin Early
    <3>1. task'[t].pc # "idle" => at \notin Early
      BY <2>2 DEF IInv, TasksInv
    <3>2. at \notin Early => at' \notin Early
      BY DEF MainStep, Early, StartSteps, StopSteps, StartOrder, StopOrder
    <3> QED BY <3>1, <3>2
  <2>4. task'[t].pc = "lost" => term' /\ "pool" \notin up'
    <3>1. CASE task[t].pc = "lost"
      BY <1>1, <2>3, <2>2, <3>1 DEF IInv, TasksInv, Early, Starts
    <3>2. CASE at = "wait_stopped"
      BY <1>1, <3>2 DEF IInv, StagesInv, Stops, MayNotStop
    <3> QED BY <2>2, <3>1, <3>2
  <2>5. task'[t].pc = "stray" => at' \in Ending \cup {"exited"}
    BY <2>2 DEF IInv, TasksInv, MainStep, Ending, StartSteps, StopSteps, StopOrder
  <2>6. task'[t].pc \in {"queued", "running", "remote", "fetched"} => Served \subseteq up'
    <3> SUFFICES ASSUME task'[t].pc \in {"queued", "running", "remote", "fetched"}
                 PROVE  Served \subseteq up'
      OBVIOUS
    <3>1. task[t].pc = task'[t].pc /\ Served \subseteq up /\ at \notin Early
      BY <2>2 DEF IInv, TasksInv
    <3>2. at # "wait_stopped"
      BY <1>1, <2>2, <3>1 DEF MayGoOn, Running
    <3>3. at \notin Ending
      BY <3>1 DEF IInv, StagesInv, Served
    <3>4. Stops(at) \cap Served = {}
      BY <1>1, <3>1, <3>2, <3>3
      DEF Stops, Served, Ending, Early, StartSteps, StopSteps
    <3> QED BY <1>1, <3>1, <3>4
  <2> QED BY <2>3, <2>4, <2>5, <2>6
<1> QED BY <1>5, <1>6 DEF TasksInv

\* A step of one request leaves the others and main alone.
LEMMA OneTask ==
  ASSUME IInv, NEW t \in Tasks, UNCHANGED <<hss, at, up, term>>,
         NEW pc \in Pcs, NEW round \in {1, 2}, Goto(t, pc, round),
         reads' \in [Tasks -> 0..Remotes],
         at \notin Early,
         pc \in {"queued", "running", "remote", "fetched"} => Served \subseteq up,
         pc = "stray" => at \in Ending, pc # "lost"
  PROVE  IInv'
<1>1. task' \in [Tasks -> [kind : Kinds, pc : Pcs, round : {1, 2}]]
  BY ZenonT(40) DEF IInv, TypeOK, Goto
<1>2. TypeOK'
  BY <1>1 DEF IInv, TypeOK
<1>3. StagesInv'
  BY DEF IInv, StagesInv
<1>4. task'[t].pc = pc /\ \A u \in Tasks \ {t} : task'[u] = task[u]
  BY DEF IInv, TypeOK, Goto
<1>5. TasksInv'
  <2> SUFFICES ASSUME NEW u \in Tasks
               PROVE /\ task'[u].pc # "idle" => at \notin Early
                     /\ task'[u].pc \in {"queued", "running", "remote", "fetched"}
                          => Served \subseteq up
                     /\ task'[u].pc = "stray" => at \in Ending \cup {"exited"}
                     /\ task'[u].pc = "lost" => term /\ "pool" \notin up
    BY DEF TasksInv
  <2>1. CASE u = t
    BY <1>4, <2>1
  <2>2. CASE u # t
    BY <1>4, <2>2 DEF IInv, TasksInv
  <2> QED BY <2>1, <2>2
<1> QED BY <1>2, <1>3, <1>5 DEF IInv

\* Once requests come in, main is serving, ending or has ended.
LEMMA Stages ==
  ASSUME IInv, at # "exited", at \notin Early PROVE at \in Serving \/ at \in Ending
  BY DEF IInv, TypeOK, StartSteps, StopSteps, Early, Serving, Ending

\* Work is queued while the pool is there, and strays afterwards.
LEMMA AddWorkKeeps ==
  ASSUME IInv, NEW t \in Tasks, at # "exited", at \notin Early,
         UNCHANGED <<hss, at, up, term, reads>>, NEW round \in {1, 2}, AddWork(t, round)
  PROVE  IInv'
<1>1. reads' \in [Tasks -> 0..Remotes]
  BY DEF IInv, TypeOK
<1>2. CASE "pool" \in up
  <2>1. Goto(t, "queued", round) /\ "queued" \in Pcs
    BY <1>2 DEF AddWork, Pcs
  <2>2. at \in Serving
    BY <1>2, Stages DEF IInv, StagesInv
  <2>3. Served \subseteq up
    BY <2>2 DEF IInv, StagesInv
  <2> QED BY <1>1, <2>1, <2>3, OneTask
<1>3. CASE "pool" \notin up
  <2>1. Goto(t, "stray", round) /\ "stray" \in Pcs
    BY <1>3 DEF AddWork, Pcs
  <2>2. at \in Ending
    BY <1>3, Stages DEF IInv, StagesInv, Served
  <2> QED BY <1>1, <2>1, <2>2, OneTask
<1> QED BY <1>2, <1>3

\* Arrive keeps the invariant.
LEMMA ArriveKeeps == ASSUME IInv, NEW t \in Tasks, Arrive(t) PROVE IInv'
<1>1. /\ at # "exited" /\ Accepted(t) /\ UNCHANGED <<hss, at, up, term, reads>>
      /\ task[t] \in [kind : Kinds, pc : Pcs, round : {1, 2}]
      /\ reads' \in [Tasks -> 0..Remotes]
  BY DEF Arrive, IInv, TypeOK
<1>2. at \notin Early
  BY <1>1 DEF Accepted, IInv, StagesInv, Kinds
<1>3. CASE ~(Needs(t) \subseteq up)
  <2>1. Goto(t, "stray", 1) /\ "stray" \in Pcs
    BY <1>3 DEF Arrive, Pcs
  <2>2. at \notin Serving
    <3> SUFFICES ASSUME at \in Serving PROVE Needs(t) \subseteq up
      BY <1>3
    <3>1. Served \subseteq up /\ (hss = "diameter" => "handlers" \in up)
      BY DEF IInv, StagesInv
    <3>2. task[t].kind = "push" => hss = "diameter"
      BY <1>1 DEF Accepted, IInv, StagesInv
    <3> QED BY <1>1, <3>1, <3>2 DEF Needs, Served, Kinds
  <2> QED BY <1>1, <1>2, <2>1, <2>2, Stages, OneTask
<1>4. CASE Needs(t) \subseteq up /\ task[t].kind = "query"
  <2>1. Goto(t, "hss", 1) /\ "hss" \in Pcs
    BY <1>4 DEF Arrive, Pcs
  <2> QED BY <1>1, <1>2, <2>1, OneTask
<1>5. CASE Needs(t) \subseteq up /\ task[t].kind # "query"
  <2>1. AddWork(t, 1)
    BY <1>5 DEF Arrive
  <2> QED BY <1>1, <1>2, <2>1, AddWorkKeeps
<1> QED BY <1>3, <1>4, <1>5

\* A request that the pool runs or has queued finds all it uses.
LEMMA Working ==
  ASSUME IInv, NEW t \in Tasks, at # "exited",
         task[t].pc \in {"queued", "running", "remote", "fetched"}
  PROVE  Served \subseteq up /\ at \in Serving
<1>1. Served \subseteq up /\ at \notin Early
  BY DEF IInv, TasksInv
<1> QED BY <1>1, Stages DEF IInv, StagesInv, Served

\* The steps of the pool's threads keep the invariant.
LEMMA PoolKeeps ==
  ASSUME IInv, NEW t \in Tasks,
         Take(t) \/ ReadRemotes(t) \/ (RemoteRead(t) /\ task[t].pc = "remote")
  PROVE  IInv'
<1>1. /\ at # "exited" /\ UNCHANGED <<hss, at, up, term>>
      /\ task[t].pc \in {"queued", "running", "remote", "fetched"}
      /\ task[t] \in [kind : Kinds, pc : Pcs, round : {1, 2}]
  BY DEF Take, ReadRemotes, RemoteRead, IInv, TypeOK
<1>2. Served \subseteq up /\ at \notin Early
  BY <1>1, Working DEF Serving, Early
<1>3. reads' \in [Tasks -> 0..Remotes]
  BY LifecycleAssumption DEF Take, ReadRemotes, RemoteRead, IInv, TypeOK
<1>4. Goto(t, task[t].pc, task[t].round) => task' = task
  BY <1>1 DEF Goto, IInv, TypeOK
<1>5. \/ Goto(t, "running", task[t].round) \/ Goto(t, "remote", task[t].round)
      \/ Goto(t, "fetched", task[t].round) \/ UNCHANGED task
  BY DEF Take, ReadRemotes, RemoteRead
<1>6. CASE UNCHANGED task
  BY <1>1, <1>3, <1>6 DEF IInv, TypeOK, StagesInv, TasksInv
<1>7. CASE ~UNCHANGED task
  <2>1. PICK pc \in {"running", "remote", "fetched"} : Goto(t, pc, task[t].round)
    BY <1>5, <1>7
  <2> QED BY <1>1, <1>2, <1>3, <2>1, OneTask DEF Pcs
<1> QED BY <1>6, <1>7

\* Callback keeps the invariant.
LEMMA CallbackKeeps == ASSUME IInv, NEW t \in Tasks, Callback(t) PROVE IInv'
<1>1. /\ at # "exited" /\ UNCHANGED <<hss, at, up, term, reads>>
      /\ task[t].pc \in {"queued", "running", "remote", "fetched"}
      /\ task[t] \in [kind : Kinds, pc : Pcs, round : {1, 2}]
      /\ reads' \in [Tasks -> 0..Remotes]
  BY DEF Callback, IInv, TypeOK
<1>2. "hssThreads" \in up /\ at \notin Early
  BY <1>1, Working DEF Serving, Early, Served
<1>3. \/ Goto(t, "done", task[t].round) \/ Goto(t, "hss", 1) \/ AddWork(t, 2)
  BY <1>2 DEF Callback
<1>4. CASE Goto(t, "done", task[t].round)
  BY <1>1, <1>2, <1>4, OneTask DEF Pcs
<1>5. CASE Goto(t, "hss", 1)
  BY <1>1, <1>2, <1>5, OneTask DEF Pcs
<1>6. CASE AddWork(t, 2)
  BY <1>1, <1>2, <1>6, AddWorkKeeps
<1> QED BY <1>3, <1>4, <1>5, <1>6

\* OnAnswer keeps the invariant.
LEMMA OnAnswerKeeps == ASSUME IInv, NEW t \in Tasks, OnAnswer(t) PROVE IInv'
<1>1. /\ at # "exited" /\ UNCHANGED <<hss, at, up, term, reads>>
      /\ task[t].pc = "hss"
      /\ task[t] \in [kind : Kinds, pc : Pcs, round : {1, 2}]
      /\ reads' \in [Tasks -> 0..Remotes]
  BY DEF OnAnswer, IInv, TypeOK
<1>2. at \notin Early
  BY <1>1 DEF IInv, TasksInv
<1>3. CASE Goto(t, "stray", task[t].round) /\ hss = "diameter" /\ "handlers" \notin up
  <2>1. at \notin Serving
    BY <1>3 DEF IInv, StagesInv
  <2> QED BY <1>1, <1>2, <1>3, <2>1, Stages, OneTask DEF Pcs
<1>4. CASE Goto(t, "done", task[t].round)
  BY <1>1, <1>2, <1>4, OneTask DEF Pcs
<1>5. CASE AddWork(t, 2)
  BY <1>1, <1>2, <1>5, AddWorkKeeps
<1> QED BY <1>3, <1>4, <1>5 DEF OnAnswer

\* Only as many requests run as the pool has threads, and only those wait for
\* remote reads.
ThreadsInv ==
  /\ Cardinality(Running) <= Threads
  /\ \A t \in Tasks : reads[t] > 0 => task[t].pc = "remote"

\* Finitely many requests run, and no part of them is larger.
LEMMA RunningFinite ==
  /\ IsFiniteSet(Running) /\ Cardinality(Running) \in Nat
  /\ \A S \in SUBSET Running : Cardinality(S) <= Cardinality(Running)
<1>1. IsFiniteSet(Running)
  BY FS_Subset, LifecycleAssumption DEF Running
<1> QED BY <1>1, FS_Subset, FS_CardinalityType

\* Their number is a natural number.
LEMMA RunningTyped ==
  /\ Cardinality(Running) \in Nat
  /\ \A S \in SUBSET Running : Cardinality(S) \in Nat /\ Cardinality(S) <= Cardinality(Running)
<1> SUFFICES ASSUME NEW S \in SUBSET Running
             PROVE  Cardinality(S) \in Nat /\ Cardinality(S) <= Cardinality(Running)
  BY RunningFinite
<1>1. IsFiniteSet(S)
  BY RunningFinite, FS_Subset
<1> QED BY <1>1, RunningFinite, FS_CardinalityType

\* A thread takes a request only if it is free, and keeps it until its callback
\* has returned.
LEMMA ThreadsStep == ASSUME TypeOK, ThreadsInv, [Next]_vars PROVE ThreadsInv'
<1> USE LifecycleAssumption
<1>1. ASSUME Running' \subseteq Running PROVE (Cardinality(Running) <= Threads)'
  BY <1>1, RunningTyped DEF ThreadsInv
<1>2. CASE MainStep
  <2>1. \A t \in Tasks : task'[t] = IF at = "wait_stopped" /\ task[t].pc = "queued"
                            THEN [task[t] EXCEPT !.pc = "lost"] ELSE task[t]
    BY <1>2 DEF MainStep
  <2>2. \A t \in Tasks : task[t] \in [kind : Kinds, pc : Pcs, round : {1, 2}]
    BY DEF TypeOK
  <2>3. \A t \in Tasks : \/ task'[t].pc = task[t].pc
                         \/ task[t].pc = "queued" /\ task'[t].pc = "lost"
    BY <2>1, <2>2
  <2>4. Running' \subseteq Running
    BY <2>3 DEF Running
  <2> QED BY <1>1, <1>2, <2>3, <2>4 DEF MainStep, ThreadsInv
<1>3. CASE FailToStart \/ Terminate \/ UNCHANGED vars
  <2>1. UNCHANGED <<task, reads>>
    BY <1>3 DEF FailToStart, Terminate, vars
  <2> QED BY <2>1 DEF ThreadsInv, Running
<1>4. ASSUME NEW t \in Tasks, Arrive(t) \/ Callback(t) \/ OnAnswer(t) PROVE ThreadsInv'
  <2>1. /\ task[t].pc # "remote" /\ UNCHANGED reads
        /\ \E pc \in {"queued", "hss", "done", "stray"}, round \in {1, 2, task[t].round} :
             Goto(t, pc, round)
    BY <1>4 DEF Arrive, Callback, OnAnswer, AddWork
  <2>2. PICK pc \in {"queued", "hss", "done", "stray"}, round \in {1, 2, task[t].round} : Goto(t, pc, round)
    BY <2>1
  <2>3. task'[t].pc = pc /\ \A u \in Tasks \ {t} : task'[u] = task[u]
    BY <2>2 DEF Goto, TypeOK
  <2>4. Running' \subseteq Running
    BY <2>3 DEF Running
  <2> QED BY <1>1, <2>1, <2>3, <2>4 DEF ThreadsInv
<1>5. ASSUME NEW t \in Tasks, Take(t) PROVE ThreadsInv'
  <2>1. /\ task'[t].pc = "running" /\ task[t].pc = "queued" /\ UNCHANGED reads
        /\ \A u \in Tasks \ {t} : task'[u] = task[u]
    BY <1>5 DEF Take, Goto, TypeOK
  <2>2. Running' = Running \cup {t} /\ t \notin Running
    BY <2>1 DEF Running
  <2>3. Cardinality(Running') = Cardinality(Running) + 1
    BY <2>2, RunningFinite, FS_AddElement
  <2>4. Cardinality(Running) < Threads
    BY <1>5 DEF Take
  <2> QED BY <2>1, <2>3, <2>4, RunningFinite DEF ThreadsInv
<1>6. ASSUME NEW t \in Tasks, ReadRemotes(t) PROVE ThreadsInv'
  <2>1. /\ task'[t].pc = "remote" /\ task[t].pc = "running"
        /\ \A u \in Tasks \ {t} : task'[u] = task[u] /\ reads'[u] = reads[u]
    BY <1>6 DEF ReadRemotes, Goto, TypeOK
  <2>2. Running' \subseteq Running
    BY <2>1 DEF Running
  <2> QED BY <1>1, <2>1, <2>2 DEF ThreadsInv
<1>7. ASSUME NEW t \in Tasks, RemoteRead(t) PROVE ThreadsInv'
  <2>1. task[t].pc = "remote"
    BY <1>7 DEF RemoteRead, ThreadsInv
  <2>2. /\ reads'[t] = reads[t] - 1 /\ reads[t] \in Nat
        /\ \A u \in Tasks \ {t} : task'[u] = task[u] /\ reads'[u] = reads[u]
    BY <1>7 DEF RemoteRead, Goto, TypeOK
  <2>3. \/ task'[t].pc = "fetched" /\ reads[t] = 1
        \/ task'[t].pc = "remote"
    BY <1>7, <2>1 DEF RemoteRead, Goto, TypeOK
  <2>4. Running' \subseteq Running
    BY <2>1, <2>2 DEF Running
  <2> QED BY <1>1, <2>2, <2>3, <2>4 DEF ThreadsInv
<1> QED BY <1>2, <1>3, <1>4, <1>5, <1>6, <1>7 DEF Next

\* Every step keeps the invariant.
LEMMA IInvStep == ASSUME IInv, ThreadsInv, [Next]_vars PROVE IInv'
<1>1. CASE MainStep
  BY <1>1, MainStages, MainTasks DEF IInv
<1>2. CASE FailToStart
  <2>1. UNCHANGED <<hss, up, term, task, reads>> /\ at' = "exited"
    BY <1>2 DEF FailToStart
  <2> QED BY <2>1 DEF IInv, TypeOK, StagesInv, TasksInv, Early, Serving, Ending
<1>3. CASE Terminate
  <2>1. UNCHANGED <<hss, up, at, task, reads>> /\ term' = TRUE
    BY <1>3 DEF Terminate
  <2> QED BY <2>1 DEF IInv, TypeOK, StagesInv, TasksInv
<1>4. CASE UNCHANGED vars
  BY <1>4 DEF IInv, TypeOK, StagesInv, TasksInv, vars
<1>5. ASSUME NEW t \in Tasks, RemoteRead(t) PROVE IInv'
  BY <1>5, PoolKeeps DEF RemoteRead, ThreadsInv
<1>6. ASSUME NEW t \in Tasks, Take(t) \/ ReadRemotes(t) PROVE IInv'
  BY <1>6, PoolKeeps
<1>7. ASSUME NEW t \in Tasks, Arrive(t) \/ Callback(t) \/ OnAnswer(t) PROVE IInv'
  BY <1>7, ArriveKeeps, CallbackKeeps, OnAnswerKeeps
<1> QED BY <1>1, <1>2, <1>3, <1>4, <1>5, <1>6, <1>7 DEF Next

\* No requests run in the initial states.
LEMMA InitThreads == Init => ThreadsInv
<1> SUFFICES ASSUME Init PROVE ThreadsInv
  OBVIOUS
<1>1. Running = {}
  BY DEF Init, Running
<1> QED BY <1>1, FS_EmptySet, LifecycleAssumption DEF Init, ThreadsInv

\* The inductive invariant: what is there at each step of main, and what that means
\* for the requests in each state.
THEOREM Inductive == Spec => [](IInv /\ ThreadsInv)
<1>1. IInv /\ ThreadsInv /\ [Next]_vars => (IInv /\ ThreadsInv)'
  BY IInvStep, ThreadsStep DEF IInv
<1> QED BY <1>1, InitIInv, InitThreads, PTL DEF Spec

\* The step of main, the components that are up and the state of every request
\* stay what the code's variables can hold.
THEOREM Types == Spec => []TypeOK
<1>1. IInv => TypeOK
  BY DEF IInv
<1> QED BY <1>1, Inductive, PTL

\* main's order of start-up and shutdown: no handler and no callback finds a
\* component missing until the processor's pool has been deleted.
THEOREM NoEarlyStrays == Spec => []StraysOnlyAtTheEnd
<1>1. IInv => StraysOnlyAtTheEnd
  BY DEF IInv, TasksInv, StraysOnlyAtTheEnd, Ending
<1> QED BY <1>1, Inductive, PTL

\* A thread of the processor's pool has the cache, the remote stores' pool and the
\* HSS connection for as long as it works.
THEOREM Workers == Spec => []WorkersAreServed
<1>1. IInv => WorkersAreServed
  BY DEF IInv, TasksInv, WorkersAreServed, Running, Served
<1> QED BY <1>1, Inductive, PTL

\* The pool main sizes for the remote reads never makes one wait, whatever the
\* number of threads and of remote stores.
THEOREM RemoteReadsFit == Spec => []RemoteReadsHaveThreads
<1>1. ASSUME IInv, ThreadsInv PROVE RemoteReadsHaveThreads
  <2>1. RemoteReads \subseteq Running \X (1..Remotes)
    BY <1>1 DEF RemoteReads, ThreadsInv, Running, IInv, TypeOK
  <2>2. IsFiniteSet(1..Remotes) /\ Cardinality(1..Remotes) = Remotes
    BY FS_Interval, LifecycleAssumption
  <2>3. /\ IsFiniteSet(Running \X (1..Remotes))
        /\ Cardinality(Running \X (1..Remotes)) = Cardinality(Running) * Remotes
    BY <2>2, RunningFinite, FS_Product
  <2>4. Cardinality(RemoteReads) \in Nat
        /\ Cardinality(RemoteReads) <= Cardinality(Running) * Remotes
    BY <2>1, <2>3, FS_Subset, FS_CardinalityType
  <2>5. Cardinality(Running) * Remotes <= Threads * Remotes
    BY <1>1, RunningFinite, LifecycleAssumption DEF ThreadsInv
  <2>6. Cardinality(Running) * Remotes \in Nat /\ Threads * Remotes \in Nat
    BY RunningFinite, LifecycleAssumption
  <2> QED BY <2>4, <2>5, <2>6 DEF RemoteReadsHaveThreads, RemoteThreads
<1> QED BY <1>1, Inductive, PTL
=============================================================================
