--------------------------- MODULE HomesteadProofs ---------------------------
(***************************************************************************)
(* What is proved of DiameterTasks, and of Homestead, which puts its       *)
(* requests and those of RegDataTask on one cache. Last, why the HSS, the  *)
(* cache and Sprout agree whenever no window is hit and no request is      *)
(* under way: AgreeInv, which says how the three may differ meanwhile,     *)
(* survives every step.                                                    *)
(***************************************************************************)
EXTENDS Homestead, TLAPS

\* Zenon proves most of the leaves below; the others name SMT.
USE ZenonT(60)

\* A task has been answered as often as its step says.  When it is about to
\* change the cache it remembers whom Sprout was told of: an RTR of exactly the
\* sets that it deletes, a PPR of the profile that it writes.
TaskInv(x) ==
  /\ x.answers = IF x.pc \in {"del", "saved", "gone"} THEN 1 ELSE 0
  /\ x.answers = 0 => x.answer = "none"
  /\ x.pc = "del" => x.req.kind = "RTR" /\ x.told = SetsOf(x)
  /\ x.pc \in {"put", "saved"} => x.req.kind = "PPR"
  /\ x.pc = "put" /\ x.req.profile # None => x.told = {x.req.default}

IndInv == TypeOK /\ \A t \in Tasks : TaskInv(task[t])

\* Answer, DeleteThis and Fail make a task's state of a task's state.
LEMMA TaskOperators ==
  ASSUME NEW x \in TaskStates
  PROVE  /\ DeleteThis(x) \in TaskStates
         /\ DeleteThis(x).pc = "gone" /\ DeleteThis(x).answers = x.answers
         /\ \A a \in Answers :
              /\ Answer(x, a) \in TaskStates
              /\ Answer(x, a).answers = x.answers + 1
              /\ \A f \in {"pc", "req", "sets", "told"} : Answer(x, a)[f] = x[f]
         /\ Fail(x) \in TaskStates /\ Fail(x).pc = "gone" /\ Fail(x).answers = x.answers + 1
<1>1. \A y \in TaskStates : /\ DeleteThis(y) \in TaskStates
                            /\ DeleteThis(y).pc = "gone" /\ DeleteThis(y).answers = y.answers
  BY DEF TaskStates, DeleteThis
<1>2. ASSUME NEW a \in Answers
      PROVE  /\ Answer(x, a) \in TaskStates
             /\ Answer(x, a).answers = x.answers + 1
             /\ \A f \in {"pc", "req", "sets", "told"} : Answer(x, a)[f] = x[f]
  <2> DEFINE y == [x EXCEPT !.answer = a]
  <2>1. /\ y \in TaskStates /\ y.answers = x.answers /\ y.answers + 1 \in Nat
        /\ \A f \in {"pc", "req", "sets", "told"} : y[f] = x[f]
    BY SMTT(30) DEF TaskStates
  <2>2. Answer(x, a) = [y EXCEPT !.answers = x.answers + 1]
    BY DEF Answer, TaskStates
  <2> HIDE DEF y
  <2> QED BY <2>1, <2>2 DEF TaskStates
<1>3. "DIAMETER_REQ_FAILURE" \in Answers
  BY DEF Answers
<1> QED BY <1>1, <1>2, <1>3 DEF Fail

\* A task that has not been answered may be answered, or answered and deleted.
LEMMA AnswerOnce ==
  ASSUME NEW x \in TaskStates, x.answers = 0
  PROVE  /\ \A a \in Answers : /\ Answer(x, a) \in TaskStates
                               /\ Answer(x, a).answers = 1
                               /\ DeleteThis(Answer(x, a)) \in TaskStates
                               /\ TaskInv(DeleteThis(Answer(x, a)))
         /\ Fail(x) \in TaskStates /\ TaskInv(Fail(x))
<1>1. ASSUME NEW a \in Answers
      PROVE  Answer(x, a) \in TaskStates /\ Answer(x, a).answers = 1
  <2>1. Answer(x, a) \in TaskStates /\ Answer(x, a).answers = x.answers + 1
    BY TaskOperators
  <2> QED BY SMTT(30), <2>1
<1>2. ASSUME NEW a \in Answers
      PROVE  DeleteThis(Answer(x, a)) \in TaskStates /\ TaskInv(DeleteThis(Answer(x, a)))
  <2> DEFINE z == Answer(x, a)
  <2>1. z \in TaskStates /\ z.answers = 1
    BY <1>1
  <2> HIDE DEF z
  <2>2. DeleteThis(z) \in TaskStates /\ DeleteThis(z).pc = "gone" /\ DeleteThis(z).answers = 1
    BY <2>1, TaskOperators
  <2>3. TaskInv(DeleteThis(z))
    BY SMTT(30), <2>2 DEF TaskInv
  <2> QED BY <2>2, <2>3 DEF z
<1> QED BY <1>1, <1>2 DEF Fail, Answers

\* A step of one task keeps the others.
LEMMA OneBecomes ==
  ASSUME IndInv, NEW t \in Tasks, NEW y \in TaskStates, TaskInv(y), Become(t, y)
  PROVE  task' \in [Tasks -> TaskStates] /\ \A u \in Tasks : TaskInv(task'[u])
BY DEF IndInv, TypeOK, Become

\* A request is an RTR or a PPR with its fields.
LEMMA RequestTypes ==
  ASSUME NEW r \in Requests
  PROVE  /\ r.kind = "RTR" => /\ r \in Rtrs /\ r.reason \in Reasons
                              /\ r.impis \in SUBSET Impis /\ r.impus \in SUBSET Impus
         /\ r.kind = "PPR" => /\ r \in Pprs /\ r.impi \in Impis /\ r.default \in Impus
                              /\ r.profile \in Profiles \cup {None}
                              /\ r.charging \in Charging \cup {None}
         /\ r.kind \in {"RTR", "PPR"}
BY DiameterTasksAssumption DEF Rtrs, Pprs

\* What a PPR makes of a record is a record, which differs in the profile and
\* the charging addresses only.
LEMMA PushedRecord ==
  ASSUME NEW r \in Requests, r.kind = "PPR", NEW k \in Impus, NEW irs \in Records
  PROVE  /\ Pushed(r, k, irs) \in Records
         /\ \A f \in {"reg", "impis", "aged"} : Pushed(r, k, irs)[f] = irs[f]
         /\ Pushed(r, k, irs).doc =
              IF k = r.default /\ r.profile # None THEN r.profile ELSE irs.doc
         /\ Pushed(r, k, irs).charging =
              IF r.charging # None THEN r.charging ELSE irs.charging
BY RequestTypes DEF Pushed, Records

\* The sets that a lookup finds are in the cache.
LEMMA FirstOfCached ==
  ASSUME TypeOK, NEW impus \in SUBSET Impus, NEW found \in FirstOf(impus)
  PROVE  found \in SUBSET Impus /\ \A k \in found : k \in impus /\ cache[k] \in Records
BY DEF FirstOf, TypeOK, Cached

\* The sets an IMPI lookup finds are in the cache.
LEMMA FirstOfEachCached ==
  ASSUME TypeOK, NEW impis \in SUBSET Impis, NEW found \in FirstOfEach(impis)
  PROVE  found \in SUBSET Impus /\ \A k \in found : cache[k] \in Records
<1>1. \A i \in Impis : ImpusOf(i) \in SUBSET Impus
  BY DEF ImpusOf
<1>2. PICK f \in [impis -> SUBSET Impus] :
        /\ \A i \in impis : f[i] \in FirstOf(ImpusOf(i))
        /\ found = UNION {f[i] : i \in impis}
  BY DEF FirstOfEach
<1>3. \A i \in impis : f[i] \in SUBSET Impus /\ \A k \in f[i] : cache[k] \in Records
  BY SMTT(30), <1>1, <1>2, FirstOfCached
<1> QED BY <1>2, <1>3

\* The initial states satisfy the invariant of DiameterTasks.
LEMMA InitInd == Init => IndInv
<1> SUFFICES ASSUME Init PROVE IndInv
  OBVIOUS
<1>1. cache \in [Impus -> Records \cup {None}]
  BY DiameterTasksAssumption DEF Init
<1>2. sprout \in [Impus -> Bindings]
  <2>1. \A k \in Impus : Cached(k) => cache[k] \in Records
    BY <1>1 DEF Cached
  <2>2. \A k \in Impus : Cached(k) =>
          [impis |-> cache[k].impis, profile |-> cache[k].doc] \in Bindings
    BY <2>1 DEF Records, Bindings
  <2>3. [impis |-> {}, profile |-> None] \in Bindings
    BY DEF Bindings
  <2> QED BY <2>2, <2>3 DEF Init
<1>3. \A r \in Requests : NewTask(r) \in TaskStates /\ TaskInv(NewTask(r))
  BY DEF NewTask, TaskStates, NoSets, Answers, TaskInv
<1>4. task \in [Tasks -> TaskStates] /\ \A t \in Tasks : TaskInv(task[t])
  BY <1>3 DEF Init
<1>5. "cacheFails" \notin upsets
  BY DEF Init
<1> QED BY <1>1, <1>2, <1>4, <1>5 DEF IndInv, TypeOK

-----------------------------------------------------------------------------
(* One lemma for each step of a task.                                      *)

\* Run keeps the invariant.
LEMMA RunInd == ASSUME IndInv, NEW t \in Tasks, Run(t) PROVE IndInv'
<1> DEFINE x == task[t]
           z == Answer(x, "DIAMETER_REQ_SUCCESS")
<1>1. /\ x \in TaskStates /\ x.answers = 0 /\ x.answer = "none" /\ x.pc = "new"
      /\ "DIAMETER_REQ_SUCCESS" \in Answers
  BY DEF IndInv, TypeOK, TaskInv, Run, Answers
<1>3. \/ Become(t, [x EXCEPT !.pc = "lookup"])
      \/ Become(t, Fail(x))
      \/ Become(t, DeleteThis(z))
  BY DEF Run
<1>4. [x EXCEPT !.pc = "lookup"] \in TaskStates /\ TaskInv([x EXCEPT !.pc = "lookup"])
  BY <1>1 DEF TaskStates, TaskInv
<1>5. Fail(x) \in TaskStates /\ TaskInv(Fail(x))
  BY <1>1, AnswerOnce
<1>6. DeleteThis(z) \in TaskStates /\ TaskInv(DeleteThis(z))
  BY <1>1, AnswerOnce
<1> HIDE DEF z
<1>7. task' \in [Tasks -> TaskStates] /\ \A u \in Tasks : TaskInv(task'[u])
  BY <1>3, <1>4, <1>5, <1>6, OneBecomes
<1>8. cache' = cache /\ sprout' = sprout /\ ("cacheFails" \in upsets' => "cacheFails" \in upsets)
  BY DEF Run
<1> QED BY <1>7, <1>8 DEF IndInv, TypeOK

\* OnGetRegSets keeps the invariant.
LEMMA OnGetRegSetsInd == ASSUME IndInv, NEW t \in Tasks, OnGetRegSets(t) PROVE IndInv'
<1> DEFINE x == task[t]
           z == Answer(x, "DIAMETER_REQ_SUCCESS")
           y(found) == [x EXCEPT !.pc = "sprout", !.sets = Read(found)]
<1>1. /\ x \in TaskStates /\ x.answers = 0 /\ x.answer = "none"
      /\ x.req \in Requests /\ x.req.kind = "RTR"
      /\ "DIAMETER_REQ_SUCCESS" \in Answers
  BY DEF IndInv, TypeOK, TaskStates, TaskInv, OnGetRegSets, Answers
<1>3. PICK found \in IF RtrImpus(x.req) = {} THEN FirstOfEach(x.req.impis)
                                             ELSE FirstOf(x.req.impus) :
        Become(t, IF found = {} THEN DeleteThis(z) ELSE y(found))
  BY DEF OnGetRegSets
<1>4. found \in SUBSET Impus /\ \A k \in found : cache[k] \in Records
  <2>1. x.req.impis \in SUBSET Impis /\ x.req.impus \in SUBSET Impus
    BY <1>1, RequestTypes
  <2> QED BY <1>3, <2>1, FirstOfCached, FirstOfEachCached DEF IndInv
<1>5. y(found) \in TaskStates /\ TaskInv(y(found))
  <2>1. Read(found) \in [Impus -> Records \cup {None}]
    BY <1>4 DEF Read
  <2> QED BY <1>1, <2>1 DEF TaskStates, TaskInv
<1>6. DeleteThis(z) \in TaskStates /\ TaskInv(DeleteThis(z))
  BY <1>1, AnswerOnce
<1> HIDE DEF y, z
<1>7. task' \in [Tasks -> TaskStates] /\ \A u \in Tasks : TaskInv(task'[u])
  BY <1>3, <1>5, <1>6, OneBecomes, SMTT(40)
<1> QED BY <1>7 DEF IndInv, TypeOK, OnGetRegSets

\* OnGetImsSub keeps the invariant.
LEMMA OnGetImsSubInd == ASSUME IndInv, NEW t \in Tasks, OnGetImsSub(t) PROVE IndInv'
<1> DEFINE x == task[t]  r == x.req
           Sets(found) == [k \in Impus |-> IF k \in found THEN Pushed(r, k, cache[k]) ELSE None]
           y(found) == [x EXCEPT !.sets = Sets(found),
                                 !.pc = IF r.profile # None THEN "sprout" ELSE "put"]
<1>1. /\ x \in TaskStates /\ x.answers = 0 /\ x.answer = "none"
      /\ r \in Requests /\ r.kind = "PPR"
  BY DEF IndInv, TypeOK, TaskStates, TaskInv, OnGetImsSub
<1>2. ImpusOf(r.impi) \in SUBSET Impus
  BY SMTT(40) DEF ImpusOf
<1>3. \/ Become(t, Fail(x))
      \/ \E found \in FirstOf(ImpusOf(r.impi)) : Become(t, y(found))
  BY DEF OnGetImsSub
<1>4. ASSUME NEW found \in FirstOf(ImpusOf(r.impi))
      PROVE  y(found) \in TaskStates /\ TaskInv(y(found))
  <2>1. found \in SUBSET Impus /\ \A k \in found : cache[k] \in Records
    BY <1>2, FirstOfCached DEF IndInv
  <2>2. \A k \in found : Pushed(r, k, cache[k]) \in Records
    BY <1>1, <2>1, PushedRecord
  <2>3. Sets(found) \in [Impus -> Records \cup {None}]
    BY <2>1, <2>2
  <2> HIDE DEF Sets
  <2> QED BY <1>1, <2>3 DEF TaskStates, TaskInv
<1>5. Fail(x) \in TaskStates /\ TaskInv(Fail(x))
  BY <1>1, AnswerOnce
<1> HIDE DEF y, Sets
<1>6. task' \in [Tasks -> TaskStates] /\ \A u \in Tasks : TaskInv(task'[u])
  BY <1>3, <1>4, <1>5, OneBecomes
<1> QED BY <1>6 DEF IndInv, TypeOK, OnGetImsSub

\* OnGetFailure keeps the invariant.
LEMMA OnGetFailureInd == ASSUME IndInv, NEW t \in Tasks, OnGetFailure(t) PROVE IndInv'
<1>1. task[t] \in TaskStates /\ task[t].answers = 0
  BY DEF IndInv, TypeOK, TaskInv, OnGetFailure
<1>2. task' \in [Tasks -> TaskStates] /\ \A u \in Tasks : TaskInv(task'[u])
  BY <1>1, AnswerOnce, OneBecomes DEF OnGetFailure
<1> QED BY <1>2 DEF IndInv, TypeOK, OnGetFailure, Upset

\* What Sprout has stays well-formed.
LEMMA SproutTypes ==
  ASSUME TypeOK, NEW x \in TaskStates
  PROVE  /\ x.req.kind = "RTR" => Deregistered(x) \in [Impus -> Bindings]
         /\ x.req.kind = "PPR" /\ x.req.profile \in Profiles \cup {None} =>
              Reprofiled(x) \in [Impus -> Bindings]
<1>1. \A k \in Impus : /\ sprout[k] \in Bindings
                       /\ \A i \in SUBSET Devices : [sprout[k] EXCEPT !.impis = i] \in Bindings
                       /\ \A p \in Profiles \cup {None} : [sprout[k] EXCEPT !.profile = p] \in Bindings
  BY DEF TypeOK, Bindings
<1>2. \A k \in Impus : sprout[k].impis \in SUBSET Devices
  BY <1>1 DEF Bindings
<1>3. ASSUME x.req.kind = "RTR" PROVE Deregistered(x) \in [Impus -> Bindings]
  <2>1. \A k \in Impus : sprout[k].impis \ x.req.impis \in SUBSET Devices /\ {} \in SUBSET Devices
    BY <1>2
  <2> QED BY <1>1, <2>1 DEF Deregistered
<1>4. ASSUME x.req.kind = "PPR", x.req.profile \in Profiles \cup {None}
      PROVE  Reprofiled(x) \in [Impus -> Bindings]
  BY <1>1, <1>4 DEF Reprofiled, TypeOK
<1> QED BY <1>3, <1>4

\* OnDeregisterBindings keeps the invariant.
LEMMA OnDeregisterBindingsInd ==
  ASSUME IndInv, NEW t \in Tasks, OnDeregisterBindings(t) PROVE IndInv'
<1> DEFINE x == task[t]
           y(a) == [Answer(x, a) EXCEPT !.pc = "del", !.told = SetsOf(x)]
<1>1. x \in TaskStates /\ x.answers = 0 /\ x.req.kind = "RTR"
  BY DEF IndInv, TypeOK, TaskInv, OnDeregisterBindings
<1>2. ASSUME NEW a \in Answers PROVE y(a) \in TaskStates /\ TaskInv(y(a))
  <2> DEFINE z == Answer(x, a)
  <2>1. z \in TaskStates /\ z.answers = 1 /\ z.req = x.req /\ z.sets = x.sets
    <3>1. z \in TaskStates /\ z.answers = 1
      BY <1>1, AnswerOnce
    <3>2. \A f \in {"pc", "req", "sets", "told"} : z[f] = x[f]
      BY <1>1, TaskOperators
    <3> QED BY <3>1, <3>2
  <2> HIDE DEF z
  <2>2. SetsOf(x) \in SUBSET Impus
    BY DEF SetsOf
  <2>3. [z EXCEPT !.pc = "del", !.told = SetsOf(x)] \in TaskStates
    BY <2>1, <2>2 DEF TaskStates
  <2>4. TaskInv([z EXCEPT !.pc = "del", !.told = SetsOf(x)])
    BY SMTT(30), <1>1, <2>1 DEF TaskInv, SetsOf, TaskStates
  <2> QED BY <2>3, <2>4 DEF z
<1>3. \E a \in Answers : Become(t, y(a))
  BY DEF OnDeregisterBindings, Answers
<1> HIDE DEF y
<1>4. task' \in [Tasks -> TaskStates] /\ \A u \in Tasks : TaskInv(task'[u])
  BY <1>2, <1>3, OneBecomes
<1>5. sprout' \in [Impus -> Bindings]
  <2>1. sprout' \in {sprout, Deregistered(x)}
    BY DEF OnDeregisterBindings
  <2> QED BY <1>1, <2>1, SproutTypes DEF IndInv, TypeOK
<1>6. cache' = cache /\ upsets' = upsets
  BY DEF OnDeregisterBindings
<1> QED BY <1>4, <1>5, <1>6 DEF IndInv, TypeOK

\* OnChangeAssociatedIdentities keeps the invariant.
LEMMA OnChangeAssociatedIdentitiesInd ==
  ASSUME IndInv, NEW t \in Tasks, OnChangeAssociatedIdentities(t) PROVE IndInv'
<1> DEFINE x == task[t]
           y == [x EXCEPT !.pc = "put", !.told = {x.req.default}]
<1>1. /\ x \in TaskStates /\ x.answers = 0 /\ x.answer = "none"
      /\ x.req \in Requests /\ x.req.kind = "PPR"
  BY DEF IndInv, TypeOK, TaskStates, TaskInv, OnChangeAssociatedIdentities
<1>2. x.req.default \in Impus /\ x.req.profile \in Profiles \cup {None}
  BY <1>1, RequestTypes
<1>3. y \in TaskStates /\ TaskInv(y)
  BY <1>1, <1>2 DEF TaskStates, TaskInv
<1>4. Become(t, y) \/ Become(t, Fail(x))
  BY DEF OnChangeAssociatedIdentities
<1>5. Fail(x) \in TaskStates /\ TaskInv(Fail(x))
  BY <1>1, AnswerOnce
<1> HIDE DEF y
<1>6. task' \in [Tasks -> TaskStates] /\ \A u \in Tasks : TaskInv(task'[u])
  BY <1>3, <1>4, <1>5, OneBecomes
<1>7. sprout' \in [Impus -> Bindings]
  <2>1. sprout' \in {sprout, Reprofiled(x)}
    BY DEF OnChangeAssociatedIdentities
  <2> QED BY <1>1, <1>2, <2>1, SproutTypes DEF IndInv, TypeOK
<1>8. cache' = cache /\ upsets' = upsets
  BY DEF OnChangeAssociatedIdentities
<1> QED BY <1>6, <1>7, <1>8 DEF IndInv, TypeOK

\* What is left of the cache after a delete, and what is in it after a put.
LEMMA CacheTypes ==
  ASSUME IndInv
  PROVE  /\ \A some \in SUBSET Impus : CacheDelete(some) => cache' \in [Impus -> Records \cup {None}]
         /\ \A t \in Tasks : task[t].pc = "put" /\ CachePut(task[t]) =>
              cache' \in [Impus -> Records \cup {None}]
<1>1. \A some \in SUBSET Impus : CacheDelete(some) => cache' \in [Impus -> Records \cup {None}]
  BY DEF IndInv, TypeOK, CacheDelete
<1>2. ASSUME NEW t \in Tasks, task[t].pc = "put", CachePut(task[t])
      PROVE  cache' \in [Impus -> Records \cup {None}]
  <2> DEFINE x == task[t]
  <2>1. x.req \in Requests /\ x.req.kind = "PPR" /\ x.sets \in [Impus -> Records \cup {None}]
    BY <1>2 DEF IndInv, TypeOK, TaskStates, TaskInv
  <2>2. ASSUME NEW k \in SetsOf(x) PROVE Put(x, k) \in Records
    <3>1. k \in Impus /\ x.sets[k] \in Records
      BY <2>1, <2>2 DEF SetsOf
    <3>2. ASSUME Cached(k) PROVE Pushed(x.req, k, cache[k]) \in Records
      <4>1. cache[k] \in Records
        BY <3>1, <3>2 DEF Cached, IndInv, TypeOK
      <4> QED BY <2>1, <3>1, <4>1, PushedRecord
    <3> QED BY <3>1, <3>2 DEF Put
  <2> HIDE DEF x
  <2> QED BY <1>2, <2>2 DEF CachePut, IndInv, TypeOK, x
<1> QED BY <1>1, <1>2

\* OnDelete keeps the invariant.
LEMMA OnDeleteInd ==
  ASSUME IndInv, NEW t \in Tasks, OnDelete(t) \/ OnDeleteFailure(t) PROVE IndInv'
<1> DEFINE x == task[t]
<1>1. x \in TaskStates /\ x.answers = 1
  BY DEF IndInv, TypeOK, TaskInv, OnDelete, OnDeleteFailure
<1>2. DeleteThis(x) \in TaskStates /\ DeleteThis(x).pc = "gone" /\ DeleteThis(x).answers = 1
  BY <1>1, TaskOperators
<1>3. TaskInv(DeleteThis(x))
  BY SMTT(30), <1>2 DEF TaskInv
<1>4. Become(t, DeleteThis(x))
  BY DEF OnDelete, OnDeleteFailure
<1>5. task' \in [Tasks -> TaskStates] /\ \A u \in Tasks : TaskInv(task'[u])
  BY <1>2, <1>3, <1>4, OneBecomes
<1>6. cache' \in [Impus -> Records \cup {None}]
  <2>1. SetsOf(x) \in SUBSET Impus
    BY DEF SetsOf
  <2>2. \E some \in SUBSET Impus : CacheDelete(some)
    BY <2>1 DEF OnDelete, OnDeleteFailure
  <2> QED BY <2>2, CacheTypes
<1>7. sprout' = sprout /\ ("cacheFails" \in upsets' => "cacheFails" \in upsets \cup Upsets)
  BY DEF OnDelete, OnDeleteFailure, Upset
<1> QED BY <1>5, <1>6, <1>7 DEF IndInv, TypeOK

\* OnSave keeps the invariant.
LEMMA OnSaveInd ==
  ASSUME IndInv, NEW t \in Tasks, OnSaveProgress(t) \/ OnSaveFailure(t) PROVE IndInv'
<1> DEFINE x == task[t]
           z == Answer(x, "DIAMETER_REQ_SUCCESS")
           y == [z EXCEPT !.pc = "saved"]
<1>1. /\ x \in TaskStates /\ x.answers = 0 /\ x.pc = "put" /\ x.req.kind = "PPR"
      /\ "DIAMETER_REQ_SUCCESS" \in Answers
  BY DEF IndInv, TypeOK, TaskInv, OnSaveProgress, OnSaveFailure, Answers
<1>2. z \in TaskStates /\ z.answers = 1 /\ z.req = x.req
  <2>1. z \in TaskStates /\ z.answers = 1
    BY <1>1, AnswerOnce
  <2>2. \A f \in {"pc", "req", "sets", "told"} : z[f] = x[f]
    BY <1>1, TaskOperators
  <2> QED BY <2>1, <2>2
<1>3. Become(t, y) \/ Become(t, Fail(x))
  BY DEF OnSaveProgress, OnSaveFailure
<1> HIDE DEF z
<1>4. y \in TaskStates /\ TaskInv(y)
  BY SMTT(30), <1>1, <1>2 DEF TaskStates, TaskInv
<1>5. Fail(x) \in TaskStates /\ TaskInv(Fail(x))
  BY <1>1, AnswerOnce
<1> HIDE DEF y
<1>6. task' \in [Tasks -> TaskStates] /\ \A u \in Tasks : TaskInv(task'[u])
  BY <1>3, <1>4, <1>5, OneBecomes
<1>7. cache' \in [Impus -> Records \cup {None}]
  <2>1. CachePut(x) \/ cache' = cache
    BY DEF OnSaveProgress, OnSaveFailure
  <2> QED BY <1>1, <2>1, CacheTypes DEF IndInv, TypeOK
<1>8. sprout' = sprout /\ ("cacheFails" \in upsets' => "cacheFails" \in upsets \cup Upsets)
  BY DEF OnSaveProgress, OnSaveFailure, Upset
<1> QED BY <1>6, <1>7, <1>8 DEF IndInv, TypeOK

\* OnSaveSuccess keeps the invariant.
LEMMA OnSaveSuccessInd == ASSUME IndInv, NEW t \in Tasks, OnSaveSuccess(t) PROVE IndInv'
<1>1. task[t] \in TaskStates /\ task[t].answers = 1
  BY DEF IndInv, TypeOK, TaskInv, OnSaveSuccess
<1>2. /\ DeleteThis(task[t]) \in TaskStates /\ DeleteThis(task[t]).pc = "gone"
      /\ DeleteThis(task[t]).answers = 1
  BY <1>1, TaskOperators
<1>3. task' \in [Tasks -> TaskStates] /\ \A u \in Tasks : TaskInv(task'[u])
  BY SMTT(30), <1>2, OneBecomes DEF OnSaveSuccess, TaskInv
<1> QED BY <1>3 DEF IndInv, TypeOK, OnSaveSuccess

\* Every step of an RTR or PPR task keeps the invariant.
LEMMA StepInd == ASSUME IndInv, NEW t \in Tasks, Step(t) PROVE IndInv'
BY RunInd, OnGetRegSetsInd, OnGetImsSubInd, OnGetFailureInd, OnDeregisterBindingsInd,
   OnChangeAssociatedIdentitiesInd, OnDeleteInd, OnSaveInd, OnSaveSuccessInd DEF Step

\* Every step of DiameterTasks keeps the invariant.
LEMMA NextInd == IndInv /\ [Next]_vars => IndInv'
<1>1. ASSUME IndInv, UNCHANGED vars PROVE IndInv'
  BY <1>1 DEF IndInv, TypeOK, vars
<1> QED BY <1>1, StepInd DEF Next

\* The invariant holds in all behaviours of DiameterTasks.
LEMMA Inductive == Spec => []IndInv
BY InitInd, NextInd, PTL DEF Spec

\* For any requests of the HSS, any number of them at once and any failures of
\* the cache: every task's state, the cache and what Sprout has are well-formed.
THEOREM Types == Spec => []TypeOK
<1>1. IndInv => TypeOK
  BY DEF IndInv
<1> QED BY <1>1, Inductive, PTL

\* The HSS gets exactly one answer to each request, whatever the others do and
\* whichever cache operations fail.
THEOREM Answered == Spec => []OneAnswer
<1>1. IndInv => OneAnswer
  BY DEF IndInv, TaskInv, OneAnswer
<1> QED BY <1>1, Inductive, PTL

-----------------------------------------------------------------------------
(* What a step may do to the cache.                                        *)

\* The steps that change the cache, and how.
LEMMA CacheChanges ==
  ASSUME NEW t \in Tasks, Step(t)
  PROVE  /\ \/ cache' = cache
            \/ task[t].pc = "del" /\ \E some \in SUBSET SetsOf(task[t]) : CacheDelete(some)
            \/ task[t].pc = "put" /\ CachePut(task[t])
         /\ \E y : Become(t, y)
<1>1. CASE Run(t)
  BY <1>1 DEF Run
<1>2. CASE OnGetRegSets(t)
  BY <1>2, SMTT(40) DEF OnGetRegSets
<1>3. CASE OnGetImsSub(t)
  BY <1>3 DEF OnGetImsSub
<1>4. CASE OnGetFailure(t)
  BY <1>4 DEF OnGetFailure
<1>5. CASE OnDeregisterBindings(t)
  BY <1>5 DEF OnDeregisterBindings
<1>6. CASE OnChangeAssociatedIdentities(t)
  BY <1>6 DEF OnChangeAssociatedIdentities
<1>7. CASE OnDelete(t) \/ OnDeleteFailure(t)
  BY <1>7 DEF OnDelete, OnDeleteFailure
<1>8. CASE OnSaveProgress(t) \/ OnSaveFailure(t)
  BY <1>8 DEF OnSaveProgress, OnSaveFailure
<1>9. CASE OnSaveSuccess(t)
  BY <1>9 DEF OnSaveSuccess
<1> QED BY <1>1, <1>2, <1>3, <1>4, <1>5, <1>6, <1>7, <1>8, <1>9 DEF Step

\* A PPR's put, seen from one record that is there: Pushed of that record, or
\* nothing if the record is not of the PPR's sets.
LEMMA PutOnRecord ==
  ASSUME IndInv, NEW t \in Tasks, task[t].pc = "put", CachePut(task[t]),
         NEW k \in Impus, cache[k] # None
  PROVE  /\ cache'[k] = cache[k] \/ cache'[k] = Pushed(task[t].req, k, cache[k])
         /\ cache[k] \in Records
         /\ task[t].req \in Requests /\ task[t].req.kind = "PPR"
         /\ cache'[k] # None
<1>1. /\ task[t].req \in Requests /\ task[t].req.kind = "PPR" /\ cache[k] \in Records
  BY DEF IndInv, TypeOK, TaskStates, TaskInv
<1>2. cache'[k] = cache[k] \/ cache'[k] = Pushed(task[t].req, k, cache[k])
  BY DEF CachePut, Put, Cached, IndInv, TypeOK
<1>3. Pushed(task[t].req, k, cache[k]) \in Records
  BY <1>1, PushedRecord
<1> QED BY <1>1, <1>2, <1>3, DiameterTasksAssumption

\* The body of SproutComesFirst.
ToldFirst ==
  task' # task => \A k \in Impus :
    /\ cache'[k] = None /\ cache[k] # None =>
         \E t \in Tasks : task[t].pc = "del" /\ k \in task[t].told
    /\ cache'[k] # None /\ cache[k] # None /\ cache'[k].doc # cache[k].doc =>
         \E t \in Tasks : /\ task[t].pc = "put" /\ k \in task[t].told
                          /\ cache'[k].doc = task[t].req.profile

\* A step that changes a record follows the call that told Sprout.
LEMMA ToldFirstStep == ASSUME IndInv, NEW t \in Tasks, Step(t) PROVE ToldFirst
<1>1. CASE cache' = cache
  BY <1>1 DEF ToldFirst
<1>2. CASE task[t].pc = "del" /\ \E some \in SUBSET SetsOf(task[t]) : CacheDelete(some)
  <2>1. task[t].told = SetsOf(task[t])
    BY <1>2 DEF IndInv, TaskInv
  <2>2. \A k \in Impus : cache'[k] = cache[k] \/ (k \in task[t].told /\ cache'[k] = None)
    BY <1>2, <2>1 DEF CacheDelete, IndInv, TypeOK
  <2> QED BY <1>2, <2>2 DEF ToldFirst
<1>3. CASE task[t].pc = "put" /\ CachePut(task[t])
  <2> SUFFICES ASSUME NEW k \in Impus, cache[k] # None
               PROVE  /\ cache'[k] # None
                      /\ cache'[k].doc # cache[k].doc =>
                           /\ k \in task[t].told /\ cache'[k].doc = task[t].req.profile
    BY <1>3 DEF ToldFirst
  <2>1. /\ cache'[k] = cache[k] \/ cache'[k] = Pushed(task[t].req, k, cache[k])
        /\ cache[k] \in Records /\ task[t].req \in Requests /\ task[t].req.kind = "PPR"
        /\ cache'[k] # None
    BY <1>3, PutOnRecord
  <2>2. Pushed(task[t].req, k, cache[k]).doc =
          IF k = task[t].req.default /\ task[t].req.profile # None
          THEN task[t].req.profile ELSE cache[k].doc
    BY <2>1, PushedRecord
  <2>3. task[t].req.profile # None => task[t].told = {task[t].req.default}
    BY <1>3 DEF IndInv, TaskInv
  <2> QED BY <2>1, <2>2, <2>3
<1> QED BY <1>1, <1>2, <1>3, CacheChanges

\* Sprout comes first: a registration set leaves the cache only after Sprout has
\* been told of its end, and gets a new profile only after Sprout has taken it,
\* for any number of concurrent RTRs and PPRs.
THEOREM SproutFirst == Spec => SproutComesFirst
<1>1. IndInv /\ [Next]_vars => [ToldFirst]_vars
  BY ToldFirstStep DEF Next, vars
<1> QED BY <1>1, Inductive, PTL DEF Spec, SproutComesFirst, ToldFirst

-----------------------------------------------------------------------------
(* Homestead: both kinds of requests on one cache.                         *)

HssRecords == [doc : Profiles, charging : Charging]

\* What a request of Sprout has got from the HSS and will write is a profile
\* and charging addresses, so that the cache stays what DiameterTasks expects.
\* No wildcard comes up: the record is the one that the request names.
HttpInv(x) ==
  /\ x.saa # None => x.pc = "sar" /\ x.saa \in HssRecords
  /\ x.pc = "put" => x.irs.doc \in Profiles /\ x.irs.charging \in Charging
  /\ Http!public_id(x) = KeyOf(x.req)

HomesteadInv ==
  /\ IndInv /\ Http!IndInv /\ hssConn = "diameter"
  /\ hss \in [Impus -> HssRecords]
  /\ \A h \in HttpTasks : HttpInv(http[h])

-----------------------------------------------------------------------------
(* The types, and what each kind of request does to the other.             *)

\* The records of DiameterTasks are sets of RegDataTask that are registered
\* or not, and the data of the HSS are what its answers carry.
LEMMA RecordTypes ==
  /\ \A irs \in Records : /\ irs \in Http!Irss /\ irs.reg # "NOT_REGISTERED"
                          /\ irs.doc \in Profiles /\ irs.charging \in Charging
  /\ \A irs \in Http!Irss :
       irs.reg # "NOT_REGISTERED" /\ irs.doc \in Profiles /\ irs.charging \in Charging
         => irs \in Records
  /\ \A data \in HssRecords : /\ data \in Http!Data
                              /\ data.doc \in Profiles /\ data.charging \in Charging
<1>1. ASSUME NEW irs \in Records
      PROVE  /\ irs \in Http!Irss /\ irs.reg # "NOT_REGISTERED"
             /\ irs.doc \in Profiles /\ irs.charging \in Charging
  BY DEF Records, Http!Irss, Http!RegStates, Http!Devices, Devices
<1>2. ASSUME NEW irs \in Http!Irss, irs.reg # "NOT_REGISTERED", irs.doc \in Profiles,
             irs.charging \in Charging
      PROVE  irs \in Records
  BY <1>2 DEF Records, Http!Irss, Http!RegStates, Http!Devices, Devices
<1>3. ASSUME NEW data \in HssRecords
      PROVE  data \in Http!Data /\ data.doc \in Profiles /\ data.charging \in Charging
  BY DEF HssRecords, Http!Data
<1> QED BY <1>1, <1>2, <1>3

\* A request of Sprout is about a public ID that the HSS knows.
LEMMA KeyType == ASSUME HomesteadInv, NEW h \in HttpTasks PROVE Http!public_id(http[h]) \in Impus
<1>1. http[h] \in Http!TaskStates
  BY DEF HomesteadInv, Http!IndInv, Http!TypeOK
<1> QED BY <1>1, HttpAssumption, Http!PublicIdType

\* A step of a request of Sprout, or of the HSS with its SAR, is one of
\* RegDataTask.
LEMMA HttpMoves ==
  ASSUME HomesteadInv, NEW h \in HttpTasks, HttpStep(h)
  PROVE  /\ Http!IndInv'
         /\ HssAccepts(h) \/ (Http!Moves(h) /\ SproutHears(h))
         /\ upsets' \subseteq upsets \cup HttpUpsets \cup {"overlap"}
<1>1. Http!IndInv /\ hssConn = "diameter"
  BY DEF HomesteadInv
<1>2. CASE HssAccepts(h)
  <2>1. hss[Http!public_id(http[h])] \in Http!Data
    BY KeyType, RecordTypes DEF HomesteadInv
  <2>2. Http!HssAccept(h, hss[Http!public_id(http[h])]) /\ upsets' = upsets
    BY <1>2 DEF HssAccepts, Http!HssAccept
  <2>3. Http!Steps(h) /\ Http!Rest
    BY <1>1, <2>1, <2>2, HttpAssumption, Http!HssAcceptStep
  <2> QED BY <1>1, <1>2, <2>2, <2>3, HttpAssumption, Http!KeepsInv
<1>3. ASSUME ~HssAccepts(h)
      PROVE  /\ Http!Moves(h) /\ SproutHears(h) /\ Http!IndInv'
             /\ upsets' \subseteq upsets \cup HttpUpsets \cup {"overlap"}
  <2>1. /\ \/ Http!Run(h) \/ Http!CacheStep(h)
           \/ Http!OnAccepted(h) \/ Http!OnAnswerLost(h)
           \/ \E result \in Http!Rejections : Http!OnRejected(h, result)
        /\ SproutHears(h)
    BY <1>3, HttpAssumption DEF HttpStep
  <2>2. Http!Moves(h) /\ upsets' \subseteq upsets \cup HttpUpsets \cup {"overlap"}
    BY <1>1, <2>1, HttpAssumption, Http!TaskMoves, Http!UpsetsGrow
  <2>3. Http!Run(h) \/ Http!HssStep(h) \/ Http!CacheStep(h)
    BY <2>1 DEF Http!HssStep
  <2>4. Http!Steps(h) /\ Http!Rest
    BY <1>1, <2>3, HttpAssumption, Http!TaskStep
  <2> QED BY <1>1, <2>1, <2>2, <2>4, HttpAssumption, Http!KeepsInv
<1> QED BY <1>2, <1>3

\* What a step leaves of the tasks of Sprout's requests.
LEMMA HttpTasksAfter ==
  ASSUME HomesteadInv, NEW h \in HttpTasks, Http!Moves(h)
  PROVE  \A u \in HttpTasks : HttpInv(http'[u])
<1> DEFINE x == http[h]  y == http'[h]  k == Http!public_id(x)
<1>1. /\ Http!Moved(x, y, cache[k]) /\ x.pc # "gone" /\ HttpInv(x)
      /\ \A u \in HttpTasks : u # h => http'[u] = http[u]
  BY DEF Http!Moves, HomesteadInv
<1>2. x.pc \in {"new", "lookup", "sar", "put", "del", "saved"}
  <2>1. x \in Http!TaskStates
    BY DEF HomesteadInv, Http!IndInv, Http!TypeOK
  <2> QED BY SMTT(30), <1>1, <2>1 DEF Http!TaskStates
<1>3. x.saa # None => x.saa \in HssRecords /\ x.saa.doc \in Profiles /\ x.saa.charging \in Charging
  BY <1>1, RecordTypes DEF HttpInv
<1> HIDE DEF x, y, k
<1>4. y.saa # None => y.pc = "sar" /\ y.saa \in HssRecords
  BY <1>1, <1>2, <1>3 DEF Http!Moved, Http!SameTask, HttpInv
<1>5. y.pc = "put" => y.irs.doc \in Profiles /\ y.irs.charging \in Charging
  BY <1>1, <1>2, <1>3 DEF Http!Moved
<1>6. Http!public_id(y) = KeyOf(y.req)
  BY <1>1 DEF Http!Moved, HttpInv
<1>7. HttpInv(y)
  BY <1>4, <1>5, <1>6 DEF HttpInv
<1> QED BY <1>1, <1>7 DEF HomesteadInv, y

\* What it leaves of the cache.
LEMMA HttpCacheAfter ==
  ASSUME HomesteadInv, NEW h \in HttpTasks, Http!Moves(h), Http!IndInv'
  PROVE  cache' \in [Impus -> Records \cup {None}]
<1> DEFINE x == http[h]  k == Http!public_id(x)
<1>1. Http!Wrote(x) /\ HttpInv(x) /\ k \in Impus
  BY KeyType DEF Http!Moves, HomesteadInv
<1>2. /\ cache \in [Impus -> Records \cup {None}] /\ cache' \in [Impus -> Http!Irss \cup {None}]
      /\ \A j \in Impus : cache'[j] # None => cache'[j].reg # "NOT_REGISTERED"
  BY DEF HomesteadInv, IndInv, TypeOK, Http!IndInv, Http!TypeOK, Http!StoredInv
<1> HIDE DEF x
<1>3. cache'[k] \in Records \cup {None}
  <2>1. CASE cache' = cache
    BY <1>1, <1>2, <2>1
  <2>2. CASE x.pc = "put" /\ Http!PutBy(x, cache[k], cache'[k]) /\ cache'[k] # None
    <3>1. CASE cache'[k] = cache[k]
      BY <1>1, <1>2, <3>1
    <3>2. CASE cache'[k] # cache[k]
      <4>1. cache'[k].doc \in Profiles /\ cache'[k].charging \in Charging
        BY <1>1, <2>2, <3>2 DEF Http!PutBy, HttpInv
      <4> QED BY <1>1, <1>2, <2>2, <4>1, RecordTypes
    <3> QED BY <3>1, <3>2
  <2> QED BY <1>1, <2>1, <2>2 DEF Http!Wrote
<1>4. \A j \in Impus : j # k => cache'[j] = cache[j]
  BY <1>1 DEF Http!Wrote
<1> QED BY <1>2, <1>3, <1>4

\* What Sprout hears.
LEMMA SproutAfter ==
  ASSUME HomesteadInv, NEW h \in HttpTasks, Http!Moves(h), SproutHears(h), Http!IndInv'
  PROVE  sprout' \in [Impus -> Bindings]
<1> DEFINE x == http[h]  y == http'[h]  k == Http!public_id(x)
<1>1. /\ Http!Moved(x, y, cache[k]) /\ HttpInv(x) /\ k \in Impus /\ x.pc # "gone"
      /\ Http!public_id(y) = k /\ y.req = x.req
  BY KeyType DEF Http!Moves, Http!Moved, HomesteadInv
<1>2. /\ x \in Http!TaskStates /\ y \in Http!TaskStates /\ Http!TaskInv(x) /\ Http!TaskInv(y)
      /\ sprout \in [Impus -> Bindings] /\ cache[k] \in Records \cup {None}
  BY <1>1 DEF HomesteadInv, IndInv, TypeOK, Http!IndInv, Http!TypeOK
<1> HIDE DEF x, y, k
<1>3. x.pc \in {"new", "lookup", "sar", "put", "del", "saved"}
  BY SMTT(30), <1>1, <1>2 DEF Http!TaskStates
<1>4. ASSUME Http!Says200(x, y), y.req.type = "REG" PROVE y.irs.doc \in Profiles
  <2>1. x.pc # "del" /\ x.pc # "new" /\ x.pc # "saved"
    BY <1>1, <1>2, <1>4 DEF Http!TaskInv, Http!is_deregistration_request, Http!Moved
  <2>2. CASE x.pc = "lookup"
    <3>1. cache[k] # None /\ y.irs = cache[k]
      BY <1>1, <1>4, <2>2 DEF Http!Moved
    <3> QED BY <1>2, <3>1, RecordTypes
  <2>3. CASE x.pc = "sar"
    <3>1. x.saa \in HssRecords /\ y.irs.doc = x.saa.doc
      BY <1>1, <1>4, <2>3 DEF Http!Moved, HttpInv
    <3> QED BY <3>1, RecordTypes
  <2>4. CASE x.pc = "put"
    BY <1>1, <2>4 DEF Http!Moved, Http!SameTask, HttpInv
  <2> QED BY <1>3, <2>1, <2>2, <2>3, <2>4
<1>5. y.impi \in Devices
  BY SMTT(30), <1>2 DEF Http!TaskStates, Http!Devices, Devices
<1>6. \/ sprout' = sprout
      \/ /\ Http!Says200(x, y) /\ y.req.type = "REG"
         /\ sprout' = [sprout EXCEPT ![k] = [impis |-> @.impis \cup {y.impi}, profile |-> y.irs.doc]]
      \/ sprout' = [sprout EXCEPT ![k] = [impis |-> {}, profile |-> None]]
  BY <1>1 DEF SproutHears, Http!Says200, x, y
<1>7. sprout[k].impis \in SUBSET Devices /\ [impis |-> {}, profile |-> None] \in Bindings
  BY <1>1, <1>2 DEF Bindings
<1>8. Http!Says200(x, y) /\ y.req.type = "REG" =>
        [impis |-> sprout[k].impis \cup {y.impi}, profile |-> y.irs.doc] \in Bindings
  BY <1>4, <1>5, <1>7 DEF Bindings
<1> QED BY <1>1, <1>2, <1>6, <1>7, <1>8

\* A step of Sprout's request keeps the invariant of the composition.
LEMMA HttpKeeps == ASSUME HomesteadInv, NEW h \in HttpTasks, HttpStep(h) PROVE HomesteadInv'
<1>1. /\ Http!IndInv' /\ task' = task /\ hss' = hss
      /\ HssAccepts(h) \/ (Http!Moves(h) /\ SproutHears(h))
      /\ "cacheFails" \in upsets' => "cacheFails" \in Upsets
  <2>1. "cacheFails" \in upsets => "cacheFails" \in Upsets
    BY DEF HomesteadInv, IndInv, TypeOK
  <2> QED BY <2>1, HttpMoves, HomesteadAssumption DEF HttpStep
<1>2. CASE HssAccepts(h)
  <2> DEFINE k == Http!public_id(http[h])
  <2>1. /\ http' = [http EXCEPT ![h] = [http[h] EXCEPT !.saa = hss[k]]] /\ http[h].pc = "sar"
        /\ UNCHANGED <<hssConn, cache, sprout>>
    BY <1>2 DEF HssAccepts, Http!HssAccept, Http!Become
  <2>2. http \in [HttpTasks -> Http!TaskStates] /\ hss[k] \in HssRecords
    BY KeyType DEF HomesteadInv, Http!IndInv, Http!TypeOK
  <2>3. /\ http'[h].saa = hss[k]
        /\ \A f \in {"pc", "req", "wildcard"} : http'[h][f] = http[h][f]
        /\ \A u \in HttpTasks : u # h => http'[u] = http[u]
    BY SMTT(30), <2>1, <2>2 DEF Http!TaskStates
  <2>4. HttpInv(http'[h])
    <3>1. HttpInv(http[h])
      BY DEF HomesteadInv
    <3> HIDE DEF k
    <3> QED BY SMTT(30), <2>1, <2>2, <2>3, <3>1 DEF HttpInv, Http!public_id, Http!wildcard_id, KeyOf
  <2>5. \A u \in HttpTasks : HttpInv(http'[u])
    BY <2>3, <2>4 DEF HomesteadInv
  <2>6. IndInv'
    BY <1>1, <2>1 DEF HomesteadInv, IndInv, TypeOK
  <2> QED BY <1>1, <2>1, <2>5, <2>6 DEF HomesteadInv
<1>3. CASE Http!Moves(h) /\ SproutHears(h)
  <2>1. cache' \in [Impus -> Records \cup {None}] /\ sprout' \in [Impus -> Bindings]
    BY <1>1, <1>3, HttpCacheAfter, SproutAfter
  <2>2. hssConn' = hssConn
    BY <1>3 DEF Http!Moves
  <2>3. \A u \in HttpTasks : HttpInv(http'[u])
    BY <1>3, HttpTasksAfter
  <2> QED BY <1>1, <2>1, <2>2, <2>3 DEF HomesteadInv, IndInv, TypeOK
<1> QED BY <1>1, <1>2, <1>3

\* The steps of the HSS's requests, and of time.
LEMMA DiameterKeeps == ASSUME HomesteadInv, NEW t \in Tasks, DiameterStep(t) PROVE HomesteadInv'
<1>1. IndInv' /\ UNCHANGED <<hssConn, http>>
  BY StepInd DEF HomesteadInv, DiameterStep
<1>2. assigned' \in [Impus -> Http!RegStates] /\ hss' \in [Impus -> HssRecords]
  <2> DEFINE r == task[t].req
  <2>1. assigned \in [Impus -> Http!RegStates] /\ hss \in [Impus -> HssRecords] /\ r \in Requests
    BY DEF HomesteadInv, Http!IndInv, Http!TypeOK, IndInv, TypeOK, TaskStates
  <2>2. UNCHANGED <<assigned, hss>> \/ HssSends(r)
    BY DEF DiameterStep
  <2> HIDE DEF r
  <2>3. ASSUME HssSends(r), r.kind # "PPR" PROVE assigned' \in [Impus -> Http!RegStates] /\ hss' = hss
    BY <2>1, <2>3 DEF HssSends, Http!RegStates
  <2>4. ASSUME HssSends(r), r.kind = "PPR" PROVE hss' \in [Impus -> HssRecords] /\ assigned' = assigned
    <3>1. r.profile \in Profiles \cup {None} /\ r.charging \in Charging \cup {None}
      BY <2>1, <2>4, RequestTypes
    <3>2. \A k \in Impus : hss[k].doc \in Profiles /\ hss[k].charging \in Charging
      BY <2>1 DEF HssRecords
    <3> QED BY SMTT(30), <2>4, <3>1, <3>2 DEF HssSends, HssRecords
  <2> QED BY <2>1, <2>2, <2>3, <2>4
<1>3. upsets' \subseteq Http!UpsetKinds \cup {"overlap"}
  <2>1. upsets' \subseteq upsets \cup {"overlap", "cacheFails"}
    BY DEF DiameterStep, Step, Run, OnGetRegSets, OnGetImsSub, OnGetFailure, OnDeregisterBindings,
       OnChangeAssociatedIdentities, OnDelete, OnDeleteFailure, OnSaveProgress, OnSaveFailure,
       OnSaveSuccess, Upset
  <2> QED BY <2>1 DEF HomesteadInv, Http!IndInv, Http!TypeOK, Http!UpsetKinds
<1>4. \A k \in Impus : /\ cache'[k] \in Http!Irss \cup {None}
                       /\ cache'[k] # None => cache'[k].reg # "NOT_REGISTERED"
  BY <1>1, RecordTypes DEF IndInv, TypeOK
<1>5. cache' \in [Impus -> Http!Irss \cup {None}]
  BY <1>1, <1>4 DEF IndInv, TypeOK
<1>6. Http!IndInv'
  BY <1>1, <1>2, <1>3, <1>4, <1>5 DEF HomesteadInv, Http!IndInv, Http!TypeOK, Http!StoredInv
<1> QED BY <1>1, <1>2, <1>6 DEF HomesteadInv

\* A record that ages or expires.
TimeStep(k) == (Http!Age(k) \/ Http!Expire(k)) /\ UNCHANGED <<sprout, task, hss>>

\* Time changes one record: it ages or goes.
LEMMA TimeCache ==
  ASSUME HomesteadInv, NEW k \in Impus, TimeStep(k)
  PROVE  /\ UNCHANGED <<hssConn, assigned, http, sprout, task, hss>>
         /\ upsets \subseteq upsets' /\ ("cacheFails" \in upsets' => "cacheFails" \in upsets)
         /\ \A j \in Impus : j # k => cache'[j] = cache[j]
         /\ cache[k] \in Records
         /\ cache'[k] # None => /\ cache'[k] \in Records
                                /\ \A f \in {"reg", "impis", "doc", "charging"} : cache'[k][f] = cache[k][f]
         /\ cache' \in [Impus -> Records \cup {None}]
<1>1. /\ UNCHANGED <<hssConn, assigned, http, sprout, task, hss>> /\ cache[k] # None
      /\ upsets \subseteq upsets' /\ ("cacheFails" \in upsets' => "cacheFails" \in upsets)
      /\ \/ cache' = [cache EXCEPT ![k].aged = TRUE]
         \/ cache' = [cache EXCEPT ![k] = None]
  BY DEF TimeStep, Http!Age, Http!Expire, Http!Cached, Http!Upset
<1>2. cache \in [Impus -> Records \cup {None}] /\ cache[k] \in Records
  BY <1>1 DEF HomesteadInv, IndInv, TypeOK
<1> DEFINE irs == [cache[k] EXCEPT !.aged = TRUE]
<1>3. irs \in Records /\ \A f \in {"reg", "impis", "doc", "charging"} : irs[f] = cache[k][f]
  BY <1>2 DEF Records
<1>4. cache' = [cache EXCEPT ![k] = irs] \/ cache' = [cache EXCEPT ![k] = None]
  BY <1>1
<1> HIDE DEF irs
<1>5. /\ \A j \in Impus : j # k => cache'[j] = cache[j]
      /\ cache'[k] \in {irs, None} /\ cache' \in [Impus -> Records \cup {None}]
  BY <1>2, <1>3, <1>4
<1> QED BY <1>1, <1>2, <1>3, <1>5

\* Time keeps the invariant of the composition.
LEMMA TimeKeeps == ASSUME HomesteadInv, NEW k \in Impus, TimeStep(k) PROVE HomesteadInv'
<1>1. /\ UNCHANGED <<hssConn, http, sprout, task, hss>>
      /\ ("cacheFails" \in upsets' => "cacheFails" \in upsets)
      /\ cache' \in [Impus -> Records \cup {None}]
  BY TimeCache
<1>2. Http!Rest
  <2>1. Http!IndInv /\ (Http!Age(k) \/ Http!Expire(k))
    BY DEF HomesteadInv, TimeStep
  <2> QED BY <2>1, HttpAssumption, Http!TimeStep
<1>3. Http!IndInv'
  BY <1>1, <1>2 DEF HomesteadInv, Http!IndInv, Http!TypeOK, Http!StoredInv, Http!Rest
<1> QED BY <1>1, <1>3 DEF HomesteadInv, IndInv, TypeOK

\* The initial states satisfy the invariant of the composition.
LEMMA HomesteadInitInv == HomesteadInit => HomesteadInv
<1> SUFFICES ASSUME HomesteadInit PROVE HomesteadInv
  OBVIOUS
<1>1. IndInv
  BY InitInd DEF HomesteadInit
<1>2. Http!IndInv
  <2>1. Http!Init
    BY DEF HomesteadInit, Init, Http!Init
  <2> QED BY <2>1, HttpAssumption, Http!InitInd
<1>3. hss \in [Impus -> HssRecords]
  BY HomesteadAssumption DEF HomesteadInit, HssRecords
<1>4. \A r \in HttpRequests : HttpInv(Http!NewTask(r))
  BY DEF HttpInv, Http!NewTask, Http!public_id, Http!wildcard_id, KeyOf
<1>5. \A h \in HttpTasks : HttpInv(http[h])
  BY <1>4 DEF HomesteadInit
<1> QED BY <1>1, <1>2, <1>3, <1>5 DEF HomesteadInv, HomesteadInit

\* The kinds of steps.
LEMMA HomesteadSteps ==
  ASSUME HomesteadNext
  PROVE  /\ History
         /\ \/ \E h \in HttpTasks : HttpStep(h)
            \/ \E t \in Tasks : DiameterStep(t)
            \/ \E k \in Impus : TimeStep(k)
BY DEF HomesteadNext, TimeStep

\* Every step of the composition keeps the invariant.
LEMMA HomesteadNextInv == HomesteadInv /\ [HomesteadNext]_allVars => HomesteadInv'
<1> SUFFICES ASSUME HomesteadInv, [HomesteadNext]_allVars PROVE HomesteadInv'
  OBVIOUS
<1>1. CASE UNCHANGED allVars
  BY <1>1 DEF allVars, vars, HomesteadInv, IndInv, TypeOK, Http!IndInv, Http!TypeOK, Http!StoredInv
<1> QED BY <1>1, HomesteadSteps, HttpKeeps, DiameterKeeps, TimeKeeps

\* The invariant holds in all behaviours of the composition.
LEMMA HomesteadInductive == HomesteadSpec => []HomesteadInv
BY HomesteadInitInv, HomesteadNextInv, PTL DEF HomesteadSpec

\* With requests of Sprout and of the HSS on one cache, neither kind leaves
\* anything there, or at Sprout, that the other does not expect.
THEOREM HomesteadTypes == HomesteadSpec => []HomesteadTypeOK
<1>1. HomesteadInv => HomesteadTypeOK
  BY DEF HomesteadInv, HomesteadTypeOK, IndInv, Http!IndInv
<1> QED BY <1>1, HomesteadInductive, PTL

\* The HSS gets exactly one answer to each request, whatever Sprout's requests
\* do to the cache meanwhile.
THEOREM HomesteadAnswered == HomesteadSpec => []OneAnswer
<1>1. HomesteadInv => OneAnswer
  BY DEF HomesteadInv, IndInv, TaskInv, OneAnswer
<1> QED BY <1>1, HomesteadInductive, PTL

\* Sprout comes first, also when Sprout's requests change the cache between the
\* steps of the HSS's.
LEMMA HomesteadActions ==
  HomesteadInv /\ [HomesteadNext]_allVars => [ToldFirst]_vars
<1> SUFFICES ASSUME HomesteadInv, [HomesteadNext]_allVars PROVE ToldFirst
  OBVIOUS
<1>1. CASE \E t \in Tasks : DiameterStep(t)
  BY <1>1, ToldFirstStep DEF HomesteadInv, DiameterStep
<1>2. CASE task' = task
  BY <1>2 DEF ToldFirst
<1>3. CASE \/ \E h \in HttpTasks : HttpStep(h)
           \/ \E k \in Impus : TimeStep(k)
           \/ UNCHANGED allVars
  BY <1>2, <1>3 DEF HttpStep, TimeStep, allVars, vars
<1> QED BY <1>1, <1>3, HomesteadSteps

\* The same as SproutFirst, for the HSS's requests among those of Sprout.
THEOREM HomesteadSproutFirst == HomesteadSpec => SproutComesFirst
BY HomesteadActions, HomesteadInductive, PTL DEF HomesteadSpec, SproutComesFirst, ToldFirst

-----------------------------------------------------------------------------
(* The HSS, the cache and Sprout.                                          *)

\* None of what AllAgree excludes has happened.
Safe ==
  /\ ~raced /\ upsets \subseteq {"ages", "expires"}
  /\ \A t \in Tasks : task[t].req.kind = "PPR" => ~Missed(task[t])

\* The private ID is one that the HSS has for the registration set.
Owned(i, k) == i \in Impis /\ k \in Subscriptions[i]

\* A request of Sprout that has the HSS's answer to a SAR, or is about to, is
\* right about what the HSS has.
HttpKnows(x) ==
  LET k == Http!public_id(x) IN
  /\ (x.saa # None \/ x.pc = "put") /\ Http!Assigns(x.sar) => assigned[k] = x.irs.reg
  /\ x.saa # None => x.saa = hss[k]
  /\ x.pc = "put" => x.irs.doc = hss[k].doc /\ x.irs.charging = hss[k].charging
  /\ x.pc \in {"sar", "put"} =>
       /\ \A i \in x.irs.impis : Owned(i, k)
       /\ x.req.type = "CALL" => ~Cached(k)

\* An RTR under way is a valid one.  A PPR has changed the HSS; once it has read
\* the cache it has found the subscription's set, which is still there.
HssKnows(x) ==
  /\ x.req.kind = "RTR" /\ x.pc = "lookup" => ValidRtr(x.req)
  /\ x.req.kind = "PPR" /\ x.pc \in {"lookup", "sprout", "put"} =>
       /\ x.req.profile # None => hss[x.req.default].doc = x.req.profile
       /\ x.req.charging # None =>
            \A k \in Subscriptions[x.req.impi] : hss[k].charging = x.req.charging
       /\ x.pc # "lookup" =>
            /\ SetsOf(x) = Subscriptions[x.req.impi] /\ \A k \in SetsOf(x) : Cached(k)
            /\ x.req.profile # None => x.req.default \in SetsOf(x)
       /\ x.pc = "sprout" => x.req.profile # None
       /\ x.req.profile # None \/ x.req.charging # None

\* Requests that are about to bring the cache, or Sprout, into line.
Pushes(x, k) == x.req.kind = "PPR" /\ x.req.profile # None /\ x.req.default = k
Charges(x, k) ==
  x.req.kind = "PPR" /\ x.req.charging # None /\ k \in Subscriptions[x.req.impi]
Ends(x, k) ==
  /\ x.req.kind = "RTR"
  /\ \/ x.pc = "lookup" /\ k \in Terminated(x.req)
     \/ x.pc \in {"sprout", "del"} /\ k \in SetsOf(x)
Settles(x, k) == Http!Settling(x) /\ Http!public_id(x) = k

\* What is true of a registration set at any time: where the cache or Sprout
\* differs from the HSS, a request is under way that will put it right.
Converges(k) ==
  /\ Cached(k) =>
       /\ \A i \in cache[k].impis : Owned(i, k)
       /\ \/ cache[k].doc = hss[k].doc
          \/ \E t \in Tasks : task[t].pc \in {"lookup", "sprout", "put"} /\ Pushes(task[t], k)
       /\ \/ cache[k].charging = hss[k].charging
          \/ \E t \in Tasks : task[t].pc \in {"lookup", "sprout", "put"} /\ Charges(task[t], k)
       /\ \/ cache[k].impis = {} \/ cache[k].reg = assigned[k]
          \/ \E h \in HttpTasks : Settles(http[h], k)
          \/ \E t \in Tasks : Ends(task[t], k)
  /\ \/ sprout[k].impis = {} \/ sprout[k].profile = hss[k].doc
     \/ \E t \in Tasks : task[t].pc \in {"lookup", "sprout"} /\ Pushes(task[t], k)

Understood ==
  /\ \A t, u \in Busy : t = u
  /\ \A h, g \in Http!Busy : h = g
  /\ \A h \in HttpTasks : HttpKnows(http[h])
  /\ \A t \in Tasks : HssKnows(task[t])
  /\ \A k \in Impus : Converges(k)

AgreeInv == Safe => Understood

-----------------------------------------------------------------------------
(* What AgreeInv says survives every step that does not hit a window.       *)


\* A PPR that has missed what it is about has missed it for good.
LEMMA MissKept ==
  ASSUME IndInv, NEW t \in Tasks, Step(t), NEW u \in Tasks,
         task[u].req.kind = "PPR", Missed(task[u])
  PROVE  task'[u].req = task[u].req /\ Missed(task'[u])
<1>1. task \in [Tasks -> TaskStates] /\ TaskInv(task[u])
  BY DEF IndInv, TypeOK
<1>2. CASE u # t
  <2>1. PICK y : Become(t, y)
    BY CacheChanges
  <2>2. task'[u] = task[u]
    BY <1>1, <1>2, <2>1 DEF Become
  <2> QED BY <2>2
<1>3. CASE u = t
  <2> DEFINE x == task[t]
  <2>1. x \in TaskStates /\ x.pc \in {"put", "saved", "gone"}
    BY <1>1, <1>3 DEF TaskInv, Missed
  <2>2. OnSaveProgress(t) \/ OnSaveFailure(t) \/ OnSaveSuccess(t)
    BY <2>1 DEF Step, Run, OnGetRegSets, OnGetImsSub, OnGetFailure, OnDeregisterBindings,
       OnChangeAssociatedIdentities, OnDelete, OnDeleteFailure
  <2>3. CASE OnSaveProgress(t)
    <3>1. x.pc = "put" /\ task'[t] = [Answer(x, "DIAMETER_REQ_SUCCESS") EXCEPT !.pc = "saved"]
      BY <1>1, <2>3 DEF OnSaveProgress, Become
    <3>2. task'[t].pc = "saved" /\ task'[t].req = x.req /\ task'[t].sets = x.sets
      BY <2>1, <3>1 DEF Answer, TaskStates
    <3>3. x.answer # "DIAMETER_REQ_FAILURE"
      BY SMTT(30), <1>1, <1>3, <3>1 DEF TaskInv
    <3> QED BY <1>3, <3>2, <3>3 DEF Missed, SetsOf
  <2>4. CASE OnSaveFailure(t)
    <3>1. task'[t] = Fail(x)
      BY <1>1, <2>4 DEF OnSaveFailure, Become
    <3>2. task'[t].req = x.req /\ task'[t].answer = "DIAMETER_REQ_FAILURE"
      BY <2>1, <3>1 DEF Fail, DeleteThis, Answer, TaskStates
    <3> QED BY <1>3, <3>2 DEF Missed
  <2>5. CASE OnSaveSuccess(t)
    <3>1. task'[t] = [x EXCEPT !.pc = "gone"]
      BY <1>1, <2>5 DEF OnSaveSuccess, Become, DeleteThis
    <3>2. /\ task'[t].pc = "gone" /\ task'[t].req = x.req /\ task'[t].sets = x.sets
          /\ task'[t].answer = x.answer
      BY <2>1, <3>1 DEF TaskStates
    <3> QED BY <1>3, <3>2 DEF Missed, SetsOf
  <2> QED BY <2>2, <2>3, <2>4, <2>5
<1> QED BY <1>2, <1>3

\* What AllAgree excludes stays: a state is safe if its successor is.
LEMMA SafeBefore == ASSUME HomesteadInv, HomesteadNext, Safe' PROVE Safe
<1>1. ~raced
  BY HomesteadSteps DEF History, Safe
<1>2. /\ upsets \subseteq upsets'
      /\ \A u \in Tasks : task[u].req.kind = "PPR" /\ Missed(task[u]) =>
           task'[u].req = task[u].req /\ Missed(task'[u])
  <2>1. CASE \E h \in HttpTasks : HttpStep(h)
    <3>1. PICK h \in HttpTasks : HttpStep(h)
      BY <2>1
    <3>2. task' = task
      BY <3>1 DEF HttpStep
    <3>3. HssAccepts(h) \/ Http!Moves(h)
      BY <3>1, HttpMoves
    <3> QED BY <3>2, <3>3 DEF HssAccepts, Http!HssAccept, Http!Moves
  <2>2. CASE \E t \in Tasks : DiameterStep(t)
    <3>1. PICK t \in Tasks : Step(t)
      BY <2>2 DEF DiameterStep
    <3>2. upsets \subseteq upsets'
      BY <3>1 DEF Step, Run, OnGetRegSets, OnGetImsSub, OnGetFailure, OnDeregisterBindings,
         OnChangeAssociatedIdentities, OnDelete, OnDeleteFailure, OnSaveProgress, OnSaveFailure,
         OnSaveSuccess, Upset
    <3> QED BY <3>1, <3>2, MissKept DEF HomesteadInv
  <2>3. CASE \E k \in Impus : TimeStep(k)
    BY <2>3, TimeCache
  <2> QED BY <2>1, <2>2, <2>3, HomesteadSteps
<1> QED BY <1>1, <1>2 DEF Safe

\* A task of the HSS that makes a step is the only one under way.
LEMMA DiameterAlone ==
  ASSUME HomesteadInv, Understood, Safe', NEW t \in Tasks, DiameterStep(t)
  PROVE  /\ \A u \in Tasks : u # t => task'[u] = task[u] /\ task[u].pc \in {"new", "gone"}
         /\ \A u, v \in Busy' : u = v
<1>1. /\ task \in [Tasks -> TaskStates] /\ Step(t) /\ "overlap" \notin upsets'
      /\ \A u, v \in Busy : u = v
  BY DEF HomesteadInv, IndInv, TypeOK, DiameterStep, Safe, Understood
<1>2. \A u \in Tasks : u # t => task'[u] = task[u]
  <2>1. PICK y : Become(t, y)
    BY <1>1, CacheChanges
  <2> QED BY <1>1, <2>1 DEF Become
<1>3. Busy \subseteq {t}
  <2>1. CASE Run(t)
    BY <1>1, <2>1 DEF Run
  <2>2. CASE t \in Busy
    BY <1>1, <2>2
  <2>3. Run(t) \/ task[t].pc \notin {"new", "gone"}
    BY <1>1 DEF Step, OnGetRegSets, OnGetImsSub, OnGetFailure, OnDeregisterBindings,
       OnChangeAssociatedIdentities, OnDelete, OnDeleteFailure, OnSaveProgress, OnSaveFailure,
       OnSaveSuccess
  <2> QED BY <2>1, <2>2, <2>3 DEF Busy
<1> QED BY SMTT(30), <1>2, <1>3 DEF Busy

\* Converges with one of the HSS's requests to wait for, if any.
ConvergesBy(k, x) ==
  /\ Cached(k) =>
       /\ \A i \in cache[k].impis : Owned(i, k)
       /\ cache[k].doc = hss[k].doc \/ (x.pc \in {"lookup", "sprout", "put"} /\ Pushes(x, k))
       /\ cache[k].charging = hss[k].charging \/ (x.pc \in {"lookup", "sprout", "put"} /\ Charges(x, k))
       /\ \/ cache[k].impis = {} \/ cache[k].reg = assigned[k]
          \/ \E h \in HttpTasks : Settles(http[h], k)
          \/ Ends(x, k)
  /\ \/ sprout[k].impis = {} \/ sprout[k].profile = hss[k].doc
     \/ x.pc \in {"lookup", "sprout"} /\ Pushes(x, k)

\* With one request of the HSS under way, that one puts right what differs.
LEMMA ConvergesAlone ==
  ASSUME Understood, NEW t \in Tasks, \A u \in Tasks : u # t => task[u].pc \in {"new", "gone"},
         NEW k \in Impus
  PROVE  ConvergesBy(k, task[t])
BY DEF Understood, Converges, ConvergesBy, Ends

\* What a step of the HSS's task t has to keep.
Keeps(t) ==
  /\ HssKnows(task[t])' /\ \A k \in Impus : ConvergesBy(k, task[t])'
  /\ \A k \in Impus : Cached(k)' => Cached(k)

\* What there is before it.
Before(t) ==
  /\ HomesteadInv /\ Safe' /\ UNCHANGED http
  /\ HssKnows(task[t]) /\ \A k \in Impus : ConvergesBy(k, task[t])

\* A step of the HSS's request keeps the understanding if it keeps its own part.
LEMMA DiameterAgrees ==
  ASSUME HomesteadInv, Understood, Safe', History, NEW t \in Tasks, DiameterStep(t),
         Keeps(t)
  PROVE  Understood'
<1>1. /\ \A u \in Tasks : u # t => task'[u] = task[u] /\ task[u].pc \in {"new", "gone"}
      /\ \A u, v \in Busy' : u = v
  BY DiameterAlone
<1>2. UNCHANGED http
  BY DEF DiameterStep
<1>3. \A h, g \in Http!Busy' : h = g
  BY <1>2 DEF Understood, Http!Busy
<1>4. ASSUME NEW u \in Tasks PROVE HssKnows(task[u])'
  BY <1>1 DEF Keeps, HssKnows
<1>5. ASSUME NEW k \in Impus PROVE Converges(k)'
  <2>1. ConvergesBy(k, task[t])'
    BY DEF Keeps
  <2> QED BY <2>1 DEF Converges, ConvergesBy
<1>6. ASSUME NEW h \in HttpTasks PROVE HttpKnows(http[h])'
  <2> DEFINE x == http[h]  k == Http!public_id(x)
  <2>1. HttpKnows(x) /\ http'[h] = x /\ k \in Impus /\ (Cached(k)' => Cached(k))
    BY <1>2, KeyType DEF Understood, Keeps
  <2>2. CASE task[t].pc = "new"
    <3>1. x.saa = None /\ x.pc # "put"
      <4>1. task'[t].pc # "new"
        <5>1. Run(t)
          BY <2>2 DEF DiameterStep, Step, OnGetRegSets, OnGetImsSub, OnGetFailure,
             OnDeregisterBindings, OnChangeAssociatedIdentities, OnDelete, OnDeleteFailure,
             OnSaveProgress, OnSaveFailure, OnSaveSuccess
        <5>2. task[t] \in TaskStates /\ task \in [Tasks -> TaskStates]
          BY DEF HomesteadInv, IndInv, TypeOK
        <5> QED BY SMTT(30), <5>1, <5>2, TaskOperators DEF Run, Become, TaskStates, Answers
      <4> QED BY <2>2, <4>1 DEF Safe, History, AnswerOutdated
    <3> QED BY <2>1, <3>1 DEF HttpKnows
  <2>3. CASE task[t].pc # "new"
    <3>1. UNCHANGED <<assigned, hss>>
      BY <2>3 DEF DiameterStep
    <3> HIDE DEF x
    <3> QED BY <2>1, <3>1 DEF HttpKnows, x
  <2> QED BY <2>2, <2>3
<1> QED BY <1>1, <1>3, <1>4, <1>5, <1>6 DEF Understood

\* One lemma for each step of an RTR or a PPR.
LEMMA TaskAfter ==
  ASSUME HomesteadInv, NEW t \in Tasks, NEW y, Become(t, y) PROVE task'[t] = y
BY DEF HomesteadInv, IndInv, TypeOK, Become

\* Starting an RTR or PPR, with the HSS's data changed, keeps its part.
LEMMA RunAgrees ==
  ASSUME NEW t \in Tasks, Before(t), Run(t), HssSends(task[t].req) PROVE Keeps(t)
<1> DEFINE x == task[t]  y == task'[t]  r == x.req
<1>1. /\ x \in TaskStates /\ r \in Requests /\ x.pc = "new" /\ x.answers = 0
      /\ UNCHANGED <<cache, sprout, http>>
  BY DEF Before, HomesteadInv, IndInv, TypeOK, TaskStates, TaskInv, Run
<1>2. \/ /\ y = [x EXCEPT !.pc = "lookup"]
         /\ IF r.kind = "RTR" THEN ValidRtr(r) ELSE r.profile # None \/ r.charging # None
      \/ y = Fail(x) /\ r.kind = "RTR" /\ ~ValidRtr(r)
      \/ /\ y = DeleteThis(Answer(x, "DIAMETER_REQ_SUCCESS")) /\ r.kind # "RTR"
         /\ r.profile = None /\ r.charging = None
  BY TaskAfter DEF Before, Run
<1>3. /\ y.req = r
      /\ \/ /\ y.pc = "lookup"
            /\ IF r.kind = "RTR" THEN ValidRtr(r) ELSE r.profile # None \/ r.charging # None
         \/ y.pc = "gone" /\ r.kind = "RTR" /\ ~ValidRtr(r)
         \/ y.pc = "gone" /\ r.kind = "PPR" /\ r.profile = None /\ r.charging = None
  BY <1>1, <1>2, RequestTypes DEF Fail, DeleteThis, Answer, TaskStates
<1>4. /\ assigned \in [Impus -> Http!RegStates] /\ hss \in [Impus -> HssRecords]
      /\ \A k \in Impus : ConvergesBy(k, x)
  BY DEF Before, HomesteadInv, Http!IndInv, Http!TypeOK
<1> HIDE DEF x, y
<1>5. CASE r.kind = "PPR"
  <2>1. r.default \in Impus /\ r.impi \in Impis /\ Subscriptions[r.impi] \subseteq Impus
    BY <1>1, <1>5, RequestTypes, HomesteadAssumption
  <2>2. /\ assigned' = assigned
        /\ \A k \in Impus :
             /\ hss'[k].doc = IF k = r.default /\ r.profile # None THEN r.profile ELSE hss[k].doc
             /\ hss'[k].charging = IF k \in Subscriptions[r.impi] /\ r.charging # None
                                   THEN r.charging ELSE hss[k].charging
    BY SMTT(30), <1>5 DEF HssSends, x
  <2>3. HssKnows(task[t])'
    BY <1>3, <1>5, <2>1, <2>2 DEF HssKnows, y
  <2>4. ASSUME NEW k \in Impus PROVE ConvergesBy(k, task[t])'
    <3>1. ConvergesBy(k, x)
      BY <1>4
    <3> HIDE DEF r
    <3> QED BY <1>1, <1>3, <1>5, <2>1, <2>2, <3>1 DEF ConvergesBy, Pushes, Charges, Ends, Cached, Settles, r, y
  <2> QED BY <1>1, <2>3, <2>4 DEF Keeps, Cached
<1>6. CASE r.kind = "RTR"
  <2>1. /\ hss' = hss
        /\ \A k \in Impus :
             assigned'[k] = IF ValidRtr(r) /\ k \in Terminated(r) THEN "NOT_REGISTERED" ELSE assigned[k]
    BY <1>6 DEF HssSends, x
  <2>2. HssKnows(task[t])'
    BY <1>3, <1>6 DEF HssKnows, y
  <2>3. ASSUME NEW k \in Impus PROVE ConvergesBy(k, task[t])'
    <3>1. ConvergesBy(k, x)
      BY <1>4
    <3> QED BY <1>1, <1>3, <1>6, <2>1, <3>1 DEF ConvergesBy, Pushes, Charges, Ends, Cached, Settles, y
  <2> QED BY <1>1, <2>2, <2>3 DEF Keeps, Cached
<1> QED BY <1>1, <1>5, <1>6, RequestTypes

\* An RTR for a registration set finds its record, if a private ID leads there.
LEMMA RtrFinds ==
  ASSUME OneSetEach, TypeOK, NEW r \in Requests, r.kind = "RTR", ValidRtr(r),
         NEW found \in IF RtrImpus(r) = {} THEN FirstOfEach(r.impis) ELSE FirstOf(r.impus),
         \A j \in Impus : Cached(j) => \A i \in cache[j].impis : Owned(i, j),
         NEW k \in Terminated(r), k \in Impus, Cached(k), cache[k].impis # {}
  PROVE  k \in found
<1>1. r.impis \in SUBSET Impis /\ r.impus \in SUBSET Impus
  BY RequestTypes
<1>2. CASE RtrImpus(r) # {}
  <2>1. k \in r.impus /\ found \in FirstOf(r.impus) /\ \A l \in r.impus : l = k
    BY <1>2 DEF Terminated, OneSetEach
  <2> QED BY <2>1 DEF FirstOf
<1>3. CASE RtrImpus(r) = {}
  <2>1. PICK i \in r.impis : k \in Subscriptions[i]
    BY <1>3 DEF Terminated
  <2>2. PICK j \in cache[k].impis : TRUE
    OBVIOUS
  <2>3. j \in Impis /\ k \in Subscriptions[j]
    BY DEF Owned
  <2>4. j \in r.impis
    <3>1. \A a \in r.impis, b \in Impis : Subscriptions[a] \cap Subscriptions[b] # {} => b \in r.impis
      BY <1>3 DEF OneSetEach
    <3> QED BY <2>1, <2>3, <3>1
  <2>5. ImpusOf(j) = {k}
    <3>1. \A l \in ImpusOf(j) : l \in Subscriptions[j]
      BY DEF ImpusOf, Owned
    <3>2. k \in ImpusOf(j)
      BY <2>2 DEF ImpusOf
    <3> QED BY SMTT(30), <2>3, <3>1, <3>2 DEF OneSetEach
  <2>6. PICK f \in [r.impis -> SUBSET Impus] :
          (\A a \in r.impis : f[a] \in FirstOf(ImpusOf(a))) /\ found = UNION {f[a] : a \in r.impis}
    BY <1>3 DEF FirstOfEach
  <2>7. f[j] = {k}
    <3>1. f[j] \in FirstOf({k})
      BY <2>4, <2>5, <2>6
    <3> QED BY <3>1 DEF FirstOf
  <2> QED BY <2>4, <2>6, <2>7
<1> QED BY <1>2, <1>3

\* OnGetRegSets keeps the task's part.
LEMMA OnGetRegSetsAgrees ==
  ASSUME OneSetEach, NEW t \in Tasks, Before(t), OnGetRegSets(t), UNCHANGED <<assigned, hss>>
  PROVE  Keeps(t)
<1> DEFINE x == task[t]  y == task'[t]
<1>1. /\ x \in TaskStates /\ x.req \in Requests /\ x.pc = "lookup" /\ x.req.kind = "RTR"
      /\ UNCHANGED <<cache, sprout, http>> /\ TypeOK /\ ValidRtr(x.req)
  BY DEF Before, HomesteadInv, IndInv, TypeOK, TaskStates, OnGetRegSets, HssKnows
<1>2. PICK found \in IF RtrImpus(x.req) = {} THEN FirstOfEach(x.req.impis) ELSE FirstOf(x.req.impus) :
        y = IF found = {} THEN DeleteThis(Answer(x, "DIAMETER_REQ_SUCCESS"))
            ELSE [x EXCEPT !.pc = "sprout", !.sets = Read(found)]
  BY TaskAfter DEF Before, OnGetRegSets
<1>3. \A k \in Impus : ConvergesBy(k, x)
  BY DEF Before
<1>4. \A k \in Impus : k \in Terminated(x.req) /\ Cached(k) /\ cache[k].impis # {} => k \in found
  BY <1>1, <1>2, <1>3, RtrFinds DEF ConvergesBy
<1>5. /\ y.req = x.req
      /\ (y.pc = "gone" /\ found = {}) \/ (y.pc = "sprout" /\ y.sets = Read(found))
  BY <1>1, <1>2 DEF DeleteThis, Answer, TaskStates
<1> HIDE DEF x, y
<1>6. HssKnows(task[t])'
  BY <1>1, <1>5 DEF HssKnows, y
<1>7. ASSUME NEW k \in Impus PROVE ConvergesBy(k, task[t])'
  <2>1. ConvergesBy(k, x) /\ (k \in Terminated(x.req) /\ Cached(k) /\ cache[k].impis # {} => k \in found)
    BY <1>3, <1>4
  <2>2. Cached(k) /\ k \in found => y.pc = "sprout" /\ k \in SetsOf(y)
    BY <1>5 DEF SetsOf, Read, Cached
  <2> QED BY <1>1, <1>5, <2>1, <2>2 DEF ConvergesBy, Pushes, Charges, Ends, Cached, Settles, SetsOf, y
<1> QED BY <1>1, <1>6, <1>7 DEF Keeps, Cached

\* OnGetImsSub keeps the task's part.
LEMMA OnGetImsSubAgrees ==
  ASSUME OneSetEach, NEW t \in Tasks, Before(t), OnGetImsSub(t), UNCHANGED <<assigned, hss>>
  PROVE  Keeps(t)
<1> DEFINE x == task[t]  y == task'[t]  r == x.req
           Sets(found) == [k \in Impus |-> IF k \in found THEN Pushed(r, k, cache[k]) ELSE None]
<1>1. /\ x \in TaskStates /\ r \in Requests /\ x.pc = "lookup" /\ r.kind = "PPR" /\ x.answers = 0
      /\ UNCHANGED <<cache, sprout, http>> /\ TypeOK /\ HssKnows(x) /\ r.impi \in Impis
  BY RequestTypes DEF Before, HomesteadInv, IndInv, TypeOK, TaskStates, OnGetImsSub, TaskInv
<1>2. y # Fail(x)
  <2>1. Fail(x).req = r /\ Fail(x).answer = "DIAMETER_REQ_FAILURE"
    BY <1>1 DEF Fail, DeleteThis, Answer, TaskStates
  <2> QED BY <1>1, <2>1 DEF Before, Safe, Missed
<1>3. PICK found \in FirstOf(ImpusOf(r.impi)) :
        /\ r.profile # None => r.default \in found
        /\ y = [x EXCEPT !.sets = Sets(found), !.pc = IF r.profile # None THEN "sprout" ELSE "put"]
  BY <1>2, TaskAfter DEF Before, OnGetImsSub
<1>4. /\ y.req = r /\ y.sets = Sets(found)
      /\ y.pc = IF r.profile # None THEN "sprout" ELSE "put"
  BY <1>1, <1>3 DEF TaskStates
<1>5. PICK s \in ImpusOf(r.impi) : found = {s}
  <2>1. found # {}
    <3> SUFFICES ASSUME found = {} PROVE FALSE
      OBVIOUS
    <3>1. r.profile = None /\ r.charging # None
      BY <1>1, <1>3 DEF HssKnows
    <3>2. y.pc = "put" /\ SetsOf(y) = {}
      BY <1>4, <3>1 DEF SetsOf
    <3> QED BY <1>1, <1>4, <3>1, <3>2 DEF Before, Safe, Missed, SetsOf
  <2> QED BY <1>3, <2>1 DEF FirstOf, ImpusOf
<1>6. s \in Impus /\ Cached(s) /\ s \in Subscriptions[r.impi]
  BY DEF ImpusOf, Before, ConvergesBy, Owned
<1>7. Subscriptions[r.impi] = {s}
  BY SMTT(30), <1>1, <1>6 DEF OneSetEach
<1>8. SetsOf(y) = {s}
  <2>1. Pushed(r, s, cache[s]) # None
    <3>1. cache[s] \in Records
      BY <1>1, <1>6 DEF TypeOK, Cached
    <3> QED BY SMTT(30), <1>1, <1>6, <3>1, PushedRecord, DiameterTasksAssumption
  <2> QED BY <1>4, <1>5, <1>6, <2>1 DEF SetsOf
<1> HIDE DEF x, y, r, Sets
<1>9. HssKnows(task[t])'
  <2>1. SetsOf(task[t])' = {s}
    BY <1>8 DEF SetsOf, y
  <2> QED BY <1>1, <1>3, <1>4, <1>5, <1>6, <1>7, <2>1 DEF HssKnows, Cached, y, r
<1>10. ASSUME NEW k \in Impus PROVE ConvergesBy(k, task[t])'
  <2>1. ConvergesBy(k, x)
    BY DEF Before, x
  <2> QED BY <1>1, <1>4, <2>1 DEF ConvergesBy, Pushes, Charges, Ends, Cached, Settles, y, r
<1> QED BY <1>1, <1>9, <1>10 DEF Keeps, Cached

\* OnDeregisterBindings keeps the task's part.
LEMMA OnDeregisterBindingsAgrees ==
  ASSUME NEW t \in Tasks, Before(t), OnDeregisterBindings(t), UNCHANGED <<assigned, hss>>
  PROVE  Keeps(t)
<1> DEFINE x == task[t]  y == task'[t]
<1>1. /\ x \in TaskStates /\ x.pc = "sprout" /\ x.req.kind = "RTR" /\ x.answers = 0
      /\ UNCHANGED <<cache, http>> /\ sprout \in [Impus -> Bindings]
  BY DEF Before, HomesteadInv, IndInv, TypeOK, OnDeregisterBindings, TaskInv
<1>2. PICK a \in Answers : y = [Answer(x, a) EXCEPT !.pc = "del", !.told = SetsOf(x)]
  BY TaskAfter DEF Before, OnDeregisterBindings, Answers
<1>3. y.req = x.req /\ y.pc = "del" /\ y.sets = x.sets
  BY <1>1, <1>2 DEF Answer, TaskStates
<1>4. \A k \in Impus : sprout'[k].profile = sprout[k].profile /\ (sprout[k].impis = {} => sprout'[k].impis = {})
  <2>1. sprout' = sprout \/ sprout' = Deregistered(x)
    BY DEF OnDeregisterBindings
  <2>2. \A k \in Impus : /\ Deregistered(x)[k].profile = sprout[k].profile
                         /\ sprout[k].impis = {} => Deregistered(x)[k].impis = {}
    BY <1>1 DEF Deregistered, Bindings
  <2> QED BY <2>1, <2>2
<1> HIDE DEF x, y
<1>5. HssKnows(task[t])'
  BY <1>1, <1>3 DEF HssKnows, y
<1>6. ASSUME NEW k \in Impus PROVE ConvergesBy(k, task[t])'
  <2>1. ConvergesBy(k, x)
    BY DEF Before, x
  <2> QED BY <1>1, <1>3, <1>4, <2>1 DEF ConvergesBy, Pushes, Charges, Ends, Cached, Settles, SetsOf, y
<1> QED BY <1>1, <1>5, <1>6 DEF Keeps, Cached

\* OnChange keeps the task's part.
LEMMA OnChangeAgrees ==
  ASSUME NEW t \in Tasks, Before(t), OnChangeAssociatedIdentities(t), UNCHANGED <<assigned, hss>>
  PROVE  Keeps(t)
<1> DEFINE x == task[t]  y == task'[t]  r == x.req
<1>1. /\ x \in TaskStates /\ r \in Requests /\ x.pc = "sprout" /\ r.kind = "PPR"
      /\ UNCHANGED <<cache, http>> /\ sprout \in [Impus -> Bindings] /\ HssKnows(x)
      /\ r.default \in Impus
  BY RequestTypes DEF Before, HomesteadInv, IndInv, TypeOK, TaskStates, OnChangeAssociatedIdentities
<1>2. y # Fail(x)
  <2>1. Fail(x).req = r /\ Fail(x).answer = "DIAMETER_REQ_FAILURE"
    BY <1>1 DEF Fail, DeleteThis, Answer, TaskStates
  <2> QED BY <1>1, <2>1 DEF Before, Safe, Missed
<1>3. y = [x EXCEPT !.pc = "put", !.told = {r.default}] /\ sprout' = Reprofiled(x)
  BY <1>2, TaskAfter DEF Before, OnChangeAssociatedIdentities
<1>4. y.req = r /\ y.pc = "put" /\ y.sets = x.sets
  BY <1>1, <1>3 DEF TaskStates
<1>5. \A k \in Impus : /\ sprout'[k].impis = sprout[k].impis
                       /\ sprout'[k].profile = IF k = r.default THEN r.profile ELSE sprout[k].profile
  BY <1>1, <1>3 DEF Reprofiled, Bindings
<1>6. r.profile # None
  BY <1>1 DEF HssKnows
<1> HIDE DEF x, y, r
<1>7. HssKnows(task[t])'
  BY <1>1, <1>4 DEF HssKnows, SetsOf, Cached, y, r
<1>8. ASSUME NEW k \in Impus PROVE ConvergesBy(k, task[t])'
  <2>1. ConvergesBy(k, x)
    BY DEF Before, x
  <2> QED BY <1>1, <1>4, <1>5, <1>6, <2>1
          DEF HssKnows, ConvergesBy, Pushes, Charges, Ends, Cached, Settles, y, r
<1> QED BY <1>1, <1>7, <1>8 DEF Keeps, Cached

\* OnDelete keeps the task's part.
LEMMA OnDeleteAgrees ==
  ASSUME NEW t \in Tasks, Before(t), OnDelete(t), UNCHANGED <<assigned, hss>> PROVE Keeps(t)
<1> DEFINE x == task[t]  y == task'[t]
<1>1. /\ x \in TaskStates /\ x.pc = "del" /\ x.req.kind = "RTR" /\ UNCHANGED <<sprout, http>>
      /\ cache \in [Impus -> Records \cup {None}]
  BY DEF Before, HomesteadInv, IndInv, TypeOK, OnDelete, TaskInv
<1>2. CacheDelete(SetsOf(x)) /\ y = DeleteThis(x)
  BY TaskAfter DEF Before, OnDelete, Upset, Safe
<1>3. y.req = x.req /\ y.pc = "gone"
  BY <1>1, <1>2 DEF DeleteThis, TaskStates
<1>4. \A k \in Impus : cache'[k] = IF k \in SetsOf(x) THEN None ELSE cache[k]
  BY <1>2 DEF CacheDelete
<1> HIDE DEF x, y
<1>5. HssKnows(task[t])'
  BY <1>3 DEF HssKnows, y
<1>6. ASSUME NEW k \in Impus PROVE ConvergesBy(k, task[t])' /\ (Cached(k)' => Cached(k))
  <2>1. ConvergesBy(k, x)
    BY DEF Before, x
  <2> QED BY <1>1, <1>3, <1>4, <2>1 DEF ConvergesBy, Pushes, Charges, Ends, Cached, Settles, y
<1> QED BY <1>5, <1>6 DEF Keeps

\* OnSaveProgress keeps the task's part.
LEMMA OnSaveProgressAgrees ==
  ASSUME NEW t \in Tasks, Before(t), OnSaveProgress(t), UNCHANGED <<assigned, hss>> PROVE Keeps(t)
<1> DEFINE x == task[t]  y == task'[t]  r == x.req
<1>1. /\ x \in TaskStates /\ r \in Requests /\ x.pc = "put" /\ r.kind = "PPR"
      /\ UNCHANGED <<sprout, http>> /\ cache \in [Impus -> Records \cup {None}] /\ HssKnows(x)
  BY DEF Before, HomesteadInv, IndInv, TypeOK, TaskStates, OnSaveProgress, TaskInv
<1>2. CachePut(x) /\ y = [Answer(x, "DIAMETER_REQ_SUCCESS") EXCEPT !.pc = "saved"]
  BY TaskAfter DEF Before, OnSaveProgress, Upset, Safe
<1>3. y.req = r /\ y.pc = "saved"
  BY <1>1, <1>2 DEF Answer, TaskStates
<1> HIDE DEF x, y, r
<1>4. HssKnows(task[t])'
  BY <1>1, <1>3 DEF HssKnows, y
<1>5. ASSUME NEW k \in Impus PROVE ConvergesBy(k, task[t])' /\ (Cached(k)' => Cached(k))
  <2>1. ConvergesBy(k, x)
    BY DEF Before, x
  <2>2. CASE k \notin SetsOf(x)
    <3>1. cache'[k] = cache[k]
      BY <1>2, <2>2 DEF CachePut
    <3>2. ~Pushes(x, k) /\ ~Charges(x, k)
      BY <1>1, <2>2 DEF HssKnows, Pushes, Charges, r
    <3> QED BY <1>1, <1>3, <2>1, <3>1, <3>2 DEF ConvergesBy, Ends, Cached, Settles, y, r
  <2>3. CASE k \in SetsOf(x)
    <3>1. Cached(k) /\ cache[k] \in Records /\ k \in Subscriptions[r.impi]
      BY <1>1, <2>3 DEF HssKnows, Cached, r
    <3>2. cache'[k] = Pushed(r, k, cache[k])
      BY <1>2, <2>3, <3>1 DEF CachePut, Put, r
    <3>3. /\ cache'[k].reg = cache[k].reg /\ cache'[k].impis = cache[k].impis
          /\ cache'[k].doc = IF k = r.default /\ r.profile # None THEN r.profile ELSE cache[k].doc
          /\ cache'[k].charging = IF r.charging # None THEN r.charging ELSE cache[k].charging
      BY SMTT(30), <1>1, <3>1, <3>2, PushedRecord
    <3>4. /\ cache[k].doc = hss[k].doc \/ Pushes(x, k)
          /\ cache[k].charging = hss[k].charging \/ Charges(x, k)
          /\ \A i \in cache[k].impis : Owned(i, k)
          /\ \/ cache[k].impis = {} \/ cache[k].reg = assigned[k]
             \/ \E h \in HttpTasks : Settles(http[h], k)
          /\ sprout[k].impis = {} \/ sprout[k].profile = hss[k].doc
      BY <1>1, <2>1, <3>1 DEF ConvergesBy, Ends, r
    <3>5. cache'[k].doc = hss[k].doc /\ cache'[k].charging = hss[k].charging
      BY <1>1, <3>1, <3>3, <3>4 DEF HssKnows, Pushes, Charges, r
    <3> QED BY <1>1, <3>1, <3>3, <3>4, <3>5 DEF ConvergesBy, Settles
  <2> QED BY <2>2, <2>3
<1> QED BY <1>4, <1>5 DEF Keeps

\* OnSaveSuccess keeps the task's part.
LEMMA OnSaveSuccessAgrees ==
  ASSUME NEW t \in Tasks, Before(t), OnSaveSuccess(t), UNCHANGED <<assigned, hss>> PROVE Keeps(t)
<1> DEFINE x == task[t]  y == task'[t]
<1>1. /\ x \in TaskStates /\ x.pc = "saved" /\ UNCHANGED <<cache, sprout, http>> /\ y = DeleteThis(x)
      /\ x.req.kind = "PPR"
  BY TaskAfter DEF Before, HomesteadInv, IndInv, TypeOK, OnSaveSuccess, TaskInv
<1>2. y.req = x.req /\ y.pc = "gone"
  BY <1>1 DEF DeleteThis, TaskStates
<1> HIDE DEF x, y
<1>3. HssKnows(task[t])'
  BY <1>2 DEF HssKnows, y
<1>4. ASSUME NEW k \in Impus PROVE ConvergesBy(k, task[t])'
  <2>1. ConvergesBy(k, x)
    BY DEF Before, x
  <2> QED BY <1>1, <1>2, <2>1 DEF ConvergesBy, Pushes, Charges, Ends, Cached, Settles, y
<1> QED BY <1>1, <1>3, <1>4 DEF Keeps, Cached

\* Failing cache operations are excluded.
LEMMA FailureUnsafe ==
  ASSUME NEW t \in Tasks, HomesteadInv, Safe'
  PROVE  ~OnGetFailure(t) /\ ~OnDeleteFailure(t) /\ ~OnSaveFailure(t)
BY DEF OnGetFailure, OnDeleteFailure, OnSaveFailure, Upset, Safe

\* Every step of the HSS's request keeps the understanding.
LEMMA DiameterUnderstood ==
  ASSUME OneSetEach, HomesteadInv, Understood, Safe', History, NEW t \in Tasks, DiameterStep(t)
  PROVE  Understood'
<1>1. Before(t)
  <2>1. \A u \in Tasks : u # t => task[u].pc \in {"new", "gone"}
    BY DiameterAlone
  <2>2. \A k \in Impus : ConvergesBy(k, task[t])
    BY <2>1, ConvergesAlone
  <2> QED BY <2>2 DEF Before, Understood, DiameterStep
<1>2. CASE task[t].pc = "new"
  <2>1. Run(t) /\ HssSends(task[t].req)
    BY <1>2 DEF DiameterStep, Step, OnGetRegSets, OnGetImsSub, OnGetFailure,
       OnDeregisterBindings, OnChangeAssociatedIdentities, OnDelete, OnDeleteFailure,
       OnSaveProgress, OnSaveFailure, OnSaveSuccess
  <2> QED BY <1>1, <2>1, RunAgrees, DiameterAgrees
<1>3. CASE task[t].pc # "new"
  <2>1. UNCHANGED <<assigned, hss>> /\ Step(t) /\ ~Run(t)
    BY <1>3 DEF DiameterStep, Run
  <2>2. \/ OnGetRegSets(t) \/ OnGetImsSub(t) \/ OnDeregisterBindings(t)
        \/ OnChangeAssociatedIdentities(t) \/ OnDelete(t) \/ OnSaveProgress(t) \/ OnSaveSuccess(t)
    BY <2>1, FailureUnsafe DEF Step
  <2>3. Keeps(t)
    BY <1>1, <2>1, <2>2, OnGetRegSetsAgrees, OnGetImsSubAgrees, OnDeregisterBindingsAgrees,
       OnChangeAgrees, OnDeleteAgrees, OnSaveProgressAgrees, OnSaveSuccessAgrees
  <2> QED BY <2>3, DiameterAgrees
<1> QED BY <1>2, <1>3

\* The other way round: Converges with one of Sprout's requests to wait for, and
\* with the requests of the HSS as they are.
Pushing(k) == \E t \in Tasks : task[t].pc \in {"lookup", "sprout", "put"} /\ Pushes(task[t], k)
Charged(k) == \E t \in Tasks : task[t].pc \in {"lookup", "sprout", "put"} /\ Charges(task[t], k)
Ending(k) == \E t \in Tasks : Ends(task[t], k)
Telling(k) == \E t \in Tasks : task[t].pc \in {"lookup", "sprout"} /\ Pushes(task[t], k)

CacheSettled(k, x) ==
  Cached(k) =>
    /\ \A i \in cache[k].impis : Owned(i, k)
    /\ cache[k].doc = hss[k].doc \/ Pushing(k)
    /\ cache[k].charging = hss[k].charging \/ Charged(k)
    /\ cache[k].impis = {} \/ cache[k].reg = assigned[k] \/ Settles(x, k) \/ Ending(k)
SproutSettled(k) == sprout[k].impis = {} \/ sprout[k].profile = hss[k].doc \/ Telling(k)

\* With one request of Sprout under way, that one settles what differs.
LEMMA SettledAlone ==
  ASSUME Understood, NEW h \in HttpTasks, \A u \in HttpTasks : u # h => http[u].pc \in {"new", "gone"},
         NEW k \in Impus
  PROVE  CacheSettled(k, http[h]) /\ SproutSettled(k)
BY DEF Understood, Converges, CacheSettled, SproutSettled, Pushing, Charged, Ending, Telling,
   Settles, Http!Settling

\* A request of Sprout that makes a step, or whose SAR the HSS accepts, is the
\* only one under way.
LEMMA HttpAlone ==
  ASSUME HomesteadInv, Understood, Safe', NEW h \in HttpTasks, HttpStep(h)
  PROVE  /\ \A u \in HttpTasks : u # h => http'[u] = http[u] /\ http[u].pc \in {"new", "gone"}
         /\ \A u, v \in Http!Busy' : u = v
         /\ http[h].pc # "gone"
<1>1. /\ http \in [HttpTasks -> Http!TaskStates] /\ "overlap" \notin upsets'
      /\ \A u, v \in Http!Busy : u = v
  BY DEF HomesteadInv, Http!IndInv, Http!TypeOK, Safe, Understood
<1>2. /\ \A u \in HttpTasks : u # h => http'[u] = http[u]
      /\ http[h].pc # "gone" /\ (http[h].pc = "new" => Http!Busy = {} \/ "overlap" \in upsets')
  <2>1. CASE HssAccepts(h)
    BY <1>1, <2>1 DEF HssAccepts, Http!HssAccept, Http!Become
  <2>2. CASE Http!Moves(h)
    BY <2>2 DEF Http!Moves
  <2> QED BY <2>1, <2>2, HttpMoves
<1>3. Http!Busy \subseteq {h}
  BY <1>1, <1>2 DEF Http!Busy
<1> QED BY <1>1, <1>2, <1>3 DEF Http!Busy

\* A step of Sprout's request keeps the understanding if it keeps its own part.
LEMMA HttpAgrees ==
  ASSUME HomesteadInv, Understood, Safe', History, NEW h \in HttpTasks, HttpStep(h), HomesteadInv',
         HttpKnows(http[h])',
         \A k \in Impus : CacheSettled(k, http[h])' /\ SproutSettled(k)'
  PROVE  Understood'
<1>1. /\ \A u \in HttpTasks : u # h => http'[u] = http[u] /\ http[u].pc \in {"new", "gone"}
      /\ \A u, v \in Http!Busy' : u = v
  BY HttpAlone
<1>2. UNCHANGED <<task, hss>>
  BY DEF HttpStep
<1>3. ASSUME NEW u \in HttpTasks PROVE HttpKnows(http[u])'
  <2>1. CASE u = h
    BY <2>1
  <2>2. CASE u # h
    <3>1. http'[u].pc \in {"new", "gone"} /\ HttpInv(http[u])'
      BY <1>1, <2>2 DEF HomesteadInv
    <3> QED BY <3>1 DEF HttpKnows, HttpInv
  <2> QED BY <2>1, <2>2
<1>4. ASSUME NEW t \in Tasks PROVE HssKnows(task[t])'
  <2>1. HssKnows(task[t]) /\ ~LateDelete
    BY DEF Understood, Safe, History
  <2> QED BY <1>2, <2>1 DEF HssKnows, LateDelete, Cached, SetsOf
<1>5. ASSUME NEW k \in Impus PROVE Converges(k)'
  BY DEF Converges, CacheSettled, SproutSettled, Pushing, Charged, Ending, Telling
<1>6. \A t, u \in Busy' : t = u
  BY <1>2 DEF Understood, Busy
<1> QED BY <1>1, <1>3, <1>4, <1>5, <1>6 DEF Understood

\* The HSS accepts a SAR.
LEMMA AcceptAgrees ==
  ASSUME HomesteadInv, Understood, Safe', NEW h \in HttpTasks, HssAccepts(h), UNCHANGED <<task, hss>>
  PROVE  /\ HttpKnows(http[h])'
         /\ \A k \in Impus : CacheSettled(k, http[h])' /\ SproutSettled(k)'
<1> DEFINE x == http[h]  y == http'[h]  k == Http!public_id(x)
<1>1. /\ x \in Http!TaskStates /\ Http!TaskInv(x) /\ x.pc = "sar" /\ x.saa = None /\ k \in Impus
      /\ UNCHANGED <<cache, sprout>> /\ y = [x EXCEPT !.saa = hss[k]] /\ assigned \in [Impus -> Http!RegStates]
      /\ hss[k] # None
  <2>1. hss[k] \in Http!Data /\ None \notin Http!Data /\ k \in Impus
    BY KeyType, RecordTypes, HttpAssumption DEF HomesteadInv, Http!RegDataConstants
  <2> QED BY <2>1 DEF HomesteadInv, Http!IndInv, Http!TypeOK, HssAccepts, Http!HssAccept, Http!Become
<1>2. \A j \in Impus : assigned'[j] = IF j = k THEN Http!AssignedBy(x.sar, assigned[k]) ELSE assigned[j]
  BY <1>1 DEF HssAccepts, Http!HssAccept
<1>3. /\ y.pc = "sar" /\ y.sar = x.sar /\ y.irs = x.irs /\ y.req = x.req /\ y.saa = hss[k]
      /\ Http!public_id(y) = k
  BY SMTT(30), <1>1 DEF Http!TaskStates, Http!public_id, Http!wildcard_id
<1>4. HttpKnows(x) /\ \A j \in Impus : CacheSettled(j, x) /\ SproutSettled(j)
  <2>1. \A u \in HttpTasks : u # h => http[u].pc \in {"new", "gone"}
    <3>1. HttpStep(h)
      BY DEF HttpStep
    <3> QED BY <3>1, HttpAlone
  <2> QED BY <2>1, SettledAlone DEF Understood
<1>5. Http!Assigns(x.sar) => assigned'[k] = x.irs.reg
  BY <1>1, <1>2, HttpAssumption, Http!AssignedState
<1>6. Http!is_auth_failure_request(x.sar) => assigned'[k] = assigned[k]
  <2>1. Http!is_auth_failure_request(x.sar) => Http!AssignedBy(x.sar, assigned[k]) = assigned[k]
    BY DEF Http!AssignedBy, Http!is_auth_failure_request, Http!is_deregistration_request
  <2> QED BY <1>1, <1>2, <2>1
<1> HIDE DEF x, y, k
<1>7. HttpKnows(http[h])'
  BY <1>1, <1>3, <1>4, <1>5 DEF HttpKnows, Cached, y, k
<1>8. \A j \in Impus : /\ (Pushing(j) <=> Pushing(j)') /\ (Charged(j) <=> Charged(j)')
                       /\ (Ending(j) <=> Ending(j)') /\ (Telling(j) <=> Telling(j)')
  BY DEF Pushing, Charged, Ending, Telling, Pushes, Charges, Ends, SetsOf
<1>9. ASSUME NEW j \in Impus PROVE CacheSettled(j, http[h])'
  <2>1. CacheSettled(j, x)
    BY <1>4
  <2>2. j = k /\ ~Http!is_auth_failure_request(x.sar) => Settles(http[h], j)'
    BY <1>1, <1>3 DEF Settles, Http!Settling, y
  <2>3. ~Settles(x, j)
    BY <1>1 DEF Settles, Http!Settling
  <2>4. assigned'[j] = assigned[j] \/ Settles(http[h], j)'
    BY <1>2, <1>6, <2>2
  <2> QED BY <1>1, <1>8, <2>1, <2>3, <2>4 DEF CacheSettled, Cached
<1>10. ASSUME NEW j \in Impus PROVE SproutSettled(j)'
  BY <1>1, <1>4, <1>8 DEF SproutSettled
<1> QED BY <1>7, <1>9, <1>10

\* What there is before a step of Sprout's request h.
BeforeMove(h) ==
  /\ HomesteadInv /\ Safe' /\ Http!Moves(h) /\ SproutHears(h) /\ UNCHANGED <<task, hss>>
  /\ HttpKnows(http[h]) /\ ~EarlyRead
  /\ \A k \in Impus : CacheSettled(k, http[h]) /\ SproutSettled(k)

\* What a step of Sprout's request does, and leaves to the HSS's request.
LEMMA MoveFacts ==
  ASSUME NEW h \in HttpTasks, BeforeMove(h)
  PROVE  LET x == http[h]  y == http'[h]  k == Http!public_id(x) IN
         /\ x \in Http!TaskStates /\ Http!TaskInv(x) /\ HttpInv(x) /\ k \in Impus
         /\ x.pc \in {"new", "lookup", "sar", "put", "del", "saved"}
         /\ Http!Moved(x, y, cache[k]) /\ Http!Wrote(x)
         /\ y.req = x.req /\ Http!public_id(y) = k
         /\ UNCHANGED assigned
         /\ \A j \in Impus : /\ (Pushing(j) <=> Pushing(j)') /\ (Charged(j) <=> Charged(j)')
                             /\ (Ending(j) <=> Ending(j)') /\ (Telling(j) <=> Telling(j)')
<1> DEFINE x == http[h]
<1>1. /\ x \in Http!TaskStates /\ Http!TaskInv(x) /\ HttpInv(x) /\ Http!public_id(x) \in Impus
  BY KeyType DEF BeforeMove, HomesteadInv, Http!IndInv, Http!TypeOK
<1>2. /\ x.pc # "gone" /\ Http!Moved(x, http'[h], cache[Http!public_id(x)]) /\ Http!Wrote(x)
      /\ UNCHANGED <<assigned, task>>
  BY DEF BeforeMove, Http!Moves
<1>3. \A j \in Impus : /\ (Pushing(j) <=> Pushing(j)') /\ (Charged(j) <=> Charged(j)')
                       /\ (Ending(j) <=> Ending(j)') /\ (Telling(j) <=> Telling(j)')
  BY <1>2 DEF Pushing, Charged, Ending, Telling, Pushes, Charges, Ends, SetsOf
<1>4. x.pc \in {"new", "lookup", "sar", "put", "del", "saved"}
  BY SMTT(30), <1>1, <1>2 DEF Http!TaskStates
<1> QED BY <1>1, <1>2, <1>3, <1>4 DEF Http!Moved

\* The request stays right about what the HSS has.
LEMMA MoveKnows ==
  ASSUME OneSetEach, NEW h \in HttpTasks, BeforeMove(h) PROVE HttpKnows(http[h])'
<1> DEFINE x == http[h]  y == http'[h]  k == Http!public_id(x)
<1>1. /\ x \in Http!TaskStates /\ HttpInv(x) /\ k \in Impus
      /\ x.pc \in {"new", "lookup", "sar", "put", "del", "saved"}
      /\ Http!Moved(x, y, cache[k]) /\ Http!Wrote(x) /\ y.req = x.req /\ Http!public_id(y) = k
      /\ UNCHANGED <<assigned, hss>>
  BY MoveFacts DEF BeforeMove
<1>2. HttpKnows(x) /\ CacheSettled(k, x)
  BY <1>1 DEF BeforeMove
<1>3. \A i : Http!Adds(x, i) => Owned(i, k)
  <2>1. x.req \in HttpRequests
    BY SMTT(30), <1>1 DEF Http!TaskStates
  <2>2. k = KeyOf(x.req)
    BY <1>1 DEF HttpInv
  <2>3. \A r \in HttpRequests : r.type = "REG" => Owned(r.impi, KeyOf(r)) /\ r.impi # None
    <3>1. None \notin Impis
      BY HttpAssumption DEF Http!RegDataConstants
    <3>2. \A r \in HttpRequests : r.type = "REG" => Owned(r.impi, KeyOf(r))
      BY DEF OneSetEach, Owned
    <3>3. \A i, j : Owned(i, j) => i # None
      BY SMTT(30), <3>1 DEF Owned
    <3> QED BY <3>2, <3>3
  <2> QED BY <2>1, <2>2, <2>3 DEF Http!Adds
<1>4. x.pc \notin {"put", "del"} => cache' = cache
  BY <1>1 DEF Http!Wrote
<1> HIDE DEF x, y, k
<1>5. x.pc # "sar" => x.saa = None
  BY <1>1 DEF HttpInv
<1>6. CASE x.pc \in {"new", "put", "del", "saved"}
  <2>1. y.pc \notin {"sar", "put"} /\ y.saa = None
    BY <1>1, <1>5, <1>6 DEF Http!Moved, Http!SameTask
  <2> QED BY <2>1 DEF HttpKnows, y
<1>7. CASE x.pc = "lookup"
  <2>1. /\ y.pc # "put" /\ y.saa = None /\ cache' = cache
        /\ y.pc = "sar" => /\ x.req.type = "CALL" => cache[k] = None
                           /\ \A i \in y.irs.impis : Owned(i, k)
    BY <1>1, <1>2, <1>3, <1>4, <1>5, <1>7 DEF Http!Moved, CacheSettled, Cached
  <2> QED BY <1>1, <2>1 DEF HttpKnows, Cached, y
<1>8. CASE x.pc = "sar"
  <2>1. /\ y.pc # "sar" /\ y.saa = None /\ y.sar = x.sar /\ cache' = cache
        /\ y.irs.reg = x.irs.reg /\ y.irs.impis = x.irs.impis
        /\ y.pc = "put" => x.saa # None /\ y.irs.doc = x.saa.doc /\ y.irs.charging = x.saa.charging
    BY <1>1, <1>4, <1>8 DEF Http!Moved
  <2> QED BY <1>1, <1>2, <1>8, <2>1 DEF HttpKnows, Cached, y, k
<1> QED BY <1>1, <1>6, <1>7, <1>8

\* The cache differs from the HSS only where the request will write.
LEMMA MoveSettles ==
  ASSUME OneSetEach, NEW h \in HttpTasks, BeforeMove(h), NEW k \in Impus, k = Http!public_id(http[h])
  PROVE  CacheSettled(k, http[h])'
<1> DEFINE x == http[h]  y == http'[h]
<1>1. /\ x \in Http!TaskStates /\ Http!TaskInv(x) /\ HttpInv(x) /\ k = Http!public_id(x)
      /\ x.pc \in {"new", "lookup", "sar", "put", "del", "saved"}
      /\ Http!Moved(x, y, cache[k]) /\ Http!Wrote(x) /\ Http!public_id(y) = k
      /\ UNCHANGED <<assigned, hss>>
      /\ (Pushing(k) <=> Pushing(k)') /\ (Charged(k) <=> Charged(k)') /\ (Ending(k) <=> Ending(k)')
  BY MoveFacts DEF BeforeMove
<1>2. HttpKnows(x) /\ CacheSettled(k, x) /\ "cacheFails" \notin upsets'
  BY <1>1 DEF BeforeMove, Safe
<1>3. x.pc = "sar" /\ x.saa # None => y.heard = "SUCCESS"
  BY DEF BeforeMove, Http!Moves, Safe
<1> HIDE DEF x, y
<1>4. CASE x.pc \in {"new", "lookup", "sar", "saved"}
  <2>1. cache' = cache
    BY <1>1, <1>4 DEF Http!Wrote
  <2>2. Settles(x, k) => Settles(http[h], k)'
    <3> SUFFICES ASSUME Settles(x, k) PROVE Http!Settling(y)
      BY <1>1 DEF Settles, y
    <3>1. x.pc = "sar" /\ x.saa # None /\ ~Http!is_auth_failure_request(x.sar) /\ y.heard = "SUCCESS"
      BY <1>3, <1>4 DEF Settles, Http!Settling
    <3>2. x.saa.doc.form = "good"
      BY <1>1, <3>1, RecordTypes DEF HttpInv, OneSetEach
    <3>3. Http!Assigns(x.sar) \/ Http!is_deregistration_request(x.req.type)
      BY <1>1, <3>1, HttpAssumption, Http!SarKinds
    <3> QED BY <1>1, <3>1, <3>2, <3>3 DEF Http!Moved, Http!Settling
  <2> QED BY <1>1, <1>2, <2>1, <2>2 DEF CacheSettled, Cached
<1>5. CASE x.pc = "put"
  <2>1. Http!PutBy(x, cache[k], cache'[k])
    BY <1>1, <1>2, <1>5 DEF Http!Wrote
  <2>2. x.req.type \in {"REG", "CALL"} /\ Http!Assigns(x.sar)
    <3>1. Http!Assigns(x.sar)
      BY <1>1, <1>5 DEF Http!TaskInv
    <3> QED BY <1>1, <1>5, <3>1, HttpAssumption, Http!AssignedState
  <2>3. /\ assigned[k] = x.irs.reg /\ x.irs.doc = hss[k].doc /\ x.irs.charging = hss[k].charging
        /\ \A i \in x.irs.impis : Owned(i, k)
        /\ x.req.type = "CALL" => cache[k] = None
    BY <1>1, <1>2, <1>5, <2>2 DEF HttpKnows, Cached
  <2>4. /\ cache'[k].reg = assigned[k] /\ cache'[k].doc = hss[k].doc
        /\ cache'[k].charging = hss[k].charging
        /\ \A i \in cache'[k].impis : Owned(i, k)
    BY <1>2, <2>1, <2>2, <2>3 DEF Http!PutBy, CacheSettled, Cached
  <2> QED BY <1>1, <2>4 DEF CacheSettled
<1>6. CASE x.pc = "del"
  <2>1. cache'[k] = None
    BY <1>1, <1>2, <1>6 DEF Http!Wrote
  <2> QED BY <1>1, <2>1 DEF CacheSettled, Cached
<1> QED BY <1>1, <1>4, <1>5, <1>6

\* It leaves the other subscribers as they are.
LEMMA MoveLeaves ==
  ASSUME NEW h \in HttpTasks, BeforeMove(h), NEW j \in Impus, j # Http!public_id(http[h])
  PROVE  CacheSettled(j, http[h])' /\ SproutSettled(j)'
<1> DEFINE x == http[h]  y == http'[h]  k == Http!public_id(x)
<1>1. /\ Http!Wrote(x) /\ Http!public_id(y) = k /\ k \in Impus /\ UNCHANGED <<assigned, hss>>
      /\ (Pushing(j) <=> Pushing(j)') /\ (Charged(j) <=> Charged(j)')
      /\ (Ending(j) <=> Ending(j)') /\ (Telling(j) <=> Telling(j)')
  BY MoveFacts DEF BeforeMove
<1>2. CacheSettled(j, x) /\ SproutSettled(j) /\ ~Settles(x, j) /\ sprout \in [Impus -> Bindings]
  BY DEF BeforeMove, Settles, HomesteadInv, IndInv, TypeOK
<1>3. cache'[j] = cache[j]
  BY <1>1 DEF Http!Wrote
<1>4. sprout'[j] = sprout[j]
  BY SMTT(30), <1>1, <1>2 DEF BeforeMove, SproutHears
<1> HIDE DEF x, y, k
<1> QED BY <1>1, <1>2, <1>3, <1>4 DEF CacheSettled, SproutSettled, Cached, y

\* The profile in its reply is the one Sprout is to have.
LEMMA MoveTells ==
  ASSUME NEW h \in HttpTasks, BeforeMove(h), NEW k \in Impus, k = Http!public_id(http[h])
  PROVE  SproutSettled(k)'
<1> DEFINE x == http[h]  y == http'[h]
<1>1. /\ Http!TaskInv(x) /\ HttpInv(x)
      /\ x.pc \in {"new", "lookup", "sar", "put", "del", "saved"}
      /\ Http!Moved(x, y, cache[k]) /\ Http!public_id(y) = k /\ y.req = x.req /\ hss' = hss
      /\ (Telling(k) <=> Telling(k)')
  BY MoveFacts DEF BeforeMove
<1>2. /\ HttpKnows(x) /\ CacheSettled(k, x) /\ SproutSettled(k) /\ ~EarlyRead /\ IndInv
      /\ k = Http!public_id(x) /\ sprout \in [Impus -> Bindings] /\ cache[k] \in Records \cup {None}
  BY DEF BeforeMove, HomesteadInv, IndInv, TypeOK
<1>3. \/ sprout'[k] = sprout[k] \/ sprout'[k].impis = {}
      \/ Http!Says200(x, y) /\ y.req.type = "REG" /\ sprout'[k].profile = y.irs.doc
  <2>1. \/ sprout' = sprout
        \/ /\ Http!Says200(x, y) /\ y.req.type = "REG"
           /\ sprout' = [sprout EXCEPT ![k] = [impis |-> @.impis \cup {y.impi}, profile |-> y.irs.doc]]
        \/ sprout' = [sprout EXCEPT ![k] = [impis |-> {}, profile |-> None]]
    BY <1>1 DEF BeforeMove, SproutHears, Http!Says200
  <2> QED BY SMTT(30), <1>2, <2>1
<1>4. ASSUME x.pc = "lookup", y.pc # "lookup", cache[k] # None, cache[k].doc # hss[k].doc PROVE Telling(k)
  <2>1. PICK t \in Tasks : task[t].pc \in {"lookup", "sprout", "put"} /\ Pushes(task[t], k)
    BY <1>2, <1>4 DEF CacheSettled, Cached, Pushing
  <2>2. task[t].pc # "put"
    <3> SUFFICES ASSUME task[t].pc = "put" PROVE FALSE
      OBVIOUS
    <3>1. k \in task[t].told
      BY <1>2, <2>1 DEF IndInv, TaskInv, Pushes
    <3> QED BY <1>2, <1>4, <2>1, <3>1 DEF EarlyRead
  <2> QED BY <2>1, <2>2 DEF Telling
<1> HIDE DEF x, y
<1>5. ASSUME Http!Says200(x, y), y.req.type = "REG" PROVE y.irs.doc = hss[k].doc \/ Telling(k)
  <2>1. x.pc # "del" /\ x.pc # "new" /\ x.pc # "saved"
    BY <1>1, <1>5 DEF Http!TaskInv, Http!is_deregistration_request, Http!Moved
  <2>2. CASE x.pc = "lookup"
    <3>1. cache[k] # None /\ y.irs = cache[k] /\ y.pc # "lookup"
      BY <1>1, <1>5, <2>2 DEF Http!Moved
    <3> QED BY <1>4, <2>2, <3>1
  <2>3. CASE x.pc = "sar"
    BY <1>1, <1>2, <1>5, <2>3 DEF Http!Moved, HttpKnows
  <2>4. CASE x.pc = "put"
    BY <1>1, <1>2, <2>4 DEF Http!Moved, Http!SameTask, HttpKnows
  <2> QED BY <1>1, <2>1, <2>2, <2>3, <2>4
<1> QED BY <1>1, <1>2, <1>3, <1>5 DEF SproutSettled

\* Every step of Sprout's request keeps the understanding.
LEMMA HttpUnderstood ==
  ASSUME OneSetEach, HomesteadInv, Understood, Safe', History, NEW h \in HttpTasks, HttpStep(h)
  PROVE  Understood'
<1>1. HomesteadInv' /\ UNCHANGED <<task, hss>>
  BY HttpKeeps DEF HttpStep
<1>2. HttpKnows(http[h])' /\ \A k \in Impus : CacheSettled(k, http[h])' /\ SproutSettled(k)'
  <2>1. CASE HssAccepts(h)
    BY <1>1, <2>1, AcceptAgrees
  <2>2. CASE Http!Moves(h) /\ SproutHears(h)
    <3>1. \A u \in HttpTasks : u # h => http[u].pc \in {"new", "gone"}
      BY HttpAlone
    <3>2. \A k \in Impus : CacheSettled(k, http[h]) /\ SproutSettled(k)
      BY <3>1, SettledAlone
    <3>3. BeforeMove(h)
      BY <1>1, <2>2, <3>2 DEF BeforeMove, Understood, Safe, History
    <3> QED BY <3>3, MoveKnows, MoveSettles, MoveLeaves, MoveTells
  <2> QED BY <2>1, <2>2, HttpMoves
<1> QED BY <1>1, <1>2, HttpAgrees

\* Records that age or go keep the understanding.
LEMMA TimeUnderstood ==
  ASSUME HomesteadInv, Understood, Safe', History, NEW k \in Impus, TimeStep(k) PROVE Understood'
<1>1. /\ UNCHANGED <<assigned, http, sprout, task, hss>>
      /\ \A j \in Impus : j # k => cache'[j] = cache[j]
      /\ cache[k] # None
      /\ cache'[k] # None =>
           \A f \in {"reg", "impis", "doc", "charging"} : cache'[k][f] = cache[k][f]
  BY TimeCache, DiameterTasksAssumption
<1>2. ~LateDelete
  BY DEF Safe, History
<1>3. \A j \in Impus : Cached(j)' => Cached(j)
  BY <1>1 DEF Cached
<1>4. ASSUME NEW h \in HttpTasks PROVE HttpKnows(http[h])'
  <2>1. HttpKnows(http[h]) /\ Http!public_id(http[h]) \in Impus
    BY KeyType DEF Understood
  <2> QED BY <1>1, <1>3, <2>1 DEF HttpKnows
<1>5. ASSUME NEW t \in Tasks PROVE HssKnows(task[t])'
  <2>1. HssKnows(task[t])
    BY DEF Understood
  <2> QED BY <1>1, <1>2, <2>1 DEF HssKnows, LateDelete, Cached, SetsOf
<1>6. ASSUME NEW j \in Impus PROVE Converges(j)'
  <2>1. Converges(j)
    BY DEF Understood
  <2>2. Cached(j)' => \A f \in {"reg", "impis", "doc", "charging"} : cache'[j][f] = cache[j][f]
    BY <1>1 DEF Cached
  <2>3. Cached(j)' => /\ cache'[j].reg = cache[j].reg /\ cache'[j].impis = cache[j].impis
                      /\ cache'[j].doc = cache[j].doc /\ cache'[j].charging = cache[j].charging
    BY <2>2
  <2> QED BY <1>1, <1>3, <2>1, <2>3
          DEF Converges, Pushes, Charges, Ends, Settles, SetsOf
<1> QED BY <1>1, <1>4, <1>5, <1>6 DEF Understood, Busy, Http!Busy

\* All agree in the initial states.
LEMMA InitUnderstood == ASSUME OneSetEach, HomesteadInit PROVE Understood
<1>1. /\ \A t \in Tasks : task[t].pc = "new"
      /\ \A h \in HttpTasks : http[h].pc = "new" /\ http[h].saa = None
  BY SMTT(30) DEF HomesteadInit, Init, NewTask, Http!NewTask
<1>2. ASSUME NEW k \in Impus PROVE Converges(k)
  <2>1. /\ cache \in Caches
        /\ sprout[k].impis = {} \/ (Cached(k) /\ sprout[k].profile = cache[k].doc)
    BY DEF HomesteadInit, Init
  <2>2. assigned = [j \in Impus |-> Http!IrsOf(j).reg] /\ hss = HssData
    BY DEF HomesteadInit
  <2>3. ASSUME Cached(k)
        PROVE  /\ hss[k].doc = cache[k].doc /\ hss[k].charging = cache[k].charging
               /\ assigned[k] = cache[k].reg
    <3>1. HssData[k] = [doc |-> cache[k].doc, charging |-> cache[k].charging]
      BY <2>1, <2>3, HomesteadAssumption DEF Cached
    <3>2. Http!IrsOf(k) = cache[k]
      BY <2>3 DEF Cached, Http!IrsOf, Http!Cached
    <3> QED BY SMTT(30), <2>2, <3>1, <3>2
  <2>4. Cached(k) => \A i \in cache[k].impis : Owned(i, k)
    BY <2>1 DEF OneSetEach, Cached, Owned
  <2> QED BY <2>1, <2>3, <2>4 DEF Converges
<1> QED BY <1>1, <1>2 DEF Understood, Busy, Http!Busy, HttpKnows, HssKnows

\* Every step keeps AgreeInv.
LEMMA AgreeNext ==
  ASSUME OneSetEach PROVE HomesteadInv /\ AgreeInv /\ [HomesteadNext]_allVars => AgreeInv'
<1> SUFFICES ASSUME HomesteadInv, AgreeInv, [HomesteadNext]_allVars, Safe' PROVE Understood'
  BY DEF AgreeInv
<1>1. CASE UNCHANGED allVars
  <2>1. UNCHANGED <<cache, sprout, task, assigned, http, hss>> /\ Safe
    BY <1>1 DEF allVars, vars, Safe
  <2>2. ASSUME NEW h \in HttpTasks, HttpKnows(http[h]) PROVE HttpKnows(http[h])'
    BY <2>1, <2>2 DEF HttpKnows, Cached
  <2>3. ASSUME NEW t \in Tasks, HssKnows(task[t]) PROVE HssKnows(task[t])'
    BY <2>1, <2>3 DEF HssKnows, Cached, SetsOf
  <2>4. ASSUME NEW k \in Impus, Converges(k) PROVE Converges(k)'
    BY <2>1, <2>4 DEF Converges, Cached, Pushes, Charges, Ends, Settles, SetsOf
  <2> QED BY <2>1, <2>2, <2>3, <2>4 DEF AgreeInv, Understood, Busy, Http!Busy
<1>2. CASE HomesteadNext
  <2>1. Understood
    BY <1>2, SafeBefore DEF AgreeInv
  <2> QED BY <1>2, <2>1, HomesteadSteps, HttpUnderstood, DiameterUnderstood, TimeUnderstood
<1> QED BY <1>1, <1>2

\* The HSS, the cache and Sprout agree whenever nothing is going on, for any number
\* of requests of both sides and any interleaving of them that avoids the windows
\* AllAgree names, provided that private IDs and registration sets are as
\* OneSetEach says.
THEOREM Agree == ASSUME OneSetEach PROVE HomesteadSpec => []AllAgree
<1>1. HomesteadInit => AgreeInv
  BY InitUnderstood DEF AgreeInv
<1>2. HomesteadInv /\ AgreeInv => AllAgree
  <2> SUFFICES ASSUME AgreeInv, Quiet, Safe, NEW k \in Impus, Cached(k), cache[k].impis # {}
               PROVE  /\ cache[k].reg = assigned[k]
                      /\ cache[k].doc = hss[k].doc /\ cache[k].charging = hss[k].charging
                      /\ sprout[k].impis # {} => sprout[k].profile = cache[k].doc
    BY DEF AllAgree, Safe
  <2>1. Converges(k)
    BY DEF AgreeInv, Understood
  <2>2. /\ \A t \in Tasks : task[t].pc \in {"new", "gone"}
        /\ \A h \in HttpTasks : http[h].pc \in {"new", "gone"}
    BY DEF Quiet, Busy, Http!Busy
  <2> QED BY <2>1, <2>2 DEF Converges, Ends, Settles, Http!Settling
<1> QED BY <1>1, <1>2, HomesteadInductive, AgreeNext, PTL DEF HomesteadSpec
=============================================================================
