----------------------- MODULE MemcachedCacheOutcomes ------------------------
(***************************************************************************)
(* What becomes of a registration. With one site, MemcachedCache           *)
(* implements SubscriberState, however its requests interleave. With any   *)
(* number of sites, what a handler has been told is done is in its own     *)
(* store, if requests are served one at a time, even if other store calls  *)
(* fail.                                                                   *)
(***************************************************************************)
EXTENDS MemcachedCacheSubscribers

\* Zenon proves most of the leaves below; the others name SMT.
USE ZenonT(60)

-----------------------------------------------------------------------------
(* The registration state a worker holds, with one site.                   *)

\* A worker is about to write a record it has not written yet.
Storing(x) == x.pc \in {"set", "getStored"}

\* With one site a request ends with its local store (Left).
LEMMA LeftEnds ==
  ASSUME SingleSite, NEW w \in Workers, NEW x \in WorkerStates, NEW ok
  PROVE  Left(w, x, ok).pc = "idle"
<1>1. ~(x.site < Len(Sites[w]))
  <2>1. x.site \in Nat \ {0} /\ Len(Sites[w]) = 1
    BY DEF SingleSite, WorkerStates
  <2> QED BY SMTT(30), <2>1
<1> QED BY <1>1 DEF Left, Released, Idle

\* After its record, and after each reference, a worker does not come back to
\* the record (RecordDone, ReferenceDone, Continued, NextKeys).
LEMMA MovesOn ==
  ASSUME SingleSite, NEW w \in Workers, NEW x \in WorkerStates
  PROVE  /\ \A a : ~Storing(Released(a))
         /\ \A ok : ~Storing(Left(w, x, ok))
         /\ ~Storing(RecordDone(w, x))
         /\ \A ref, st : ~Storing(ReferenceDone(w, x, ref, st))
         /\ \A ref, pc, m, st : Continued(x, ref, pc, m, st).pc = pc
         /\ \A keys : \A y \in NextKeys(x, keys) : ~Storing(y)
<1>1. \A a : ~Storing(Released(a))
  BY DEF Storing, Released, Idle
<1>2. \A ok : ~Storing(Left(w, x, ok))
  BY LeftEnds DEF Storing
<1>3. ~Storing(RecordDone(w, x))
  <2> DEFINE i == IF Deleting(x) THEN delete_all(x.irs) ELSE x.irs
  <2>1. i \in ImplicitRegSets
    BY DeleteAllType DEF WorkerStates
  <2>2. [x EXCEPT !.irs = i] \in WorkerStates
    BY <2>1 DEF WorkerStates
  <2>3. Left(w, [x EXCEPT !.irs = i], TRUE).pc = "idle"
    BY <2>2, LeftEnds
  <2>4. [x EXCEPT !.pc = "work", !.irs = i, !.todo = WorkList(i)].pc = "work"
    BY DEF WorkerStates
  <2> QED BY <2>3, <2>4 DEF RecordDone, Storing
<1>4. \A ref, st : ~Storing(ReferenceDone(w, x, ref, st))
  <2> TAKE ref, st
  <2>1. \A left, status :
          [x EXCEPT !.pc = "work", !.todo = left, !.item = NoItem,
                    !.mp = AbsentMapping, !.status = status].pc = "work"
    BY DEF WorkerStates
  <2>2. \/ ReferenceDone(w, x, ref, st).pc = "work"
        \/ \E ok : ReferenceDone(w, x, ref, st) = Left(w, x, ok)
    BY <2>1 DEF ReferenceDone
  <2> QED BY <1>2, <2>2 DEF Storing
<1>5. \A ref, pc, m, st : Continued(x, ref, pc, m, st).pc = pc
  BY DEF Continued, WorkerStates
<1>6. \A keys : \A y \in NextKeys(x, keys) : ~Storing(y)
  BY DEF NextKeys, Storing, Idle
<1> QED BY <1>1, <1>2, <1>3, <1>4, <1>5, <1>6

\* What a handler makes of the registration state (PutSets, NewSets): a set that
\* was read is registered, deleted, or left in the state it was in.
LEMMA PutSetsState ==
  ASSUME NEW r \in Requests, NEW i \in ImplicitRegSets, ~i.regSet
  PROVE  /\ \A j \in PutSets(r, i) :
              /\ j.existing = i.existing /\ j.store = i.store /\ j.cas = i.cas
              /\ \/ r.kind \in {"DEREG", "RTR"}
                 \/ j.reg = "REGISTERED"
                 \/ j.reg = i.reg /\ ~j.regSet
         /\ \A j \in NewSets(r) : ~j.existing
<1>1. \A j \in ImplicitRegSets, p \in Impis : \A xml, c :
        LET y == Registered(j, p, xml, c)  z == Unregistered(j, xml, c) IN
        /\ y.reg = "REGISTERED" /\ y.existing = j.existing /\ y.store = j.store
        /\ y.cas = j.cas /\ z.existing = j.existing
  <2> TAKE j \in ImplicitRegSets, p \in Impis
  <2> TAKE xml, c
  <2>1. \A b \in ImplicitRegSets : \A reg \in RegistrationStates :
          LET y == set_ttl(set_ims_sub_xml(set_charging_addresses(
                     set_reg_state(b, reg), c), xml)) IN
          /\ y.reg = reg /\ y.existing = b.existing /\ y.store = b.store /\ y.cas = b.cas
    <3> TAKE b \in ImplicitRegSets
    <3> TAKE reg \in RegistrationStates
    <3> DEFINE b1 == set_reg_state(b, reg)
               b2 == set_charging_addresses(b1, c)
               b3 == set_ims_sub_xml(b2, xml)
               b4 == set_ttl(b3)
               Same(y) == y.reg = reg /\ y.existing = b.existing /\ y.store = b.store
                          /\ y.cas = b.cas
    <3>1. Same(b1) /\ DOMAIN b1 = DOMAIN b
      BY DEF set_reg_state, ImplicitRegSets
    <3>2. Same(b2) /\ DOMAIN b2 = DOMAIN b
      <4> HIDE DEF b1
      <4> QED BY SMTT(30), <3>1 DEF set_charging_addresses
    <3>3. Same(b3) /\ DOMAIN b3 = DOMAIN b
      <4> HIDE DEF b2
      <4> QED BY SMTT(30), <3>2 DEF set_ims_sub_xml
    <3>4. Same(b4)
      <4> HIDE DEF b3
      <4> QED BY SMTT(30), <3>3 DEF set_ttl
    <3> QED BY <3>4
  <2>2. /\ add_associated_impi(j, p) \in ImplicitRegSets
        /\ add_associated_impi(j, p).existing = j.existing
        /\ add_associated_impi(j, p).store = j.store
        /\ add_associated_impi(j, p).cas = j.cas
    BY AddImpiType, AddImpiGrows DEF Grows
  <2> QED BY <2>1, <2>2 DEF Registered, Unregistered, RegistrationStates
<1>2. \A xml \in Profiles \cup {NoProfile}, c \in Charging :
        LET y == Pushed(i, xml, c) IN
        /\ y.existing = i.existing /\ y.store = i.store /\ y.cas = i.cas
        /\ y.reg = i.reg /\ ~y.regSet
  <2> TAKE xml \in Profiles \cup {NoProfile}, c \in Charging
  <2> DEFINE Same(y) == /\ y.existing = i.existing /\ y.store = i.store
                        /\ y.cas = i.cas /\ y.reg = i.reg /\ ~y.regSet
             j == IF xml = NoProfile THEN i ELSE set_ims_sub_xml(i, xml)
  <2>1. Same(j) /\ DOMAIN j = DOMAIN i
    BY DEF set_ims_sub_xml, ImplicitRegSets
  <2>2. Pushed(i, xml, c) =
          IF c = NoCharging THEN j ELSE set_charging_addresses(j, c)
    BY DEF Pushed
  <2> HIDE DEF j
  <2>3. Same(set_charging_addresses(j, c))
    BY SMTT(30), <2>1 DEF set_charging_addresses
  <2> QED BY <2>1, <2>2, <2>3
<1>3. r.impi \in Impis /\ r.kind \in Kinds
  BY CacheAssumption
<1>4. NewSet \in ImplicitRegSets /\ ~NewSet.existing
  BY NewSetType DEF NewSet
<1>5. /\ \A j \in PutSets(r, i) :
           /\ j.existing = i.existing /\ j.store = i.store /\ j.cas = i.cas
           /\ \/ r.kind \in {"DEREG", "RTR"}
              \/ j.reg = "REGISTERED"
              \/ j.reg = i.reg /\ ~j.regSet
  <2>1. CASE r.kind = "REG"
    BY SMTT(30), <1>1, <1>3, <2>1 DEF PutSets
  <2>2. CASE r.kind = "CALL"
    BY SMTT(30), <2>2 DEF PutSets
  <2>3. CASE r.kind \in {"DEREG", "RTR"}
    <3>1. \A j \in ImplicitRegSets :
            LET y == mark_as_refreshed(j) IN
            y.existing = j.existing /\ y.store = j.store /\ y.cas = j.cas
      BY DEF mark_as_refreshed, ImplicitRegSets
    <3> DEFINE z == set_reg_state(i, "NOT_REGISTERED")
    <3>2. /\ z \in ImplicitRegSets /\ z.existing = i.existing
          /\ z.store = i.store /\ z.cas = i.cas
      BY SetRegStateType DEF set_reg_state, ImplicitRegSets, RegistrationStates
    <3> HIDE DEF z
    <3>3. \A j \in PutSets(r, i) :
            j = mark_as_refreshed(z) \/ j = mark_as_refreshed(i)
      BY SMTT(30), <2>3 DEF PutSets, z
    <3> QED BY <2>3, <3>1, <3>2, <3>3
  <2>4. CASE r.kind = "PPR"
    <3>1. \A push \in Pushes(i) :
            push[1] \in Profiles \cup {NoProfile} /\ push[2] \in Charging
      BY DEF Pushes
    <3>2. \A j \in PutSets(r, i) : \E push \in Pushes(i) :
            j = Pushed(i, push[1], push[2])
      BY SMTT(30), <2>4 DEF PutSets
    <3> QED BY SMTT(30), <1>2, <3>1, <3>2
  <2> QED BY <1>3, <2>1, <2>2, <2>3, <2>4 DEF Kinds
<1>6. \A j \in NewSets(r) : ~j.existing
  <2>1. CASE r.kind = "REG"
    BY SMTT(30), <1>1, <1>3, <1>4, <2>1 DEF NewSets
  <2>2. CASE r.kind = "CALL"
    BY SMTT(30), <1>1, <1>3, <1>4, <2>2 DEF NewSets
  <2>3. CASE r.kind \in {"DEREG", "RTR", "PPR"}
    BY SMTT(30), <2>3 DEF NewSets
  <2> QED BY <1>3, <2>1, <2>2, <2>3 DEF Kinds
<1> QED BY <1>5, <1>6

\* Only a worker that is about to store something has to know anything.
LEMMA NotStoring ==
  ASSUME NEW w, NEW y, ~Storing(y)
  PROVE  StateKnown(w, y)
  BY DEF StateKnown, Storing

-----------------------------------------------------------------------------
(* With one site the registration state of a subscriber is never lost.     *)

\* What a worker holds after a read of its only store (Found, NotFound).
LEMMA ReadKnown ==
  ASSUME SingleSite, Inv, NEW w \in Workers, NEW x \in WorkerStates,
         x.req \in Requests
  PROVE  /\ \A y \in NotFound(w, x) : StateKnown(w, y)
         /\ \A y \in Found(w, x, LocalStore(w), impu[LocalStore(w)][x.read.key]) :
              StateKnown(w, y)
<1> DEFINE s == LocalStore(w)
           entry == impu[s][x.read.key]
<1>1. /\ TypeOK /\ CasInv /\ s \in Stores /\ s = Sites[w][1]
  BY WorkerSound DEF LocalStore
<1>2. x.read.key \in Keys
  BY DEF WorkerStates, Reads
<1>3. ASSUME NEW i \in ImplicitRegSets,
             i.existing =>
               /\ i.store = s
               /\ \/ x.req.kind \in {"DEREG", "RTR"}
                  \/ /\ KnowsState(i, s, i.cas)
                     /\ i.regSet => i.reg = "REGISTERED"
      PROVE  StateKnown(w, Entered(w, x, i, 1))
  <2> DEFINE y == Entered(w, x, i, 1)
  <2>1. /\ y.pc = FirstCall(x, i, s) /\ y.irs = i /\ y.cas = i.cas /\ y.site = 1
    BY <1>1 DEF Entered, Idle
  <2>2. FirstCall(x, i, s) \in {"set", "getStored"} =>
          i.existing /\ x.req.kind \notin {"DEREG", "RTR"}
    BY <1>3 DEF FirstCall, Deleting
  <2> HIDE DEF y
  <2>3. StateKnown(w, y)
    BY <1>1, <1>3, <2>1, <2>2 DEF StateKnown
  <2> QED BY <2>3 DEF y
<1>5. \A y \in NotFound(w, x) : StateKnown(w, y)
  <2>1. \A i \in NewSets(x.req) : i \in ImplicitRegSets /\ ~i.existing
    <3> DEFINE i0 == [NewSet EXCEPT !.regSet = FALSE]
    <3>1. i0 \in ImplicitRegSets /\ ~i0.regSet
      BY NewSetType DEF ImplicitRegSets
    <3> HIDE DEF i0
    <3>2. \A i \in NewSets(x.req) : ~i.existing
      BY <3>1, PutSetsState
    <3>3. Valid(NewSet)
      BY NewSetType, NewSetSourced DEF Valid
    <3> QED BY <3>2, <3>3, PutSetsValid DEF Valid
  <2>2. \A y \in Handled(w, x, NewSets(x.req)) : StateKnown(w, y)
    BY <1>3, <2>1, MovesOn, NotStoring DEF Handled
  <2> QED BY <2>2, MovesOn, NotStoring DEF NotFound
<1>6. entry \in ImpuEntries /\ StillCurrent(s, entry)
  BY <1>1, <1>2, ReadIsCurrent
<1>7. ASSUME is_default_impu(entry.rec)
      PROVE  \A y \in Handled(w, x, PutSets(x.req, FromImpu(x.read.key, s, entry))) :
               StateKnown(w, y)
  <2> DEFINE i == FromImpu(x.read.key, s, entry)
  <2>1. /\ i.store = s /\ i.cas = entry.cas /\ i.existing
        /\ i.reg = entry.rec.reg /\ ~i.regSet
    <3> HIDE DEF s, entry
    <3> QED BY SMTT(30), <1>1, <1>2, <1>6, <1>7, FromImpuSeesRecord
  <2>2. Valid(i)
    <3> HIDE DEF s, entry
    <3> QED BY <1>1, <1>2, <1>6, <1>7, FromImpuValid
  <2>3. entry.cas # 0
    BY <1>6, <1>7, EntryKinds
  <2>4. \A k \in Keys : impu[s][k].cas = entry.cas => k = x.read.key
    BY <1>1, <1>2, <2>3 DEF CasInv
  <2> HIDE DEF i
  <2>5. \A j \in PutSets(x.req, i) :
          /\ j \in ImplicitRegSets /\ j.store = s /\ j.cas = entry.cas
          /\ \/ x.req.kind \in {"DEREG", "RTR"}
             \/ j.reg = "REGISTERED"
             \/ j.reg = entry.rec.reg /\ ~j.regSet
    BY SMTT(30), <2>1, <2>2, PutSetsState, PutSetsValid DEF Valid
  <2>6. \A j \in PutSets(x.req, i) :
          \/ x.req.kind \in {"DEREG", "RTR"}
          \/ KnowsState(j, s, j.cas) /\ (j.regSet => j.reg = "REGISTERED")
    BY <2>4, <2>5 DEF KnowsState
  <2>7. \A j \in PutSets(x.req, i) : StateKnown(w, Entered(w, x, j, 1))
    BY <1>3, <2>5, <2>6
  <2> QED BY <2>7, MovesOn, NotStoring DEF Handled, i
<1>8. \A rd : ~Storing([x EXCEPT !.pc = "follow", !.read = rd])
  BY DEF Storing, WorkerStates
<1>9. \A y \in Found(w, x, s, entry) : StateKnown(w, y)
  <2> HIDE DEF s, entry
  <2> QED BY <1>5, <1>7, <1>8, NotStoring DEF Found
<1> QED BY <1>5, <1>9

\* perform_irs_impu_action, the read: the IRS then has the registration state of
\* the record that has the CAS value the write will use.
LEMMA GetStoredKnown ==
  ASSUME SingleSite, Inv, StateInv, NEW w \in Workers, GetStored(w)
  PROVE  \E y : Become(w, y) /\ StateKnown(w, y)
<1> DEFINE x == worker[w]
           s == Store(w)
           entry == impu[s][x.irs.default]
           pc == IF Deleting(x) THEN "delete" ELSE "set"
           Retry(i, c) == [x EXCEPT !.pc = pc, !.irs = i, !.cas = c]
           merged == update_from_impu_from_store(x.irs, entry.rec)
<1>1. /\ TypeOK /\ CasInv /\ x \in WorkerStates /\ x.irs \in ImplicitRegSets
      /\ x.pc = "getStored" /\ s = Sites[w][x.site] /\ s \in Stores
      /\ x.irs.default \in Keys
  BY WorkerSound DEF GetStored
<1>2. x.irs.regSet => x.irs.reg = "REGISTERED"
  BY <1>1 DEF StateInv, StateKnown
<1>3. \/ Become(w, RecordDone(w, x)) \/ Become(w, Left(w, x, FALSE))
      \/ Become(w, Retry(x.irs, 0))
      \/ IsPresent(entry) /\ is_default_impu(entry.rec)
         /\ Become(w, Retry(merged, entry.cas))
      \/ IsPresent(entry) /\ ~is_default_impu(entry.rec)
         /\ Become(w, Retry(x.irs, entry.cas))
  BY DEF GetStored
<1>4. entry \in ImpuEntries
  BY <1>1, SMTT(40) DEF TypeOK
<1> HIDE DEF x, s
<1>5. ASSUME NEW i, i.regSet => i.reg = "REGISTERED", NEW c, KnowsState(i, s, c)
      PROVE  StateKnown(w, Retry(i, c))
  <2> DEFINE y == Retry(i, c)
  <2>1. y.irs = i /\ y.cas = c /\ y.site = x.site
    BY <1>1 DEF WorkerStates
  <2> HIDE DEF y
  <2>2. StateKnown(w, y)
    BY <1>1, <1>5, <2>1 DEF StateKnown
  <2> QED BY <2>2 DEF y
<1> HIDE DEF Retry, entry, merged
<1>6. StateKnown(w, Retry(x.irs, 0))
  <2>1. \A k \in Keys : impu[s][k].cas = 0 => ~is_default_impu(impu[s][k].rec)
    <3>1. \A k \in Keys : impu[s][k] \in ImpuEntries
      BY <1>1 DEF TypeOK
    <3> QED BY <3>1, EntryKinds
  <2>2. KnowsState(x.irs, s, 0)
    BY <2>1 DEF KnowsState
  <2> QED BY <1>2, <1>5, <2>2
<1>7. ASSUME IsPresent(entry)
      PROVE  \A k \in Keys : impu[s][k].cas = entry.cas => impu[s][k] = entry
  BY <1>1, <1>7 DEF CasInv, IsPresent, entry
<1>8. ASSUME IsPresent(entry), is_default_impu(entry.rec)
      PROVE  StateKnown(w, Retry(merged, entry.cas))
  <2>1. /\ merged.regSet = x.irs.regSet
        /\ merged.reg = IF x.irs.regSet THEN x.irs.reg ELSE entry.rec.reg
    BY <1>1 DEF merged, update_from_impu_from_store, ImplicitRegSets
  <2>2. KnowsState(merged, s, entry.cas)
    BY <1>2, <1>7, <1>8, <2>1 DEF KnowsState
  <2> QED BY <1>2, <1>5, <2>1, <2>2
<1>9. ASSUME IsPresent(entry), ~is_default_impu(entry.rec)
      PROVE  StateKnown(w, Retry(x.irs, entry.cas))
  <2>1. KnowsState(x.irs, s, entry.cas)
    BY <1>7, <1>9 DEF KnowsState
  <2> QED BY <1>2, <1>5, <2>1
<1>10. StateKnown(w, RecordDone(w, x)) /\ StateKnown(w, Left(w, x, FALSE))
  BY <1>1, MovesOn, NotStoring
<1> QED
  BY <1>3, <1>6, <1>8, <1>9, <1>10

\* Reading, the other calls on the record, the references and the environment:
\* the worker knows the registration state it may replace next.
LEMMA OthersKnown ==
  ASSUME SingleSite, Inv, StateInv, NEW w \in Workers,
         \/ \E r \in Requests : Start(w, r)
         \/ Reading(w) \/ CreateImpu(w) \/ SetImpu(w) \/ DeleteImpu(w)
         \/ UpdatingReferences(w) \/ Crash(w)
  PROVE  \E y : Become(w, y) /\ StateKnown(w, y)
<1> DEFINE x == worker[w]
<1>1. /\ x \in WorkerStates
      /\ x.pc # "idle" => x.req \in Requests
      /\ StateKnown(w, x) /\ x.pc \in Pcs
  BY WorkerSound DEF StateInv, WorkerStates
<1>2. ASSUME NEW y, Become(w, y), ~Storing(y)
      PROVE  \E z : Become(w, z) /\ StateKnown(w, z)
  BY <1>2, NotStoring
<1> DEFINE Known == \E z : Become(w, z) /\ StateKnown(w, z)
<1>3. /\ \A a : Become(w, Released(a)) => Known
      /\ \A ok : Become(w, Left(w, x, ok)) => Known
      /\ Become(w, RecordDone(w, x)) => Known
      /\ \A ref, st : Become(w, ReferenceDone(w, x, ref, st)) => Known
      /\ \A keys : (\E y \in NextKeys(x, keys) : Become(w, y)) => Known
  <2> HIDE DEF x
  <2>1. /\ \A a : ~Storing(Released(a))
        /\ \A ok : ~Storing(Left(w, x, ok))
        /\ ~Storing(RecordDone(w, x))
        /\ \A ref, st : ~Storing(ReferenceDone(w, x, ref, st))
        /\ \A keys : \A y \in NextKeys(x, keys) : ~Storing(y)
    BY <1>1, MovesOn
  <2> QED BY <1>2, <2>1
<1>4. \A ref, pc, m, st :
        Become(w, Continued(x, ref, pc, m, st)) /\ pc \notin {"set", "getStored"}
          => Known
  <2> HIDE DEF x
  <2>1. \A ref, pc, m, st : Continued(x, ref, pc, m, st).pc = pc
    BY <1>1, MovesOn
  <2>2. \A ref, pc, m, st : pc \notin {"set", "getStored"} =>
          ~Storing(Continued(x, ref, pc, m, st))
    BY SMTT(30), <2>1 DEF Storing
  <2> QED BY <1>2, <2>2
<1> HIDE DEF Known
<1> SUFFICES Known
  BY DEF Known
<1>5. ASSUME NEW r \in Requests, Start(w, r)
      PROVE  Known
  <2>1. \A rd : /\ ~Storing([Idle EXCEPT !.pc = "getMapping", !.req = r])
               /\ ~Storing([Idle EXCEPT !.pc = "get", !.req = r, !.read = rd])
    BY DEF Storing, Idle
  <2> QED BY <1>2, <1>5, <2>1 DEF Start, Known
<1>6. CASE GetMapping(w)
  <2>1. x.pc = "getMapping"
    BY <1>6 DEF GetMapping
  <2>2. ~Storing([x EXCEPT !.site = @ + 1])
    BY <1>1, <2>1 DEF Storing, WorkerStates
  <2>3. \/ \E keys : \E y \in NextKeys(x, keys) : Become(w, y)
        \/ Become(w, [x EXCEPT !.site = @ + 1])
        \/ Become(w, Released("nothing"))
    BY <1>6 DEF GetMapping
  <2> QED BY <1>2, <1>3, <2>2, <2>3 DEF Known
<1>7. CASE GetImpu(w)
  <2>1. x.pc \in {"get", "follow"} /\ x.req \in Requests
    BY <1>1, <1>7 DEF GetImpu
  <2> DEFINE y == [x EXCEPT
               !.pc = IF @ = "get" THEN "getRemote" ELSE "followRemote",
               !.read.unread = RemoteStores(w)]
             entry == impu[LocalStore(w)][x.read.key]
  <2>2. ~Storing(y)
    BY <1>1, <2>1 DEF Storing, WorkerStates
  <2>3. \/ \E z \in Found(w, x, LocalStore(w), entry) : Become(w, z)
        \/ \E z \in NotFound(w, x) : Become(w, z)
        \/ Become(w, y)
        \/ Become(w, Released("nothing"))
    BY <1>7 DEF GetImpu
  <2>4. /\ \A z \in NotFound(w, x) : StateKnown(w, z)
        /\ \A z \in Found(w, x, LocalStore(w), entry) : StateKnown(w, z)
    <3> HIDE DEF x
    <3> QED BY <1>1, <2>1, ReadKnown
  <2> HIDE DEF y
  <2> QED BY <1>2, <1>3, <2>2, <2>3, <2>4 DEF Known
<1>8. ASSUME NEW s \in Stores, GetRemoteImpu(w, s)
      PROVE  Known
  <2>1. x.pc \in {"getRemote", "followRemote"} /\ x.req \in Requests
    BY <1>1, <1>8 DEF GetRemoteImpu
  <2>2. 2..Len(Sites[w]) = {}
    <3>1. Len(Sites[w]) = 1
      BY DEF SingleSite
    <3> QED BY SMTT(30), <3>1
  <2> DEFINE y(e) == [x EXCEPT !.read.answers[s] = e, !.read.unread = @ \ {s}]
  <2>3. \E e \in ImpuEntries : \/ Become(w, y(e))
                              \/ \E z \in NotFound(w, y(e)) : Become(w, z)
    <3>1. impu[s][x.read.key] \in ImpuEntries /\ AbsentImpu \in ImpuEntries
      <4>1. x.read.key \in Keys
        BY <1>1 DEF WorkerStates, Reads
      <4>2. impu[s][x.read.key] \in ImpuEntries
        BY <4>1, WorkerSound, ReadIsCurrent
      <4> QED BY <4>2 DEF ImpuEntries
    <3> QED BY <1>8, <2>2, <3>1 DEF GetRemoteImpu
  <2>4. ASSUME NEW e \in ImpuEntries
        PROVE  y(e) \in WorkerStates /\ y(e).req = x.req /\ y(e).pc = x.pc
    <3> DEFINE rd == [x.read EXCEPT !.answers[s] = e, !.unread = @ \ {s}]
    <3>1. rd \in Reads
      BY <1>1 DEF WorkerStates, Reads
    <3>2. y(e) = [x EXCEPT !.read = rd]
      BY <1>1 DEF WorkerStates, Reads
    <3> HIDE DEF rd
    <3> QED BY <1>1, <3>1, <3>2 DEF WorkerStates
  <2> HIDE DEF y
  <2>5. \A e \in ImpuEntries : ~Storing(y(e))
    BY <2>1, <2>4 DEF Storing
  <2>6. \A e \in ImpuEntries : \A z \in NotFound(w, y(e)) : StateKnown(w, z)
    BY <2>1, <2>4, ReadKnown
  <2> QED BY <1>2, <2>3, <2>5, <2>6 DEF Known
<1>9. CASE CreateImpu(w) \/ DeleteImpu(w)
  <2>1. Become(w, RecordDone(w, x)) \/ Become(w, Left(w, x, FALSE))
    BY <1>9 DEF CreateImpu, DeleteImpu
  <2> QED BY <1>3, <2>1
<1>10. CASE SetImpu(w)
  <2> DEFINE y == [x EXCEPT !.pc = "getStored"]
  <2>1. \/ Become(w, RecordDone(w, x)) \/ Become(w, Left(w, x, FALSE))
        \/ Become(w, y)
    BY <1>10 DEF SetImpu
  <2>2. x.pc = "set"
    BY <1>10 DEF SetImpu
  <2>3. y.pc = "getStored" /\ y.irs = x.irs
    BY <1>1 DEF WorkerStates
  <2> HIDE DEF y
  <2>4. StateKnown(w, y)
    BY <1>1, <2>2, <2>3 DEF StateKnown
  <2> QED BY <1>3, <2>1, <2>4 DEF Known
<1>11. CASE UpdatingReferences(w)
  <2> DEFINE y == [x EXCEPT !.pc = "mapAdd"]
             Went == \/ \E ref, st : Become(w, ReferenceDone(w, x, ref, st))
                     \/ \E pc \in LoopPcs : \E ref, m, st :
                          Become(w, Continued(x, ref, pc, m, st))
                     \/ Become(w, y)
  <2>1. ASSUME NEW ref, NEW m, NEW retry \in LoopPcs, SetMapping(w, ref, m, retry)
        PROVE  Went
    BY <2>1 DEF SetMapping
  <2>2. /\ {"assocDelete", "mapDelete", "mapDeleteGet", "mapRefresh",
            "mapRefreshGet", "mapAdd", "mapAddGet"} \subseteq LoopPcs
        /\ \A pc \in LoopPcs : pc \notin {"set", "getStored"}
    BY DEF LoopPcs, DeletePcs, RefreshPcs, AddPcs
  <2>3. ASSUME NEW ref, \/ GetAssociated(w, ref) \/ SetAssociated(w, ref)
                       \/ GetMappingToDelete(w, ref)
                       \/ GetMappingToRefresh(w, ref) \/ AddMapping(w, ref)
        PROVE  Went
    <3>1. CASE GetAssociated(w, ref) \/ SetAssociated(w, ref)
      BY <2>2, <3>1 DEF GetAssociated, SetAssociated
    <3>2. CASE GetMappingToDelete(w, ref) \/ GetMappingToRefresh(w, ref)
      BY <2>2, <3>2 DEF GetMappingToDelete, GetMappingToRefresh
    <3>3. CASE AddMapping(w, ref)
      BY <2>1, <2>2, <3>3 DEF AddMapping
    <3> QED BY <2>3, <3>1, <3>2, <3>3
  <2>4. ASSUME DeleteAssociated(w) \/ DeleteMapping(w) \/ RefreshMapping(w)
        PROVE  Went
    BY <2>1, <2>2, <2>4 DEF DeleteAssociated, DeleteMapping, RefreshMapping
  <2>5. ASSUME GetMappingToAdd(w)
        PROVE  Went
    BY <2>2, <2>5 DEF GetMappingToAdd
  <2>6. ~Storing(y)
    BY <1>1 DEF WorkerStates, Storing
  <2> HIDE DEF y
  <2>7. Went => Known
    <3>1. \A ref, st : Become(w, ReferenceDone(w, x, ref, st)) => Known
      BY <1>3
    <3>2. \A pc \in LoopPcs : \A ref, m, st :
            Become(w, Continued(x, ref, pc, m, st)) => Known
      BY <1>4, <2>2
    <3>3. Become(w, y) => Known
      BY <1>2, <2>6 DEF Known
    <3> QED BY <3>1, <3>2, <3>3
  <2> HIDE DEF Went
  <2> QED
    BY <1>11, <2>3, <2>4, <2>5, <2>7 DEF UpdatingReferences
<1>12. CASE Crash(w)
  BY <1>3, <1>12 DEF Crash
<1> QED
  BY <1>5, <1>6, <1>7, <1>8, <1>9, <1>10, <1>11, <1>12 DEF Reading

\* With one site every worker keeps knowing the state it may replace.
LEMMA StateStep ==
  ASSUME SingleSite, Inv, StateInv, [Next]_vars
  PROVE  StateInv'
<1>1. TypeOK /\ CasInv /\ \A v \in Workers : Sound(v, worker[v])
  BY WorkerSound DEF Inv, TypeInv, KnowledgeInv
<1>2. ASSUME StoreStep, \A v \in Workers : Sound(v, worker'[v]),
             \A v \in Workers : StateKnown(v, worker'[v])
      PROVE  StateInv'
  <2>1. ASSUME NEW v \in Workers
        PROVE  StateKnown(v, worker[v])'
    <3>1. PICK x : x = worker'[v]
      OBVIOUS
    <3>2. StateKnown(v, x)'
      BY <1>1, <1>2, <3>1, StoreStepState
    <3> QED BY <3>1, <3>2 DEF StateKnown
  <2> QED BY <2>1 DEF StateInv
<1>3. ASSUME NEW w \in Workers, StoreStep, \E y : Sound(w, y) /\ Become(w, y),
             \E y : Become(w, y) /\ StateKnown(w, y)
      PROVE  StateInv'
  <2>1. PICK y : Sound(w, y) /\ worker' = [worker EXCEPT ![w] = y]
    BY <1>3 DEF Become
  <2>2. \A v \in Workers : worker'[v] = IF v = w THEN y ELSE worker[v]
    BY <1>1, <2>1 DEF TypeOK
  <2>3. StateKnown(w, y)
    <3>1. PICK z : worker' = [worker EXCEPT ![w] = z] /\ StateKnown(w, z)
      BY <1>3 DEF Become
    <3>2. worker'[w] = z
      BY <1>1, <3>1 DEF TypeOK
    <3> QED BY <2>2, <3>1, <3>2
  <2>4. \A v \in Workers : StateKnown(v, worker[v])
    BY DEF StateInv
  <2> QED BY <1>1, <1>2, <1>3, <2>1, <2>2, <2>3, <2>4
<1>4. CASE StoreStep /\ UNCHANGED worker
  <2>1. \A v \in Workers : Sound(v, worker'[v]) /\ StateKnown(v, worker'[v])
    BY <1>1, <1>4 DEF StateInv
  <2> QED BY <1>2, <1>4, <2>1
<1>5. ASSUME NEW w \in Workers, Work(w) \/ Crash(w) \/ \E r \in Requests : Start(w, r)
      PROVE  StateInv'
  <2>1. \E y : Become(w, y) /\ StateKnown(w, y)
    BY <1>5, GetStoredKnown, OthersKnown DEF Work, WritingRecord
  <2>2. Moves(w)
    BY <1>5, WorkMoves, CrashMoves, StartMoves
  <2> QED BY <1>3, <2>1, <2>2 DEF Moves
<1>6. CASE \E s \in Stores, k \in Keys : ExpireImpu(s, k)
  BY <1>4, <1>6 DEF ExpireImpu, StoreStep
<1>7. CASE \E s \in Stores, p \in Impis : ExpireMapping(s, p)
  BY <1>4, <1>7 DEF ExpireMapping, StoreStep
<1>8. CASE UNCHANGED vars
  BY <1>4, <1>8 DEF vars, StoreStep
<1> QED
  BY <1>5, <1>6, <1>7, <1>8 DEF Next, Environment

-----------------------------------------------------------------------------
(* The refinement.                                                         *)

\* What a store call does to the registration states.
LEMMA RegStateSteps ==
  ASSUME TypeOK, NEW s \in Stores, NEW k \in Keys
  PROVE  /\ \A rec : WriteImpu(s, k, rec) =>
              RegState' = [RegState EXCEPT ![<<s, k>>] =
                             IF is_default_impu(rec) THEN rec.reg ELSE "NONE"]
         /\ RemoveImpu(s, k) => RegState' = [RegState EXCEPT ![<<s, k>>] = "NONE"]
         /\ RegState[<<s, k>>] = IF is_default_impu(impu[s][k].rec)
                                 THEN impu[s][k].rec.reg ELSE "NONE"
<1> DEFINE Of(rec) == IF is_default_impu(rec) THEN rec.reg ELSE "NONE"
<1>1. ASSUME NEW e, impu' = [impu EXCEPT ![s][k] = e]
      PROVE  RegState' = [RegState EXCEPT ![<<s, k>>] = Of(e.rec)]
  <2>1. \A t \in Stores, l \in Keys :
          impu'[t][l] = IF t = s /\ l = k THEN e ELSE impu[t][l]
    BY <1>1 DEF TypeOK
  <2> HIDE DEF Of
  <2>2. RegState = [x \in Stores \X Keys |-> Of(impu[x[1]][x[2]].rec)]
    BY DEF RegState, Of
  <2>3. RegState' = [x \in Stores \X Keys |-> Of(impu'[x[1]][x[2]].rec)]
    BY DEF RegState, Of
  <2>4. \A x \in Stores \X Keys :
          Of(impu'[x[1]][x[2]].rec) =
            IF x = <<s, k>> THEN Of(e.rec) ELSE Of(impu[x[1]][x[2]].rec)
    BY SMTT(30), <2>1
  <2> QED BY <2>2, <2>3, <2>4
<1>2. ASSUME NEW rec, WriteImpu(s, k, rec)
      PROVE  RegState' = [RegState EXCEPT ![<<s, k>>] = Of(rec)]
  <2> DEFINE e == [cas |-> lastCas[s] + 1, rec |-> rec]
  <2>1. impu' = [impu EXCEPT ![s][k] = e] /\ e.rec = rec
    BY <1>2 DEF WriteImpu
  <2> HIDE DEF e, Of
  <2> QED BY <1>1, <2>1
<1>3. ASSUME RemoveImpu(s, k)
      PROVE  RegState' = [RegState EXCEPT ![<<s, k>>] = "NONE"]
  <2>1. Of(AbsentImpu.rec) = "NONE"
    BY DEF AbsentImpu, NoRecord, is_default_impu
  <2> QED BY <1>1, <1>3, <2>1 DEF RemoveImpu
<1>4. RegState[<<s, k>>] = Of(impu[s][k].rec)
  BY DEF RegState
<1> QED BY <1>2, <1>3, <1>4

\* A record is written with the state of the IRS: REGISTERED, or else
\* UNREGISTERED (create_impu).
LEMMA WrittenState ==
  ASSUME NEW i \in ImplicitRegSets
  PROVE  /\ is_default_impu(create_impu(i))
         /\ create_impu(i).reg =
              IF i.reg = "REGISTERED" THEN "REGISTERED" ELSE "UNREGISTERED"
  BY DEF create_impu, Stored, DefaultImpu, is_default_impu

\* What a step can do to the records: nothing, remove one, make one associated,
\* create one (create_irs_impu) or replace one (set_impu).
LEMMA RecordSteps ==
  ASSUME Inv, Next
  PROVE  \/ UNCHANGED impu
         \/ \E s \in Stores, k \in Keys :
              \/ RemoveImpu(s, k)
              \/ \E d : WriteImpu(s, k, AssociatedImpu(d))
         \/ \E w \in Workers :
              LET i == worker[w].irs
                  e == impu[Store(w)][i.default]
              IN /\ WriteImpu(Store(w), i.default, create_impu(i))
                 /\ \/ create_impu(i).reg = "REGISTERED"
                    \/ SetAllowed(e, 0)
                    \/ worker[w].pc = "set" /\ SetAllowed(e, worker[w].cas)
<1> DEFINE Some(s, k) == \/ RemoveImpu(s, k)
                         \/ \E d : WriteImpu(s, k, AssociatedImpu(d))
           Put(w) == LET i == worker[w].irs
                         e == impu[Store(w)][i.default]
                     IN /\ WriteImpu(Store(w), i.default, create_impu(i))
                        /\ \/ create_impu(i).reg = "REGISTERED"
                           \/ SetAllowed(e, 0)
                           \/ worker[w].pc = "set" /\ SetAllowed(e, worker[w].cas)
           Goal == \/ UNCHANGED impu
                   \/ \E s \in Stores, k \in Keys : Some(s, k)
                   \/ \E w \in Workers : Put(w)
<1> SUFFICES Goal
  OBVIOUS
<1>1. ASSUME NEW w \in Workers, Work(w)
      PROVE  Goal
  <2>1. /\ Store(w) \in Stores /\ worker[w].irs.default \in Keys
        /\ Coherent(w, worker[w])
    BY WorkerSound
  <2>2. CASE Reading(w)
    BY <2>2 DEF Reading, GetMapping, GetImpu, GetRemoteImpu, stores
  <2>3. CASE CreateImpu(w)
    <3>1. Put(w) \/ UNCHANGED impu
      BY <2>3 DEF CreateImpu, stores
    <3> QED BY <3>1
  <2>4. CASE SetImpu(w)
    <3>1. Put(w) \/ UNCHANGED impu
      BY <2>4 DEF SetImpu, stores
    <3> QED BY <3>1
  <2>5. CASE DeleteImpu(w)
    <3>1. Some(Store(w), worker[w].irs.default) \/ UNCHANGED impu
      BY <2>5 DEF DeleteImpu, stores
    <3> HIDE DEF Some
    <3> QED BY <2>1, <3>1
  <2>6. CASE GetStored(w)
    BY <2>6 DEF GetStored, stores
  <2>7. CASE DeleteAssociated(w)
    <3>1. Some(Store(w), worker[w].item[2]) \/ UNCHANGED impu
      BY <2>7 DEF DeleteAssociated, stores
    <3>2. worker[w].item[2] \in Keys
      BY <2>1, <2>7 DEF DeleteAssociated, Coherent, Keys
    <3> HIDE DEF Some
    <3> QED BY <2>1, <3>1, <3>2
  <2>8. ASSUME NEW ref \in References, SetAssociated(w, ref)
        PROVE  Goal
    <3>1. Some(Store(w), ref[2]) \/ UNCHANGED impu
      BY <2>8 DEF SetAssociated, stores
    <3>2. ref[2] \in Keys
      BY <2>8, ReferenceKinds DEF SetAssociated, Keys
    <3> HIDE DEF Some
    <3> QED BY <2>1, <3>1, <3>2
  <2>9. ASSUME NEW ref, NEW m, NEW retry, SetMapping(w, ref, m, retry)
        PROVE  UNCHANGED impu
    BY <2>9 DEF SetMapping, WriteMapping, stores
  <2>10. ASSUME NEW ref \in References,
                \/ GetAssociated(w, ref) \/ GetMappingToDelete(w, ref)
                \/ GetMappingToRefresh(w, ref) \/ AddMapping(w, ref)
         PROVE  Goal
    BY <2>9, <2>10 DEF GetAssociated, GetMappingToDelete,
       GetMappingToRefresh, AddMapping, stores
  <2>11. CASE DeleteMapping(w) \/ RefreshMapping(w) \/ GetMappingToAdd(w)
    BY <2>9, <2>11 DEF DeleteMapping, RefreshMapping, GetMappingToAdd,
       RemoveMapping, stores
  <2> HIDE DEF Goal
  <2> QED
    BY <1>1, <2>2, <2>3, <2>4, <2>5, <2>6, <2>7, <2>8, <2>10, <2>11
       DEF Work, WritingRecord, UpdatingReferences
<1>2. ASSUME NEW w \in Workers, Crash(w) \/ \E r \in Requests : Start(w, r)
      PROVE  Goal
  BY <1>2 DEF Crash, Start, stores
<1>3. ASSUME NEW s \in Stores, NEW k \in Keys, ExpireImpu(s, k)
      PROVE  Goal
  BY <1>3 DEF ExpireImpu
<1>4. ASSUME NEW s \in Stores, NEW p \in Impis, ExpireMapping(s, p)
      PROVE  Goal
  BY <1>4 DEF ExpireMapping, RemoveMapping
<1> HIDE DEF Goal
<1> QED
  BY <1>1, <1>2, <1>3, <1>4 DEF Next, Environment

\* Each step is a step of SubscriberState, or leaves the states alone.
LEMMA SubscriberStep ==
  ASSUME Inv, StateInv, [Next]_vars
  PROVE  Subscriber!Next \/ UNCHANGED RegState
<1>1. TypeOK
  BY DEF Inv, TypeInv
<1>2. CASE UNCHANGED impu
  BY <1>2 DEF RegState
<1>3. ASSUME NEW s \in Stores, NEW k \in Keys,
             RemoveImpu(s, k) \/ \E d : WriteImpu(s, k, AssociatedImpu(d))
      PROVE  Subscriber!Next
  <2>1. RegState' = [RegState EXCEPT ![<<s, k>>] = "NONE"]
    <3>1. \A d : ~is_default_impu(AssociatedImpu(d))
      BY DEF AssociatedImpu, is_default_impu
    <3> QED BY <1>1, <1>3, <3>1, RegStateSteps
  <2> QED BY <2>1 DEF Subscriber!Next, Subscriber!Remove
<1>4. ASSUME NEW w \in Workers,
             WriteImpu(Store(w), worker[w].irs.default, create_impu(worker[w].irs)),
             LET e == impu[Store(w)][worker[w].irs.default] IN
             \/ create_impu(worker[w].irs).reg = "REGISTERED"
             \/ SetAllowed(e, 0)
             \/ worker[w].pc = "set" /\ SetAllowed(e, worker[w].cas)
      PROVE  Subscriber!Next \/ UNCHANGED RegState
  <2> DEFINE i == worker[w].irs
             s == Store(w)
             e == impu[s][i.default]
             x == <<s, i.default>>
             new == create_impu(i).reg
  <2>1. /\ i \in ImplicitRegSets /\ s \in Stores /\ i.default \in Keys
        /\ s = Sites[w][worker[w].site]
    BY WorkerSound
  <2>2. /\ is_default_impu(create_impu(i))
        /\ new = IF i.reg = "REGISTERED" THEN "REGISTERED" ELSE "UNREGISTERED"
    BY <2>1, WrittenState
  <2>3. e \in ImpuEntries
    BY <1>1, <2>1 DEF TypeOK
  <2>4. worker[w].pc = "set" => KnowsState(i, s, worker[w].cas)
    BY <2>1 DEF StateInv, StateKnown
  <2> HIDE DEF i, s
  <2>5. RegState' = [RegState EXCEPT ![x] = new]
    <3>1. WriteImpu(s, i.default, create_impu(i))
      BY <1>4 DEF i, s
    <3> QED BY <1>1, <2>1, <2>2, <3>1, RegStateSteps
  <2>6. RegState[x] = IF is_default_impu(e.rec) THEN e.rec.reg ELSE "NONE"
    BY <1>1, <2>1, RegStateSteps
  <2>7. x \in Stores \X Keys /\ RegState = [z \in Stores \X Keys |-> RegState[z]]
    BY <2>1 DEF RegState
  <2>8. is_default_impu(e.rec) => e.rec.reg \in {"REGISTERED", "UNREGISTERED"}
    BY <2>3, EntryKinds DEF DefaultImpus
  <2>9. CASE new = "REGISTERED"
    BY <2>5, <2>7, <2>9 DEF Subscriber!Next, Subscriber!Register
  <2>10. CASE new # "REGISTERED"
    <3>1. i.reg # "REGISTERED" /\ new = "UNREGISTERED"
      BY <2>2, <2>10
    <3>2. is_default_impu(e.rec) => e.rec.reg # "REGISTERED"
      <4>1. CASE SetAllowed(e, 0)
        BY <2>3, <4>1, EntryKinds DEF SetAllowed
      <4>2. CASE worker[w].pc = "set" /\ SetAllowed(e, worker[w].cas)
        BY <2>1, <2>4, <3>1, <4>2 DEF KnowsState, SetAllowed
      <4> QED BY <1>4, <2>10, <4>1, <4>2 DEF i, s
    <3>3. CASE ~is_default_impu(e.rec)
      <4>1. RegState[x] = "NONE"
        BY <2>6, <3>3
      <4> QED BY <2>5, <2>7, <3>1, <4>1 DEF Subscriber!Next, Subscriber!Call
    <3>4. CASE is_default_impu(e.rec)
      <4>1. RegState[x] = new
        BY <2>6, <2>8, <3>1, <3>2, <3>4
      <4> HIDE DEF x, new
      <4> QED BY <2>5, <2>7, <4>1
    <3> QED BY <3>3, <3>4
  <2> QED BY <2>9, <2>10
<1>5. CASE UNCHANGED vars
  BY <1>2, <1>5 DEF vars, stores
<1> QED
  BY <1>2, <1>3, <1>4, <1>5, RecordSteps

\* With one site a worker that may replace a record knows its state, whatever the
\* other workers have done since it read or merged it (perform_irs_impu_action,
\* update_from_impu_from_store).
THEOREM StateHolds ==
  ASSUME SingleSite
  PROVE  Spec => []StateInv
<1>1. Init => StateInv
  BY SMTT(30) DEF Init, StateInv, StateKnown, Idle
<1>2. Inv /\ StateInv /\ [Next]_vars => StateInv'
  BY StateStep
<1> QED
  BY <1>1, <1>2, InvHolds, PTL DEF Spec

\* With one site the cache implements SubscriberState, for any number of
\* workers, identities, documents and requests, and whatever fails, expires or
\* crashes: a registration always takes effect, a call to an unregistered
\* subscriber is recorded only if nothing is, and no other update changes the
\* state (create_irs_impu, update_from_impu_from_store).
THEOREM RegistrationKept ==
  ASSUME SingleSite
  PROVE  Spec => ImplementsSubscriberState
<1>1. Init => Subscriber!Init
  BY SMTT(30) DEF Init, Subscriber!Init, RegState, AbsentImpu, NoRecord, is_default_impu
<1>2. Inv /\ StateInv /\ [Next]_vars => [Subscriber!Next]_RegState
  BY SubscriberStep
<1> QED
  BY <1>1, <1>2, InvHolds, StateHolds, PTL
     DEF Spec, ImplementsSubscriberState, Subscriber!Spec

\* So with one site no step turns a REGISTERED record into an UNREGISTERED one
\* ("we don't want to overwrite it with the UNREGISTERED data"); with several
\* sites it can.
THEOREM NoDowngrade ==
  ASSUME SingleSite
  PROVE  Spec => NeverDowngraded
<1> DEFINE A == \A x \in Stores \X Keys :
                  RegState[x] = "REGISTERED" => RegState'[x] # "UNREGISTERED"
<1>1. Inv /\ StateInv /\ [Next]_vars => [A]_vars
  <2> SUFFICES ASSUME Inv, StateInv, [Next]_vars PROVE A
    OBVIOUS
  <2>1. RegState \in [Stores \X Keys -> {RegState[x] : x \in Stores \X Keys}]
    BY DEF RegState
  <2>2. CASE UNCHANGED RegState
    BY <2>2
  <2>3. CASE Subscriber!Next
    BY <2>1, <2>3 DEF Subscriber!Next, Subscriber!Register, Subscriber!Call,
       Subscriber!Remove
  <2> QED BY <2>2, <2>3, SubscriberStep
<1> QED
  BY <1>1, InvHolds, StateHolds, PTL DEF Spec, NeverDowngraded

-----------------------------------------------------------------------------
(* The local store has what the handler was told.                          *)

\* The store of a worker that is not its first one is not its own site's.
LEMMA LocalFirst ==
  ASSUME StoresDiffer, NEW w \in Workers
  PROVE  /\ \A n \in Nat \ {0} : n <= Len(Sites[w]) /\ Sites[w][n] = LocalStore(w) => n = 1
         /\ LocalStore(w) \notin RemoteStores(w)
<1>1. Len(Sites[w]) \in Nat \ {0}
  BY SMTT(30), SitesType
<1>2. ASSUME NEW n \in Nat \ {0}, n <= Len(Sites[w]), Sites[w][n] = Sites[w][1]
      PROVE  n = 1
  <2>1. n \in 1..Len(Sites[w]) /\ 1 \in 1..Len(Sites[w])
    BY SMTT(30), <1>1, <1>2
  <2> QED BY <1>2, <2>1 DEF StoresDiffer
<1> QED BY SMTT(30), <1>1, <1>2 DEF LocalStore, RemoteStores

\* A worker that reads or has no request.
LEMMA ReadLocal ==
  ASSUME NEW w, NEW y,
         \/ y.pc = "idle"
         \/ /\ y.pc \in {"getMapping", "get", "follow"} /\ y.told = "nothing"
         \/ /\ y.pc \in {"getRemote", "followRemote"} /\ y.told = "nothing"
            /\ ~IsPresent(impu'[LocalStore(w)][y.read.key])
  PROVE  LocalKnown(w, y)'
<1>1. y.pc \in {"idle", "getMapping"} \/ y.pc \in ReadPcs
  BY DEF ReadPcs
<1>2. y.pc \notin PutPcs /\ y.pc \notin RecordPcs
  BY <1>1, PcKinds
<1>3. y.pc = "idle" => y.pc \notin ReadPcs \cup {"getMapping"}
  BY DEF ReadPcs
<1> QED BY <1>2, <1>3 DEF LocalKnown

\* A request's outcome is about its kind and its default IMPU only.
LEMMA SameOutcome ==
  ASSUME NEW x, NEW y, NEW s, Outcome(x, s)', y.req = x.req,
         y.irs.default = x.irs.default
  PROVE  Outcome(y, s)'
  BY DEF Outcome, Deleting

\* A worker whose local store has the outcome.
LEMMA OutcomeLocal ==
  ASSUME NEW w, NEW x, Outcome(x, LocalStore(w))', NEW y, y.req = x.req,
         y.irs.default = x.irs.default,
         \/ y.pc \in PutPcs /\ y.site # 1
         \/ y.pc \in ReferencePcs /\ (y.site = 1 => y.told = "nothing")
  PROVE  LocalKnown(w, y)'
<1>1. Outcome(y, LocalStore(w))'
  BY SameOutcome
<1>2. /\ y.pc \in PutPcs /\ y.pc \notin ReadPcs \cup {"getMapping"}
      /\ y.pc \notin {"getRemote", "followRemote"}
      /\ y.pc \in RecordPcs => y.site # 1
      /\ y.site = 1 => y.told = "nothing"
  <2>1. y.pc \in PutPcs
    BY PcKinds
  <2>2. y.pc \notin ReadPcs /\ y.pc # "getMapping"
    BY <2>1 DEF PutPcs
  <2> QED BY <2>1, <2>2, PcKinds DEF ReadPcs
<1> QED BY <1>1, <1>2 DEF LocalKnown

\* So has one that leaves a store.
LEMMA LeavesLocal ==
  ASSUME NEW w, NEW x, x.site \in Nat \ {0}, Outcome(x, LocalStore(w))', NEW i,
         i.default = x.irs.default, NEW y,
         Leaves(w, x, i, y) \/ (GivesUp(w, x, y) /\ i = x.irs)
  PROVE  LocalKnown(w, y)'
<1>1. y.pc = "idle" \/ TurnsTo(w, x, i, x.site + 1, y)
  BY DEF Leaves, GivesUp
<1>2. CASE y.pc = "idle"
  BY <1>2, ReadLocal
<1>3. CASE TurnsTo(w, x, i, x.site + 1, y)
  <2>1. y.req = x.req /\ y.irs.default = x.irs.default /\ y.site # 1
    BY SMTT(30), <1>3 DEF TurnsTo
  <2>2. y.pc \in PutPcs
    BY <1>3, FirstCallKind, PcKinds DEF TurnsTo
  <2> QED BY <2>1, <2>2, OutcomeLocal
<1> QED BY <1>1, <1>2, <1>3

\* Reading: what is found in the local store can be written there, and what is
\* found in another is not in the local store.
LEMMA HitLocal ==
  ASSUME StoresDiffer, OneDefault, NEW w \in Workers, NEW x \in WorkerStates,
         x.req \in Requests, Keeps(x), LocalKnown(w, x), x.pc \in ReadPcs,
         NEW t \in Stores, NEW entry \in ImpuEntries, Source(w, x, t, entry),
         OwnRecord(x.read.key, entry.rec), UNCHANGED impu,
         NEW y, Hits(w, x, t, entry, y)
  PROVE  LocalKnown(w, y)'
<1> DEFINE k == x.read.key
           j == FromImpu(k, t, entry)
           s == LocalStore(w)
<1>1. /\ is_default_impu(entry.rec)
      /\ x.pc \in {"get", "getRemote"} \/ has_associated_impu(entry.rec, x.read.asked)
  BY DEF Hits
<1>2. PICK i \in PutSets(x.req, j) : TurnsTo(w, x, i, 1, y) /\ y.told = x.told
  BY DEF Hits
<1>3. i.default = k /\ i.existing /\ From(j, i)
  BY <1>1, HitOwn
<1>4. k \in Keys /\ entry.rec \in DefaultImpus
  BY <1>1, EntryKinds DEF WorkerStates, Reads
<1>5. j \in ImplicitRegSets /\ j.xml # NoProfile
  BY SMTT(30), <1>1, <1>4, FromImpuType, FromImpuOwn
<1>6. x.req.kind = "REG" => /\ i.reg = "REGISTERED" /\ i.regSet
                            /\ x.req.impi \in get_associated_impis(i)
  BY <1>5, PutSetsFields
<1>7. i.store = t /\ i.cas = entry.cas
  BY <1>3 DEF From, FromImpu
<1>8. /\ y.pc = FirstCall(x, i, s) /\ y.req = x.req /\ y.irs = i
      /\ y.site = 1 /\ y.cas = i.cas
  BY <1>2 DEF TurnsTo, LocalStore
<1>9. /\ y.pc \in RecordPcs /\ y.pc # "create"
      /\ y.pc \in {"set", "delete"} => t = s
      /\ y.pc = "getStored" => t # s
  BY SMTT(30), <1>3, <1>7, <1>8, FirstCallKind
<1>10. y.told = "nothing"
  BY <1>2 DEF LocalKnown
<1>11. t = s => entry = impu[s][k]
  <2>1. s \notin RemoteStores(w)
    BY LocalFirst
  <2> QED BY <2>1 DEF Source, ReadPcs
<1>12. t # s => ~IsPresent(impu[s][k])
  BY DEF Source, ReadPcs, LocalKnown
<1>13. y.pc = "set" => SetAllowed(impu'[s][k], y.cas)
  BY <1>7, <1>8, <1>9, <1>11 DEF SetAllowed
<1>14. y.pc = "getStored" => ~IsPresent(impu'[s][k])
  BY <1>9, <1>12
<1>15. /\ y.pc \in PutPcs /\ y.pc \notin ReferencePcs
       /\ y.pc \notin ReadPcs \cup {"getMapping"}
       /\ y.pc \notin {"getRemote", "followRemote"}
  BY <1>9, PcKinds DEF ReadPcs
<1> QED BY <1>3, <1>6, <1>8, <1>9, <1>10, <1>13, <1>14, <1>15 DEF LocalKnown

\* A read that finds nothing leaves nothing to know of the local store.
LEMMA MissLocal ==
  ASSUME NEW w, NEW x, x.req \in Requests, LocalKnown(w, x), x.pc \in ReadPcs,
         NEW y, Misses(w, x, y)
  PROVE  LocalKnown(w, y)'
<1>1. PICK i \in NewSets(x.req) : TurnsTo(w, x, i, 1, y) /\ y.told = x.told
  BY DEF Misses
<1>2. ~i.existing
  BY MissOwn
<1>3. x.req.kind = "REG" => /\ i.reg = "REGISTERED" /\ i.regSet
                            /\ x.req.impi \in get_associated_impis(i)
  BY NewSetsFields
<1>4. y.pc = "create" /\ y.req = x.req /\ y.irs = i /\ y.site = 1
  BY <1>1, <1>2, FirstCallKind DEF TurnsTo
<1>5. y.pc \in RecordPcs
  BY <1>4 DEF RecordPcs
<1>6. /\ y.pc \in PutPcs /\ y.pc \notin ReferencePcs
      /\ y.pc \notin ReadPcs \cup {"getMapping"}
      /\ y.pc \notin {"getRemote", "followRemote"}
  BY <1>5, PcKinds DEF ReadPcs
<1>7. y.told = "nothing"
  BY <1>1 DEF LocalKnown
<1> QED BY <1>3, <1>4, <1>5, <1>6, <1>7 DEF LocalKnown

\* Reading.
LEMMA ReadStepLocal ==
  ASSUME StoresDiffer, OneDefault, NEW w \in Workers, NEW x \in WorkerStates,
         x.req \in Requests, Keeps(x), LocalKnown(w, x),
         x.pc \in ReadPcs \cup {"getMapping"},
         \A s \in Stores, k \in Keys : OwnRecord(k, impu[s][k].rec),
         UNCHANGED impu, NEW y, ReadStep(w, x, y)
  PROVE  LocalKnown(w, y)'
<1> DEFINE k == x.read.key
<1>1. x.told = "nothing" /\ k \in Keys
  BY DEF LocalKnown, WorkerStates, Reads
<1>2. CASE y.pc = "idle"
  BY <1>2, ReadLocal
<1>3. CASE y.pc = "getMapping" /\ y.told = x.told
  BY <1>1, <1>3, ReadLocal
<1>4. CASE Restarts(x, y)
  BY <1>1, <1>4, ReadLocal DEF Restarts
<1>5. CASE x.pc \in ReadPcs /\ Waits(w, x, y)
  <2>1. /\ y.pc \in {"getRemote", "followRemote"} /\ y.told = "nothing"
        /\ y.read.key = k
    BY <1>1, <1>5 DEF Waits
  <2>2. ~IsPresent(impu[LocalStore(w)][k])
    BY <1>5 DEF Waits, LocalKnown, ReadPcs
  <2> QED BY <2>1, <2>2, ReadLocal
<1>6. CASE x.pc \in ReadPcs /\ Misses(w, x, y)
  BY <1>6, MissLocal
<1>7. ASSUME NEW t \in Stores, NEW entry \in ImpuEntries, x.pc \in ReadPcs,
             Source(w, x, t, entry), Follows(x, entry, y)
      PROVE  LocalKnown(w, y)'
  BY <1>1, <1>7, ReadLocal DEF Follows
<1>8. ASSUME NEW t \in Stores, NEW entry \in ImpuEntries, x.pc \in ReadPcs,
             Source(w, x, t, entry), Hits(w, x, t, entry, y)
      PROVE  LocalKnown(w, y)'
  <2>1. \A s \in Stores : OwnRecord(k, x.read.answers[s].rec)
    BY <1>8 DEF Keeps
  <2>2. OwnRecord(k, entry.rec)
    BY <1>1, <1>8, <2>1 DEF Source, ReadPcs
  <2> QED BY <1>8, <2>2, HitLocal
<1> QED BY <1>2, <1>3, <1>4, <1>5, <1>6, <1>7, <1>8 DEF ReadStep

\* The entry of d in store s does not change when another entry is written.
LEMMA OtherEntry ==
  ASSUME TypeOK, NEW s \in Stores, NEW d \in Keys, NEW t \in Stores, NEW k \in Keys,
         t # s \/ k # d,
         UNCHANGED impu \/ \E e : impu' = [impu EXCEPT ![t][k] = e]
  PROVE  impu'[s][d] = impu[s][d]
  BY DEF TypeOK

\* What Writes and Removes leave.
LEMMA OwnEntryAfter ==
  ASSUME TypeOK, NEW w, NEW x, Sites[w][x.site] \in Stores, x.irs.default \in Keys
  PROVE  /\ Writes(w, x) => OwnEntry(w, x)'.rec = create_impu(x.irs)
         /\ Removes(w, x) => OwnEntry(w, x)' = AbsentImpu
         /\ UNCHANGED stores => OwnEntry(w, x)' = OwnEntry(w, x)
<1> DEFINE s == Sites[w][x.site]
           d == x.irs.default
<1>1. OwnEntry(w, x) = impu[s][d] /\ OwnEntry(w, x)' = impu'[s][d]
  BY DEF OwnEntry
<1>2. /\ Writes(w, x) =>
           impu' = [impu EXCEPT ![s][d] = [cas |-> lastCas[s] + 1, rec |-> create_impu(x.irs)]]
      /\ Removes(w, x) => impu' = [impu EXCEPT ![s][d] = AbsentImpu]
      /\ UNCHANGED stores => impu' = impu
  BY DEF Writes, Removes, WriteImpu, RemoveImpu, stores
<1> HIDE DEF s, d
<1>3. \A e : impu' = [impu EXCEPT ![s][d] = e] => impu'[s][d] = e
  BY SMTT(30) DEF TypeOK, s, d
<1> QED BY SMTT(30), <1>1, <1>2, <1>3

\* A record that is done in the local store has the outcome.
LEMMA FinishLocal ==
  ASSUME TypeOK, NEW w \in Workers, NEW x \in WorkerStates, Keeps(x), LocalKnown(w, x),
         x.pc \in RecordPcs, x.site = 1, NEW y, Finishes(w, x, y),
         LocalStore(w) \in Stores
  PROVE  Outcome(x, LocalStore(w))'
<1> DEFINE rec == create_impu(x.irs)
           e == impu'[LocalStore(w)][x.irs.default]
<1>1. x.irs \in ImplicitRegSets /\ x.irs.default \in Keys
  BY DEF WorkerStates, ImplicitRegSets
<1>2. /\ Writes(w, x) => e.rec = rec
      /\ Removes(w, x) => e = AbsentImpu
      /\ UNCHANGED stores => e = impu[LocalStore(w)][x.irs.default]
  BY SMTT(30), <1>1, OwnEntryAfter DEF OwnEntry, LocalStore
<1>3. /\ x.req.kind = "REG" => /\ x.irs.reg = "REGISTERED"
                               /\ x.req.impi \in get_associated_impis(x.irs)
      /\ x.pc = "getStored" => ~IsPresent(impu[LocalStore(w)][x.irs.default])
  BY DEF LocalKnown
<1>4. /\ is_default_impu(rec) /\ rec.impis = get_associated_impis(x.irs)
      /\ x.irs.reg = "REGISTERED" <=> rec.reg = "REGISTERED"
  BY <1>1 DEF create_impu, Stored, DefaultImpu, is_default_impu, ImplicitRegSets,
     RegistrationStates
<1>5. /\ Deleting(x) => x.pc # "create" /\ x.pc # "set"
      /\ x.pc = "delete" => Deleting(x)
  BY PcKinds DEF Keeps
<1>6. Deleting(x) => x.req.kind # "REG"
  BY DEF Deleting
<1>7. CASE x.pc \in {"create", "set"} /\ Writes(w, x)
  BY <1>2, <1>3, <1>4, <1>5, <1>7 DEF Outcome
<1>8. CASE x.pc = "create" /\ rec.reg # "REGISTERED"
  BY <1>3, <1>4, <1>5, <1>8 DEF Outcome
<1>9. CASE x.pc = "delete" /\ Removes(w, x)
  BY SMTT(30), <1>2, <1>5, <1>6, <1>9 DEF Outcome, AbsentImpu
<1>10. CASE x.pc = "getStored" /\ Deleting(x) /\ UNCHANGED stores
  <2>1. ~IsPresent(e) /\ e \in ImpuEntries
    BY <1>1, <1>2, <1>3, <1>10 DEF TypeOK
  <2>2. e = AbsentImpu
    BY <2>1 DEF ImpuEntries, IsPresent
  <2> QED BY SMTT(30), <1>6, <1>10, <2>2 DEF Outcome, AbsentImpu
<1> QED BY <1>7, <1>8, <1>9, <1>10 DEF Finishes

\* A record that is done, or given up, elsewhere does not touch the local store.
LEMMA ElsewhereLocal ==
  ASSUME StoresDiffer, TypeOK, NEW w \in Workers, NEW x \in WorkerStates,
         x.site <= Len(Sites[w]), x.site # 1, LocalStore(w) \in Stores,
         Sites[w][x.site] \in Stores, Outcome(x, LocalStore(w)),
         NEW y, RecordStep(w, x, y)
  PROVE  Outcome(x, LocalStore(w))'
<1> DEFINE s == LocalStore(w)
           t == Sites[w][x.site]
           d == x.irs.default
<1>1. d \in Keys /\ x.site \in Nat \ {0}
  BY DEF WorkerStates, ImplicitRegSets
<1>2. t # s
  BY <1>1, LocalFirst
<1>3. UNCHANGED impu \/ \E e : impu' = [impu EXCEPT ![t][d] = e]
  BY RecordChange
<1>4. impu'[s][d] = impu[s][d]
  BY <1>1, <1>2, <1>3, OtherEntry
<1> QED BY <1>4 DEF Outcome

\* Writing a record.
LEMMA RecordStepLocal ==
  ASSUME StoresDiffer, TypeOK, NEW w \in Workers, NEW x \in WorkerStates, Keeps(x),
         LocalKnown(w, x), x.pc \in RecordPcs, x.site <= Len(Sites[w]),
         LocalStore(w) \in Stores, Sites[w][x.site] \in Stores,
         NEW y, RecordStep(w, x, y)
  PROVE  LocalKnown(w, y)'
<1> DEFINE s == LocalStore(w)
           d == x.irs.default
<1>1. /\ x.irs \in ImplicitRegSets /\ x.site \in Nat \ {0}
      /\ x.site = 1 => x.told = "nothing"
  BY PcKinds DEF WorkerStates, LocalKnown
<1>2. Puttable(x, x.irs)
  BY PcKinds DEF Keeps, Puttable
<1>3. x.site # 1 => Outcome(x, s)'
  <2>1. x.site # 1 => Outcome(x, s)
    BY PcKinds DEF LocalKnown
  <2> QED BY <2>1, ElsewhereLocal
<1>4. CASE Finishes(w, x, y)
  <2>1. Outcome(x, s)'
    BY <1>3, <1>4, FinishLocal
  <2>2. Final(x).default = d
    BY <1>2, FinalOwn
  <2>3. CASE Leaves(w, x, Final(x), y)
    BY <1>1, <2>1, <2>2, <2>3, LeavesLocal
  <2>4. CASE /\ y.pc = "work" /\ y.irs = Final(x) /\ y.req = x.req
             /\ y.site = x.site /\ y.told = x.told
    <3>1. y.pc \in ReferencePcs
      BY <2>4, PcGroups
    <3>2. y.irs.default = d /\ (y.site = 1 => y.told = "nothing")
      BY <1>1, <2>2, <2>4
    <3> QED BY <2>1, <2>4, <3>1, <3>2, OutcomeLocal
  <2> QED BY <1>4, <2>3, <2>4 DEF Finishes, TurnsFromRecord
<1>5. CASE Retries(w, x, y)
  <2>1. /\ UNCHANGED impu /\ y.req = x.req /\ y.site = x.site /\ y.told = x.told
    BY <1>5 DEF Retries, stores
  <2>2. y.pc \in RecordPcs
    BY <1>5 DEF Retries, RecordPcs
  <2>3. y.irs.default = d
    BY <1>1, <1>5 DEF Retries, update_from_impu_from_store, ImplicitRegSets
  <2>4. CASE x.site # 1
    <3>1. y.pc \in PutPcs
      BY <2>2, PcKinds
    <3> QED BY <1>3, <2>1, <2>3, <2>4, <3>1, OutcomeLocal
  <2>5. CASE x.site = 1
    <3>1. OwnEntry(w, x) = impu[s][d]
      BY <2>5 DEF OwnEntry, LocalStore
    <3>2. /\ x.pc = "set" => SetAllowed(impu[s][d], x.cas)
          /\ x.pc = "getStored" => ~IsPresent(impu[s][d])
          /\ x.req.kind = "REG" => /\ x.irs.reg = "REGISTERED" /\ x.irs.regSet
                                   /\ x.req.impi \in get_associated_impis(x.irs)
      BY <2>5 DEF LocalKnown
    <3>3. /\ y.irs = x.irs /\ y.pc # "getStored"
          /\ y.pc = "set" => SetAllowed(impu[s][d], y.cas)
      BY <1>5, <3>1, <3>2 DEF Retries, SetAllowed, IsPresent
    <3>4. /\ y.pc \in PutPcs /\ y.pc \notin ReferencePcs
          /\ y.pc \notin ReadPcs \cup {"getMapping"}
          /\ y.pc \notin {"getRemote", "followRemote"}
      BY <2>2, PcKinds DEF ReadPcs
    <3> QED BY <1>1, <2>1, <2>2, <2>5, <3>2, <3>3, <3>4 DEF LocalKnown
  <2> QED BY <2>4, <2>5
<1>6. CASE Abandons(w, x, y)
  <2>1. GivesUp(w, x, y)
    BY <1>6 DEF Abandons
  <2>2. CASE y.pc = "idle"
    BY <2>2, ReadLocal
  <2>3. CASE y.pc # "idle"
    <3>1. x.site = 1 => x.req.kind = "PPR"
      BY <2>1, <2>3 DEF GivesUp
    <3>2. x.site = 1 => Outcome(x, s)'
      BY <3>1 DEF Outcome, Deleting
    <3> QED BY <1>1, <1>3, <2>1, <3>2, LeavesLocal
  <2> QED BY <2>2, <2>3
<1> QED BY <1>4, <1>5, <1>6 DEF RecordStep

\* Updating references: they are not to the default IMPU.
LEMMA ReferenceStepLocal ==
  ASSUME TypeOK, NEW w \in Workers, NEW x \in WorkerStates, Keeps(x),
         LocalKnown(w, x), x.pc \in ReferencePcs, LocalStore(w) \in Stores,
         Sites[w][x.site] \in Stores, NEW y, ReferenceStep(w, x, y)
  PROVE  LocalKnown(w, y)'
<1> DEFINE s == LocalStore(w)
           t == Sites[w][x.site]
           d == x.irs.default
<1>1. PICK ref \in x.todo : Handles(w, x, ref, y) /\ Touches(t, ref)
  BY DEF ReferenceStep
<1>2. d \in Keys /\ x.site \in Nat \ {0}
  BY DEF WorkerStates, ImplicitRegSets
<1>3. Outcome(x, s) /\ (x.site = 1 => x.told = "nothing")
  BY PcKinds DEF LocalKnown
<1>4. ref \in AssocReferences => ref[2] \in Keys /\ ref[2] # d
  BY DEF Keeps, AssocReferences, Keys
<1>5. impu'[s][d] = impu[s][d]
  <2>1. CASE UNCHANGED impu
    BY <2>1
  <2>2. CASE ref \in AssocReferences /\ \E e : impu' = [impu EXCEPT ![t][ref[2]] = e]
    BY <1>2, <1>4, <2>2, OtherEntry
  <2> QED BY <1>1, <2>1, <2>2 DEF Touches
<1>6. Outcome(x, s)'
  BY <1>3, <1>5 DEF Outcome
<1>7. ASSUME y.pc \in ReferencePcs, y.irs = x.irs, y.req = x.req, y.site = x.site,
             y.told = x.told
      PROVE  LocalKnown(w, y)'
  <2>1. y.irs.default = d /\ (y.site = 1 => y.told = "nothing")
    BY <1>3, <1>7
  <2> QED BY <1>6, <1>7, <2>1, OutcomeLocal
<1>8. ASSUME NEW st, TurnsFrom(w, x, ref, st, y)
      PROVE  LocalKnown(w, y)'
  <2>1. CASE Leaves(w, x, x.irs, y) \/ GivesUp(w, x, y)
    BY <1>2, <1>6, <2>1, LeavesLocal
  <2>2. "work" \in ReferencePcs
    BY PcGroups
  <2> QED BY <1>7, <1>8, <2>1, <2>2 DEF TurnsFrom
<1>9. ASSUME NEW pc \in LoopPcs, NEW m, NEW st, GoesOn(x, ref, pc, m, st, y)
      PROVE  LocalKnown(w, y)'
  <2>1. pc \in ReferencePcs
    BY PcGroups
  <2> QED BY <1>7, <1>9, <2>1 DEF GoesOn
<1> QED BY <1>1, <1>8, <1>9 DEF Handles

-----------------------------------------------------------------------------
(* All steps.                                                              *)

\* A worker's own steps.
LEMMA WorkLocal ==
  ASSUME Inv, OneDefault, StoresDiffer, OwnInv, NEW w \in Workers,
         LocalKnown(w, worker[w]), Work(w), NEW y, y = worker'[w]
  PROVE  LocalKnown(w, y)'
<1> DEFINE x == worker[w]
<1>1. /\ TypeOK /\ x \in WorkerStates /\ Coherent(w, x) /\ x.site <= Len(Sites[w])
      /\ Sites[w][x.site] \in Stores /\ LocalStore(w) \in Stores
  BY WorkerSound
<1>2. /\ \A t \in Stores, k \in Keys : OwnRecord(k, impu[t][k].rec)
      /\ Keeps(x)
  BY DEF OwnInv
<1>3. PICK z : z = x
  OBVIOUS
<1>4. CASE Reading(w)
  <2>1. /\ ReadStep(w, z, y) /\ UNCHANGED impu
        /\ z.pc \in ReadPcs \cup {"getMapping"}
    BY <1>3, <1>4, ReadingSteps
  <2>2. z.req \in Requests
    BY <1>1, <1>3, <2>1 DEF Coherent, ReadPcs
  <2> QED BY <1>1, <1>2, <1>3, <2>1, <2>2, ReadStepLocal
<1>5. CASE WritingRecord(w)
  <2>1. RecordStep(w, z, y) /\ z.pc \in RecordPcs
    BY <1>3, <1>5, WritingSteps
  <2> QED BY <1>1, <1>2, <1>3, <2>1, RecordStepLocal
<1>6. CASE UpdatingReferences(w)
  <2>1. ReferenceStep(w, z, y) /\ z.pc \in ReferencePcs
    BY <1>2, <1>3, <1>6, UpdatingSteps
  <2> QED BY <1>1, <1>2, <1>3, <2>1, ReferenceStepLocal
<1> QED BY <1>4, <1>5, <1>6 DEF Work

\* What the local store holds, when requests are served one at a time and
\* entries do not expire.
LEMMA LocalStep ==
  ASSUME OneAtATime, OneDefault, StoresDiffer, "expiry" \notin Upsets
  PROVE  /\ Init => LocalInv
         /\ Inv /\ OwnInv /\ Alone /\ LocalInv /\ [Next]_vars => LocalInv'
<1>1. ASSUME Init PROVE LocalInv
  <2>1. Idle.pc = "idle" /\ "idle" \notin ReadPcs \cup {"getMapping"}
    BY DEF Idle, ReadPcs
  <2>2. "idle" \notin PutPcs /\ "idle" \notin RecordPcs
    BY PcKinds
  <2> QED BY <1>1, <2>1, <2>2 DEF Init, LocalInv, LocalKnown
<1>2. ASSUME Inv, OwnInv, Alone, LocalInv, [Next]_vars PROVE LocalInv'
  <2>1. /\ TypeOK /\ \A v \in Workers : Keeps(worker[v])
        /\ \A v \in Workers : LocalKnown(v, worker[v])
    BY <1>2 DEF Inv, TypeInv, OwnInv, LocalInv
  <2>2. CASE UNCHANGED vars
    BY <2>1, <2>2 DEF LocalInv, LocalKnown, Outcome, vars, stores
  <2>3. ASSUME NEW w \in Workers, NEW y, y = worker'[w], LocalKnown(w, y)',
               \A v \in Workers : v # w => worker'[v] = worker[v],
               \A v \in Workers : v # w => worker[v].pc = "idle"
        PROVE  LocalInv'
    <3>1. ASSUME NEW v \in Workers PROVE LocalKnown(v, worker[v])'
      <4>1. PICK z : z = worker'[v]
        OBVIOUS
      <4>2. LocalKnown(v, z)'
        <5>1. CASE v = w
          BY <2>3, <4>1, <5>1
        <5>2. CASE v # w
          BY <2>3, <4>1, <5>2, ReadLocal
        <5> QED BY <5>1, <5>2
      <4> QED BY <4>1, <4>2 DEF LocalKnown, Outcome
    <3> QED BY <3>1 DEF LocalInv
  <2>4. ASSUME NEW w \in Workers, NEW r \in Requests, Start(w, r)
        PROVE  LocalInv'
    <3>1. PICK y : y = worker'[w]
      OBVIOUS
    <3>2. Begins(r, y) /\ \A v \in Workers : v # w => worker'[v] = worker[v]
      BY <2>1, <2>4, <3>1, StartBegins
    <3>3. LocalKnown(w, y)'
      BY <3>2, ReadLocal DEF Begins
    <3> QED BY <1>2, <2>3, <2>4, <3>1, <3>2, <3>3, OthersIdle
  <2>5. ASSUME NEW w \in Workers, Work(w),
               \A v \in Workers : v # w => worker'[v] = worker[v]
        PROVE  LocalInv'
    <3>1. PICK y : y = worker'[w]
      OBVIOUS
    <3>2. LocalKnown(w, y)'
      BY <1>2, <2>1, <2>5, <3>1, WorkLocal
    <3>3. worker[w].pc # "idle"
      BY <1>2, <2>1, <2>5, WorkBusy
    <3> QED BY <1>2, <2>3, <2>5, <3>1, <3>2, <3>3, OthersIdle
  <2>6. ASSUME NEW w \in Workers, worker'[w].pc = "idle", UNCHANGED impu,
               \A v \in Workers : v # w => worker'[v] = worker[v]
        PROVE  LocalInv'
    <3>1. ASSUME NEW v \in Workers PROVE LocalKnown(v, worker[v])'
      <4>1. PICK z : z = worker'[v]
        OBVIOUS
      <4>2. LocalKnown(v, z)'
        <5>1. CASE z.pc = "idle"
          BY <5>1, ReadLocal
        <5>2. CASE z.pc # "idle"
          <6>1. LocalKnown(v, z)
            BY <2>1, <2>6, <4>1, <5>2
          <6> QED BY <2>6, <6>1 DEF LocalKnown, Outcome
        <5> QED BY <5>1, <5>2
      <4> QED BY <4>1, <4>2 DEF LocalKnown, Outcome
    <3> QED BY <3>1 DEF LocalInv
  <2>7. ~Upset("expiry")
    BY DEF Upset
  <2> QED BY <1>2, <2>2, <2>4, <2>5, <2>6, <2>7, StepKinds
<1> QED BY <1>1, <1>2

\* With requests served one at a time, a registration or a removal is in the
\* store of its own site before its handler hears of success, and stays there
\* while the remote stores are written, even if store calls fail and Homesteads
\* crash (perform, put_irs_action and delete_irs_action).
THEOREM OutcomeIsStored ==
  ASSUME OneAtATime, OneDefault, StoresDiffer, "expiry" \notin Upsets
  PROVE  Spec => []SuccessIsStored
<1>1. Inv /\ LocalInv => SuccessIsStored
  <2> SUFFICES ASSUME Inv, LocalInv, NEW w \in Workers, worker[w].pc # "idle",
                      worker[w].told = "success"
               PROVE  Outcome(worker[w], LocalStore(w))
    BY DEF SuccessIsStored, Succeeded, LocalRecord, Outcome, Deleting
  <2>1. LocalKnown(w, worker[w]) /\ worker[w].pc \in Pcs
    BY WorkerSound DEF LocalInv, WorkerStates
  <2>2. worker[w].pc \in PutPcs /\ worker[w].site # 1
    BY <2>1 DEF LocalKnown, PutPcs
  <2> QED BY <2>1, <2>2 DEF LocalKnown
<1> QED BY <1>1, OwnStep, AloneStep, LocalStep, InvHolds, PTL DEF Spec
=============================================================================
