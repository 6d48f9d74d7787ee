------------------------ MODULE MemcachedCacheProofs -------------------------
(***************************************************************************)
(* Type correctness of MemcachedCache and the safety of its conditional    *)
(* writes, for any number of workers, sites, identities and requests.      *)
(* First what the operations on an implicit registration set preserve, and *)
(* that what a worker makes of its own state between two store calls keeps *)
(* it sound: well formed, and informed about the records and mappings it   *)
(* may still write. Then every action: it changes at most one entry of one *)
(* store, moves one worker to a sound state, and makes no other worker's   *)
(* knowledge wrong.                                                        *)
(***************************************************************************)
EXTENDS MemcachedCacheInv, TLAPS

\* Zenon proves most of the leaves below; the others name SMT.
USE ZenonT(60)

-----------------------------------------------------------------------------
(* The operations on an implicit registration set, for every choice of     *)
(* identities, documents and stores.                                       *)

\* An element of a sequence over T is in T.
LEMMA SeqElement ==
  ASSUME NEW T, NEW q \in Seq(T)
  PROVE  \A n \in DOMAIN q : q[n] \in T
  BY SMTT(30)

\* The default identity read off a document is one of its identities, or
\* none (get_public_and_default_ids).
LEMMA DefaultIdType ==
  ASSUME NEW xml \in Profiles
  PROVE  get_default_id(xml) \in Keys
<1> DEFINE nodes    == PublicIdentities[xml]
           unbarred == {n \in FirstMentions(xml) : ~nodes[n].barred}
           first    == {n \in unbarred : \A m \in unbarred : n <= m}
<1>1. nodes \in Seq([id : Impus, barred : BOOLEAN])
  BY ImpuAssumption
<1>2. \A n \in first : n \in DOMAIN nodes
  BY DEF FirstMentions
<1>3. \A n \in first : nodes[n].id \in Impus
  <2>1. \A n \in DOMAIN nodes : nodes[n] \in [id : Impus, barred : BOOLEAN]
    BY <1>1, SeqElement
  <2> HIDE DEF first, nodes
  <2> QED BY <1>2, <2>1
<1>4. CASE first = {}
  BY <1>4 DEF get_default_id, Keys
<1>5. CASE first # {}
  <2>1. (CHOOSE n \in first : TRUE) \in first
    BY <1>5
  <2> QED
    BY <1>3, <1>5, <2>1 DEF get_default_id, Keys
<1> QED
  BY <1>4, <1>5

\* Every operation a handler performs on an IRS yields an IRS.
LEMMA SetRegStateType ==
  ASSUME NEW i \in ImplicitRegSets, NEW reg \in RegistrationStates
  PROVE  set_reg_state(i, reg) \in ImplicitRegSets
  BY DEF set_reg_state, ImplicitRegSets

\* set_charging_addresses yields an IRS.
LEMMA SetChargingType ==
  ASSUME NEW i \in ImplicitRegSets, NEW c \in Charging
  PROVE  set_charging_addresses(i, c) \in ImplicitRegSets
  BY DEF set_charging_addresses, ImplicitRegSets

\* set_ttl and mark_as_refreshed yield an IRS.
LEMMA RefreshType ==
  ASSUME NEW i \in ImplicitRegSets
  PROVE  /\ set_ttl(i) \in ImplicitRegSets
         /\ mark_as_refreshed(i) \in ImplicitRegSets
  BY DEF set_ttl, mark_as_refreshed, ImplicitRegSets

\* add_associated_impi yields an IRS.
LEMMA AddImpiType ==
  ASSUME NEW i \in ImplicitRegSets, NEW p \in Impis
  PROVE  add_associated_impi(i, p) \in ImplicitRegSets
  BY DEF add_associated_impi, ImplicitRegSets, DataStates

\* set_ims_sub_xml, with its set_elements over the identities of the
\* document, yields an IRS.
LEMMA SetXmlType ==
  ASSUME NEW i \in ImplicitRegSets, NEW xml \in Profiles
  PROVE  set_ims_sub_xml(i, xml) \in ImplicitRegSets
<1>1. set_elements(get_public_ids(xml), i.impus, get_default_id(xml))
        \in [Impus -> DataStates]
  BY DEF set_elements, ImplicitRegSets, DataStates
<1> QED
  BY <1>1, DefaultIdType DEF set_ims_sub_xml, ImplicitRegSets

\* The three operations on a tracked set of identities (merge_data_sets,
\* the DELETED marks of update_from_impu_from_store, and delete_tracked)
\* yield a tracked set.
LEMMA MergeType ==
  ASSUME NEW S, NEW data \in [S -> DataStates], NEW added
  PROVE  /\ merge_data_sets(data, added) \in [S -> DataStates]
         /\ emplace_deleted(data, added) \in [S -> DataStates]
         /\ delete_tracked(data) \in [S -> DataStates]
  BY DEF merge_data_sets, emplace_deleted, delete_tracked, DataStates

\* What an entry of the store may be: only a present one is a default record.
LEMMA EntryKinds ==
  ASSUME NEW e \in ImpuEntries
  PROVE  /\ e.cas \in Nat
         /\ e.cas = 0 => ~is_default_impu(e.rec)
         /\ is_default_impu(e.rec) => e.rec \in DefaultImpus
<1>1. CASE e = AbsentImpu
  BY <1>1 DEF AbsentImpu, NoRecord, is_default_impu
<1>2. CASE e \in [cas : Nat \ {0}, rec : DefaultImpus \cup AssociatedImpus]
  BY <1>2 DEF is_default_impu, AssociatedImpus
<1> QED BY <1>1, <1>2 DEF ImpuEntries

\* Merging a stored record into an IRS yields an IRS
\* (update_from_impu_from_store).
LEMMA UpdateType ==
  ASSUME NEW i \in ImplicitRegSets, NEW rec \in DefaultImpus
  PROVE  update_from_impu_from_store(i, rec) \in ImplicitRegSets
<1>1. /\ merge_data_sets(i.impis, rec.impis) \in [Impis -> DataStates]
      /\ merge_data_sets(i.impus, rec.assoc) \in [Impus -> DataStates]
      /\ emplace_deleted(i.impus, rec.assoc) \in [Impus -> DataStates]
  BY MergeType DEF ImplicitRegSets
<1> DEFINE reg == IF i.regSet THEN i.reg ELSE rec.reg
           xml == IF i.xmlSet THEN i.xml ELSE rec.xml
           charging == IF i.chargingSet THEN i.charging ELSE rec.charging
           impis == merge_data_sets(i.impis, rec.impis)
           impus == IF i.refreshed THEN emplace_deleted(i.impus, rec.assoc)
                    ELSE merge_data_sets(i.impus, rec.assoc)
<1>2. reg \in RegistrationStates
  BY DEF ImplicitRegSets, DefaultImpus, RegistrationStates
<1>3. xml \in Profiles \cup {NoProfile} /\ charging \in Charging
  BY DEF ImplicitRegSets, DefaultImpus
<1>4. impis \in [Impis -> DataStates] /\ impus \in [Impus -> DataStates]
  BY <1>1
<1>5. update_from_impu_from_store(i, rec) =
        [i EXCEPT !.reg = reg, !.xml = xml, !.charging = charging,
                  !.impis = impis, !.impus = impus]
  BY DEF update_from_impu_from_store, ImplicitRegSets
<1> HIDE DEF reg, xml, charging, impis, impus
<1> QED
  BY <1>2, <1>3, <1>4, <1>5 DEF ImplicitRegSets

\* Marking everything for deletion yields an IRS (delete_assoc_impus and
\* delete_impis).
LEMMA DeleteAllType ==
  ASSUME NEW i \in ImplicitRegSets
  PROVE  delete_all(i) \in ImplicitRegSets
<1>1. /\ delete_tracked(i.impis) \in [Impis -> DataStates]
      /\ delete_tracked(i.impus) \in [Impus -> DataStates]
  BY MergeType DEF ImplicitRegSets
<1> QED
  BY <1>1 DEF delete_all, ImplicitRegSets

\* create_implicit_registration_set yields an IRS.
LEMMA NewSetType == NewSet \in ImplicitRegSets
  BY StoreAssumption DEF NewSet, ImplicitRegSets, Keys, DataStates,
     RegistrationStates

\* The IRS built from a default record that was read is an IRS
\* (MemcachedImplicitRegistrationSet's constructor).
LEMMA FromImpuType ==
  ASSUME NEW k \in Keys, NEW s \in Stores, NEW e \in ImpuEntries,
         is_default_impu(e.rec)
  PROVE  FromImpu(k, s, e) \in ImplicitRegSets
<1>1. e.cas \in Nat /\ e.rec \in DefaultImpus
  BY SMTT(30) DEF ImpuEntries, AbsentImpu, NoRecord, AssociatedImpus, is_default_impu
<1> QED
  BY <1>1 DEF FromImpu, ImplicitRegSets, DefaultImpus, DataStates,
              RegistrationStates

\* The record an IRS is written as is a default IMPU record (create_impu).
LEMMA CreateImpuType ==
  ASSUME NEW i \in ImplicitRegSets
  PROVE  create_impu(i) \in DefaultImpus
  BY DEF create_impu, Stored, DefaultImpu, DefaultImpus, ImplicitRegSets,
         get_associated_impus, get_associated_impis, get_elements_in_state,
         RegistrationStates

-----------------------------------------------------------------------------
(* No operation forgets an identity or where the IRS came from.            *)

\* IRS j is IRS i after some operations.
Grows(i, j) ==
  /\ j.store = i.store /\ j.cas = i.cas /\ j.existing = i.existing
  /\ Tracked(i.impis) \subseteq Tracked(j.impis)
  /\ Tracked(i.impus) \subseteq Tracked(j.impus)

\* An identity is tracked unless its state is NONE.
LEMMA TrackedMeaning ==
  ASSUME NEW S, NEW data \in [S -> DataStates]
  PROVE  Tracked(data) = {k \in S : data[k] # "NONE"}
  BY DEF Tracked, get_elements_in_state, DataStates

\* No operation at all is some operations.
LEMMA GrowsReflexive ==
  ASSUME NEW i
  PROVE  Grows(i, i)
  BY DEF Grows

\* Operations compose.
LEMMA GrowsTransitive ==
  ASSUME NEW i, NEW j, NEW k, Grows(i, j), Grows(j, k)
  PROVE  Grows(i, k)
  BY DEF Grows

\* The setters a handler uses keep what the IRS tracks (set_reg_state,
\* set_charging_addresses, set_ttl, mark_as_refreshed).
LEMMA SettersGrow ==
  ASSUME NEW i \in ImplicitRegSets, NEW reg, NEW c
  PROVE  /\ Grows(i, set_reg_state(i, reg))
         /\ Grows(i, set_charging_addresses(i, c))
         /\ Grows(i, set_ttl(i))
         /\ Grows(i, mark_as_refreshed(i))
  BY DEF Grows, set_reg_state, set_charging_addresses, set_ttl,
         mark_as_refreshed, ImplicitRegSets

\* Adding an IMPI keeps the others.
LEMMA AddImpiGrows ==
  ASSUME NEW i \in ImplicitRegSets, NEW p \in Impis
  PROVE  Grows(i, add_associated_impi(i, p))
<1> DEFINE j == add_associated_impi(i, p)
<1>1. i.impis \in [Impis -> DataStates] /\ j.impis \in [Impis -> DataStates]
  BY AddImpiType DEF ImplicitRegSets
<1>2. \A q \in Impis : i.impis[q] # "NONE" => j.impis[q] # "NONE"
  BY DEF add_associated_impi, ImplicitRegSets
<1>3. Tracked(i.impis) \subseteq Tracked(j.impis)
  BY SMTT(30), <1>1, <1>2, TrackedMeaning
<1> QED
  BY <1>3 DEF add_associated_impi, Grows, ImplicitRegSets

\* A new document marks dropped identities as DELETED and forgets none.
LEMMA SetXmlGrows ==
  ASSUME NEW i \in ImplicitRegSets, NEW xml \in Profiles
  PROVE  Grows(i, set_ims_sub_xml(i, xml))
<1> DEFINE j == set_ims_sub_xml(i, xml)
<1>1. i.impus \in [Impus -> DataStates] /\ j.impus \in [Impus -> DataStates]
  BY SetXmlType DEF ImplicitRegSets
<1>2. \A a \in Impus : i.impus[a] # "NONE" => j.impus[a] # "NONE"
  BY <1>1 DEF set_ims_sub_xml, set_elements, ImplicitRegSets
<1>3. Tracked(i.impus) \subseteq Tracked(j.impus)
  BY SMTT(30), <1>1, <1>2, TrackedMeaning
<1> QED
  BY <1>3 DEF set_ims_sub_xml, Grows, ImplicitRegSets

\* Deleting everything keeps everything tracked, so that all references to
\* it are cleaned up.
LEMMA DeleteAllGrows ==
  ASSUME NEW i \in ImplicitRegSets
  PROVE  Grows(i, delete_all(i))
<1>1. /\ Tracked(i.impis) \subseteq Tracked(delete_tracked(i.impis))
      /\ Tracked(i.impus) \subseteq Tracked(delete_tracked(i.impus))
  BY SMTT(30), MergeType, TrackedMeaning DEF delete_tracked, ImplicitRegSets
<1> QED
  BY <1>1 DEF delete_all, Grows, ImplicitRegSets

\* Merging keeps what is tracked and adds what the store has.
LEMMA MergeGrows ==
  ASSUME NEW S, NEW data \in [S -> DataStates], NEW added \in SUBSET S
  PROVE  /\ Tracked(data) \cup added
              \subseteq Tracked(merge_data_sets(data, added))
         /\ Tracked(data) \cup added
              \subseteq Tracked(emplace_deleted(data, added))
<1>1. \A k \in S :
        data[k] # "NONE" \/ k \in added =>
          /\ merge_data_sets(data, added)[k] # "NONE"
          /\ emplace_deleted(data, added)[k] # "NONE"
  BY DEF merge_data_sets, emplace_deleted
<1> QED
  BY SMTT(30), <1>1, MergeType, TrackedMeaning

\* After a conflict the IRS tracks all identities of the stored record, and
\* still all it tracked before (update_from_impu_from_store).
THEOREM UpdateSeesRecord ==
  ASSUME NEW i \in ImplicitRegSets, NEW rec \in DefaultImpus
  PROVE  LET j == update_from_impu_from_store(i, rec) IN
         /\ Grows(i, j)
         /\ rec.impis \subseteq Tracked(j.impis)
         /\ rec.assoc \subseteq Tracked(j.impus)
<1> DEFINE j == update_from_impu_from_store(i, rec)
<1>1. /\ i.impis \in [Impis -> DataStates] /\ i.impus \in [Impus -> DataStates]
      /\ rec.impis \in SUBSET Impis /\ rec.assoc \in SUBSET Impus
  BY DEF ImplicitRegSets, DefaultImpus
<1>2. j.impis = merge_data_sets(i.impis, rec.impis)
  BY DEF update_from_impu_from_store, ImplicitRegSets
<1>3. \/ j.impus = merge_data_sets(i.impus, rec.assoc)
      \/ j.impus = emplace_deleted(i.impus, rec.assoc)
  BY DEF update_from_impu_from_store, ImplicitRegSets
<1>4. /\ Tracked(i.impis) \cup rec.impis \subseteq Tracked(j.impis)
      /\ Tracked(i.impus) \cup rec.assoc \subseteq Tracked(j.impus)
  BY <1>1, <1>2, <1>3, MergeGrows
<1>5. j.store = i.store /\ j.cas = i.cas /\ j.existing = i.existing
  BY DEF update_from_impu_from_store, ImplicitRegSets
<1> QED
  BY <1>4, <1>5 DEF Grows

\* What the handler decided survives the merge: an identity it ADDED or
\* DELETED stays so whatever the store holds (merge_data_sets).
THEOREM MergeKeepsDecisions ==
  ASSUME NEW S, NEW data \in [S -> DataStates], NEW added \in SUBSET S,
         NEW k \in S, data[k] \in {"ADDED", "DELETED"}
  PROVE  merge_data_sets(data, added)[k] = data[k]
  BY DEF merge_data_sets

\* An IRS read from a store tracks all identities of the record.
LEMMA FromImpuSeesRecord ==
  ASSUME NEW k \in Keys, NEW s \in Stores, NEW e \in ImpuEntries,
         is_default_impu(e.rec)
  PROVE  LET j == FromImpu(k, s, e) IN
         /\ j.store = s /\ j.cas = e.cas /\ j.existing
         /\ j.reg = e.rec.reg /\ ~j.regSet
         /\ e.rec.impis \subseteq Tracked(j.impis)
         /\ e.rec.assoc \subseteq Tracked(j.impus)
<1> DEFINE j == FromImpu(k, s, e)
<1>1. e.rec \in DefaultImpus
  BY SMTT(30) DEF ImpuEntries, AbsentImpu, NoRecord, AssociatedImpus, is_default_impu
<1>2. /\ j.impis = [p \in Impis |-> IF p \in e.rec.impis
                                    THEN "UNCHANGED" ELSE "NONE"]
      /\ j.impus = [a \in Impus |-> IF a \in e.rec.assoc
                                    THEN "UNCHANGED" ELSE "NONE"]
  BY DEF FromImpu
<1>3. j.impis \in [Impis -> DataStates] /\ j.impus \in [Impus -> DataStates]
  BY <1>2 DEF DataStates
<1>4. e.rec.impis \subseteq Impis /\ e.rec.assoc \subseteq Impus
  BY <1>1 DEF DefaultImpus
<1>5. /\ e.rec.impis \subseteq Tracked(j.impis)
      /\ e.rec.assoc \subseteq Tracked(j.impus)
  <2> HIDE DEF j
  <2>1. /\ Tracked(j.impis) = {p \in Impis : j.impis[p] # "NONE"}
        /\ Tracked(j.impus) = {a \in Impus : j.impus[a] # "NONE"}
    BY <1>3, TrackedMeaning
  <2> QED BY <1>2, <1>4, <2>1
<1>6. /\ j.store = s /\ j.cas = e.cas /\ j.existing
      /\ j.reg = e.rec.reg /\ ~j.regSet
  BY DEF FromImpu
<1> QED
  BY <1>5, <1>6

-----------------------------------------------------------------------------
(* The state of a worker.                                                  *)

\* A state a worker may be in: well-formed, and informed about the records it
\* may write.
Proper(w, x) == x \in WorkerStates /\ Coherent(w, x)
Sound(w, x) == Proper(w, x) /\ Informed(w, x)

\* An IRS knows the record it was read from.
Sourced(i) == i.store \in Stores => KnowsRecord(i, i.store, i.cas)

Answers == {"nothing", "success", "failure"}

-----------------------------------------------------------------------------
(* The states a worker moves to are sound.                                 *)

\* Every worker has a local store, and the stores of its list are stores.
LEMMA SitesType ==
  ASSUME NEW w \in Workers
  PROVE  /\ Sites[w] \in Seq(Stores)
         /\ Len(Sites[w]) \in Nat /\ Len(Sites[w]) >= 1
         /\ \A n \in 1..Len(Sites[w]) : Sites[w][n] \in Stores
<1>1. Sites[w] \in Seq(Stores) /\ Sites[w] # << >>
  BY CacheAssumption
<1> QED
  BY SMTT(30), <1>1

\* An idle worker holds nothing.
LEMMA IdleType ==
  /\ Idle \in WorkerStates
  /\ NoRead \in Reads
<1>1. NoRead \in Reads
  BY DEF NoRead, Reads, Keys, ImpuEntries
<1>2. AbsentMapping \in MappingEntries
  BY DEF AbsentMapping, MappingEntries
<1> QED
  BY SMTT(30), <1>1, <1>2, NewSetType DEF Idle, WorkerStates, Pcs

\* A worker that holds no answers and no mapping, and is not about to write,
\* is informed if its IRS is.
LEMMA InformedMeaning ==
  ASSUME TypeOK, NEW w \in Workers, NEW x \in WorkerStates, Sourced(x.irs),
         x.read.answers = NoRead.answers,
         x.pc \notin DeletePcs \cup RefreshPcs \cup AddPcs,
         x.pc = "set" => KnowsRecord(x.irs, Sites[w][x.site], x.cas)
  PROVE  Informed(w, x)
<1>1. \A s \in Stores : x.read.answers[s] = AbsentImpu
  BY DEF NoRead
<1>2. \A s \in Stores : 0 <= lastCas[s]
  BY SMTT(30) DEF TypeOK
<1>3. \A s \in Stores : StillCurrent(s, x.read.answers[s])
  BY SMTT(30), <1>1, <1>2 DEF StillCurrent, AbsentImpu
<1> QED
  BY <1>3 DEF Informed, Sourced

\* An IRS that no store knows of has no source.
LEMMA NewSetSourced == Sourced(NewSet)
  BY StoreAssumption DEF Sourced, NewSet

\* What an IRS knows survives the operations on it.
LEMMA KnowsGrows ==
  ASSUME NEW i, NEW j, Grows(i, j)
  PROVE  /\ \A s, c : KnowsRecord(i, s, c) => KnowsRecord(j, s, c)
         /\ Sourced(i) => Sourced(j)
  BY DEF Grows, KnowsRecord, Sourced

\* The end of a request (Released) leaves the worker in a sound state.
LEMMA ReleasedSound ==
  ASSUME TypeOK, NEW w \in Workers, NEW a \in Answers
  PROVE  Sound(w, Released(a))
<1> DEFINE y == Released(a)
<1>1. y \in WorkerStates
  BY IdleType DEF Released, WorkerStates, Answers
<1>2. /\ y.pc = "idle" /\ y.site = 1 /\ y.irs = NewSet
      /\ y.read.answers = NoRead.answers
  BY DEF Released, Idle
<1>3. Coherent(w, y)
  BY <1>2, SitesType DEF Coherent, DeletePcs, RefreshPcs, AddPcs
<1>4. Informed(w, y)
  <2> HIDE DEF y
  <2> QED BY <1>1, <1>2, InformedMeaning, NewSetSourced
             DEF DeletePcs, RefreshPcs, AddPcs
<1> QED
  BY <1>1, <1>3, <1>4 DEF Sound, Proper

\* So does turning to one of its stores (Entered): it writes right away only
\* to the store the IRS is from.
LEMMA EnteredSound ==
  ASSUME TypeOK, NEW w \in Workers, NEW x \in WorkerStates, x.req \in Requests,
         NEW i \in ImplicitRegSets, Sourced(i), NEW n \in 1..Len(Sites[w])
  PROVE  Sound(w, Entered(w, x, i, n))
<1> DEFINE y == Entered(w, x, i, n)
<1>1. FirstCall(x, i, Sites[w][n]) \in {"create", "getStored", "delete", "set"}
  BY DEF FirstCall
<1>2. n \in Nat \ {0} /\ n <= Len(Sites[w])
  BY SMTT(30), SitesType
<1>3. y \in WorkerStates
  <2>1. i.cas \in Nat
    BY DEF ImplicitRegSets
  <2>2. FirstCall(x, i, Sites[w][n]) \in Pcs
    BY <1>1 DEF Pcs
  <2> QED
    BY <1>2, <2>1, <2>2, IdleType DEF Entered, WorkerStates
<1>4. /\ y.pc = FirstCall(x, i, Sites[w][n]) /\ y.irs = i /\ y.cas = i.cas
      /\ y.site = n /\ y.req = x.req /\ y.read = NoRead
  BY DEF Entered, Idle
<1>5. Coherent(w, y)
  BY <1>1, <1>2, <1>4 DEF Coherent, DeletePcs, RefreshPcs, AddPcs
<1>6. y.pc = "set" => KnowsRecord(y.irs, Sites[w][y.site], y.cas)
  BY <1>4, SitesType DEF FirstCall, Sourced
<1>7. Informed(w, y)
  <2> HIDE DEF y
  <2> QED BY <1>1, <1>3, <1>4, <1>6, InformedMeaning
             DEF DeletePcs, RefreshPcs, AddPcs
<1> QED
  BY <1>3, <1>5, <1>7 DEF Sound, Proper

\* And leaving a store (Left).
LEMMA LeftSound ==
  ASSUME TypeOK, NEW w \in Workers, NEW x \in WorkerStates, x.req \in Requests,
         Sourced(x.irs), x.site <= Len(Sites[w]), NEW ok \in BOOLEAN
  PROVE  Sound(w, Left(w, x, ok))
<1> DEFINE success == ok \/ x.req.kind = "PPR"
           told    == IF x.site # 1 THEN x.told
                      ELSE IF success THEN "success" ELSE "failure"
           y       == [x EXCEPT !.told = told]
<1>1. told \in Answers
  BY DEF WorkerStates, Answers
<1>2. y \in WorkerStates /\ y.req = x.req
  BY <1>1 DEF WorkerStates, Answers
<1>3. CASE x.site < Len(Sites[w]) /\ (x.site # 1 \/ success)
  <2>1. Left(w, x, ok) = Entered(w, y, x.irs, x.site + 1)
    BY <1>3 DEF Left
  <2>2. x.site + 1 \in 1..Len(Sites[w]) /\ x.irs \in ImplicitRegSets
    BY SMTT(30), <1>3, SitesType DEF WorkerStates
  <2> QED
    BY <1>2, <2>1, <2>2, EnteredSound
<1>4. CASE ~(x.site < Len(Sites[w]) /\ (x.site # 1 \/ success))
  <2>1. Left(w, x, ok) = Released(told)
    BY <1>4 DEF Left
  <2> QED
    BY <1>1, <2>1, ReleasedSound
<1> QED
  BY <1>3, <1>4

\* A worker that keeps what it read and is not about to write stays informed.
LEMMA InformedKept ==
  ASSUME NEW w \in Workers, NEW x, NEW y, Informed(w, x),
         y.read = x.read, Sourced(y.irs), y.pc # "set",
         y.pc \notin DeletePcs \cup RefreshPcs \cup AddPcs
  PROVE  Informed(w, y)
  BY DEF Informed, Sourced

\* The phases, by name.
LEMMA PhasesMeaning ==
  /\ AssocPhases = {"assocDelete", "assocRefresh", "assocAdd"}
  /\ MapPhases = {"mapDelete", "mapRefresh", "mapAdd"}
<1>1. 1..3 = {1, 2, 3} /\ 4..6 = {4, 5, 6}
  BY SMTT(30)
<1> QED
  BY SMTT(30), <1>1 DEF AssocPhases, MapPhases, Phases

\* The references of an IRS are references.
LEMMA WorkListType ==
  ASSUME NEW i \in ImplicitRegSets
  PROVE  WorkList(i) \in SUBSET References
<1>1. /\ \A S : get_elements_in_state(i.impus, S) \subseteq Impus
      /\ \A S : get_elements_in_state(i.impis, S) \subseteq Impis
  BY DEF get_elements_in_state, ImplicitRegSets
<1>2. /\ {"assocDelete", "assocRefresh", "assocAdd"} \subseteq AssocPhases
      /\ {"mapDelete", "mapRefresh", "mapAdd"} \subseteq MapPhases
  BY PhasesMeaning
<1> QED
  BY SMTT(30), <1>1, <1>2 DEF WorkList, References, AssocReferences

\* The IRS's own record is done (RecordDone): a deletion marks everything as
\* DELETED first.
LEMMA RecordDoneSound ==
  ASSUME TypeOK, NEW w \in Workers, NEW x, Sound(w, x), x.pc # "idle"
  PROVE  Sound(w, RecordDone(w, x))
<1> DEFINE i == IF Deleting(x) THEN delete_all(x.irs) ELSE x.irs
           y == [x EXCEPT !.pc = "work", !.irs = i, !.todo = WorkList(i)]
           z == [x EXCEPT !.irs = i]
<1>1. /\ x \in WorkerStates /\ x.irs \in ImplicitRegSets /\ x.req \in Requests
      /\ x.site <= Len(Sites[w])
  BY DEF Sound, Proper, Coherent, WorkerStates
<1>2. i \in ImplicitRegSets /\ Sourced(i)
  <2>1. Sourced(x.irs)
    BY DEF Sound, Informed, Sourced
  <2> QED BY <1>1, <2>1, DeleteAllType, DeleteAllGrows, KnowsGrows
<1>3. CASE WorkList(i) = {}
  <2>1. RecordDone(w, x) = Left(w, z, TRUE)
    BY <1>3 DEF RecordDone
  <2>2. /\ z \in WorkerStates /\ z.req = x.req /\ z.site = x.site
        /\ z.irs = i
    <3> HIDE DEF i
    <3> QED BY <1>1, <1>2 DEF WorkerStates
  <2> HIDE DEF i, z
  <2> QED BY <1>1, <1>2, <2>1, <2>2, LeftSound
<1>4. CASE WorkList(i) # {}
  <2>1. RecordDone(w, x) = y
    BY <1>4 DEF RecordDone
  <2> HIDE DEF i
  <2>2. y \in WorkerStates
    <3>1. WorkList(i) \in SUBSET References
      BY <1>2, WorkListType
    <3> QED BY <1>1, <1>2, <3>1 DEF WorkerStates, Pcs
  <2>3. /\ y.pc = "work" /\ y.irs = i /\ y.read = x.read /\ y.req = x.req
        /\ y.site = x.site
    BY <1>1 DEF WorkerStates
  <2> HIDE DEF y
  <2>4. Coherent(w, y)
    BY <1>1, <2>3 DEF Coherent, DeletePcs, RefreshPcs, AddPcs
  <2>5. Informed(w, y)
    BY <1>2, <2>3, InformedKept DEF Sound, DeletePcs, RefreshPcs, AddPcs
  <2> QED
    BY <2>1, <2>2, <2>4, <2>5 DEF Sound, Proper
<1> QED
  BY <1>3, <1>4

\* One reference is done (ReferenceDone).
LEMMA ReferenceDoneSound ==
  ASSUME TypeOK, NEW w \in Workers, NEW x, Sound(w, x), x.pc # "idle",
         NEW ref, NEW st \in {"OK", "ERROR", "DATA_CONTENTION"}
  PROVE  Sound(w, ReferenceDone(w, x, ref, st))
<1> DEFINE left    == x.todo \ {ref}
           switch  == ref \in AssocReferences /\ left \cap AssocReferences = {}
           abandon == switch /\ Deleting(x) /\ st # "OK"
           status  == IF switch THEN "OK" ELSE st
           y == [x EXCEPT !.pc = "work", !.todo = left, !.item = NoItem,
                          !.mp = AbsentMapping, !.status = status]
<1>1. /\ x \in WorkerStates /\ x.irs \in ImplicitRegSets /\ x.req \in Requests
      /\ x.site <= Len(Sites[w]) /\ Sourced(x.irs)
  BY DEF Sound, Proper, Coherent, WorkerStates, Informed, Sourced
<1>2. CASE left = {} \/ abandon
  <2>1. ReferenceDone(w, x, ref, st) = Left(w, x, ~Deleting(x) \/ st = "OK")
    BY <1>2 DEF ReferenceDone
  <2> QED BY <1>1, <2>1, LeftSound
<1>3. CASE ~(left = {} \/ abandon)
  <2>1. ReferenceDone(w, x, ref, st) = y
    BY <1>3 DEF ReferenceDone
  <2>2. y \in WorkerStates
    <3>1. left \in SUBSET References
      BY <1>1 DEF WorkerStates
    <3>2. status \in {"OK", "ERROR", "DATA_CONTENTION"}
      OBVIOUS
    <3> HIDE DEF left, status
    <3> QED BY <1>1, <3>1, <3>2 DEF WorkerStates, Pcs, AbsentMapping, MappingEntries
  <2>3. /\ y.pc = "work" /\ y.irs = x.irs /\ y.read = x.read /\ y.req = x.req
        /\ y.site = x.site
    BY <1>1 DEF WorkerStates
  <2> HIDE DEF y
  <2>4. Coherent(w, y)
    BY <1>1, <2>3 DEF Coherent, DeletePcs, RefreshPcs, AddPcs
  <2>5. Informed(w, y)
    BY <1>1, <2>3, InformedKept DEF Sound, DeletePcs, RefreshPcs, AddPcs
  <2> QED
    BY <2>1, <2>2, <2>4, <2>5 DEF Sound, Proper
<1> QED
  BY <1>2, <1>3

\* The worker goes on with a reference of the right kind, knowing the mapping
\* it has in hand (Continued).
LEMMA ContinuedSound ==
  ASSUME TypeOK, NEW w \in Workers, NEW x, Sound(w, x), x.pc # "idle",
         NEW pc, NEW ref \in References, NEW m \in MappingEntries,
         NEW st \in {"OK", "ERROR", "DATA_CONTENTION"},
         \/ pc = "assocDelete" /\ ref \in {"assocDelete"} \X Impus
         \/ /\ \/ pc \in DeletePcs /\ ref \in {"mapDelete"} \X Impis
               \/ pc \in RefreshPcs /\ ref \in {"mapRefresh"} \X Impis
               \/ pc \in AddPcs /\ ref \in {"mapAdd"} \X Impis
            /\ KnowsMapping(m, Sites[w][x.site], ref[2], x.irs.default)
  PROVE  Sound(w, Continued(x, ref, pc, m, st))
<1> DEFINE y == Continued(x, ref, pc, m, st)
<1>1. /\ x \in WorkerStates /\ x.req \in Requests /\ x.site <= Len(Sites[w])
  BY DEF Sound, Proper, Coherent
<1>2. pc \in Pcs /\ pc # "set" /\ pc # "idle"
  BY DEF Pcs, DeletePcs, RefreshPcs, AddPcs
<1>3. y \in WorkerStates
  BY <1>1, <1>2 DEF WorkerStates, Continued
<1>4. /\ y.pc = pc /\ y.item = ref /\ y.mp = m
      /\ y.irs = x.irs /\ y.read = x.read /\ y.req = x.req /\ y.site = x.site
  BY <1>1 DEF WorkerStates, Continued
<1> HIDE DEF y
<1>5. Coherent(w, y)
  BY <1>1, <1>2, <1>4 DEF Coherent, DeletePcs, RefreshPcs, AddPcs
<1>6. Informed(w, y)
  <2>1. y.pc \in DeletePcs \cup RefreshPcs \cup AddPcs =>
          KnowsMapping(y.mp, Sites[w][y.site], y.item[2], y.irs.default)
    BY <1>4 DEF DeletePcs, RefreshPcs, AddPcs
  <2>2. Informed(w, x) /\ y.pc # "set"
    BY <1>2, <1>4 DEF Sound
  <2>3. y.irs.store \in Stores => KnowsRecord(y.irs, y.irs.store, y.irs.cas)
    BY <2>2, <1>4 DEF Informed
  <2>4. \A s \in Stores : StillCurrent(s, y.read.answers[s])
    BY <2>2, <1>4 DEF Informed
  <2> QED BY <2>1, <2>2, <2>3, <2>4 DEF Informed
<1> QED
  BY <1>3, <1>5, <1>6 DEF Sound, Proper, y

-----------------------------------------------------------------------------
(* What the handlers make of an IRS.                                       *)

\* An IRS a handler may hold.
Valid(i) == i \in ImplicitRegSets /\ Sourced(i)

\* Registration (Registered) and a call (Unregistered) keep an IRS valid.
LEMMA RegisteredValid ==
  ASSUME NEW i, Valid(i), NEW p \in Impis, NEW xml \in Profiles,
         NEW c \in Charging
  PROVE  Valid(Registered(i, p, xml, c)) /\ Valid(Unregistered(i, xml, c))
<1>1. \A j, reg : Valid(j) /\ reg \in RegistrationStates =>
        Valid(set_ttl(set_ims_sub_xml(set_charging_addresses(
          set_reg_state(j, reg), c), xml)))
  <2> SUFFICES ASSUME NEW j, NEW reg \in RegistrationStates, Valid(j)
               PROVE  Valid(set_ttl(set_ims_sub_xml(set_charging_addresses(
                        set_reg_state(j, reg), c), xml)))
    OBVIOUS
  <2> DEFINE j1 == set_reg_state(j, reg)
             j2 == set_charging_addresses(j1, c)
             j3 == set_ims_sub_xml(j2, xml)
  <2>1. Valid(j1)
    BY SetRegStateType, SettersGrow, KnowsGrows DEF Valid
  <2> HIDE DEF j1
  <2>2. Valid(j2)
    BY <2>1, SetChargingType, SettersGrow, KnowsGrows DEF Valid
  <2> HIDE DEF j2
  <2>3. Valid(j3)
    BY <2>2, SetXmlType, SetXmlGrows, KnowsGrows DEF Valid
  <2> HIDE DEF j3
  <2>4. Valid(set_ttl(j3))
    BY <2>3, RefreshType, SettersGrow, KnowsGrows DEF Valid
  <2> QED BY <2>4 DEF j1, j2, j3
<1>2. Valid(add_associated_impi(i, p))
  BY AddImpiType, AddImpiGrows, KnowsGrows DEF Valid
<1>3. "REGISTERED" \in RegistrationStates /\ "UNREGISTERED" \in RegistrationStates
  BY DEF RegistrationStates
<1> DEFINE known == /\ i.reg = "REGISTERED"
                    /\ i.xml = NoProfile \/ p \in get_associated_impis(i)
           bound == IF known THEN i ELSE add_associated_impi(i, p)
<1>4. Valid(bound)
  BY <1>2
<1>5. Registered(i, p, xml, c) =
        set_ttl(set_ims_sub_xml(set_charging_addresses(
          set_reg_state(bound, "REGISTERED"), c), xml))
  BY DEF Registered
<1> HIDE DEF bound
<1> QED
  BY <1>1, <1>3, <1>4, <1>5 DEF Unregistered

\* A push (Pushed) keeps an IRS valid.
LEMMA PushedValid ==
  ASSUME NEW i, Valid(i), NEW xml \in Profiles \cup {NoProfile},
         NEW c \in Charging
  PROVE  Valid(Pushed(i, xml, c))
<1> DEFINE j == IF xml = NoProfile THEN i ELSE set_ims_sub_xml(i, xml)
<1>1. Valid(j)
  BY SetXmlType, SetXmlGrows, KnowsGrows DEF Valid
<1>2. Pushed(i, xml, c) =
        IF c = NoCharging THEN j ELSE set_charging_addresses(j, c)
  BY DEF Pushed
<1> HIDE DEF j
<1> QED
  BY <1>1, <1>2, SetChargingType, SettersGrow, KnowsGrows DEF Valid

\* So what a handler puts or deletes is valid (PutSets, NewSets).
LEMMA PutSetsValid ==
  ASSUME NEW r \in Requests, NEW i, Valid(i)
  PROVE  /\ \A j \in PutSets(r, i) : Valid(j)
         /\ \A j \in NewSets(r) : Valid(j)
<1>1. r.impi \in Impis /\ r.kind \in Kinds
  BY CacheAssumption
<1>2. HssDocuments(r.impu) \subseteq Profiles
  BY DEF HssDocuments
<1>3. \A xml \in Profiles, c \in Charging : Valid(Registered(i, r.impi, xml, c))
  BY <1>1, RegisteredValid
<1>4. Valid(NewSet)
  BY NewSetType, NewSetSourced DEF Valid
<1>5. \A xml \in Profiles, c \in Charging :
        /\ Valid(Registered(NewSet, r.impi, xml, c))
        /\ Valid(Unregistered(NewSet, xml, c))
  BY <1>1, <1>4, RegisteredValid
<1>6. \A push \in Pushes(i) : Valid(Pushed(i, push[1], push[2]))
  <2>1. \A push \in Pushes(i) :
          push[1] \in Profiles \cup {NoProfile} /\ push[2] \in Charging
    BY DEF Pushes
  <2> QED BY <2>1, PushedValid
<1>7. Valid(mark_as_refreshed(i))
  BY RefreshType, SettersGrow, KnowsGrows DEF Valid
<1>8. Valid(mark_as_refreshed(set_reg_state(i, "NOT_REGISTERED")))
  <2>1. Valid(set_reg_state(i, "NOT_REGISTERED"))
    BY SetRegStateType, SettersGrow, KnowsGrows DEF Valid, RegistrationStates
  <2> QED BY <2>1, RefreshType, SettersGrow, KnowsGrows DEF Valid
<1>9. \A j \in PutSets(r, i) : Valid(j)
  <2>1. CASE r.kind = "REG"
    BY SMTT(30), <2>1, <1>2, <1>3 DEF PutSets
  <2>2. CASE r.kind = "CALL"
    BY SMTT(30), <2>2 DEF PutSets
  <2>3. CASE r.kind = "DEREG"
    BY SMTT(30), <2>3, <1>8 DEF PutSets
  <2>4. CASE r.kind = "RTR"
    BY SMTT(30), <2>4, <1>7 DEF PutSets
  <2>5. CASE r.kind = "PPR"
    BY SMTT(30), <2>5, <1>6 DEF PutSets
  <2> QED BY <1>1, <2>1, <2>2, <2>3, <2>4, <2>5 DEF Kinds
<1>10. \A j \in NewSets(r) : Valid(j)
  <2>1. CASE r.kind = "REG"
    BY SMTT(30), <2>1, <1>2, <1>5 DEF NewSets
  <2>2. CASE r.kind = "CALL"
    BY SMTT(30), <2>2, <1>2, <1>5 DEF NewSets
  <2>3. CASE r.kind \in {"DEREG", "RTR", "PPR"}
    BY SMTT(30), <2>3 DEF NewSets
  <2> QED BY <1>1, <2>1, <2>2, <2>3 DEF Kinds
<1> QED
  BY <1>9, <1>10

\* A handler ends, or turns to its local store with a valid IRS (Handled).
LEMMA HandledSound ==
  ASSUME TypeOK, NEW w \in Workers, NEW x \in WorkerStates, x.req \in Requests,
         NEW sets, \A i \in sets : Valid(i), NEW y \in Handled(w, x, sets)
  PROVE  Sound(w, y)
<1>1. CASE y = Released("nothing")
  BY <1>1, ReleasedSound DEF Answers
<1>2. ASSUME NEW i \in sets, y = Entered(w, x, i, 1)
      PROVE  Sound(w, y)
  <2>1. 1 \in 1..Len(Sites[w])
    BY SMTT(30), SitesType
  <2> QED BY <1>2, <2>1, EnteredSound DEF Valid
<1> QED
  BY <1>1, <1>2 DEF Handled

\* A worker that starts to read has no answers yet.
LEMMA ReadSound ==
  ASSUME TypeOK, NEW w \in Workers, NEW x \in WorkerStates, x.req \in Requests,
         Sourced(x.irs), x.site <= Len(Sites[w]),
         x.pc \in {"get", "follow"}, x.read.answers = NoRead.answers
  PROVE  Sound(w, x)
<1>1. Coherent(w, x)
  BY DEF Coherent, DeletePcs, RefreshPcs, AddPcs
<1>2. Informed(w, x)
  BY InformedMeaning DEF DeletePcs, RefreshPcs, AddPcs
<1> QED
  BY <1>1, <1>2 DEF Sound, Proper

\* A fresh read is a read.
LEMMA FreshRead ==
  ASSUME NEW asked \in Keys, NEW key \in Keys, NEW queue \in SUBSET Keys
  PROVE  [NoRead EXCEPT !.asked = asked, !.key = key, !.queue = queue] \in Reads
  BY IdleType DEF Reads

\* get_implicit_registration_sets_for_impus starts on another key (NextKeys).
LEMMA NextKeysSound ==
  ASSUME TypeOK, NEW w \in Workers, NEW x \in WorkerStates, x.req \in Requests,
         NEW keys \in SUBSET Keys, NEW y \in NextKeys(x, keys)
  PROVE  Sound(w, y)
<1>1. PICK k \in keys :
        y = [Idle EXCEPT !.pc = "get", !.req = x.req,
                         !.read = [NoRead EXCEPT !.asked = k, !.key = k,
                                                 !.queue = keys \ {k}]]
  BY DEF NextKeys
<1> DEFINE rd == [NoRead EXCEPT !.asked = k, !.key = k, !.queue = keys \ {k}]
<1>2. rd \in Reads
  BY FreshRead
<1>3. /\ y.pc = "get" /\ y.req = x.req /\ y.read = rd /\ y.irs = NewSet
      /\ y.site = 1 /\ y.read.answers = NoRead.answers
  BY <1>1 DEF Idle, NoRead
<1>4. y \in WorkerStates
  <2> HIDE DEF rd
  <2>1. y = [Idle EXCEPT !.pc = "get", !.req = x.req, !.read = rd]
    BY <1>1 DEF rd
  <2> QED BY <1>2, <2>1, IdleType DEF WorkerStates, Pcs
<1> HIDE DEF rd
<1> QED
  BY SMTT(40), <1>3, <1>4, SitesType, NewSetSourced, ReadSound

\* There is no IRS (NotFound).
LEMMA NotFoundSound ==
  ASSUME TypeOK, NEW w \in Workers, NEW x \in WorkerStates, x.req \in Requests,
         NEW y \in NotFound(w, x)
  PROVE  Sound(w, y)
<1>1. CASE x.read.queue = {}
  <2>1. \A i \in NewSets(x.req) : Valid(i)
    BY PutSetsValid, NewSetType, NewSetSourced DEF Valid
  <2> QED BY <1>1, <2>1, HandledSound DEF NotFound
<1>2. CASE x.read.queue # {}
  <2>1. x.read.queue \in SUBSET Keys
    BY DEF WorkerStates, Reads
  <2> QED BY <1>2, <2>1, NextKeysSound DEF NotFound
<1> QED
  BY <1>1, <1>2

\* An IRS made from an entry that is still current knows its record.
LEMMA FromImpuValid ==
  ASSUME NEW k \in Keys, NEW s \in Stores, NEW e \in ImpuEntries,
         is_default_impu(e.rec), StillCurrent(s, e)
  PROVE  Valid(FromImpu(k, s, e))
<1> DEFINE j == FromImpu(k, s, e)
<1>1. e.cas # 0
  BY SMTT(30) DEF ImpuEntries, AbsentImpu, NoRecord, is_default_impu
<1>2. /\ j.store = s /\ j.cas = e.cas
      /\ e.rec.impis \subseteq Tracked(j.impis)
      /\ e.rec.assoc \subseteq Tracked(j.impus)
  BY FromImpuSeesRecord
<1>3. j \in ImplicitRegSets
  BY FromImpuType
<1> HIDE DEF j
<1>4. KnowsRecord(j, s, e.cas)
  BY <1>1, <1>2 DEF KnowsRecord, StillCurrent
<1> QED
  BY <1>2, <1>3, <1>4 DEF Valid, Sourced, j

\* A store answered a read with an entry that is still current (Found).
LEMMA FoundSound ==
  ASSUME TypeOK, NEW w \in Workers, NEW x \in WorkerStates, x.req \in Requests,
         Sourced(x.irs), x.site <= Len(Sites[w]),
         NEW s \in Stores, NEW e \in ImpuEntries, IsPresent(e),
         StillCurrent(s, e), NEW y \in Found(w, x, s, e)
  PROVE  Sound(w, y)
<1> DEFINE first == x.pc \in {"get", "getRemote"}
           hit   == /\ is_default_impu(e.rec)
                    /\ first \/ has_associated_impu(e.rec, x.read.asked)
<1>1. x.read \in Reads /\ x.read.key \in Keys /\ x.read.asked \in Keys
      /\ x.read.queue \in SUBSET Keys
  BY DEF WorkerStates, Reads
<1>2. CASE hit
  <2>1. Valid(FromImpu(x.read.key, s, e))
    BY <1>1, <1>2, FromImpuValid
  <2>2. \A i \in PutSets(x.req, FromImpu(x.read.key, s, e)) : Valid(i)
    BY <2>1, PutSetsValid
  <2>3. y \in Handled(w, x, PutSets(x.req, FromImpu(x.read.key, s, e)))
    BY <1>2 DEF Found
  <2> QED BY <2>2, <2>3, HandledSound
<1>3. CASE ~hit /\ first
  <2> DEFINE rd == [NoRead EXCEPT !.asked = x.read.asked, !.key = e.rec.default,
                                  !.queue = x.read.queue]
  <2>1. y = [x EXCEPT !.pc = "follow", !.read = rd]
    BY <1>3 DEF Found
  <2>2. e.rec.default \in Keys
    BY SMTT(40), <1>3 DEF ImpuEntries, AbsentImpu, IsPresent, DefaultImpus,
                AssociatedImpus, is_default_impu
  <2>3. rd \in Reads
    BY <1>1, <2>2, FreshRead
  <2>4. /\ y \in WorkerStates /\ y.pc = "follow" /\ y.read = rd
        /\ y.req = x.req /\ y.irs = x.irs /\ y.site = x.site
    <3> HIDE DEF rd
    <3> QED BY <2>1, <2>3 DEF WorkerStates, Pcs
  <2>5. y.read.answers = NoRead.answers
    BY <2>4 DEF NoRead
  <2> HIDE DEF rd
  <2> QED BY <2>4, <2>5, ReadSound
<1>4. CASE ~hit /\ ~first
  BY <1>4, NotFoundSound DEF Found
<1> QED
  BY <1>2, <1>3, <1>4

-----------------------------------------------------------------------------
(* Store calls.                                                            *)

\* The effect one store call can have.
StoreStep ==
  \/ UNCHANGED stores
  \/ \E s \in Stores, k \in Keys, rec \in DefaultImpus \cup AssociatedImpus :
       WriteImpu(s, k, rec)
  \/ \E s \in Stores, k \in Keys : RemoveImpu(s, k)
  \/ \E s \in Stores, p \in Impis, impus \in SUBSET Keys :
       WriteMapping(s, p, impus)
  \/ \E s \in Stores, p \in Impis : RemoveMapping(s, p)

StoreTypeOK ==
  /\ impu \in [Stores -> [Keys -> ImpuEntries]]
  /\ mapping \in [Stores -> [Impis -> MappingEntries]]
  /\ lastCas \in [Stores -> Nat]

\* The stores keep their type.
LEMMA StoreStepType ==
  ASSUME TypeOK, StoreStep
  PROVE  StoreTypeOK'
<1>1. CASE UNCHANGED stores
  BY <1>1 DEF stores, TypeOK, StoreTypeOK
<1>2. ASSUME NEW s \in Stores, NEW k \in Keys,
             NEW rec \in DefaultImpus \cup AssociatedImpus,
             WriteImpu(s, k, rec)
      PROVE  StoreTypeOK'
  <2>1. lastCas[s] + 1 \in Nat \ {0}
    BY SMTT(30) DEF TypeOK
  <2>2. [cas |-> lastCas[s] + 1, rec |-> rec] \in ImpuEntries
    BY <2>1 DEF ImpuEntries
  <2> QED BY <1>2, <2>1, <2>2 DEF WriteImpu, TypeOK, StoreTypeOK
<1>3. ASSUME NEW s \in Stores, NEW k \in Keys, RemoveImpu(s, k)
      PROVE  StoreTypeOK'
  <2>1. AbsentImpu \in ImpuEntries
    BY DEF ImpuEntries
  <2> QED BY <1>3, <2>1 DEF RemoveImpu, TypeOK, StoreTypeOK
<1>4. ASSUME NEW s \in Stores, NEW p \in Impis, NEW impus \in SUBSET Keys,
             WriteMapping(s, p, impus)
      PROVE  StoreTypeOK'
  <2>1. lastCas[s] + 1 \in Nat
    BY SMTT(30) DEF TypeOK
  <2>2. [cas |-> lastCas[s] + 1, impus |-> impus] \in MappingEntries
    BY <2>1 DEF MappingEntries
  <2> QED BY <1>4, <2>1, <2>2 DEF WriteMapping, TypeOK, StoreTypeOK
<1>5. ASSUME NEW s \in Stores, NEW p \in Impis, RemoveMapping(s, p)
      PROVE  StoreTypeOK'
  <2>1. AbsentMapping \in MappingEntries
    BY DEF AbsentMapping, MappingEntries
  <2> QED BY <1>5, <2>1 DEF RemoveMapping, TypeOK, StoreTypeOK
<1> QED
  BY <1>1, <1>2, <1>3, <1>4, <1>5 DEF StoreStep

\* What a store call does to any one entry: it keeps it, removes it or gives
\* it a new CAS value; and at most one entry gets the new value.
LEMMA StoreStepEffect ==
  ASSUME TypeOK, CasInv, StoreStep, NEW t \in Stores
  PROVE  /\ lastCas'[t] \in Nat /\ lastCas[t] <= lastCas'[t]
         /\ \A k \in Keys :
              \/ impu'[t][k] = impu[t][k]
              \/ impu'[t][k].cas = lastCas[t] + 1 /\ lastCas'[t] = lastCas[t] + 1
              \/ impu'[t][k] = AbsentImpu
         /\ \A k, l \in Keys :
              impu'[t][k].cas = lastCas[t] + 1
              /\ impu'[t][l].cas = lastCas[t] + 1 => k = l
         /\ \A p \in Impis :
              \/ mapping'[t][p] = mapping[t][p]
              \/ /\ mapping'[t][p].cas = lastCas[t] + 1
                 /\ lastCas'[t] = lastCas[t] + 1
              \/ mapping'[t][p] = AbsentMapping
<1>1. /\ lastCas[t] \in Nat
      /\ \A k \in Keys : impu[t][k].cas \in Nat /\ impu[t][k].cas <= lastCas[t]
  <2>1. lastCas[t] \in Nat /\ \A k \in Keys : impu[t][k] \in ImpuEntries
    BY DEF TypeOK
  <2>2. \A k \in Keys : impu[t][k].cas <= lastCas[t]
    BY DEF CasInv
  <2> QED BY <2>1, <2>2, EntryKinds
<1>2. CASE UNCHANGED stores
  BY SMTT(30), <1>1, <1>2 DEF stores
<1>3. ASSUME NEW s \in Stores, NEW k \in Keys,
             NEW rec \in DefaultImpus \cup AssociatedImpus,
             WriteImpu(s, k, rec)
      PROVE  /\ lastCas'[t] = IF s = t THEN lastCas[t] + 1 ELSE lastCas[t]
             /\ \A l \in Keys :
                  impu'[t][l] = IF s = t /\ k = l
                                THEN [cas |-> lastCas[t] + 1, rec |-> rec]
                                ELSE impu[t][l]
             /\ mapping' = mapping
  BY <1>3 DEF WriteImpu, TypeOK
<1>4. ASSUME NEW s \in Stores, NEW k \in Keys, RemoveImpu(s, k)
      PROVE  /\ lastCas' = lastCas /\ mapping' = mapping
             /\ \A l \in Keys :
                  impu'[t][l] = IF s = t /\ k = l THEN AbsentImpu
                                ELSE impu[t][l]
  BY <1>4 DEF RemoveImpu, TypeOK
<1>5. ASSUME NEW s \in Stores, NEW p \in Impis, NEW impus \in SUBSET Keys,
             WriteMapping(s, p, impus)
      PROVE  /\ lastCas'[t] = IF s = t THEN lastCas[t] + 1 ELSE lastCas[t]
             /\ impu' = impu
             /\ \A q \in Impis :
                  mapping'[t][q] = IF s = t /\ p = q
                                   THEN [cas |-> lastCas[t] + 1, impus |-> impus]
                                   ELSE mapping[t][q]
  BY <1>5 DEF WriteMapping, TypeOK
<1>6. ASSUME NEW s \in Stores, NEW p \in Impis, RemoveMapping(s, p)
      PROVE  /\ lastCas' = lastCas /\ impu' = impu
             /\ \A q \in Impis :
                  mapping'[t][q] = IF s = t /\ p = q THEN AbsentMapping
                                   ELSE mapping[t][q]
  BY <1>6 DEF RemoveMapping, TypeOK
<1>7. CASE \E s \in Stores, k \in Keys,
             rec \in DefaultImpus \cup AssociatedImpus : WriteImpu(s, k, rec)
  <2>1. PICK s \in Stores, k \in Keys,
             rec \in DefaultImpus \cup AssociatedImpus : WriteImpu(s, k, rec)
    BY <1>7
  <2>2. /\ lastCas'[t] = IF s = t THEN lastCas[t] + 1 ELSE lastCas[t]
        /\ \A l \in Keys :
             impu'[t][l] = IF s = t /\ k = l
                           THEN [cas |-> lastCas[t] + 1, rec |-> rec]
                           ELSE impu[t][l]
        /\ mapping' = mapping
    BY <1>3, <2>1
  <2> QED BY SMTT(30), <1>1, <2>2
<1>8. CASE \E s \in Stores, k \in Keys : RemoveImpu(s, k)
  BY SMTT(30), <1>1, <1>4, <1>8 DEF AbsentImpu
<1>9. CASE \E s \in Stores, p \in Impis, impus \in SUBSET Keys :
             WriteMapping(s, p, impus)
  <2>1. PICK s \in Stores, p \in Impis, impus \in SUBSET Keys :
               WriteMapping(s, p, impus)
    BY <1>9
  <2>2. /\ lastCas'[t] = IF s = t THEN lastCas[t] + 1 ELSE lastCas[t]
        /\ impu' = impu
        /\ \A q \in Impis :
             mapping'[t][q] = IF s = t /\ p = q
                              THEN [cas |-> lastCas[t] + 1, impus |-> impus]
                              ELSE mapping[t][q]
    BY <1>5, <2>1
  <2> QED BY SMTT(30), <1>1, <2>2
<1>10. CASE \E s \in Stores, p \in Impis : RemoveMapping(s, p)
  BY SMTT(30), <1>1, <1>6, <1>10
<1> QED
  BY <1>2, <1>7, <1>8, <1>9, <1>10 DEF StoreStep

\* CAS values keep identifying writes.
LEMMA StoreStepCas ==
  ASSUME TypeOK, CasInv, StoreStep
  PROVE  CasInv'
<1>1. \A t \in Stores :
        /\ lastCas[t] \in Nat
        /\ \A k \in Keys : impu[t][k].cas \in Nat /\ impu[t][k].cas <= lastCas[t]
        /\ \A p \in Impis : mapping[t][p].cas \in Nat
                            /\ mapping[t][p].cas <= lastCas[t]
        /\ \A k, l \in Keys : impu[t][k].cas = impu[t][l].cas =>
                                impu[t][k].cas = 0 \/ k = l
  BY SMTT(30) DEF TypeOK, CasInv, ImpuEntries, AbsentImpu, MappingEntries
<1>2. ASSUME NEW t \in Stores
      PROVE  /\ \A k \in Keys : impu'[t][k].cas <= lastCas'[t]
             /\ \A p \in Impis : mapping'[t][p].cas <= lastCas'[t]
             /\ \A k, l \in Keys : impu'[t][k].cas = impu'[t][l].cas =>
                                     impu'[t][k].cas = 0 \/ k = l
  BY SMTT(30), <1>1, StoreStepEffect DEF AbsentImpu, AbsentMapping
<1> QED
  BY <1>2 DEF CasInv

\* A worker that makes no step itself stays informed: whatever is written gets
\* a CAS value above every one it holds.
LEMMA StoreStepInformed ==
  ASSUME TypeOK, CasInv, StoreStep, NEW w \in Workers, NEW x,
         Proper(w, x), Informed(w, x)
  PROVE  Informed(w, x)'
<1>0. \A s \in Stores : lastCas'[s] \in Nat /\ lastCas[s] <= lastCas'[s]
  BY StoreStepEffect
<1>1. ASSUME NEW s \in Stores, NEW c \in Nat, NEW i, KnowsRecord(i, s, c)
      PROVE  KnowsRecord(i, s, c)'
  <2>1. c <= lastCas[s] /\ lastCas[s] \in Nat
    BY <1>1 DEF KnowsRecord, TypeOK
  <2>2. c <= lastCas'[s]
    BY SMTT(30), <1>0, <2>1
  <2>3. \A k \in Keys : impu'[s][k].cas = c /\ is_default_impu(impu'[s][k].rec)
                          => impu'[s][k] = impu[s][k]
    <3>1. \A k \in Keys :
            \/ impu'[s][k] = impu[s][k]
            \/ impu'[s][k].cas = lastCas[s] + 1
            \/ impu'[s][k] = AbsentImpu
      BY StoreStepEffect
    <3> QED BY SMTT(30), <2>1, <3>1 DEF AbsentImpu, NoRecord, is_default_impu
  <2> QED BY <1>1, <2>2, <2>3 DEF KnowsRecord
<1>2. ASSUME NEW s \in Stores, NEW e \in ImpuEntries, StillCurrent(s, e)
      PROVE  StillCurrent(s, e)'
  <2>1. e.cas <= lastCas[s] /\ lastCas[s] \in Nat /\ e.cas \in Nat
    BY SMTT(30), <1>2 DEF StillCurrent, TypeOK, ImpuEntries, AbsentImpu
  <2>2. e.cas <= lastCas'[s]
    BY SMTT(30), <1>0, <2>1
  <2>3. \A k \in Keys : impu'[s][k].cas = e.cas /\ e.cas # 0 =>
                          impu'[s][k] = impu[s][k]
    <3>1. \A k \in Keys :
            \/ impu'[s][k] = impu[s][k]
            \/ impu'[s][k].cas = lastCas[s] + 1
            \/ impu'[s][k] = AbsentImpu
      BY StoreStepEffect
    <3> QED BY SMTT(30), <2>1, <3>1 DEF AbsentImpu
  <2> QED BY <1>2, <2>2, <2>3 DEF StillCurrent
<1>3. ASSUME NEW s \in Stores, NEW p \in Impis, NEW m \in MappingEntries, NEW d,
             KnowsMapping(m, s, p, d)
      PROVE  KnowsMapping(m, s, p, d)'
  <2>1. m.cas <= lastCas[s] /\ lastCas[s] \in Nat /\ m.cas \in Nat
    BY <1>3 DEF KnowsMapping, TypeOK, MappingEntries
  <2>2. m.cas <= lastCas'[s]
    BY SMTT(30), <1>0, <2>1
  <2>3. mapping'[s][p].cas = m.cas /\ m.cas # 0 =>
          mapping'[s][p] = mapping[s][p]
    <3>1. \/ mapping'[s][p] = mapping[s][p]
          \/ mapping'[s][p].cas = lastCas[s] + 1
          \/ mapping'[s][p] = AbsentMapping
      BY StoreStepEffect
    <3> QED BY SMTT(30), <2>1, <3>1 DEF AbsentMapping
  <2> QED BY <1>3, <2>2, <2>3 DEF KnowsMapping
<1>4. /\ x.irs.cas \in Nat /\ x.cas \in Nat /\ x.mp \in MappingEntries
      /\ \A s \in Stores : x.read.answers[s] \in ImpuEntries
      /\ Sites[w][x.site] \in Stores
      /\ x.pc \in DeletePcs \cup RefreshPcs \cup AddPcs => x.item[2] \in Impis
  <2>1. x \in WorkerStates /\ x.site <= Len(Sites[w])
    BY DEF Proper, Coherent
  <2>2. Sites[w][x.site] \in Stores
    <3>1. x.site \in Nat \ {0}
      BY <2>1 DEF WorkerStates
    <3> QED BY SMTT(30), <2>1, <3>1, SitesType
  <2>3. x.irs.cas \in Nat /\ x.cas \in Nat /\ x.mp \in MappingEntries
    BY <2>1 DEF WorkerStates, ImplicitRegSets
  <2>4. \A s \in Stores : x.read.answers[s] \in ImpuEntries
    BY <2>1 DEF WorkerStates, Reads
  <2>5. x.pc \in DeletePcs \cup RefreshPcs \cup AddPcs => x.item[2] \in Impis
    BY DEF Proper, Coherent
  <2> QED BY <2>2, <2>3, <2>4, <2>5
<1>5. x.irs.store \in Stores => KnowsRecord(x.irs, x.irs.store, x.irs.cas)'
  BY <1>1, <1>4 DEF Informed
<1>6. x.pc = "set" => KnowsRecord(x.irs, Sites[w][x.site], x.cas)'
  BY <1>1, <1>4 DEF Informed
<1>7. \A s \in Stores : StillCurrent(s, x.read.answers[s])'
  BY <1>2, <1>4 DEF Informed
<1>8. x.pc \in DeletePcs \cup RefreshPcs \cup AddPcs =>
        KnowsMapping(x.mp, Sites[w][x.site], x.item[2], x.irs.default)'
  BY <1>3, <1>4 DEF Informed
<1> QED
  BY <1>5, <1>6, <1>7, <1>8 DEF Informed

\* A store call keeps what a worker knows: whatever it writes gets a new CAS.
LEMMA StoreStepState ==
  ASSUME TypeOK, CasInv, StoreStep, NEW w \in Workers, NEW x,
         Sound(w, x), StateKnown(w, x)
  PROVE  StateKnown(w, x)'
<1> SUFFICES ASSUME x.pc = "set"
             PROVE  KnowsState(x.irs, Sites[w][x.site], x.cas)'
  BY DEF StateKnown
<1> DEFINE s == Sites[w][x.site]
<1>1. s \in Stores /\ x.cas \in Nat
  BY SMTT(30), SitesType DEF Sound, Proper, Coherent, WorkerStates
<1>2. x.cas <= lastCas[s] /\ lastCas[s] \in Nat
  BY <1>1 DEF Sound, Informed, KnowsRecord, TypeOK
<1>3. KnowsState(x.irs, s, x.cas)
  BY DEF StateKnown
<1> HIDE DEF s
<1>4. \A k \in Keys : impu'[s][k].cas = x.cas /\ is_default_impu(impu'[s][k].rec)
                         => impu'[s][k] = impu[s][k]
  <2>1. ~is_default_impu(AbsentImpu.rec)
    BY DEF AbsentImpu, NoRecord, is_default_impu
  <2>2. \A k \in Keys : \/ impu'[s][k] = impu[s][k]
                        \/ impu'[s][k].cas = lastCas[s] + 1
                        \/ impu'[s][k] = AbsentImpu
    BY <1>1, StoreStepEffect
  <2>3. x.cas # lastCas[s] + 1
    BY SMTT(30), <1>1, <1>2
  <2> QED BY <2>1, <2>2, <2>3
<1>5. KnowsState(x.irs, s, x.cas)'
  BY <1>3, <1>4 DEF KnowsState
<1> QED BY <1>5 DEF s

-----------------------------------------------------------------------------
(* The actions on the records of subscribers.                              *)

Inv == TypeInv /\ KnowledgeInv

Counters == ops' \in 0..MaxOps /\ upsets' \in 0..MaxUpsets

\* What a step of worker w comes down to: at most one change of a store, and
\* a sound new state for w.
Moves(w) ==
  /\ StoreStep
  /\ \E y : Sound(w, y) /\ Become(w, y)
  /\ Counters

\* The bounds are kept.
LEMMA CountersType ==
  ASSUME TypeOK, UNCHANGED ops, Answered \/ \E kind : Upset(kind)
  PROVE  Counters
  BY SMTT(30), CacheAssumption DEF TypeOK, Answered, Upset, Counters

\* A worker is in a sound state, at one of its stores.
LEMMA WorkerSound ==
  ASSUME Inv, NEW w \in Workers
  PROVE  /\ TypeOK /\ CasInv
         /\ Sound(w, worker[w]) /\ worker[w] \in WorkerStates
         /\ Coherent(w, worker[w]) /\ Informed(w, worker[w])
         /\ Sourced(worker[w].irs) /\ worker[w].irs \in ImplicitRegSets
         /\ worker[w].site <= Len(Sites[w])
         /\ Store(w) = Sites[w][worker[w].site] /\ Store(w) \in Stores
         /\ LocalStore(w) \in Stores /\ RemoteStores(w) \in SUBSET Stores
         /\ worker[w].irs.default \in Keys
         /\ worker[w].pc # "idle" => worker[w].req \in Requests
<1>1. TypeOK /\ CasInv /\ Coherent(w, worker[w]) /\ Informed(w, worker[w])
  BY DEF Inv, TypeInv, KnowledgeInv
<1>2. worker[w] \in WorkerStates
  BY <1>1 DEF TypeOK
<1>3. /\ worker[w].irs \in ImplicitRegSets
      /\ worker[w].site \in Nat \ {0}
  BY <1>2 DEF WorkerStates
<1>4. /\ worker[w].site <= Len(Sites[w])
      /\ worker[w].pc # "idle" => worker[w].req \in Requests
  BY <1>1 DEF Coherent
<1>5. Store(w) = Sites[w][worker[w].site] /\ Store(w) \in Stores
  BY SMTT(30), <1>3, <1>4, SitesType DEF Store
<1>6. LocalStore(w) \in Stores /\ RemoteStores(w) \in SUBSET Stores
  BY SMTT(30), SitesType DEF LocalStore, RemoteStores
<1>7. worker[w].irs.default \in Keys
  BY <1>3, SMTT(40) DEF ImplicitRegSets
<1>8. Sound(w, worker[w]) /\ Sourced(worker[w].irs)
  BY <1>1, <1>2 DEF Sound, Proper, Sourced, Informed
<1> QED
  BY <1>1, <1>2, <1>3, <1>4, <1>5, <1>6, <1>7, <1>8

\* An entry is current when it is read.
LEMMA ReadIsCurrent ==
  ASSUME TypeOK, CasInv, NEW s \in Stores, NEW k \in Keys
  PROVE  /\ StillCurrent(s, impu[s][k]) /\ StillCurrent(s, AbsentImpu)
         /\ impu[s][k] \in ImpuEntries
<1>1. impu[s][k] \in ImpuEntries /\ lastCas[s] \in Nat
  BY DEF TypeOK
<1>2. StillCurrent(s, impu[s][k])
  BY DEF CasInv, StillCurrent
<1>3. StillCurrent(s, AbsentImpu)
  BY SMTT(30), <1>1 DEF StillCurrent, AbsentImpu
<1> QED
  BY <1>1, <1>2, <1>3

\* A request is accepted (Start).
LEMMA StartMoves ==
  ASSUME Inv, NEW w \in Workers, NEW r \in Requests, Start(w, r)
  PROVE  Moves(w)
<1>1. TypeOK
  BY DEF Inv, TypeInv
<1>2. Counters
  BY SMTT(30), <1>1, CacheAssumption DEF Start, TypeOK, Counters
<1>3. StoreStep
  BY DEF Start, StoreStep
<1>4. r.impu \in Keys
  BY CacheAssumption DEF Keys
<1>5. CASE r.kind \in {"RTR", "PPR"}
  <2> DEFINE y == [Idle EXCEPT !.pc = "getMapping", !.req = r]
  <2>1. Become(w, y)
    BY <1>5 DEF Start
  <2>2. y \in WorkerStates
    BY IdleType DEF WorkerStates, Pcs
  <2>3. /\ y.pc = "getMapping" /\ y.req = r /\ y.irs = NewSet /\ y.site = 1
        /\ y.read = NoRead
    BY DEF Idle
  <2> HIDE DEF y
  <2>4. Coherent(w, y)
    BY <2>3, SitesType DEF Coherent, DeletePcs, RefreshPcs, AddPcs
  <2>5. Informed(w, y)
    BY <1>1, <2>2, <2>3, NewSetSourced, InformedMeaning
       DEF DeletePcs, RefreshPcs, AddPcs
  <2> QED BY <1>2, <1>3, <2>1, <2>2, <2>4, <2>5
             DEF Moves, Sound, Proper
<1>6. CASE r.kind \notin {"RTR", "PPR"}
  <2> DEFINE rd == [NoRead EXCEPT !.asked = r.impu, !.key = r.impu]
             y  == [Idle EXCEPT !.pc = "get", !.req = r, !.read = rd]
  <2>1. Become(w, y)
    BY <1>6 DEF Start
  <2>2. rd \in Reads /\ rd.answers = NoRead.answers
    BY <1>4, IdleType DEF Reads
  <2> HIDE DEF rd
  <2>3. y \in WorkerStates
    BY <2>2, IdleType DEF WorkerStates, Pcs
  <2>4. /\ y.pc = "get" /\ y.req = r /\ y.irs = NewSet /\ y.site = 1
        /\ y.read = rd
    BY DEF Idle
  <2> HIDE DEF y
  <2>5. Sound(w, y)
    BY <1>1, <2>2, <2>3, <2>4, NewSetSourced, SitesType, ReadSound
  <2> QED BY <1>2, <1>3, <2>1, <2>5 DEF Moves
<1> QED
  BY <1>5, <1>6

\* get_impi_mapping_gr.
LEMMA GetMappingMoves ==
  ASSUME Inv, NEW w \in Workers, GetMapping(w)
  PROVE  Moves(w)
<1> DEFINE x == worker[w]
           entry == mapping[Store(w)][x.req.impi]
           next == [x EXCEPT !.site = x.site + 1]
           Absent == IF x.site < Len(Sites[w])
                     THEN Become(w, [x EXCEPT !.site = @ + 1])
                     ELSE Become(w, Released("nothing"))
<1>1. /\ TypeOK /\ Sound(w, x) /\ x \in WorkerStates /\ Store(w) \in Stores
      /\ x.req \in Requests
  BY WorkerSound DEF GetMapping
<1>2. Counters
  BY <1>1, CountersType DEF GetMapping, Fails
<1>3. StoreStep
  BY DEF GetMapping, StoreStep
<1>4. entry.impus \in SUBSET Keys
  <2>1. x.req.impi \in Impis
    BY <1>1, CacheAssumption
  <2> QED BY SMTT(30), <1>1, <2>1 DEF TypeOK, MappingEntries
<1>5. Sound(w, Released("nothing"))
  BY <1>1, ReleasedSound DEF Answers
<1>6. x.site < Len(Sites[w]) => Sound(w, next)
  <2> SUFFICES ASSUME x.site < Len(Sites[w])
               PROVE  Sound(w, next)
    OBVIOUS
  <2>1. next \in WorkerStates /\ next.site <= Len(Sites[w])
    BY SMTT(40), <1>1, SitesType DEF WorkerStates
  <2>2. /\ next.pc = x.pc /\ next.req = x.req /\ next.irs = x.irs
        /\ next.read = x.read /\ x.pc = "getMapping"
    BY <1>1 DEF WorkerStates, GetMapping
  <2>3. Sourced(x.irs) /\ Informed(w, x)
    BY WorkerSound
  <2> HIDE DEF next, x
  <2>4. Coherent(w, next)
    BY <1>1, <2>1, <2>2 DEF Coherent, DeletePcs, RefreshPcs, AddPcs
  <2>5. Informed(w, next)
    BY <2>2, <2>3, InformedKept DEF DeletePcs, RefreshPcs, AddPcs
  <2> QED BY <2>1, <2>4, <2>5 DEF Sound, Proper
<1>7. CASE \E y \in NextKeys(x, entry.impus) : Become(w, y)
  BY <1>1, <1>2, <1>3, <1>4, <1>7, NextKeysSound DEF Moves
<1>8. CASE Absent
  BY <1>2, <1>3, <1>5, <1>6, <1>8 DEF Moves
<1>9. CASE Become(w, Released("nothing"))
  BY <1>2, <1>3, <1>5, <1>9 DEF Moves
<1> QED
  BY <1>7, <1>8, <1>9 DEF GetMapping

\* get_impu_for_impu_gr, the local store.
LEMMA GetImpuMoves ==
  ASSUME Inv, NEW w \in Workers, GetImpu(w)
  PROVE  Moves(w)
<1> DEFINE x == worker[w]
           entry == impu[LocalStore(w)][x.read.key]
           pc == IF x.pc = "get" THEN "getRemote" ELSE "followRemote"
           y == [x EXCEPT !.pc = pc, !.read.unread = RemoteStores(w)]
<1>1. /\ TypeOK /\ CasInv /\ Sound(w, x) /\ x \in WorkerStates
      /\ LocalStore(w) \in Stores /\ RemoteStores(w) \in SUBSET Stores
      /\ x.req \in Requests /\ Sourced(x.irs) /\ x.site <= Len(Sites[w])
      /\ x.pc \in {"get", "follow"}
  BY WorkerSound DEF GetImpu
<1>2. Counters
  BY <1>1, CountersType DEF GetImpu, Fails
<1>3. StoreStep
  BY DEF GetImpu, StoreStep
<1>4. x.read.key \in Keys /\ x.read \in Reads
  BY <1>1 DEF WorkerStates, Reads
<1>5. StillCurrent(LocalStore(w), entry) /\ entry \in ImpuEntries
  BY <1>1, <1>4, ReadIsCurrent, SMTT(40)
<1>6. ASSUME IsPresent(entry), NEW z \in Found(w, x, LocalStore(w), entry)
      PROVE  Sound(w, z)
  BY <1>1, <1>5, <1>6, FoundSound
<1>7. ASSUME NEW z \in NotFound(w, x)
      PROVE  Sound(w, z)
  BY <1>1, <1>7, NotFoundSound
<1>8. Sound(w, Released("nothing"))
  BY <1>1, ReleasedSound DEF Answers
<1>9. Sound(w, y)
  <2> DEFINE rd == [x.read EXCEPT !.unread = RemoteStores(w)]
  <2>1. rd \in Reads /\ rd.answers = x.read.answers
    BY <1>1, <1>4 DEF Reads
  <2>2. y = [x EXCEPT !.pc = pc, !.read = rd]
    BY <1>1 DEF WorkerStates
  <2> HIDE DEF rd
  <2>3. pc \in Pcs
    BY DEF Pcs
  <2>4. /\ y \in WorkerStates /\ y.pc = pc /\ y.read = rd
        /\ y.req = x.req /\ y.irs = x.irs /\ y.site = x.site
    BY <1>1, <2>1, <2>2, <2>3 DEF WorkerStates
  <2>5. pc \in {"getRemote", "followRemote"}
    OBVIOUS
  <2>6. Informed(w, x)
    BY <1>1 DEF Sound
  <2> HIDE DEF y, pc, x
  <2>7. Coherent(w, y)
    BY <1>1, <2>4, <2>5 DEF Coherent, DeletePcs, RefreshPcs, AddPcs
  <2>8. Informed(w, y)
    <3>1. /\ y.pc # "set" /\ y.pc \notin DeletePcs \cup RefreshPcs \cup AddPcs
      BY <2>4, <2>5 DEF DeletePcs, RefreshPcs, AddPcs
    <3>2. y.irs = x.irs /\ y.read.answers = x.read.answers
      BY <2>1, <2>4
    <3> QED BY <2>6, <3>1, <3>2 DEF Informed
  <2> QED BY <2>4, <2>7, <2>8 DEF Sound, Proper
<1>10. \/ IsPresent(entry) /\ \E z \in Found(w, x, LocalStore(w), entry) : Become(w, z)
       \/ \E z \in NotFound(w, x) : Become(w, z)
       \/ Become(w, y)
       \/ Become(w, Released("nothing"))
  BY DEF GetImpu
<1> HIDE DEF y, entry, x
<1> QED
  BY <1>2, <1>3, <1>6, <1>7, <1>8, <1>9, <1>10 DEF Moves

\* get_impu_for_impu_gr, a remote store.
LEMMA GetRemoteImpuMoves ==
  ASSUME Inv, NEW w \in Workers, NEW s \in Stores, GetRemoteImpu(w, s)
  PROVE  Moves(w)
<1> DEFINE x == worker[w]
           Y(e) == [x EXCEPT !.read.answers[s] = e, !.read.unread = @ \ {s}]
           Has(e, n) == IsPresent(Y(e).read.answers[Sites[w][n]])
           F(e) == {n \in 2..Len(Sites[w]) :
                      Has(e, n) /\ \A m \in 2..(n - 1) : ~Has(e, m)}
           Answer(e) ==
             IF Y(e).read.unread # {} THEN Become(w, Y(e))
             ELSE IF F(e) = {} THEN \E z \in NotFound(w, Y(e)) : Become(w, z)
             ELSE \E n \in F(e) :
                  \E z \in Found(w, Y(e), Sites[w][n],
                                 Y(e).read.answers[Sites[w][n]]) :
                    Become(w, z)
<1>1. /\ TypeOK /\ CasInv /\ Sound(w, x) /\ x \in WorkerStates
      /\ x.req \in Requests /\ Sourced(x.irs) /\ x.site <= Len(Sites[w])
      /\ x.pc \in {"getRemote", "followRemote"}
  BY WorkerSound DEF GetRemoteImpu
<1>2. Counters
  BY <1>1, CountersType DEF GetRemoteImpu, Fails
<1>3. StoreStep
  BY DEF GetRemoteImpu, StoreStep
<1>4. x.read.key \in Keys /\ x.read \in Reads
  BY <1>1 DEF WorkerStates, Reads
<1>5. \E e \in ImpuEntries : StillCurrent(s, e) /\ Answer(e)
  <2>1. Answer(impu[s][x.read.key]) \/ Answer(AbsentImpu)
    BY DEF GetRemoteImpu
  <2> HIDE DEF Answer, x
  <2> QED BY SMTT(40), <1>1, <1>4, <2>1, ReadIsCurrent DEF ImpuEntries
<1>6. PICK e \in ImpuEntries : StillCurrent(s, e) /\ Answer(e)
  BY <1>5
<1> DEFINE y == Y(e)
<1>7. /\ y \in WorkerStates /\ y.pc = x.pc
      /\ y.req = x.req /\ y.irs = x.irs /\ y.site = x.site
      /\ \A t \in Stores : y.read.answers[t] = IF t = s THEN e ELSE x.read.answers[t]
  <2> DEFINE rd == [x.read EXCEPT !.answers[s] = e, !.unread = @ \ {s}]
  <2>1. rd \in Reads
    BY <1>4 DEF Reads
  <2>2. \A t \in Stores : rd.answers[t] = IF t = s THEN e ELSE x.read.answers[t]
    BY <1>4 DEF Reads
  <2>3. y = [x EXCEPT !.read = rd]
    BY <1>1, <1>4 DEF WorkerStates, Reads
  <2> HIDE DEF rd, y
  <2> QED BY <1>1, <2>1, <2>2, <2>3 DEF WorkerStates
<1>8. Informed(w, x)
  BY <1>1 DEF Sound
<1>9. \A t \in Stores : /\ StillCurrent(t, y.read.answers[t])
                        /\ y.read.answers[t] \in ImpuEntries
  <2>1. \A t \in Stores : /\ StillCurrent(t, x.read.answers[t])
                          /\ x.read.answers[t] \in ImpuEntries
    BY <1>4, <1>8 DEF Informed, Reads
  <2> HIDE DEF y, x
  <2> QED BY <1>6, <1>7, <2>1
<1>10. Sound(w, y)
  <2> HIDE DEF y, x
  <2>1. Coherent(w, y)
    BY <1>1, <1>7 DEF Coherent, DeletePcs, RefreshPcs, AddPcs
  <2>2. Informed(w, y)
    BY <1>1, <1>7, <1>8, <1>9
       DEF Informed, Sourced, DeletePcs, RefreshPcs, AddPcs
  <2> QED BY <1>7, <2>1, <2>2 DEF Sound, Proper
<1>11. ASSUME NEW z \in NotFound(w, y)
       PROVE  Sound(w, z)
  <2> HIDE DEF y, x
  <2> QED BY <1>1, <1>7, <1>11, NotFoundSound, SMTT(40)
<1>12. ASSUME NEW n \in 2..Len(Sites[w]),
              IsPresent(y.read.answers[Sites[w][n]]),
              NEW z \in Found(w, y, Sites[w][n], y.read.answers[Sites[w][n]])
       PROVE  Sound(w, z)
  <2>1. Sites[w][n] \in Stores
    BY SMTT(40), SitesType
  <2> HIDE DEF y, x
  <2> QED BY <1>1, <1>7, <1>9, <1>12, <2>1, FoundSound
<1>13. \/ Become(w, y)
       \/ \E z \in NotFound(w, y) : Become(w, z)
       \/ \E n \in 2..Len(Sites[w]) :
            /\ IsPresent(y.read.answers[Sites[w][n]])
            /\ \E z \in Found(w, y, Sites[w][n], y.read.answers[Sites[w][n]]) :
                 Become(w, z)
  BY <1>6
<1> HIDE DEF y
<1> QED
  BY <1>2, <1>3, <1>10, <1>11, <1>12, <1>13 DEF Moves

\* Writing the record of worker w's IRS is a store step.
LEMMA WriteRecordStep ==
  ASSUME Inv, NEW w \in Workers
  PROVE  /\ WriteImpu(Store(w), worker[w].irs.default, create_impu(worker[w].irs))
              => StoreStep
         /\ RemoveImpu(Store(w), worker[w].irs.default) => StoreStep
         /\ UNCHANGED stores => StoreStep
<1>1. /\ Store(w) \in Stores /\ worker[w].irs.default \in Keys
      /\ create_impu(worker[w].irs) \in DefaultImpus
  BY WorkerSound, CreateImpuType
<1> QED
  BY <1>1 DEF StoreStep

\* create_irs_impu.
LEMMA CreateImpuMoves ==
  ASSUME Inv, NEW w \in Workers, CreateImpu(w)
  PROVE  Moves(w)
<1> DEFINE x == worker[w]
<1>1. /\ TypeOK /\ Sound(w, x) /\ x \in WorkerStates /\ x.pc = "create"
      /\ x.req \in Requests /\ Sourced(x.irs) /\ x.site <= Len(Sites[w])
  BY WorkerSound DEF CreateImpu
<1>2. Counters
  BY <1>1, CountersType DEF CreateImpu, Fails
<1>3. StoreStep
  BY WriteRecordStep DEF CreateImpu
<1>4. Sound(w, RecordDone(w, x)) /\ Sound(w, Left(w, x, FALSE))
  BY <1>1, RecordDoneSound, LeftSound
<1>5. Become(w, RecordDone(w, x)) \/ Become(w, Left(w, x, FALSE))
  BY DEF CreateImpu
<1> QED
  BY <1>2, <1>3, <1>4, <1>5 DEF Moves

\* perform_irs_impu_action, the write.
LEMMA SetImpuMoves ==
  ASSUME Inv, NEW w \in Workers, SetImpu(w)
  PROVE  Moves(w)
<1> DEFINE x == worker[w]
           y == [x EXCEPT !.pc = "getStored"]
<1>1. /\ TypeOK /\ Sound(w, x) /\ x \in WorkerStates /\ x.pc = "set"
      /\ x.req \in Requests /\ Sourced(x.irs) /\ x.site <= Len(Sites[w])
      /\ Informed(w, x)
  BY WorkerSound DEF SetImpu
<1>2. Counters
  BY <1>1, CountersType DEF SetImpu, Fails
<1>3. StoreStep
  BY WriteRecordStep DEF SetImpu
<1>4. Sound(w, RecordDone(w, x)) /\ Sound(w, Left(w, x, FALSE))
  BY <1>1, RecordDoneSound, LeftSound
<1>5. Sound(w, y)
  <2>1. /\ y \in WorkerStates /\ y.pc = "getStored" /\ y.read = x.read
        /\ y.req = x.req /\ y.irs = x.irs /\ y.site = x.site
    BY <1>1 DEF WorkerStates, Pcs
  <2> HIDE DEF y, x
  <2>2. Coherent(w, y)
    BY <1>1, <2>1 DEF Coherent, DeletePcs, RefreshPcs, AddPcs
  <2>3. Informed(w, y)
    BY <1>1, <2>1, InformedKept DEF DeletePcs, RefreshPcs, AddPcs
  <2> QED BY <2>1, <2>2, <2>3 DEF Sound, Proper
<1>6. \/ Become(w, RecordDone(w, x)) \/ Become(w, Left(w, x, FALSE))
      \/ Become(w, y)
  BY DEF SetImpu
<1> HIDE DEF y
<1> QED
  BY <1>2, <1>3, <1>4, <1>5, <1>6 DEF Moves

\* perform_irs_impu_action, the deletion.
LEMMA DeleteImpuMoves ==
  ASSUME Inv, NEW w \in Workers, DeleteImpu(w)
  PROVE  Moves(w)
<1> DEFINE x == worker[w]
<1>1. /\ TypeOK /\ Sound(w, x) /\ x \in WorkerStates /\ x.pc = "delete"
      /\ x.req \in Requests /\ Sourced(x.irs) /\ x.site <= Len(Sites[w])
  BY WorkerSound DEF DeleteImpu
<1>2. Counters
  BY <1>1, CountersType DEF DeleteImpu, Fails
<1>3. StoreStep
  BY WriteRecordStep DEF DeleteImpu
<1>4. Sound(w, RecordDone(w, x)) /\ Sound(w, Left(w, x, FALSE))
  BY <1>1, RecordDoneSound, LeftSound
<1>5. Become(w, RecordDone(w, x)) \/ Become(w, Left(w, x, FALSE))
  BY DEF DeleteImpu
<1> QED
  BY <1>2, <1>3, <1>4, <1>5 DEF Moves

\* perform_irs_impu_action, the read: the IRS then knows the record that has
\* the CAS value the write will use.
LEMMA GetStoredMoves ==
  ASSUME Inv, NEW w \in Workers, GetStored(w)
  PROVE  Moves(w)
<1> DEFINE x == worker[w]
           s == Store(w)
           entry == impu[s][x.irs.default]
           pc == IF Deleting(x) THEN "delete" ELSE "set"
           Retry(i, c) == [x EXCEPT !.pc = pc, !.irs = i, !.cas = c]
           merged == update_from_impu_from_store(x.irs, entry.rec)
<1>1. /\ TypeOK /\ CasInv /\ Sound(w, x) /\ x \in WorkerStates
      /\ x.req \in Requests /\ Valid(x.irs) /\ x.irs \in ImplicitRegSets
      /\ x.site <= Len(Sites[w]) /\ x.pc = "getStored" /\ Informed(w, x)
      /\ s = Sites[w][x.site] /\ s \in Stores /\ x.irs.default \in Keys
  BY WorkerSound DEF GetStored, Valid
<1>2. Counters
  BY <1>1, CountersType DEF GetStored, Fails
<1>3. StoreStep
  BY DEF GetStored, StoreStep
<1> HIDE DEF x, s
<1>4. ASSUME NEW i, Valid(i), NEW c \in Nat, KnowsRecord(i, s, c)
      PROVE  Sound(w, Retry(i, c))
  <2> DEFINE y == Retry(i, c)
  <2>1. pc \in Pcs /\ pc \in {"delete", "set"}
    BY DEF Pcs
  <2>2. /\ y \in WorkerStates /\ y.pc = pc /\ y.read = x.read /\ y.irs = i
        /\ y.req = x.req /\ y.site = x.site /\ y.cas = c
    <3> HIDE DEF pc
    <3> QED BY <1>1, <1>4, <2>1 DEF WorkerStates, Valid
  <2> HIDE DEF y, pc
  <2>3. Coherent(w, y)
    BY <1>1, <2>1, <2>2, SMTT(40) DEF Coherent, DeletePcs, RefreshPcs, AddPcs
  <2>4. Informed(w, y)
    BY <1>1, <1>4, <2>1, <2>2
       DEF Informed, Valid, Sourced, DeletePcs, RefreshPcs, AddPcs
  <2> QED BY <2>2, <2>3, <2>4 DEF Sound, Proper, y
<1>5. entry \in ImpuEntries /\ lastCas[s] \in Nat /\ entry.cas <= lastCas[s]
      /\ entry.cas \in Nat
  <2>1. entry \in ImpuEntries /\ lastCas[s] \in Nat
    <3>1. impu \in [Stores -> [Keys -> ImpuEntries]] /\ lastCas \in [Stores -> Nat]
      BY <1>1 DEF TypeOK
    <3> QED BY <1>1, <3>1
  <2>2. entry.cas <= lastCas[s]
    BY <1>1 DEF CasInv
  <2> HIDE DEF entry
  <2> QED BY <2>1, <2>2, EntryKinds
<1> HIDE DEF Retry, entry, merged
<1>6. Sound(w, Retry(x.irs, 0))
  <2>1. \A k \in Keys : impu[s][k].cas = 0 => ~is_default_impu(impu[s][k].rec)
    <3>1. \A k \in Keys : impu[s][k] \in ImpuEntries
      BY <1>1 DEF TypeOK
    <3> QED BY <3>1, EntryKinds
  <2>2. 0 <= lastCas[s]
    BY SMTT(30), <1>5
  <2>3. KnowsRecord(x.irs, s, 0)
    BY <2>1, <2>2 DEF KnowsRecord
  <2> QED BY <1>1, <1>4, <2>3
<1>7. ASSUME IsPresent(entry), is_default_impu(entry.rec)
      PROVE  Sound(w, Retry(merged, entry.cas))
  <2>1. entry.rec \in DefaultImpus
    BY <1>5, <1>7, EntryKinds
  <2>2. /\ Grows(x.irs, merged)
        /\ entry.rec.impis \subseteq Tracked(merged.impis)
        /\ entry.rec.assoc \subseteq Tracked(merged.impus)
    BY <1>1, <2>1, UpdateSeesRecord DEF merged
  <2>3. Valid(merged)
    <3>1. merged \in ImplicitRegSets
      BY <1>1, <2>1, UpdateType DEF Valid, merged
    <3>2. Sourced(merged)
      BY <1>1, <2>2, KnowsGrows DEF Valid
    <3> QED BY <3>1, <3>2 DEF Valid
  <2>4. \A k \in Keys : impu[s][k].cas = entry.cas => k = x.irs.default
    BY <1>1, <1>7 DEF CasInv, IsPresent, entry
  <2>5. KnowsRecord(merged, s, entry.cas)
    BY <1>5, <2>2, <2>4 DEF KnowsRecord, entry
  <2> QED BY <1>4, <1>5, <2>3, <2>5
<1>8. ASSUME IsPresent(entry), ~is_default_impu(entry.rec)
      PROVE  Sound(w, Retry(x.irs, entry.cas))
  <2>1. \A k \in Keys : impu[s][k].cas = entry.cas => k = x.irs.default
    BY <1>1, <1>8 DEF CasInv, IsPresent, entry
  <2>2. KnowsRecord(x.irs, s, entry.cas)
    BY <1>5, <1>8, <2>1 DEF KnowsRecord, entry
  <2> QED BY <1>1, <1>4, <1>5, <2>2
<1>9. Sound(w, RecordDone(w, x)) /\ Sound(w, Left(w, x, FALSE))
  BY <1>1, RecordDoneSound, LeftSound DEF Valid
<1>10. \/ Become(w, RecordDone(w, x)) \/ Become(w, Left(w, x, FALSE))
       \/ Become(w, Retry(x.irs, 0))
       \/ IsPresent(entry) /\ is_default_impu(entry.rec)
          /\ Become(w, Retry(merged, entry.cas))
       \/ IsPresent(entry) /\ ~is_default_impu(entry.rec)
          /\ Become(w, Retry(x.irs, entry.cas))
  BY DEF GetStored, x, s, entry, Retry, merged
<1> QED
  BY <1>2, <1>3, <1>6, <1>7, <1>8, <1>9, <1>10 DEF Moves

-----------------------------------------------------------------------------
(* The actions on associated records and IMPI mappings.                    *)

\* The kind of a reference says what it refers to.
LEMMA ReferenceKinds ==
  ASSUME NEW ref \in References
  PROVE  /\ ref[1] \in {"assocDelete", "assocRefresh", "assocAdd"} =>
              ref[2] \in Impus
         /\ ref[1] = "assocDelete" => ref \in {"assocDelete"} \X Impus
         /\ ref[1] = "mapDelete" => ref \in {"mapDelete"} \X Impis
         /\ ref[1] = "mapRefresh" => ref \in {"mapRefresh"} \X Impis
         /\ ref[1] = "mapAdd" => ref \in {"mapAdd"} \X Impis
  BY PhasesMeaning DEF References, AssocReferences

\* A worker at a loop head is busy with the IRS.
LEMMA LoopingBusy ==
  ASSUME NEW x, NEW ref, NEW pc, Looping(x, ref, pc), pc # "idle"
  PROVE  x.pc # "idle"
  BY DEF Looping, IsNext

\* A mapping that was just read, or none, is known.
LEMMA KnowsReadMapping ==
  ASSUME TypeOK, CasInv, NEW s \in Stores, NEW p \in Impis, NEW d \in Keys
  PROVE  LET e == mapping[s][p] IN
         /\ e \in MappingEntries /\ AbsentMapping \in MappingEntries
         /\ [e EXCEPT !.impus = @ \ {d}] \in MappingEntries
         /\ [e EXCEPT !.impus = @ \cup {d}] \in MappingEntries
         /\ [AbsentMapping EXCEPT !.impus = @ \cup {d}] \in MappingEntries
         /\ KnowsMapping([e EXCEPT !.impus = @ \ {d}], s, p, d)
         /\ KnowsMapping([e EXCEPT !.impus = @ \cup {d}], s, p, d)
         /\ \A S : KnowsMapping([cas |-> 0, impus |-> S], s, p, d)
<1> DEFINE e == mapping[s][p]
<1>1. e \in MappingEntries /\ lastCas[s] \in Nat /\ e.cas <= lastCas[s]
  BY DEF TypeOK, CasInv
<1>2. AbsentMapping \in MappingEntries
  BY DEF AbsentMapping, MappingEntries
<1> HIDE DEF e
<1>3. /\ [e EXCEPT !.impus = @ \ {d}] \in MappingEntries
      /\ [e EXCEPT !.impus = @ \cup {d}] \in MappingEntries
      /\ [AbsentMapping EXCEPT !.impus = @ \cup {d}] \in MappingEntries
  BY <1>1, <1>2 DEF MappingEntries
<1>4. KnowsMapping([e EXCEPT !.impus = @ \ {d}], s, p, d)
  BY <1>1 DEF KnowsMapping, MappingEntries, e
<1>5. KnowsMapping([e EXCEPT !.impus = @ \cup {d}], s, p, d)
  BY <1>1 DEF KnowsMapping, MappingEntries, e
<1>6. \A S : KnowsMapping([cas |-> 0, impus |-> S], s, p, d)
  BY SMTT(30), <1>1 DEF KnowsMapping, AbsentMapping
<1> QED
  BY <1>1, <1>2, <1>3, <1>4, <1>5, <1>6 DEF e

\* set_impi_mapping, of a mapping the worker knows.
LEMMA SetMappingMoves ==
  ASSUME Inv, NEW w \in Workers, NEW ref \in References,
         NEW m \in MappingEntries, NEW retry,
         worker[w].pc # "idle", UNCHANGED ops,
         \/ retry \in DeletePcs /\ ref \in {"mapDelete"} \X Impis
         \/ retry \in RefreshPcs /\ ref \in {"mapRefresh"} \X Impis
         \/ retry \in AddPcs /\ ref \in {"mapAdd"} \X Impis,
         KnowsMapping(m, Store(w), ref[2], worker[w].irs.default),
         SetMapping(w, ref, m, retry)
  PROVE  Moves(w)
<1> DEFINE x == worker[w]
<1>1. /\ TypeOK /\ Sound(w, x) /\ x.pc # "idle"
      /\ Store(w) = Sites[w][x.site] /\ Store(w) \in Stores
  BY WorkerSound
<1>2. Counters
  BY <1>1, CountersType DEF SetMapping, Fails
<1>3. StoreStep
  <2>1. ref[2] \in Impis /\ m.impus \in SUBSET Keys
    BY DEF MappingEntries
  <2> QED BY <1>1, <2>1 DEF SetMapping, StoreStep
<1>4. /\ Sound(w, ReferenceDone(w, x, ref, "OK"))
      /\ Sound(w, ReferenceDone(w, x, ref, "ERROR"))
  BY <1>1, ReferenceDoneSound
<1>5. Sound(w, Continued(x, ref, retry, m, "DATA_CONTENTION"))
  BY <1>1, ContinuedSound
<1>6. \/ Become(w, ReferenceDone(w, x, ref, "OK"))
      \/ Become(w, ReferenceDone(w, x, ref, "ERROR"))
      \/ Become(w, Continued(x, ref, retry, m, "DATA_CONTENTION"))
  BY DEF SetMapping
<1> QED
  BY <1>2, <1>3, <1>4, <1>5, <1>6 DEF Moves

\* update_irs_associated_impus.
LEMMA AssociatedMoves ==
  ASSUME Inv, NEW w \in Workers,
         \/ \E ref \in References : GetAssociated(w, ref) \/ SetAssociated(w, ref)
         \/ DeleteAssociated(w)
  PROVE  Moves(w)
<1> DEFINE x == worker[w]
<1>1. /\ TypeOK /\ Sound(w, x) /\ Coherent(w, x) /\ Store(w) \in Stores
      /\ x.irs.default \in Keys
  BY WorkerSound
<1>2. x.status \in {"OK", "ERROR", "DATA_CONTENTION"} /\ x.mp \in MappingEntries
  BY <1>1 DEF Sound, Proper, WorkerStates
<1>3. ASSUME NEW ref \in References, GetAssociated(w, ref)
      PROVE  Moves(w)
  <2>1. x.pc # "idle" /\ ref \in {"assocDelete"} \X Impus
    BY <1>3, ReferenceKinds DEF GetAssociated, IsNext
  <2>2. Counters
    BY <1>1, <1>3, CountersType DEF GetAssociated, Fails
  <2>3. StoreStep
    BY <1>3 DEF GetAssociated, StoreStep
  <2>4. /\ Sound(w, Continued(x, ref, "assocDelete", x.mp, x.status))
        /\ Sound(w, ReferenceDone(w, x, ref, x.status))
    BY <1>1, <1>2, <2>1, ContinuedSound, ReferenceDoneSound
  <2>5. \/ Become(w, Continued(x, ref, "assocDelete", x.mp, x.status))
        \/ Become(w, ReferenceDone(w, x, ref, x.status))
    BY <1>3 DEF GetAssociated
  <2> QED BY <2>2, <2>3, <2>4, <2>5 DEF Moves
<1>4. ASSUME NEW ref \in References, SetAssociated(w, ref)
      PROVE  Moves(w)
  <2>1. x.pc # "idle" /\ ref[2] \in Keys
    BY <1>4, ReferenceKinds DEF SetAssociated, IsNext, Keys
  <2>2. Counters
    BY <1>1, <1>4, CountersType DEF SetAssociated, Fails
  <2>3. StoreStep
    <3>1. AssociatedImpu(x.irs.default) \in AssociatedImpus
      BY <1>1 DEF AssociatedImpu, AssociatedImpus
    <3> QED BY <1>1, <1>4, <2>1, <3>1 DEF SetAssociated, StoreStep
  <2>4. Sound(w, ReferenceDone(w, x, ref, x.status))
    BY <1>1, <1>2, <2>1, ReferenceDoneSound
  <2>5. Become(w, ReferenceDone(w, x, ref, x.status))
    BY <1>4 DEF SetAssociated
  <2> QED BY <2>2, <2>3, <2>4, <2>5 DEF Moves
<1>5. CASE DeleteAssociated(w)
  <2>1. x.pc # "idle" /\ x.item[2] \in Keys
    BY <1>1, <1>5 DEF DeleteAssociated, Coherent, Keys
  <2>2. Counters
    BY <1>1, <1>5, CountersType DEF DeleteAssociated, Fails
  <2>3. StoreStep
    BY <1>1, <1>5, <2>1 DEF DeleteAssociated, StoreStep
  <2>4. /\ Sound(w, ReferenceDone(w, x, x.item, "OK"))
        /\ Sound(w, ReferenceDone(w, x, x.item, "ERROR"))
    BY <1>1, <2>1, ReferenceDoneSound
  <2>5. \/ Become(w, ReferenceDone(w, x, x.item, "OK"))
        \/ Become(w, ReferenceDone(w, x, x.item, "ERROR"))
    BY <1>5 DEF DeleteAssociated
  <2> QED BY <2>2, <2>3, <2>4, <2>5 DEF Moves
<1> QED
  BY <1>3, <1>4, <1>5

\* A worker in the middle of a mapping's update knows the mapping in hand.
LEMMA MappingInHand ==
  ASSUME Inv, NEW w \in Workers,
         worker[w].pc \in DeletePcs \cup RefreshPcs \cup AddPcs
  PROVE  LET x == worker[w] IN
         /\ x.mp \in MappingEntries /\ x.item \in References
         /\ x.item[2] \in Impis
         /\ KnowsMapping(x.mp, Store(w), x.item[2], x.irs.default)
         /\ x.pc \in DeletePcs => x.item \in {"mapDelete"} \X Impis
         /\ x.pc \in RefreshPcs => x.item \in {"mapRefresh"} \X Impis
         /\ x.pc \in AddPcs => x.item \in {"mapAdd"} \X Impis
<1> DEFINE x == worker[w]
<1>1. Coherent(w, x) /\ Informed(w, x) /\ x \in WorkerStates
      /\ Store(w) = Sites[w][x.site]
  BY WorkerSound
<1>2. /\ x.pc \in DeletePcs => x.item \in {"mapDelete"} \X Impis
      /\ x.pc \in RefreshPcs => x.item \in {"mapRefresh"} \X Impis
      /\ x.pc \in AddPcs => x.item \in {"mapAdd"} \X Impis
  BY <1>1 DEF Coherent
<1>3. x.item \in References /\ x.item[2] \in Impis
  BY <1>2, PhasesMeaning DEF References
<1>4. x.mp \in MappingEntries
  BY <1>1 DEF WorkerStates
<1>5. KnowsMapping(x.mp, Store(w), x.item[2], x.irs.default)
  BY <1>1 DEF Informed
<1> QED
  BY <1>2, <1>3, <1>4, <1>5

\* update_irs_impi_mappings, deleted IMPIs: the read.
LEMMA GetMappingToDeleteMoves ==
  ASSUME Inv, NEW w \in Workers, NEW ref \in References,
         GetMappingToDelete(w, ref)
  PROVE  Moves(w)
<1> DEFINE x == worker[w]
           d == x.irs.default
           e == mapping[Store(w)][ref[2]]
           m == [e EXCEPT !.impus = @ \ {d}]
<1>1. /\ TypeOK /\ CasInv /\ Sound(w, x) /\ Store(w) \in Stores /\ d \in Keys
      /\ Store(w) = Sites[w][x.site]
  BY WorkerSound
<1>2. x.status \in {"OK", "ERROR", "DATA_CONTENTION"} /\ x.mp \in MappingEntries
  BY <1>1 DEF Sound, Proper, WorkerStates
<1>3. /\ ref \in {"mapDelete"} \X Impis /\ ref[2] \in Impis
      /\ x.pc # "idle"
  BY SMTT(40), ReferenceKinds, LoopingBusy DEF GetMappingToDelete
<1>4. Counters
  BY <1>1, CountersType DEF GetMappingToDelete, Fails
<1>5. StoreStep
  BY DEF GetMappingToDelete, StoreStep
<1>6. Sound(w, Continued(x, ref, "mapDelete", m, x.status))
  <2>1. m \in MappingEntries /\ KnowsMapping(m, Store(w), ref[2], d)
    BY <1>1, <1>3, KnowsReadMapping
  <2> HIDE DEF m
  <2> QED BY <1>1, <1>2, <1>3, <2>1, ContinuedSound DEF DeletePcs
<1>7. Sound(w, ReferenceDone(w, x, ref, x.status))
  BY <1>1, <1>2, <1>3, ReferenceDoneSound
<1>8. Sound(w, Continued(x, ref, "mapDeleteGet", AbsentMapping, x.status))
  <2>1. /\ AbsentMapping \in MappingEntries
        /\ KnowsMapping(AbsentMapping, Store(w), ref[2], d)
    BY <1>1, <1>3, KnowsReadMapping DEF AbsentMapping
  <2> QED BY <1>1, <1>2, <1>3, <2>1, ContinuedSound DEF DeletePcs
<1>9. \/ Become(w, Continued(x, ref, "mapDelete", m, x.status))
      \/ Become(w, ReferenceDone(w, x, ref, x.status))
      \/ Become(w, Continued(x, ref, "mapDeleteGet", AbsentMapping, x.status))
  BY DEF GetMappingToDelete
<1> QED
  BY <1>4, <1>5, <1>6, <1>7, <1>8, <1>9 DEF Moves

\* The write or deletion that follows.
LEMMA DeleteMappingMoves ==
  ASSUME Inv, NEW w \in Workers, DeleteMapping(w)
  PROVE  Moves(w)
<1> DEFINE x == worker[w]
<1>1. /\ TypeOK /\ Sound(w, x) /\ Store(w) \in Stores /\ x.pc # "idle"
  BY WorkerSound DEF DeleteMapping
<1>2. /\ x.mp \in MappingEntries /\ x.item \in References /\ x.item[2] \in Impis
      /\ x.item \in {"mapDelete"} \X Impis
      /\ KnowsMapping(x.mp, Store(w), x.item[2], x.irs.default)
  BY MappingInHand DEF DeleteMapping, DeletePcs
<1>3. CASE SetMapping(w, x.item, x.mp, "mapDeleteGet")
  BY <1>1, <1>2, <1>3, SetMappingMoves DEF DeleteMapping, DeletePcs
<1>4. CASE ~SetMapping(w, x.item, x.mp, "mapDeleteGet")
  <2>1. Counters
    BY <1>1, <1>4, CountersType DEF DeleteMapping, Fails
  <2>2. StoreStep
    BY <1>1, <1>2, <1>4 DEF DeleteMapping, StoreStep
  <2>3. /\ Sound(w, ReferenceDone(w, x, x.item, "OK"))
        /\ Sound(w, ReferenceDone(w, x, x.item, "ERROR"))
    BY <1>1, ReferenceDoneSound
  <2>4. \/ Become(w, ReferenceDone(w, x, x.item, "OK"))
        \/ Become(w, ReferenceDone(w, x, x.item, "ERROR"))
    BY <1>4 DEF DeleteMapping
  <2> QED BY <2>1, <2>2, <2>3, <2>4 DEF Moves
<1> QED
  BY <1>3, <1>4

\* update_irs_impi_mappings, unchanged IMPIs of a refreshed IRS.
LEMMA RefreshMappingMoves ==
  ASSUME Inv, NEW w \in Workers,
         \/ \E ref \in References : GetMappingToRefresh(w, ref)
         \/ RefreshMapping(w)
  PROVE  Moves(w)
<1> DEFINE x == worker[w]
           d == x.irs.default
<1>1. /\ TypeOK /\ CasInv /\ Sound(w, x) /\ Store(w) \in Stores /\ d \in Keys
      /\ Store(w) = Sites[w][x.site]
  BY WorkerSound
<1>2. x.status \in {"OK", "ERROR", "DATA_CONTENTION"} /\ x.mp \in MappingEntries
  BY <1>1 DEF Sound, Proper, WorkerStates
<1>3. ASSUME NEW ref \in References, GetMappingToRefresh(w, ref)
      PROVE  Moves(w)
  <2> DEFINE M(e) == [e EXCEPT !.impus = @ \cup {d}]
             e == mapping[Store(w)][ref[2]]
  <2>1. /\ ref \in {"mapRefresh"} \X Impis /\ ref[2] \in Impis
        /\ x.pc # "idle"
    BY SMTT(40), <1>3, ReferenceKinds, LoopingBusy DEF GetMappingToRefresh
  <2>2. Counters
    BY <1>1, <1>3, CountersType DEF GetMappingToRefresh, Fails
  <2>3. StoreStep
    BY <1>3 DEF GetMappingToRefresh, StoreStep
  <2>4. ASSUME NEW m \in MappingEntries, KnowsMapping(m, Store(w), ref[2], d)
        PROVE  Sound(w, Continued(x, ref, "mapRefresh", m, x.status))
    BY <1>1, <1>2, <2>1, <2>4, ContinuedSound DEF RefreshPcs
  <2>5. M(e) \in MappingEntries /\ KnowsMapping(M(e), Store(w), ref[2], d)
    BY <1>1, <2>1, KnowsReadMapping
  <2>6. /\ M(AbsentMapping) \in MappingEntries
        /\ KnowsMapping(M(AbsentMapping), Store(w), ref[2], d)
    <3>1. M(AbsentMapping) = [cas |-> 0, impus |-> {d}]
      BY SMTT(30) DEF AbsentMapping
    <3>2. [cas |-> 0, impus |-> {d}] \in MappingEntries
      BY <1>1 DEF MappingEntries
    <3>3. KnowsMapping([cas |-> 0, impus |-> {d}], Store(w), ref[2], d)
      BY <1>1, <2>1, KnowsReadMapping
    <3> QED BY <3>1, <3>2, <3>3
  <2>7. \/ Become(w, Continued(x, ref, "mapRefresh", M(e), x.status))
        \/ Become(w, Continued(x, ref, "mapRefresh", M(AbsentMapping), x.status))
    BY <1>3 DEF GetMappingToRefresh
  <2> HIDE DEF M
  <2> QED BY <2>2, <2>3, <2>4, <2>5, <2>6, <2>7 DEF Moves
<1>4. CASE RefreshMapping(w)
  <2>1. /\ x.item \in References /\ x.item \in {"mapRefresh"} \X Impis
        /\ KnowsMapping(x.mp, Store(w), x.item[2], d)
    BY <1>4, MappingInHand DEF RefreshMapping, RefreshPcs
  <2> QED BY <1>2, <1>4, <2>1, SetMappingMoves DEF RefreshMapping, RefreshPcs
<1> QED
  BY <1>3, <1>4

\* update_irs_impi_mappings, added IMPIs.
LEMMA AddMappingMoves ==
  ASSUME Inv, NEW w \in Workers,
         (\E ref \in References : AddMapping(w, ref)) \/ GetMappingToAdd(w)
  PROVE  Moves(w)
<1> DEFINE x == worker[w]
           d == x.irs.default
<1>1. /\ TypeOK /\ CasInv /\ Sound(w, x) /\ Store(w) \in Stores /\ d \in Keys
      /\ Store(w) = Sites[w][x.site] /\ x \in WorkerStates
  BY WorkerSound
<1>2. x.status \in {"OK", "ERROR", "DATA_CONTENTION"} /\ x.mp \in MappingEntries
  BY <1>1 DEF WorkerStates
<1>3. ASSUME NEW ref \in References, AddMapping(w, ref)
      PROVE  Moves(w)
  <2> DEFINE m == IF x.pc = "mapAdd" THEN x.mp ELSE [cas |-> 0, impus |-> {d}]
  <2>1. /\ ref \in {"mapAdd"} \X Impis /\ ref[2] \in Impis /\ x.pc # "idle"
    BY <1>3, ReferenceKinds, LoopingBusy DEF AddMapping
  <2>2. m \in MappingEntries
    BY <1>1, <1>2 DEF MappingEntries
  <2>3. KnowsMapping(m, Store(w), ref[2], d)
    <3>1. CASE x.pc = "mapAdd"
      <4>1. x.item = ref
        BY <1>3, <3>1 DEF AddMapping, Looping, IsNext
      <4> QED BY <3>1, <4>1, MappingInHand DEF AddPcs
    <3>2. CASE x.pc # "mapAdd"
      BY <1>1, <2>1, <3>2, KnowsReadMapping
    <3> QED BY <3>1, <3>2
  <2>4. SetMapping(w, ref, m, "mapAddGet") /\ UNCHANGED ops
    BY <1>3 DEF AddMapping
  <2> HIDE DEF m
  <2> QED BY <2>1, <2>2, <2>3, <2>4, SetMappingMoves DEF AddPcs
<1>4. CASE GetMappingToAdd(w)
  <2> DEFINE e == mapping[Store(w)][x.item[2]]
             m == [e EXCEPT !.impus = @ \cup {d}]
             y == [x EXCEPT !.pc = "mapAdd"]
  <2>1. /\ x.item \in References /\ x.item \in {"mapAdd"} \X Impis
        /\ x.item[2] \in Impis /\ x.pc # "idle"
        /\ KnowsMapping(x.mp, Store(w), x.item[2], d)
    BY <1>4, MappingInHand DEF GetMappingToAdd, AddPcs
  <2>2. Counters
    BY <1>1, <1>4, CountersType DEF GetMappingToAdd, Fails
  <2>3. StoreStep
    BY <1>4 DEF GetMappingToAdd, StoreStep
  <2>4. m \in MappingEntries /\ KnowsMapping(m, Store(w), x.item[2], d)
    BY <1>1, <2>1, KnowsReadMapping
  <2>5. Sound(w, Continued(x, x.item, "mapAdd", m, x.status))
    <3> HIDE DEF m
    <3> QED BY <1>1, <1>2, <2>1, <2>4, ContinuedSound DEF AddPcs
  <2>6. y = Continued(x, x.item, "mapAdd", x.mp, x.status)
    BY <1>1 DEF Continued, WorkerStates
  <2>7. Sound(w, y)
    BY SMTT(30), <1>1, <1>2, <2>1, <2>6, ContinuedSound DEF AddPcs
  <2>8. /\ Sound(w, ReferenceDone(w, x, x.item, "OK"))
        /\ Sound(w, ReferenceDone(w, x, x.item, "ERROR"))
    BY <1>1, <2>1, ReferenceDoneSound
  <2>9. \/ Become(w, ReferenceDone(w, x, x.item, "OK"))
        \/ Become(w, ReferenceDone(w, x, x.item, "ERROR"))
        \/ Become(w, Continued(x, x.item, "mapAdd", m, x.status))
        \/ Become(w, y)
    BY <1>4 DEF GetMappingToAdd
  <2> HIDE DEF y, m
  <2> QED BY <2>2, <2>3, <2>5, <2>7, <2>8, <2>9 DEF Moves
<1> QED
  BY <1>3, <1>4

\* A Homestead dies.
LEMMA CrashMoves ==
  ASSUME Inv, NEW w \in Workers, Crash(w)
  PROVE  Moves(w)
<1>1. TypeOK
  BY DEF Inv, TypeInv
<1>2. Sound(w, Released("nothing"))
  BY <1>1, ReleasedSound DEF Answers
<1>3. Counters
  BY <1>1, CountersType DEF Crash
<1> QED
  BY <1>2, <1>3 DEF Crash, Moves, StoreStep

-----------------------------------------------------------------------------
(* The theorems.                                                           *)

\* Initially no worker has anything in hand and the stores are empty.
LEMMA InitInv == Init => Inv
<1> SUFFICES ASSUME Init PROVE Inv
  OBVIOUS
<1>1. TypeOK
  <2>1. AbsentImpu \in ImpuEntries
    BY DEF ImpuEntries
  <2>2. AbsentMapping \in MappingEntries
    BY DEF AbsentMapping, MappingEntries
  <2>3. 0 \in 0..MaxOps /\ 0 \in 0..MaxUpsets
    BY SMTT(30), CacheAssumption
  <2> QED BY <2>1, <2>2, <2>3, IdleType DEF Init, TypeOK
<1>2. CasInv
  BY SMTT(30) DEF Init, CasInv, AbsentImpu, AbsentMapping
<1>3. \A w \in Workers : Sound(w, worker[w])
  <2>1. Idle = Released("nothing")
    BY SMTT(30) DEF Released, Idle
  <2> QED BY <1>1, <2>1, ReleasedSound DEF Init, Answers
<1> QED
  BY <1>1, <1>2, <1>3 DEF Inv, TypeInv, KnowledgeInv, Sound, Proper

\* A worker's own steps.
LEMMA WorkMoves ==
  ASSUME Inv, NEW w \in Workers, Work(w)
  PROVE  Moves(w)
<1>1. CASE Reading(w)
  BY <1>1, GetMappingMoves, GetImpuMoves, GetRemoteImpuMoves DEF Reading
<1>2. CASE WritingRecord(w)
  BY <1>2, CreateImpuMoves, SetImpuMoves, DeleteImpuMoves, GetStoredMoves
     DEF WritingRecord
<1>3. CASE UpdatingReferences(w)
  BY <1>3, AssociatedMoves, GetMappingToDeleteMoves, DeleteMappingMoves,
     RefreshMappingMoves, AddMappingMoves DEF UpdatingReferences
<1> QED BY <1>1, <1>2, <1>3 DEF Work

\* Every step is a step of one worker, or one entry expires.
LEMMA NextMoves ==
  ASSUME Inv, Next
  PROVE  \/ \E w \in Workers : Moves(w)
         \/ StoreStep /\ UNCHANGED worker /\ Counters
<1>1. ASSUME NEW w \in Workers, Work(w)
      PROVE  Moves(w)
  BY <1>1, WorkMoves
<1>2. ASSUME NEW w \in Workers, NEW r \in Requests, Start(w, r)
      PROVE  Moves(w)
  BY <1>2, StartMoves
<1>3. ASSUME Environment
      PROVE  \/ \E w \in Workers : Moves(w)
             \/ StoreStep /\ UNCHANGED worker /\ Counters
  <2>1. TypeOK
    BY DEF Inv, TypeInv
  <2>2. ASSUME NEW s \in Stores, NEW k \in Keys, ExpireImpu(s, k)
        PROVE  StoreStep /\ UNCHANGED worker /\ Counters
    BY <2>1, <2>2, CountersType DEF ExpireImpu, StoreStep
  <2>3. ASSUME NEW s \in Stores, NEW p \in Impis, ExpireMapping(s, p)
        PROVE  StoreStep /\ UNCHANGED worker /\ Counters
    BY <2>1, <2>3, CountersType DEF ExpireMapping, StoreStep
  <2> QED BY <1>3, <2>2, <2>3, CrashMoves DEF Environment
<1> QED
  BY <1>1, <1>2, <1>3 DEF Next

\* The invariant is inductive.
LEMMA NextInv == Inv /\ [Next]_vars => Inv'
<1> SUFFICES ASSUME Inv, [Next]_vars PROVE Inv'
  OBVIOUS
<1>1. /\ TypeOK /\ CasInv
      /\ \A v \in Workers : Proper(v, worker[v]) /\ Informed(v, worker[v])
  BY WorkerSound DEF Inv, TypeInv, KnowledgeInv, Proper
<1>2. ASSUME StoreStep, Counters, worker' \in [Workers -> WorkerStates],
             \A v \in Workers : Proper(v, worker'[v]) /\ Informed(v, worker'[v])
      PROVE  Inv'
  <2>1. TypeOK'
    BY <1>1, <1>2, StoreStepType DEF TypeOK, StoreTypeOK, Counters
  <2>2. CasInv'
    BY <1>1, <1>2, StoreStepCas
  <2>3. ASSUME NEW v \in Workers
        PROVE  Coherent(v, worker[v])' /\ Informed(v, worker[v])'
    <3>1. PICK x : x = worker'[v]
      OBVIOUS
    <3>2. Proper(v, x) /\ Informed(v, x)
      BY <1>2, <3>1
    <3>3. Informed(v, x)'
      BY <1>1, <1>2, <3>2, StoreStepInformed
    <3>4. Coherent(v, x)
      BY <3>2 DEF Proper
    <3> QED BY <3>1, <3>3, <3>4 DEF Coherent, Informed
  <2> QED BY <2>1, <2>2, <2>3 DEF Inv, TypeInv, KnowledgeInv
<1>3. ASSUME NEW w \in Workers, Moves(w)
      PROVE  Inv'
  <2>1. PICK y : Sound(w, y) /\ worker' = [worker EXCEPT ![w] = y]
    BY <1>3 DEF Moves, Become
  <2>2. /\ worker' \in [Workers -> WorkerStates]
        /\ \A v \in Workers : worker'[v] = IF v = w THEN y ELSE worker[v]
    BY <1>1, <2>1 DEF TypeOK, Sound, Proper
  <2>3. \A v \in Workers : Proper(v, worker'[v]) /\ Informed(v, worker'[v])
    BY <1>1, <2>1, <2>2 DEF Sound
  <2> QED BY <1>2, <1>3, <2>2, <2>3 DEF Moves
<1>4. CASE StoreStep /\ UNCHANGED worker /\ Counters
  BY <1>1, <1>2, <1>4 DEF TypeOK
<1>5. CASE UNCHANGED vars
  <2>1. StoreStep /\ UNCHANGED worker
    BY <1>5 DEF vars, StoreStep
  <2>2. Counters
    BY <1>1, <1>5 DEF vars, TypeOK, Counters
  <2> QED BY <1>4, <2>1, <2>2
<1> QED
  BY <1>3, <1>4, <1>5, NextMoves

\* The invariant holds in every reachable state.
LEMMA InvHolds == Spec => []Inv
  BY InitInv, NextInv, PTL DEF Spec

\* What a worker has in hand covers every record and every IMPI mapping that it
\* could still replace, in every store and however the operations of the other
\* workers interleave with its own (perform_irs_impu_action and
\* update_irs_impi_mappings).
THEOREM WorkersAreInformed == Spec => []KnowledgeInv
<1>1. Inv => KnowledgeInv
  BY DEF Inv
<1> QED
  BY <1>1, InvHolds, PTL

\* Type correctness, for any number of workers, stores, identities, documents
\* and requests and any bounds.
THEOREM TypeCorrect == Spec => []TypeOK
<1>1. Inv => TypeOK
  BY DEF Inv, TypeInv
<1> QED
  BY <1>1, InvHolds, PTL

\* No conditional write of a record drops an identity its writer has not seen,
\* whatever other workers do, fail to do or leave half done.
THEOREM WritersKnowRecords == Spec => []WriterKnowsRecord
<1>1. Inv => WriterKnowsRecord
  <2> SUFFICES ASSUME Inv, NEW w \in Workers, worker[w].pc = "set",
                      impu[Store(w)][worker[w].irs.default].cas = worker[w].cas,
                      is_default_impu(impu[Store(w)][worker[w].irs.default].rec)
               PROVE  LET rec == impu[Store(w)][worker[w].irs.default].rec IN
                      /\ rec.impis \subseteq Tracked(worker[w].irs.impis)
                      /\ rec.assoc \subseteq Tracked(worker[w].irs.impus)
    BY DEF WriterKnowsRecord, SetAllowed
  <2>1. KnowsRecord(worker[w].irs, Store(w), worker[w].cas)
    BY WorkerSound DEF Informed
  <2>2. worker[w].irs.default \in Keys
    BY WorkerSound
  <2> QED BY <2>1, <2>2 DEF KnowsRecord
<1> QED
  BY <1>1, InvHolds, PTL

\* No conditional write of an IMPI mapping drops another IRS's default IMPU.
THEOREM MappingWritersKnow == Spec => []MappingWriterKnows
<1>1. Inv => MappingWriterKnows
  <2> SUFFICES ASSUME Inv, NEW w \in Workers,
                      worker[w].pc \in {"mapDelete", "mapRefresh", "mapAdd"},
                      IsPresent(mapping[Store(w)][worker[w].item[2]]),
                      SetAllowed(mapping[Store(w)][worker[w].item[2]],
                                 worker[w].mp.cas)
               PROVE  mapping[Store(w)][worker[w].item[2]].impus
                        \ {worker[w].irs.default} \subseteq worker[w].mp.impus
    BY DEF MappingWriterKnows
  <2>1. KnowsMapping(worker[w].mp, Store(w), worker[w].item[2],
                     worker[w].irs.default)
    BY MappingInHand DEF DeletePcs, RefreshPcs, AddPcs
  <2> DEFINE entry == mapping[Store(w)][worker[w].item[2]]
             mp    == worker[w].mp
  <2>2. entry.cas = mp.cas /\ mp.cas # 0 =>
          entry.impus \ {worker[w].irs.default} \subseteq mp.impus
    BY <2>1 DEF KnowsMapping
  <2>3. entry.cas = mp.cas /\ mp.cas # 0
    BY DEF SetAllowed, IsPresent
  <2> HIDE DEF entry, mp
  <2>4. entry.impus \ {worker[w].irs.default} \subseteq mp.impus
    BY <2>2, <2>3
  <2> QED BY <2>4 DEF entry, mp
<1> QED
  BY <1>1, InvHolds, PTL
=============================================================================
