----------------------- MODULE MemcachedCacheAgreement -----------------------
(***************************************************************************)
(* What MemcachedCache leaves behind when no store call fails and requests *)
(* are served one at a time: in each store the records of the IRSs, the    *)
(* associated IMPUs' records and the IMPI mappings agree, and all stores   *)
(* hold the same.                                                          *)
(***************************************************************************)
EXTENDS MemcachedCacheSubscribers

\* Zenon proves most of the leaves below; the others name SMT.
USE ZenonT(60)

-----------------------------------------------------------------------------
(* Indexes: what a record lists and what refers to it.                     *)

\* Index jx is ix after reference ref was brought up to date.
DoneIn(ix, jx, ref) ==
  /\ jx.assoc = ix.assoc /\ jx.impis = ix.impis
  /\ \A a \in Keys :
       a \in jx.leads <=> IF ref \in AssocReferences /\ a = ref[2]
                          THEN ref[1] # "assocDelete" ELSE a \in ix.leads
  /\ \A p \in Impis :
       p \in jx.maps <=> IF ref \notin AssocReferences /\ p = ref[2]
                         THEN ref[1] # "mapDelete" ELSE p \in ix.maps

\* One reference less is to do.
LEMMA ListedDone ==
  ASSUME NEW ix, NEW jx, NEW todo \in SUBSET References, NEW ref \in todo,
         ListedBut(ix, todo), DoneIn(ix, jx, ref)
  PROVE  ListedBut(jx, todo \ {ref})
<1>1. \/ /\ ref \in AssocReferences
         /\ ref[1] \in {"assocDelete", "assocRefresh", "assocAdd"} /\ ref[1] \in AssocPhases
      \/ /\ ref \notin AssocReferences
         /\ ref[1] \in {"mapDelete", "mapRefresh", "mapAdd"} /\ ref[1] \in MapPhases
  BY PhasesMeaning DEF References, AssocReferences
<1>2. ref = <<ref[1], ref[2]>>
  BY SMTT(30) DEF References, AssocReferences
<1>3. \A f \in AssocPhases, a \in Keys : <<f, a>> = ref => ref \in AssocReferences /\ a = ref[2]
  BY SMTT(30), <1>1, PhasesMeaning
<1>4. \A f \in MapPhases, p \in Impis : <<f, p>> = ref => ref \notin AssocReferences /\ p = ref[2]
  BY SMTT(30), <1>1, PhasesMeaning
<1>5. ref[2] \in ix.assoc <=> ref[1] \in {"assocRefresh", "assocAdd"} \/ (ref[2] \in ix.assoc /\ ref \notin AssocReferences)
  BY <1>1 DEF ListedBut
<1>6. ref[2] \in ix.impis <=> ref[1] \in {"mapRefresh", "mapAdd"} \/ (ref[2] \in ix.impis /\ ref \in AssocReferences)
  BY <1>1 DEF ListedBut
<1>7. ASSUME NEW a \in Keys, ~\E f \in AssocPhases : <<f, a>> \in todo \ {ref}
      PROVE  a \in jx.leads <=> a \in jx.assoc
  BY <1>1, <1>3, <1>5, <1>7 DEF ListedBut, DoneIn
<1>8. ASSUME NEW p \in Impis, ~\E f \in MapPhases : <<f, p>> \in todo \ {ref}
      PROVE  p \in jx.maps <=> p \in jx.impis
  BY <1>1, <1>4, <1>6, <1>8 DEF ListedBut, DoneIn
<1> QED BY <1>7, <1>8 DEF ListedBut, DoneIn

\* All references of a record are to do when it has just been written.
LEMMA ListedWork ==
  ASSUME NEW ix, NEW i \in ImplicitRegSets, ListedBut(ix, {}),
         ix.assoc \subseteq Impus, ix.impis \subseteq Impis,
         Covers(i.impus, ix.assoc), Covers(i.impis, ix.impis), NEW jx,
         jx.leads = ix.leads, jx.maps = ix.maps,
         jx.assoc = get_associated_impus(i), jx.impis = get_associated_impis(i)
  PROVE  ListedBut(jx, WorkList(i))
<1>1. i.impus \in [Impus -> DataStates] /\ i.impis \in [Impis -> DataStates]
  BY DEF ImplicitRegSets
<1>2. /\ \A a : a \in ix.assoc => a \in Impus
      /\ \A a \in Impus : a \in jx.assoc <=> i.impus[a] \in {"UNCHANGED", "ADDED"}
      /\ \A a : a \in jx.assoc => a \in Impus
      /\ \A p \in Impis : p \in jx.impis <=> i.impis[p] \in {"UNCHANGED", "ADDED"}
  BY <1>1 DEF get_associated_impus, get_associated_impis, get_elements_in_state
<1>3. /\ \A a \in Impus : i.impus[a] = "DELETED" => <<"assocDelete", a>> \in WorkList(i)
      /\ \A a \in Impus : i.impus[a] = "ADDED" => <<"assocAdd", a>> \in WorkList(i)
      /\ \A p \in Impis : i.impis[p] = "DELETED" => <<"mapDelete", p>> \in WorkList(i)
      /\ \A p \in Impis : i.impis[p] = "ADDED" => <<"mapAdd", p>> \in WorkList(i)
  BY <1>1 DEF WorkList, get_elements_in_state
<1>4. ASSUME NEW a \in Keys, ~\E f \in AssocPhases : <<f, a>> \in WorkList(i)
      PROVE  a \in jx.leads <=> a \in jx.assoc
  <2>1. a \in Impus => i.impus[a] \in {"NONE", "UNCHANGED"}
    BY <1>1, <1>3, <1>4, PhasesMeaning DEF DataStates
  <2>2. a \in Impus => (a \in ix.assoc <=> a \in jx.assoc)
    BY <1>1, <1>2, <2>1 DEF Covers
  <2> QED BY <1>2, <2>2 DEF ListedBut
<1>5. ASSUME NEW p \in Impis, ~\E f \in MapPhases : <<f, p>> \in WorkList(i)
      PROVE  p \in jx.maps <=> p \in jx.impis
  <2>1. i.impis[p] \in {"NONE", "UNCHANGED"}
    BY <1>1, <1>3, <1>5, PhasesMeaning DEF DataStates
  <2>2. p \in ix.impis <=> p \in jx.impis
    BY <1>1, <1>2, <2>1 DEF Covers
  <2> QED BY <2>2 DEF ListedBut
<1>6. ASSUME NEW r \in WorkList(i)
      PROVE  /\ r[1] = "assocDelete" => r[2] \notin jx.assoc
             /\ r[1] \in {"assocRefresh", "assocAdd"} => r[2] \in jx.assoc
             /\ r[1] = "mapDelete" => r[2] \notin jx.impis
             /\ r[1] \in {"mapRefresh", "mapAdd"} => r[2] \in jx.impis
  BY SMTT(30), <1>1 DEF WorkList, get_elements_in_state, get_associated_impus, get_associated_impis
<1> QED BY <1>4, <1>5, <1>6 DEF ListedBut

-----------------------------------------------------------------------------
(* IRSs and the records they were read from.                               *)

\* Setting a document keeps what is known.
LEMMA RelistedCovers ==
  ASSUME NEW data, NEW known, Covers(data, known), NEW xml
  PROVE  Covers(Relisted(data, xml), known)
<1>1. DOMAIN Relisted(data, xml) = DOMAIN data
  BY DEF Relisted, set_elements
<1>2. \A k \in DOMAIN data :
        \/ Relisted(data, xml)[k] = data[k]
        \/ Relisted(data, xml)[k] \in {"ADDED", "DELETED"}
  BY DEF Relisted, set_elements
<1> QED BY <1>1, <1>2 DEF Covers

\* An IRS that a handler read and changed.
LEMMA FitsFrom ==
  ASSUME NEW k \in Keys, NEW t, NEW entry, entry.rec \in DefaultImpus,
         NEW i, From(FromImpu(k, t, entry), i)
  PROVE  Fits(i, entry.rec)
<1> DEFINE j == FromImpu(k, t, entry)
           rec == entry.rec
<1>1. /\ j.existing /\ j.reg = rec.reg /\ j.xml = rec.xml /\ j.charging = rec.charging
      /\ j.impis = [p \in Impis |-> IF p \in rec.impis THEN "UNCHANGED" ELSE "NONE"]
      /\ j.impus = [a \in Impus |-> IF a \in rec.assoc THEN "UNCHANGED" ELSE "NONE"]
  BY DEF FromImpu
<1>2. is_default_impu(rec) /\ AssocIn(rec) = rec.assoc /\ ImpisIn(rec) = rec.impis
  BY DEF DefaultImpus, is_default_impu, AssocIn, ImpisIn
<1> HIDE DEF j, rec
<1>3. /\ i.existing /\ (i.regSet \/ i.reg = rec.reg) /\ (i.xmlSet \/ i.xml = rec.xml)
      /\ i.chargingSet \/ i.charging = rec.charging
      /\ DOMAIN i.impis = Impis
      /\ \A p \in Impis : i.impis[p] = j.impis[p] \/ i.impis[p] = "ADDED"
      /\ i.impus = j.impus \/ \E xml : i.impus = Relisted(j.impus, xml)
  BY <1>1 DEF From, j
<1>4. Covers(i.impis, rec.impis)
  BY <1>1, <1>3 DEF Covers
<1>5. Covers(i.impus, rec.assoc)
  <2>1. Covers(j.impus, rec.assoc)
    BY <1>1 DEF Covers
  <2> QED BY <1>3, <2>1, RelistedCovers
<1>6. Fits(i, rec)
  BY <1>2, <1>3, <1>4, <1>5 DEF Fits
<1> QED BY <1>6 DEF rec

\* A new one.
LEMMA FitsNew ==
  ASSUME NEW i, From(NewSet, i)
  PROVE  Fits(i, NoRecord)
<1>1. /\ ~NewSet.existing /\ NewSet.impis = [p \in Impis |-> "NONE"]
      /\ NewSet.impus = [a \in Impus |-> "NONE"]
  BY DEF NewSet
<1>2. AssocIn(NoRecord) = {} /\ ImpisIn(NoRecord) = {}
  BY DEF AssocIn, ImpisIn, NoRecord, is_default_impu
<1>3. /\ ~i.existing /\ DOMAIN i.impis = Impis
      /\ \A p \in Impis : i.impis[p] = "NONE" \/ i.impis[p] = "ADDED"
      /\ i.impus = NewSet.impus \/ \E xml : i.impus = Relisted(NewSet.impus, xml)
  BY <1>1 DEF From
<1>4. Covers(i.impis, {}) /\ Covers(i.impus, {})
  <2>1. Covers(i.impis, {}) /\ Covers(NewSet.impus, {})
    BY <1>1, <1>3 DEF Covers
  <2> QED BY <1>3, <2>1, RelistedCovers
<1> QED BY <1>2, <1>3, <1>4 DEF Fits

\* Merging it with that record changes nothing (update_from_impu_from_store).
LEMMA FitsUpdate ==
  ASSUME NEW i \in ImplicitRegSets, NEW rec, is_default_impu(rec), Fits(i, rec)
  PROVE  update_from_impu_from_store(i, rec) = i
<1>1. i.impus \in [Impus -> DataStates] /\ i.impis \in [Impis -> DataStates]
  BY DEF ImplicitRegSets
<1>2. /\ i.existing /\ Covers(i.impus, rec.assoc) /\ Covers(i.impis, rec.impis)
      /\ (i.regSet \/ i.reg = rec.reg) /\ (i.xmlSet \/ i.xml = rec.xml)
      /\ i.chargingSet \/ i.charging = rec.charging
  BY SMTT(30) DEF Fits, AssocIn, ImpisIn, NoRecord, is_default_impu
<1>3. /\ merge_data_sets(i.impis, rec.impis) = i.impis
      /\ merge_data_sets(i.impus, rec.assoc) = i.impus
      /\ emplace_deleted(i.impus, rec.assoc) = i.impus
  BY <1>1, <1>2 DEF Covers, merge_data_sets, emplace_deleted
<1>4. update_from_impu_from_store(i, rec) =
        [i EXCEPT !.reg = i.reg, !.xml = i.xml, !.charging = i.charging,
                  !.impis = i.impis, !.impus = i.impus]
  BY <1>2, <1>3 DEF update_from_impu_from_store
<1> QED BY <1>4 DEF ImplicitRegSets

\* Marking everything as deleted keeps what is known.
LEMMA FitsFinal ==
  ASSUME NEW x \in WorkerStates, NEW rec, Fits(x.irs, rec)
  PROVE  Fits(Final(x), rec)
<1> DEFINE i == x.irs
           j == delete_all(i)
<1>1. /\ i.impus \in [Impus -> DataStates] /\ i.impis \in [Impis -> DataStates]
      /\ j.existing = i.existing /\ j.regSet = i.regSet /\ j.reg = i.reg
      /\ j.xmlSet = i.xmlSet /\ j.xml = i.xml /\ j.chargingSet = i.chargingSet
      /\ j.charging = i.charging
      /\ j.impus = delete_tracked(i.impus) /\ j.impis = delete_tracked(i.impis)
  BY DEF WorkerStates, ImplicitRegSets, delete_all
<1> HIDE DEF j
<1>2. \A known : /\ Covers(i.impus, known) => Covers(j.impus, known)
                 /\ Covers(i.impis, known) => Covers(j.impis, known)
  BY <1>1 DEF Covers, delete_tracked
<1>3. Fits(j, rec)
  BY <1>1, <1>2 DEF Fits
<1> QED BY <1>3 DEF Final, j
-----------------------------------------------------------------------------
(* What a change of one subscriber in one store does to the indexes.       *)

\* Only what store s holds of d has changed.
Bystanders(s, d) ==
  \A t \in Stores, e \in Keys :
    /\ t # s \/ e # d => /\ Index(t, e)' = Index(t, e)
                         /\ SameSet(impu[t][e].rec, impu'[t][e].rec)
    /\ t # s => impu'[t][e].rec = impu[t][e].rec

\* The record of d in store s is now rec.
RecordIs(s, d, rec) ==
  /\ UNCHANGED mapping /\ impu'[s][d].rec = rec
  /\ UNCHANGED impu \/ \E e : impu' = [impu EXCEPT ![s][d] = e]

\* A record that is written or gone.
LEMMA RecordIndex ==
  ASSUME TypeOK, NEW s \in Stores, NEW d \in Keys, NEW rec, RecordIs(s, d, rec),
         \A e \in Keys : rec # AssociatedImpu(e) /\ impu[s][d].rec # AssociatedImpu(e)
  PROVE  /\ Bystanders(s, d)
         /\ Index(s, d)'.leads = Index(s, d).leads /\ Index(s, d)'.maps = Index(s, d).maps
         /\ Index(s, d)'.assoc = AssocIn(rec) /\ Index(s, d)'.impis = ImpisIn(rec)
<1>1. /\ \A t \in Stores, e \in Keys : t # s \/ e # d => impu'[t][e] = impu[t][e]
      /\ mapping' = mapping /\ impu'[s][d].rec = rec
  <2>1. CASE UNCHANGED impu
    BY <2>1 DEF RecordIs
  <2>2. CASE \E e : impu' = [impu EXCEPT ![s][d] = e]
    BY <2>2 DEF TypeOK, RecordIs
  <2> QED BY <2>1, <2>2 DEF RecordIs
<1>2. \A t \in Stores, e \in Keys :
        {a \in Keys : impu'[t][a].rec = AssociatedImpu(e)} =
        {a \in Keys : impu[t][a].rec = AssociatedImpu(e)}
  BY <1>1
<1>3. \A t \in Stores, e \in Keys :
        /\ Index(t, e)'.leads = Index(t, e).leads /\ Index(t, e)'.maps = Index(t, e).maps
        /\ Index(t, e)'.assoc = AssocIn(impu'[t][e].rec)
        /\ Index(t, e)'.impis = ImpisIn(impu'[t][e].rec)
        /\ impu'[t][e].rec = impu[t][e].rec => Index(t, e)' = Index(t, e)
  BY <1>1, <1>2 DEF Index
<1> QED BY <1>1, <1>3 DEF Bystanders, SameSet

\* Reference ref to d is up to date in store s.
AssocDone(s, d, ref) ==
  /\ UNCHANGED mapping
  /\ UNCHANGED impu \/ \E e : impu' = [impu EXCEPT ![s][ref[2]] = e]
  /\ IF ref[1] = "assocDelete"
     THEN /\ impu'[s][ref[2]].rec \in {impu[s][ref[2]].rec, NoRecord}
          /\ impu'[s][ref[2]].rec # AssociatedImpu(d)
     ELSE impu'[s][ref[2]].rec = AssociatedImpu(d)

MapDone(s, d, ref) ==
  /\ UNCHANGED impu
  /\ \/ UNCHANGED mapping
     \/ \E m : /\ m.cas = 0 => m.impus = {}
               /\ mapping' = [mapping EXCEPT ![s][ref[2]] = m]
  /\ mapping'[s][ref[2]].impus =
       IF ref[1] = "mapDelete" THEN mapping[s][ref[2]].impus \ {d}
                               ELSE mapping[s][ref[2]].impus \cup {d}

ReferenceIs(s, d, ref) ==
  IF ref \in AssocReferences THEN AssocDone(s, d, ref) ELSE MapDone(s, d, ref)

\* Such a reference is the only one that has changed.
LEMMA ReferenceIndex ==
  ASSUME TypeOK, AbsentIsEmpty, NEW s \in Stores, NEW d \in Keys, NEW ref \in References,
         ReferenceIs(s, d, ref),
         ref \in AssocReferences =>
           ref[2] # d /\ impu[s][ref[2]].rec \in {NoRecord, AssociatedImpu(d)}
  PROVE  /\ Bystanders(s, d) /\ DoneIn(Index(s, d), Index(s, d)', ref)
         /\ impu'[s][d].rec = impu[s][d].rec /\ AbsentIsEmpty'
<1>1. /\ AssociatedImpu(d) # NoRecord
      /\ \A e \in Keys : AssociatedImpu(d) = AssociatedImpu(e) => d = e
      /\ \A e \in Keys : AssociatedImpu(e) # NoRecord
      /\ ~is_default_impu(NoRecord) /\ ~is_default_impu(AssociatedImpu(d))
  BY DEF AssociatedImpu, NoRecord, is_default_impu
<1>2. CASE ref \in AssocReferences
  <2>1. ref[2] \in Keys /\ ref[2] # d /\ AssocDone(s, d, ref)
    BY <1>2 DEF AssocReferences, Keys, ReferenceIs
  <2>2. /\ \A t \in Stores, e \in Keys : t # s \/ e # ref[2] => impu'[t][e] = impu[t][e]
        /\ mapping' = mapping
    <3>1. CASE UNCHANGED impu
      BY <2>1, <3>1 DEF AssocDone
    <3>2. CASE \E e : impu' = [impu EXCEPT ![s][ref[2]] = e]
      BY SMTT(30), <2>1, <3>2 DEF TypeOK, AssocDone
    <3> QED BY <2>1, <3>1, <3>2 DEF AssocDone
  <2>3. /\ impu[s][ref[2]].rec \in {NoRecord, AssociatedImpu(d)}
        /\ impu'[s][ref[2]].rec = IF ref[1] = "assocDelete" THEN NoRecord
                                                            ELSE AssociatedImpu(d)
    BY <1>2, <2>1 DEF AssocDone
  <2>4. \A t \in Stores, e \in Keys : t # s \/ e # d =>
          {a \in Keys : impu'[t][a].rec = AssociatedImpu(e)} =
          {a \in Keys : impu[t][a].rec = AssociatedImpu(e)}
    BY SMTT(30), <1>1, <2>1, <2>2, <2>3
  <2>5. \A t \in Stores, e \in Keys :
          /\ SameSet(impu[t][e].rec, impu'[t][e].rec)
          /\ AssocIn(impu'[t][e].rec) = AssocIn(impu[t][e].rec)
          /\ ImpisIn(impu'[t][e].rec) = ImpisIn(impu[t][e].rec)
    BY SMTT(30), <1>1, <2>2, <2>3 DEF AssocIn, ImpisIn, SameSet
  <2>6. \A t \in Stores, e \in Keys : t # s \/ e # d => Index(t, e)' = Index(t, e)
    BY <2>2, <2>4, <2>5 DEF Index
  <2>7. DoneIn(Index(s, d), Index(s, d)', ref)
    BY <1>1, <1>2, <2>1, <2>2, <2>3, <2>5 DEF Index, DoneIn
  <2>8. AbsentIsEmpty'
    BY <2>2 DEF AbsentIsEmpty
  <2> QED BY <2>1, <2>2, <2>5, <2>6, <2>7, <2>8 DEF Bystanders
<1>3. CASE ref \notin AssocReferences
  <2>1. ref[2] \in Impis /\ MapDone(s, d, ref)
    BY <1>3 DEF References, ReferenceIs
  <2>2. /\ \A t \in Stores, p \in Impis :
             t # s \/ p # ref[2] => mapping'[t][p] = mapping[t][p]
        /\ impu' = impu
        /\ mapping'[s][ref[2]].cas = 0 => mapping'[s][ref[2]].impus = {}
    <3>1. CASE UNCHANGED mapping
      BY <2>1, <3>1 DEF MapDone, AbsentIsEmpty
    <3>2. CASE \E m : /\ m.cas = 0 => m.impus = {}
                      /\ mapping' = [mapping EXCEPT ![s][ref[2]] = m]
      <4>1. PICK m : /\ m.cas = 0 => m.impus = {}
                     /\ mapping' = [mapping EXCEPT ![s][ref[2]] = m]
        BY <3>2
      <4>2. /\ mapping'[s][ref[2]] = m
            /\ \A t \in Stores, p \in Impis :
                 t # s \/ p # ref[2] => mapping'[t][p] = mapping[t][p]
        BY <2>1, <4>1 DEF TypeOK
      <4> QED BY <2>1, <4>1, <4>2 DEF MapDone
    <3> QED BY <2>1, <3>1, <3>2 DEF MapDone
  <2>3. \A e \in Keys : e \in mapping'[s][ref[2]].impus <=>
          IF e = d THEN ref[1] # "mapDelete" ELSE e \in mapping[s][ref[2]].impus
    BY <2>1 DEF MapDone
  <2>4. \A t \in Stores, e \in Keys : t # s \/ e # d =>
          {p \in Impis : e \in mapping'[t][p].impus} =
          {p \in Impis : e \in mapping[t][p].impus}
    BY <2>1, <2>2, <2>3
  <2>5. \A t \in Stores, e \in Keys : t # s \/ e # d => Index(t, e)' = Index(t, e)
    BY <2>2, <2>4 DEF Index
  <2>6. DoneIn(Index(s, d), Index(s, d)', ref)
    BY <1>3, <2>1, <2>2, <2>3 DEF Index, DoneIn
  <2>7. AbsentIsEmpty'
    BY SMTT(30), <2>1, <2>2 DEF AbsentIsEmpty
  <2> QED BY <2>2, <2>5, <2>6, <2>7 DEF Bystanders, SameSet
<1> QED BY <1>2, <1>3
-----------------------------------------------------------------------------
(* What a worker that writes an IRS leaves behind.                         *)

\* The stores of worker w, in state x, but for the one it is at, when its IRS
\* has become i.
Siblings(w, x, i) ==
  \A n \in 1..Len(Sites[w]) : n # x.site =>
    IF n > x.site THEN Before(Sites[w][n], i)
                  ELSE After(Sites[w][n], i.default, Target(x), {})

\* Worker w, now in state y, is done with d or goes on as it should.
Rests(w, d, y) ==
  \/ y.pc = "idle" /\ Agreed(d)
  \/ y.pc \in PutPcs /\ y.irs.default = d /\ Settles(w, y)

\* A change at the store where the worker is leaves the others as they were.
LEMMA SiblingsStay ==
  ASSUME StoresDiffer, NEW w \in Workers, NEW x \in WorkerStates,
         x.site <= Len(Sites[w]), x.irs.default \in Keys,
         \A n \in 1..Len(Sites[w]) : Sites[w][n] \in Stores,
         Siblings(w, x, x.irs), Bystanders(Sites[w][x.site], x.irs.default),
         NEW i, i.default = x.irs.default, \A rec : Fits(x.irs, rec) => Fits(i, rec)
  PROVE  Siblings(w, x, i)'
<1> DEFINE d == x.irs.default
<1>1. x.site \in 1..Len(Sites[w])
  BY SMTT(30), SitesType DEF WorkerStates
<1>2. ASSUME NEW t \in Stores, t # Sites[w][x.site]
      PROVE  /\ Before(t, x.irs) => Before(t, i)'
             /\ After(t, d, Target(x), {}) => After(t, i.default, Target(x), {})'
  <2>1. impu'[t][d].rec = impu[t][d].rec /\ Index(t, d)' = Index(t, d)
    BY <1>2 DEF Bystanders
  <2>2. Indexed(t, d)' <=> Indexed(t, d)
    BY <2>1 DEF Indexed
  <2> QED BY <2>1, <2>2 DEF Before, After
<1>3. ASSUME NEW n \in 1..Len(Sites[w]), n # x.site
      PROVE  Sites[w][n] # Sites[w][x.site]
  BY <1>1, <1>3 DEF StoresDiffer
<1> QED BY <1>2, <1>3 DEF Siblings

\* A worker that leaves a store turns to the next one, or all stores agree.
LEMMA LeavesRests ==
  ASSUME EveryStoreOnce, NEW w \in Workers, NEW x \in WorkerStates,
         x.site <= Len(Sites[w]), NEW i, i = x.irs \/ i = Final(x),
         NEW d, i.default = d, NEW y, Leaves(w, x, i, y), Siblings(w, x, i)',
         After(Sites[w][x.site], d, Target(x), {})'
  PROVE  Rests(w, d, y)'
<1>1. x.site \in 1..Len(Sites[w]) /\ Len(Sites[w]) \in Nat
  BY SMTT(30), SitesType DEF WorkerStates
<1>2. CASE y.pc = "idle" /\ ~(x.site < Len(Sites[w]))
  <2>1. \A n \in 1..Len(Sites[w]) : After(Sites[w][n], d, Target(x), {})'
    <3>1. \A n \in 1..Len(Sites[w]) : ~(n > x.site)
      BY SMTT(30), <1>1, <1>2
    <3> QED BY <1>1, <3>1 DEF Siblings, After
  <2>2. \A s \in Stores : After(s, d, Target(x), {})'
    BY <2>1 DEF EveryStoreOnce
  <2>3. Agreed(d)'
    BY <2>2 DEF Agreed, After, Indexed, SameSet
  <2> QED BY <1>2, <2>3 DEF Rests
<1>3. CASE TurnsTo(w, x, i, x.site + 1, y)
  <2>1. /\ y.pc \in RecordPcs /\ y.irs = i /\ y.site = x.site + 1 /\ y.req = x.req
        /\ y.status = "OK"
    BY SMTT(30), <1>3, FirstCallKind DEF TurnsTo
  <2>2. y.pc \in PutPcs /\ y.pc \notin ReadPcs
    BY <2>1, PcKinds DEF PutPcs
  <2>3. Target(y) = Target(x)
    BY <2>1 DEF Target, Deleting, Final
  <2>4. ASSUME NEW n \in 1..Len(Sites[w]) PROVE Progress(w, y, n)'
    <3>1. CASE n > x.site
      <4>1. Before(Sites[w][n], i)'
        BY SMTT(30), <1>1, <3>1 DEF Siblings
      <4>2. n > y.site \/ n = y.site
        BY SMTT(30), <1>1, <2>1, <3>1
      <4> QED BY <2>1, <4>1, <4>2 DEF Progress
    <3>2. CASE ~(n > x.site)
      <4>1. After(Sites[w][n], d, Target(x), {})'
        BY <1>1, <3>2 DEF Siblings, After
      <4>2. ~(n > y.site) /\ n # y.site
        BY SMTT(30), <1>1, <2>1, <3>2
      <4> QED BY <2>1, <2>3, <4>1, <4>2 DEF Progress
    <3> QED BY <3>1, <3>2
  <2>5. InHand(w, y)'
    BY <2>1 DEF InHand, Held, RecordPcs, AddPcs
  <2> QED BY <2>1, <2>2, <2>4, <2>5 DEF Rests, Settles
<1> QED BY <1>2, <1>3 DEF Leaves

\* A worker that stays at a store has its references to do.
LEMMA StaysRests ==
  ASSUME NEW w \in Workers, NEW x \in WorkerStates, x.site <= Len(Sites[w]),
         NEW i, i = x.irs \/ i = Final(x), NEW d, i.default = d, Siblings(w, x, i)', NEW y,
         y.pc \in ReferencePcs, y.irs = i, y.req = x.req, y.site = x.site,
         After(Sites[w][x.site], d, Target(x), y.todo)',
         y.status # "ERROR", y.pc \in {"work", "assocDelete"} => y.status = "OK",
         InHand(w, y)'
  PROVE  Rests(w, d, y)'
<1>1. /\ y.pc \in PutPcs /\ y.pc \notin ReadPcs /\ y.pc \notin RecordPcs
  BY PcKinds DEF PutPcs
<1>2. Target(y) = Target(x)
  BY DEF Target, Deleting, Final
<1>3. ASSUME NEW n \in 1..Len(Sites[w]) PROVE Progress(w, y, n)'
  BY SMTT(30), <1>1, <1>2 DEF Progress, Siblings, After
<1> QED BY <1>1, <1>3 DEF Rests, Settles
\* The stores of a worker that writes an IRS.
LEMMA SettlesMeans ==
  ASSUME NEW w \in Workers, NEW x \in WorkerStates, x.site <= Len(Sites[w]),
         x.pc \in PutPcs, Settles(w, x)
  PROVE  /\ Siblings(w, x, x.irs)
         /\ x.pc \in RecordPcs => Before(Sites[w][x.site], x.irs)
         /\ x.pc \in ReferencePcs =>
              After(Sites[w][x.site], x.irs.default, Target(x), x.todo)
<1>1. x.site \in 1..Len(Sites[w]) /\ \A n \in 1..Len(Sites[w]) : Progress(w, x, n)
  BY SMTT(30), SitesType DEF Settles, WorkerStates
<1>2. ~(x.site > x.site)
  BY SMTT(30), <1>1
<1> QED BY <1>1, <1>2, PcKinds DEF Progress, Siblings

\* Nothing has changed.
LEMMA UnchangedBystanders ==
  ASSUME UNCHANGED <<impu, mapping>>, NEW s, NEW d
  PROVE  /\ Bystanders(s, d)
         /\ \A i : Before(s, i)' <=> Before(s, i)
         /\ \A rec, todo : After(s, d, rec, todo)' <=> After(s, d, rec, todo)
<1>1. \A t, e : Index(t, e)' = Index(t, e)
  BY DEF Index
<1> QED BY <1>1 DEF Bystanders, SameSet, Before, After, Indexed

\* Other subscribers' stores agree as before.
LEMMA BystandersAgreed ==
  ASSUME NEW s, NEW d, Bystanders(s, d), NEW e \in Keys, e # d, Agreed(e)
  PROVE  Agreed(e)'
<1>1. \A t \in Stores : /\ Index(t, e)' = Index(t, e)
                        /\ SameSet(impu[t][e].rec, impu'[t][e].rec)
  BY DEF Bystanders
<1>2. \A t \in Stores : Indexed(t, e)'
  BY <1>1 DEF Indexed, Agreed
<1>3. \A t, u \in Stores : SameSet(impu'[t][e].rec, impu'[u][e].rec)
  BY <1>1 DEF SameSet, Agreed
<1> QED BY <1>2, <1>3 DEF Agreed

\* An entry that is there has a record.
LEMMA EntryForms ==
  ASSUME NEW e \in ImpuEntries
  PROVE  /\ IsPresent(e) <=> e.rec # NoRecord
         /\ ~IsPresent(e) => e = AbsentImpu
         /\ is_default_impu(e.rec) => e.rec # NoRecord
         /\ e.rec = NoRecord \/ is_default_impu(e.rec)
              \/ \E d \in Keys : e.rec = AssociatedImpu(d)
<1>1. CASE e = AbsentImpu
  BY <1>1 DEF AbsentImpu, NoRecord, is_default_impu, IsPresent
<1>2. CASE e \in [cas : Nat \ {0}, rec : DefaultImpus \cup AssociatedImpus]
  <2>1. e.cas # 0 /\ (e.rec \in DefaultImpus \/ e.rec \in AssociatedImpus)
    BY <1>2
  <2>2. CASE e.rec \in DefaultImpus
    BY SMTT(30), <2>1, <2>2 DEF DefaultImpus, NoRecord, is_default_impu, IsPresent
  <2>3. CASE e.rec \in AssociatedImpus
    <3>1. e.rec.default \in Keys /\ e.rec = AssociatedImpu(e.rec.default)
      BY <2>3 DEF AssociatedImpus, AssociatedImpu
    <3>2. e.rec.kind = "associated"
      BY <2>3 DEF AssociatedImpus
    <3> QED BY SMTT(30), <2>1, <3>1, <3>2 DEF NoRecord, is_default_impu, IsPresent
  <2> QED BY <2>1, <2>2, <2>3
<1> QED BY <1>1, <1>2 DEF ImpuEntries

\* A record that is done without a failure is what the request makes of it.
LEMMA FinishedRecord ==
  ASSUME TypeOK, NEW w, NEW x \in WorkerStates, Keeps(x), x.pc \in RecordPcs,
         Sites[w][x.site] \in Stores, Fits(x.irs, OwnEntry(w, x).rec), ~Fails,
         NEW y, Finishes(w, x, y)
  PROVE  RecordIs(Sites[w][x.site], x.irs.default, Target(x))
<1> DEFINE s == Sites[w][x.site]
           d == x.irs.default
<1>1. d \in Keys /\ OwnEntry(w, x) = impu[s][d] /\ impu[s][d] \in ImpuEntries
  BY SMTT(30) DEF TypeOK, WorkerStates, ImplicitRegSets, OwnEntry
<1>2. /\ Deleting(x) => x.pc # "create" /\ x.pc # "set"
      /\ x.pc = "delete" => Deleting(x)
      /\ x.pc = "create" <=> ~x.irs.existing
  BY PcKinds DEF Keeps
<1>3. IsPresent(impu[s][d]) <=> x.irs.existing
  BY <1>1, EntryForms DEF Fits
<1>4. CASE x.pc \in {"create", "set"} /\ Writes(w, x)
  <2>1. UNCHANGED mapping /\ \E c : impu' =
          [impu EXCEPT ![s][d] = [cas |-> c, rec |-> create_impu(x.irs)]]
    BY <1>4 DEF Writes, WriteImpu
  <2>2. impu'[s][d].rec = create_impu(x.irs)
    <3>1. PICK c : impu' = [impu EXCEPT ![s][d] = [cas |-> c, rec |-> create_impu(x.irs)]]
      BY <2>1
    <3>2. impu'[s][d] = [cas |-> c, rec |-> create_impu(x.irs)]
      BY <1>1, <3>1 DEF TypeOK
    <3> QED BY SMTT(30), <3>2
  <2>3. Target(x) = create_impu(x.irs)
    BY <1>2, <1>4 DEF Target
  <2> QED BY <2>1, <2>2, <2>3 DEF RecordIs
<1>5. CASE x.pc = "delete" /\ Removes(w, x)
  <2>1. UNCHANGED mapping /\ impu' = [impu EXCEPT ![s][d] = AbsentImpu]
    BY <1>5 DEF Removes, RemoveImpu
  <2>2. impu'[s][d].rec = NoRecord
    BY <1>1, <2>1 DEF TypeOK, AbsentImpu
  <2>3. Target(x) = NoRecord
    BY <1>2, <1>5 DEF Target
  <2> QED BY <2>1, <2>2, <2>3 DEF RecordIs
<1> QED BY <1>1, <1>2, <1>3, <1>4, <1>5 DEF Finishes
\* Its references are then to do.
LEMMA FinishedIndex ==
  ASSUME TypeOK, NEW w \in Workers, NEW x \in WorkerStates, Keeps(x),
         x.pc \in RecordPcs, Sites[w][x.site] \in Stores,
         Before(Sites[w][x.site], x.irs),
         RecordIs(Sites[w][x.site], x.irs.default, Target(x))
  PROVE  /\ Bystanders(Sites[w][x.site], x.irs.default)
         /\ After(Sites[w][x.site], x.irs.default, Target(x), WorkList(Final(x)))'
<1> DEFINE s == Sites[w][x.site]
           d == x.irs.default
           i == Final(x)
           rec == impu[s][d].rec
<1>1. d \in Keys /\ impu[s][d] \in ImpuEntries /\ x.irs \in ImplicitRegSets
  BY SMTT(30) DEF TypeOK, WorkerStates, ImplicitRegSets
<1>2. Fits(x.irs, rec) /\ Indexed(s, d)
  BY DEF Before
<1>3. OwnSet(x.irs) /\ Puttable(x, x.irs)
  BY PcKinds DEF Keeps, Puttable
<1>4. i \in ImplicitRegSets /\ Fits(i, rec)
  BY <1>2, <1>3, FinalOwn, FitsFinal
<1>5. AssocIn(Target(x)) = get_associated_impus(i) /\ ImpisIn(Target(x)) = get_associated_impis(i)
  <2>1. CASE Deleting(x)
    <3>1. /\ i.impus = delete_tracked(x.irs.impus) /\ i.impis = delete_tracked(x.irs.impis)
      BY <1>1, <2>1, DeleteAllOwn DEF Final
    <3>2. get_associated_impus(i) = {} /\ get_associated_impis(i) = {}
      BY <3>1 DEF get_associated_impus, get_associated_impis, get_elements_in_state,
         delete_tracked
    <3> QED BY <2>1, <3>2 DEF Target, AssocIn, ImpisIn, NoRecord, is_default_impu
  <2>2. CASE ~Deleting(x)
    <3>1. is_default_impu(create_impu(x.irs))
      BY <1>1, CreateImpuType DEF DefaultImpus, is_default_impu
    <3> QED BY <1>1, <1>3, <2>2, <3>1, CreateOwn DEF Target, Final, AssocIn, ImpisIn
  <2> QED BY <2>1, <2>2
<1>6. \A e \in Keys : Target(x) # AssociatedImpu(e) /\ rec # AssociatedImpu(e)
  <2>1. is_default_impu(create_impu(x.irs))
    BY <1>1, CreateImpuType DEF DefaultImpus, is_default_impu
  <2>2. \A e \in Keys : ~is_default_impu(AssociatedImpu(e)) /\ AssociatedImpu(e) # NoRecord
    BY DEF AssociatedImpu, NoRecord, is_default_impu
  <2> QED BY <1>2, <2>1, <2>2 DEF Target, Fits
<1>7. Index(s, d).assoc = AssocIn(rec) /\ Index(s, d).impis = ImpisIn(rec)
  BY DEF Index
<1>8. AssocIn(rec) \subseteq Impus /\ ImpisIn(rec) \subseteq Impis
  BY <1>1, EntryKinds DEF AssocIn, ImpisIn, DefaultImpus
<1>9. /\ Bystanders(s, d)
      /\ Index(s, d)'.leads = Index(s, d).leads /\ Index(s, d)'.maps = Index(s, d).maps
      /\ Index(s, d)'.assoc = get_associated_impus(i)
      /\ Index(s, d)'.impis = get_associated_impis(i)
  <2> DEFINE new == Target(x)
  <2>1. /\ s \in Stores /\ RecordIs(s, d, new)
        /\ \A e \in Keys : new # AssociatedImpu(e) /\ impu[s][d].rec # AssociatedImpu(e)
    BY <1>6
  <2>2. /\ Bystanders(s, d)
        /\ Index(s, d)'.leads = Index(s, d).leads /\ Index(s, d)'.maps = Index(s, d).maps
        /\ Index(s, d)'.assoc = AssocIn(new) /\ Index(s, d)'.impis = ImpisIn(new)
    <3> HIDE DEF s, d, new
    <3> QED BY <1>1, <2>1, RecordIndex
  <2> QED BY <1>5, <2>2
<1>10. ListedBut(Index(s, d)', WorkList(i))
  <2> DEFINE ix == Index(s, d)
  <2>1. PICK jx : jx = Index(s, d)'
    OBVIOUS
  <2>2. /\ Covers(i.impus, ix.assoc) /\ Covers(i.impis, ix.impis) /\ ListedBut(ix, {})
        /\ ix.assoc \subseteq Impus /\ ix.impis \subseteq Impis
    BY <1>2, <1>4, <1>7, <1>8 DEF Fits, Indexed
  <2> HIDE DEF ix, i
  <2>3. ListedBut(jx, WorkList(i))
    BY <1>4, <1>9, <2>1, <2>2, ListedWork DEF ix
  <2> QED BY <2>1, <2>3
<1> QED BY <1>9, <1>10 DEF After, RecordIs

\* Writing a record without a failure.
LEMMA RecordRests ==
  ASSUME EveryStoreOnce, TypeOK, NEW w \in Workers, NEW x \in WorkerStates,
         Keeps(x), x.pc \in RecordPcs, x.site <= Len(Sites[w]),
         \A n \in 1..Len(Sites[w]) : Sites[w][n] \in Stores,
         Settles(w, x), ~Fails, NEW y, RecordStep(w, x, y)
  PROVE  /\ Rests(w, x.irs.default, y)' /\ UNCHANGED mapping
         /\ Bystanders(Sites[w][x.site], x.irs.default)
<1> DEFINE s == Sites[w][x.site]
           d == x.irs.default
<1>1. /\ x.site \in 1..Len(Sites[w]) /\ s \in Stores /\ d \in Keys
      /\ x.irs \in ImplicitRegSets /\ StoresDiffer
  BY SMTT(30), SitesType DEF WorkerStates, ImplicitRegSets, EveryStoreOnce
<1>2. /\ Siblings(w, x, x.irs) /\ Before(s, x.irs) /\ x.status = "OK"
  BY SettlesMeans, PcKinds DEF Settles
<1>3. OwnEntry(w, x) = impu[s][d] /\ Fits(x.irs, OwnEntry(w, x).rec)
  BY <1>2 DEF OwnEntry, Before
<1>4. Puttable(x, x.irs) /\ (x.pc # "create" => x.irs.existing)
  BY PcKinds DEF Keeps, Puttable
<1>5. CASE Finishes(w, x, y)
  <2>1. PICK i : i = Final(x)
    OBVIOUS
  <2>2. RecordIs(s, d, Target(x)) /\ TurnsFromRecord(w, x, y)
    BY <1>1, <1>3, <1>5, FinishedRecord DEF Finishes
  <2>3. Bystanders(s, d) /\ After(s, d, Target(x), WorkList(i))'
    BY <1>1, <1>2, <2>1, <2>2, FinishedIndex
  <2>4. i.default = d
    BY <1>4, <2>1, FinalOwn
  <2>5. Siblings(w, x, i)'
    BY <1>1, <1>2, <2>1, <2>3, <2>4, SiblingsStay, FitsFinal
  <2>6. Rests(w, d, y)'
    <3>1. CASE WorkList(i) = {} /\ Leaves(w, x, i, y)
      <4>1. After(s, d, Target(x), {})'
        BY <2>3, <3>1 DEF After
      <4> QED BY <2>1, <2>4, <2>5, <3>1, <4>1, LeavesRests
    <3>2. CASE /\ y.pc = "work" /\ y.irs = i /\ y.todo = WorkList(i)
               /\ y.req = x.req /\ y.site = x.site /\ y.status = x.status
      <4>1. /\ y.pc \in ReferencePcs /\ InHand(w, y)'
            /\ y.status # "ERROR" /\ y.status = "OK"
        BY <1>2, <3>2, PcGroups DEF InHand, Held, AddPcs
      <4>2. After(s, d, Target(x), y.todo)'
        BY <2>3, <3>2 DEF After
      <4> QED BY <2>1, <2>4, <2>5, <3>2, <4>1, <4>2, StaysRests
    <3> QED BY <2>1, <2>2, <3>1, <3>2 DEF TurnsFromRecord
  <2> QED BY <2>2, <2>3, <2>6 DEF RecordIs
<1>6. CASE Retries(w, x, y)
  <2>1. /\ UNCHANGED <<impu, mapping>> /\ y.req = x.req /\ y.site = x.site
        /\ y.status = x.status /\ y.pc \in RecordPcs
    BY <1>6 DEF Retries, stores, RecordPcs
  <2>2. y.irs = x.irs
    <3>1. is_default_impu(OwnEntry(w, x).rec) =>
            update_from_impu_from_store(x.irs, OwnEntry(w, x).rec) = x.irs
      BY <1>1, <1>3, FitsUpdate
    <3> QED BY <1>6, <3>1 DEF Retries
  <2>3. /\ Bystanders(s, d) /\ \A rec : Fits(x.irs, rec) => Fits(x.irs, rec)
        /\ Before(s, x.irs)'
    BY <1>2, <2>1, UnchangedBystanders
  <2>4. Siblings(w, x, x.irs)'
    BY <1>1, <1>2, <2>3, SiblingsStay
  <2>5. Target(y) = Target(x)
    BY <2>1, <2>2 DEF Target, Deleting
  <2>6. \A n \in 1..Len(Sites[w]) : Progress(w, y, n)'
    BY <2>1, <2>2, <2>3, <2>4, <2>5 DEF Progress, Siblings
  <2>7. InHand(w, y)' /\ y.pc \in PutPcs /\ y.pc \notin ReadPcs
    BY <2>1, PcKinds DEF InHand, Held, RecordPcs, AddPcs
  <2> QED BY <1>2, <2>1, <2>2, <2>3, <2>6, <2>7 DEF Rests, Settles
<1>7. CASE Abandons(w, x, y)
  <2>1. x.pc = "getStored" /\ ~is_default_impu(OwnEntry(w, x).rec)
    BY <1>7 DEF Abandons
  <2> QED BY <1>3, <1>4, <2>1 DEF Fits
<1> QED BY <1>5, <1>6, <1>7 DEF RecordStep
-----------------------------------------------------------------------------
(* Updating references without a failure.                                  *)

\* Worker w, in state x, brings a reference up to date or goes on with it.
ReferenceCall(w, x, y) ==
  LET s == Sites[w][x.site]
      d == x.irs.default
  IN \E ref \in x.todo :
       \/ ReferenceIs(s, d, ref) /\ TurnsFrom(w, x, ref, "OK", y)
       \/ /\ UNCHANGED <<impu, mapping>>
          /\ \E pc \in LoopPcs : \E m, st :
               /\ GoesOn(x, ref, pc, m, st, y) /\ Held(mapping[s][ref[2]], d, pc, m)
               /\ st \in {"OK", "DATA_CONTENTION"} /\ (pc = "assocDelete" => st = "OK")

\* It stays on its way.
LEMMA ReferenceRests ==
  ASSUME EveryStoreOnce, TypeOK, AbsentIsEmpty, NEW w \in Workers, NEW x \in WorkerStates,
         x.pc \in ReferencePcs, x.site <= Len(Sites[w]),
         \A n \in 1..Len(Sites[w]) : Sites[w][n] \in Stores,
         Settles(w, x), NEW y, ReferenceCall(w, x, y),
         \A ref \in x.todo : ref \in AssocReferences =>
           /\ ref[2] # x.irs.default
           /\ impu[Sites[w][x.site]][ref[2]].rec \in
                {NoRecord, AssociatedImpu(x.irs.default)}
  PROVE  /\ Rests(w, x.irs.default, y)' /\ AbsentIsEmpty'
         /\ Bystanders(Sites[w][x.site], x.irs.default)
<1> DEFINE s == Sites[w][x.site]
           d == x.irs.default
<1>1. /\ x.site \in 1..Len(Sites[w]) /\ s \in Stores /\ d \in Keys
      /\ x.todo \in SUBSET References /\ StoresDiffer
      /\ \A rec : Fits(x.irs, rec) => Fits(x.irs, rec)
  BY SMTT(30), SitesType DEF WorkerStates, ImplicitRegSets, EveryStoreOnce
<1>2. Siblings(w, x, x.irs) /\ After(s, d, Target(x), x.todo)
  BY SettlesMeans, PcKinds
<1>3. ASSUME NEW ref \in x.todo, ReferenceIs(s, d, ref), TurnsFrom(w, x, ref, "OK", y)
      PROVE  Rests(w, d, y)' /\ AbsentIsEmpty' /\ Bystanders(s, d)
  <2>1. /\ Bystanders(s, d) /\ DoneIn(Index(s, d), Index(s, d)', ref)
        /\ impu'[s][d].rec = impu[s][d].rec /\ AbsentIsEmpty'
    BY <1>1, <1>3, ReferenceIndex
  <2>2. ListedBut(Index(s, d)', x.todo \ {ref})
    BY <1>1, <1>2, <2>1, ListedDone DEF After
  <2>3. PICK left : left = x.todo \ {ref}
    OBVIOUS
  <2>4. After(s, d, Target(x), left)'
    BY <1>2, <2>1, <2>2, <2>3 DEF After
  <2>5. Siblings(w, x, x.irs)'
    BY <1>1, <1>2, <2>1, SiblingsStay
  <2>6. Rests(w, d, y)'
    <3>1. CASE left = {} /\ Leaves(w, x, x.irs, y)
      <4>1. After(s, d, Target(x), {})'
        BY <2>4, <3>1 DEF After
      <4> QED BY <2>5, <3>1, <4>1, LeavesRests
    <3>2. CASE /\ y.pc = "work" /\ y.todo = left /\ y.irs = x.irs
               /\ y.req = x.req /\ y.site = x.site /\ y.status = "OK"
      <4>1. y.pc \in ReferencePcs /\ InHand(w, y)' /\ y.status # "ERROR"
        BY <3>2, PcGroups DEF InHand, Held, AddPcs
      <4>2. After(s, d, Target(x), y.todo)'
        BY <2>4, <3>2 DEF After
      <4> QED BY <2>5, <3>2, <4>1, <4>2, StaysRests
    <3> QED BY <1>3, <2>3, <3>1, <3>2 DEF TurnsFrom
  <2> QED BY <2>1, <2>6
<1>4. ASSUME NEW ref \in x.todo, UNCHANGED <<impu, mapping>>, NEW pc \in LoopPcs,
             NEW m, NEW st, GoesOn(x, ref, pc, m, st, y),
             Held(mapping[s][ref[2]], d, pc, m), st \in {"OK", "DATA_CONTENTION"},
             pc = "assocDelete" => st = "OK"
      PROVE  Rests(w, d, y)' /\ AbsentIsEmpty' /\ Bystanders(s, d)
  <2>1. Bystanders(s, d) /\ After(s, d, Target(x), x.todo)'
    BY <1>2, <1>4, UnchangedBystanders
  <2>2. Siblings(w, x, x.irs)'
    BY <1>1, <1>2, <2>1, SiblingsStay
  <2>3. /\ y.pc = pc /\ y.item = ref /\ y.mp = m /\ y.status = st /\ y.todo = x.todo
        /\ y.irs = x.irs /\ y.req = x.req /\ y.site = x.site
    BY <1>4 DEF GoesOn
  <2>4. After(s, d, Target(x), y.todo)'
    BY <2>1, <2>3 DEF After
  <2>5. /\ y.pc \in ReferencePcs /\ y.status # "ERROR"
        /\ y.pc \in {"work", "assocDelete"} => y.status = "OK"
    BY <1>4, <2>3, PcGroups DEF LoopPcs, DeletePcs, RefreshPcs, AddPcs
  <2>6. InHand(w, y)'
    BY <1>4, <2>3 DEF InHand
  <2>7. Rests(w, d, y)'
    BY <2>2, <2>3, <2>4, <2>5, <2>6, StaysRests
  <2>8. AbsentIsEmpty'
    BY <1>4 DEF AbsentIsEmpty
  <2> QED BY <2>1, <2>7, <2>8
<1> QED BY <1>3, <1>4 DEF ReferenceCall
\* set_impi_mapping of a mapping with the change for d.
LEMMA SetMappingCall ==
  ASSUME Inv, NEW w \in Workers, ~Fails, NEW ref \in References, ref \notin AssocReferences,
         ref \in worker[w].todo, NEW m, NEW retry, SetMapping(w, ref, m, retry),
         retry \in {"mapDeleteGet", "mapRefreshGet", "mapAddGet"},
         mapping[Store(w)][ref[2]].cas = m.cas =>
           m.impus = IF ref[1] = "mapDelete"
                     THEN mapping[Store(w)][ref[2]].impus \ {worker[w].irs.default}
                     ELSE mapping[Store(w)][ref[2]].impus \cup {worker[w].irs.default}
  PROVE  ReferenceCall(w, worker[w], worker'[w])
<1> DEFINE x == worker[w]
           y == worker'[w]
           s == Store(w)
           d == x.irs.default
           p == ref[2]
<1>1. TypeOK /\ s = Sites[w][x.site] /\ s \in Stores /\ p \in Impis
  BY WorkerSound DEF References
<1>2. CASE /\ mapping[s][p].cas = m.cas /\ WriteMapping(s, p, m.impus)
           /\ Become(w, ReferenceDone(w, x, ref, "OK"))
  <2>1. /\ UNCHANGED impu
        /\ mapping' = [mapping EXCEPT ![s][p] = [cas |-> lastCas[s] + 1, impus |-> m.impus]]
    BY <1>2 DEF WriteMapping
  <2>2. PICK e : e = [cas |-> lastCas[s] + 1, impus |-> m.impus]
    OBVIOUS
  <2>3. e.cas # 0 /\ e.impus = m.impus
    <3>1. lastCas[s] \in Nat
      BY <1>1 DEF TypeOK
    <3> QED BY SMTT(30), <2>2, <3>1
  <2>4. mapping'[s][p] = e
    BY <1>1, <2>1, <2>2 DEF TypeOK
  <2>5. MapDone(s, d, ref)
    BY <1>2, <2>1, <2>2, <2>3, <2>4 DEF MapDone
  <2>6. TurnsFrom(w, x, ref, "OK", y)
    BY <1>2, HandlesMeans
  <2> QED BY <1>1, <2>5, <2>6 DEF ReferenceCall, ReferenceIs
<1>3. CASE /\ mapping[s][p].cas # m.cas /\ UNCHANGED stores
           /\ Become(w, Continued(x, ref, retry, m, "DATA_CONTENTION"))
  <2>1. GoesOn(x, ref, retry, m, "DATA_CONTENTION", y)
    BY <1>3, HandlesMeans
  <2>2. /\ retry \in LoopPcs /\ retry # "assocDelete" /\ UNCHANGED <<impu, mapping>>
        /\ "DATA_CONTENTION" \in {"OK", "DATA_CONTENTION"}
    BY <1>3 DEF LoopPcs, DeletePcs, RefreshPcs, AddPcs, stores
  <2>3. Held(mapping[s][p], d, retry, m)
    BY <1>3 DEF Held
  <2> QED BY <1>1, <2>1, <2>2, <2>3 DEF ReferenceCall
<1> QED BY <1>2, <1>3 DEF SetMapping, SetAllowed
\* The steps of update_irs_associated_impus and update_irs_impi_mappings when
\* all calls are answered.
LEMMA AnsweredCalls ==
  ASSUME Inv, AbsentIsEmpty, NEW w \in Workers, Keeps(worker[w]), InHand(w, worker[w]),
         worker[w].status \in {"OK", "DATA_CONTENTION"},
         worker[w].pc \in {"work", "assocDelete"} => worker[w].status = "OK",
         ~Fails, UpdatingReferences(w)
  PROVE  ReferenceCall(w, worker[w], worker'[w])
<1> DEFINE x == worker[w]
           y == worker'[w]
           s == Store(w)
           d == x.irs.default
<1>1. /\ TypeOK /\ s = Sites[w][x.site] /\ s \in Stores /\ x \in WorkerStates
      /\ Coherent(w, x) /\ d \in Keys
  BY WorkerSound
<1>2. /\ {"assocDelete", "mapDeleteGet", "mapDelete", "mapRefreshGet", "mapRefresh",
           "mapAddGet", "mapAdd"} \subseteq LoopPcs
      /\ \A ref \in References :
           /\ ref[1] \in {"assocDelete", "assocRefresh", "assocAdd"} =>
                ref \in AssocReferences /\ ref[2] \in Keys
           /\ ref[1] \in {"mapDelete", "mapRefresh", "mapAdd"} =>
                ref \notin AssocReferences /\ ref[2] \in Impis
  BY PhasesMeaning DEF LoopPcs, DeletePcs, RefreshPcs, AddPcs, References,
     AssocReferences, Keys
<1>3. /\ UNCHANGED stores => UNCHANGED <<impu, mapping>>
      /\ \A ref : IsNext(x, ref) => x.status = "OK" /\ ref \in x.todo
      /\ \A ref, pc : Looping(x, ref, pc) /\ pc \in LoopPcs => ref \in x.todo
      /\ \A pc \in LoopPcs : x.pc = pc => x.item \in x.todo
  BY LoopingReference DEF stores, IsNext
<1>4. ASSUME NEW ref, ref \in x.todo, ReferenceIs(s, d, ref),
             Become(w, ReferenceDone(w, x, ref, "OK"))
      PROVE  ReferenceCall(w, x, y)
  <2>1. TurnsFrom(w, x, ref, "OK", y)
    BY <1>4, HandlesMeans
  <2> QED BY <1>1, <1>4, <2>1 DEF ReferenceCall
<1>5. ASSUME NEW ref, ref \in x.todo, UNCHANGED stores, NEW pc \in LoopPcs, NEW m,
             Held(mapping[s][ref[2]], d, pc, m), pc = "assocDelete" => x.status = "OK",
             Become(w, Continued(x, ref, pc, m, x.status))
      PROVE  ReferenceCall(w, x, y)
  <2>1. GoesOn(x, ref, pc, m, x.status, y)
    BY <1>5, HandlesMeans
  <2> QED BY <1>1, <1>3, <1>5, <2>1 DEF ReferenceCall
<1>6. ASSUME NEW ref \in References, GetAssociated(w, ref)
      PROVE  ReferenceCall(w, x, y)
  <2> DEFINE ours == impu[s][ref[2]].rec = AssociatedImpu(d)
  <2>1. /\ IsNext(x, ref) /\ ref[1] = "assocDelete" /\ UNCHANGED stores
        /\ \/ ours /\ Become(w, Continued(x, ref, "assocDelete", x.mp, x.status))
           \/ ~ours /\ Become(w, ReferenceDone(w, x, ref, x.status))
    BY <1>6 DEF GetAssociated
  <2>2. ~ours => ReferenceIs(s, d, ref)
    BY <1>2, <1>3, <2>1 DEF ReferenceIs, AssocDone
  <2>3. Held(mapping[s][ref[2]], d, "assocDelete", x.mp)
    BY DEF Held, AddPcs
  <2> QED BY <1>2, <1>3, <1>4, <1>5, <2>1, <2>2, <2>3
<1>7. ASSUME NEW ref \in References, SetAssociated(w, ref)
      PROVE  ReferenceCall(w, x, y)
  <2>1. /\ IsNext(x, ref) /\ ref[1] \in {"assocRefresh", "assocAdd"}
        /\ WriteImpu(s, ref[2], AssociatedImpu(d))
        /\ Become(w, ReferenceDone(w, x, ref, x.status))
    BY <1>7 DEF SetAssociated
  <2>2. ref[2] \in Keys /\ ref \in AssocReferences /\ ref[1] # "assocDelete"
    BY <1>2, <2>1
  <2>3. PICK e : /\ e = [cas |-> lastCas[s] + 1, rec |-> AssociatedImpu(d)]
                 /\ impu' = [impu EXCEPT ![s][ref[2]] = e] /\ UNCHANGED mapping
    BY <2>1 DEF WriteImpu
  <2>4. impu'[s][ref[2]] = e
    BY <1>1, <2>2, <2>3 DEF TypeOK
  <2>5. impu'[s][ref[2]].rec = AssociatedImpu(d)
    BY SMTT(30), <2>3, <2>4
  <2>6. ReferenceIs(s, d, ref)
    BY <2>2, <2>3, <2>5 DEF ReferenceIs, AssocDone
  <2> QED BY <1>3, <1>4, <2>1, <2>6
<1>8. CASE DeleteAssociated(w)
  <2> DEFINE ref == x.item
  <2>1. /\ x.pc = "assocDelete" /\ RemoveImpu(s, ref[2])
        /\ Become(w, ReferenceDone(w, x, ref, "OK"))
    BY <1>8 DEF DeleteAssociated
  <2>2. /\ ref \in References /\ ref[1] = "assocDelete" /\ ref \in AssocReferences
        /\ ref[2] \in Keys
    BY <1>1, <1>2, <2>1, PhasesMeaning DEF Coherent, References, AssocReferences
  <2>3. impu' = [impu EXCEPT ![s][ref[2]] = AbsentImpu] /\ UNCHANGED mapping
    BY <2>1 DEF RemoveImpu
  <2>4. impu'[s][ref[2]] = AbsentImpu
    BY <1>1, <2>2, <2>3 DEF TypeOK
  <2>5. impu'[s][ref[2]].rec = NoRecord /\ NoRecord # AssociatedImpu(d)
    BY SMTT(30), <2>4 DEF AbsentImpu, NoRecord, AssociatedImpu
  <2>6. ReferenceIs(s, d, ref)
    BY <2>2, <2>3, <2>5 DEF ReferenceIs, AssocDone
  <2> QED BY <1>2, <1>3, <1>4, <2>1, <2>6
<1>9. ASSUME NEW ref \in References, GetMappingToDelete(w, ref)
      PROVE  ReferenceCall(w, x, y)
  <2> DEFINE entry == mapping[s][ref[2]]
             m == [entry EXCEPT !.impus = @ \ {d}]
             ours == IsPresent(entry) /\ d \in entry.impus
  <2>1. /\ Looping(x, ref, "mapDeleteGet") /\ ref[1] = "mapDelete" /\ UNCHANGED stores
        /\ \/ Become(w, Continued(x, ref, "mapDelete", m, x.status))
           \/ /\ ~ours /\ x.status = "DATA_CONTENTION"
              /\ Become(w, Continued(x, ref, "mapDeleteGet", AbsentMapping, x.status))
           \/ /\ ~ours /\ x.status # "DATA_CONTENTION"
              /\ Become(w, ReferenceDone(w, x, ref, x.status))
    BY <1>9 DEF GetMappingToDelete
  <2>2. ref[2] \in Impis /\ entry \in MappingEntries /\ ref \notin AssocReferences
    BY <1>1, <1>2, <2>1 DEF TypeOK
  <2>3. ~ours => entry.impus = entry.impus \ {d}
    BY <1>1, <2>2 DEF AbsentIsEmpty, IsPresent
  <2>4. ~ours => ReferenceIs(s, d, ref)
    BY <1>3, <2>1, <2>2, <2>3 DEF ReferenceIs, MapDone
  <2>5. m.impus = entry.impus \ {d}
    BY <2>2 DEF MappingEntries
  <2> HIDE DEF m, ours
  <2>6. /\ Held(entry, d, "mapDelete", m)
        /\ Held(entry, d, "mapDeleteGet", AbsentMapping)
    BY <2>5 DEF Held, AddPcs
  <2> QED BY <1>2, <1>3, <1>4, <1>5, <2>1, <2>4, <2>6
<1>10. /\ \A pc \in DeletePcs : x.pc = pc =>
             x.item \in References /\ x.item[1] = "mapDelete" /\ x.item[2] \in Impis
       /\ \A pc \in RefreshPcs : x.pc = pc =>
             x.item \in References /\ x.item[1] = "mapRefresh" /\ x.item[2] \in Impis
       /\ \A pc \in AddPcs : x.pc = pc =>
             x.item \in References /\ x.item[1] = "mapAdd" /\ x.item[2] \in Impis
  BY <1>1, PhasesMeaning DEF Coherent, References
<1>11. CASE DeleteMapping(w)
  <2> DEFINE ref == x.item
  <2>1. /\ x.pc = "mapDelete"
        /\ \/ SetMapping(w, ref, x.mp, "mapDeleteGet")
           \/ /\ x.mp.impus = {} /\ RemoveMapping(s, ref[2])
              /\ Become(w, ReferenceDone(w, x, ref, "OK"))
    BY <1>11 DEF DeleteMapping
  <2>2. /\ ref \in References /\ ref[1] = "mapDelete" /\ ref \in x.todo
        /\ ref \notin AssocReferences /\ ref[2] \in Impis
    BY <1>2, <1>3, <1>10, <2>1 DEF DeletePcs
  <2>3. x.mp.impus = mapping[s][ref[2]].impus \ {d}
    BY <1>1, <2>1 DEF InHand, Held
  <2>4. CASE SetMapping(w, ref, x.mp, "mapDeleteGet")
    BY <2>2, <2>3, <2>4, SetMappingCall
  <2>5. CASE /\ x.mp.impus = {} /\ RemoveMapping(s, ref[2])
             /\ Become(w, ReferenceDone(w, x, ref, "OK"))
    <3>1. UNCHANGED impu /\ mapping' = [mapping EXCEPT ![s][ref[2]] = AbsentMapping]
      BY <2>5 DEF RemoveMapping
    <3>2. mapping'[s][ref[2]] = AbsentMapping /\ AbsentMapping.impus = {}
      BY <1>1, <2>2, <3>1 DEF TypeOK, AbsentMapping
    <3>3. ReferenceIs(s, d, ref)
      BY <2>2, <2>3, <2>5, <3>1, <3>2 DEF ReferenceIs, MapDone
    <3> QED BY <1>4, <2>2, <2>5, <3>3
  <2> QED BY <2>1, <2>4, <2>5
<1>12. ASSUME NEW ref \in References, GetMappingToRefresh(w, ref)
       PROVE  ReferenceCall(w, x, y)
  <2> DEFINE entry == mapping[s][ref[2]]
             m == [entry EXCEPT !.impus = @ \cup {d}]
  <2>1. /\ Looping(x, ref, "mapRefreshGet") /\ ref[1] = "mapRefresh" /\ UNCHANGED stores
        /\ Become(w, Continued(x, ref, "mapRefresh", m, x.status))
    BY <1>12 DEF GetMappingToRefresh
  <2>2. entry \in MappingEntries
    BY <1>1, <1>2, <2>1 DEF TypeOK
  <2>3. m.impus = entry.impus \cup {d}
    BY <2>2 DEF MappingEntries
  <2> HIDE DEF m
  <2>4. Held(entry, d, "mapRefresh", m)
    BY <2>3 DEF Held, AddPcs
  <2> QED BY <1>2, <1>3, <1>5, <2>1, <2>4
<1>13. CASE RefreshMapping(w)
  <2>1. x.pc = "mapRefresh" /\ SetMapping(w, x.item, x.mp, "mapRefreshGet")
    BY <1>13 DEF RefreshMapping
  <2>2. /\ x.item \in References /\ x.item[1] = "mapRefresh" /\ x.item \in x.todo
        /\ x.item \notin AssocReferences
    BY <1>2, <1>3, <1>10, <2>1 DEF RefreshPcs
  <2>3. x.mp.cas = mapping[s][x.item[2]].cas =>
          x.mp.impus = mapping[s][x.item[2]].impus \cup {d}
    BY <1>1, <2>1 DEF InHand, Held
  <2> QED BY <2>1, <2>2, <2>3, SetMappingCall
<1>14. ASSUME NEW ref \in References, AddMapping(w, ref)
       PROVE  ReferenceCall(w, x, y)
  <2> DEFINE new == [cas |-> 0, impus |-> {d}]
  <2>1. PICK m : /\ m = IF x.pc = "mapAdd" THEN x.mp ELSE new
                 /\ Looping(x, ref, "mapAdd") /\ ref[1] = "mapAdd"
                 /\ SetMapping(w, ref, m, "mapAddGet")
    BY <1>14 DEF AddMapping
  <2>2. ref \notin AssocReferences /\ ref[2] \in Impis /\ ref \in x.todo
    BY <1>2, <1>3, <2>1
  <2>3. mapping[s][ref[2]].cas = m.cas => m.impus = mapping[s][ref[2]].impus \cup {d}
    <3>1. CASE x.pc = "mapAdd"
      <4>1. m = x.mp /\ x.item = ref
        BY <2>1, <3>1 DEF Looping, IsNext
      <4> QED BY <1>1, <3>1, <4>1 DEF InHand, Held, AddPcs
    <3>2. CASE x.pc # "mapAdd"
      BY <1>1, <2>1, <2>2, <3>2 DEF AbsentIsEmpty
    <3> QED BY <3>1, <3>2
  <2> QED BY <2>1, <2>2, <2>3, SetMappingCall
<1>15. CASE GetMappingToAdd(w)
  <2> DEFINE ref == x.item
             entry == mapping[s][ref[2]]
             m == [entry EXCEPT !.impus = @ \cup {d}]
             z == [x EXCEPT !.pc = "mapAdd"]
  <2>1. /\ x.pc = "mapAddGet" /\ UNCHANGED stores
        /\ \/ d \in entry.impus /\ Become(w, ReferenceDone(w, x, ref, "OK"))
           \/ Become(w, Continued(x, ref, "mapAdd", m, x.status))
           \/ Become(w, z)
    BY <1>15 DEF GetMappingToAdd
  <2>2. /\ ref \in References /\ ref[1] = "mapAdd" /\ ref \in x.todo
        /\ ref \notin AssocReferences /\ entry \in MappingEntries
    BY <1>1, <1>2, <1>3, <1>10, <2>1 DEF AddPcs, TypeOK
  <2>3. d \in entry.impus => ReferenceIs(s, d, ref)
    BY <1>3, <2>1, <2>2 DEF ReferenceIs, MapDone
  <2>4. m.impus = entry.impus \cup {d}
    BY <2>2 DEF MappingEntries
  <2>5. z = Continued(x, ref, "mapAdd", x.mp, x.status)
    BY <1>1 DEF Continued, WorkerStates
  <2> HIDE DEF m, z
  <2>6. Held(entry, d, "mapAdd", m) /\ Held(entry, d, "mapAdd", x.mp)
    BY <1>1, <2>1, <2>4 DEF Held, InHand, AddPcs
  <2> QED BY <1>2, <1>4, <1>5, <2>1, <2>2, <2>3, <2>5, <2>6
<1> QED BY <1>6, <1>7, <1>8, <1>9, <1>11, <1>12, <1>13, <1>14, <1>15
           DEF UpdatingReferences
-----------------------------------------------------------------------------
(* Reading.                                                                *)

\* What the references of an index say of the record.
LEMMA IndexedMeans ==
  ASSUME NEW s, NEW d, Indexed(s, d)
  PROVE  /\ \A k \in Keys : impu[s][k].rec = AssociatedImpu(d) <=>
              is_default_impu(impu[s][d].rec) /\ k \in impu[s][d].rec.assoc
         /\ \A p \in Impis : d \in mapping[s][p].impus <=>
              is_default_impu(impu[s][d].rec) /\ p \in impu[s][d].rec.impis
  BY DEF Indexed, ListedBut, Index, AssocIn, ImpisIn

\* If all stores agree on every subscriber, they hold the same records.
LEMMA SameRecords ==
  ASSUME TypeOK, \A d \in Keys : Agreed(d), NEW s \in Stores, NEW t \in Stores,
         NEW k \in Keys
  PROVE  impu[s][k].rec = impu[t][k].rec
<1>1. impu[s][k] \in ImpuEntries /\ impu[t][k] \in ImpuEntries
  BY DEF TypeOK
<1>2. \A u, v \in Stores, d \in Keys : is_default_impu(impu[u][d].rec) =>
        impu[u][d].rec = impu[v][d].rec
  BY DEF Agreed, SameSet
<1>3. \A u, v \in Stores, d \in Keys :
        impu[u][k].rec = AssociatedImpu(d) => impu[v][k].rec = AssociatedImpu(d)
  <2>1. \A u \in Stores, d \in Keys : Indexed(u, d)
    BY DEF Agreed
  <2> QED BY SMTT(30), <1>2, <2>1, IndexedMeans
<1> QED BY <1>1, <1>2, <1>3, EntryForms

\* A worker that turns to its first store finds all as it has read it.
LEMMA TurnsSettles ==
  ASSUME NEW w \in Workers, NEW x, NEW i, NEW y, TurnsTo(w, x, i, 1, y),
         \A n \in 1..Len(Sites[w]) : Before(Sites[w][n], i)'
  PROVE  Settles(w, y)'
<1>1. y.pc \in RecordPcs /\ y.irs = i /\ y.site = 1 /\ y.status = "OK"
  BY SMTT(30), FirstCallKind DEF TurnsTo
<1>2. y.pc \notin ReadPcs /\ InHand(w, y)'
  BY <1>1, PcKinds DEF InHand, Held, RecordPcs, AddPcs
<1>3. \A n \in 1..Len(Sites[w]) : Progress(w, y, n)'
  <2>1. \A n \in 1..Len(Sites[w]) : n > 1 \/ n = 1
    BY SMTT(30), SitesType
  <2> QED BY <1>1, <2>1 DEF Progress
<1> QED BY <1>1, <1>2, <1>3 DEF Settles

\* Reading while nobody writes.
LEMMA ReadSettles ==
  ASSUME OneDefault, AskedByDefault, TypeOK, NEW w \in Workers, NEW x \in WorkerStates,
         x.req \in Requests, Keeps(x), Settles(w, x), x.pc \in ReadPcs \cup {"getMapping"},
         LocalStore(w) \in Stores, RemoteStores(w) \in SUBSET Stores,
         \A n \in 1..Len(Sites[w]) : Sites[w][n] \in Stores,
         \A s \in Stores, k \in Keys : OwnRecord(k, impu[s][k].rec),
         \A d \in Keys : Agreed(d), UNCHANGED <<impu, mapping>>,
         NEW y, ReadStep(w, x, y)
  PROVE  Settles(w, y)'
<1> DEFINE k == x.read.key
           s == LocalStore(w)
<1>1. /\ k \in Keys /\ x.read.asked \in Keys
      /\ \A t \in Stores : impu[t][k] \in ImpuEntries
  BY SMTT(30) DEF WorkerStates, Reads, TypeOK
<1>2. \A t, u \in Stores, l \in Keys : impu[t][l].rec = impu[u][l].rec
  BY SameRecords
<1>3. x.pc \in ReadPcs => Searches(x)
  BY DEF Settles
<1>4. ASSUME y.pc \in {"idle", "getMapping"} PROVE Settles(w, y)'
  BY <1>4, PcKinds DEF Settles
<1>5. ASSUME y.pc \in ReadPcs, Searches(y)' PROVE Settles(w, y)'
  BY <1>5, PcKinds DEF Settles
<1>6. x.pc \in {"follow", "followRemote"} =>
        /\ is_default_impu(impu[s][k].rec) /\ has_associated_impu(impu[s][k].rec, x.read.asked)
        /\ IsPresent(impu[s][k])
  <2>1. Indexed(s, k)
    BY <1>1 DEF Agreed
  <2>2. x.pc \in {"follow", "followRemote"} => impu[s][x.read.asked].rec = AssociatedImpu(k)
    BY <1>3 DEF Searches, ReadPcs
  <2> QED BY SMTT(30), <1>1, <2>1, <2>2, IndexedMeans, EntryForms DEF has_associated_impu
<1>7. ~IsPresent(impu[s][k]) => \A t \in Stores : impu[t][k] = AbsentImpu
  BY SMTT(30), <1>1, <1>2, EntryForms
<1>8. x.pc \in {"getRemote", "followRemote"} => \A t \in Stores : impu[t][k] = AbsentImpu
  BY <1>3, <1>7 DEF Searches, ReadPcs
<1>9. ASSUME NEW i, NEW rec, i.default = k, Fits(i, rec), impu[s][k].rec = rec,
             TurnsTo(w, x, i, 1, y)
      PROVE  Settles(w, y)'
  <2>1. ASSUME NEW t \in Stores PROVE Before(t, i)'
    <3>1. Indexed(t, k) /\ impu[t][k].rec = rec
      BY <1>1, <1>2, <1>9 DEF Agreed
    <3>2. Before(t, i)
      BY <1>9, <3>1 DEF Before
    <3> QED BY <3>2, UnchangedBystanders
  <2> QED BY <1>9, <2>1, TurnsSettles
<1>10. CASE Restarts(x, y)
  BY <1>5, <1>10 DEF Restarts, Searches, ReadPcs
<1>11. CASE x.pc \in ReadPcs /\ Waits(w, x, y)
  <2>1. \A t \in Stores : impu[t][k] = AbsentImpu
    BY <1>7, <1>8, <1>11 DEF Waits, ReadPcs
  <2>2. /\ y.pc \in {"getRemote", "followRemote"} /\ y.read.key = k
        /\ y.read.asked = x.read.asked
        /\ \A t \in Stores : y.read.answers[t] = AbsentImpu
        /\ y.pc = "followRemote" => x.pc \in {"follow", "followRemote"}
    BY <1>3, <1>11, <2>1 DEF Waits, Searches, ReadPcs
  <2>3. \A t \in Stores : ~IsPresent(impu'[t][k])
    BY SMTT(30), <2>1 DEF IsPresent, AbsentImpu
  <2>4. Searches(y)'
    BY <1>3, <1>11, <2>2, <2>3 DEF Searches
  <2> QED BY <1>5, <2>2, <2>4 DEF ReadPcs
<1>12. ASSUME NEW t \in Stores, NEW entry \in ImpuEntries, x.pc \in ReadPcs,
              Source(w, x, t, entry)
       PROVE  x.pc \in {"get", "follow"} /\ t = s /\ entry = impu[s][k] /\ IsPresent(entry)
  BY SMTT(30), <1>3, <1>8, <1>12 DEF Source, Searches, ReadPcs, IsPresent, AbsentImpu
<1>13. ASSUME NEW t \in Stores, NEW entry \in ImpuEntries, x.pc \in ReadPcs,
              Source(w, x, t, entry), Follows(x, entry, y)
       PROVE  Settles(w, y)'
  <2>1. /\ y.pc = "follow" /\ y.read.asked = k /\ y.read.key = entry.rec.default
        /\ \A u \in Stores : y.read.answers[u] = AbsentImpu
        /\ ~is_default_impu(entry.rec)
    BY <1>13 DEF Follows, Keeps
  <2>2. entry.rec = AssociatedImpu(y.read.key) /\ entry = impu[s][k]
    <3>1. PICK d \in Keys : entry.rec = AssociatedImpu(d)
      BY <1>12, <1>13, <2>1, EntryForms
    <3> QED BY SMTT(30), <1>12, <1>13, <2>1, <3>1 DEF AssociatedImpu
  <2>3. \A u \in Stores : impu[u][k].rec = AssociatedImpu(y.read.key)
    BY <1>1, <1>2, <2>2
  <2>4. Searches(y)'
    BY <2>1, <2>3 DEF Searches
  <2> QED BY <1>5, <2>1, <2>4 DEF ReadPcs
<1>14. ASSUME NEW t \in Stores, NEW entry \in ImpuEntries, x.pc \in ReadPcs,
              Source(w, x, t, entry), Hits(w, x, t, entry, y)
       PROVE  Settles(w, y)'
  <2>1. entry = impu[s][k] /\ OwnRecord(k, entry.rec) /\ entry.rec \in DefaultImpus
    BY <1>1, <1>12, <1>14, EntryKinds DEF Hits
  <2>2. PICK i \in PutSets(x.req, FromImpu(k, t, entry)) : TurnsTo(w, x, i, 1, y)
    BY <1>14 DEF Hits
  <2>3. i.default = k /\ From(FromImpu(k, t, entry), i)
    BY SMTT(30), <1>14, <2>1, HitOwn DEF Hits
  <2>4. Fits(i, entry.rec)
    BY <1>1, <2>1, <2>3, FitsFrom
  <2> QED BY <1>9, <2>1, <2>2, <2>3, <2>4
<1>15. CASE x.pc \in ReadPcs /\ Misses(w, x, y)
  <2>1. x.pc \in {"get", "getRemote"} /\ ~IsPresent(impu[s][k])
    BY SMTT(30), <1>6, <1>7, <1>8, <1>15 DEF Misses, Unlisted, ReadPcs, IsPresent, AbsentImpu
  <2>2. PICK i \in NewSets(x.req) : TurnsTo(w, x, i, 1, y)
    BY <1>15 DEF Misses
  <2>3. /\ From(NewSet, i) /\ x.req.kind \in {"REG", "CALL"}
        /\ i.xml \in HssDocuments(x.req.impu) /\ i.default = get_default_id(i.xml)
    BY NewSetsFields
  <2>4. i.default = k
    BY <1>15, <2>1, <2>3 DEF AskedByDefault, Keeps
  <2>5. Fits(i, NoRecord) /\ impu[s][k].rec = NoRecord
    BY <1>1, <2>1, <2>3, FitsNew, EntryForms
  <2> QED BY <1>9, <2>2, <2>4, <2>5
<1> QED BY <1>4, <1>10, <1>11, <1>13, <1>14, <1>15 DEF ReadStep

-----------------------------------------------------------------------------
(* All steps.                                                              *)

\* While only d is out of step, the identities of d's documents have no record
\* or refer to d.
LEMMA OursOnly ==
  ASSUME OneDefault, TypeOK, NEW s \in Stores, NEW d \in Keys,
         \A e \in Keys : e # d => Indexed(s, e),
         \A k \in Keys : OwnRecord(k, impu[s][k].rec),
         NEW k \in Owned(d) \ {d}
  PROVE  impu[s][k].rec \in {NoRecord, AssociatedImpu(d)}
<1>1. k \in Impus /\ k \in Keys /\ impu[s][k] \in ImpuEntries
  BY SMTT(30) DEF Owned, Keys, TypeOK
<1>2. \A e : k \in Owned(e) => e = d
  BY OneOwner
<1>3. ~is_default_impu(impu[s][k].rec)
  <2> SUFFICES ASSUME is_default_impu(impu[s][k].rec)
               PROVE  k \in Owned(k)
    BY <1>2
  <2>1. impu[s][k].rec.xml \in Profiles /\ get_default_id(impu[s][k].rec.xml) = k
    BY <1>1 DEF OwnRecord
  <2> QED BY <1>1, <2>1, DocumentOwned
<1>4. ASSUME NEW e \in Keys, impu[s][k].rec = AssociatedImpu(e)
      PROVE  e = d
  <2> SUFFICES ASSUME e # d PROVE k \in Owned(e)
    BY <1>2
  <2>1. is_default_impu(impu[s][e].rec) /\ k \in impu[s][e].rec.assoc
    BY <1>1, <1>4, IndexedMeans
  <2> QED BY <2>1 DEF OwnRecord
<1> QED BY <1>1, <1>3, <1>4, EntryForms

\* When all workers but w are idle, w alone decides.
LEMMA AgreeFrom ==
  ASSUME NEW w \in Workers, \A v \in Workers : v # w => worker[v].pc = "idle",
         \A v \in Workers : v # w => worker'[v] = worker[v],
         NEW y, y = worker'[w], AbsentIsEmpty', Settles(w, y)',
         \A d \in Keys : ~(y.pc \in PutPcs /\ y.irs.default = d) => Agreed(d)'
  PROVE  AgreeInv'
<1>1. ASSUME NEW v \in Workers PROVE Settles(v, worker[v])'
  <2>1. PICK z : z = worker'[v]
    OBVIOUS
  <2>2. Settles(v, z)'
    <3>1. CASE v = w
      BY <2>1, <3>1
    <3>2. CASE v # w
      <4>1. z.pc = "idle"
        BY <2>1, <3>2
      <4>2. z.pc \notin ReadPcs /\ z.pc \notin PutPcs
        BY <4>1, PcKinds DEF ReadPcs, PutPcs
      <4> QED BY <4>2 DEF Settles
    <3> QED BY <3>1, <3>2
  <2> QED BY <2>1, <2>2 DEF Settles, Searches, Progress, InHand, Before, After, Target,
                             Indexed, Index, Deleting
<1>2. ASSUME NEW d \in Keys,
             \A v \in Workers : ~(worker'[v].pc \in PutPcs /\ worker'[v].irs.default = d)
      PROVE  Agreed(d)'
  BY <1>2
<1> QED BY <1>1, <1>2 DEF AgreeInv

\* A worker's own steps, while nothing fails.
LEMMA WorkAgrees ==
  ASSUME OneDefault, EveryStoreOnce, AskedByDefault, Inv, OwnInv, AgreeInv,
         NEW w \in Workers, \A v \in Workers : v # w => worker[v].pc = "idle",
         \A v \in Workers : v # w => worker'[v] = worker[v], Work(w), ~Fails
  PROVE  AgreeInv'
<1>1. PICK x : x = worker[w]
  OBVIOUS
<1>2. PICK y : y = worker'[w]
  OBVIOUS
<1>3. /\ TypeOK /\ x \in WorkerStates /\ x.site <= Len(Sites[w]) /\ x.site \in Nat \ {0}
      /\ LocalStore(w) \in Stores /\ RemoteStores(w) \in SUBSET Stores
      /\ x.irs.default \in Keys /\ (x.pc # "idle" => x.req \in Requests)
      /\ \A n \in 1..Len(Sites[w]) : Sites[w][n] \in Stores
      /\ x.site \in 1..Len(Sites[w])
  BY SMTT(30), <1>1, WorkerSound, SitesType DEF WorkerStates
<1>4. /\ \A s \in Stores, k \in Keys : OwnRecord(k, impu[s][k].rec)
      /\ Keeps(x)
  BY <1>1 DEF OwnInv
<1>5. /\ AbsentIsEmpty /\ Settles(w, x)
      /\ \A d \in Keys : ~(x.pc \in PutPcs /\ x.irs.default = d) => Agreed(d)
  <2>1. \A v \in Workers : v # w => worker[v].pc \notin PutPcs
    BY DEF PutPcs
  <2> QED BY <1>1, <2>1 DEF AgreeInv
<1>6. UNCHANGED mapping => AbsentIsEmpty'
  BY <1>5 DEF AbsentIsEmpty
<1>7. ASSUME AbsentIsEmpty', Rests(w, x.irs.default, y)', x.pc \in PutPcs,
             Bystanders(Sites[w][x.site], x.irs.default)
      PROVE  AgreeInv'
  <2>1. \A e \in Keys : e # x.irs.default => Agreed(e)'
    BY <1>5, <1>7, BystandersAgreed
  <2>2. CASE y.pc = "idle" /\ Agreed(x.irs.default)'
    <3>1. Settles(w, y)'
      BY <2>2, PcKinds DEF Settles
    <3> QED BY <1>2, <1>7, <2>1, <2>2, <3>1, AgreeFrom
  <2>3. CASE y.pc \in PutPcs /\ y.irs.default = x.irs.default /\ Settles(w, y)'
    BY <1>2, <1>7, <2>1, <2>3, AgreeFrom
  <2> QED BY <1>7, <2>2, <2>3 DEF Rests
<1>8. CASE Reading(w)
  <2>1. /\ ReadStep(w, x, y) /\ UNCHANGED <<impu, mapping>>
        /\ x.pc \in ReadPcs \cup {"getMapping"}
    BY <1>1, <1>2, <1>8, ReadingSteps
  <2>2. x.req \in Requests /\ x.pc \notin PutPcs
    BY <1>3, <2>1, PcKinds DEF ReadPcs
  <2>3. \A d \in Keys : Agreed(d)
    BY <1>5, <2>2
  <2>4. Settles(w, y)'
    BY <1>3, <1>4, <1>5, <2>1, <2>2, <2>3, ReadSettles
  <2>5. \A d \in Keys : Agreed(d)'
    BY <2>1, <2>3 DEF Agreed, Indexed, Index
  <2> QED BY <1>2, <1>6, <2>1, <2>4, <2>5, AgreeFrom
<1>9. CASE WritingRecord(w)
  <2>1. RecordStep(w, x, y) /\ x.pc \in RecordPcs
    BY <1>1, <1>2, <1>9, WritingSteps
  <2>2. /\ Rests(w, x.irs.default, y)' /\ UNCHANGED mapping
        /\ Bystanders(Sites[w][x.site], x.irs.default)
    BY <1>3, <1>4, <1>5, <2>1, RecordRests
  <2>3. x.pc \in PutPcs
    BY <2>1, PcKinds
  <2> QED BY <1>6, <1>7, <2>2, <2>3
<1>10. CASE UpdatingReferences(w)
  <2>1. x.pc \in ReferencePcs /\ x.pc \in PutPcs
    BY <1>1, <1>4, <1>10, UpdatingSteps, PcKinds
  <2>2. /\ InHand(w, x) /\ x.status \in {"OK", "DATA_CONTENTION"}
        /\ x.pc \in {"work", "assocDelete"} => x.status = "OK"
    BY <1>3, <1>5, <2>1 DEF Settles, WorkerStates
  <2>3. ReferenceCall(w, x, y)
    BY <1>1, <1>2, <1>4, <1>5, <1>10, <2>2, AnsweredCalls
  <2>4. \A ref \in x.todo : ref \in AssocReferences =>
          /\ ref[2] # x.irs.default
          /\ impu[Sites[w][x.site]][ref[2]].rec \in {NoRecord, AssociatedImpu(x.irs.default)}
    <3>1. \A ref \in x.todo : ref \in AssocReferences =>
            ref[2] \in Owned(x.irs.default) \ {x.irs.default}
      BY <1>4, <2>1 DEF Keeps
    <3>2. Sites[w][x.site] \in Stores
      BY <1>3
    <3>3. \A e \in Keys : e # x.irs.default => Indexed(Sites[w][x.site], e)
      BY <1>5, <3>2 DEF Agreed
    <3> QED BY <1>3, <1>4, <3>1, <3>2, <3>3, OursOnly
  <2>5. /\ Rests(w, x.irs.default, y)' /\ AbsentIsEmpty'
        /\ Bystanders(Sites[w][x.site], x.irs.default)
    BY <1>3, <1>5, <2>1, <2>3, <2>4, ReferenceRests
  <2> QED BY <1>7, <2>1, <2>5
<1> QED BY <1>8, <1>9, <1>10 DEF Work

\* A store call that does not fail is no upset.
LEMMA WorkCounts ==
  ASSUME NEW w \in Workers, Work(w), ~Fails
  PROVE  UNCHANGED upsets
<1>1. CASE Reading(w)
  BY <1>1 DEF Reading, GetMapping, GetImpu, GetRemoteImpu, Answered
<1>2. CASE WritingRecord(w)
  BY <1>2 DEF WritingRecord, CreateImpu, SetImpu, DeleteImpu, GetStored, Answered
<1>3. CASE UpdatingReferences(w)
  <2>1. ASSUME NEW ref, NEW m, NEW retry, SetMapping(w, ref, m, retry)
        PROVE  UNCHANGED upsets
    BY <2>1 DEF SetMapping, Answered
  <2> QED BY <1>3, <2>1
      DEF UpdatingReferences, GetAssociated, DeleteAssociated, SetAssociated,
          GetMappingToDelete, DeleteMapping, GetMappingToRefresh, RefreshMapping,
          AddMapping, GetMappingToAdd, Answered
<1> QED BY <1>1, <1>2, <1>3 DEF Work

\* As long as nothing has failed, the stores agree but for what is being
\* written.
LEMMA AgreeStep ==
  ASSUME OneAtATime, OneDefault, EveryStoreOnce, AskedByDefault
  PROVE  /\ Init => AgreeInv
         /\ Inv /\ OwnInv /\ Alone /\ (upsets = 0 => AgreeInv) /\ [Next]_vars
              => (upsets = 0 => AgreeInv)'
<1>1. ASSUME Init PROVE AgreeInv
  <2>1. /\ \A s \in Stores, k \in Keys : impu[s][k] = AbsentImpu
        /\ \A s \in Stores, p \in Impis : mapping[s][p] = AbsentMapping
        /\ \A w \in Workers : worker[w] = Idle
    BY <1>1 DEF Init
  <2>2. Idle.pc = "idle"
    BY DEF Idle
  <2>3. "idle" \notin ReadPcs /\ "idle" \notin PutPcs
    BY PcKinds DEF ReadPcs
  <2>4. AbsentIsEmpty
    BY SMTT(30), <2>1 DEF AbsentIsEmpty, AbsentMapping
  <2>5. ASSUME NEW d \in Keys PROVE Agreed(d)
    <3>1. ~is_default_impu(AbsentImpu.rec) /\ AbsentImpu.rec # AssociatedImpu(d)
      BY DEF is_default_impu, AbsentImpu, NoRecord, AssociatedImpu
    <3>2. AbsentMapping.impus = {}
      BY DEF AbsentMapping
    <3>3. ASSUME NEW s \in Stores PROVE Indexed(s, d)
      BY <2>1, <3>1, <3>2 DEF Indexed, ListedBut, Index, AssocIn, ImpisIn
    <3> QED BY <2>1, <3>1, <3>3 DEF Agreed, SameSet
  <2>6. \A w \in Workers : Settles(w, worker[w])
    BY <2>1, <2>2, <2>3 DEF Settles
  <2> QED BY <2>4, <2>5, <2>6 DEF AgreeInv
<1>2. ASSUME Inv, OwnInv, Alone, upsets = 0 => AgreeInv, [Next]_vars, upsets' = 0
      PROVE  AgreeInv'
  <2>1. TypeOK /\ \A v \in Workers : Keeps(worker[v])
    BY <1>2 DEF Inv, TypeInv, OwnInv
  <2>2. /\ upsets \in Nat
        /\ \A kind : ~Upset(kind)
    BY SMTT(30), <1>2, <2>1, CacheAssumption DEF TypeOK, Upset
  <2>3. CASE UNCHANGED vars
    <3>1. AgreeInv /\ UNCHANGED <<impu, mapping, worker>>
      BY <1>2, <2>3 DEF vars, stores
    <3>2. AbsentIsEmpty' /\ \A d \in Keys : Agreed(d)' <=> Agreed(d)
      BY <3>1 DEF AgreeInv, AbsentIsEmpty, Agreed, Indexed, Index
    <3>3. ASSUME NEW v \in Workers PROVE Settles(v, worker[v])'
      <4>1. PICK z : z = worker[v]
        OBVIOUS
      <4>2. Settles(v, z)
        BY <3>1, <4>1 DEF AgreeInv
      <4>3. \A n \in 1..Len(Sites[v]) : Progress(v, z, n)' <=> Progress(v, z, n)
        BY <3>1, UnchangedBystanders DEF Progress, Target, Deleting
      <4>4. (Searches(z)' <=> Searches(z)) /\ (InHand(v, z)' <=> InHand(v, z))
        BY <3>1 DEF Searches, InHand
      <4>5. Settles(v, z)'
        BY <4>2, <4>3, <4>4 DEF Settles
      <4> QED BY <3>1, <4>1, <4>5
    <3> QED BY <3>1, <3>2, <3>3 DEF AgreeInv
  <2>4. ASSUME NEW w \in Workers, NEW r \in Requests, Start(w, r)
        PROVE  AgreeInv'
    <3>1. PICK y : y = worker'[w]
      OBVIOUS
    <3>2. /\ Begins(r, y) /\ UNCHANGED <<impu, mapping, upsets>>
          /\ \A v \in Workers : v # w => worker'[v] = worker[v]
      BY <2>1, <2>4, <3>1, StartBegins
    <3>3. \A v \in Workers : v # w => worker[v].pc = "idle"
      BY <1>2, <2>4, OthersIdle
    <3>4. worker[w].pc = "idle"
      BY <2>4 DEF Start
    <3>5. AbsentIsEmpty /\ \A d \in Keys : Agreed(d)
      <4>1. AgreeInv
        BY <1>2, <3>2
      <4>2. \A v \in Workers : worker[v].pc \notin PutPcs
        BY <3>3, <3>4 DEF PutPcs
      <4> QED BY <4>1, <4>2 DEF AgreeInv
    <3>6. AbsentIsEmpty' /\ \A d \in Keys : Agreed(d)'
      BY <3>2, <3>5 DEF AbsentIsEmpty, Agreed, Indexed, Index
    <3>7. Settles(w, y)'
      <4>1. y.pc \in {"get", "getMapping"} /\ y.pc \notin PutPcs
        BY <3>2 DEF Begins, PutPcs, ReadPcs
      <4>2. y.pc \in ReadPcs => Searches(y)'
        BY <3>2, <4>1 DEF Begins, Searches, ReadPcs
      <4> QED BY <4>1, <4>2 DEF Settles
    <3> QED BY <3>1, <3>2, <3>3, <3>6, <3>7, AgreeFrom
  <2>5. ASSUME NEW w \in Workers, Work(w),
               \A v \in Workers : v # w => worker'[v] = worker[v]
        PROVE  AgreeInv'
    <3>1. ~Fails
      BY <2>2 DEF Fails
    <3>2. AgreeInv
      BY <1>2, <2>5, <3>1, WorkCounts
    <3>3. \A v \in Workers : v # w => worker[v].pc = "idle"
      BY <1>2, <2>1, <2>5, WorkBusy, OthersIdle
    <3> QED BY <1>2, <2>5, <3>1, <3>2, <3>3, WorkAgrees
  <2> QED BY <1>2, <2>2, <2>3, <2>4, <2>5, StepKinds
<1> QED BY <1>1, <1>2

-----------------------------------------------------------------------------
(* The theorems.                                                           *)

\* Once every request has been dealt with, the stores agree on every
\* subscriber.
LEMMA QuietAgrees ==
  ASSUME AgreeInv, Quiet
  PROVE  \A d \in Keys : Agreed(d)
<1>1. \A w \in Workers : worker[w].pc \notin PutPcs
  BY DEF Quiet, PutPcs
<1> QED BY <1>1 DEF AgreeInv

\* Requests served one at a time leave each store's records, associated IMPUs'
\* records and IMPI mappings in agreement, in both directions, as long as no
\* store call fails, no entry expires and no Homestead crashes
\* (put_irs_action, delete_irs_action, update_irs_associated_impus and
\* update_irs_impi_mappings).
THEOREM IndexesStayInAgreement ==
  ASSUME OneAtATime, OneDefault, EveryStoreOnce, AskedByDefault
  PROVE  Spec => []IndexesAgree
<1>1. Inv /\ (upsets = 0 => AgreeInv) => IndexesAgree
  <2> SUFFICES ASSUME Inv, AgreeInv, Quiet, NEW s \in Stores
               PROVE  LET Sets == {k \in Keys : is_default_impu(impu[s][k].rec)} IN
                      /\ \A k \in Sets : \A a \in impu[s][k].rec.assoc :
                           impu[s][a].rec = AssociatedImpu(k)
                      /\ \A k \in Sets : \A p \in impu[s][k].rec.impis :
                           k \in mapping[s][p].impus
                      /\ \A a \in Keys \ Sets : IsPresent(impu[s][a]) =>
                           /\ impu[s][a].rec.default \in Sets
                           /\ a \in impu[s][impu[s][a].rec.default].rec.assoc
                      /\ \A p \in Impis : \A k \in mapping[s][p].impus :
                           k \in Sets /\ p \in impu[s][k].rec.impis
    BY DEF IndexesAgree
  <2>1. /\ \A k \in Keys : impu[s][k] \in ImpuEntries
        /\ \A p \in Impis : mapping[s][p].impus \in SUBSET Keys
    BY DEF Inv, TypeInv, TypeOK, MappingEntries
  <2>2. \A k \in Keys : Indexed(s, k)
    BY QuietAgrees DEF Agreed
  <2>3. \A k \in Keys : is_default_impu(impu[s][k].rec) =>
          impu[s][k].rec.assoc \subseteq Keys /\ impu[s][k].rec.impis \subseteq Impis
    BY <2>1, EntryKinds DEF DefaultImpus, Keys
  <2>4. \A a \in Keys : IsPresent(impu[s][a]) /\ ~is_default_impu(impu[s][a].rec) =>
          \E d \in Keys : impu[s][a].rec = AssociatedImpu(d) /\ impu[s][a].rec.default = d
    BY SMTT(30), <2>1, EntryForms DEF AssociatedImpu
  <2> QED BY SMTT(30), <2>1, <2>2, <2>3, <2>4, IndexedMeans
<1> QED BY <1>1, OwnStep, AloneStep, AgreeStep, InvHolds, PTL DEF Spec

\* And they leave the same records and mappings in the stores of all sites
\* (perform repeats the local action at every remote store).
THEOREM SitesStayInAgreement ==
  ASSUME OneAtATime, OneDefault, EveryStoreOnce, AskedByDefault
  PROVE  Spec => []SitesAgree
<1>1. Inv /\ (upsets = 0 => AgreeInv) => SitesAgree
  <2> SUFFICES ASSUME Inv, AgreeInv, Quiet, NEW s \in Stores, NEW t \in Stores
               PROVE  /\ \A k \in Keys : impu[s][k].rec = impu[t][k].rec
                      /\ \A p \in Impis : mapping[s][p].impus = mapping[t][p].impus
    BY DEF SitesAgree
  <2>1. TypeOK /\ \A d \in Keys : Agreed(d)
    BY QuietAgrees DEF Inv, TypeInv
  <2>2. \A k \in Keys : impu[s][k].rec = impu[t][k].rec
    BY <2>1, SameRecords
  <2>3. ASSUME NEW p \in Impis PROVE mapping[s][p].impus = mapping[t][p].impus
    <3>1. mapping[s][p].impus \in SUBSET Keys /\ mapping[t][p].impus \in SUBSET Keys
      BY <2>1 DEF TypeOK, MappingEntries
    <3>2. \A d \in Keys : Indexed(s, d) /\ Indexed(t, d)
      BY <2>1 DEF Agreed
    <3>3. \A d \in Keys : d \in mapping[s][p].impus <=> d \in mapping[t][p].impus
      BY <2>2, <3>2, IndexedMeans
    <3> QED BY <3>1, <3>3
  <2> QED BY <2>2, <2>3
<1> QED BY <1>1, OwnStep, AloneStep, AgreeStep, InvHolds, PTL DEF Spec
=============================================================================
