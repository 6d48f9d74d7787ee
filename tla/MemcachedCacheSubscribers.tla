---------------------- MODULE MemcachedCacheSubscribers ----------------------
(***************************************************************************)
(* Every step of MemcachedCache keeps to one subscriber. First what a step *)
(* does, in terms of the worker's state before and after it (ReadStep,     *)
(* RecordStep, ReferenceStep), then that no step writes under another      *)
(* default IMPU, and that with requests served one at a time only one      *)
(* worker is ever busy.                                                    *)
(***************************************************************************)
EXTENDS MemcachedCacheProofs

\* Zenon proves most of the leaves below; the others name SMT.
USE ZenonT(60)

-----------------------------------------------------------------------------
(* The documents.                                                          *)

\* The identities of a document are IMPUs, and its default identity, if there
\* is one, is among them (get_public_and_default_ids).
LEMMA DocumentIds ==
  ASSUME NEW xml \in Profiles
  PROVE  /\ get_public_ids(xml) \subseteq Impus
         /\ get_default_id(xml) # NoImpu => get_default_id(xml) \in get_public_ids(xml)
<1> DEFINE nodes    == PublicIdentities[xml]
           unbarred == {n \in FirstMentions(xml) : ~nodes[n].barred}
           first    == {n \in unbarred : \A m \in unbarred : n <= m}
<1>1. \A n \in DOMAIN nodes : nodes[n] \in [id : Impus, barred : BOOLEAN]
  BY ImpuAssumption, SeqElement
<1>2. \A n \in first : n \in DOMAIN nodes
  BY DEF FirstMentions
<1>3. get_public_ids(xml) = {nodes[n].id : n \in DOMAIN nodes}
  BY DEF get_public_ids
<1>4. get_default_id(xml) = IF first = {} THEN NoImpu ELSE nodes[CHOOSE n \in first : TRUE].id
  BY DEF get_default_id
<1> HIDE DEF nodes, first
<1>5. first # {} => (CHOOSE n \in first : TRUE) \in first
  OBVIOUS
<1> QED BY <1>1, <1>2, <1>3, <1>4, <1>5

\* The default IMPU of a document owns its identities.
LEMMA DocumentOwned ==
  ASSUME NEW xml \in Profiles
  PROVE  /\ get_public_ids(xml) \subseteq Owned(get_default_id(xml))
         /\ get_default_id(xml) \in Impus =>
              get_default_id(xml) \in Owned(get_default_id(xml))
<1>1. get_default_id(xml) \in Impus => get_default_id(xml) # NoImpu
  BY ImpuAssumption
<1> QED BY <1>1, DocumentIds DEF Owned

\* An identity has one owner.
LEMMA OneOwner ==
  ASSUME OneDefault, NEW d, NEW e, NEW a \in Owned(d)
  PROVE  /\ a \in Owned(e) => d = e
         /\ \A xml \in Profiles : a \in get_public_ids(xml) => get_default_id(xml) = d
  BY DEF OneDefault, Owned

-----------------------------------------------------------------------------
(* What the handlers change.                                               *)

\* A Data map after a document with default IMPU d was set.
Relisted(data, xml) == set_elements(get_public_ids(xml), data, get_default_id(xml))

\* IRS j is IRS i with the changes of a handler.
From(i, j) ==
  /\ j.existing = i.existing /\ j.store = i.store /\ j.cas = i.cas
  /\ j.regSet \/ j.reg = i.reg
  /\ j.xmlSet \/ j.xml = i.xml
  /\ j.chargingSet \/ j.charging = i.charging
  /\ DOMAIN j.impis = DOMAIN i.impis
  /\ \A p \in DOMAIN i.impis : j.impis[p] = i.impis[p] \/ j.impis[p] = "ADDED"
  /\ \/ j.impus = i.impus /\ j.default = i.default /\ j.xml = i.xml
     \/ /\ j.xml \in Profiles /\ j.default = get_default_id(j.xml)
        /\ j.impus = Relisted(i.impus, j.xml)

\* The last changes of a registration and of a call.
LEMMA AnsweredFields ==
  ASSUME NEW i \in ImplicitRegSets, NEW reg \in RegistrationStates,
         NEW xml \in Profiles, NEW c \in Charging, NEW j,
         j = set_ttl(set_ims_sub_xml(set_charging_addresses(
               set_reg_state(i, reg), c), xml))
  PROVE  /\ From(i, j) /\ j.reg = reg /\ j.regSet /\ j.xml = xml
         /\ j.xmlSet /\ j.chargingSet
         /\ j.default = get_default_id(xml) /\ j.impis = i.impis
         /\ j.impus = Relisted(i.impus, xml)
<1> DEFINE j1 == set_reg_state(i, reg)
           j2 == set_charging_addresses(j1, c)
           j3 == set_ims_sub_xml(j2, xml)
           j4 == set_ttl(j3)
           Same(k) == /\ k.existing = i.existing /\ k.store = i.store /\ k.cas = i.cas
                      /\ k.impis = i.impis /\ k.reg = reg /\ k.regSet
<1>1. Same(j1) /\ j1.impus = i.impus /\ j1 \in ImplicitRegSets
  BY SetRegStateType DEF set_reg_state, ImplicitRegSets
<1> HIDE DEF j1
<1>2. Same(j2) /\ j2.impus = i.impus /\ j2.chargingSet /\ j2 \in ImplicitRegSets
  BY <1>1, SetChargingType DEF set_charging_addresses, ImplicitRegSets
<1> HIDE DEF j2
<1>3. /\ Same(j3) /\ j3.chargingSet /\ j3 \in ImplicitRegSets /\ j3.xmlSet
      /\ j3.xml = xml /\ j3.default = get_default_id(xml) /\ j3.impus = Relisted(i.impus, xml)
  BY <1>2, SetXmlType DEF set_ims_sub_xml, ImplicitRegSets, Relisted
<1> HIDE DEF j3
<1>4. /\ Same(j4) /\ j4.chargingSet /\ j4.xmlSet
      /\ j4.xml = xml /\ j4.default = get_default_id(xml) /\ j4.impus = Relisted(i.impus, xml)
  BY <1>3 DEF set_ttl, ImplicitRegSets
<1> HIDE DEF j4
<1>5. From(i, j4)
  BY <1>4 DEF From
<1>6. j = j4
  BY DEF j1, j2, j3, j4
<1> QED BY <1>4, <1>5, <1>6

\* A registration gets the IMPI, unless the set is registered and has it.
LEMMA RegisteredFields ==
  ASSUME NEW i \in ImplicitRegSets, NEW p \in Impis, NEW xml \in Profiles,
         NEW c \in Charging, NEW j, j = Registered(i, p, xml, c)
  PROVE  /\ From(i, j) /\ j.reg = "REGISTERED" /\ j.regSet /\ j.xml = xml
         /\ j.default = get_default_id(xml) /\ j.impus = Relisted(i.impus, xml)
         /\ i.xml # NoProfile => p \in get_associated_impis(j)
<1> DEFINE known == /\ i.reg = "REGISTERED"
                    /\ i.xml = NoProfile \/ p \in get_associated_impis(i)
           bound == IF known THEN i ELSE add_associated_impi(i, p)
<1>1. j = set_ttl(set_ims_sub_xml(set_charging_addresses(
            set_reg_state(bound, "REGISTERED"), c), xml))
  BY DEF Registered
<1>2. /\ bound \in ImplicitRegSets /\ i.impis \in [Impis -> DataStates]
      /\ From(i, bound) /\ bound.impus = i.impus
      /\ bound.impis = i.impis \/ bound.impis = [i.impis EXCEPT ![p] = "ADDED"]
      /\ i.xml # NoProfile => p \in get_associated_impis(bound)
  <2>1. i.impis \in [Impis -> DataStates]
    BY DEF ImplicitRegSets
  <2> DEFINE a == add_associated_impi(i, p)
  <2>2. /\ a \in ImplicitRegSets /\ a.impis = [i.impis EXCEPT ![p] = "ADDED"]
        /\ a.existing = i.existing /\ a.store = i.store /\ a.cas = i.cas
        /\ a.reg = i.reg /\ a.xml = i.xml /\ a.charging = i.charging
        /\ a.impus = i.impus /\ a.default = i.default
    BY AddImpiType DEF add_associated_impi, ImplicitRegSets
  <2> HIDE DEF a
  <2>3. From(i, a) /\ p \in get_associated_impis(a)
    BY <2>1, <2>2 DEF From, get_associated_impis, get_elements_in_state
  <2>4. From(i, i)
    BY DEF From
  <2>5. bound = IF known THEN i ELSE a
    BY DEF a
  <2> HIDE DEF bound
  <2> QED BY <2>1, <2>2, <2>3, <2>4, <2>5
<1> HIDE DEF bound
<1>3. /\ From(bound, j) /\ j.reg = "REGISTERED" /\ j.regSet /\ j.xml = xml
      /\ j.xmlSet /\ j.chargingSet
      /\ j.default = get_default_id(xml) /\ j.impis = bound.impis
      /\ j.impus = Relisted(i.impus, xml)
  <2>1. "REGISTERED" \in RegistrationStates
    BY DEF RegistrationStates
  <2> QED BY SMTT(30), <1>1, <1>2, <2>1, AnsweredFields
<1>4. From(i, j)
  BY SMTT(30), <1>2, <1>3 DEF From
<1>5. i.xml # NoProfile => p \in get_associated_impis(j)
  BY <1>2, <1>3 DEF get_associated_impis
<1> QED BY <1>3, <1>4, <1>5

\* A push changes the document, for the same default IMPU, and the charging
\* addresses.
LEMMA PushedFields ==
  ASSUME NEW i \in ImplicitRegSets, NEW push \in Pushes(i),
         NEW j, j = Pushed(i, push[1], push[2])
  PROVE  From(i, j) /\ j.default = i.default
<1> DEFINE xml == push[1]
           c == push[2]
           j1 == IF xml = NoProfile THEN i ELSE set_ims_sub_xml(i, xml)
           j2 == set_charging_addresses(j1, c)
<1>1. /\ xml \in Profiles \cup {NoProfile} /\ c \in Charging
      /\ xml # NoProfile => get_default_id(xml) = i.default
  BY DEF Pushes
<1> HIDE DEF xml, c
<1>2. From(i, j1) /\ j1.default = i.default /\ j1 \in ImplicitRegSets
  <2>1. CASE xml = NoProfile
    BY <2>1 DEF From
  <2>2. CASE xml # NoProfile
    <3> DEFINE a == set_ims_sub_xml(i, xml)
    <3>1. /\ a \in ImplicitRegSets /\ a.xml = xml /\ a.default = get_default_id(xml)
          /\ a.impus = Relisted(i.impus, xml) /\ a.xmlSet /\ a.impis = i.impis
          /\ a.existing = i.existing /\ a.store = i.store /\ a.cas = i.cas
          /\ a.reg = i.reg /\ a.charging = i.charging
      BY <1>1, <2>2, SetXmlType DEF set_ims_sub_xml, ImplicitRegSets, Relisted
    <3>2. j1 = a
      BY <2>2
    <3> HIDE DEF a, j1
    <3> QED BY <1>1, <2>2, <3>1, <3>2 DEF From
  <2> QED BY <2>1, <2>2
<1> HIDE DEF j1
<1>3. From(i, j2) /\ j2.default = i.default
  <2>1. /\ j2.existing = j1.existing /\ j2.store = j1.store /\ j2.cas = j1.cas
        /\ j2.reg = j1.reg /\ j2.regSet = j1.regSet /\ j2.xml = j1.xml
        /\ j2.xmlSet = j1.xmlSet /\ j2.chargingSet /\ j2.impis = j1.impis
        /\ j2.impus = j1.impus /\ j2.default = j1.default
    BY <1>2 DEF set_charging_addresses, ImplicitRegSets
  <2> HIDE DEF j2
  <2> QED BY <1>2, <2>1 DEF From
<1>4. Pushed(i, push[1], push[2]) = IF c = NoCharging THEN j1 ELSE j2
  BY DEF Pushed, j1, xml, c
<1> QED BY <1>2, <1>3, <1>4

\* What the handlers make of an IRS they read (PutSets).
LEMMA PutSetsFields ==
  ASSUME NEW r \in Requests, NEW i \in ImplicitRegSets, NEW j \in PutSets(r, i)
  PROVE  /\ From(i, j) /\ r.kind # "CALL"
         /\ r.kind # "REG" => j.default = i.default
         /\ r.kind = "REG" =>
              /\ j.reg = "REGISTERED" /\ j.regSet /\ j.xml \in HssDocuments(r.impu)
              /\ j.default = get_default_id(j.xml)
              /\ j.impus = Relisted(i.impus, j.xml)
              /\ i.xml # NoProfile => r.impi \in get_associated_impis(j)
<1>1. r.impi \in Impis /\ r.kind \in Kinds
  BY CacheAssumption
<1>2. CASE r.kind = "REG"
  <2>1. PICK xml \in HssDocuments(r.impu), c \in Charging :
          j = Registered(i, r.impi, xml, c)
    BY SMTT(30), <1>2 DEF PutSets
  <2>2. xml \in Profiles
    BY DEF HssDocuments
  <2> QED BY SMTT(30), <1>1, <1>2, <2>1, <2>2, RegisteredFields
<1>3. CASE r.kind = "CALL"
  BY SMTT(30), <1>3 DEF PutSets
<1>4. CASE r.kind \in {"DEREG", "RTR"}
  <2> DEFINE a == set_reg_state(i, "NOT_REGISTERED")
  <2>1. /\ From(i, mark_as_refreshed(i))
        /\ mark_as_refreshed(i).default = i.default
    BY DEF From, mark_as_refreshed, ImplicitRegSets
  <2>2. /\ From(i, mark_as_refreshed(a))
        /\ mark_as_refreshed(a).default = i.default
    BY DEF From, mark_as_refreshed, set_reg_state, ImplicitRegSets
  <2>3. j = mark_as_refreshed(i) \/ j = mark_as_refreshed(a)
    BY SMTT(30), <1>4 DEF PutSets
  <2> QED BY <1>4, <2>1, <2>2, <2>3
<1>5. CASE r.kind = "PPR"
  <2>1. PICK push \in Pushes(i) : j = Pushed(i, push[1], push[2])
    BY SMTT(30), <1>5 DEF PutSets
  <2> QED BY <1>5, <2>1, PushedFields
<1> QED BY <1>1, <1>2, <1>3, <1>4, <1>5 DEF Kinds

\* What the handlers make of a set that no store knows (NewSets).
LEMMA NewSetsFields ==
  ASSUME NEW r \in Requests, NEW j \in NewSets(r)
  PROVE  /\ From(NewSet, j) /\ r.kind \in {"REG", "CALL"}
         /\ j.xml \in HssDocuments(r.impu) /\ j.default = get_default_id(j.xml)
         /\ j.impus = Relisted(NewSet.impus, j.xml)
         /\ r.kind = "REG" => /\ j.reg = "REGISTERED" /\ j.regSet
                              /\ r.impi \in get_associated_impis(j)
<1>1. r.impi \in Impis /\ r.kind \in Kinds
  BY CacheAssumption
<1>2. CASE r.kind = "REG"
  <2>1. PICK xml \in HssDocuments(r.impu), c \in Charging :
          j = Registered(NewSet, r.impi, xml, c)
    BY SMTT(30), <1>2 DEF NewSets
  <2>2. xml \in Profiles
    BY DEF HssDocuments
  <2> DEFINE bound == add_associated_impi(NewSet, r.impi)
  <2>3. bound \in ImplicitRegSets /\ From(NewSet, bound) /\ bound.impus = NewSet.impus
        /\ r.impi \in get_associated_impis(bound)
    <3>1. /\ bound \in ImplicitRegSets
          /\ bound.impis = [NewSet.impis EXCEPT ![r.impi] = "ADDED"]
          /\ bound.existing = NewSet.existing /\ bound.store = NewSet.store
          /\ bound.cas = NewSet.cas /\ bound.reg = NewSet.reg /\ bound.xml = NewSet.xml
          /\ bound.charging = NewSet.charging /\ bound.impus = NewSet.impus
          /\ bound.default = NewSet.default
      BY <1>1, NewSetType, AddImpiType DEF add_associated_impi, NewSet
    <3>2. NewSet.impis = [p \in Impis |-> "NONE"]
      BY DEF NewSet
    <3> HIDE DEF bound
    <3> QED BY <1>1, <3>1, <3>2 DEF From, get_associated_impis, get_elements_in_state
  <2>4. j = set_ttl(set_ims_sub_xml(set_charging_addresses(
              set_reg_state(bound, "REGISTERED"), c), xml))
    BY <2>1 DEF Registered, NewSet
  <2> HIDE DEF bound
  <2>5. /\ From(bound, j) /\ j.reg = "REGISTERED" /\ j.regSet /\ j.xml = xml
        /\ j.xmlSet /\ j.chargingSet
        /\ j.default = get_default_id(xml) /\ j.impis = bound.impis
        /\ j.impus = Relisted(NewSet.impus, xml)
    <3>1. "REGISTERED" \in RegistrationStates
      BY DEF RegistrationStates
    <3> QED BY SMTT(30), <2>2, <2>3, <2>4, <3>1, AnsweredFields
  <2>6. From(NewSet, j)
    BY <2>2, <2>3, <2>5 DEF From
  <2>7. r.impi \in get_associated_impis(j)
    BY <2>3, <2>5 DEF get_associated_impis
  <2> QED BY <1>2, <2>1, <2>5, <2>6, <2>7
<1>3. CASE r.kind = "CALL"
  <2>1. PICK xml \in HssDocuments(r.impu), c \in Charging :
          j = Unregistered(NewSet, xml, c)
    BY SMTT(30), <1>3 DEF NewSets
  <2>2. xml \in Profiles /\ "UNREGISTERED" \in RegistrationStates
    BY DEF HssDocuments, RegistrationStates
  <2> QED BY SMTT(30), <1>3, <2>1, <2>2, AnsweredFields, NewSetType DEF Unregistered
<1>4. CASE r.kind \in {"DEREG", "RTR", "PPR"}
  BY SMTT(30), <1>4 DEF NewSets
<1> QED BY <1>1, <1>2, <1>3, <1>4 DEF Kinds

-----------------------------------------------------------------------------
(* IRSs that keep to one subscriber.                                       *)

\* Setting a document tracks its identities, but for the default one.
LEMMA RelistedTracks ==
  ASSUME NEW data \in [Impus -> DataStates], NEW xml \in Profiles
  PROVE  Tracked(Relisted(data, xml)) \subseteq
           Tracked(data) \cup (get_public_ids(xml) \ {get_default_id(xml)})
  BY DEF Relisted, set_elements, Tracked, get_elements_in_state, DataStates

\* An IRS read from a store is its subscriber's.
LEMMA FromImpuOwn ==
  ASSUME NEW k \in Keys, NEW s, NEW entry, entry.rec \in DefaultImpus,
         OwnRecord(k, entry.rec)
  PROVE  LET i == FromImpu(k, s, entry) IN
         OwnSet(i) /\ i.default = k /\ i.existing /\ i.xml # NoProfile
<1> DEFINE i == FromImpu(k, s, entry)
<1>1. /\ i.xml = entry.rec.xml /\ i.default = k /\ i.existing
      /\ i.impus = [a \in Impus |-> IF a \in entry.rec.assoc THEN "UNCHANGED" ELSE "NONE"]
  BY DEF FromImpu
<1>2. entry.rec.assoc \subseteq Owned(k) \ {k} /\ entry.rec.xml \in Profiles
      /\ get_default_id(entry.rec.xml) = k
  BY DEF OwnRecord, DefaultImpus, is_default_impu
<1>3. NoProfile \notin Profiles
  BY ImpuAssumption
<1> HIDE DEF i
<1>4. Tracked(i.impus) \subseteq entry.rec.assoc
  BY <1>1 DEF Tracked, get_elements_in_state, DataStates
<1>5. OwnSet(i) /\ i.default = k /\ i.existing /\ i.xml # NoProfile
  BY <1>1, <1>2, <1>3, <1>4 DEF OwnSet
<1> QED BY <1>5 DEF i

\* A handler's changes keep it that subscriber's, if its default IMPU stays.
LEMMA FromOwn ==
  ASSUME NEW i \in ImplicitRegSets, OwnSet(i), NEW j, From(i, j),
         j.default = i.default
  PROVE  OwnSet(j)
<1>1. CASE j.impus = i.impus /\ j.default = i.default /\ j.xml = i.xml
  BY <1>1 DEF OwnSet
<1>2. CASE j.xml \in Profiles /\ j.default = get_default_id(j.xml)
           /\ j.impus = Relisted(i.impus, j.xml)
  <2>1. i.impus \in [Impus -> DataStates]
    BY DEF ImplicitRegSets
  <2>2. Tracked(j.impus) \subseteq
          Tracked(i.impus) \cup (get_public_ids(j.xml) \ {j.default})
    BY <1>2, <2>1, RelistedTracks
  <2>3. get_public_ids(j.xml) \subseteq Owned(j.default)
    BY <1>2, DocumentOwned
  <2> QED BY <1>2, <2>2, <2>3 DEF OwnSet
<1> QED BY <1>1, <1>2 DEF From

\* A new set is its document's subscriber's.
LEMMA NewOwn ==
  ASSUME NEW j, j.xml \in Profiles, j.default = get_default_id(j.xml),
         j.impus = Relisted(NewSet.impus, j.xml)
  PROVE  OwnSet(j)
<1>1. NewSet.impus \in [Impus -> DataStates] /\ Tracked(NewSet.impus) = {}
  BY DEF NewSet, Tracked, get_elements_in_state, DataStates
<1>2. Tracked(j.impus) \subseteq get_public_ids(j.xml) \ {j.default}
  BY <1>1, RelistedTracks
<1>3. get_public_ids(j.xml) \subseteq Owned(j.default)
  BY DocumentOwned
<1> QED BY <1>2, <1>3 DEF OwnSet

\* So is a set that was merged with the record of its default IMPU, and a set
\* that is to be deleted.
LEMMA UpdateOwn ==
  ASSUME NEW i \in ImplicitRegSets, OwnSet(i), NEW rec \in DefaultImpus,
         OwnRecord(i.default, rec)
  PROVE  LET j == update_from_impu_from_store(i, rec) IN
         OwnSet(j) /\ j.default = i.default /\ j.existing = i.existing
<1> DEFINE j == update_from_impu_from_store(i, rec)
<1>1. /\ j.default = i.default /\ j.existing = i.existing
      /\ j.xml = IF i.xmlSet THEN i.xml ELSE rec.xml
      /\ j.impus = IF i.refreshed THEN emplace_deleted(i.impus, rec.assoc)
                                  ELSE merge_data_sets(i.impus, rec.assoc)
  BY DEF update_from_impu_from_store, ImplicitRegSets
<1>2. rec.assoc \subseteq Owned(i.default) \ {i.default} /\ rec.xml \in Profiles
      /\ get_default_id(rec.xml) = i.default
  BY DEF OwnRecord, DefaultImpus, is_default_impu
<1>3. i.impus \in [Impus -> DataStates]
  BY DEF ImplicitRegSets
<1> HIDE DEF j
<1>4. Tracked(j.impus) \subseteq Tracked(i.impus) \cup rec.assoc
  BY <1>1, <1>3 DEF Tracked, get_elements_in_state, DataStates, emplace_deleted,
     merge_data_sets
<1>5. OwnSet(j)
  BY <1>1, <1>2, <1>4 DEF OwnSet
<1> QED BY <1>1, <1>5 DEF j

\* delete_all marks everything an IRS knows as deleted, and nothing else.
LEMMA DeleteAllOwn ==
  ASSUME NEW i \in ImplicitRegSets
  PROVE  LET j == delete_all(i) IN
         /\ OwnSet(i) => OwnSet(j)
         /\ j.default = i.default /\ j.existing = i.existing
         /\ j.impus = delete_tracked(i.impus) /\ j.impis = delete_tracked(i.impis)
<1> DEFINE j == delete_all(i)
<1>1. /\ j.default = i.default /\ j.existing = i.existing /\ j.xml = i.xml
      /\ j.impus = delete_tracked(i.impus) /\ j.impis = delete_tracked(i.impis)
  BY DEF delete_all, ImplicitRegSets
<1>2. i.impus \in [Impus -> DataStates]
  BY DEF ImplicitRegSets
<1> HIDE DEF j
<1>3. Tracked(j.impus) = Tracked(i.impus)
  BY <1>1, <1>2 DEF Tracked, get_elements_in_state, DataStates, delete_tracked
<1>4. OwnSet(i) => OwnSet(j)
  BY <1>1, <1>3 DEF OwnSet
<1> QED BY <1>1, <1>4 DEF j

\* The record of an IRS is its subscriber's.
LEMMA CreateOwn ==
  ASSUME NEW i \in ImplicitRegSets, OwnSet(i)
  PROVE  /\ OwnRecord(i.default, create_impu(i))
         /\ create_impu(i).assoc = get_associated_impus(i)
         /\ create_impu(i).impis = get_associated_impis(i)
<1>1. /\ create_impu(i).xml = i.xml /\ create_impu(i).assoc = get_associated_impus(i)
      /\ create_impu(i).impis = get_associated_impis(i)
  BY DEF create_impu, Stored, DefaultImpu
<1>2. get_associated_impus(i) \subseteq Tracked(i.impus)
  BY DEF get_associated_impus, Tracked, get_elements_in_state, DataStates
<1> QED BY <1>1, <1>2 DEF OwnRecord, OwnSet

-----------------------------------------------------------------------------
(* The state of a worker after each step.                                  *)

\* Worker w, in state x, turns to its n-th store with IRS i.
TurnsTo(w, x, i, n, y) ==
  /\ y.pc = FirstCall(x, i, Sites[w][n]) /\ y.req = x.req /\ y.irs = i
  /\ y.site = n /\ y.cas = i.cas /\ y.todo = {} /\ y.status = "OK"

\* It is done with a store, or gives up.
Leaves(w, x, i, y) ==
  \/ y.pc = "idle" /\ ~(x.site < Len(Sites[w]))
  \/ x.site < Len(Sites[w]) /\ TurnsTo(w, x, i, x.site + 1, y)

GivesUp(w, x, y) ==
  \/ y.pc = "idle"
  \/ /\ x.site < Len(Sites[w]) /\ (x.site = 1 => x.req.kind = "PPR")
     /\ TurnsTo(w, x, x.irs, x.site + 1, y)

\* What an IRS has become when its record is written or gone.
Final(x) == IF Deleting(x) THEN delete_all(x.irs) ELSE x.irs

\* It turns from the record, or from reference ref, to the next reference, or
\* leaves the store.
TurnsFromRecord(w, x, y) ==
  \/ WorkList(Final(x)) = {} /\ Leaves(w, x, Final(x), y)
  \/ /\ y.pc = "work" /\ y.irs = Final(x) /\ y.todo = WorkList(Final(x))
     /\ y.req = x.req /\ y.site = x.site /\ y.told = x.told /\ y.status = x.status

TurnsFrom(w, x, ref, st, y) ==
  \/ x.todo \ {ref} = {} /\ (Deleting(x) => st = "OK") /\ Leaves(w, x, x.irs, y)
  \/ Deleting(x) /\ st # "OK" /\ GivesUp(w, x, y)
  \/ /\ y.pc = "work" /\ y.todo = x.todo \ {ref} /\ y.irs = x.irs
     /\ y.req = x.req /\ y.site = x.site /\ y.told = x.told /\ y.status \in {"OK", st}

\* It goes on with reference ref.
GoesOn(x, ref, pc, m, st, y) ==
  /\ y.pc = pc /\ y.item = ref /\ y.mp = m /\ y.status = st /\ y.todo = x.todo
  /\ y.irs = x.irs /\ y.req = x.req /\ y.site = x.site /\ y.told = x.told

\* These are what Entered, Left, RecordDone, ReferenceDone and Continued do.
LEMMA EnteredTurns ==
  ASSUME NEW w, NEW x, NEW i, NEW n
  PROVE  /\ TurnsTo(w, x, i, n, Entered(w, x, i, n))
         /\ Entered(w, x, i, n).told = x.told
  BY DEF TurnsTo, Entered, Idle

\* Left hands the worker on to its next site, or gives the request up.
LEMMA LeftLeaves ==
  ASSUME NEW w, NEW x \in WorkerStates
  PROVE  /\ Leaves(w, x, x.irs, Left(w, x, TRUE))
         /\ GivesUp(w, x, Left(w, x, FALSE))
<1> DEFINE n == x.site + 1
           More == x.site < Len(Sites[w])
           z(told) == [x EXCEPT !.told = told]
           next(told) == Entered(w, z(told), x.irs, n)
<1>1. \A told : Released(told).pc = "idle"
  BY DEF Released, Idle
<1>2. \A told : z(told).req = x.req
  BY DEF WorkerStates
<1>3. \A told : TurnsTo(w, z(told), x.irs, n, next(told))
  BY EnteredTurns
<1>4. \A told : TurnsTo(w, x, x.irs, n, next(told))
  <2> TAKE told
  <2>1. z(told).req = x.req /\ TurnsTo(w, z(told), x.irs, n, next(told))
    BY <1>2, <1>3
  <2> HIDE DEF z, next, n
  <2> QED BY <2>1 DEF TurnsTo, FirstCall, Deleting
<1>5. \/ More /\ \E told : Left(w, x, TRUE) = next(told)
      \/ ~More /\ \E told : Left(w, x, TRUE) = Released(told)
  BY DEF Left
<1>6. \/ /\ More /\ (x.site = 1 => x.req.kind = "PPR")
         /\ \E told : Left(w, x, FALSE) = next(told)
      \/ \E told : Left(w, x, FALSE) = Released(told)
  BY DEF Left
<1> HIDE DEF next
<1>7. Leaves(w, x, x.irs, Left(w, x, TRUE))
  BY <1>1, <1>4, <1>5 DEF Leaves
<1>8. GivesUp(w, x, Left(w, x, FALSE))
  BY <1>1, <1>4, <1>6 DEF GivesUp
<1> QED BY <1>7, <1>8

\* RecordDone turns the worker to the references of the set it has written.
LEMMA RecordDoneTurns ==
  ASSUME NEW w, NEW x \in WorkerStates
  PROVE  /\ TurnsFromRecord(w, x, RecordDone(w, x))
         /\ Final(x) \in ImplicitRegSets
<1> DEFINE i == Final(x)
           z == [x EXCEPT !.irs = i]
           next == [x EXCEPT !.pc = "work", !.irs = i, !.todo = WorkList(i)]
           y == RecordDone(w, x)
<1>1. i \in ImplicitRegSets
  BY DeleteAllType DEF WorkerStates, Final
<1>2. y = IF WorkList(i) = {} THEN Left(w, z, TRUE) ELSE next
  BY DEF RecordDone, Final
<1> HIDE DEF i
<1>3. z \in WorkerStates /\ z.req = x.req /\ z.irs = i /\ z.site = x.site
  BY <1>1 DEF WorkerStates
<1>4. /\ next.pc = "work" /\ next.irs = i /\ next.todo = WorkList(i)
      /\ next.req = x.req /\ next.site = x.site /\ next.told = x.told
      /\ next.status = x.status
  BY DEF WorkerStates
<1>5. Leaves(w, z, z.irs, Left(w, z, TRUE))
  BY <1>3, LeftLeaves
<1> HIDE DEF next, z, y
<1>6. CASE WorkList(i) = {}
  <2>1. Leaves(w, z, z.irs, y)
    BY <1>2, <1>5, <1>6
  <2>2. Leaves(w, x, i, y)
    BY <1>3, <2>1 DEF Leaves, TurnsTo, FirstCall, Deleting
  <2> QED BY <1>1, <1>6, <2>2 DEF TurnsFromRecord, i, y
<1>7. CASE WorkList(i) # {}
  <2>1. y = next
    BY <1>2, <1>7
  <2>2. /\ y.pc = "work" /\ y.irs = i /\ y.todo = WorkList(i)
        /\ y.req = x.req /\ y.site = x.site /\ y.told = x.told
        /\ y.status = x.status
    BY <1>4, <2>1
  <2> QED BY <1>1, <2>2 DEF TurnsFromRecord, i, y
<1> QED BY <1>6, <1>7

\* ReferenceDone turns it to the references that are left.
LEMMA ReferenceDoneTurns ==
  ASSUME NEW w, NEW x \in WorkerStates, NEW ref, NEW st
  PROVE  TurnsFrom(w, x, ref, st, ReferenceDone(w, x, ref, st))
<1> DEFINE left == x.todo \ {ref}
           switch == ref \in AssocReferences /\ left \cap AssocReferences = {}
           status == IF switch THEN "OK" ELSE st
           next == [x EXCEPT !.pc = "work", !.todo = left, !.item = NoItem,
                             !.mp = AbsentMapping, !.status = status]
           y == ReferenceDone(w, x, ref, st)
<1>1. \/ left = {} /\ (Deleting(x) => st = "OK") /\ y = Left(w, x, TRUE)
      \/ Deleting(x) /\ st # "OK" /\ y = Left(w, x, FALSE)
      \/ y = next
  <2>1. (~Deleting(x) \/ st = "OK") = TRUE \/ (~Deleting(x) \/ st = "OK") = FALSE
    OBVIOUS
  <2> QED BY <2>1 DEF ReferenceDone
<1>2. /\ next.pc = "work" /\ next.todo = left /\ next.irs = x.irs
      /\ next.req = x.req /\ next.site = x.site /\ next.told = x.told
      /\ next.status = status
  BY DEF WorkerStates
<1>3. status \in {"OK", st}
  OBVIOUS
<1>4. Leaves(w, x, x.irs, Left(w, x, TRUE)) /\ GivesUp(w, x, Left(w, x, FALSE))
  BY LeftLeaves
<1> HIDE DEF next, status, y
<1>5. TurnsFrom(w, x, ref, st, y)
  <2>1. CASE left = {} /\ (Deleting(x) => st = "OK") /\ y = Left(w, x, TRUE)
    BY <1>4, <2>1 DEF TurnsFrom
  <2>2. CASE Deleting(x) /\ st # "OK" /\ y = Left(w, x, FALSE)
    BY <1>4, <2>2 DEF TurnsFrom
  <2>3. CASE y = next
    <3>1. /\ y.pc = "work" /\ y.todo = left /\ y.irs = x.irs /\ y.status = status
          /\ y.req = x.req /\ y.site = x.site /\ y.told = x.told
      BY <1>2, <2>3
    <3> QED BY <1>3, <3>1 DEF TurnsFrom
  <2> QED BY <1>1, <2>1, <2>2, <2>3
<1> QED BY <1>5 DEF y

\* Continued goes on with the same reference.
LEMMA ContinuedGoesOn ==
  ASSUME NEW x \in WorkerStates, NEW ref, NEW pc, NEW m, NEW st
  PROVE  GoesOn(x, ref, pc, m, st, Continued(x, ref, pc, m, st))
  BY DEF GoesOn, Continued, WorkerStates

-----------------------------------------------------------------------------
(* Workers keep to one subscriber.                                         *)

\* The steps of a worker, in groups.
LEMMA PcGroups ==
  /\ PutPcs = {"create", "set", "delete", "getStored", "work", "assocDelete",
               "mapDeleteGet", "mapDelete", "mapRefreshGet", "mapRefresh",
               "mapAddGet", "mapAdd"}
  /\ ReferencePcs = {"work", "assocDelete", "mapDeleteGet", "mapDelete",
                     "mapRefreshGet", "mapRefresh", "mapAddGet", "mapAdd"}
  /\ ReferencePcs = {"work"} \cup LoopPcs
  BY DEF PutPcs, ReferencePcs, Pcs, ReadPcs, RecordPcs, LoopPcs, DeletePcs,
     RefreshPcs, AddPcs

\* Record steps, reference steps and reading steps are different.
LEMMA PcKinds ==
  ASSUME NEW pc
  PROVE  /\ pc \in RecordPcs =>
              /\ pc \in PutPcs /\ pc \notin ReferencePcs /\ pc \notin ReadPcs
              /\ pc # "idle" /\ pc # "getMapping"
         /\ pc \in ReferencePcs =>
              /\ pc \in PutPcs /\ pc \notin RecordPcs /\ pc \notin ReadPcs
              /\ pc # "idle" /\ pc # "getMapping" /\ pc # "set" /\ pc # "delete"
         /\ pc \in {"idle", "getMapping"} =>
              /\ pc \notin PutPcs /\ pc \notin RecordPcs /\ pc \notin ReadPcs
              /\ pc \notin ReferencePcs /\ pc # "set" /\ pc # "delete"
         /\ pc \in ReadPcs =>
              /\ pc \notin PutPcs /\ pc \notin RecordPcs /\ pc \notin ReferencePcs
              /\ pc # "set" /\ pc # "delete" /\ pc # "idle"
  BY PcGroups DEF RecordPcs, ReadPcs

\* The first call for an IRS.
LEMMA FirstCallKind ==
  ASSUME NEW x, NEW i, NEW s
  PROVE  /\ FirstCall(x, i, s) \in RecordPcs
         /\ FirstCall(x, i, s) = "create" <=> ~i.existing
         /\ FirstCall(x, i, s) = "set" => ~Deleting(x) /\ i.store = s
         /\ FirstCall(x, i, s) = "delete" => Deleting(x) /\ i.store = s
         /\ FirstCall(x, i, s) = "getStored" => i.store # s
  BY DEF FirstCall, RecordPcs

\* A worker without an IRS in hand.
LEMMA IdleKeeps ==
  ASSUME NEW y, \/ y.pc = "idle"
                \/ y.pc = "getMapping" /\ y.req.kind \in {"RTR", "PPR"}
  PROVE  Keeps(y)
  BY PcKinds DEF Keeps

\* An IRS that may be put or deleted for state x.
Puttable(x, i) == OwnSet(i) /\ (Deleting(x) => i.existing)

\* Turning to a store.
LEMMA TurnsKeeps ==
  ASSUME NEW w, NEW x, NEW i, NEW n, NEW y, TurnsTo(w, x, i, n, y), Puttable(x, i)
  PROVE  Keeps(y)
<1>1. y.req = x.req /\ y.irs = i /\ y.pc = FirstCall(x, i, Sites[w][n])
  BY DEF TurnsTo
<1>2. Deleting(y) <=> Deleting(x)
  BY <1>1 DEF Deleting
<1>3. /\ y.pc \in RecordPcs /\ (y.pc = "create" <=> ~i.existing)
      /\ y.pc = "set" => ~Deleting(x)
      /\ y.pc = "delete" => Deleting(x)
  BY SMTT(30), <1>1, FirstCallKind
<1>4. y.pc \in PutPcs /\ y.pc \notin ReferencePcs /\ y.pc \notin ReadPcs
      /\ y.pc # "getMapping"
  BY <1>3, PcKinds
<1> QED BY <1>1, <1>2, <1>3, <1>4 DEF Keeps, Puttable

\* Leaving one.
LEMMA LeavesKeeps ==
  ASSUME NEW w, NEW x, NEW i, NEW y, Puttable(x, i),
         Leaves(w, x, i, y) \/ (GivesUp(w, x, y) /\ i = x.irs)
  PROVE  Keeps(y)
<1>1. y.pc = "idle" \/ TurnsTo(w, x, i, x.site + 1, y)
  BY DEF Leaves, GivesUp
<1>2. CASE y.pc = "idle"
  BY <1>2, IdleKeeps
<1>3. CASE TurnsTo(w, x, i, x.site + 1, y)
  BY <1>3, TurnsKeeps
<1> QED BY <1>1, <1>2, <1>3

\* The references to do are to identities the IRS tracks.
LEMMA WorkListOwn ==
  ASSUME NEW i \in ImplicitRegSets, OwnSet(i), NEW r \in WorkList(i),
         r \in AssocReferences
  PROVE  r[2] \in Owned(i.default) \ {i.default}
<1>1. i.impus \in [Impus -> DataStates]
  BY DEF ImplicitRegSets
<1>2. \A S : S \subseteq {"UNCHANGED", "ADDED", "DELETED"} =>
        get_elements_in_state(i.impus, S) \subseteq Tracked(i.impus)
  BY <1>1 DEF Tracked, get_elements_in_state, DataStates
<1>3. r[1] \in {"assocDelete", "assocRefresh", "assocAdd"}
  BY PhasesMeaning DEF AssocReferences
<1>4. r[2] \in Tracked(i.impus)
  BY SMTT(30), <1>2, <1>3 DEF WorkList
<1> QED BY <1>4 DEF OwnSet

\* An IRS stays its subscriber's when its record is done.
LEMMA FinalOwn ==
  ASSUME NEW x \in WorkerStates, Puttable(x, x.irs)
  PROVE  /\ Final(x) \in ImplicitRegSets /\ Puttable(x, Final(x))
         /\ Final(x).default = x.irs.default /\ Final(x).existing = x.irs.existing
<1>1. x.irs \in ImplicitRegSets
  BY DEF WorkerStates
<1> QED BY <1>1, DeleteAllOwn, DeleteAllType DEF Final, Puttable

\* Turning to the references, and from one to the next.
LEMMA TurnsFromRecordKeeps ==
  ASSUME NEW w, NEW x \in WorkerStates, Puttable(x, x.irs),
         NEW y, TurnsFromRecord(w, x, y)
  PROVE  Keeps(y)
<1> DEFINE i == Final(x)
<1>1. i \in ImplicitRegSets /\ Puttable(x, i)
  BY FinalOwn
<1>2. CASE Leaves(w, x, i, y)
  BY <1>1, <1>2, LeavesKeeps
<1>3. CASE y.pc = "work" /\ y.irs = i /\ y.todo = WorkList(i) /\ y.req = x.req
  <2> HIDE DEF i
  <2>1. OwnSet(i)
    BY <1>1 DEF Puttable
  <2>2. \A r \in y.todo : r \in AssocReferences =>
          r[2] \in Owned(y.irs.default) \ {y.irs.default}
    BY <1>1, <1>3, <2>1, WorkListOwn
  <2>3. Deleting(y) => y.irs.existing
    BY <1>1, <1>3 DEF Deleting, Puttable
  <2>4. y.pc \in ReferencePcs /\ y.pc \notin RecordPcs /\ y.pc \notin ReadPcs
    BY <1>3, PcGroups, PcKinds
  <2> QED BY <1>3, <2>1, <2>2, <2>3, <2>4 DEF Keeps
<1> QED BY <1>2, <1>3 DEF TurnsFromRecord

\* A worker that updates references keeps to its subscriber while it does so.
LEMMA TurnsFromKeeps ==
  ASSUME NEW w, NEW x, Keeps(x), x.pc \in ReferencePcs, NEW ref, NEW st,
         NEW y, TurnsFrom(w, x, ref, st, y)
  PROVE  Keeps(y)
<1>1. Puttable(x, x.irs)
  BY PcKinds DEF Keeps, Puttable
<1>2. \A r \in x.todo : r \in AssocReferences =>
        r[2] \in Owned(x.irs.default) \ {x.irs.default}
  BY DEF Keeps
<1>3. CASE Leaves(w, x, x.irs, y) \/ GivesUp(w, x, y)
  BY <1>1, <1>3, LeavesKeeps
<1>4. CASE y.pc = "work" /\ y.todo = x.todo \ {ref} /\ y.irs = x.irs /\ y.req = x.req
  <2>1. Deleting(y) => y.irs.existing
    BY <1>1, <1>4 DEF Deleting, Puttable
  <2>2. y.pc \in ReferencePcs /\ y.pc \notin RecordPcs /\ y.pc \notin ReadPcs
    BY <1>4, PcGroups, PcKinds
  <2>3. OwnSet(y.irs)
    BY <1>1, <1>4 DEF Puttable
  <2> QED BY <1>2, <1>4, <2>1, <2>2, <2>3 DEF Keeps
<1> QED BY <1>3, <1>4 DEF TurnsFrom

\* Going on with a reference keeps to the subscriber.
LEMMA GoesOnKeeps ==
  ASSUME NEW x, Keeps(x), x.pc \in ReferencePcs, NEW ref \in x.todo,
         NEW pc \in LoopPcs, NEW m, NEW st, NEW y, GoesOn(x, ref, pc, m, st, y)
  PROVE  Keeps(y)
<1>1. y.pc = pc /\ y.item = ref /\ y.todo = x.todo /\ y.irs = x.irs /\ y.req = x.req
  BY DEF GoesOn
<1>2. Deleting(y) <=> Deleting(x)
  BY <1>1 DEF Deleting
<1>3. OwnSet(x.irs) /\ (Deleting(x) => x.irs.existing)
  BY PcKinds DEF Keeps
<1>4. \A r \in x.todo : r \in AssocReferences =>
        r[2] \in Owned(x.irs.default) \ {x.irs.default}
  BY DEF Keeps
<1>5. y.pc \in ReferencePcs
  BY <1>1, PcGroups
<1>6. /\ y.pc \notin RecordPcs /\ y.pc \notin ReadPcs
      /\ y.pc # "set" /\ y.pc # "delete" /\ y.pc # "getMapping"
  BY <1>5, PcKinds
<1> QED BY <1>1, <1>2, <1>3, <1>4, <1>5, <1>6 DEF Keeps

-----------------------------------------------------------------------------
(* The steps of a reading worker.                                          *)

\* Store t gave worker w, in state x, this entry.
Source(w, x, t, entry) ==
  /\ IsPresent(entry)
  /\ x.pc \in {"get", "follow"} =>
       t = LocalStore(w) /\ entry = impu[t][x.read.key]
  /\ x.pc \in {"getRemote", "followRemote"} =>
       t \in RemoteStores(w) /\ entry \in {x.read.answers[t], impu[t][x.read.key]}

\* It begins a read, asks the remote stores or waits for more of them, follows
\* an associated IMPU, or turns to its local store with what it found.
Restarts(x, y) ==
  /\ x.pc = "getMapping" \/ x.read.queue # {}
  /\ y.pc = "get" /\ y.req = x.req /\ y.told = "nothing"
  /\ y.read.key = y.read.asked
  /\ \A t \in Stores : y.read.answers[t] = AbsentImpu

Waits(w, x, y) ==
  /\ y.pc = IF x.pc \in {"get", "getRemote"} THEN "getRemote" ELSE "followRemote"
  /\ x.pc \in {"get", "follow"} => ~IsPresent(impu[LocalStore(w)][x.read.key])
  /\ y.req = x.req /\ y.told = x.told /\ y.read.asked = x.read.asked
  /\ y.read.key = x.read.key /\ y.read.queue = x.read.queue
  /\ \A t \in Stores : \/ y.read.answers[t] = x.read.answers[t]
                       \/ y.read.answers[t] = impu[t][x.read.key]
                       \/ y.read.answers[t] = AbsentImpu

Follows(x, entry, y) ==
  /\ x.pc \in {"get", "getRemote"} /\ ~is_default_impu(entry.rec)
  /\ y.pc = "follow" /\ y.req = x.req /\ y.told = x.told
  /\ y.read.asked = x.read.asked /\ y.read.queue = x.read.queue
  /\ y.read.key = entry.rec.default
  /\ \A t \in Stores : y.read.answers[t] = AbsentImpu

Hits(w, x, t, entry, y) ==
  /\ is_default_impu(entry.rec)
  /\ x.pc \in {"get", "getRemote"} \/ has_associated_impu(entry.rec, x.read.asked)
  /\ \E i \in PutSets(x.req, FromImpu(x.read.key, t, entry)) :
       TurnsTo(w, x, i, 1, y) /\ y.told = x.told

Unlisted(rec, k) == ~(is_default_impu(rec) /\ has_associated_impu(rec, k))

Misses(w, x, y) ==
  /\ x.pc = "get" => ~IsPresent(impu[LocalStore(w)][x.read.key])
  /\ x.pc = "follow" =>
       Unlisted(impu[LocalStore(w)][x.read.key].rec, x.read.asked)
  /\ \E i \in NewSets(x.req) : TurnsTo(w, x, i, 1, y) /\ y.told = x.told

ReadStep(w, x, y) ==
  \/ y.pc = "idle"
  \/ x.pc = "getMapping" /\ y.pc = "getMapping" /\ y.req = x.req /\ y.told = x.told
  \/ Restarts(x, y)
  \/ /\ x.pc \in ReadPcs
     /\ \/ Waits(w, x, y)
        \/ Misses(w, x, y)
        \/ \E t \in Stores : \E entry \in ImpuEntries :
             /\ Source(w, x, t, entry)
             /\ Follows(x, entry, y) \/ Hits(w, x, t, entry, y)

\* get_implicit_registration_sets_for_impus goes on.
LEMMA NextKeysRestarts ==
  ASSUME NEW x, NEW keys, NEW y \in NextKeys(x, keys),
         x.pc = "getMapping" \/ x.read.queue # {}
  PROVE  Restarts(x, y)
<1>1. PICK k \in keys :
        y = [Idle EXCEPT !.pc = "get", !.req = x.req,
                         !.read = [NoRead EXCEPT !.asked = k, !.key = k,
                                                 !.queue = keys \ {k}]]
  BY DEF NextKeys
<1> QED BY <1>1 DEF Restarts, Idle, NoRead

\* The handler goes on without an IRS, or with one of these.
LEMMA HandledTurns ==
  ASSUME NEW w, NEW x, NEW sets, NEW y \in Handled(w, x, sets)
  PROVE  \/ y.pc = "idle"
         \/ \E i \in sets : TurnsTo(w, x, i, 1, y) /\ y.told = x.told
<1>1. CASE y = Released("nothing")
  BY <1>1 DEF Released, Idle
<1>2. ASSUME NEW i \in sets, y = Entered(w, x, i, 1)
      PROVE  TurnsTo(w, x, i, 1, y) /\ y.told = x.told
  BY SMTT(30), <1>2, EnteredTurns
<1> QED BY <1>1, <1>2 DEF Handled

\* What follows a read that has all its answers.
LEMMA AllAnswered ==
  ASSUME NEW w, NEW x, NEW y
  PROVE  /\ \A i, n : TurnsTo(w, x, i, n, y) => y.pc \in RecordPcs
         /\ \/ y.pc = "idle" \/ Restarts(x, y) \/ Misses(w, x, y)
            \/ \E t, entry : Follows(x, entry, y) \/ Hits(w, x, t, entry, y)
            => y.pc \notin {"getRemote", "followRemote"}
<1>1. \A i, n : TurnsTo(w, x, i, n, y) => y.pc \in RecordPcs
  BY SMTT(30), FirstCallKind DEF TurnsTo
<1>2. "getRemote" \notin RecordPcs /\ "followRemote" \notin RecordPcs
  BY DEF RecordPcs
<1> QED BY <1>1, <1>2 DEF Restarts, Misses, Follows, Hits

\* No IRS for the IMPU asked for.
LEMMA NotFoundReads ==
  ASSUME NEW w, NEW x, NEW y \in NotFound(w, x), x.pc \in ReadPcs,
         x.pc = "get" => ~IsPresent(impu[LocalStore(w)][x.read.key]),
         x.pc = "follow" =>
           Unlisted(impu[LocalStore(w)][x.read.key].rec, x.read.asked)
  PROVE  ReadStep(w, x, y) /\ y.pc \notin {"getRemote", "followRemote"}
<1>1. CASE x.read.queue = {}
  <2>1. y \in Handled(w, x, NewSets(x.req))
    BY <1>1 DEF NotFound
  <2>2. \/ y.pc = "idle"
        \/ \E i \in NewSets(x.req) : TurnsTo(w, x, i, 1, y) /\ y.told = x.told
    BY SMTT(30), <2>1, HandledTurns
  <2>3. y.pc = "idle" \/ Misses(w, x, y)
    BY <2>2 DEF Misses
  <2> QED BY <2>3, AllAnswered DEF ReadStep
<1>2. CASE x.read.queue # {}
  <2>1. y \in NextKeys(x, x.read.queue)
    BY <1>2 DEF NotFound
  <2>2. Restarts(x, y)
    BY <1>2, <2>1, NextKeysRestarts
  <2> QED BY <2>2, AllAnswered DEF ReadStep
<1> QED BY <1>1, <1>2

\* A store has the record.
LEMMA FoundReads ==
  ASSUME NEW w, NEW x \in WorkerStates, NEW t \in Stores, NEW entry \in ImpuEntries,
         x.pc \in ReadPcs, Source(w, x, t, entry), NEW y \in Found(w, x, t, entry)
  PROVE  ReadStep(w, x, y) /\ y.pc \notin {"getRemote", "followRemote"}
<1> DEFINE first == x.pc \in {"get", "getRemote"}
           hit   == /\ is_default_impu(entry.rec)
                    /\ first \/ has_associated_impu(entry.rec, x.read.asked)
           sets  == PutSets(x.req, FromImpu(x.read.key, t, entry))
<1>1. CASE hit
  <2>1. y \in Handled(w, x, sets)
    BY <1>1 DEF Found
  <2>2. \/ y.pc = "idle"
        \/ \E i \in sets : TurnsTo(w, x, i, 1, y) /\ y.told = x.told
    BY SMTT(30), <2>1, HandledTurns
  <2>3. y.pc = "idle" \/ Hits(w, x, t, entry, y)
    BY <1>1, <2>2 DEF Hits
  <2> QED BY <2>3, AllAnswered DEF ReadStep
<1>2. CASE ~hit /\ first
  <2> DEFINE rd == [NoRead EXCEPT !.asked = x.read.asked, !.key = entry.rec.default,
                                  !.queue = x.read.queue]
  <2>1. y = [x EXCEPT !.pc = "follow", !.read = rd]
    BY <1>2 DEF Found
  <2>2. /\ rd.asked = x.read.asked /\ rd.queue = x.read.queue
        /\ rd.key = entry.rec.default
        /\ \A s \in Stores : rd.answers[s] = AbsentImpu
    BY DEF NoRead
  <2> HIDE DEF rd
  <2>3. y.pc = "follow" /\ y.req = x.req /\ y.told = x.told /\ y.read = rd
    BY <2>1 DEF WorkerStates
  <2>4. Follows(x, entry, y)
    BY <1>2, <2>2, <2>3 DEF Follows
  <2> QED BY <2>4, AllAnswered DEF ReadStep
<1>3. CASE ~hit /\ ~first
  <2>1. y \in NotFound(w, x) /\ x.pc # "get"
    BY <1>3 DEF Found
  <2>2. x.pc = "follow" =>
          Unlisted(impu[LocalStore(w)][x.read.key].rec, x.read.asked)
    BY <1>3 DEF Source, Unlisted
  <2> QED BY <2>1, <2>2, NotFoundReads
<1> QED BY <1>1, <1>2, <1>3

\* Become changes the state of one worker.
LEMMA BecomeMeans ==
  ASSUME TypeOK, NEW w \in Workers, NEW y, Become(w, y)
  PROVE  worker'[w] = y /\ \A v \in Workers : v # w => worker'[v] = worker[v]
  BY DEF TypeOK, Become

\* State y is state x with the answer e of store s.
Heard(x, s, e, y) ==
  /\ y.pc = x.pc /\ y.req = x.req /\ y.told = x.told
  /\ y.read.asked = x.read.asked /\ y.read.key = x.read.key
  /\ y.read.queue = x.read.queue
  /\ \A t \in Stores : y.read.answers[t] = IF t = s THEN e ELSE x.read.answers[t]
  /\ e = impu[s][x.read.key] \/ e = AbsentImpu

\* The last of the remote stores' answers does not change what a read is about.
LEMMA LastAnswer ==
  ASSUME NEW w, NEW x, NEW y, NEW s \in Stores, NEW e, NEW z, Heard(x, s, e, y),
         x.pc \in {"getRemote", "followRemote"},
         ReadStep(w, y, z), z.pc \notin {"getRemote", "followRemote"}
  PROVE  ReadStep(w, x, z)
<1> USE DEF Heard
<1>1. CASE z.pc = "idle"
  BY <1>1 DEF ReadStep
<1>2. CASE Restarts(y, z)
  BY <1>2 DEF ReadStep, Restarts
<1>3. ASSUME NEW i, NEW n
      PROVE  TurnsTo(w, y, i, n, z) <=> TurnsTo(w, x, i, n, z)
  BY DEF TurnsTo, FirstCall, Deleting
<1>4. CASE Misses(w, y, z)
  <2>1. Misses(w, x, z)
    BY <1>3, <1>4 DEF Misses
  <2> QED BY <2>1 DEF ReadStep, ReadPcs
<1>5. ASSUME NEW t \in Stores, NEW entry \in ImpuEntries, Source(w, y, t, entry),
             Follows(y, entry, z) \/ Hits(w, y, t, entry, z)
      PROVE  ReadStep(w, x, z)
  <2>1. Source(w, x, t, entry)
    BY SMTT(30), <1>5 DEF Source, IsPresent, AbsentImpu
  <2>2. Follows(x, entry, z) \/ Hits(w, x, t, entry, z)
    BY <1>3, <1>5 DEF Follows, Hits
  <2> QED BY <2>1, <2>2 DEF ReadStep, ReadPcs
<1>6. ~Waits(w, y, z) /\ x.pc # "getMapping"
  BY DEF Waits
<1> QED BY <1>1, <1>2, <1>4, <1>5, <1>6 DEF ReadStep

\* get_impi_mapping_gr.
LEMMA GetMappingReads ==
  ASSUME Inv, NEW w \in Workers, GetMapping(w)
  PROVE  ReadStep(w, worker[w], worker'[w])
<1> DEFINE x == worker[w]
           entry == mapping[Store(w)][x.req.impi]
           next == [x EXCEPT !.site = x.site + 1]
<1>1. TypeOK /\ x \in WorkerStates /\ x.pc = "getMapping"
  BY WorkerSound DEF GetMapping
<1>2. \/ \E y \in NextKeys(x, entry.impus) : Become(w, y)
      \/ Become(w, next)
      \/ Become(w, Released("nothing"))
  BY DEF GetMapping
<1>3. CASE \E y \in NextKeys(x, entry.impus) : Become(w, y)
  BY <1>1, <1>3, BecomeMeans, NextKeysRestarts DEF ReadStep
<1>4. CASE Become(w, next)
  <2>1. next.pc = "getMapping" /\ next.req = x.req /\ next.told = x.told
    BY <1>1 DEF WorkerStates
  <2>2. worker'[w] = next
    BY <1>1, <1>4, BecomeMeans
  <2> HIDE DEF next
  <2> QED BY <1>1, <2>1, <2>2 DEF ReadStep
<1>5. CASE Become(w, Released("nothing"))
  BY SMTT(30), <1>1, <1>5, BecomeMeans DEF ReadStep, Released, Idle
<1> QED BY <1>2, <1>3, <1>4, <1>5

\* get_impu_for_impu_gr, the local store.
LEMMA GetImpuReads ==
  ASSUME Inv, NEW w \in Workers, GetImpu(w)
  PROVE  ReadStep(w, worker[w], worker'[w])
<1> DEFINE x == worker[w]
           t == LocalStore(w)
           entry == impu[t][x.read.key]
           pc == IF x.pc = "get" THEN "getRemote" ELSE "followRemote"
           next == [x EXCEPT !.pc = pc, !.read.unread = RemoteStores(w)]
<1>1. /\ TypeOK /\ CasInv /\ x \in WorkerStates /\ x.pc \in {"get", "follow"}
      /\ t \in Stores /\ x.pc \in ReadPcs
  BY WorkerSound DEF GetImpu, ReadPcs
<1>2. x.read \in Reads /\ x.read.key \in Keys
  BY <1>1 DEF WorkerStates, Reads
<1>3. entry \in ImpuEntries
  BY <1>1, <1>2, ReadIsCurrent
<1>4. \/ IsPresent(entry) /\ \E y \in Found(w, x, t, entry) : Become(w, y)
      \/ ~IsPresent(entry) /\ \E y \in NotFound(w, x) : Become(w, y)
      \/ ~IsPresent(entry) /\ Become(w, next)
      \/ Become(w, Released("nothing"))
  BY DEF GetImpu
<1>5. CASE IsPresent(entry) /\ \E y \in Found(w, x, t, entry) : Become(w, y)
  <2>1. Source(w, x, t, entry)
    BY <1>1, <1>5 DEF Source
  <2> HIDE DEF entry, t, x
  <2>2. PICK y \in Found(w, x, t, entry) : Become(w, y)
    BY <1>5
  <2>3. ReadStep(w, x, y)
    BY <1>1, <1>3, <2>1, <2>2, FoundReads
  <2> QED BY <1>1, <2>2, <2>3, BecomeMeans DEF x
<1>6. CASE ~IsPresent(entry) /\ \E y \in NotFound(w, x) : Become(w, y)
  <2>1. Unlisted(entry.rec, x.read.asked)
    BY SMTT(30), <1>3, <1>6 DEF ImpuEntries, IsPresent, AbsentImpu, NoRecord, Unlisted,
       is_default_impu
  <2> QED BY <1>1, <1>6, <2>1, NotFoundReads, BecomeMeans
<1>7. CASE ~IsPresent(entry) /\ Become(w, next)
  <2> DEFINE rd == [x.read EXCEPT !.unread = RemoteStores(w)]
  <2>1. /\ rd.answers = x.read.answers /\ rd.asked = x.read.asked
        /\ rd.key = x.read.key /\ rd.queue = x.read.queue
    BY <1>2 DEF Reads
  <2>2. next = [x EXCEPT !.pc = pc, !.read = rd]
    BY <1>1 DEF WorkerStates
  <2> HIDE DEF rd
  <2>3. next.pc = pc /\ next.read = rd /\ next.req = x.req /\ next.told = x.told
    BY <1>1, <2>2 DEF WorkerStates
  <2>4. worker'[w] = next
    BY <1>1, <1>7, BecomeMeans
  <2>5. Waits(w, x, next)
    <3> HIDE DEF next, x
    <3> QED BY <1>1, <1>7, <2>1, <2>3 DEF Waits
  <2> QED BY <1>1, <2>4, <2>5 DEF ReadStep
<1>8. CASE Become(w, Released("nothing"))
  BY SMTT(30), <1>1, <1>8, BecomeMeans DEF ReadStep, Released, Idle
<1> QED BY <1>4, <1>5, <1>6, <1>7, <1>8

\* get_impu_for_impu_gr, a remote store.
LEMMA GetRemoteImpuReads ==
  ASSUME Inv, NEW w \in Workers, NEW s \in Stores, GetRemoteImpu(w, s)
  PROVE  ReadStep(w, worker[w], worker'[w])
<1> DEFINE x == worker[w]
           Y(e) == [x EXCEPT !.read.answers[s] = e, !.read.unread = @ \ {s}]
           Has(e, n) == IsPresent(Y(e).read.answers[Sites[w][n]])
           F(e) == {n \in 2..Len(Sites[w]) :
                      Has(e, n) /\ \A m \in 2..(n - 1) : ~Has(e, m)}
           Answer(e) ==
             IF Y(e).read.unread # {} THEN Become(w, Y(e))
             ELSE IF F(e) = {} THEN \E z \in NotFound(w, Y(e)) : Become(w, z)
             ELSE \E n \in F(e) :
                  \E z \in Found(w, Y(e), Sites[w][n],
                                 Y(e).read.answers[Sites[w][n]]) :
                    Become(w, z)
<1>1. /\ TypeOK /\ CasInv /\ x \in WorkerStates
      /\ x.pc \in {"getRemote", "followRemote"}
  BY WorkerSound DEF GetRemoteImpu
<1>2. x.read.key \in Keys /\ x.read \in Reads /\ x.pc \in ReadPcs
  BY <1>1 DEF WorkerStates, Reads, ReadPcs
<1>3. Answer(impu[s][x.read.key]) \/ Answer(AbsentImpu)
  BY DEF GetRemoteImpu
<1>4. PICK e : (e = impu[s][x.read.key] \/ e = AbsentImpu) /\ Answer(e)
  BY <1>3
<1>5. e \in ImpuEntries
  <2> HIDE DEF Answer
  <2> QED BY <1>1, <1>2, <1>4, ReadIsCurrent DEF ImpuEntries
<1> DEFINE y == Y(e)
<1>6. /\ y \in WorkerStates /\ y.pc = x.pc /\ y.req = x.req /\ y.told = x.told
      /\ y.read.asked = x.read.asked /\ y.read.key = x.read.key
      /\ y.read.queue = x.read.queue
      /\ \A t \in Stores : y.read.answers[t] = IF t = s THEN e ELSE x.read.answers[t]
  <2> DEFINE rd == [x.read EXCEPT !.answers[s] = e, !.unread = @ \ {s}]
  <2>1. rd \in Reads
    BY <1>2, <1>5 DEF Reads
  <2>2. /\ \A t \in Stores : rd.answers[t] = IF t = s THEN e ELSE x.read.answers[t]
        /\ rd.asked = x.read.asked /\ rd.key = x.read.key /\ rd.queue = x.read.queue
    BY <1>2 DEF Reads
  <2>3. y = [x EXCEPT !.read = rd]
    BY <1>1, <1>2 DEF WorkerStates, Reads
  <2> HIDE DEF rd, y
  <2>4. y \in WorkerStates /\ y.pc = x.pc /\ y.req = x.req /\ y.told = x.told
        /\ y.read = rd
    BY <1>1, <2>1, <2>3 DEF WorkerStates
  <2> HIDE DEF x
  <2> QED BY <2>2, <2>4
<1>7. \A t \in Stores : x.read.answers[t] \in ImpuEntries
  BY <1>2 DEF Reads
<1>8. \/ Become(w, y)
      \/ \E z \in NotFound(w, y) : Become(w, z)
      \/ \E n \in 2..Len(Sites[w]) :
           /\ IsPresent(y.read.answers[Sites[w][n]])
           /\ \E z \in Found(w, y, Sites[w][n], y.read.answers[Sites[w][n]]) :
                Become(w, z)
  BY <1>4
<1> HIDE DEF y, x, Answer
<1>9. CASE Become(w, y)
  <2>1. Waits(w, x, y)
    BY <1>1, <1>4, <1>6 DEF Waits
  <2> QED BY <1>1, <1>2, <1>9, <2>1, BecomeMeans DEF ReadStep, x
<1>10. ASSUME NEW z, ReadStep(w, y, z), z.pc \notin {"getRemote", "followRemote"}
       PROVE  ReadStep(w, x, z)
  <2>1. Heard(x, s, e, y)
    BY <1>4, <1>6 DEF Heard
  <2> QED BY <1>1, <1>10, <2>1, LastAnswer
<1>11. y.pc \in ReadPcs /\ y.pc \in {"getRemote", "followRemote"} /\ y.pc # "get"
  BY <1>1, <1>2, <1>6
<1>12. ASSUME NEW z \in NotFound(w, y), Become(w, z)
       PROVE  ReadStep(w, x, worker'[w])
  <2>1. ReadStep(w, x, z)
    BY <1>10, <1>11, NotFoundReads
  <2> QED BY <1>1, <1>12, <2>1, BecomeMeans
<1>13. ASSUME NEW n \in 2..Len(Sites[w]), IsPresent(y.read.answers[Sites[w][n]]),
              NEW z \in Found(w, y, Sites[w][n], y.read.answers[Sites[w][n]]),
              Become(w, z)
       PROVE  ReadStep(w, x, worker'[w])
  <2> DEFINE t == Sites[w][n]
             entry == y.read.answers[t]
  <2>1. t \in RemoteStores(w) /\ t \in Stores
    BY SMTT(30), SitesType DEF RemoteStores
  <2> HIDE DEF t
  <2>2. entry \in ImpuEntries
    BY <1>5, <1>6, <1>7, <2>1
  <2>3. IsPresent(entry) /\ z \in Found(w, y, t, entry)
    BY <1>13 DEF t
  <2>4. Source(w, y, t, entry)
    BY <1>11, <2>1, <2>3 DEF Source
  <2> HIDE DEF entry
  <2>5. ReadStep(w, y, z) /\ z.pc \notin {"getRemote", "followRemote"}
    BY <1>6, <1>11, <2>1, <2>2, <2>3, <2>4, FoundReads
  <2> QED BY <1>1, <1>10, <1>13, <2>5, BecomeMeans
<1> QED BY <1>8, <1>9, <1>12, <1>13 DEF x

\* A reading step changes the worker only.
LEMMA ReadingSteps ==
  ASSUME Inv, NEW w \in Workers, Reading(w)
  PROVE  /\ ReadStep(w, worker[w], worker'[w])
         /\ UNCHANGED <<impu, mapping, lastCas>>
         /\ worker[w].pc \in ReadPcs \cup {"getMapping"}
<1>1. /\ UNCHANGED <<impu, mapping, lastCas>>
      /\ worker[w].pc \in ReadPcs \cup {"getMapping"}
  BY DEF Reading, GetMapping, GetImpu, GetRemoteImpu, stores, ReadPcs
<1>2. ReadStep(w, worker[w], worker'[w])
  BY GetMappingReads, GetImpuReads, GetRemoteImpuReads DEF Reading
<1> QED BY <1>1, <1>2

-----------------------------------------------------------------------------
(* Every step keeps to one subscriber.                                     *)

\* What a handler makes of a record it found is for the same default IMPU, even
\* if the HSS sent another document (OneDefault).
LEMMA HitOwn ==
  ASSUME OneDefault, NEW x \in WorkerStates, x.req \in Requests, Keeps(x),
         x.pc \in ReadPcs, NEW t \in Stores, NEW entry \in ImpuEntries,
         OwnRecord(x.read.key, entry.rec), is_default_impu(entry.rec),
         x.pc \in {"get", "getRemote"} \/ has_associated_impu(entry.rec, x.read.asked),
         NEW i \in PutSets(x.req, FromImpu(x.read.key, t, entry))
  PROVE  /\ Puttable(x, i) /\ i.default = x.read.key /\ i.existing
         /\ From(FromImpu(x.read.key, t, entry), i)
<1> DEFINE k == x.read.key
           a == x.read.asked
           r == x.req
           rec == entry.rec
           j == FromImpu(k, t, entry)
<1>1. k \in Keys /\ r \in Requests /\ r.impu \in Impus
  BY CacheAssumption DEF WorkerStates, Reads
<1>2. rec \in DefaultImpus
  BY EntryKinds
<1>3. /\ x.pc \in {"get", "getRemote"} => k = a
      /\ r.kind = "REG" => a = r.impu
  BY DEF Keeps
<1>4. j \in ImplicitRegSets
  BY <1>1, <1>2, EntryKinds, FromImpuType
<1>5. OwnSet(j) /\ j.default = k /\ j.existing /\ j.xml # NoProfile
  BY SMTT(30), <1>1, <1>2, FromImpuOwn
<1> HIDE DEF j
<1>6. /\ From(j, i)
      /\ r.kind # "REG" => i.default = j.default
      /\ r.kind = "REG" => i.xml \in HssDocuments(r.impu) /\ i.default = get_default_id(i.xml)
  BY <1>1, <1>4, PutSetsFields DEF j
<1>7. i.default = k
  <2>1. CASE r.kind # "REG"
    BY <1>5, <1>6, <2>1
  <2>2. CASE r.kind = "REG"
    <3>1. i.xml \in Profiles /\ a \in get_public_ids(i.xml) /\ a \in Impus
      BY <1>1, <1>3, <1>6, <2>2 DEF HssDocuments
    <3>2. a \in Owned(k)
      <4>1. CASE x.pc \in {"get", "getRemote"}
        <5>1. rec.xml \in Profiles /\ get_default_id(rec.xml) = k
          BY DEF OwnRecord
        <5>2. k \in Impus
          BY <1>3, <3>1, <4>1
        <5> QED BY <1>3, <4>1, <5>1, <5>2, DocumentOwned
      <4>2. CASE has_associated_impu(rec, a)
        BY <4>2 DEF has_associated_impu, OwnRecord
      <4> QED BY <4>1, <4>2
    <3> QED BY <1>6, <2>2, <3>1, <3>2, OneOwner
  <2> QED BY <2>1, <2>2
<1>8. OwnSet(i)
  BY <1>4, <1>5, <1>6, <1>7, FromOwn
<1>9. i.existing
  BY <1>5, <1>6 DEF From
<1> QED BY <1>6, <1>7, <1>8, <1>9 DEF Puttable, j

\* So is a new set.
LEMMA MissOwn ==
  ASSUME NEW x, x.req \in Requests, NEW i \in NewSets(x.req)
  PROVE  Puttable(x, i) /\ ~i.existing
<1>1. /\ From(NewSet, i) /\ x.req.kind \in {"REG", "CALL"}
      /\ i.xml \in HssDocuments(x.req.impu) /\ i.default = get_default_id(i.xml)
      /\ i.impus = Relisted(NewSet.impus, i.xml)
  BY NewSetsFields
<1>2. i.xml \in Profiles
  BY <1>1 DEF HssDocuments
<1>3. OwnSet(i)
  BY <1>1, <1>2, NewOwn
<1>4. ~i.existing
  BY <1>1 DEF From, NewSet
<1> QED BY <1>1, <1>3, <1>4 DEF Puttable, Deleting

\* Reading.
LEMMA ReadKeeps ==
  ASSUME OneDefault, NEW w, NEW x \in WorkerStates, x.req \in Requests, Keeps(x),
         x.pc \in ReadPcs \cup {"getMapping"},
         \A s \in Stores, k \in Keys : OwnRecord(k, impu[s][k].rec),
         NEW y, ReadStep(w, x, y)
  PROVE  Keeps(y)
<1> DEFINE k == x.read.key
<1>1. k \in Keys
  BY DEF WorkerStates, Reads
<1>2. OwnRecord(k, AbsentImpu.rec) /\ \A l : OwnRecord(l, AbsentImpu.rec)
  BY DEF OwnRecord, AbsentImpu, NoRecord, is_default_impu
<1>3. x.pc \in ReadPcs =>
        /\ x.pc \in {"get", "getRemote"} => k = x.read.asked
        /\ x.req.kind \in {"REG", "CALL"} => x.read.asked = x.req.impu /\ x.read.queue = {}
        /\ \A s \in Stores : OwnRecord(k, x.read.answers[s].rec)
  BY DEF Keeps
<1>4. ASSUME y.pc \in ReadPcs,
             y.pc \in {"get", "getRemote"} => y.read.key = y.read.asked,
             y.req.kind \in {"REG", "CALL"} =>
               y.read.asked = y.req.impu /\ y.read.queue = {},
             \A s \in Stores : OwnRecord(y.read.key, y.read.answers[s].rec)
      PROVE  Keeps(y)
  <2>1. /\ y.pc \notin PutPcs /\ y.pc \notin RecordPcs /\ y.pc \notin ReferencePcs
        /\ y.pc # "set" /\ y.pc # "delete"
    BY <1>4, PcKinds
  <2> QED BY <1>4, <2>1 DEF Keeps, ReadPcs
<1>5. CASE y.pc = "idle"
  BY <1>5, IdleKeeps
<1>6. CASE x.pc = "getMapping" /\ y.pc = "getMapping" /\ y.req = x.req
  BY <1>6, IdleKeeps DEF Keeps
<1>7. CASE Restarts(x, y)
  <2>1. y.pc = "get" /\ y.req = x.req /\ y.read.key = y.read.asked
        /\ \A s \in Stores : y.read.answers[s] = AbsentImpu
    BY <1>7 DEF Restarts
  <2>2. y.req.kind \notin {"REG", "CALL"}
    BY <1>3, <1>7, <2>1 DEF Restarts, Keeps
  <2> QED BY <1>2, <1>4, <2>1, <2>2 DEF ReadPcs
<1>8. CASE x.pc \in ReadPcs /\ Waits(w, x, y)
  <2>1. /\ y.pc = IF x.pc \in {"get", "getRemote"} THEN "getRemote" ELSE "followRemote"
        /\ y.req = x.req /\ y.read.asked = x.read.asked
        /\ y.read.key = k /\ y.read.queue = x.read.queue
    BY <1>8 DEF Waits
  <2>2. \A s \in Stores : OwnRecord(k, y.read.answers[s].rec)
    <3> TAKE s \in Stores
    <3>1. \/ y.read.answers[s] = x.read.answers[s]
          \/ y.read.answers[s] = impu[s][k]
          \/ y.read.answers[s] = AbsentImpu
      BY <1>8 DEF Waits
    <3> QED BY <1>1, <1>2, <1>3, <1>8, <3>1
  <2> QED BY <1>3, <1>4, <1>8, <2>1, <2>2 DEF ReadPcs
<1>9. CASE x.pc \in ReadPcs /\ Misses(w, x, y)
  BY <1>9, MissOwn, TurnsKeeps DEF Misses
<1>10. ASSUME NEW t \in Stores, NEW entry \in ImpuEntries, x.pc \in ReadPcs,
              Source(w, x, t, entry), Follows(x, entry, y)
       PROVE  Keeps(y)
  <2>1. /\ y.pc = "follow" /\ y.req = x.req /\ y.read.asked = x.read.asked
        /\ y.read.queue = x.read.queue
        /\ \A s \in Stores : y.read.answers[s] = AbsentImpu
    BY <1>10 DEF Follows
  <2> QED BY <1>2, <1>3, <1>4, <1>10, <2>1 DEF ReadPcs
<1>11. ASSUME NEW t \in Stores, NEW entry \in ImpuEntries, x.pc \in ReadPcs,
              Source(w, x, t, entry), Hits(w, x, t, entry, y)
       PROVE  Keeps(y)
  <2>1. OwnRecord(k, entry.rec)
    BY <1>1, <1>3, <1>11 DEF Source, ReadPcs
  <2>2. PICK i \in PutSets(x.req, FromImpu(k, t, entry)) : TurnsTo(w, x, i, 1, y)
    BY <1>11 DEF Hits
  <2>3. Puttable(x, i)
    BY <1>11, <2>1, HitOwn DEF Hits
  <2> QED BY <2>2, <2>3, TurnsKeeps
<1> QED BY <1>5, <1>6, <1>7, <1>8, <1>9, <1>10, <1>11 DEF ReadStep

-----------------------------------------------------------------------------
(* The steps of a worker that writes a record.                             *)

\* The entry of the IRS of state x where worker w is, and its changes.
OwnEntry(w, x) == impu[Sites[w][x.site]][x.irs.default]
Writes(w, x) == WriteImpu(Sites[w][x.site], x.irs.default, create_impu(x.irs))
Removes(w, x) == RemoveImpu(Sites[w][x.site], x.irs.default)

\* The record is done, the worker tries (again), or it gives up.
Finishes(w, x, y) ==
  /\ TurnsFromRecord(w, x, y)
  /\ \/ x.pc = "create" /\ Writes(w, x)
     \/ /\ x.pc = "create" /\ UNCHANGED stores
        /\ IsPresent(OwnEntry(w, x)) /\ create_impu(x.irs).reg # "REGISTERED"
     \/ x.pc = "set" /\ Writes(w, x) /\ SetAllowed(OwnEntry(w, x), x.cas)
     \/ x.pc = "delete" /\ Removes(w, x)
     \/ /\ x.pc = "getStored" /\ Deleting(x) /\ UNCHANGED stores
        /\ ~IsPresent(OwnEntry(w, x)) \/ Fails

Retries(w, x, y) ==
  /\ UNCHANGED stores
  /\ y.req = x.req /\ y.site = x.site /\ y.told = x.told /\ y.status = x.status
  /\ \/ /\ x.pc = "set" /\ ~SetAllowed(OwnEntry(w, x), x.cas)
        /\ y.pc = "getStored" /\ y.irs = x.irs
     \/ /\ x.pc = "getStored" /\ y.pc = IF Deleting(x) THEN "delete" ELSE "set"
        /\ \/ /\ ~IsPresent(OwnEntry(w, x)) \/ Fails
              /\ y.irs = x.irs /\ y.cas = 0
           \/ /\ IsPresent(OwnEntry(w, x)) /\ ~is_default_impu(OwnEntry(w, x).rec)
              /\ y.irs = x.irs /\ y.cas = OwnEntry(w, x).cas
           \/ /\ IsPresent(OwnEntry(w, x)) /\ is_default_impu(OwnEntry(w, x).rec)
              /\ y.irs = update_from_impu_from_store(x.irs, OwnEntry(w, x).rec)
              /\ y.cas = OwnEntry(w, x).cas

Abandons(w, x, y) ==
  /\ GivesUp(w, x, y)
  /\ UNCHANGED stores \/ Writes(w, x) \/ Removes(w, x)
  /\ \/ Fails
     \/ /\ x.pc = "getStored" /\ IsPresent(OwnEntry(w, x))
        /\ ~is_default_impu(OwnEntry(w, x).rec)

RecordStep(w, x, y) == Finishes(w, x, y) \/ Retries(w, x, y) \/ Abandons(w, x, y)

\* These are the steps of create_irs_impu and perform_irs_impu_action.
LEMMA WritingSteps ==
  ASSUME Inv, NEW w \in Workers, WritingRecord(w)
  PROVE  RecordStep(w, worker[w], worker'[w]) /\ worker[w].pc \in RecordPcs
<1> DEFINE x == worker[w]
           s == Sites[w][x.site]
           d == x.irs.default
           y == worker'[w]
<1>1. x \in WorkerStates /\ TypeOK /\ Store(w) = s
  BY WorkerSound
<1>2. Become(w, RecordDone(w, x)) => TurnsFromRecord(w, x, y)
  <2>1. TurnsFromRecord(w, x, RecordDone(w, x))
    BY <1>1, RecordDoneTurns
  <2> QED BY <1>1, <2>1, BecomeMeans
<1>3. Become(w, Left(w, x, FALSE)) => GivesUp(w, x, y)
  <2>1. GivesUp(w, x, Left(w, x, FALSE))
    BY <1>1, LeftLeaves
  <2> QED BY <1>1, <2>1, BecomeMeans
<1>4. CASE CreateImpu(w)
  <2>1. /\ x.pc = "create"
        /\ \/ Writes(w, x) /\ Become(w, RecordDone(w, x))
           \/ /\ create_impu(x.irs).reg # "REGISTERED" /\ ~SetAllowed(OwnEntry(w, x), 0)
              /\ UNCHANGED stores /\ Become(w, RecordDone(w, x))
           \/ /\ Fails /\ (Writes(w, x) \/ UNCHANGED stores)
              /\ Become(w, Left(w, x, FALSE))
    BY <1>1, <1>4 DEF CreateImpu, Writes, OwnEntry
  <2>2. ~SetAllowed(OwnEntry(w, x), 0) => IsPresent(OwnEntry(w, x))
    BY DEF SetAllowed, IsPresent
  <2> QED BY <1>2, <1>3, <2>1, <2>2 DEF RecordStep, Finishes, Abandons, RecordPcs
<1>5. CASE SetImpu(w)
  <2> DEFINE z == [x EXCEPT !.pc = "getStored"]
  <2>1. /\ x.pc = "set"
        /\ \/ /\ Writes(w, x) /\ SetAllowed(OwnEntry(w, x), x.cas)
              /\ Become(w, RecordDone(w, x))
           \/ ~SetAllowed(OwnEntry(w, x), x.cas) /\ UNCHANGED stores /\ Become(w, z)
           \/ /\ Fails /\ (Writes(w, x) \/ UNCHANGED stores)
              /\ Become(w, Left(w, x, FALSE))
    BY <1>1, <1>5 DEF SetImpu, Writes, OwnEntry
  <2>2. /\ z.pc = "getStored" /\ z.irs = x.irs /\ z.req = x.req /\ z.site = x.site
        /\ z.told = x.told /\ z.status = x.status
    BY <1>1 DEF WorkerStates
  <2>3. Become(w, z) => y = z
    BY <1>1, BecomeMeans
  <2> HIDE DEF z, x, y
  <2>4. CASE ~SetAllowed(OwnEntry(w, x), x.cas) /\ UNCHANGED stores /\ Become(w, z)
    <3>1. y = z
      BY <2>3, <2>4
    <3>2. Retries(w, x, y)
      BY <2>1, <2>2, <2>4, <3>1 DEF Retries
    <3> QED BY <2>1, <3>2 DEF RecordStep, RecordPcs, x, y
  <2> QED BY <1>2, <1>3, <2>1, <2>4 DEF RecordStep, Finishes, Abandons, RecordPcs, x, y
<1>6. CASE DeleteImpu(w)
  <2>1. /\ x.pc = "delete"
        /\ \/ Removes(w, x) /\ Become(w, RecordDone(w, x))
           \/ Fails /\ (Removes(w, x) \/ UNCHANGED stores) /\ Become(w, Left(w, x, FALSE))
    BY <1>1, <1>6 DEF DeleteImpu, Removes
  <2> QED BY <1>2, <1>3, <2>1 DEF RecordStep, Finishes, Abandons, RecordPcs
<1>7. CASE GetStored(w)
  <2> DEFINE entry == OwnEntry(w, x)
             pc == IF Deleting(x) THEN "delete" ELSE "set"
             z(i, c) == [x EXCEPT !.pc = pc, !.irs = i, !.cas = c]
             merged == update_from_impu_from_store(x.irs, entry.rec)
  <2>1. /\ x.pc = "getStored" /\ UNCHANGED stores
        /\ \/ /\ ~IsPresent(entry) \/ Fails
              /\ \/ Deleting(x) /\ Become(w, RecordDone(w, x))
                 \/ Become(w, z(x.irs, 0))
           \/ /\ IsPresent(entry) /\ is_default_impu(entry.rec)
              /\ Become(w, z(merged, entry.cas))
           \/ /\ IsPresent(entry) /\ ~is_default_impu(entry.rec)
              /\ Become(w, z(x.irs, entry.cas)) \/ Become(w, Left(w, x, FALSE))
    BY <1>1, <1>7 DEF GetStored, OwnEntry
  <2>2. \A i, c : /\ z(i, c).pc = pc /\ z(i, c).irs = i /\ z(i, c).cas = c
                  /\ z(i, c).req = x.req /\ z(i, c).site = x.site
                  /\ z(i, c).told = x.told /\ z(i, c).status = x.status
    BY <1>1 DEF WorkerStates
  <2>3. \A i, c : Become(w, z(i, c)) =>
          /\ y.pc = pc /\ y.irs = i /\ y.cas = c
          /\ y.req = x.req /\ y.site = x.site /\ y.told = x.told /\ y.status = x.status
    <3> TAKE i, c
    <3>1. Become(w, z(i, c)) => y = z(i, c)
      BY <1>1, BecomeMeans
    <3> HIDE DEF z, x, y
    <3> QED BY SMTT(30), <2>2, <3>1
  <2> HIDE DEF z, x, y, merged
  <2>4. \A i, c : Become(w, z(i, c)) /\
          (\/ (~IsPresent(entry) \/ Fails) /\ i = x.irs /\ c = 0
           \/ /\ IsPresent(entry) /\ ~is_default_impu(entry.rec)
              /\ i = x.irs /\ c = entry.cas
           \/ /\ IsPresent(entry) /\ is_default_impu(entry.rec)
              /\ i = merged /\ c = entry.cas)
          => Retries(w, x, y)
    BY <2>1, <2>3 DEF Retries, merged
  <2>5. x.pc \in RecordPcs
    BY <2>1 DEF RecordPcs
  <2> QED BY <1>2, <1>3, <2>1, <2>4, <2>5 DEF RecordStep, Finishes, Abandons, x, y
<1> QED BY <1>4, <1>5, <1>6, <1>7 DEF WritingRecord

-----------------------------------------------------------------------------
(* The steps of a worker that updates references.                          *)

\* Worker w, in state x, turns from ref or goes on with it; only the entry of
\* ref changes in the "impu" table.
Handles(w, x, ref, y) ==
  \/ \E st : TurnsFrom(w, x, ref, st, y)
  \/ \E pc \in LoopPcs : \E m, st : GoesOn(x, ref, pc, m, st, y)

Touches(s, ref) ==
  \/ UNCHANGED impu
  \/ /\ ref \in AssocReferences
     /\ \E e : /\ ~is_default_impu(e.rec)
               /\ impu' = [impu EXCEPT ![s][ref[2]] = e]

ReferenceStep(w, x, y) ==
  \E ref \in x.todo : Handles(w, x, ref, y) /\ Touches(Sites[w][x.site], ref)

\* The two ways to leave a call of update_irs_associated_impus and
\* update_irs_impi_mappings.
LEMMA HandlesMeans ==
  ASSUME Inv, NEW w \in Workers
  PROVE  /\ \A ref, st : Become(w, ReferenceDone(w, worker[w], ref, st)) =>
              TurnsFrom(w, worker[w], ref, st, worker'[w])
         /\ \A ref, pc, m, st : Become(w, Continued(worker[w], ref, pc, m, st)) =>
              GoesOn(worker[w], ref, pc, m, st, worker'[w])
<1>1. worker[w] \in WorkerStates /\ TypeOK
  BY WorkerSound
<1>2. ASSUME NEW ref, NEW st, Become(w, ReferenceDone(w, worker[w], ref, st))
      PROVE  TurnsFrom(w, worker[w], ref, st, worker'[w])
  <2>1. TurnsFrom(w, worker[w], ref, st, ReferenceDone(w, worker[w], ref, st))
    BY <1>1, ReferenceDoneTurns
  <2> QED BY <1>1, <1>2, <2>1, BecomeMeans
<1>3. ASSUME NEW ref, NEW pc, NEW m, NEW st,
             Become(w, Continued(worker[w], ref, pc, m, st))
      PROVE  GoesOn(worker[w], ref, pc, m, st, worker'[w])
  <2>1. GoesOn(worker[w], ref, pc, m, st, Continued(worker[w], ref, pc, m, st))
    BY <1>1, ContinuedGoesOn
  <2> QED BY <1>1, <1>3, <2>1, BecomeMeans
<1> QED BY <1>2, <1>3

\* Where a worker is when it works on a reference.
LEMMA LoopingReference ==
  ASSUME NEW x, Keeps(x), NEW ref, NEW pc \in LoopPcs,
         Looping(x, ref, pc) \/ IsNext(x, ref) \/ (x.pc = pc /\ ref = x.item)
  PROVE  x.pc \in ReferencePcs /\ ref \in x.todo
<1>1. CASE IsNext(x, ref)
  BY <1>1, PcGroups DEF IsNext
<1>2. CASE x.pc = pc /\ x.item = ref
  <2>1. x.pc \in ReferencePcs \ {"work"}
    BY <1>2, PcGroups DEF LoopPcs, DeletePcs, RefreshPcs, AddPcs
  <2> QED BY <1>2, <2>1 DEF Keeps
<1> QED BY <1>1, <1>2 DEF Looping

\* Writes and removals of references.
LEMMA TouchesMeans ==
  ASSUME NEW s, NEW ref, NEW d, NEW p, NEW impus
  PROVE  /\ UNCHANGED stores \/ WriteMapping(s, p, impus) \/ RemoveMapping(s, p)
            => Touches(s, ref)
         /\ /\ ref \in AssocReferences
            /\ RemoveImpu(s, ref[2]) \/ WriteImpu(s, ref[2], AssociatedImpu(d))
            => Touches(s, ref)
<1>1. ~is_default_impu(AbsentImpu.rec) /\ ~is_default_impu(AssociatedImpu(d))
  BY DEF is_default_impu, AbsentImpu, NoRecord, AssociatedImpu
<1>2. [cas |-> lastCas[s] + 1, rec |-> AssociatedImpu(d)].rec = AssociatedImpu(d)
  OBVIOUS
<1>3. UNCHANGED stores \/ WriteMapping(s, p, impus) \/ RemoveMapping(s, p) => Touches(s, ref)
  BY DEF Touches, stores, WriteMapping, RemoveMapping
<1>4. ASSUME ref \in AssocReferences,
             RemoveImpu(s, ref[2]) \/ WriteImpu(s, ref[2], AssociatedImpu(d))
      PROVE  Touches(s, ref)
  BY <1>1, <1>2, <1>4 DEF Touches, RemoveImpu, WriteImpu
<1> QED BY <1>3, <1>4

\* set_impi_mapping.
LEMMA SetMappingHandles ==
  ASSUME Inv, NEW w \in Workers, NEW ref, NEW m, NEW retry \in LoopPcs,
         SetMapping(w, ref, m, retry)
  PROVE  Handles(w, worker[w], ref, worker'[w]) /\ Touches(Store(w), ref)
<1> DEFINE x == worker[w]
<1>1. \/ Become(w, ReferenceDone(w, x, ref, "OK"))
      \/ Become(w, ReferenceDone(w, x, ref, "ERROR"))
      \/ Become(w, Continued(x, ref, retry, m, "DATA_CONTENTION"))
  BY DEF SetMapping
<1>2. UNCHANGED stores \/ WriteMapping(Store(w), ref[2], m.impus)
  BY DEF SetMapping
<1> QED BY <1>1, <1>2, HandlesMeans, TouchesMeans DEF Handles

\* The steps of update_irs_associated_impus and update_irs_impi_mappings.
LEMMA UpdatingSteps ==
  ASSUME Inv, NEW w \in Workers, Keeps(worker[w]), UpdatingReferences(w)
  PROVE  ReferenceStep(w, worker[w], worker'[w]) /\ worker[w].pc \in ReferencePcs
<1> DEFINE x == worker[w]
           y == worker'[w]
<1>1. x \in WorkerStates /\ TypeOK /\ Store(w) = Sites[w][x.site] /\ Coherent(w, x)
  BY WorkerSound
<1>2. /\ {"assocDelete", "mapDeleteGet", "mapDelete", "mapRefreshGet", "mapRefresh",
           "mapAddGet", "mapAdd"} \subseteq LoopPcs
      /\ {"assocDelete", "assocRefresh", "assocAdd"} \subseteq AssocPhases
  BY PhasesMeaning DEF LoopPcs, DeletePcs, RefreshPcs, AddPcs
<1>3. ASSUME NEW ref, Handles(w, x, ref, y), Touches(Store(w), ref),
             x.pc \in ReferencePcs, ref \in x.todo
      PROVE  ReferenceStep(w, x, y) /\ x.pc \in ReferencePcs
  BY <1>1, <1>3 DEF ReferenceStep
<1>4. ASSUME NEW ref \in References, GetAssociated(w, ref)
      PROVE  ReferenceStep(w, x, y) /\ x.pc \in ReferencePcs
  <2>1. IsNext(x, ref) /\ UNCHANGED stores
    BY <1>4 DEF GetAssociated
  <2>2. \/ Become(w, Continued(x, ref, "assocDelete", x.mp, x.status))
        \/ Become(w, ReferenceDone(w, x, ref, x.status))
    BY <1>4 DEF GetAssociated
  <2>3. Handles(w, x, ref, y) /\ Touches(Store(w), ref)
    BY <1>2, <2>1, <2>2, HandlesMeans, TouchesMeans DEF Handles
  <2> QED BY <1>2, <1>3, <2>1, <2>3, LoopingReference
<1>5. ASSUME NEW ref \in References, SetAssociated(w, ref)
      PROVE  ReferenceStep(w, x, y) /\ x.pc \in ReferencePcs
  <2>1. /\ IsNext(x, ref) /\ ref[1] \in {"assocRefresh", "assocAdd"}
        /\ Become(w, ReferenceDone(w, x, ref, x.status))
        /\ \/ WriteImpu(Store(w), ref[2], AssociatedImpu(x.irs.default))
           \/ UNCHANGED stores
    BY <1>5 DEF SetAssociated
  <2>2. ref \in AssocReferences
    BY <1>2, <2>1, PhasesMeaning DEF References, AssocReferences
  <2>3. Handles(w, x, ref, y) /\ Touches(Store(w), ref)
    BY <2>1, <2>2, HandlesMeans, TouchesMeans DEF Handles
  <2> QED BY <1>2, <1>3, <2>1, <2>3, LoopingReference
<1>6. ASSUME NEW ref \in References, GetMappingToDelete(w, ref)
      PROVE  ReferenceStep(w, x, y) /\ x.pc \in ReferencePcs
  <2> DEFINE m == [mapping[Store(w)][ref[2]] EXCEPT !.impus = @ \ {x.irs.default}]
  <2>1. Looping(x, ref, "mapDeleteGet") /\ UNCHANGED stores
    BY <1>6 DEF GetMappingToDelete
  <2>2. \/ Become(w, Continued(x, ref, "mapDelete", m, x.status))
        \/ Become(w, Continued(x, ref, "mapDeleteGet", AbsentMapping, x.status))
        \/ Become(w, ReferenceDone(w, x, ref, x.status))
    BY <1>6 DEF GetMappingToDelete
  <2> HIDE DEF m
  <2>3. Handles(w, x, ref, y) /\ Touches(Store(w), ref)
    BY <1>2, <2>1, <2>2, HandlesMeans, TouchesMeans DEF Handles
  <2> QED BY <1>2, <1>3, <2>1, <2>3, LoopingReference
<1>7. ASSUME NEW ref \in References, GetMappingToRefresh(w, ref)
      PROVE  ReferenceStep(w, x, y) /\ x.pc \in ReferencePcs
  <2> DEFINE m(e) == [e EXCEPT !.impus = @ \cup {x.irs.default}]
  <2>1. Looping(x, ref, "mapRefreshGet") /\ UNCHANGED stores
    BY <1>7 DEF GetMappingToRefresh
  <2>2. \E e : Become(w, Continued(x, ref, "mapRefresh", m(e), x.status))
    BY <1>7 DEF GetMappingToRefresh
  <2> HIDE DEF m
  <2>3. Handles(w, x, ref, y) /\ Touches(Store(w), ref)
    BY <1>2, <2>1, <2>2, HandlesMeans, TouchesMeans DEF Handles
  <2> QED BY <1>2, <1>3, <2>1, <2>3, LoopingReference
<1>8. ASSUME NEW ref \in References, AddMapping(w, ref)
      PROVE  ReferenceStep(w, x, y) /\ x.pc \in ReferencePcs
  <2>1. Looping(x, ref, "mapAdd") /\ \E m : SetMapping(w, ref, m, "mapAddGet")
    BY <1>8 DEF AddMapping
  <2>2. Handles(w, x, ref, y) /\ Touches(Store(w), ref)
    BY <1>2, <2>1, SetMappingHandles
  <2> QED BY <1>2, <1>3, <2>1, <2>2, LoopingReference
<1>9. CASE DeleteAssociated(w)
  <2>1. /\ x.pc = "assocDelete"
        /\ RemoveImpu(Store(w), x.item[2]) \/ UNCHANGED stores
        /\ \/ Become(w, ReferenceDone(w, x, x.item, "OK"))
           \/ Become(w, ReferenceDone(w, x, x.item, "ERROR"))
    BY <1>9 DEF DeleteAssociated
  <2>2. x.item \in AssocReferences
    BY <1>1, <1>2, <2>1 DEF Coherent, AssocReferences
  <2>3. Handles(w, x, x.item, y) /\ Touches(Store(w), x.item)
    BY <2>1, <2>2, HandlesMeans, TouchesMeans DEF Handles
  <2> QED BY <1>2, <1>3, <2>1, <2>3, LoopingReference
<1>10. CASE DeleteMapping(w)
  <2>1. /\ x.pc = "mapDelete"
        /\ \/ SetMapping(w, x.item, x.mp, "mapDeleteGet")
           \/ /\ RemoveMapping(Store(w), x.item[2]) \/ UNCHANGED stores
              /\ \/ Become(w, ReferenceDone(w, x, x.item, "OK"))
                 \/ Become(w, ReferenceDone(w, x, x.item, "ERROR"))
    BY <1>10 DEF DeleteMapping
  <2>2. Handles(w, x, x.item, y) /\ Touches(Store(w), x.item)
    BY <1>2, <2>1, HandlesMeans, TouchesMeans, SetMappingHandles DEF Handles
  <2> QED BY <1>2, <1>3, <2>1, <2>2, LoopingReference
<1>11. CASE RefreshMapping(w)
  <2>1. x.pc = "mapRefresh" /\ SetMapping(w, x.item, x.mp, "mapRefreshGet")
    BY <1>11 DEF RefreshMapping
  <2>2. Handles(w, x, x.item, y) /\ Touches(Store(w), x.item)
    BY <1>2, <2>1, SetMappingHandles
  <2> QED BY <1>2, <1>3, <2>1, <2>2, LoopingReference
<1>12. CASE GetMappingToAdd(w)
  <2> DEFINE m == [mapping[Store(w)][x.item[2]] EXCEPT !.impus = @ \cup {x.irs.default}]
             z == [x EXCEPT !.pc = "mapAdd"]
  <2>1. z = Continued(x, x.item, "mapAdd", x.mp, x.status)
    BY <1>1 DEF Continued, WorkerStates
  <2>2. /\ x.pc = "mapAddGet" /\ UNCHANGED stores
        /\ \/ Become(w, ReferenceDone(w, x, x.item, "OK"))
           \/ Become(w, Continued(x, x.item, "mapAdd", m, x.status))
           \/ Become(w, z)
           \/ Become(w, ReferenceDone(w, x, x.item, "ERROR"))
    BY <1>12 DEF GetMappingToAdd
  <2> HIDE DEF m, z
  <2>3. Handles(w, x, x.item, y) /\ Touches(Store(w), x.item)
    BY <1>2, <2>1, <2>2, HandlesMeans, TouchesMeans DEF Handles
  <2> QED BY <1>2, <1>3, <2>2, <2>3, LoopingReference
<1> QED BY <1>4, <1>5, <1>6, <1>7, <1>8, <1>9, <1>10, <1>11, <1>12
           DEF UpdatingReferences

-----------------------------------------------------------------------------
(* Records and workers keep to one subscriber.                             *)

\* Writing a record.
LEMMA RecordKeeps ==
  ASSUME NEW w, NEW x \in WorkerStates, Keeps(x), x.pc \in RecordPcs,
         OwnEntry(w, x) \in ImpuEntries, OwnRecord(x.irs.default, OwnEntry(w, x).rec),
         NEW y, RecordStep(w, x, y)
  PROVE  Keeps(y)
<1>1. x.irs \in ImplicitRegSets
  BY DEF WorkerStates
<1>2. /\ Puttable(x, x.irs) /\ OwnSet(x.irs)
      /\ (x.pc = "create" <=> ~x.irs.existing)
  BY PcKinds DEF Keeps, Puttable
<1>3. CASE Finishes(w, x, y)
  BY <1>2, <1>3, TurnsFromRecordKeeps DEF Finishes
<1>4. CASE Abandons(w, x, y)
  BY <1>2, <1>4, LeavesKeeps DEF Abandons
<1>5. CASE Retries(w, x, y)
  <2>1. /\ y.req = x.req /\ y.pc # "create" /\ x.pc # "create"
        /\ \/ y.pc = "getStored"
           \/ y.pc = IF Deleting(x) THEN "delete" ELSE "set"
    BY <1>5 DEF Retries
  <2>2. OwnSet(y.irs) /\ y.irs.existing = x.irs.existing
    <3>1. \/ y.irs = x.irs
          \/ /\ is_default_impu(OwnEntry(w, x).rec)
             /\ y.irs = update_from_impu_from_store(x.irs, OwnEntry(w, x).rec)
      BY <1>5 DEF Retries
    <3>2. is_default_impu(OwnEntry(w, x).rec) => OwnEntry(w, x).rec \in DefaultImpus
      BY EntryKinds
    <3> QED BY <1>1, <1>2, <3>1, <3>2, UpdateOwn
  <2>3. Deleting(y) <=> Deleting(x)
    BY <2>1 DEF Deleting
  <2>4. y.pc \in RecordPcs /\ (y.pc = "set" => ~Deleting(x)) /\ (y.pc = "delete" => Deleting(x))
    BY <2>1 DEF RecordPcs
  <2>5. y.pc \in PutPcs /\ y.pc \notin ReferencePcs /\ y.pc \notin ReadPcs
        /\ y.pc # "getMapping"
    BY <2>4, PcKinds
  <2> QED BY <1>2, <2>1, <2>2, <2>3, <2>4, <2>5 DEF Keeps
<1> QED BY <1>3, <1>4, <1>5 DEF RecordStep

\* What a step of a worker that writes a record does to the records.
LEMMA RecordChange ==
  ASSUME TypeOK, NEW w, NEW x, NEW y, RecordStep(w, x, y)
  PROVE  \/ UNCHANGED impu
         \/ \E e : /\ e.rec = create_impu(x.irs) \/ e = AbsentImpu
                   /\ impu' = [impu EXCEPT ![Sites[w][x.site]][x.irs.default] = e]
<1>1. UNCHANGED stores \/ Writes(w, x) \/ Removes(w, x)
  BY DEF RecordStep, Finishes, Retries, Abandons
<1>2. CASE UNCHANGED stores
  BY <1>2 DEF stores
<1>3. CASE Writes(w, x)
  <2> DEFINE e == [cas |-> lastCas[Sites[w][x.site]] + 1, rec |-> create_impu(x.irs)]
  <2>1. e.rec = create_impu(x.irs)
    OBVIOUS
  <2>2. impu' = [impu EXCEPT ![Sites[w][x.site]][x.irs.default] = e]
    BY <1>3 DEF Writes, WriteImpu
  <2> QED BY <2>1, <2>2
<1>4. CASE Removes(w, x)
  BY <1>4 DEF Removes, RemoveImpu
<1> QED BY <1>1, <1>2, <1>3, <1>4

\* A worker's own steps.
LEMMA WorkOwn ==
  ASSUME Inv, OneDefault, OwnInv, NEW w \in Workers, Work(w)
  PROVE  /\ Keeps(worker'[w])
         /\ \A s \in Stores, k \in Keys : OwnRecord(k, impu'[s][k].rec)
<1> DEFINE x == worker[w]
           s == Sites[w][x.site]
           d == x.irs.default
<1>1. /\ TypeOK /\ x \in WorkerStates /\ x.irs \in ImplicitRegSets
      /\ s \in Stores /\ d \in Keys /\ Coherent(w, x)
  BY WorkerSound
<1>2. /\ \A t \in Stores, k \in Keys : OwnRecord(k, impu[t][k].rec)
      /\ Keeps(x)
  BY DEF OwnInv
<1>3. ASSUME NEW k \in Keys, NEW e, OwnRecord(k, e.rec),
             impu' = [impu EXCEPT ![s][k] = e]
      PROVE  \A t \in Stores, l \in Keys : OwnRecord(l, impu'[t][l].rec)
  <2>1. /\ impu'[s][k] = e
        /\ \A t \in Stores, l \in Keys : t # s \/ l # k => impu'[t][l] = impu[t][l]
    BY <1>1, <1>3 DEF TypeOK
  <2> QED BY <1>2, <1>3, <2>1
<1>4. CASE Reading(w)
  <2>1. /\ ReadStep(w, x, worker'[w]) /\ UNCHANGED impu
        /\ x.pc \in ReadPcs \cup {"getMapping"}
    BY <1>4, ReadingSteps
  <2>2. x.req \in Requests
    BY <1>1, <2>1 DEF Coherent, ReadPcs
  <2>3. Keeps(worker'[w])
    BY <1>1, <1>2, <2>1, <2>2, ReadKeeps
  <2> QED BY <1>2, <2>1, <2>3
<1>5. CASE WritingRecord(w)
  <2>1. RecordStep(w, x, worker'[w]) /\ x.pc \in RecordPcs
    BY <1>5, WritingSteps
  <2>2. OwnEntry(w, x) \in ImpuEntries /\ OwnRecord(d, OwnEntry(w, x).rec)
    BY <1>1, <1>2 DEF OwnEntry, TypeOK
  <2>3. Keeps(worker'[w])
    BY <1>1, <1>2, <2>1, <2>2, RecordKeeps
  <2>4. \/ UNCHANGED impu
        \/ \E e : /\ e.rec = create_impu(x.irs) \/ e = AbsentImpu
                  /\ impu' = [impu EXCEPT ![s][d] = e]
    BY <1>1, <2>1, RecordChange
  <2>5. OwnSet(x.irs)
    BY <1>2, <2>1, PcKinds DEF Keeps
  <2>6. OwnRecord(d, create_impu(x.irs)) /\ OwnRecord(d, AbsentImpu.rec)
    BY <1>1, <2>5, CreateOwn DEF OwnRecord, AbsentImpu, NoRecord, is_default_impu
  <2>7. ASSUME NEW e, e.rec = create_impu(x.irs) \/ e = AbsentImpu
        PROVE  OwnRecord(d, e.rec)
    BY <2>6, <2>7
  <2> QED BY <1>1, <1>2, <1>3, <2>3, <2>4, <2>7
<1>6. CASE UpdatingReferences(w)
  <2>1. ReferenceStep(w, x, worker'[w]) /\ x.pc \in ReferencePcs
    BY <1>2, <1>6, UpdatingSteps
  <2>2. PICK ref \in x.todo : Handles(w, x, ref, worker'[w]) /\ Touches(s, ref)
    BY <2>1 DEF ReferenceStep
  <2>3. Keeps(worker'[w])
    BY <1>2, <2>1, <2>2, TurnsFromKeeps, GoesOnKeeps DEF Handles
  <2>4. ref \in AssocReferences => ref[2] \in Keys
    BY DEF AssocReferences, Keys
  <2>5. \A e : ~is_default_impu(e.rec) => OwnRecord(ref[2], e.rec)
    BY DEF OwnRecord
  <2> QED BY <1>2, <1>3, <2>2, <2>3, <2>4, <2>5 DEF Touches
<1> QED BY <1>4, <1>5, <1>6 DEF Work

\* What a request begins with (Start).
Begins(r, y) ==
  /\ y.req = r /\ y.told = "nothing"
  /\ \/ y.pc = "getMapping" /\ r.kind \in {"RTR", "PPR"}
     \/ /\ y.pc = "get" /\ r.kind \notin {"RTR", "PPR"}
        /\ y.read.asked = r.impu /\ y.read.key = r.impu /\ y.read.queue = {}
        /\ \A s \in Stores : y.read.answers[s] = AbsentImpu

\* Start begins a request in an idle worker, and touches nothing else.
LEMMA StartBegins ==
  ASSUME TypeOK, NEW w \in Workers, NEW r, Start(w, r)
  PROVE  /\ Begins(r, worker'[w]) /\ UNCHANGED <<impu, mapping, lastCas, upsets>>
         /\ \A v \in Workers : v # w => worker'[v] = worker[v]
<1> DEFINE rd == [NoRead EXCEPT !.asked = r.impu, !.key = r.impu]
           y1 == [Idle EXCEPT !.pc = "getMapping", !.req = r]
           y2 == [Idle EXCEPT !.pc = "get", !.req = r, !.read = rd]
<1>1. UNCHANGED <<impu, mapping, lastCas, upsets>>
  BY DEF Start, stores
<1>2. \/ r.kind \in {"RTR", "PPR"} /\ Become(w, y1)
      \/ r.kind \notin {"RTR", "PPR"} /\ Become(w, y2)
  BY DEF Start
<1>3. y1.req = r /\ y1.told = "nothing" /\ y1.pc = "getMapping"
  BY DEF Idle
<1>4. rd.asked = r.impu /\ rd.key = r.impu /\ rd.queue = {}
      /\ \A s \in Stores : rd.answers[s] = AbsentImpu
  BY DEF NoRead
<1> HIDE DEF rd
<1>5. y2.req = r /\ y2.told = "nothing" /\ y2.pc = "get" /\ y2.read = rd
  BY DEF Idle
<1> HIDE DEF y1, y2
<1>6. r.kind \in {"RTR", "PPR"} => Begins(r, y1)
  BY <1>3 DEF Begins
<1>7. r.kind \notin {"RTR", "PPR"} => Begins(r, y2)
  BY <1>4, <1>5 DEF Begins
<1> QED BY <1>1, <1>2, <1>6, <1>7, BecomeMeans

\* A new request is about one subscriber.
LEMMA BeginsKeeps ==
  ASSUME NEW r, NEW y, Begins(r, y)
  PROVE  Keeps(y)
<1>1. CASE y.pc = "getMapping"
  BY <1>1, IdleKeeps DEF Begins
<1>2. CASE y.pc = "get"
  <2>1. y.pc \in ReadPcs
    BY <1>2 DEF ReadPcs
  <2>2. /\ y.pc \notin PutPcs /\ y.pc \notin RecordPcs /\ y.pc \notin ReferencePcs
        /\ y.pc # "set" /\ y.pc # "delete"
    BY <2>1, PcKinds
  <2>3. \A k : OwnRecord(k, AbsentImpu.rec)
    BY DEF OwnRecord, AbsentImpu, NoRecord, is_default_impu
  <2> QED BY <1>2, <2>1, <2>2, <2>3 DEF Begins, Keeps
<1> QED BY <1>1, <1>2 DEF Begins

\* Whatever a worker does, it turns to another state.
LEMMA WorkBecomes ==
  ASSUME NEW w \in Workers, Work(w)
  PROVE  \E y : Become(w, y)
<1>1. CASE Reading(w)
  BY <1>1 DEF Reading, GetMapping, GetImpu, GetRemoteImpu
<1>2. CASE WritingRecord(w)
  BY <1>2 DEF WritingRecord, CreateImpu, SetImpu, DeleteImpu, GetStored
<1>3. CASE UpdatingReferences(w)
  <2>1. ASSUME NEW ref, NEW m, NEW retry, SetMapping(w, ref, m, retry)
        PROVE  \E y : Become(w, y)
    BY <2>1 DEF SetMapping
  <2> QED BY <1>3, <2>1
      DEF UpdatingReferences, GetAssociated, DeleteAssociated, SetAssociated,
          GetMappingToDelete, DeleteMapping, GetMappingToRefresh, RefreshMapping,
          AddMapping, GetMappingToAdd
<1> QED BY <1>1, <1>2, <1>3 DEF Work

\* Every step is a request's first, a worker's own, a crash, or the end of an
\* entry.
LEMMA StepKinds ==
  ASSUME Inv, Next
  PROVE  \/ \E w \in Workers, r \in Requests : Start(w, r)
         \/ \E w \in Workers :
              /\ Work(w)
              /\ \A v \in Workers : v # w => worker'[v] = worker[v]
         \/ \E w \in Workers :
              /\ worker'[w].pc = "idle" /\ UNCHANGED <<impu, mapping, lastCas>>
              /\ Upset("crash")
              /\ \A v \in Workers : v # w => worker'[v] = worker[v]
         \/ /\ UNCHANGED worker /\ Upset("expiry")
            /\ \/ UNCHANGED impu
               \/ \E s \in Stores, k \in Keys : RemoveImpu(s, k)
<1>1. TypeOK
  BY DEF Inv, TypeInv
<1>2. ASSUME NEW w \in Workers, Work(w)
      PROVE  \A v \in Workers : v # w => worker'[v] = worker[v]
  <2>1. PICK y : Become(w, y)
    BY <1>2, WorkBecomes
  <2> QED BY <1>1, <2>1, BecomeMeans
<1>3. ASSUME NEW w \in Workers, Crash(w)
      PROVE  /\ worker'[w].pc = "idle" /\ UNCHANGED <<impu, mapping, lastCas>>
             /\ Upset("crash")
             /\ \A v \in Workers : v # w => worker'[v] = worker[v]
  <2>1. Released("nothing").pc = "idle"
    BY DEF Released, Idle
  <2>2. Become(w, Released("nothing")) /\ UNCHANGED stores /\ Upset("crash")
    BY <1>3 DEF Crash
  <2>3. /\ worker'[w] = Released("nothing")
        /\ \A v \in Workers : v # w => worker'[v] = worker[v]
    BY <1>1, <2>2, BecomeMeans
  <2> QED BY <2>1, <2>2, <2>3 DEF stores
<1>4. ASSUME NEW s \in Stores, NEW k \in Keys, ExpireImpu(s, k)
      PROVE  UNCHANGED worker /\ Upset("expiry") /\ RemoveImpu(s, k)
  BY <1>4 DEF ExpireImpu
<1>5. ASSUME NEW s \in Stores, NEW p \in Impis, ExpireMapping(s, p)
      PROVE  UNCHANGED worker /\ Upset("expiry") /\ UNCHANGED impu
  BY <1>5 DEF ExpireMapping, RemoveMapping
<1> QED BY <1>2, <1>3, <1>4, <1>5 DEF Next, Environment

\* The invariant holds initially and is inductive.
LEMMA OwnStep ==
  ASSUME OneDefault
  PROVE  /\ Init => OwnInv
         /\ Inv /\ OwnInv /\ [Next]_vars => OwnInv'
<1>1. \A k : OwnRecord(k, AbsentImpu.rec)
  BY DEF OwnRecord, AbsentImpu, NoRecord, is_default_impu
<1>2. ASSUME Init PROVE OwnInv
  <2>1. Idle.pc = "idle"
    BY DEF Idle
  <2>2. Keeps(Idle)
    BY <2>1, IdleKeeps
  <2> QED BY <1>1, <1>2, <2>2 DEF Init, OwnInv
<1>3. ASSUME Inv, OwnInv, [Next]_vars PROVE OwnInv'
  <2>1. TypeOK
    BY <1>3 DEF Inv, TypeInv
  <2>2. /\ \A t \in Stores, k \in Keys : OwnRecord(k, impu[t][k].rec)
        /\ \A v \in Workers : Keeps(worker[v])
    BY <1>3 DEF OwnInv
  <2>3. SUFFICES /\ \A t \in Stores, k \in Keys : OwnRecord(k, impu'[t][k].rec)
                 /\ \A v \in Workers : Keeps(worker'[v])
    BY DEF OwnInv, OwnRecord, Keeps
  <2>4. CASE UNCHANGED vars
    BY <2>2, <2>4 DEF vars, stores
  <2>5. ASSUME NEW w \in Workers, Keeps(worker'[w]),
               \A v \in Workers : v # w => worker'[v] = worker[v]
        PROVE  \A v \in Workers : Keeps(worker'[v])
    BY <2>2, <2>5
  <2>6. ASSUME NEW w \in Workers, NEW r \in Requests, Start(w, r)
        PROVE  /\ \A t \in Stores, k \in Keys : OwnRecord(k, impu'[t][k].rec)
               /\ \A v \in Workers : Keeps(worker'[v])
    <3>1. /\ Begins(r, worker'[w]) /\ UNCHANGED impu
          /\ \A v \in Workers : v # w => worker'[v] = worker[v]
      BY <2>1, <2>6, StartBegins
    <3> QED BY <2>2, <2>5, <3>1, BeginsKeeps
  <2>7. ASSUME NEW w \in Workers, Work(w),
               \A v \in Workers : v # w => worker'[v] = worker[v]
        PROVE  /\ \A t \in Stores, k \in Keys : OwnRecord(k, impu'[t][k].rec)
               /\ \A v \in Workers : Keeps(worker'[v])
    BY <1>3, <2>5, <2>7, WorkOwn
  <2>8. ASSUME NEW w \in Workers, worker'[w].pc = "idle", UNCHANGED impu,
               \A v \in Workers : v # w => worker'[v] = worker[v]
        PROVE  /\ \A t \in Stores, k \in Keys : OwnRecord(k, impu'[t][k].rec)
               /\ \A v \in Workers : Keeps(worker'[v])
    BY <2>2, <2>5, <2>8, IdleKeeps
  <2>9. ASSUME UNCHANGED worker,
               UNCHANGED impu \/ \E s \in Stores, k \in Keys : RemoveImpu(s, k)
        PROVE  /\ \A t \in Stores, k \in Keys : OwnRecord(k, impu'[t][k].rec)
               /\ \A v \in Workers : Keeps(worker'[v])
    <3>1. CASE UNCHANGED impu
      BY <2>2, <2>9, <3>1
    <3>2. ASSUME NEW s \in Stores, NEW k \in Keys, RemoveImpu(s, k)
          PROVE  \A t \in Stores, l \in Keys : OwnRecord(l, impu'[t][l].rec)
      <4>1. impu' = [impu EXCEPT ![s][k] = AbsentImpu]
        BY <3>2 DEF RemoveImpu
      <4>2. /\ impu'[s][k] = AbsentImpu
            /\ \A t \in Stores, l \in Keys : t # s \/ l # k => impu'[t][l] = impu[t][l]
        BY <2>1, <4>1 DEF TypeOK
      <4> QED BY <1>1, <2>2, <4>2
    <3> QED BY <2>2, <2>9, <3>1, <3>2
  <2> QED BY <1>3, <2>4, <2>6, <2>7, <2>8, <2>9, StepKinds
<1> QED BY <1>2, <1>3

-----------------------------------------------------------------------------
(* One request at a time.                                                  *)

\* When a request starts, or a worker goes on with one, the others are idle.
LEMMA OthersIdle ==
  ASSUME OneAtATime, Alone, NEW w \in Workers,
         (\E r : Start(w, r)) \/ worker[w].pc # "idle"
  PROVE  \A v \in Workers : v # w => worker[v].pc = "idle"
<1>1. CASE worker[w].pc # "idle"
  BY <1>1 DEF Alone
<1>2. CASE \E r : Start(w, r)
  BY <1>2 DEF Start
<1> QED BY <1>1, <1>2

\* A worker that goes on has a request.
LEMMA WorkBusy ==
  ASSUME Inv, NEW w \in Workers, Keeps(worker[w]), Work(w)
  PROVE  worker[w].pc # "idle"
<1>1. worker[w].pc \in ReadPcs \cup {"getMapping"} \/ worker[w].pc \in RecordPcs
      \/ worker[w].pc \in ReferencePcs
  BY ReadingSteps, WritingSteps, UpdatingSteps DEF Work
<1> QED BY <1>1, PcKinds

\* So at most one is busy after each step.
LEMMA AloneStep ==
  ASSUME OneAtATime, OneDefault
  PROVE  /\ Init => Alone
         /\ Inv /\ OwnInv /\ Alone /\ [Next]_vars => Alone'
<1>1. ASSUME Init PROVE Alone
  BY <1>1 DEF Init, Alone, Idle
<1>2. ASSUME Inv, OwnInv, Alone, [Next]_vars PROVE Alone'
  <2>1. TypeOK /\ \A v \in Workers : Keeps(worker[v])
    BY <1>2 DEF Inv, TypeInv, OwnInv
  <2>2. CASE UNCHANGED worker
    BY <1>2, <2>2 DEF Alone
  <2>3. ASSUME NEW w \in Workers,
               \A v \in Workers : v # w => worker'[v] = worker[v],
               \A v \in Workers : v # w => worker[v].pc = "idle"
        PROVE  Alone'
    BY <2>3 DEF Alone
  <2>4. ASSUME NEW w \in Workers, NEW r \in Requests, Start(w, r)
        PROVE  Alone'
    BY <1>2, <2>1, <2>3, <2>4, StartBegins, OthersIdle
  <2>5. ASSUME NEW w \in Workers, Work(w),
               \A v \in Workers : v # w => worker'[v] = worker[v]
        PROVE  Alone'
    BY <1>2, <2>1, <2>3, <2>5, WorkBusy, OthersIdle
  <2>6. ASSUME NEW w \in Workers, worker'[w].pc = "idle",
               \A v \in Workers : v # w => worker'[v] = worker[v]
        PROVE  Alone'
    BY <1>2, <2>6 DEF Alone
  <2>7. UNCHANGED vars => UNCHANGED worker
    BY DEF vars
  <2> QED BY <1>2, <2>2, <2>4, <2>5, <2>6, <2>7, StepKinds
<1> QED BY <1>1, <1>2

\* Updates of one subscriber do not touch the records of another, however the
\* requests interleave, if no document gives an identity another default IMPU
\* (put_irs_action, delete_irs_action and what they are given).
THEOREM SubscribersAreApart ==
  ASSUME OneDefault
  PROVE  Spec => []OwnInv
  BY OwnStep, InvHolds, PTL DEF Spec
=============================================================================
