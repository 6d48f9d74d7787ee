---------------------------- MODULE ImplicitRegSet ----------------------------
(***************************************************************************)
(* MemcachedImplicitRegistrationSet (include/memcached_cache.h and the     *)
(* first part of src/memcached_cache.cpp): a handler's private copy of an  *)
(* implicit registration set.  It remembers what the handler changed and   *)
(* what it has seen in the stores, so that a write which conflicts with    *)
(* another Homestead's can be merged and retried.                          *)
(*                                                                         *)
(* A Data map (std::map from identity to ADDED, UNCHANGED or DELETED) is a *)
(* function on all identities; NONE is "not in the map".  The TTL of the   *)
(* set is left out: a record may expire at any time.                       *)
(***************************************************************************)
EXTENDS ImpuStore

CONSTANTS
  Stores,     \* the ImpuStores of all sites
  NoStore,    \* nullptr
  NoCharging  \* the empty set of charging addresses

ASSUME StoreAssumption == NoStore \notin Stores /\ NoCharging \in Charging

DataStates == {"NONE", "ADDED", "UNCHANGED", "DELETED"}

ImplicitRegSets ==
  [default : Keys, store : Stores \cup {NoStore}, cas : Nat,
   refreshed : BOOLEAN, existing : BOOLEAN,
   xml : Profiles \cup {NoProfile}, xmlSet : BOOLEAN,
   charging : Charging, chargingSet : BOOLEAN,
   reg : RegistrationStates, regSet : BOOLEAN,
   impis : [Impis -> DataStates], impus : [Impus -> DataStates]]

get_elements_in_state(data, states) == {k \in DOMAIN data : data[k] \in states}

Tracked(data) == get_elements_in_state(data, DataStates \ {"NONE"})

get_associated_impis(irs) ==
  get_elements_in_state(irs.impis, {"UNCHANGED", "ADDED"})

get_associated_impus(irs) ==
  get_elements_in_state(irs.impus, {"UNCHANGED", "ADDED"})

-----------------------------------------------------------------------------
(* Construction.                                                           *)

\* A set as read from a store: everything in it is UNCHANGED.
FromImpu(impu, store, entry) ==
  [default |-> impu, store |-> store, cas |-> entry.cas,
   refreshed |-> FALSE, existing |-> TRUE,
   xml |-> entry.rec.xml, xmlSet |-> FALSE,
   charging |-> entry.rec.charging, chargingSet |-> FALSE,
   reg |-> entry.rec.reg, regSet |-> FALSE,
   impis |-> [p \in Impis |-> IF p \in entry.rec.impis
                              THEN "UNCHANGED" ELSE "NONE"],
   impus |-> [i \in Impus |-> IF i \in entry.rec.assoc
                              THEN "UNCHANGED" ELSE "NONE"]]

\* A set for a subscriber no store knows.  The registration state is not
\* initialised by the constructor; the handler sets it to NOT_REGISTERED
\* before it does anything else.
NewSet ==
  [default |-> NoImpu, store |-> NoStore, cas |-> 0,
   refreshed |-> TRUE, existing |-> FALSE,
   xml |-> NoProfile, xmlSet |-> FALSE,
   charging |-> NoCharging, chargingSet |-> FALSE,
   reg |-> "NOT_REGISTERED", regSet |-> TRUE,
   impis |-> [p \in Impis |-> "NONE"], impus |-> [i \in Impus |-> "NONE"]]

-----------------------------------------------------------------------------
(* Changes made by the handlers.                                           *)

set_reg_state(irs, reg) == [irs EXCEPT !.reg = reg, !.regSet = TRUE]

set_charging_addresses(irs, charging) ==
  [irs EXCEPT !.charging = charging, !.chargingSet = TRUE]

\* The TTL itself is not modelled; setting it marks the set as refreshed.
set_ttl(irs) == [irs EXCEPT !.refreshed = TRUE]

mark_as_refreshed(irs) == [irs EXCEPT !.refreshed = TRUE]

add_associated_impi(irs, impi) == [irs EXCEPT !.impis[impi] = "ADDED"]

\* The identities in the caller's view of the world are ADDED if they are
\* not known or were DELETED, the known ones outside it are DELETED.  The
\* element to ignore is not ADDED, but is left as it is if it is known.
set_elements(updated, data, ignore) ==
  [k \in DOMAIN data |->
     IF k \notin updated
     THEN IF data[k] = "NONE" THEN "NONE" ELSE "DELETED"
     ELSE IF k # ignore /\ data[k] \in {"NONE", "DELETED"}
          THEN "ADDED"
          ELSE data[k]]

set_ims_sub_xml(irs, xml) ==
  [irs EXCEPT !.xml = xml, !.xmlSet = TRUE,
              !.default = get_default_id(xml),
              !.impus = set_elements(get_public_ids(xml), irs.impus,
                                     get_default_id(xml))]

-----------------------------------------------------------------------------
(* Conflict resolution.                                                    *)

\* Elements of the store that are not known become UNCHANGED, UNCHANGED ones
\* the store does not have become DELETED.
merge_data_sets(data, added) ==
  [k \in DOMAIN data |->
     IF k \in added /\ data[k] = "NONE" THEN "UNCHANGED"
     ELSE IF k \notin added /\ data[k] = "UNCHANGED" THEN "DELETED"
     ELSE data[k]]

\* Elements of the store that are not known become DELETED (map::emplace
\* does nothing to the ones that are).
emplace_deleted(data, added) ==
  [k \in DOMAIN data |->
     IF k \in added /\ data[k] = "NONE" THEN "DELETED" ELSE data[k]]

\* Mutant: the IMPIs of the store are not merged.
UpdateWithoutImpis(irs, rec) ==
  [irs EXCEPT
     !.reg      = IF irs.regSet THEN @ ELSE rec.reg,
     !.xml      = IF irs.xmlSet THEN @ ELSE rec.xml,
     !.charging = IF irs.chargingSet THEN @ ELSE rec.charging,
     !.impus    = IF irs.refreshed
                  THEN emplace_deleted(@, rec.assoc)
                  ELSE merge_data_sets(@, rec.assoc)]

update_from_impu_from_store(irs, rec) ==
  [irs EXCEPT
     !.reg      = IF irs.regSet THEN @ ELSE rec.reg,
     !.xml      = IF irs.xmlSet THEN @ ELSE rec.xml,
     !.charging = IF irs.chargingSet THEN @ ELSE rec.charging,
     !.impis    = merge_data_sets(@, rec.impis),
     !.impus    = IF irs.refreshed
                  THEN emplace_deleted(@, rec.assoc)
                  ELSE merge_data_sets(@, rec.assoc)]

delete_tracked(data) ==
  [k \in DOMAIN data |-> IF data[k] = "NONE" THEN "NONE" ELSE "DELETED"]

\* Mutant: delete_impis is not called.
DeleteOnlyImpus(irs) == [irs EXCEPT !.impus = delete_tracked(@)]

delete_all(irs) ==
  [irs EXCEPT !.impus = delete_tracked(@), !.impis = delete_tracked(@)]

\* The record written for the set.
create_impu(irs) ==
  Stored(DefaultImpu(get_associated_impus(irs), get_associated_impis(irs),
                     irs.reg, irs.charging, irs.xml))
=============================================================================
