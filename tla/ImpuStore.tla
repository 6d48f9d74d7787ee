------------------------------ MODULE ImpuStore ------------------------------
(***************************************************************************)
(* The records Homestead keeps in memcached and the operations ImpuStore   *)
(* performs on them (src/impu_store.cpp, include/impu_store.h).            *)
(*                                                                         *)
(* Two tables.  "impu" holds one record per public identity: either a      *)
(* DefaultImpu (all the data of an implicit registration set) or an        *)
(* AssociatedImpu (the name of the default IMPU of the set it is in).      *)
(* "impi_mapping" holds, per private identity, the default IMPUs it is     *)
(* used with.                                                              *)
(*                                                                         *)
(* The Store underneath (cpp-common, not in this repository) is modelled   *)
(* by the contract ImpuStore relies on: every write gives the entry a CAS  *)
(* value no entry of that store had before, an entry that is absent has    *)
(* CAS 0, set_data succeeds iff the CAS it is given is the entry's, and    *)
(* delete_data and set_data_without_cas do not look at the CAS at all.     *)
(***************************************************************************)
EXTENDS Naturals, Sequences

CONSTANTS
  Impus,      \* public identities (IMPUs)
  Impis,      \* private identities (IMPIs)
  NoImpu,     \* the empty string, the default IMPU of a set that has none
  Profiles,   \* IMS subscription documents (the XML the HSS sends)
  NoProfile,  \* the empty document
  Charging,   \* sets of charging addresses
  PublicIdentities  \* Profile -> its PublicIdentity nodes, in document order

ASSUME ImpuAssumption ==
  /\ NoImpu \notin Impus
  /\ NoProfile \notin Profiles
  /\ PublicIdentities \in
       [Profiles -> Seq([id : Impus, barred : BOOLEAN])]

\* The keys of the "impu" table.
Keys == Impus \cup {NoImpu}

RegistrationStates == {"REGISTERED", "UNREGISTERED", "NOT_REGISTERED"}

-----------------------------------------------------------------------------
(* What the parser reads off a subscription document.                      *)

\* Nodes of the document that name an identity no earlier node names: a
\* repeated identity is dropped, with its barring indication.
FirstMentions(xml) ==
  LET nodes == PublicIdentities[xml] IN
  {n \in DOMAIN nodes : \A m \in DOMAIN nodes :
                           m < n => nodes[m].id # nodes[n].id}

get_public_ids(xml) ==
  {PublicIdentities[xml][n].id : n \in DOMAIN PublicIdentities[xml]}

\* The default identity is the first one that is not barred; when all are,
\* the caller's string stays empty.
get_default_id(xml) ==
  LET nodes    == PublicIdentities[xml]
      unbarred == {n \in FirstMentions(xml) : ~nodes[n].barred}
      first    == {n \in unbarred : \A m \in unbarred : n <= m}
  IN IF first = {} THEN NoImpu ELSE nodes[CHOOSE n \in first : TRUE].id

-----------------------------------------------------------------------------
(* Records.                                                                *)

DefaultImpu(assoc, impis, reg, charging, xml) ==
  [kind |-> "default", assoc |-> assoc, impis |-> impis, reg |-> reg,
   charging |-> charging, xml |-> xml]

AssociatedImpu(default) == [kind |-> "associated", default |-> default]

NoRecord == [kind |-> "none"]

\* A record that went through write_json and from_json: the registration
\* state is stored as one bit, so NOT_REGISTERED comes back as UNREGISTERED.
Stored(rec) ==
  IF rec.kind = "default" /\ rec.reg # "REGISTERED"
  THEN [rec EXCEPT !.reg = "UNREGISTERED"]
  ELSE rec

DefaultImpus ==
  [kind : {"default"}, assoc : SUBSET Impus, impis : SUBSET Impis,
   reg : {"REGISTERED", "UNREGISTERED"}, charging : Charging,
   xml : Profiles \cup {NoProfile}]

AssociatedImpus == [kind : {"associated"}, default : Keys]

AbsentImpu == [cas |-> 0, rec |-> NoRecord]

ImpuEntries ==
  [cas : Nat \ {0}, rec : DefaultImpus \cup AssociatedImpus] \cup {AbsentImpu}

MappingEntries == [cas : Nat, impus : SUBSET Keys]

AbsentMapping == [cas |-> 0, impus |-> {}]

IsPresent(entry) == entry.cas # 0

is_default_impu(rec) == rec.kind = "default"

has_associated_impu(rec, impu) == impu \in rec.assoc

-----------------------------------------------------------------------------
(* The outcome of a conditional write on an entry.                         *)

\* set_data: the caller's CAS must be the entry's; CAS 0 means "not there".
SetAllowed(entry, cas) == entry.cas = cas
=============================================================================
