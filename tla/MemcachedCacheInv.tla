-------------------------- MODULE MemcachedCacheInv --------------------------
(***************************************************************************)
(* The inductive invariants behind the safety properties of MemcachedCache.*)
(* TLC checks KnowledgeInv and StateInv on instances of MCMemcachedCache.  *)
(* That they are inductive is proved in MemcachedCacheProofs               *)
(* (KnowledgeInv), MemcachedCacheSubscribers (OwnInv, Alone),              *)
(* MemcachedCacheOutcomes (StateInv, LocalInv) and MemcachedCacheAgreement *)
(* (AgreeInv).                                                             *)
(***************************************************************************)
EXTENDS MemcachedCache

\* The program counters at which a worker is busy with an IMPI mapping, by
\* the phase of that reference.
DeletePcs == {"mapDeleteGet", "mapDelete"}
RefreshPcs == {"mapRefreshGet", "mapRefresh"}
AddPcs == {"mapAddGet", "mapAdd"}

\* Where a worker is busy with a reference.
LoopPcs == {"assocDelete"} \cup DeletePcs \cup RefreshPcs \cup AddPcs

\* A worker's state makes sense: it is at one of its stores, has a request
\* unless it is idle, and works on a reference of the right kind.
Coherent(w, x) ==
  /\ x.site <= Len(Sites[w])
  /\ x.pc # "idle" => x.req \in Requests
  /\ x.pc = "assocDelete" => x.item \in {"assocDelete"} \X Impus
  /\ x.pc \in DeletePcs => x.item \in {"mapDelete"} \X Impis
  /\ x.pc \in RefreshPcs => x.item \in {"mapRefresh"} \X Impis
  /\ x.pc \in AddPcs => x.item \in {"mapAdd"} \X Impis

TypeInv == TypeOK /\ \A w \in Workers : Coherent(w, worker[w])

\* CAS values identify writes: none is above the last one handed out, and no
\* two records share one.
CasInv ==
  /\ \A s \in Stores, k \in Keys : impu[s][k].cas <= lastCas[s]
  /\ \A s \in Stores, p \in Impis : mapping[s][p].cas <= lastCas[s]
  /\ \A s \in Stores, k, l \in Keys :
       impu[s][k].cas = impu[s][l].cas => impu[s][k].cas = 0 \/ k = l

\* IRS i knows every identity of the record in store s that has CAS value c,
\* if there is still such a record.
KnowsRecord(i, s, c) ==
  /\ c <= lastCas[s]
  /\ \A k \in Keys :
       impu[s][k].cas = c /\ is_default_impu(impu[s][k].rec) =>
         /\ impu[s][k].rec.impis \subseteq Tracked(i.impis)
         /\ impu[s][k].rec.assoc \subseteq Tracked(i.impus)

\* An entry that was read from store s: if a record still has its CAS value,
\* it is still the same record.
StillCurrent(s, entry) ==
  /\ entry.cas <= lastCas[s]
  /\ \A k \in Keys :
       impu[s][k].cas = entry.cas /\ entry.cas # 0 =>
         impu[s][k].rec = entry.rec

\* Mapping m in hand for p: if the stored one still has its CAS value, m has
\* all its default IMPUs but, perhaps, d.
KnowsMapping(m, s, p, d) ==
  /\ m.cas <= lastCas[s]
  /\ mapping[s][p].cas = m.cas /\ m.cas # 0 =>
       mapping[s][p].impus \ {d} \subseteq m.impus

\* Worker w, in state x, knows enough for the writes it may still make: the
\* IRS in hand covers the record it was read from or is about to replace, the
\* entries it has read are current or replaced, and so is the mapping in hand.
Informed(w, x) ==
  /\ x.irs.store \in Stores => KnowsRecord(x.irs, x.irs.store, x.irs.cas)
  /\ x.pc = "set" => KnowsRecord(x.irs, Sites[w][x.site], x.cas)
  /\ \A s \in Stores : StillCurrent(s, x.read.answers[s])
  /\ x.pc \in DeletePcs \cup RefreshPcs \cup AddPcs =>
       KnowsMapping(x.mp, Sites[w][x.site], x.item[2], x.irs.default)

\* Why no conditional write of MemcachedCache loses an identity that another
\* request stored: CAS values identify records (external Store), and whatever
\* a worker has in hand covers every record that still has the CAS value it
\* would write with (perform_irs_impu_action's get, merge and set;
\* update_irs_impi_mappings' get and set).  It is inductive.
KnowledgeInv ==
  /\ CasInv
  /\ \A w \in Workers : Informed(w, worker[w])

\* IRS i does not fall behind the registration state of the record in store s
\* that has CAS value c, if there is still such a record.
KnowsState(i, s, c) ==
  \A k \in Keys :
    (/\ impu[s][k].cas = c /\ is_default_impu(impu[s][k].rec)
     /\ impu[s][k].rec.reg = "REGISTERED") => i.reg = "REGISTERED"

\* Worker w, in state x, knows the registration state it may replace: a handler
\* that has set a state has set REGISTERED, and the IRS in hand is REGISTERED
\* if the record is that it is about to replace.
StateKnown(w, x) ==
  /\ x.pc \in {"set", "getStored"} /\ x.irs.regSet => x.irs.reg = "REGISTERED"
  /\ x.pc = "set" => KnowsState(x.irs, Sites[w][x.site], x.cas)

\* Every worker has its local store and no other.
SingleSite == \A w \in Workers : Len(Sites[w]) = 1

\* Why a registration is not undone by an update that has not seen it, with one
\* site (perform_irs_impu_action and update_from_impu_from_store).  With several,
\* an IRS that was read at one is merged with another's record on the way.
StateInv == \A w \in Workers : StateKnown(w, worker[w])

-----------------------------------------------------------------------------
(* Requests that are served one at a time.                                 *)

\* Documents that have an identity in common have the same default IMPU.
OneDefault ==
  \A xml, other \in Profiles :
    get_public_ids(xml) \cap get_public_ids(other) # {} =>
      get_default_id(xml) = get_default_id(other)

\* A worker's stores are different ones, and there are no others.
StoresDiffer ==
  \A w \in Workers : \A m, n \in 1..Len(Sites[w]) :
    Sites[w][m] = Sites[w][n] => m = n
EveryStoreOnce ==
  /\ StoresDiffer
  /\ \A w \in Workers, s \in Stores : \E n \in 1..Len(Sites[w]) : Sites[w][n] = s

\* Subscribers that no store knows register and are called by the default IMPU
\* of their set.
AskedByDefault ==
  \A r \in Requests : r.kind \in {"REG", "CALL"} =>
    \A xml \in HssDocuments(r.impu) : get_default_id(xml) = r.impu

\* Where a worker reads its IRS, and where it writes its record.
ReadPcs == {"get", "getRemote", "follow", "followRemote"}
RecordPcs == {"create", "set", "delete", "getStored"}

\* Where a worker has an IRS to write, and where the record is written.
PutPcs == Pcs \ (ReadPcs \cup {"idle", "getMapping"})
ReferencePcs == PutPcs \ RecordPcs

\* The identities of the documents whose default IMPU is d.
Owned(d) ==
  {a \in Impus : \E xml \in Profiles :
                   a \in get_public_ids(xml) /\ get_default_id(xml) = d}

\* A record of an IRS under key k, and an IRS in hand, belong to the document
\* they hold: its default IMPU, and no identity of another subscriber.
OwnRecord(k, rec) ==
  is_default_impu(rec) =>
    /\ rec.xml \in Profiles /\ get_default_id(rec.xml) = k
    /\ rec.assoc \subseteq Owned(k) \ {k}

OwnSet(i) ==
  /\ i.xml \in Profiles /\ get_default_id(i.xml) = i.default
  /\ Tracked(i.impus) \subseteq Owned(i.default) \ {i.default}

\* Worker state x keeps to one subscriber.
Keeps(x) ==
  /\ x.pc = "getMapping" => x.req.kind \in {"RTR", "PPR"}
  /\ x.pc \in ReadPcs =>
       /\ x.pc \in {"get", "getRemote"} => x.read.key = x.read.asked
       /\ x.req.kind \in {"REG", "CALL"} =>
            x.read.asked = x.req.impu /\ x.read.queue = {}
       /\ \A s \in Stores : OwnRecord(x.read.key, x.read.answers[s].rec)
  /\ x.pc \in PutPcs => OwnSet(x.irs) /\ (Deleting(x) => x.irs.existing)
  /\ x.pc \in RecordPcs => (x.pc = "create" <=> ~x.irs.existing)
  /\ x.pc = "set" => ~Deleting(x)
  /\ x.pc = "delete" => Deleting(x)
  /\ x.pc \in ReferencePcs =>
       \A r \in x.todo : r \in AssocReferences =>
         r[2] \in Owned(x.irs.default) \ {x.irs.default}
  /\ x.pc \in ReferencePcs \ {"work"} => x.item \in x.todo

\* Why updates of one subscriber do not touch another's records, with any
\* number of requests at the same time.
OwnInv ==
  /\ \A s \in Stores, k \in Keys : OwnRecord(k, impu[s][k].rec)
  /\ \A w \in Workers : Keeps(worker[w])

\* At most one worker is busy.
Alone ==
  \A v, w \in Workers : worker[v].pc # "idle" /\ worker[w].pc # "idle" => v = w

-----------------------------------------------------------------------------
(* What the local store holds.                                             *)

\* The outcome of the request of state x is in store s.
Outcome(x, s) ==
  LET rec == impu[s][x.irs.default].rec IN
  /\ x.req.kind = "REG" =>
       /\ is_default_impu(rec) /\ rec.reg = "REGISTERED"
       /\ x.req.impi \in rec.impis
  /\ Deleting(x) => rec = NoRecord

\* Worker w, in state x, meets no conflict in its own store, and its store has
\* the outcome once the record is done.
LocalKnown(w, x) ==
  LET s == LocalStore(w) IN
  /\ x.pc \in {"getRemote", "followRemote"} => ~IsPresent(impu[s][x.read.key])
  /\ x.pc \in ReadPcs \cup {"getMapping"} => x.told = "nothing"
  /\ x.pc \in PutPcs /\ x.site = 1 => x.told = "nothing"
  /\ x.pc \in RecordPcs /\ x.site = 1 =>
       /\ x.pc = "set" => SetAllowed(impu[s][x.irs.default], x.cas)
       /\ x.pc = "getStored" => ~IsPresent(impu[s][x.irs.default])
       /\ x.req.kind = "REG" => /\ x.irs.reg = "REGISTERED" /\ x.irs.regSet
                                /\ x.req.impi \in get_associated_impis(x.irs)
  /\ x.pc \in PutPcs /\ (x.site # 1 \/ x.pc \in ReferencePcs) => Outcome(x, s)

LocalInv == \A w \in Workers : LocalKnown(w, worker[w])

-----------------------------------------------------------------------------
(* What all stores hold, as long as nothing has failed.                    *)

\* The associated IMPUs and the IMPIs of a record, if it is one of an IRS.
AssocIn(rec) == IF is_default_impu(rec) THEN rec.assoc ELSE {}
ImpisIn(rec) == IF is_default_impu(rec) THEN rec.impis ELSE {}

\* What store s holds of d: the identities its record lists, and those that
\* refer to it.
Index(s, d) ==
  [assoc |-> AssocIn(impu[s][d].rec),
   impis |-> ImpisIn(impu[s][d].rec),
   leads |-> {a \in Keys : impu[s][a].rec = AssociatedImpu(d)},
   maps  |-> {p \in Impis : d \in mapping[s][p].impus}]

\* The identities that refer to a record are those it lists, but for the
\* references still to do.
ListedBut(ix, todo) ==
  /\ \A a \in Keys : \/ \E f \in AssocPhases : <<f, a>> \in todo
                     \/ a \in ix.leads <=> a \in ix.assoc
  /\ \A p \in Impis : \/ \E f \in MapPhases : <<f, p>> \in todo
                      \/ p \in ix.maps <=> p \in ix.impis
  /\ \A r \in todo :
       /\ r[1] = "assocDelete" => r[2] \notin ix.assoc
       /\ r[1] \in {"assocRefresh", "assocAdd"} => r[2] \in ix.assoc
       /\ r[1] = "mapDelete" => r[2] \notin ix.impis
       /\ r[1] \in {"mapRefresh", "mapAdd"} => r[2] \in ix.impis

Indexed(s, d) == ListedBut(Index(s, d), {})

\* Records rec and other are of the same IRS, or of none.
SameSet(rec, other) ==
  is_default_impu(rec) \/ is_default_impu(other) => rec = other

\* All stores have the same record of d, and the references to it.
Agreed(d) ==
  /\ \A s \in Stores : Indexed(s, d)
  /\ \A s, t \in Stores : SameSet(impu[s][d].rec, impu[t][d].rec)

\* A Data map knows exactly the elements known, and what was ADDED to them.
Covers(data, known) ==
  \A k \in DOMAIN data : /\ k \in known => data[k] # "NONE"
                         /\ data[k] = "UNCHANGED" => k \in known

\* IRS i is record rec, and what its handler changed.
Fits(i, rec) ==
  /\ IF i.existing THEN is_default_impu(rec) ELSE rec = NoRecord
  /\ Covers(i.impus, AssocIn(rec))
  /\ Covers(i.impis, ImpisIn(rec))
  /\ i.existing => /\ i.regSet \/ i.reg = rec.reg
                   /\ i.xmlSet \/ i.xml = rec.xml
                   /\ i.chargingSet \/ i.charging = rec.charging

\* What the request of worker state x makes of the record.
Target(x) == IF Deleting(x) THEN NoRecord ELSE create_impu(x.irs)

\* Store s is as IRS i was read; it has record rec of d, and the references to
\* it but those to do.
Before(s, i) == Fits(i, impu[s][i.default].rec) /\ Indexed(s, i.default)
After(s, d, rec, todo) == impu[s][d].rec = rec /\ ListedBut(Index(s, d), todo)

\* How far worker w, in state x, has come in its n-th store.
Progress(w, x, n) ==
  IF n > x.site \/ (n = x.site /\ x.pc \in RecordPcs)
  THEN Before(Sites[w][n], x.irs)
  ELSE After(Sites[w][n], x.irs.default, Target(x),
             IF n = x.site THEN x.todo ELSE {})

\* Mapping m in hand at pc is the stored one, with its change for d.
Held(entry, d, pc, m) ==
  /\ pc = "mapDelete" => m.impus = entry.impus \ {d}
  /\ pc \in {"mapRefresh"} \cup AddPcs =>
       (m.cas = entry.cas => m.impus = entry.impus \cup {d})

InHand(w, x) ==
  Held(mapping[Sites[w][x.site]][x.item[2]], x.irs.default, x.pc, x.mp)

\* No store has answered the read of state x yet; the remote stores are asked
\* for what no store has, and a record that was followed is in all of them.
Searches(x) ==
  \A s \in Stores :
    /\ x.read.answers[s] = AbsentImpu
    /\ x.pc \in {"getRemote", "followRemote"} => ~IsPresent(impu[s][x.read.key])
    /\ x.pc \in {"follow", "followRemote"} =>
         impu[s][x.read.asked].rec = AssociatedImpu(x.read.key)

\* Worker w, in state x, has brought the stores before the one it is at up to
\* date, and found the others as it found its own.
Settles(w, x) ==
  /\ x.pc \in ReadPcs => Searches(x)
  /\ x.pc \in PutPcs =>
       /\ \A n \in 1..Len(Sites[w]) : Progress(w, x, n)
       /\ x.status # "ERROR"
       /\ x.pc \in RecordPcs \cup {"work", "assocDelete"} => x.status = "OK"
       /\ InHand(w, x)

\* A mapping that is not there has no default IMPUs.
AbsentIsEmpty ==
  \A s \in Stores, p \in Impis :
    mapping[s][p].cas = 0 => mapping[s][p].impus = {}

\* Why the stores agree with themselves and with each other after requests
\* that were served one at a time (perform, put_irs_action, delete_irs_action):
\* only the subscriber being written is out of step, and only so far.
AgreeInv ==
  /\ AbsentIsEmpty
  /\ \A d \in Keys :
       (\A w \in Workers :
          ~(worker[w].pc \in PutPcs /\ worker[w].irs.default = d)) => Agreed(d)
  /\ \A w \in Workers : Settles(w, worker[w])
=============================================================================
