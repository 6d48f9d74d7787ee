--------------------------- MODULE MCMemcachedCache ---------------------------
(***************************************************************************)
(* Instances of MemcachedCache for TLC.                                    *)
(*                                                                         *)
(* Subscriber 1 has the default IMPU d1, with or without the associated    *)
(* IMPU a1, which may come first and be barred; subscriber 2 has the       *)
(* default IMPU d2 and nothing else.  Both may be used with the IMPI p1,   *)
(* and subscriber 1 also with p2.                                          *)
(***************************************************************************)
EXTENDS MemcachedCacheInv, TLC

CONSTANTS d1, a1, d2, p1, p2, s1, s2, w1, w2, w3, full, short, barring, other

Node(id) == [id |-> id, barred |-> FALSE]

MCPublicIdentities ==
  [xml \in Profiles |->
     CASE xml = full    -> <<Node(d1), Node(a1)>>
       [] xml = short   -> <<Node(d1)>>
       [] xml = barring -> <<[Node(a1) EXCEPT !.barred = TRUE], Node(d1)>>
       [] xml = other   -> <<Node(d2)>>]

OneSite == [w \in Workers |-> <<s1>>]
TwoSites == [w \in Workers |-> IF w = w2 THEN <<s2, s1>> ELSE <<s1, s2>>]

\* With one site the workers are interchangeable.
WorkerSymmetry == Permutations(Workers)

Request(k, i, p) == [kind |-> k, impu |-> i, impi |-> p]

\* Every kind of request about subscriber 1, by either IMPU and two devices.
Subscriber1 ==
  {Request("REG", d1, p1), Request("REG", d1, p2), Request("CALL", a1, p1),
   Request("DEREG", a1, p1), Request("RTR", d1, p1), Request("PPR", d1, p1)}

\* Both subscribers, with device p1 in common.  The HSS adds a1 to subscriber
\* 1 or removes it only while it is asked about d1: a request for an IMPU
\* that has become part of a known set without a PPR is not among these.
BothSubscribers ==
  {Request("REG", d1, p1), Request("REG", d1, p2), Request("REG", d2, p1),
   Request("CALL", d1, p1), Request("DEREG", a1, p1),
   Request("DEREG", d2, p1), Request("RTR", d1, p1), Request("PPR", d1, p1)}

\* Requests that do not remove a subscriber.
NoRemovals ==
  {Request("REG", d1, p1), Request("REG", d1, p2), Request("CALL", a1, p1),
   Request("PPR", d1, p1)}

\* One device shared by two subscribers that come and go.
SharedDevice ==
  {Request("REG", d1, p1), Request("REG", d2, p1),
   Request("DEREG", d1, p1), Request("DEREG", d2, p1),
   Request("RTR", d1, p1)}

\* Two subscribers with one device: they come, one goes, the other changes.
SharedDevicePush ==
  {Request("REG", d1, p1), Request("REG", d2, p1),
   Request("DEREG", d2, p1), Request("PPR", d1, p1)}

RegisterCallPush ==
  {Request("REG", d1, p1), Request("CALL", d1, p1), Request("PPR", d1, p1)}
=============================================================================
