--------------------------- MODULE SubscriberState ---------------------------
(***************************************************************************)
(* What the cache promises about the registration state of a subscriber,   *)
(* from the comments on create_irs_impu and update_from_impu_from_store in *)
(* src/memcached_cache.cpp: a registration always takes effect, a call to  *)
(* an unregistered subscriber is recorded only if nothing is, and any      *)
(* other update leaves the state alone.  So a subscriber that is           *)
(* registered stays so until it is removed, whatever else goes on.         *)
(***************************************************************************)

CONSTANT Subscribers

VARIABLE state

States == {"NONE", "UNREGISTERED", "REGISTERED"}

Init == state = [x \in Subscribers |-> "NONE"]

Register(x) == state' = [state EXCEPT ![x] = "REGISTERED"]

Call(x) ==
  /\ state[x] = "NONE"
  /\ state' = [state EXCEPT ![x] = "UNREGISTERED"]

Remove(x) == state' = [state EXCEPT ![x] = "NONE"]

Next == \E x \in Subscribers : Register(x) \/ Call(x) \/ Remove(x)

Spec == Init /\ [][Next]_state
=============================================================================
