----------------------------- MODULE MCLifecycle -----------------------------
(***************************************************************************)
(* Lifecycle for model checking: two requests of every mix of kinds, that  *)
(* compete for the one thread of the pool, and two remote stores.          *)
(***************************************************************************)
EXTENDS Lifecycle, TLC

CONSTANTS t1, t2

MCTasks == {t1, t2}
=============================================================================
