---------------------------- MODULE MCLifecycle ----------------------------
(***************************************************************************)
(* Every driver that Lifecycle describes, loaded and unloaded repeatedly,  *)
(* with everything that runs beside it.                                    *)
(***************************************************************************)
EXTENDS Deferred

AllDrivers == DOMAIN Plan
============================================================================
