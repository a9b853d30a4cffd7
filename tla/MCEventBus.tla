----------------------------- MODULE MCEventBus -----------------------------
(* EventBus on small instances: symmetric clients. *)
EXTENDS EventBus, TLC

Symmetry == Permutations(Clients)
=============================================================================
