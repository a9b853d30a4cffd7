------------------------------ MODULE MCStream ------------------------------
(* Stream on small instances. *)
EXTENDS Stream, TLC

Symmetry == Permutations(Clients)
=============================================================================
