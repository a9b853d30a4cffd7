----------------------------- MODULE MCRecorder -----------------------------
(* Recorder on small instances: symmetric recordings and clients. *)
EXTENDS Recorder, TLC

Symmetry == Permutations(Recordings) \cup Permutations(Clients)
=============================================================================
