-------------------------- MODULE MCSegmentSession --------------------------
(* SegmentSession on small instances: symmetric callers. *)
EXTENDS SegmentSession, TLC

Symmetry == Permutations(Callers)
=============================================================================
