----------------------------- MODULE MCScheduler -----------------------------
(* Scheduler in a week of one or two short days: a window inside every     *)
(* day, and one over midnight for the first day only.                      *)
EXTENDS Scheduler, TLC

Midday    == [from |-> 1, to |-> 3, days |-> 0..(WeekLength - 1)]
Overnight == [from |-> 4, to |-> 1, days |-> {0}]
MCWindows == {Midday, Overnight}

Symmetry == Permutations(Recs)
=============================================================================
