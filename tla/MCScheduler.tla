---------------------------- MODULE MCScheduler ----------------------------
(* Small instances of Scheduler for TLC. *)
EXTENDS Scheduler

MCPrompts == {<<1, 1>>, <<1, 1, 1>>}

Symmetry == Permutations(Seqs)
=============================================================================
