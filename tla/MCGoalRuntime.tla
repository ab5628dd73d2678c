--------------------------- MODULE MCGoalRuntime ---------------------------
(* Small instances of GoalRuntime.                                         *)
EXTENDS GoalRuntime, TLC

\* Ticks are interchangeable; used by the runs without liveness only.
TickSymmetry == Permutations(Tick)

=============================================================================
