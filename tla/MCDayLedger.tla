---------------------------- MODULE MCDayLedger ----------------------------
(* Small instances of DayLedger.                                           *)
EXTENDS DayLedger, TLC

\* Executions are interchangeable, and no run with it checks liveness.
ExecSymmetry == Permutations(Exec)

=============================================================================
