---------------------------- MODULE MCSettlement ----------------------------
\* Instances of Settlement for TLC.
EXTENDS Settlement, TLC

\* All weeks fall in one season.
OneSeason == [w \in Week |-> 1]
Symmetry == Permutations(Job) \union Permutations(Player)

\* Bounds of the run: where the mutex may expire under its holder, writes
\* land late and weeks are reset, at most one player is eligible, and logs stay
\* in the queried window (a job that misses one ends as one that throws does).
Bounded ==
    ~orderly => aged = 0 /\ \A w \in Week : Cardinality(entered[w]) <= 1

\* A job about to leave reads nothing of what it knows any more.
Live ==
    <<given, records, lock, chain, attempts,
      [j \in Job |-> IF At(j, "unlock")
                     THEN [Idle EXCEPT !.pc = "unlock", !.week = Week_(j)]
                     ELSE job[j]]>>

=============================================================================
