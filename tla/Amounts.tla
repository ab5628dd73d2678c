------------------------------ MODULE Amounts ------------------------------
(* Adding up the amounts of a set of executions.                           *)
EXTENDS Naturals, FiniteSets

\* One element per unit of amount f assigns to a member of S ...
Units(S, f) == UNION {{e} \X (1..f[e]) : e \in S}

\* ... so that their number is the sum of f over S.
Total(S, f) == Cardinality(Units(S, f))

=============================================================================
