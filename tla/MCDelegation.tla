---------------------------- MODULE MCDelegation ----------------------------
EXTENDS Delegation, TLC

Symmetry == Permutations(Call) \union Permutations(Server)
            \union Permutations(Post)

\* Bounds of the run: requests that overlap have one slot each to save, and one
\* thing happens besides: a revocation, a kill or a change of the switch.
\* (What a killed call or request leaves behind, one that fails may leave too.)
Bounded ==
    /\ (\E p \in Post : Len(post[p].todo) > 1) => Cardinality(InPost) = 1
    /\ kills + switches + revokes <= 1

=============================================================================
