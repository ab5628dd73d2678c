--------------------------- MODULE MCGameSession ---------------------------
EXTENDS GameSession, TLC

Symmetry == Permutations(Session) \union Permutations(Reward)

=============================================================================
