----------------------------- MODULE MCExecutor -----------------------------
EXTENDS Executor, TLC

CONSTANTS u1, u2, t, weth, r, m, n

\* One wallet sells the token for WETH, the other one WETH for the token.
Permits ==
    {[owner |-> u1, sell |-> t, gross |-> 4, buy |-> weth, minOut |-> 1,
      nonce |-> 1],
     [owner |-> u2, sell |-> weth, gross |-> 4, buy |-> t, minOut |-> 2,
      nonce |-> 1]}
Routers ==
    [c \in Contract |-> IF c = r THEN "UNISWAP_V3_ROUTER02" ELSE "NONE"]
Modules == [c \in Contract |-> IF c \in {m, n} THEN r ELSE None]
Symmetry == Permutations({m, n})
=============================================================================
