----------------------------- MODULE MCTokenStorage -----------------------------
(* Instances of TokenStorage for TLC: a server that issues each access token  *)
(* with a refresh token of its own, or with none.                             *)
EXTENDS TokenStorage, TLC

CONSTANTS t1, t2, t3, r1, r2

MCPaired == {<<t1, r1>>, <<t2, r2>>, <<t3, NoRefresh>>}

Symmetry == Permutations(Procs)
=============================================================================
