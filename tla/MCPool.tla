------------------------------- MODULE MCPool -------------------------------
EXTENDS Pool, TLC
CONSTANTS u1, u2, u3, p1, k1, c1, c2, c3
Sym == Permutations(Users) \cup Permutations(Ctxs)
=============================================================================
