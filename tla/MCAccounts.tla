------------------------------ MODULE MCAccounts ------------------------------
EXTENDS Accounts, TLC
CONSTANTS u1, u2, k1, k2, k3, h1, h2
Symmetric == Permutations(Tokens) \cup Permutations(Handlers)
===============================================================================
