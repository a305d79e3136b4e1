---------------------------- MODULE MCProviders ----------------------------
EXTENDS Providers, TLC

Symmetry == Permutations(Ids) \cup Permutations(Calls)

====
