---- MODULE MCLocalCache ----
EXTENDS LocalCache, TLC
Sym == Permutations(Created) \cup Permutations(Handles \ Created) \cup Permutations(Slags)
====
