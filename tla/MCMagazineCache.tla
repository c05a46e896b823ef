---- MODULE MCMagazineCache ----
EXTENDS MagazineCache, TLC
Sym == Permutations(Created) \cup Permutations(Handles \ Created) \cup Permutations(Slags)
====
