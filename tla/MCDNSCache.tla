----------------------------- MODULE MCDNSCache -----------------------------
EXTENDS DNSCache, TLC
CONSTANTS t1, t2, h1, h2
OneEach == (h1 :> 1) @@ (h2 :> 1)
Symmetry == Permutations(Threads)
=============================================================================
