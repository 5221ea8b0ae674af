------------------------------ MODULE MCCatalog ------------------------------
(* Small instances of Catalog for TLC.                                      *)
EXTENDS Catalog, TLC

CONSTANTS t1, t2, a1, a2, r1, r2

Shared == [t \in Taps |-> Apps]                                \* one namespace
Own    == [t \in Taps |-> IF t = t1 THEN {a1} ELSE Apps \ {a1}] \* one per tap

Symmetry == Permutations(Reqs)

CrawlingSpec == Crawling /\ Fairness
=============================================================================
