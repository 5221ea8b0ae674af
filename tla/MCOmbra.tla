------------------------------- MODULE MCOmbra -------------------------------
(* Small instances of Ombra for TLC.                                        *)
EXTENDS Ombra, TLC

CONSTANTS a1, a2, r1, r2

\* The manifests name x86_64 only; the second release of "new" has no package
\* for it and the releases of "old" ship one for the 32-bit arch as well.
ListedOne == [c \in Configs |-> {"x86_64"}]
ShipsSome == [c \in Configs |-> [v \in Versions |->
                IF c = "new" THEN (IF v = 2 THEN {} ELSE {"x86_64"})
                ELSE {"x86_64", "x86_gcc2"} \cap Arches]]

\* Nothing tells apps apart.
AppSymmetry == Permutations(Apps)

\* The channel of an app is not changed, one crawl runs at a time, and polls ask
\* for no arch in particular (which one is asked for decides the answer only).
SettledNext ==
    \/ \E r \in Reqs : \/ ResolveStep(r) \/ CrawlStep(r)
                       \/ \E a \in Apps : BeginResolve(r, a, None)
    \/ BeginCrawl(r1)
    \/ (\E c \in Configs : Publish(c)) \/ \E a \in Apps : Expire(a)
SettledSpec == Init /\ [][SettledNext]_vars /\ Fairness(r1)
=============================================================================
