----------------------------- MODULE MCRepoProxy -----------------------------
(* Small instances of RepoProxy for TLC: h1 and h2 are two versions of one     *)
(* vendor's package, h3 is another vendor's, j is a file that is no package.   *)
EXTENDS RepoProxy, TLC

CONSTANTS s1, s2, h1, h2, h3, j, x, g1, g2, f1, f2, b1, b2, u1, u2

GroupDef == [h \in Hpkgs |-> IF h = h3 THEN g2 ELSE g1]
FileDef  == [h \in Hpkgs |-> IF h = h1 THEN f1 ELSE f2]

Symmetry == Permutations(Slots) \cup Permutations(Builds) \cup Permutations(Uuids)

\* Pins change only while a build could begin: a build reads them all when it
\* begins and never again, so a change at another time is one before the next.
PinsMove == \E b \in Builds : build[b] = Idle
IdlePinsNext ==
    \/ \E b \in Builds : Rebuild(b) \/ Stops(b)
    \/ PinsMove /\ \E s \in Slots, h \in Hpkgs \cup {None} : Pin(s, h)
IdlePinsSpec == Init /\ [][IdlePinsNext]_vars
=============================================================================
