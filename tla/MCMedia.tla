------------------------------- MODULE MCMedia -------------------------------
(* Small instances of Media for TLC.                                        *)
EXTENDS Media

CONSTANTS r1, r2

\* "genio" and its mirror are copies of one app, "yab" is another one.
MCApps  == {"genio", "mirror", "yab"}
MCGroup == [a \in MCApps |-> IF a = "yab" THEN "yab" ELSE "genio"]
MCRank  == [a \in MCApps |-> IF a = "mirror" THEN 2 ELSE 0]
MCSize  == [a \in MCApps \cup {"shot"} |-> IF a \in {"mirror", "shot"} THEN 2 ELSE 1]

MCAsked == {<<"icons", "genio">>, <<"icons", "yab">>, <<"screenshots", "shot">>}

MCAskedHvif == {"hvif"} \X MCApps

Symmetry == Permutations(Reqs)

\* BOUND: uploads and the cache share no file, so a behaviour that has both is
\* one of each side by side; only behaviours of one kind are explored.
Apart == \/ cache = <<>> /\ misses = {} /\ \A r \in Reqs : ~ (req[r] # NoReq /\ req[r].op = "get")
         \/ acked = {} /\ \A m \in Images : assets[m] = None
=============================================================================
