------------------------------ MODULE MCLibrary ------------------------------
(* Small instances of Library for TLC.                                      *)
EXTENDS Library, TLC

CONSTANTS u1, u2, r1, r2

Symmetry == Permutations(Reqs) \cup Permutations(Users)

\* A daemon that polls and never confirms, and a user who keeps the account:
\* rows leave "pending" by no other way than the one under test.
PollingNext ==
    \/ \E r \in Reqs, u \in Users :
         \/ \E a \in Apps, c \in Channels, x \in Arches : BeginQueue(r, u, a, c, x)
         \/ \E a \in Apps : BeginRemove(r, u, a)
         \/ BeginPoll(r, u)
    \/ \E r \in Reqs : Step(r)
    \/ CatalogStep
PollingSpec == Init /\ [][PollingNext]_vars /\ Fairness
=============================================================================
