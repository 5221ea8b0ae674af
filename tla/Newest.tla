------------------------------- MODULE Newest -------------------------------
(***************************************************************************)
(* Which copy of an app is the latest: _also_in_sources and _pick_newest in *)
(* app/main.py, one action per round of the loop.  A copy is known by its   *)
(* place among the copies; it has a version string or none (<<>>).          *)
(***************************************************************************)
EXTENDS Versions

CONSTANTS Strings,    \* the version strings of the copies
          MaxCopies   \* BOUND: how many copies an app has

ASSUME CopiesAssumption ==
    /\ MaxCopies \in Nat \ {0, 1}
    /\ \A s \in Strings : s \in Seq(VersionLexeme) /\ WellFormed(s)

VARIABLES
    copies,     \* the versions of the copies, of other repositories first
    best, tie,  \* of the loop: the place of the best so far, if it has an equal
    next,       \* the place the loop looks at next; 0 when it has ended
    newest      \* the place of the latest copy, 0 for None

nvars == <<copies, best, tie, next, newest>>

Unknown == <<>>
Known   == {k \in DOMAIN copies : copies[k] # Unknown}
NoLoop  == best = 0 /\ tie = FALSE /\ next = 0 /\ newest = 0

NewestTypeOK ==
    /\ copies \in Seq(Strings \cup {Unknown})
    /\ {best, next, newest} \subseteq 0 .. Len(copies)
    /\ tie \in BOOLEAN

\* An app without twins is not compared.
NewestInit ==
    /\ \E n \in 2 .. MaxCopies : copies \in [1 .. n -> Strings \cup {Unknown}]
    /\ IF Known = {}
       THEN NoLoop
       ELSE best = First(Known) /\ next = First(Known) /\ tie = FALSE /\ newest = 0

Goes(k)     == IF \E j \in Known : j > k THEN First({j \in Known : j > k}) ELSE 0
Readable  == {s \in Strings : Parses(s)}
Order     == [s \in Readable |-> [t \in Readable |-> compare_versions(s, t)]]
Cmp(j, k) == Order[copies[j]][copies[k]]

\* The pool holds one version: there is nothing to compare it with.
Alone ==
    /\ next # 0 /\ next = best
    /\ Goes(next) = 0
    /\ next' = 0 /\ newest' = best
    /\ UNCHANGED <<copies, best, tie>>

Enters ==
    /\ next # 0 /\ next = best
    /\ Goes(next) # 0
    /\ next' = Goes(next)
    /\ UNCHANGED <<copies, best, tie, newest>>

Declines ==
    /\ next # 0 /\ next # best
    /\ ~ (Parses(copies[next]) /\ Parses(copies[best]))
    /\ next' = 0
    /\ UNCHANGED <<copies, best, tie, newest>>

\* Mutant: an old tie outlives a better candidate.
TieKept(c) == tie \/ c = 0
TieOf(c)   == IF c > 0 THEN FALSE ELSE tie \/ c = 0

Compares ==
    /\ next # 0 /\ next # best
    /\ Parses(copies[next]) /\ Parses(copies[best])
    /\ LET c == Cmp(next, best)
       IN  /\ best' = IF c > 0 THEN next ELSE best
           /\ tie' = TieOf(c)
    /\ next' = Goes(next)
    /\ newest' = IF next' = 0 /\ ~ tie' THEN best' ELSE 0
    /\ UNCHANGED copies

NewestNext == Alone \/ Enters \/ Declines \/ Compares

NewestSpec == NewestInit /\ [][NewestNext]_nvars

-----------------------------------------------------------------------------
(* Properties.                                                             *)

\* The latest copy is the one that is newer than every other copy with a
\* version, in whatever order the copies come, and none if there is no such
\* copy or one cannot be compared ("Refusing to pick beats picking wrong",
\* _pick_newest).
NewerThanAll(k) == \A j \in Known \ {k} : /\ Parses(copies[j]) /\ Parses(copies[k])
                                          /\ Cmp(k, j) > 0
PicksTheLatest ==
    next = 0 => IF \E k \in Known : NewerThanAll(k)
                THEN newest \in Known /\ NewerThanAll(newest)
                ELSE newest = 0

\* The comparison orders the versions of any copies: one is newer than another
\* exactly if that one is older, and older and equal are transitive
\* (compare_versions).
Ordered ==
    LET P == {k \in Known : Parses(copies[k])}
    IN  next = 0 =>
          \A i, j, k \in P :
            /\ Cmp(i, j) = - Cmp(j, i)
            /\ Cmp(i, j) <= 0 /\ Cmp(j, k) <= 0 => Cmp(i, k) <= 0
            /\ Cmp(i, j) = 0 /\ Cmp(j, k) = 0 => Cmp(i, k) = 0

(* What the code does not keep.                                            *)

\* No latest copy is named when the version of one is unknown ("None when
\* versions cannot be compared (unknown/ombra/unparseable)", _also_in_sources).
UnknownDeclines == Known # DOMAIN copies => newest = 0
=============================================================================
