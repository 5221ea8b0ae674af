------------------------------ MODULE Versions ------------------------------
(***************************************************************************)
(* The order of Haiku versions (app/version.py).  A version string is a     *)
(* sequence of lexemes <<kind, rank, pad>>: a run of digits with its value  *)
(* and its leading zeros, or one other character with its code.            *)
(***************************************************************************)
EXTENDS Integers, SequencesExt

VersionLexeme == {"text", "digits"} \X Nat \X {0, 1}
Text(code)    == <<"text", code, 0>>
Digits(n)     == <<"digits", n, 0>>
Padded(n)     == <<"digits", n, 1>>                     \* 01, say
Dash          == Text(45)
Dot           == Text(46)
Tilde         == Text(126)
IsDigits(x)   == x[1] = "digits"

\* A run of digits is one lexeme.
WellFormed(s) == \A i \in 1 .. Len(s) - 1 : ~ (IsDigits(s[i]) /\ IsDigits(s[i + 1]))

-----------------------------------------------------------------------------
Places(s, x)  == {i \in DOMAIN s : s[i] = x}
First(S)      == CHOOSE i \in S : \A j \in S : i <= j
Until(s, x)   == IF Places(s, x) = {} THEN s ELSE SubSeq(s, 1, First(Places(s, x)) - 1)
After(s, x)   == IF Places(s, x) = {} THEN <<>> ELSE SubSeq(s, First(Places(s, x)) + 1, Len(s))

HasRevision(s) == Len(s) > 1 /\ IsDigits(s[Len(s)]) /\ s[Len(s) - 1] = Dash
Unrevised(s)   == IF HasRevision(s) THEN SubSeq(s, 1, Len(s) - 2) ELSE s
Core(s)        == Until(Unrevised(s), Tilde)

\* parse_version returns None without a core.
Parses(s) == Core(s) # <<>>

parse_version(s) ==
    [major       |-> Until(Core(s), Dot),
     minor       |-> Until(After(Core(s), Dot), Dot),
     micro       |-> After(After(Core(s), Dot), Dot),
     pre_release |-> After(Unrevised(s), Tilde),
     revision    |-> IF HasRevision(s) THEN s[Len(s)][2] ELSE 0]

-----------------------------------------------------------------------------
Sign(m, n) == IF m < n THEN -1 ELSE IF m > n THEN 1 ELSE 0

\* The order of the first pair that differs, else of the lengths.
Lexicographic(Compare(_, _), a, b) ==
    LET n       == IF Len(a) < Len(b) THEN Len(a) ELSE Len(b)
        differs == {i \in 1 .. n : Compare(a[i], b[i]) # 0}
    IN  IF differs = {} THEN Sign(Len(a), Len(b))
        ELSE Compare(a[First(differs)], b[First(differs)])

CompareChar(x, y) == Sign(x[2], y[2])

\* Mutant: whichever comes first ranks above.
CompareRunUnordered(x, y) ==
    CASE IsDigits(x[1]) /\ IsDigits(y[1])     -> Sign(x[1][2], y[1][2])
      [] IsDigits(x[1]) # IsDigits(y[1])      -> 1
      [] OTHER                                -> Lexicographic(CompareChar, x, y)

\* A run of digits ranks above a run of anything else.
CompareRun(x, y) ==
    CASE IsDigits(x[1]) /\ IsDigits(y[1])     -> Sign(x[1][2], y[1][2])
      [] IsDigits(x[1]) /\ ~ IsDigits(y[1])   -> 1
      [] ~ IsDigits(x[1]) /\ IsDigits(y[1])   -> -1
      [] OTHER                                -> Lexicographic(CompareChar, x, y)

\* (\d+|\D+): a lexeme is in the run that was the last to start.
RunStarts(s)   == {i \in DOMAIN s : i = 1 \/ IsDigits(s[i]) \/ IsDigits(s[i - 1])}
RunOf(s, i)    == Cardinality({j \in RunStarts(s) : j <= i})
RunPlaces(s, k) == {i \in DOMAIN s : RunOf(s, i) = k}
Runs(s) == [k \in 1 .. Cardinality(RunStarts(s)) |->
               SubSeq(s, First(RunPlaces(s, k)), Max(RunPlaces(s, k)))]

NaturalCompare(a, b) == Lexicographic(CompareRun, Runs(a), Runs(b))

\* A release is newer than its pre-releases.
ComparePre(p, q) ==
    CASE p = q                 -> 0
      [] p = <<>> /\ q # <<>>  -> 1
      [] p # <<>> /\ q = <<>>  -> -1
      [] OTHER                 -> NaturalCompare(p, q)

\* For strings that parse.
compare_versions(a, b) ==
    LET va    == parse_version(a)
        vb    == parse_version(b)
        by    == <<NaturalCompare(va.major, vb.major), NaturalCompare(va.minor, vb.minor),
                   NaturalCompare(va.micro, vb.micro),
                   ComparePre(va.pre_release, vb.pre_release), Sign(va.revision, vb.revision)>>
        tells == {i \in DOMAIN by : by[i] # 0}
    IN  IF tells = {} THEN 0 ELSE by[First(tells)]
=============================================================================
