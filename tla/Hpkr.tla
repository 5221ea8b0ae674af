-------------------------------- MODULE Hpkr --------------------------------
(***************************************************************************)
(* The attributes of a repository catalog are a forest written as a stream: *)
(* an attribute that has children is followed by them and by an end mark.   *)
(* app/hpkr.py collects the packages from it (_walk, _collect_package,      *)
(* _skip_children), one action per attribute; the environment chooses the   *)
(* stream while it is read.  The value of an attribute is its place in the  *)
(* stream, or nothing ("" or 0).                                           *)
(***************************************************************************)
EXTENDS Naturals, SequencesExt

CONSTANTS
    Wanted,          \* ids: "name", "major" and others, those of _WANTED
    Others,          \* ids that are not wanted: "provides" and the like
    Lexemes,         \* BOUND: the attributes a stream is made of
    MaxDepth,        \* _MAX_ATTR_DEPTH
    MaxStream        \* BOUND: how many attributes and end marks a stream has

Attribute == [id : {"package"} \cup Wanted \cup Others, kids : BOOLEAN, void : BOOLEAN]
End       == [id |-> "end", kids |-> FALSE, void |-> FALSE]

ASSUME IdsAssumption == /\ {"name", "major"} \subseteq Wanted /\ MaxDepth \in Nat
                        /\ Lexemes \subseteq Attribute
                        /\ {"package", "end"} \cap (Wanted \cup Others) = {}
                        /\ Wanted \cap Others = {}

VARIABLES
    stream,     \* what was read so far
    stack,      \* of the calls: "walk", "collect" or "skip", the innermost last
    pkg,        \* the package at work: a function from wanted ids to values
    packages,   \* the packages that were appended
    verdict     \* "reads", "done" or "error"

pvars == <<stream, stack, pkg, packages, verdict>>

Lexeme  == {End} \cup Lexemes
Value(s, i) == IF s[i].void THEN 0 ELSE i

HpkrTypeOK ==
    /\ stream \in Seq(Lexeme)
    /\ stack \in Seq({"walk", "collect", "skip"}) /\ Len(stack) <= MaxDepth + 1
    /\ DOMAIN pkg \subseteq Wanted
    /\ \A k \in DOMAIN packages : DOMAIN packages[k] \subseteq Wanted
    /\ verdict \in {"reads", "done", "error"}

Empty == [x \in {} |-> 0]

HpkrInit ==
    /\ stream = <<>> /\ stack = <<"walk">> /\ pkg = Empty /\ packages = <<>>
    /\ verdict = "reads"

-----------------------------------------------------------------------------
In(f)     == verdict = "reads" /\ Last(stack) = f
Pop       == Front(stack)
\* on_package: a package without a name is dropped.
Appended(p) == IF "name" \in DOMAIN p /\ p["name"] # 0 THEN Append(packages, p) ELSE packages

Reads(x) ==
    /\ verdict = "reads" /\ Len(stream) < MaxStream             \* BOUND
    /\ stream' = Append(stream, x)

\* Calls the collector or the skipper one level down.
Calls(f) ==
    IF Len(stack) > MaxDepth
    THEN verdict' = "error" /\ UNCHANGED stack
    ELSE stack' = Append(stack, f) /\ UNCHANGED verdict

OpensPackage(x) ==
    /\ In("walk") /\ x.id = "package"
    /\ Reads(x)
    /\ IF x.kids
       THEN pkg' = Empty /\ Calls("collect") /\ UNCHANGED packages
       ELSE packages' = Appended(Empty) /\ UNCHANGED <<pkg, stack, verdict>>

Ignores(x) ==
    /\ In("walk") /\ x.id \notin {"package", "end"}
    /\ Reads(x)
    /\ IF x.kids THEN Calls("skip") ELSE UNCHANGED <<stack, verdict>>
    /\ UNCHANGED <<pkg, packages>>

\* The first value of a wanted id stays.
With(p, id, v) == IF id \in Wanted \ DOMAIN p
                  THEN [k \in DOMAIN p \cup {id} |-> IF k = id THEN v ELSE p[k]]
                  ELSE p

\* Mutant: every child list is collected.
DescendsAlways(id) == "collect"
\* Only the parts of the version are children that are collected.
Descends(id) == IF id = "major" THEN "collect" ELSE "skip"

Collects(x) ==
    /\ In("collect") /\ x.id # "end"
    /\ Reads(x)
    /\ pkg' = With(pkg, x.id, IF x.void THEN 0 ELSE Len(stream) + 1)
    /\ IF x.kids THEN Calls(Descends(x.id)) ELSE UNCHANGED <<stack, verdict>>
    /\ UNCHANGED packages

Skips(x) ==
    /\ In("skip") /\ x.id # "end"
    /\ Reads(x)
    /\ IF x.kids THEN Calls("skip") ELSE UNCHANGED <<stack, verdict>>
    /\ UNCHANGED <<pkg, packages>>

\* The end mark of a child list, or of everything.
Returns ==
    IF Len(stack) = 1
    THEN verdict' = "done" /\ UNCHANGED <<stack, packages>>
    ELSE /\ stack' = Pop
         /\ packages' = IF Last(stack) = "collect" /\ Len(stack) = 2
                        THEN Appended(pkg) ELSE packages
         /\ UNCHANGED verdict

ReadsEnd ==
    /\ Reads(End)
    /\ Returns
    /\ UNCHANGED pkg

\* The stream ends: every list that is open ends with it.
Eof ==
    /\ verdict = "reads"
    /\ verdict' = "done" /\ stack' = <<"walk">>
    /\ packages' = IF Len(stack) > 1 /\ stack[2] = "collect" THEN Appended(pkg) ELSE packages
    /\ UNCHANGED <<stream, pkg>>

HpkrNext == \/ \E x \in Lexeme : OpensPackage(x) \/ Ignores(x) \/ Collects(x) \/ Skips(x)
            \/ ReadsEnd \/ Eof

-----------------------------------------------------------------------------
(* The forest that a stream stands for.                                    *)
Depth(s, i)    == Cardinality({j \in 1 .. i - 1 : s[j].kids})
                  - Cardinality({j \in 1 .. i - 1 : s[j].id = "end"})
\* The containers that hold attribute i.
Above(s, i)    == {j \in 1 .. i - 1 : /\ s[j].kids
                                      /\ \A k \in j + 1 .. i : Depth(s, k) > Depth(s, j)}
Body(s)        == {i \in DOMAIN s : s[i].id # "end" /\ Depth(s, i) >= 0}
Tops(s)        == {i \in Body(s) : Depth(s, i) = 0 /\ s[i].id = "package"}
\* The attributes of package p and of its version, not of anything else in it.
Own(s, p)      == {i \in Body(s) : p \in Above(s, i) /\ \A j \in Above(s, i) \ {p} : s[j].id = "major"}
FirstOf(s, p, id) == {i \in Own(s, p) : s[i].id = id /\ \A j \in Own(s, p) : s[j].id = id => i <= j}
Described(s, p)   == [id \in {s[i].id : i \in Own(s, p)} \cap Wanted |->
                        Value(s, CHOOSE i \in FirstOf(s, p, id) : TRUE)]
Named(s)          == {p \in Tops(s) : "name" \in DOMAIN Described(s, p) /\ Described(s, p)["name"] # 0}

\* The packages that are listed are the named ones of the forest, in its order,
\* each with the first value of every attribute of its own: what its
\* dependencies say of their versions never shows in it ("skipped so their
\* version parts do not overwrite ours", _collect_package).
ListsPackages ==
    verdict = "done" =>
        LET named == Named(stream)
        IN  /\ Len(packages) = Cardinality(named)
            /\ \A p \in named :
                  packages[Cardinality({q \in named : q <= p})] = Described(stream, p)

(* What the code does not keep.                                            *)

\* A catalog that breaks off within a package is refused (HpkrError: "a catalog
\* we cannot parse (bad magic, unsupported compression, truncated)").
Closed(s, p)     == s[p].kids => \E i \in p + 1 .. Len(s) + 1 : Depth(s, i) = 0
TruncatedRefused == verdict = "done" => \A p \in Tops(stream) : Closed(stream, p)
=============================================================================
