------------------------------- MODULE Publish -------------------------------
(* The publish form (app/main.py), the schema and its dump (app/schemas.py)    *)
(* and the crawl that reads the file back (app/ingest.py). A text is empty,    *)
(* right for its field, wrong for it, or longer than a file of a tap may be.   *)
EXTENDS Naturals, FiniteSets

CONSTANT MaxDiffer  \* BOUND: in how many fields a form differs from a full or bare one

ASSUME DifferAssumption == MaxDiffer \in Nat

Texts  == {"", "right", "wrong", "huge"}
Fields == {"id", "name", "summary", "description", "bacaro", "homepage", "license", "icon",
           "categories", "author_name", "author_contact", "packager_name", "haikuports",
           "screenshots", "version", "arch", "hpkg_url", "sha256"}
Sent == {"id", "name", "summary", "bacaro"}

\* A manifest: the keys it has. An object has no value of its own, but for the one
\* artifact: the name of its key is the author's.
Children == [author |-> {"author_name", "author_contact"}, packager |-> {"packager_name", "bacaro"},
             bridge |-> {"haikuports"}, channels |-> {"stable"},
             stable |-> {"version", "kind", "artifacts", "requires", "prerelease"},
             artifacts |-> {"arch"}, arch |-> {"hpkg_url", "sha256"}]
Objects == DOMAIN Children
\* Of these the models have no default.
Required == [author |-> {"author_name"}, packager |-> {"packager_name", "bacaro"}, bridge |-> {},
             channels |-> {"stable"}, stable |-> {}, artifacts |-> {}, arch |-> {"hpkg_url"}]
Default == [summary |-> "", description |-> "", categories |-> "", screenshots |-> "",
            kind |-> "right", artifacts |-> "object", requires |-> "", prerelease |-> "no"]
\* The default manifests of objects that have one hang below them.
Hanging == {"kind", "artifacts", "requires", "prerelease"}

Checked == {"id", "homepage", "icon", "hpkg_url", "author_contact", "screenshots"}
Capped  == {"id", "name", "summary", "description", "license", "homepage", "icon", "hpkg_url",
            "screenshots"}

VARIABLES form, stage, doc, file

publish_vars == <<form, stage, doc, file>>

Full == [f \in Fields |-> "right"]
Bare == [f \in Fields |-> IF f \in Sent THEN "right" ELSE ""]

PublishInit ==
    /\ \E base \in {Full, Bare}, n \in 0 .. MaxDiffer :
          \E few \in {s \in SUBSET Fields : Cardinality(s) = n} : \E other \in [few -> Texts] :
             form = [f \in Fields |-> IF f \in few THEN other[f] ELSE base[f]]
    /\ stage = "form" /\ doc = <<>> /\ file = <<>>

-----------------------------------------------------------------------------
Filled(f) == form[f] # ""

\* Mutant: nobody stands in for a packager who is not named.
PackagerGiven == form["packager_name"]
\* The author stands in, or the account's email.
Packager == IF Filled("packager_name") THEN form["packager_name"]
            ELSE IF Filled("author_name") THEN form["author_name"] ELSE "right"

\* `or None`: an empty optional field has no key; a list of none is empty.
Keys ==
    {"id", "name", "summary", "description", "screenshots", "categories", "packager",
     "packager_name", "bacaro", "channels", "stable", "kind", "artifacts"}
    \cup {f \in {"homepage", "license", "icon", "version"} : Filled(f)}
    \cup (IF Filled("author_name") THEN {"author", "author_name"} ELSE {})
    \cup (IF Filled("author_name") /\ Filled("author_contact") THEN {"author_contact"} ELSE {})
    \cup (IF Filled("haikuports") THEN {"bridge", "haikuports"} ELSE {})
    \cup (IF Filled("arch") /\ Filled("hpkg_url") THEN {"arch", "hpkg_url"} ELSE {})
    \cup (IF Filled("arch") /\ Filled("hpkg_url") /\ Filled("sha256") THEN {"sha256"} ELSE {})
Built ==
    [k \in Keys |-> CASE k \in Objects \ {"arch"} -> "object"
                      [] k = "kind"            -> "right"
                      [] k = "packager_name"   -> Packager
                      [] OTHER                 -> form[k]]

(* Cicheto.model_validate                                                  *)
Has(d, k)    == k \in DOMAIN d
Fine(d, k)   == /\ d[k] = "wrong" => k \notin Checked
                /\ d[k] = "huge" => k \notin Capped
                /\ k \in {"id", "name"} => d[k] # ""
Valid(d) ==
    /\ {"id", "name", "channels"} \subseteq DOMAIN d
    /\ \A o \in Objects : Has(d, o) => Required[o] \subseteq DOMAIN d
    /\ \A k \in DOMAIN d : Fine(d, k)
\* What the model holds: a key that has a default is there.
Model(d) ==
    LET there == {k \in DOMAIN Default : k \notin Hanging \/ Has(d, "stable")}
    IN  [k \in DOMAIN d \cup there |-> IF Has(d, k) THEN d[k] ELSE Default[k]]

\* prune: what is empty is left out, judged before its children are pruned.
Blanked(d, k) ==
    \/ k \notin Objects /\ d[k] = ""
    \/ k \in Objects /\ Children[k] \cap DOMAIN d = {}
    \/ k = "prerelease" /\ d[k] = "no"
Pruned(d) == [k \in {j \in DOMAIN d : ~ Blanked(d, j)} |-> d[k]]

TooLong(d) == \E k \in DOMAIN d : d[k] = "huge"

Generates ==
    /\ stage = "form" /\ Valid(Built)
    /\ stage' = "downloaded" /\ doc' = Model(Built) /\ file' = Pruned(Model(Built))
    /\ UNCHANGED form
Refuses ==
    /\ stage = "form" /\ ~ Valid(Built)
    /\ stage' = "422"
    /\ UNCHANGED <<form, doc, file>>

\* The author commits the file, a crawl reads it.
Ingests ==
    /\ stage = "downloaded" /\ ~ TooLong(file) /\ Valid(file)
    /\ stage' = "ingested" /\ file' = Model(file)
    /\ UNCHANGED <<form, doc>>
Fails ==
    /\ stage = "downloaded" /\ (TooLong(file) \/ ~ Valid(file))
    /\ stage' = "failed"
    /\ UNCHANGED <<form, doc, file>>

PublishNext == Generates \/ Refuses \/ Ingests \/ Fails
PublishSpec == PublishInit /\ [][PublishNext]_publish_vars

-----------------------------------------------------------------------------

\* A file the form has given away is read by a crawl as the manifest it was made
\* of, although the dump leaves out what was empty and the schema has keys it asks
\* for: but for a tap that was left blank, and for texts that have no limit of
\* their own (publish_generate: "if it passes here, it passes ingest").
PassesIngest ==
    /\ stage = "failed" => ~ Filled("bacaro") \/ TooLong(doc)
    /\ stage = "ingested" => file = doc

\* Not kept: without the exceptions.
AlwaysPasses == stage # "failed"

=============================================================================
