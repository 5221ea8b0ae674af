------------------------------- MODULE Imports -------------------------------
(* Apps of another Haiku repository: an admin imports what its catalog lists   *)
(* (import_hpkr), and /resolve reads the catalog again for every answer        *)
(* (app/main.py, app/hpkr.py); the repository changes when it likes.           *)
EXTENDS Naturals, FiniteSets, SequencesExt

CONSTANTS
    Importers,      \* import requests that may be under way
    Listings,       \* BOUND: the catalogs the repository may have
    Legal,          \* the package names that make an id the schema takes
    MaxListings     \* BOUND: how often the repository changes

Package == [name : STRING, architecture : STRING, version : Nat]

ASSUME ImportsConstants ==
    /\ \A listed \in Listings : listed \in Seq(Package)
    /\ MaxListings \in Nat

VARIABLES
    listing,    \* the catalog of the repository
    listings,   \* how often it has changed
    imported,   \* package name -> version: the rows of the tap, and their channel
    source,     \* the catalog that these rows were made of
    importing,  \* [Importers -> the packages read, or none]
    resolving,  \* the request to /resolve, with its answer
    steady,     \* the names that every catalog so far has listed
    once        \* the names that have had a row

imports_vars ==
    <<listing, listings, imported, source, importing, resolving, steady, once>>

NamesOf(packages) == {p.name : p \in ToSet(packages)}
NoAnswer == [status |-> "idle"]

ImportsInit ==
    /\ listing \in Listings /\ listings = 0
    /\ imported = <<>> /\ source = <<>>
    /\ importing = [i \in Importers |-> <<>>]
    /\ resolving = NoAnswer
    /\ steady = NamesOf(listing) /\ once = {}

-----------------------------------------------------------------------------
\* The repository publishes another catalog.
Relists(packages) ==
    /\ listings < MaxListings
    /\ listing' = packages /\ listings' = listings + 1
    /\ steady' = steady \cap NamesOf(packages)
    /\ UNCHANGED <<imported, source, importing, resolving, once>>

\* Mutant: what arrived of a catalog is read as far as it goes.
ParsedPart(whole) == IF whole THEN listing ELSE Tail(listing)
\* A fetch that fails, is refused or brings what is no catalog: no packages.
Parsed(whole) == IF whole THEN listing ELSE <<>>

\* Without packages the request ends here, with a 404 or a 502.
ReadsCatalog(i, whole) ==
    /\ importing[i] = <<>> /\ (listing = <<>> => whole)
    /\ importing' = [importing EXCEPT ![i] = Parsed(whole)]
    /\ UNCHANGED <<listing, listings, imported, source, resolving, steady, once>>

\* A file is named for its package: of two with one name, the later one stays. A
\* manifest that the schema refuses is left out.
Written(packages) ==
    [n \in NamesOf(packages) \cap Legal |->
        packages[SelectLastInSeq(packages, LAMBDA p : p.name = n)].version]

\* ingest_directory: the rows of the tap become those of the files.
Commits(i) ==
    /\ importing[i] # <<>>
    /\ imported' = Written(importing[i]) /\ source' = importing[i]
    /\ once' = once \cup DOMAIN imported'
    /\ importing' = [importing EXCEPT ![i] = <<>>]
    /\ UNCHANGED <<listing, listings, resolving, steady>>
CommitFails(i) ==
    /\ importing[i] # <<>>
    /\ importing' = [importing EXCEPT ![i] = <<>>]
    /\ UNCHANGED <<listing, listings, imported, source, resolving, steady, once>>

\* GET /resolve: the row is loaded; arch "" is none.
Asks(n, arch) ==
    /\ resolving.status \notin {"fetch"}
    /\ resolving' =
         IF n \in DOMAIN imported
         THEN [status |-> "fetch", name |-> n, arch |-> arch, version |-> imported[n],
               source |-> source]
         ELSE [status |-> "404", name |-> n, due |-> n \in steady \cap once]
    /\ UNCHANGED <<listing, listings, imported, source, importing, steady, once>>

\* resolve_from_repo: for each architecture the last package of the name.
Found(packages, n, arch) ==
    LET hits == {p \in ToSet(packages) : p.name = n /\ arch \in {"", p.architecture}}
        at(a) == SelectLastInSeq(packages, LAMBDA p : p.name = n /\ p.architecture = a)
    IN  [a \in {p.architecture : p \in hits} |-> packages[at(a)].version]

Answers502(whole) ==
    /\ resolving.status = "fetch"
    /\ Found(Parsed(whole), resolving.name, resolving.arch) = <<>>
    /\ resolving' = [status |-> "502", name |-> resolving.name, arch |-> resolving.arch,
                     listed |-> Parsed(whole)]
    /\ UNCHANGED <<listing, listings, imported, source, importing, steady, once>>
Answers200 ==
    /\ resolving.status = "fetch"
    /\ Found(listing, resolving.name, resolving.arch) # <<>>
    /\ resolving' = [status |-> "200", name |-> resolving.name, arch |-> resolving.arch,
                     version |-> resolving.version, listed |-> listing,
                     calm |-> resolving.source = listing,
                     artifacts |-> Found(listing, resolving.name, resolving.arch)]
    /\ UNCHANGED <<listing, listings, imported, source, importing, steady, once>>

ImportsNext ==
    \/ \E packages \in Listings : Relists(packages)
    \/ \E i \in Importers : Commits(i) \/ CommitFails(i)
    \/ \E i \in Importers, whole \in BOOLEAN : ReadsCatalog(i, whole)
    \/ \E n \in UNION {NamesOf(l) : l \in Listings}, arch \in {"", "x86_64"} : Asks(n, arch)
    \/ \E whole \in BOOLEAN : Answers502(whole)
    \/ Answers200

ImportsSpec == ImportsInit /\ [][ImportsNext]_imports_vars

-----------------------------------------------------------------------------

\* An app that the repository has listed all along and that was imported once is
\* always resolved, whatever fetches fail and however imports overlap: its page is
\* never missing, and a catalog that is read has it; and when the catalog is the
\* one its row was made of, the version told for all architectures is that of one
\* of the packages (import_hpkr and resolve: "each cichéto resolves live").
ImportedResolves ==
    /\ resolving.status = "404" => ~ resolving.due
    /\ resolving.status = "502" /\ resolving.arch = "" /\ resolving.listed # <<>> =>
          resolving.name \notin steady
    /\ resolving.status = "200" /\ resolving.arch = "" /\ resolving.calm =>
          \E a \in DOMAIN resolving.artifacts : resolving.artifacts[a] = resolving.version

\* Not kept: the version told is that of the package handed out (resolve): it is
\* the one of the import, and of whichever architecture was listed last.
ToldAsHanded ==
    resolving.status = "200" /\ resolving.arch # "" =>
        resolving.artifacts[resolving.arch] = resolving.version

\* Not kept: a package for any architecture is found for each (resolve_from_repo).
AnyServesEach ==
    resolving.status = "502" /\ resolving.listed # <<>> =>
        \A p \in ToSet(resolving.listed) :
            p.name = resolving.name => p.architecture # "any"

\* Not kept: "create an hpkr-repo cichéto for every package it lists" (import_hpkr).
EveryPackage == source # <<>> => NamesOf(source) = DOMAIN imported

=============================================================================
