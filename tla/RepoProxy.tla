------------------------------ MODULE RepoProxy ------------------------------
(***************************************************************************)
(* The repository HaikuDepot reads (app/repo_proxy.py, and the rebuild in   *)
(* app/main.py).  A build fetches every pinned hpkg into a cache, groups    *)
(* them by the vendor and architecture found inside, and for each group     *)
(* writes a directory that is served as it is: repo.info, the packages,     *)
(* the catalog `repo` made by package_repo, and repo.sha256.                *)
(*                                                                         *)
(* Every ingestion ends with a build and nothing keeps two builds apart:    *)
(* they share the cache, its `.part` files and the served directories.      *)
(***************************************************************************)
EXTENDS Naturals, FiniteSets

CONSTANTS
    Slots,           \* stable artifacts by cicheto id and arch: one cache file each
    Hpkgs,           \* contents of a file, as told apart by their sha256
    Junk,            \* those that are not packages: `package list` fails
    Bare,            \* packages whose .PackageInfo lacks a field
    Groups, Group,   \* (vendor, arch), and [Hpkgs -> Groups] as .PackageInfo tells
    Files, File,     \* canonical file names, and [Hpkgs -> Files]
    Builds,          \* build slots: how many builds may run at once
    Uuids,           \* the identifiers that uuid4 may return
    ToolFails,       \* TRUE: package_repo may fail on a set that is fine
    Crashes,         \* TRUE: the server may stop
    Torn,            \* a file that is not written to its end
    None, Idle

Contents == Hpkgs \cup {Torn}
Pins     == [Slots -> Hpkgs \cup {None}]
Dir      == [ident: Uuids \cup {None}, info: Uuids \cup {None},
             catalog: {None} \cup SUBSET Hpkgs, sum: {None} \cup SUBSET Hpkgs,
             packages: [Files -> Contents \cup {None}]]
Build    == [pc: {"fetch", "write", "verify", "replace", "meta", "group", "ident", "newident",
                  "info", "stage", "copy", "fill", "tool", "hash", "sum"},
             want: Pins, todo: SUBSET Slots, slot: Slots \cup {None},
             file: {"none", "part", "cache"},     \* what the open file is, by now
             groups: [Groups -> SUBSET Slots], group: Groups \cup {None},
             ident: Uuids \cup {None}, left: SUBSET Slots, names: SUBSET Files,
             name: Files \cup {None},                 \* the copy, until it loses its name
             source: Contents \cup {None},            \* what is copied
             shared: BOOLEAN,                         \* another build had the same file open
             sum: {None} \cup SUBSET Hpkgs,
             alone: BOOLEAN]                      \* no other build ran meanwhile

ASSUME PackageAssumption == /\ Group \in [Hpkgs -> Groups] /\ File \in [Hpkgs -> Files]
                            /\ Junk \cup Bare \subseteq Hpkgs
ASSUME NullAssumption    == /\ None \notin Contents \cup Uuids \cup Slots \cup Groups \cup Files
                            /\ \A c \in SUBSET Hpkgs : None # c
                            /\ Torn \notin Hpkgs /\ Idle \notin Build
ASSUME FlagAssumption    == {ToolFails, Crashes} \subseteq BOOLEAN

VARIABLES
    pin,        \* the stable artifacts in the catalog, with their sha256
    cache,      \* the cached file of each artifact
    part,       \* its `.part` file
    dir,        \* the served directory of each group
    build       \* [Builds -> Build or Idle]

vars == <<pin, cache, part, dir, build>>

TypeOK ==
    /\ pin \in Pins
    /\ cache \in [Slots -> Contents \cup {None}]
    /\ part \in [Slots -> Contents \cup {None}]
    /\ dir \in [Groups -> Dir]
    /\ \A b \in Builds : build[b] = Idle \/ build[b] \in Build

Empty == [ident |-> None, info |-> None, catalog |-> None, sum |-> None,
          packages |-> [f \in Files |-> None]]

Init ==
    /\ pin = [s \in Slots |-> None]
    /\ cache = [s \in Slots |-> None]
    /\ part = [s \in Slots |-> None]
    /\ dir = [g \in Groups |-> Empty]
    /\ build = [b \in Builds |-> Idle]

-----------------------------------------------------------------------------
At(b, pc)   == build[b] # Idle /\ build[b].pc = pc
Goto(b, q)  == build' = [build EXCEPT ![b] = q]
\* An exception that is no RepoProxyError: no group is built any more (500).
Abort(b)    == Goto(b, Idle)
Artifact(b) == build[b].want[build[b].slot]

\* A file is opened for writing that the builds in with have open.
Sharing(b, q, with) ==
    [c \in Builds |-> IF c = b THEN [q EXCEPT !.shared = with # {}]
                      ELSE IF c \in with THEN [build[c] EXCEPT !.shared = TRUE]
                      ELSE build[c]]

\* The open files of the other builds follow the file, not its name.
Renamed(b, q, s, from, to) ==
    [c \in Builds |->
        IF c = b THEN q
        ELSE IF build[c] # Idle /\ build[c].slot = s /\ build[c].file = from
             THEN [build[c] EXCEPT !.file = to] ELSE build[c]]
Unlink(b, q, s) ==
    /\ part' = [part EXCEPT ![s] = None]
    /\ build' = Renamed(b, q, s, "part", "none")

(* _rebuild_all_repos                                                      *)
Begin(b) ==
    /\ build[b] = Idle
    /\ LET others == {c \in Builds : build[c] # Idle}
           q == [pc |-> "fetch", want |-> pin, todo |-> {s \in Slots : pin[s] # None},
                 slot |-> None, file |-> "none", groups |-> [g \in Groups |-> {}],
                 group |-> None, ident |-> None, left |-> {}, names |-> {}, name |-> None,
                 source |-> None, shared |-> FALSE, sum |-> None, alone |-> others = {}]
       IN  build' = [c \in Builds |-> IF c = b THEN q
                                      ELSE IF c \in others THEN [build[c] EXCEPT !.alone = FALSE]
                                      ELSE Idle]
    /\ UNCHANGED <<pin, cache, part, dir>>

(* fetch_verified                                                          *)
\* Mutant: a file that is there is reused, whatever it holds.
ReusableAny(s, h) == cache[s] # None
Reusable(s, h) == cache[s] = h

\* This artifact is an error of the answer; the next one.
Skipped(q) == [q EXCEPT !.pc = "fetch", !.slot = None, !.file = "none", !.shared = FALSE]
Chosen(q, s) == [q EXCEPT !.todo = @ \ {s}, !.slot = s]

FetchCached(b) ==
    /\ At(b, "fetch")
    /\ \E s \in build[b].todo :
         /\ Reusable(s, build[b].want[s])
         /\ Goto(b, [Chosen(build[b], s) EXCEPT !.pc = "meta"])
    /\ UNCHANGED <<pin, cache, part, dir>>

FetchOpens(b) ==
    /\ At(b, "fetch")
    /\ \E s \in build[b].todo :
         LET with == {c \in Builds \ {b} : /\ At(c, "write") /\ build[c].slot = s
                                          /\ build[c].file = "part"}
             q == [Chosen(build[b], s) EXCEPT !.pc = "write", !.file = "part"]
         IN  /\ ~ Reusable(s, build[b].want[s])
             /\ part' = [part EXCEPT ![s] = Torn]
             /\ build' = Sharing(b, q, with)
    /\ UNCHANGED <<pin, cache, dir>>

\* The URL is refused: nothing is touched. If it is one the server redirects to,
\* nobody catches the BlockedURLError.
FetchRefused(b) ==
    /\ At(b, "fetch")
    /\ \E s \in build[b].todo :
         /\ ~ Reusable(s, build[b].want[s])
         /\ Goto(b, Skipped(Chosen(build[b], s))) \/ Abort(b)
    /\ UNCHANGED <<pin, cache, part, dir>>

\* No connection, or it breaks, or the file is too large: the partial file goes,
\* be it this build's or another's.
FetchFails(b) ==
    /\ \/ /\ At(b, "fetch")
          /\ \E s \in build[b].todo :
               /\ ~ Reusable(s, build[b].want[s])
               /\ Unlink(b, Skipped(Chosen(build[b], s)), s)
       \/ At(b, "write") /\ Unlink(b, Skipped(build[b]), build[b].slot)
    /\ UNCHANGED <<pin, cache, dir>>

\* The file that b writes to holds now, wherever its name is; who copies from it
\* reads some of that.
Writes(b, q, now) ==
    LET p == build[b]
    IN  /\ part'  = IF p.file = "part"  THEN [part EXCEPT ![p.slot] = now] ELSE part
        /\ cache' = IF p.file = "cache" THEN [cache EXCEPT ![p.slot] = now] ELSE cache
        /\ \E seen \in {now, Torn} :
             build' = [c \in Builds |->
                         IF c = b THEN q
                         ELSE IF /\ At(c, "fill") /\ build[c].slot = p.slot
                                 /\ build[c].file = "cache" /\ p.file = "cache"
                              THEN [build[c] EXCEPT !.source = seen] ELSE build[c]]

\* The last bytes are written. The author's server may send anything; where another
\* build had the same file open, so may the file hold, and before that too.
FetchWrites(b) ==
    /\ At(b, "write")
    /\ \E now \in Contents :
         /\ now = Torn => build[b].shared
         /\ Writes(b, [build[b] EXCEPT !.pc = "verify", !.file = "none", !.shared = FALSE], now)
    /\ UNCHANGED <<pin, dir>>

FetchMixes(b) ==
    /\ At(b, "write")
    /\ build[b].shared
    /\ Writes(b, build[b], Torn)
    /\ UNCHANGED <<pin, dir>>

\* Mutant: the hash of what was fetched is not compared.
MatchesAny(h, b) == TRUE
Matches(h, b) == h = Artifact(b)

FetchVerifies(b) ==
    /\ At(b, "verify")
    /\ LET s == build[b].slot
       IN  \/ part[s] = None /\ Abort(b) /\ UNCHANGED part           \* FileNotFoundError
           \/ /\ part[s] # None /\ Matches(part[s], b)
              /\ Goto(b, [build[b] EXCEPT !.pc = "replace"])
              /\ UNCHANGED part
           \/ /\ part[s] # None /\ ~ Matches(part[s], b)
              /\ Unlink(b, Skipped(build[b]), s)
    /\ UNCHANGED <<pin, cache, dir>>

\* tmp.replace(dest): who writes to the old cached file writes to no name now, who
\* writes to the partial file writes to the cached one.
FetchReplaces(b) ==
    /\ At(b, "replace")
    /\ LET s == build[b].slot
           q == [build[b] EXCEPT !.pc = "meta"]
       IN  \/ part[s] = None /\ Abort(b) /\ UNCHANGED <<cache, part>>
           \/ /\ part[s] # None
              /\ cache' = [cache EXCEPT ![s] = part[s]]
              /\ part' = [part EXCEPT ![s] = None]
              /\ build' = [c \in Builds |->
                             IF c = b THEN q
                             ELSE IF build[c] # Idle /\ build[c].slot = s
                                  THEN [build[c] EXCEPT !.file = IF @ = "part" THEN "cache" ELSE "none"]
                                  ELSE build[c]]
    /\ UNCHANGED <<pin, dir>>

\* read_package_meta: `package list` fails on what is no package (an exception
\* nobody catches); a field that is missing is an error of the artifact.
Readable(h) == h \notin Junk \cup {Torn}

FetchGroups(b) ==
    /\ At(b, "meta")
    /\ LET h == cache[build[b].slot]
           q == Skipped(build[b])
       IN  \/ ~ Readable(h) /\ Abort(b)
           \/ h \in Bare \ Junk /\ Goto(b, q)
           \/ Readable(h) /\ h \notin Bare
              /\ Goto(b, [q EXCEPT !.groups[Group[h]] = @ \cup {build[b].slot}])
    /\ UNCHANGED <<pin, cache, part, dir>>

(* build_subrepo                                                           *)
ToGroup(q) == [q EXCEPT !.pc = "group", !.slot = None, !.group = None, !.ident = None,
                        !.left = {}, !.names = {}, !.name = None, !.sum = None]

Fetched(b) == (At(b, "fetch") /\ build[b].todo = {}) \/ At(b, "group")

BuildsGroup(b) ==
    /\ Fetched(b)
    /\ \E g \in Groups :
         /\ build[b].groups[g] # {}
         /\ Goto(b, [build[b] EXCEPT !.pc = "ident", !.group = g,
                                     !.left = build[b].groups[g], !.groups[g] = {}])
    /\ UNCHANGED <<pin, cache, part, dir>>

Answers(b) ==
    /\ Fetched(b)
    /\ \A g \in Groups : build[b].groups[g] = {}
    /\ Goto(b, Idle)
    /\ UNCHANGED <<pin, cache, part, dir>>

\* Mutant: an identifier is made for every build.
IdentifiedAnew(g) == None
\* stable_identifier: what is there is used.
Identified(g) == dir[g].ident

ReadsIdent(b) ==
    /\ At(b, "ident")
    /\ LET id == Identified(build[b].group)
       IN  \E new \in Uuids :
             Goto(b, [build[b] EXCEPT !.ident = IF id = None THEN new ELSE id,
                                      !.pc = IF id = None THEN "newident" ELSE "info"])
    /\ UNCHANGED <<pin, cache, part, dir>>

WritesIdent(b) ==
    /\ At(b, "newident")
    /\ dir' = [dir EXCEPT ![build[b].group].ident = build[b].ident]
    /\ Goto(b, [build[b] EXCEPT !.pc = "info"])
    /\ UNCHANGED <<pin, cache, part>>

WritesInfo(b) ==
    /\ At(b, "info")
    /\ dir' = [dir EXCEPT ![build[b].group].info = build[b].ident]
    /\ Goto(b, [build[b] EXCEPT !.pc = "stage", !.ident = None])
    /\ UNCHANGED <<pin, cache, part>>

StagesName(b) ==
    /\ At(b, "stage")
    /\ \E s \in build[b].left :
         LET h == cache[s]
         IN  \/ ~ Readable(h) /\ Abort(b)
             \/ h \in Bare \ Junk /\ Goto(b, ToGroup(build[b]))
             \/ /\ Readable(h) /\ h \notin Bare
                /\ Goto(b, [build[b] EXCEPT !.pc = "copy", !.slot = s, !.left = @ \ {s},
                                            !.name = File[h], !.names = @ \cup {File[h]}])
    /\ UNCHANGED <<pin, cache, part, dir>>

\* shutil.copy2 empties the file that is there, or makes one, and then fills it.
CopyOpens(b) ==
    /\ At(b, "copy")
    /\ LET p == build[b]
           with == {c \in Builds \ {b} : /\ At(c, "fill") /\ build[c].group = p.group
                                        /\ build[c].name = p.name}
       IN  /\ dir' = [dir EXCEPT ![p.group].packages[p.name] = Torn]
           /\ build' = Sharing(b, [p EXCEPT !.pc = "fill", !.file = "cache",
                                           !.source = cache[p.slot]], with)
    /\ UNCHANGED <<pin, cache, part>>

Fills(b, now) ==
    dir' = IF build[b].name = None THEN dir
           ELSE [dir EXCEPT ![build[b].group].packages[build[b].name] = now]

CopyFills(b) ==
    /\ At(b, "fill")
    /\ Fills(b, build[b].source) \/ (build[b].shared /\ Fills(b, Torn))
    /\ Goto(b, [build[b] EXCEPT !.pc = "stage", !.slot = None, !.name = None, !.file = "none",
                                !.source = None, !.shared = FALSE])
    /\ UNCHANGED <<pin, cache, part>>

CopyMixes(b) ==
    /\ At(b, "fill")
    /\ build[b].shared
    /\ Fills(b, Torn)
    /\ UNCHANGED <<pin, cache, part, build>>

\* Mutant of Stale: what an earlier build left stays.
StaleNone(packages, names) == {}
Stale(packages, names) == {f \in Files \ names : packages[f] # None}

\* One file after the other: a stop leaves some, and so does a file that another build
\* prunes first (FileNotFoundError).
Prunes(b) ==
    /\ At(b, "stage")
    /\ build[b].left = {}
    /\ LET g == build[b].group
           stale == Stale(dir[g].packages, build[b].names)
       IN  \E gone \in SUBSET stale, q \in {Idle, [build[b] EXCEPT !.pc = "tool"]} :
             /\ IF q = Idle THEN Crashes \/ \E c \in Builds \ {b} : build[c] # Idle /\ build[c].group = g
                ELSE gone = stale
             /\ dir' = [dir EXCEPT ![g].packages =
                                     [f \in Files |-> IF f \in gone THEN None ELSE @[f]]]
             /\ build' = [c \in Builds |->
                            IF c = b THEN q
                            ELSE IF At(c, "fill") /\ build[c].group = g /\ build[c].name \in gone
                                 THEN [build[c] EXCEPT !.name = None] ELSE build[c]]
    /\ UNCHANGED <<pin, cache, part>>

\* `package_repo create`: a new catalog of the staged files, or an error of the
\* group and the old catalog.
RunsTool(b) ==
    /\ At(b, "tool")
    /\ LET g == build[b].group
           staged == {dir[g].packages[f] : f \in build[b].names}
           fine == \A h \in staged : h \in Hpkgs \ (Junk \cup Bare) /\ Group[h] = g
       IN  \/ /\ fine
              /\ dir' = [dir EXCEPT ![g].catalog = staged]
              /\ Goto(b, [build[b] EXCEPT !.pc = "hash", !.names = {}])
           \/ /\ ~ fine \/ ToolFails
              /\ Goto(b, ToGroup(build[b]))
              /\ UNCHANGED dir
    /\ UNCHANGED <<pin, cache, part>>

Hashes(b) ==
    /\ At(b, "hash")
    /\ Goto(b, [build[b] EXCEPT !.pc = "sum", !.sum = dir[build[b].group].catalog])
    /\ UNCHANGED <<pin, cache, part, dir>>

WritesSum(b) ==
    /\ At(b, "sum")
    /\ dir' = [dir EXCEPT ![build[b].group].sum = build[b].sum]
    /\ Goto(b, ToGroup(build[b]))
    /\ UNCHANGED <<pin, cache, part>>

\* The server stops during a build: files stay as they are, one that was about to be
\* written anew perhaps empty.
Stops(b) ==
    /\ Crashes
    /\ build[b] # Idle
    /\ Goto(b, Idle)
    /\ \/ UNCHANGED dir
       \/ At(b, "newident") /\ dir' = [dir EXCEPT ![build[b].group].ident = None]
       \/ At(b, "info")     /\ dir' = [dir EXCEPT ![build[b].group].info = None]
       \/ At(b, "sum")      /\ dir' = [dir EXCEPT ![build[b].group].sum = None]
    /\ UNCHANGED <<pin, cache, part>>

\* Ingestions change what is pinned.
Pin(s, h) ==
    /\ pin[s] # h
    /\ pin' = [pin EXCEPT ![s] = h]
    /\ UNCHANGED <<cache, part, dir, build>>

-----------------------------------------------------------------------------
Fetch(b) == \/ FetchCached(b) \/ FetchOpens(b)    \/ FetchRefused(b)  \/ FetchFails(b)
            \/ FetchMixes(b)  \/ FetchWrites(b) \/ FetchVerifies(b) \/ FetchReplaces(b) \/ FetchGroups(b)
Subrepo(b) == \/ ReadsIdent(b) \/ WritesIdent(b) \/ WritesInfo(b) \/ StagesName(b) \/ CopyOpens(b)
              \/ CopyMixes(b)  \/ CopyFills(b)   \/ Prunes(b)     \/ RunsTool(b)   \/ Hashes(b)
              \/ WritesSum(b)
Rebuild(b) == Begin(b) \/ Fetch(b) \/ BuildsGroup(b) \/ Subrepo(b) \/ Answers(b)

Next == \/ \E b \in Builds : Rebuild(b) \/ Stops(b)
        \/ \E s \in Slots, h \in Hpkgs \cup {None} : Pin(s, h)

Spec == Init /\ [][Next]_vars

-----------------------------------------------------------------------------
(* Properties.                                                             *)

\* No build is writing the directory of g.
Quiet(g) == \A b \in Builds : build[b] # Idle => build[b].group # g

\* Outside of a build every package in a catalog is served under the name the
\* catalog gives it ("all packages exposed by the catalog ... are to be accessible",
\* docs/tasks/01-repo-proxy.md).
CatalogServed ==
    \A g \in Groups : Quiet(g) /\ dir[g].catalog # None =>
        \A h \in dir[g].catalog : dir[g].packages[File[h]] = h

\* The identity of a repository never changes once there is one ("MUST stay constant
\* across rebuilds and mirrors", stable_identifier): the file beside repo.info keeps it,
\* and repo.info says it, or nothing where a stop cut it short.
IdentifierKept ==
    [][\A g \in Groups : /\ dir[g].ident # None => dir'[g].ident = dir[g].ident
                         /\ dir'[g].info \in {None, dir'[g].ident}]_vars

\* A file under packages/ is pruned, or emptied by a build that goes on to fill it, or
\* filled with a file this build's own catalog pins ("on hash mismatch: refuse",
\* docs/tasks/01-repo-proxy.md). What is not pinned there is a copy that a stop cut short.
StagedAsPinned ==
    [][\A g \in Groups, f \in Files :
         LET now == dir'[g].packages[f]
         IN  \/ now \in {None, dir[g].packages[f]}
             \/ now = Torn /\ \E b \in Builds : At(b, "copy") /\ At(b, "fill")'
             \/ \E b \in Builds, s \in Slots : At(b, "fill") /\ now = build[b].want[s]]_vars

\* The group that b is through with holds what b fetched for it.
Repaired(b) ==
    LET g == build[b].group
        d == dir'[g]
        served == {d.packages[f] : f \in Files} \ {None}
        fetched == {build[b].want[s] : s \in {t \in Slots : cache[t] = build[b].want[t]}}
    IN  /\ d.sum = d.catalog /\ d.catalog = served
        /\ served \subseteq {h \in fetched \ {None} : Group[h] = g}
        /\ \A h \in fetched \ ({None} \cup Bare) : Group[h] = g => d.packages[File[h]] # None

\* When a build that ran alone is through with a group, the directory holds every
\* package it fetched for the group and no other file, and the catalog and checksum
\* are of them, whatever crashed or overlapping builds had left there ("idempotent",
\* _rebuild_all_repos).
GroupPublished ==
    [][\A b \in Builds : At(b, "sum") /\ build[b].alone /\ At(b, "group")' => Repaired(b)]_vars

\* When a build answers, no file that its catalog does not pin is still served
\* ("de-listed bytes would keep being downloadable", build_subrepo).
DelistedGone ==
    [][\A b \in Builds : Fetched(b) /\ build'[b] = Idle =>
         \A g \in Groups, f \in Files :
           dir[g].packages[f] \in {None} \cup {build[b].want[s] : s \in Slots}]_vars

\* A build that is not stopped answers: what is wrong with one artifact or one group
\* is an error in its answer, not the end of the others' ("best-effort", ingest).
BuildsAnswer ==
    [][\A b \in Builds : build[b] # Idle /\ build'[b] = Idle => Fetched(b)]_vars
=============================================================================
