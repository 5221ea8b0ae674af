-------------------------------- MODULE Ombra --------------------------------
(***************************************************************************)
(* Ombra channels follow the newest GitHub release of an author.  A        *)
(* resolution is stored in a snapshot (app/ombra_crawler.py); /resolve and  *)
(* /library/pending answer from a fresh snapshot of the configuration the   *)
(* app declares, and otherwise resolve live and refresh the snapshot        *)
(* (_resolve_ombra in app/main.py); a crawl refreshes all of them in one    *)
(* transaction.                                                            *)
(*                                                                         *)
(* A release is its number; what assets it ships is the constant Ships.     *)
(* Every call of GitHub is a step of its own and may fail.  Time is one bit *)
(* of a snapshot, fresh, which the passing of the TTL clears.               *)
(***************************************************************************)
EXTENDS Naturals

CONSTANTS
    Apps, Arches,
    Configs,         \* channel configurations: repo, match, prerelease
    Listed,          \* [Configs -> SUBSET Arches]: arches named in the manifest
    MaxVersion,      \* BOUND: releases of one repository
    Ships,           \* [Configs -> [Versions -> SUBSET Arches]]: matching assets
    Outages,         \* TRUE: calls of GitHub may fail
    Reqs, NoReq,
    None             \* no row, no channel, no arch, no version, no artifacts

Versions  == 1 .. MaxVersion
Artifacts == [cfg: Configs, version: Versions, arches: (SUBSET Arches) \ {{}}]
Snapshot  == [cfg: Configs, version: Versions \cup {None},
              artifacts: Artifacts \cup {None},
              error: {"clean", "no asset", "failed"}, fresh: BOOLEAN]
Resolve == [op: {"resolve"}, pc: {"load", "read", "live", "get", "refresh", "commit", "answer"},
            app: Apps, arch: Arches \cup {None}, cfg: Configs \cup {None},
            answer: Artifacts \cup {None}, hit: BOOLEAN,
            copy: Snapshot \cup {None}, new: Snapshot \cup {None}]
\* One refresh of a crawl: the snapshot it loaded and the one it made of it.
Refresh == [app: Apps, copy: Snapshot \cup {None}, new: Snapshot]
Crawl   == [op: {"crawl"}, pc: {"next", "refresh"}, todo: SUBSET (Apps \X Configs),
            app: Apps \cup {None}, cfg: Configs \cup {None},
            copy: Snapshot \cup {None}, batch: SUBSET Refresh]
Request == Resolve \cup Crawl

ASSUME ListedAssumption  == Listed \in [Configs -> (SUBSET Arches) \ {{}}]
ASSUME ShipsAssumption   == /\ MaxVersion \in Nat \ {0}
                            /\ Ships \in [Configs -> [Versions -> SUBSET Arches]]
ASSUME OutagesAssumption == Outages \in BOOLEAN
ASSUME NullAssumption    == /\ None \notin Versions /\ None \notin Configs
                            /\ None \notin Snapshot \cup Artifacts
                            /\ NoReq \notin Request /\ NoReq \notin Reqs

VARIABLES
    declared,    \* [Apps -> Configs or None]: the ombra channel in the catalog
    released,    \* [Configs -> Versions]: newest release of the repository
    snapshots,   \* [Apps -> Snapshot or None]: table `ombra_snapshots`
    writer,      \* the crawl that holds the write lock of the database, or NoReq
    req          \* [Reqs -> Request or NoReq]

vars == <<declared, released, snapshots, writer, req>>

TypeOK ==
    /\ declared \in [Apps -> Configs \cup {None}]
    /\ released \in [Configs -> Versions]
    /\ snapshots \in [Apps -> Snapshot \cup {None}]
    /\ writer \in Reqs \cup {NoReq}
    /\ req \in [Reqs -> Request \cup {NoReq}]

Init ==
    /\ declared \in [Apps -> Configs]
    /\ released = [c \in Configs |-> 1]
    /\ snapshots = [a \in Apps |-> None]
    /\ writer = NoReq
    /\ req = [r \in Reqs |-> NoReq]

-----------------------------------------------------------------------------
At(r, op, pc) == req[r] # NoReq /\ req[r].op = op /\ req[r].pc = pc
Reply(r)      == req' = [req EXCEPT ![r] = NoReq]
OnlyReq       == UNCHANGED <<declared, released, snapshots, writer>>

\* resolve_github_latest: the assets of the newest release for these arches.
Found(cfg, arches) ==
    LET v == released[cfg]
        A == Ships[cfg][v] \cap arches
    IN  [version   |-> v,
         artifacts |-> IF A = {} THEN None ELSE [cfg |-> cfg, version |-> v, arches |-> A]]

\* Mutant: a snapshot of another configuration is used.
UsableDrifted(snap, cfg) == snap # None /\ snap.fresh
\* read_snapshot: present, of this configuration, within the TTL.
Usable(snap, cfg) == snap # None /\ snap.cfg = cfg /\ snap.fresh

Blank == [version |-> None, artifacts |-> None]
Old(copy) == IF copy = None THEN Blank ELSE copy

\* Mutant: the artifacts of the last release are kept when the new one has none.
RefreshedKeepsAssets(copy, cfg, found) ==
    [cfg |-> cfg, version |-> found.version,
     artifacts |-> IF found.artifacts = None THEN Old(copy).artifacts ELSE found.artifacts,
     error |-> IF found.artifacts = None THEN "no asset" ELSE "clean", fresh |-> TRUE]
\* Mutant: resolved_at is set by the first resolution only.
RefreshedUndated(copy, cfg, found) ==
    [cfg |-> cfg, version |-> found.version, artifacts |-> found.artifacts,
     error |-> IF found.artifacts = None THEN "no asset" ELSE "clean",
     fresh |-> copy = None \/ copy.fresh]
\* resolve_and_snapshot, with what GitHub said.
Refreshed(copy, cfg, found) ==
    [cfg |-> cfg, version |-> found.version, artifacts |-> found.artifacts,
     error |-> IF found.artifacts = None THEN "no asset" ELSE "clean", fresh |-> TRUE]

\* Mutant: a failure wipes what was known.
FailedWipes(copy, cfg) == [cfg |-> cfg, version |-> None, artifacts |-> None,
                           error |-> "failed", fresh |-> TRUE]
\* The same when GitHub failed: version and artifacts stay, the rest is new.
Failed(copy, cfg) == [cfg |-> cfg, version |-> Old(copy).version,
                      artifacts |-> Old(copy).artifacts, error |-> "failed", fresh |-> TRUE]

Outcomes(copy, cfg) == {Refreshed(copy, cfg, Found(cfg, Listed[cfg]))}
                       \cup IF Outages THEN {Failed(copy, cfg)} ELSE {}

\* An UPDATE sets the columns that differ from the ones loaded; the time of the
\* resolution always does.
Written(current, copy, new) ==
    IF copy = None
    THEN new
    ELSE [c \in DOMAIN new |->
            IF c = "fresh" \/ new[c] # copy[c] THEN new[c] ELSE current[c]]
Conflict(copy, current) == (copy = None) # (current = None)

(* GET /resolve/{id}?channel=ombra&arch=, and each ombra row of a poll.     *)
BeginResolve(r, a, x) ==
    /\ req[r] = NoReq
    /\ req' = [req EXCEPT ![r] =
                 [op |-> "resolve", pc |-> "load", app |-> a, arch |-> x, cfg |-> None,
                  answer |-> None, hit |-> FALSE, copy |-> None, new |-> None]]
    /\ OnlyReq

LoadApp(r) ==
    /\ At(r, "resolve", "load")
    /\ LET cfg == declared[req[r].app]
       IN  IF cfg = None THEN Reply(r)     \* 404 or 422
           ELSE req' = [req EXCEPT ![r].pc = "read", ![r].cfg = cfg]
    /\ OnlyReq

\* A usable snapshot with artifacts answers; a usable one without stays in the
\* session, any other does not.
ReadSnapshot(r) ==
    /\ At(r, "resolve", "read")
    /\ LET snap == snapshots[req[r].app]
       IN  req' = [req EXCEPT ![r] =
                     IF ~ Usable(snap, req[r].cfg)
                     THEN [req[r] EXCEPT !.pc = "live"]
                     ELSE IF snap.artifacts = None
                     THEN [req[r] EXCEPT !.pc = "live", !.copy = snap]
                     ELSE [req[r] EXCEPT !.pc = "answer", !.hit = TRUE,
                                         !.answer = snap.artifacts]]
    /\ OnlyReq

ResolveLive(r) ==
    /\ At(r, "resolve", "live")
    /\ LET arches == IF req[r].arch = None THEN Listed[req[r].cfg] ELSE {req[r].arch}
       IN  req' = [req EXCEPT ![r].pc = "get",
                              ![r].answer = Found(req[r].cfg, arches).artifacts]
    /\ OnlyReq

LiveFails(r) ==
    /\ Outages
    /\ At(r, "resolve", "live")
    /\ Reply(r)                            \* 502
    /\ OnlyReq

GetSnapshot(r) ==
    /\ At(r, "resolve", "get")
    /\ req' = [req EXCEPT ![r].pc = "refresh",
                          ![r].copy = IF @ = None THEN snapshots[req[r].app] ELSE @]
    /\ OnlyReq

\* GitHub is called a second time, for the arches of the manifest.
RefreshSnapshot(r) ==
    /\ At(r, "resolve", "refresh")
    /\ \E new \in Outcomes(req[r].copy, req[r].cfg) :
         req' = [req EXCEPT ![r].pc = "commit", ![r].new = new]
    /\ OnlyReq

Committed(db, a, copy, new) ==
    [db EXCEPT ![a] = IF Conflict(copy, @) THEN @ ELSE Written(@, copy, new)]

\* The refresh is best effort: a conflict is rolled back and the answer stands.
CommitSnapshot(r) ==
    /\ At(r, "resolve", "commit")
    /\ writer = NoReq
    /\ snapshots' = Committed(snapshots, req[r].app, req[r].copy, req[r].new)
    /\ req' = [req EXCEPT ![r].pc = "answer"]
    /\ UNCHANGED <<declared, released, writer>>

\* So is a database that stays locked for longer than busy_timeout.
CommitFails(r) ==
    /\ At(r, "resolve", "commit")
    /\ writer # NoReq
    /\ req' = [req EXCEPT ![r].pc = "answer"]
    /\ OnlyReq

Answer(r) ==
    /\ At(r, "resolve", "answer")
    /\ Reply(r)
    /\ OnlyReq

(* POST /admin/crawl-ombra and crawl_ombra.py                               *)
BeginCrawl(r) ==
    /\ req[r] = NoReq
    /\ req' = [req EXCEPT ![r] =
                 [op |-> "crawl", pc |-> "next", app |-> None, cfg |-> None, copy |-> None,
                  todo |-> {p \in Apps \X Configs : declared[p[1]] = p[2]}, batch |-> {}]]
    /\ OnlyReq

Lost(batch) == \E f \in batch : Conflict(f.copy, snapshots[f.app])

\* The next app: its get flushes what was refreshed so far, which takes the
\* write lock until the end of the crawl.
CrawlNext(r) ==
    /\ At(r, "crawl", "next")
    /\ writer \in {NoReq, r} \/ req[r].batch = {}
    /\ ~ Lost(req[r].batch)
    /\ \E p \in req[r].todo :
         req' = [req EXCEPT ![r].pc = "refresh", ![r].todo = @ \ {p}, ![r].app = p[1],
                            ![r].cfg = p[2], ![r].copy = snapshots[p[1]]]
    /\ writer' = IF req[r].batch = {} THEN writer ELSE r
    /\ UNCHANGED <<declared, released, snapshots>>

CrawlRefresh(r) ==
    /\ At(r, "crawl", "refresh")
    /\ \E new \in Outcomes(req[r].copy, req[r].cfg) :
         req' = [req EXCEPT ![r].pc = "next", ![r].app = None, ![r].cfg = None,
                            ![r].copy = None,
                            ![r].batch = @ \cup {[app |-> req[r].app, copy |-> req[r].copy,
                                                  new |-> new]}]
    /\ OnlyReq

CrawlCommit(r) ==
    /\ At(r, "crawl", "next")
    /\ req[r].todo = {}
    /\ writer \in {NoReq, r}
    /\ ~ Lost(req[r].batch)
    /\ snapshots' =
         [a \in Apps |->
            IF \E f \in req[r].batch : f.app = a
            THEN LET f == CHOOSE g \in req[r].batch : g.app = a
                 IN  Written(snapshots[a], f.copy, f.new)
            ELSE snapshots[a]]
    /\ writer' = NoReq
    /\ Reply(r)
    /\ UNCHANGED <<declared, released>>

\* A snapshot of the batch was inserted or deleted meanwhile, or the database
\* stays locked: the whole crawl is lost.
CrawlFails(r) ==
    /\ At(r, "crawl", "next")
    /\ req[r].batch # {}
    /\ Lost(req[r].batch) \/ writer \notin {NoReq, r}
    /\ writer' = IF writer = r THEN NoReq ELSE writer
    /\ Reply(r)
    /\ UNCHANGED <<declared, released, snapshots>>

(* Around it.                                                              *)
\* The author publishes a release.
Publish(c) ==
    /\ released[c] < MaxVersion          \* BOUND
    /\ released' = [released EXCEPT ![c] = @ + 1]
    /\ UNCHANGED <<declared, snapshots, writer, req>>

\* A re-ingest changes the channel, removes or adds it.
Declare(a, c) ==
    /\ declared[a] # c
    /\ declared' = [declared EXCEPT ![a] = c]
    /\ UNCHANGED <<released, snapshots, writer, req>>

\* The TTL passes.
Expire(a) ==
    /\ snapshots[a] # None /\ snapshots[a].fresh
    /\ snapshots' = [snapshots EXCEPT ![a].fresh = FALSE]
    /\ UNCHANGED <<declared, released, writer, req>>

-----------------------------------------------------------------------------
ResolveStep(r) == \/ LoadApp(r)         \/ ReadSnapshot(r)   \/ ResolveLive(r)
                  \/ LiveFails(r)       \/ GetSnapshot(r)    \/ RefreshSnapshot(r)
                  \/ CommitSnapshot(r)  \/ CommitFails(r)    \/ Answer(r)
CrawlStep(r)   == CrawlNext(r) \/ CrawlRefresh(r) \/ CrawlCommit(r) \/ CrawlFails(r)

Serve   == \E r \in Reqs : \/ \E a \in Apps, x \in Arches \cup {None} : BeginResolve(r, a, x)
                           \/ BeginCrawl(r)
                           \/ ResolveStep(r) \/ CrawlStep(r)
Environ == \/ \E c \in Configs : Publish(c)
           \/ \E a \in Apps : Expire(a) \/ \E c \in Configs \cup {None} : Declare(a, c)

Next == Serve \/ Environ

Spec == Init /\ [][Next]_vars

\* The server carries requests through, and the crawl is started again and
\* again by a timer (crawl_ombra.py), as the request of slot crawler.
Fairness(crawler) == /\ \A r \in Reqs : WF_vars(ResolveStep(r) \/ CrawlStep(r))
                     /\ SF_vars(BeginCrawl(crawler))

-----------------------------------------------------------------------------
(* Properties.                                                             *)

\* Only a refresh that GitHub failed leaves downloads of another channel than the
\* snapshot is marked with, and only a hit on such a snapshot serves what was not
\* resolved for the channel the app declared when it was looked up: a snapshot of an
\* outdated configuration is never used (OmbraSnapshot, read_snapshot).
Answering(r) == At(r, "resolve", "answer") /\ req[r].answer # None
MarkedFailed(a) == snapshots[a] # None /\ snapshots[a].error = "failed"
ServedForConfig ==
    /\ \A a \in Apps : snapshots[a] # None /\ snapshots[a].artifacts # None
         => snapshots[a].artifacts.cfg = snapshots[a].cfg \/ MarkedFailed(a)
    /\ \A r \in Reqs : Answering(r)
         => req[r].answer.cfg = req[r].cfg \/ (req[r].hit /\ MarkedFailed(req[r].app))

\* Nothing else is ever served ("instead of serving a resolution for the old
\* config", OmbraSnapshot).
ServedForConfigAlways == \A r \in Reqs : Answering(r) => req[r].answer.cfg = req[r].cfg

\* The version a snapshot shows in the catalog is the release its downloads
\* are of (resolve_and_snapshot).
VersionOfArtifacts ==
    \A a \in Apps : snapshots[a] # None /\ snapshots[a].artifacts # None
        => snapshots[a].version = snapshots[a].artifacts.version

\* However refreshes overlap and fail, a version once known is never wiped
\* ("keep any previous version rather than wipe").
VersionKept ==
    [][\A a \in Apps : snapshots[a] # None /\ snapshots[a].version # None
         => snapshots'[a] # None /\ snapshots'[a].version # None]_vars

\* An arch is refused from a snapshot only if its release ships nothing for it
\* ("correctness never depends on the crawler having run").
RefusedRightly ==
    \A r \in Reqs : Answering(r) /\ req[r].hit /\ req[r].arch # None =>
        LET art == req[r].answer
        IN  req[r].arch \in Ships[art.cfg][art.version] => req[r].arch \in art.arches

\* A failed resolution is stored with a null version, so that the read path can
\* fall through to the stale result (resolve_and_snapshot).
FailureHasNullVersion ==
    \A a \in Apps : snapshots[a] # None /\ snapshots[a].error = "failed"
        => snapshots[a].version = None

\* An app whose snapshot cannot be used gets one that can, be it the record of a
\* failure (or gives up its channel), whatever else is refreshed meanwhile.
Unserved(a) == declared[a] # None /\ ~ Usable(snapshots[a], declared[a])
SnapshotsComeBack == \A a \in Apps : Unserved(a) ~> ~ Unserved(a)
=============================================================================
