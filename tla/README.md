# A TLA+ development of spritz

spritz is the registry server of a federated software catalog for Haiku: a FastAPI
application over one SQL database (SQLite by default, Postgres optionally) and a few
directories. Taps (*bàcari*, git repositories of manifests, *cichéti*) are crawled into a
catalog, users queue apps for a daemon on their Haiku machine, the `ombra` channel follows
the latest GitHub release of an author, and the `stable` channel is published as ordinary
Haiku repositories.

Handlers are synchronous and run in a pool of worker threads, each request with a database
session of its own; a crawl, an import or a rebuild is a request like any other. What makes
the code hard is therefore everywhere the same: a request reads, computes (or calls git, an
author's server, bcrypt, `package_repo`), and writes what it decided earlier, while other
requests do the same. That is what the modules below are about.

All paths are relative to `src/`.

## 1. The parts of the system

| part | state | operations | what makes it hard | what must hold |
|---|---|---|---|---|
| **Library** (`app/main.py` 1000-1170, 490-530) | table `library`, one row per user and app; the daemon's memory of what it was handed | queue, remove, poll, confirm, erase the account | two clicks at once, a re-queue while the daemon confirms, rows and apps that vanish under a poll | one row per app, of its own user; *installed* means a daemon was handed the app; the newest request stands; a request for a pruned app leaves *pending* |
| **Taps and catalog** (`app/ingest.py`, `main.py` 1170-1340) | tables `apps` and `bacari`; one in-process lock per tap | crawl, HPKR import, drop of a tap | crawls of one tap and of different taps overlap, fail at any point; ids that two taps publish | a tap's rows are what its last crawl found; no tap takes an app of another; the record of a tap tells its last crawl; the lock is always released |
| **Ombra** (`app/ombra_crawler.py`, `ombra.py`, `main.py` 940-1000) | table `ombra_snapshots`, one snapshot per app | resolve, the crawl of all apps | GitHub fails or publishes between two calls; two writers insert one snapshot; the manifest changes under a snapshot | what is served was resolved for the declared channel; version and downloads belong together; a known version is not wiped; a snapshot comes back |
| **Accounts** (`app/auth.py`, `main.py` 360-530) | table `users`; the tokens out there | register, login, change password, logout, erase | registrations race for the first (admin) account; revocations overlap; ids are reused | one account per email, one admin, a token opens its own account only, a revoked token stays revoked |
| **Repo proxy** (`app/repo_proxy.py`, `main.py` 1380-1440) | the artifact cache, its `.part` files, one directory per sub-repository | rebuild of everything, after each ingestion or by hand | no lock: builds overlap in all three; the tool fails, servers send anything, the server stops | served bytes are pinned bytes; catalog, packages and checksum agree; the identity never changes |
| **HPKR / HPKG parsers** (`hpkr.py`, `hpkg_heap.py`) | none | read a catalog or a package heap | chunk counts and the last chunk, a table read from the wrong place, nested versions of dependencies | what was packed is read back, and nothing else passes for it where the code can tell; the packages listed are those of the catalog |
| **Versions, duplicate groups** (`version.py`, `main.py` 580-750) | none | compare, pick the newest, group | mixed runs of digits and letters, ties, copies that cannot be compared | an order; the pick does not depend on the order of the copies |
| **Media cache, uploads** (`cache.py`, `uploads.py`, `main.py` 1709-2034, `hds.py`, `hvif.py`) | three directories of images with miss markers; the uploaded files | fetch or borrow, evict, store | no lock: writers share a budget, read files that others evict or have not finished; downloads fail; the server stops | the ceiling; artwork of the app itself or its copies; an acknowledged upload is whole |
| **Outbound guard** (`netguard.py`) | one fetch: its URL, the checked address, the open response | check an address, dial it, follow redirects | the name server answers each look-up anew; the last redirect allowed; every way out must close the response | what is dialled was checked at that hop; a redirect is never handed over; nothing stays open |
| **Pages and search** (`main.py` 523-820, 1491-1540, `templates/home.html`) | none on the server; the pages a visitor has been shown | home, search, next page | grouping before paging, shelves cut out of the first page only, crawls between two statements, names without an order | following the links shows every app once |
| **HPKR import** (`main.py` 1260-1334, 871-941, `hpkr.py` 395-418) | the rows of a tap that mirrors another repository | import, resolve | the catalog is read once for the rows and again for every answer, imports overlap and fail | an app that stays listed stays resolvable |
| **Publish form** (`main.py` 1649-1706, `schemas.py`) | none | form to manifest file | the dump leaves out what is empty, the schema asks for some of it | a file that was given away passes the crawl |
| **Browser scripts** (`static/auth.js`, `login.js`, `library.js`, `library-add.js`) | a token that tabs share, the list a tab shows | log in and out, add, remove, reload | answers come in any order and to pages that are gone | when all is quiet a tab shows the library of its token |
| i18n, statistics, other scripts | a cookie | read | - | - |
| Configuration, rate limiter, migrations | start-up only | - | - | - |
| Daemon (not in this repository) | - | polls, confirms | - | environment of Library |

How they interact: an ingestion writes the catalog, and the library, ombra and the repo
proxy read it: a poll looks up the manifest of each pending row, a resolve the channel of
its app, a rebuild every pinned `stable` artifact. Each of the three sees the catalog only
through one `SELECT`, so in their modules it is an environment that changes between any two
steps (`Prune`/`Publish` in Library, `Declare` in Ombra, `Pin` in RepoProxy); Catalog has
the crawl that causes those changes. Library and Accounts share `DELETE` of the account:
Library models it with the rows it must take along, Accounts with the tokens and the id it
leaves behind. Pages sees crawls as an
environment that replaces the rows of one tap. Every outbound fetch goes through the guard;
the modules that fetch (RepoProxy, Imports, Media) only see it succeed or fail. Otherwise
components share nothing but the write lock of the database, which is in the modules where a
request waits for it (Catalog, Ombra).

## 2. Modules and code

A *request slot* `r` in `Reqs` is a worker thread. `req[r]` is its idle value or a record
with the operation, the statement it is about to run (`pc`), its parameters and what its
session has loaded. There is one action per statement that reads or writes shared state;
statements that only compute are part of the action before or after.

| module | models | state |
|---|---|---|
| `InstallQueue` | what the library promises, with no database and no overlap | `slot`: an entry for a user and an app; `handed` |
| `Library` | the five handlers of the library | `lib` (table, by id), `users`, `catalog`, `lastId`, `fetched`, `downloads`, `req` |
| `Catalog` | crawl, import, drop | `rows` (table `apps`), `bacari`, `locks`, `upstream` (the git repositories), `last` (what the last commit of a tap wrote), `req` |
| `Ombra` | resolve, crawl, re-ingestion of a channel | `snapshots`, `declared`, `released` (GitHub), `writer`, `req` |
| `Accounts` | accounts and tokens | `users` (table, by id), `tokens`, `born`, `req` |
| `RepoProxy` | `_rebuild_all_repos` and below | `pin`, `cache`, `part`, `dir` (info, packages, catalog, checksum), `build` |
| `Media` | icons, HVIF blobs, screenshots, uploads | `cache` (the files, by mtime), `misses`, `assets`, `acked`, `req` |
| `Versions`, `Newest` | the order of versions; the loop that picks the latest copy | `copies`, `best`, `tie`, `next`, `newest` |
| `Heap` | `decompress_heap`, with the writer of the format as its environment | the packed heap, what arrived of it, the loop |
| `Netguard` | `guard_url`, `_guarded_redirects`, `stream_guarded` | `fetch` (where the loop is), `current`, `hops`, `safe_ip`, `resp`, `open`; ghosts `asked`, `sent` |
| `Pages` | `home`, `_search_rows`, `_dedup_groups`, the shelves, the pager | `catalog`, `unkeyed` (rows whose `dedup_key` a migration left empty), the locals of a request, `walk` (the pages shown) |
| `Imports` | `import_hpkr`, `resolve` for its rows, `resolve_from_repo` | `listing` (the other repository), `imported`, `importing`, `resolving` |
| `Publish` | `publish_generate`, the schema, its dump, the file read back | `form`, `doc`, `file` |
| `Browser` | the token and the library page in several tabs | `token`, `tabs`, `flights` (requests and answers under way), `lib`, `version` |
| `Hpkr` | the walk over the attributes of a catalog | `stream`, `stack` (of calls), `pkg`, `packages` |
| `MC*` | the instances for TLC; `MCCrawls` and `MCAccounts` add history variables | |
| `MCParts` | the modules without shared state, one at a time | `turn` |
| `*Proofs` | the theorems | |

`PROJECT.json` maps each definition to its lines.

Rules of the database that all modules follow, from SQLAlchemy as `app/db.py` configures it:

- A `SELECT` sees the last commit and takes no lock. A handler's writes go out in the one
  flush of its commit, so read and write are two steps and the write is atomic.
- `UPDATE` writes the columns that differ from what the session *loaded*, by primary key
  (`Flush`, `Column`, `Merged`, `Written`). If no row has the key, the commit raises
  (`StaleDataError`); a `DELETE` of no row is only a warning.
- A commit expires the objects of the session: the next attribute is read again, and raises
  if the row is gone (`PollLookup`, `ConfirmEvent`, `Refresh`).
- A new row gets the largest id plus one under SQLite, so the id of a deleted last row comes
  back, and a fresh one under Postgres: the constant `IdReuse` (Library, Accounts).
- Unique indices and foreign keys are checked at the flush, never by the earlier `SELECT`.

Decisions particular to a module:

- **Library.** A poll is `PollSelect`, then for each row `PollPick`, `PollLookup` and, if the
  app is gone, `PollMark` with its own commit, which expires the rows still to come.
  `delete_account` selects the rows and deletes them with the user; a row queued in between
  makes the foreign key refuse all of it. `MaxId` bounds the ids ever given (`IdsLeft`).
  `LegacyDaemon` lets a daemon confirm without naming a channel. The id of an erased account
  given to a new one, and `updated_at`, are left out here (ids: see Accounts).
- **Catalog.** The first flush of a crawl takes the write lock of SQLite until the commit, so
  everything after it is one step (`WriteAll`, `PruneStale`); before it, the owner check of
  the first file (`session.get`) and its `merge`, which selects again, are two. A manifest is
  the tap and the revision it came from; reading a directory is the set of ids it names. An
  HPKR import is a crawl that writes no record. The same id twice in one tap, and rows of no
  tap, are not modelled. `MCCrawls` adds the history that tells which crawl was overtaken.
- **Ombra.** A release is a number, `Ships` says which arches it has a package for, `Listed`
  which ones the manifest names (at least one: the 400 for none is left out), the TTL is one
  bit that time clears (`Expire`). The crawl collects its refreshes and commits once; `writer`
  is who holds the write lock meanwhile.
- **Accounts.** A wrong password is refused without effect and left out. `acct` (which
  registration) is no column: it tells apart two accounts that got the same id. `MaxUsers`
  and `MaxVersion` bound registrations and revocations; `Failing` says which commits may fail.
  `MCAccounts` adds the history variable `calm`: no two revocations of one account have
  been under way at the same time.
- **RepoProxy.** The fetch into a `.part` file, its hash and its rename are three steps, and an
  open file follows the rename or the removal of its name as POSIX has it. A copy empties its
  target and fills it (`CopyOpens`, `CopyFills`; `shutil.copy2`); pruning takes one file after
  the other, so a stop leaves any of them, and a small file that is written anew may be left
  empty. Two builds that have one file open leave a mix of both, before and after either closes
  it (`shared`, `FetchMixes`, `CopyMixes`), and a copy reads what is written meanwhile
  (`Writes`). The author's server may send any content. `package_repo` is one step; when it
  fails it leaves the catalog as it was. `alone` (no other build since this one began) is a ghost.
- **Media.** The three directories are one sequence of files, oldest first. A file that is
  opened for writing is cut to nothing and filled in a second step; `writers` says who has it
  open, so bytes written to a file that was unlinked meanwhile are lost, as POSIX has it.
  `data` tells an empty, a whole and a mixed file apart. A download with its extraction is one
  step that finds artwork or fails (`Outages`). Uploads are saved by a coroutine of the only
  process (`run.sh`), so one save never interleaves with another, only with a stop. `Asked`
  bounds what is asked for by its own URL; copies are reached through it.
- **Newest.** A version string is a sequence of lexemes, a run of digits being one; parsing,
  splitting into runs and both levels of comparison are those of `version.py`. `Order` is the
  comparison as a table of tables over the strings that parse.
- **Heap.** A byte knows what it is a part of, so a codec can only inflate bytes of one chunk
  from its first on, and fails on anything else. `zstd` asks for its whole frame and leaves
  what follows it (`Inflates`). `zlib` takes nothing that follows, but `_inflate_chunk_raw`
  never asks whether the stream ended (`dec.eof`): without some of its last `Trailer` bytes,
  which hold the checksum and no data, a chunk still gives all its text, and without all of
  them it may fit a shorter one (`MayInflate`, a choice). The bytes of a table that is read
  from the wrong place have any value. `Base` stands for 256, the chunk size is at most what two bytes can hold.
  Codecs that are not installed or not known are left out: they refuse every chunk.
- **Hpkr.** The stream is chosen while it is read; the value of an attribute is its place, so
  every value is distinct, or void. What the stream stands for is defined without the reader,
  from the nesting of its places (`Above`, `Own`, `Described`).
- **Netguard.** A URL is a scheme and a host, which is a name or an address; a name server may
  answer each look-up with any sequence of addresses. Which addresses are internal or loopback
  are constants, as `ipaddress` says it. A Location is a URL, relative to the page, or missing.
- **Pages.** A row has a place in the order of names, the key its name folds to, what searches
  find it by and how its name ends. `ORDER BY name` leaves rows of one name in an order the
  database keeps (`ties` "up" or "down") or does not keep ("any"). The log of downloads may
  rank any apps, the random sample take any. A visitor begins once and follows the links;
  other visitors are the same again. `stood`: no crawl since the walk began.
- **Imports.** The file name of a manifest is injective in the package name, as `_slug` adds a
  hash where it changed something; `Legal` are the names whose id the schema takes. Every
  failure of a fetch, of the guard to the parser, is `whole = FALSE`. Ingestion is one step
  here: Catalog has its steps, and what happens when another tap has the id already. `steady` and `once` are history.
- **Publish.** A text is empty, right for its field, wrong for it, or longer than a file may
  be. `Children` is the tree of a manifest: keys that are there only below one that is.
- **Browser.** `flights` holds requests and answers; they arrive in any order or get lost. A
  page that goes takes its handlers along (`Deaf`), but the token in `localStorage` is for all
  tabs. A logout that navigates may cancel its own request (`auth.js` 75), which the model has
  as a request that is lost. `MaxSent` bounds the requests of a behaviour.

## 3. The runs

Each run finishes with two workers in about two and a half minutes at most.

| run | instance | shows |
|---|---|---|
| `library_concurrent` | 2 users, 1 app, 2 requests, ids 1..3, sequence ids | types, one row per app, no row of an erased user, *installed* was handed out, writes stay with their user |
| `library_serial` | 2 users, 2 channels, 1 request, SQLite ids | **refinement**: Library implements `InstallQueue` (`ImplementsQueue`); download events name builds that were handed out; with fairness, a request for an app that stays away leaves *pending* |
| `library_stale_confirm` | 1 user, 2 channels, 2 requests | **violated**: see section 5 |
| `catalog_serial` | 2 taps publishing the same 2 ids, 1 request, 2 revisions | anti-hijack; each tap shows what its last crawl took, whatever the other one does; the record of a tap tells what it shows, and a drop leaves neither |
| `catalog_parallel` | 1 tap, 1 app, 2 requests, 2 revisions, history of commits, fairness | projection under overlapping crawls; every crawl ends; one that no other overtook catches up |
| `ombra_serial` | 2 apps, 2 channel definitions, 2 releases of which one drops its package, 1 request, outages | what is served fits the declared channel, but after a refresh that failed; version and downloads agree |
| `ombra_overlap` | 2 apps, 2 requests of which one at a time is a crawl, outages, fairness | no known version is lost; a snapshot comes back |
| `accounts` | 2 emails, 2 requests of any kind, inserts and writes that may fail to commit (a demotion that fails is `AccountsTwoAdmins`, section 5) | tokens open their own account only, a race for the first account leaves one admin; as long as no two revocations of an account overlapped (`calm`), revocation is complete and for good |
| `repo_serial` | 2 slots, two versions of a package and one that lacks fields; 1 build that stops anywhere, a copy included; tool failures | identity; what is under packages/ is pinned or a copy that was begun; a finished group is consistent |
| `repo_overlap` | 1 slot, 2 sub-repositories, 2 builds, tool failures | the next build that runs alone repairs what overlapping ones left |
| `media` | 2 requests, an app, its copy and another app, a screenshot, a budget of two units and images of one and two; outages, a stop; or 2 requests with one image to upload | the ceiling with writers that overlap, artwork stays within the copies of one app, acknowledged uploads are whole |
| `parts` | up to 3 copies over 23 shapes of version; heaps of up to 3 chunks of 4, up to 4 bytes cut off, any declared size, no codec, zlib or zstd; streams of up to 6 attributes and end marks; fetches with up to 2 redirects over 6 URLs and 6 answers of the name server; 10 apps (8 names, 7 keys, 3 sources) in 4 catalogs and one crawl; forms that differ from a full or bare one in 2 of 18 fields; 2 tabs, 2 people, 3 requests; 2 imports and a resolve over 7 catalogs | the order and the pick; the heap; the packages of a catalog; what is dialled and where redirects lead; each app once; cards and their copies; files that pass the crawl; a list that settles; imported apps stay resolvable |

**Why these bounds are enough.** Every race in this code is between two requests about one
row, file or lock, and is decided by which of two statements comes first; two slots have all
of those orders. A third party appears only as "somebody else's" row (`RowOfAnyone`,
`Foreign`), for which the serial instances have a second user or tap. Ids 1..3 give an
insert, a removal and the reuse of the id; two revisions or releases an older and a newer
one, which for Ombra is also one that drops its assets. What depends on more requests than two - the
election of the first admin, the projection of many taps - is proved for any number
(section 4). In the repo proxy runs, pins move only while a build could begin: a build reads
them all at its first step and never again. A pinned file that is no package (`Junk`) has no
value of its own in these two runs: `j` ends a build as a cached file that is cut short does,
which `repo_overlap` has, the `RepoProxyToolFails` configuration has it, and the theorems are
for any such files.

The runs of Media and of `parts` are chosen by where their hazards lie: the
budget is exceeded when it holds one image and two are written; an icon is borrowed from a
copy that borrowed it; chunk counts of 0 to 3, with the size of the heap at, below and above
a multiple of the chunk size and of the limit; an attribute of the package before, inside and
after a dependency that has one of the same name. In `Media.cfg` a constraint keeps uploads
and cache apart, as they share no file; `MCParts` runs one of its
modules at a time. For Pages the hazards are a group that a page boundary would cut (`PAGE_SIZE` 5,
ten rows), two apps of one name, a card replaced by a better copy, and a shelf that empties the
grid; for Netguard a second address that is internal, and the redirect after the last one; for
Browser a login or logout in the other tab while a list or a removal is under way; for Imports
a name in two architectures and two versions, and a catalog that changes between every two reads.
One app is enough for `catalog_parallel`, as a projection that fails, fails for some app, and
`Projection` is proved for any number.

**Serial runs.** Properties that two overlapping requests can break (section 5) are checked
with one request at a time. That is not a formality: an operation still is several steps,
crashes, failing commits and the environment (catalog, GitHub, releases, expiry) act between
them, and the properties range over arbitrary sequences of operations.

**Fairness.** `WF` of the steps of a request: a worker thread that can run its next statement
runs it, or the commit of another makes it fail, which also is a step. `SF` of `BeginPoll`
(Library): the daemon polls every 30-60 seconds (`docs/daemon-prompt.md`) and finds a free
worker again and again. `SF` of `Acquire` (Catalog): `threading.Lock` is not promised to be
FIFO, but a crawl that waits cannot be overtaken for ever by finitely many others. `SF` of
`BeginCrawl` (Ombra): `crawl_ombra.py` is started by a timer. Nothing is assumed of users,
GitHub, authors or servers. `LibraryPolling.cfg`, beside the
runs, checks the same liveness with two requests that overlap, without confirmations and
erasure, so that the only way out of *pending* is the one under test.

**Deadlock** is checked in all runs, as users, the daemon, GitHub or time can always do
something, but `parts`, whose algorithms end.

**Mutants.** For each property of each passing run `PROJECT.json` names a definition and a
faulty form of it (a dropped guard, a missing prune, a lock kept on failure) with which TLC
finds that property violated.

## 4. Theorems

Proved by TLAPS for every value of the constants that satisfies the `ASSUME`s of the module
(bounds are natural numbers, flags are Boolean, the null values are no data).

- `LibraryProofs`. `TypeCorrect`, `AtMostOneRow` (`OneRowPerApp`), `NoOrphans`; with ids from
  a sequence (`~ IdReuse`) also `OwnRows`, `InstalledHanded`, `SessionsHold`. The uniqueness
  of rows follows from the shape of the four writes a step can make (`StoreShapes`), whatever
  the request had loaded. The other three are about what it had loaded: `SessionInv` says
  that ids above `lastId` are free, that a copy of a row in a session has the owner and app
  that the row of that id has *if it still exists*, and that a request which is about to write
  *installed* names an app its user's daemon was handed. With `IdReuse` the second part is
  false, which is why the theorem needs the assumption and `LibrarySqliteIds.cfg` refutes it.
- `CatalogProofs`. `TypeCorrect`; `NoHijack` (`OwnerKeepsId`) for taps that share ids, as long
  as no two of them are past `Acquire` at once (`OneLocked`): `HijackInv` says that a copy a
  crawl has in hand is of its tap, and that where `session.get` found no row there is none when
  `merge` selects again. Owner check and merge are two steps and the lock is one per tap, so
  without `OneLocked` the claim is false (section 5). `Projection` for crawls and imports of
  taps whose manifests use different ids (`Namespaces`), without drops.
  `LockInv` is the strengthening: who is past `Acquire` holds the lock of its
  tap, so nobody else writes rows of the tap, so its sets of ids are still those of the table.
  `CatchUp` (`CrawlsCatchUp`), also under `Namespaces`, for any number of crawls that overlap:
  `AheadInv` adds to `LockInv` that no clone and no revision taken over is ahead of the tap's
  repository, and that the clone of a crawl which was not overtaken is at no older a revision
  than any taken over. It speaks of the history variables of `MCCrawls`, which the module
  extends.
  `RecordsTold` (`RecordsTellOutcome`), with one request at a time (`OneRequest`) and without
  imports, but with drops and with taps that share ids: `RecordInv` says at each step of the
  request what it has loaded is what the table still has, and that the result of a crawl that
  is through counts the rows it left. `CatalogRecord.cfg` refutes it with two crawls.
- `AccountsProofs`. `TypeCorrect`; `UniqueEmail`, with commits that may fail; `TokensStayTheirs`
  and `WritesStayTheirs` with ids from a sequence (`OwnInv`: tokens and loaded copies name
  accounts already born, and the account of that id if there is one); `OneAdmin` for
  `RegisteringSpec` (nobody erased) without failing commits, for any number of registrations
  and for both kinds of ids. Its invariant `ElectInv` says that of any two admins the one with
  the larger id still has a request that has not read the admins, or read them and will demote
  it (`Watching`). `RevokesAllWhenCalm` (`RevokesAllIfCalm`) and `RevokedForGoodWhenCalm`
  (`RevokedForGoodIfCalm`), for `CalmSpec` and the history of `MCAccounts`, which the module
  extends: `CalmInv` says that ids are given once (`~ IdReuse`) and, while it has
  been calm (no two revocations of one account under way at once), that no token is ahead of
  the table and a request that will raise a version has the one the table has (`Fresh`), so
  `token_version += 1` never writes a number that a token carries.
- `OmbraProofs`. `TypeCorrect`; `VersionsKept` (`VersionKept`) for any number of refreshes that
  overlap, fail, wait or are lost: `KeepInv` says of what a session has in hand that it has no
  version only if what it loaded had none, and a commit writes only columns that changed. With
  one request at a time (`OneRequest`), and outages or none, also `VersionsOfDownloads`
  (`VersionOfArtifacts`) and `ServedAsDeclared` (`ServedForConfig`): `SerialInv`
  says that each stored snapshot is `Sound` (its downloads are those of its version and, unless
  its last resolution failed, of its configuration) and that the request works on the current
  one. The assumption is needed: overlapping refreshes each write the columns they found changed
  and mix two of them. The exception is real: `OmbraOutage.cfg` serves such downloads.
- `RepoProxyProofs`. `TypeCorrect`; `GroupsRepaired` (`GroupPublished`) for any number of builds
  that overlap, crash or have a tool that fails: the invariant follows, for a build that has
  been alone, the cache (files it took are still the ones it fetched), the directory as it is
  filled, pruned, catalogued and hashed, and says nothing of what it found there. With one
  build at a time (`OneBuild`) also `OnlyPinnedStaged` (`StagedAsPinned`) and `IdentityKept`
  (`IdentifierKept`), wherever builds stop; two refute both (`RepoProxyIdentifier.cfg`). A
  copy that a stop cut short is no pinned file and stays under its name until a later build;
  `OnlyPinnedStaged` says that nothing else of that kind gets there.
- `MediaProofs`. `ArtworkOfGroup` (`GroupArtwork`): every file, and everything a request carries
  between two steps, is artwork of the app of its name or of a copy, so borrowing from a file
  that was borrowed is no worse (`ArtInv`). `CeilingHolds` (`Ceiling`), for any files and sizes, with requests that
  overlap and servers that stop. The bytes of a listing are counted as a set (`Octets`), so
  that listings compare by inclusion; `CeilInv` says of every set of requests that have listed
  the cache that one of them knows all of it but what the others may have added (`Good`),
  which is why each writer beyond the first adds one image at most. `UploadsStored` (`AckedUploads`): only the save that
  is under way has a file that is not whole (`UploadInv`).
- `LibraryProofs`, the serial part. With one request at a time and a daemon that names its
  channel (`OneRequest`, `~ LegacyDaemon`), for either kind of ids: `CountedWasHanded`
  (`DownloadsAreReal`) and `RefinesQueue` (`ImplementsQueue`), the step simulation of
  `InstallQueue`: each statement maps to one step of it or a stutter. `SerialInv` says that what
  the session loaded is what the table still has. With two requests the row may be another one
  by the time it is written (`LibraryStaleConfirm.cfg`); a daemon that names no channel has no
  way to tell which request it confirms.
- `PackagesProofs`. `VersionsOrdered` (`Ordered`): `compare_versions` is a total preorder of all
  versions that parse, built up as the code is: characters, runs, sequences of runs
  (`LexPreorder`), pre-releases, and the five comparisons in turn (`ChainPreorder`).
  `PicksTheLatestCopy` (`PicksTheLatest`) rests on it: of any number of copies the best so far
  is at least every copy seen, and `tie` says whether another equals it. `ImportsResolve`
  (`ImportedResolves`): a name that has always been listed is in every catalog that is read, so
  in every import under way, so in the rows.
  `HeapReadsBack` (`ReadsBack`), for heaps and chunks of any size, whatever the codec saves: the
  lemmas say where the bytes of each chunk lie (`LaidPlaces`), that the table is read back as
  the sizes (`SizesAre`), and that bytes which inflate start where their chunk does
  (`InflatesWhere`). `HeapInv` follows the loop: over the whole region it stands at the end of
  the chunks it has passed (`Exact`); over a region of zstd that lost its end it stands there
  or later (`Behind`), whatever sizes it took from other bytes, because each chunk it takes
  is at least as long as one at its place or after it. So at the last chunk there are fewer
  bytes than that chunk has, and it is refused. A single chunk starts at the first byte, so
  what zlib makes of a part of it is all of its text or nothing. With several zlib chunks the
  reader may fall behind by a checksum: nothing more than the size is proved then, and no
  more is true (`NothingElsePasses`, section 5).
  `PackagesListed` (`ListsPackages`), for every stream, nesting limit and set of attributes:
  `HpkrInv` says, with the list `o` of the attributes whose lists are open where the reader
  stands (`Opened`), that each call on the stack is the one that fits its attribute (`Mode`),
  that the package in hand has the first value so far of each of its own attributes, and that
  the packages listed are those closed before, by their rank (`Listed`). What remains is what
  one lexeme changes in the nesting (`OpenPlain`, `OpenPush`, `OpenPop`).
- `PagesProofs`. `PagesShowAll` (`EachAppOnce`) and `CardsStand` (`CardsStandForCopies`), for
  any rows, any order of equal names and pages of any size, as long as the shelves are smaller
  than a page (`PagesConstants`; 20 and 24 by default). What is folded in the code is a
  recursive function in the model, so that it can be reasoned about: each has a lemma that says
  what it leaves (`DedupGrouped`, `NotOfCards`, `RowsOfIds`), proved from the equations of the
  function (`RecursiveFunction`, `UpTo`). `KeysSame` is why browsing does not depend on the
  order of equal names: rows of one name have one key, so the keys of the cards come in one
  order. `PagesInv` then says of a walk that began with the catalog as it is that each page
  shown holds the keys of its places, each once, the first page less what its shelves show
  (`PageShown`), and that a page which leads on is not the last; a grid that is empty is either
  that of a catalog of less than one page, since the shelves cannot hold a whole page
  (`SomeCardLeft`), or behind the last place. `StandInv` carries what the grouping says of
  each card.
  In the same module, about Browser, Publish and Netguard:
  `ListsSettle` (`ListSettles`): `Calm` says, for a
  page whose clicks waited and whose library nobody else wrote, what each kind of message under
  way will do, so that the last of them leaves the list equal to the library. `FormPasses`
  (`PassesIngest`), for every form: what the dump leaves out of a valid manifest is what the
  schema has a default for, or a blank tap (`LeftOut`), so no object is left without a key
  that is asked for (`FilePasses`) and the file is read as the manifest (`ReadAsMade`).
  `FetchesDialChecked` (`DialsChecked`) and `FetchesFollowTheChain`
  (`FollowsTheChain`), for any number of names, addresses and redirects: `GuardInv` is the
  type invariant with `DialReady` (at the dial, the address is one of the answer just judged,
  and all of that answer are allowed for the URL of this hop) and `ChainReady` (the number of
  requests sent follows the redirects, and the current URL is the Location of the last answer).

The type invariants are proved, of the algorithms in `parts` as parts of the invariants above,
and of Heap and Hpkr as `HeapTypes` and `HpkrTypes`; those of Media and Publish are definitions
beside the properties.

Only model-checked, and why:

- liveness (`PrunedRequestsSettle`, `CrawlsEnd`, `SnapshotsComeBack`), which needs `ENABLED`;
- `ConfirmKeepsNewerRequest`, which is violated (section 5).

## 5. Promises the code does not keep

`library_stale_confirm` is part of the runs and of the findings. The others are beside the
modules for whoever works on that code. Each row ends with a counterexample
(`tlc -config X.cfg MCModule`); where the configuration is one of the runs of section 3, or is
marked with *, put the property named in the place of the configuration's own (under
`PROPERTIES` if it is about a step).

| configuration | property | what happens |
|---|---|---|
| `LibraryStaleConfirm` | `ConfirmKeepsNewerRequest` | `mark_installed` compares the channel, the user re-queues another one, the confirm writes: the newer request is marked installed (`main.py` 1143: "so a re-queue ... is not clobbered") |
| `LibraryStaleArch` | `ConfirmKeepsNewerArch` | the same without overlap for the arch, which is never compared |
| `LibraryStaleConfirm` * | `DownloadsAreReal` | the event reads the row again after the commit and counts a build no daemon got |
| `LibrarySqliteIds` | `OwnRowsOnly` | a row id given again under a request that had loaded the old row |
| `CatalogParallel` (`MCCrawls`) | `CrawlsInOrder` | clone before lock: an older clone is applied after a newer one |
| `CatalogOwners` | `OwnerKeepsId` | owner looked up, another tap inserts the id, `merge` takes it over |
| `CatalogRecord` | `RecordsTellOutcome` | the record is written after the lock is released |
| `OmbraOutage` | `ServedForConfigAlways` | a failing refresh stores the new channel with the old artifacts, as fresh |
| `OmbraSerial` *, with `Reqs = {r1, r2}`, `Apps = {a1}`, `MaxVersion = 2` | `VersionOfArtifacts` | of two refreshes that overlap across a re-ingest, each writes the columns it found changed: the version of one stays with the downloads of the other |
| `OmbraArch` | `RefusedRightly` | an arch the manifest does not list is resolved live first and refused from the snapshot later |
| `OmbraOutage` * | `FailureHasNullVersion` | the docstring says null, the code keeps the version (and `VersionKept` is what a comment promises) |
| `AccountsTwoAdmins` | `AtMostOneAdmin` | the demotion is a second commit and fails |
| `AccountsIds` | `TokenOpensOwn` | an erased account's id comes back with version 0 |
| `AccountsRevoked` | `RevokedForGood`, `RevokesAll` * | `token_version += 1` writes what was loaded plus one |
| `RepoProxyToolFails` | `CatalogServed` | packages are pruned before `package_repo` has made the new catalog |
| `RepoProxyToolFails` * | `DelistedGone` | a group whose last package went away is not visited again |
| `RepoProxyToolFails` * | `BuildsAnswer` | only `RepoProxyError` is caught: one bad artifact ends the build of all groups |
| `RepoProxyIdentifier` | `IdentifierKept` | two first builds make two identities |
| `RepoProxyOverlap` * | `StagedAsPinned` | a cached file that another build still writes to is copied, or two copies into one file mix |
| `Media` | `CachedWhole` | an icon is borrowed from a file that another request has opened and not filled; the empty copy is cached for good |
| `Media` | `MissesTrue` | an outage is remembered as "no icon"; `main.py` 1880: "Cleared by wiping the icons dir on a re-ingest", which nothing does |
| `MediaHvif` | `CeilingOfAll` | `hvif/` is written through `write_capped` and never counted or evicted (`main.py` 1801: "size-bounded LRU cache") |
| `Media` | `UploadsWhole` | a stop between opening and writing leaves an empty file that passes for the image ever after |
| `Parts` | `UnknownDeclines` | copies without a known version are left out before the pick, so a latest one is named (`main.py` 696: "None when versions cannot be compared (unknown/ombra/unparseable)") |
| `Parts` | `AlwaysDeclaredSize` | a heap without compression is returned short when its end is missing |
| `Parts` | `NothingElsePasses` | zlib is never asked whether its stream ended (`hpkg_heap.py` 67): of a heap of several chunks that lost its end, one is taken without its checksum and what is left over passes for a stored chunk (35: "corrupt data") |
| `Parts` | `TruncatedRefused` | a stream that ends within a package is taken as its end (`hpkr.py` 78: "a catalog we cannot parse (..., truncated)") |
| `Parts` | `CardsStandUnkeyed` | rows that a migration left with an empty `dedup_key` are grouped by their names on the cards, and not found on the app's own page (`main.py` 568: the column "holds the same value") |
| `Parts` | `EmptyIfEmpty` | the first page of the grid is empty when all its apps are on the shelves, and `home.html` then says that the catalog is empty |
| `Parts` | `NothingTwice` | the shelves are taken out of the grid by id (`main.py`: "so nothing shows twice"); another copy of the app may stand for it in the grid |
| `Parts` | `OnlyPartsHidden` | `_` of the suffixes `_devel`, `_source` is a wildcard of `LIKE`: a name that ends in `devel` is hidden like one that ends in `_devel` |
| `Parts` | `SearchOnceAnyOrder` | `ORDER BY name` alone: if the database changes the order of equal names between two pages, a copy is shown twice and another never |
| `Parts` | `AlwaysPasses` | a blank tap, or a text that has no limit of its own, passes the form and fails the crawl (`main.py` 1659: "if it passes here, it passes ingest") |
| `Parts` | `ListSettlesAnyClicks` | two removals at once reload twice, and the older answer may be heard last |
| `Parts` | `ToldAsHanded` | `/resolve` tells the version of the import with a package of today, or of another architecture |
| `Parts` | `AnyServesEach` | a package for any architecture is not found by a client that names its own |
| `Parts` | `EveryPackage` | a package with a capital in its name is left out without a word (`main.py` 1265: "create an hpkr-repo cichéto for every package it lists") |

## 6. Plan

Written so far, in the order of importance: Library and its abstraction, Catalog, Ombra,
Accounts, RepoProxy, Media, the algorithms Versions/Newest, Heap and Hpkr; then Netguard,
Pages, Publish, Browser and Imports; proofs for all of them.

Next, theorems:

1. The type invariant of Media, and that an eviction counts every file of the cache.

Composition beyond the shared environment actions is not planned: the components share no
state that two of them write, except the account erased by `delete_account`.

## 7. Not modelled

- Bytes: values and headers of the parsers (LEB128, the table of strings), icons, images,
  hashes as functions. What surrounds them is modelled; they are functions of their input, and
  a model of them would be the code again.
- HTML, i18n, placeholders, statistics, the cookies: they read and format.
- Configuration, rate limits, migrations, scripts: they run once, or are a library's.
- The version badge of the app page (`_ombra_version`) and its cache: it is best effort by
  its own words ("a slightly stale 'latest' badge is harmless"), and nothing is stored.
- `admin.js`, `publish.js`, `stats.js` and the picture scripts: each renders the answer to one
  request.
- Manifests beyond what a form can say: channels other than `stable`, the same id twice.

Torn rows (the channel of one re-queue and the arch of another) are behaviours of Library that
no text of the repository excludes. Overlapping drops and crawls leave rows without a record;
`RecordsTellOutcome` is therefore serial.
