-------------------------------- MODULE Media --------------------------------
(***************************************************************************)
(* Icons, HVIF blobs and screenshots are fetched from elsewhere and kept    *)
(* in a cache on disk (app_icon, app_hvif and screenshot in app/main.py,   *)
(* app/cache.py), where writes evict the oldest files; uploads are stored   *)
(* once under the digest of their bytes (app/uploads.py).  Nothing of it is *)
(* locked: a request reads the directory, unlinks, opens and writes in      *)
(* steps that others interleave with, and the server may stop between any   *)
(* two of them.                                                            *)
(*                                                                         *)
(* The apps are in the catalog and do not change; hvif2png is configured.   *)
(***************************************************************************)
EXTENDS Naturals, FiniteSets, SequencesExt

CONSTANTS
    Apps, Codes, Images,   \* ids of apps, codes of screenshots, uploaded images
    Dirs,                  \* the directories of icons: "icons", "hvif"
    Group, Rank,           \* [Apps -> key of the duplicates], [Apps -> Nat]
    HasArt,                \* the apps whose package ships an icon
    Size,                  \* [Apps \cup Codes -> Nat]: bytes of the image
    Budget,                \* MAX_CACHE_BYTES
    Outages,               \* TRUE: a download may fail
    Asked,                 \* BOUND: the artwork that is asked for by its own URL
    MaxStops,              \* BOUND: how often the server stops
    Reqs, NoReq, None

Art      == Apps \cup Codes
Paths    == (Dirs \X Apps) \cup ({"screenshots"} \X Codes)
\* writers: the requests that have the file open.
Contents == {"empty", "whole", "mixed"}
File     == [path: Paths, art: Art, data: Contents, writers: SUBSET Reqs]
Seen     == [path: Paths, size: Nat]
Get      == [op: {"get"}, path: Paths, todo: SUBSET Apps,
             pc: {"look", "miss", "own", "twin", "borrow", "none", "fetch",
                  "scan", "evict", "fill", "serve"},
             art: Art \cup {None}, data: Contents, dests: Seq(Paths),
             seen: Seq(Seen), used: Nat]
Upload   == [op: {"upload"}, image: Images, pc: {"check", "open", "fill"}]

ASSUME SizeAssumption  == /\ Size \in [Art -> Nat \ {0}]
                          /\ Budget \in Nat /\ MaxStops \in Nat /\ Asked \subseteq Paths
ASSUME GroupAssumption == /\ DOMAIN Group = Apps /\ Rank \in [Apps -> Nat]
                          /\ HasArt \subseteq Apps /\ Apps \cap Codes = {}
ASSUME NullAssumption  == None \notin Contents /\ NoReq \notin Upload
ASSUME FiniteAssumption == IsFiniteSet(Reqs) /\ IsFiniteSet(Art)
ASSUME DirsAssumption  == Dirs \subseteq {"icons", "hvif"} /\ Outages \in BOOLEAN

VARIABLES
    cache,    \* sequence of Files, by mtime: what lies in the three directories
    misses,   \* SUBSET (Dirs \X Apps): the ".none" markers
    assets,   \* [Images -> Contents or None]: the files of the uploads
    acked,    \* the images whose upload was answered with a URL
    stops,
    req       \* [Reqs -> Get, Upload or NoReq]

vars == <<cache, misses, assets, acked, stops, req>>

TypeOK ==
    /\ cache \in Seq(File) /\ \A i, j \in DOMAIN cache : cache[i].path = cache[j].path => i = j
    /\ misses \subseteq Dirs \X Apps
    /\ assets \in [Images -> Contents \cup {None}]
    /\ acked \subseteq Images
    /\ stops \in 0 .. MaxStops
    /\ req \in [Reqs -> Get \cup Upload \cup {NoReq}]

Init ==
    /\ cache = <<>> /\ misses = {}
    /\ assets = [m \in Images |-> None] /\ acked = {}
    /\ stops = 0
    /\ req = [r \in Reqs |-> NoReq]

-----------------------------------------------------------------------------
At(r, op, pc) == req[r] # NoReq /\ req[r].op = op /\ req[r].pc = pc
Goto(r, q)    == req' = [req EXCEPT ![r] = q]
Reply(r)      == Goto(r, NoReq)
OnlyReq       == UNCHANGED <<cache, misses, assets, acked, stops>>
OnlyCache     == UNCHANGED <<misses, assets, acked, stops>>

Bytes(f)   == IF f.data = "empty" THEN 0 ELSE Size[f.art]
Cached(p)  == \E i \in DOMAIN cache : cache[i].path = p
Place(p)   == CHOOSE i \in DOMAIN cache : cache[i].path = p
FileAt(p)  == cache[Place(p)]
Without(p) == IF Cached(p) THEN RemoveAt(cache, Place(p)) ELSE cache
\* Mutant: any other app lends its icon.
AllOthers(a) == Apps \ {a}
Twins(a)   == {t \in Apps \ {a} : Group[t] = Group[a]}

\* The files that _iter_cache_files yields: icons/ and screenshots/, no markers.
Counted(f) == f.path[1] \in {"icons", "screenshots"}
Entry(f)   == [path |-> f.path, size |-> Bytes(f)]
Listing    ==
    LET listed[k \in 0 .. Len(cache)] ==
          IF k = 0 THEN <<>>
          ELSE IF Counted(cache[k]) THEN Append(listed[k - 1], Entry(cache[k]))
          ELSE listed[k - 1]
    IN  listed[Len(cache)]
SumOf(s)   ==
    LET sum[k \in 0 .. Len(s)] == IF k = 0 THEN 0 ELSE sum[k - 1] + s[k].size
    IN  sum[Len(s)]
Total      == SumOf(Listing)

(* GET /icon/{id}, /hvif/{id} and /screenshot/{code}                       *)
BeginGet(r, path) ==
    /\ req[r] = NoReq
    /\ Goto(r, [op |-> "get", pc |-> "look", path |-> path, todo |-> {}, art |-> None,
                data |-> "whole", dests |-> <<>>, seen |-> <<>>, used |-> 0])
    /\ OnlyReq

Look(r) ==
    /\ At(r, "get", "look")
    /\ Goto(r, [req[r] EXCEPT !.pc = IF Cached(req[r].path) THEN "serve"
                                     ELSE IF req[r].path[2] \in Codes THEN "fetch"
                                     ELSE "miss"])
    /\ OnlyReq

CheckMiss(r) ==
    /\ At(r, "get", "miss")
    /\ IF req[r].path \in misses
       THEN Reply(r)                                    \* 404
       ELSE Goto(r, [req[r] EXCEPT !.pc = "own"])
    /\ OnlyReq

\* Outcome of a download and extraction: artwork, or nothing for any reason.
Extracts(a) == a \in HasArt
Fails(a)    == a \notin HasArt \/ Outages

Stores(r, art, dests) == [req[r] EXCEPT !.pc = "scan", !.art = art, !.dests = dests]

OwnFound(r) ==
    /\ At(r, "get", "own")
    /\ Extracts(req[r].path[2])
    /\ Goto(r, Stores(r, req[r].path[2], <<req[r].path>>))
    /\ OnlyReq

OwnFails(r) ==
    /\ At(r, "get", "own")
    /\ Fails(req[r].path[2])
    /\ Goto(r, [req[r] EXCEPT !.pc = "twin", !.todo = Twins(req[r].path[2])])
    /\ OnlyReq

\* The copies of the same app in other repositories, the best source first.
Best(todo)     == {t \in todo : \A u \in todo : Rank[t] <= Rank[u]}
TwinPath(r, t)  == <<req[r].path[1], t>>

TwinCached(r) ==
    /\ At(r, "get", "twin")
    /\ \E t \in Best(req[r].todo) :
         /\ Cached(TwinPath(r, t))
         /\ Goto(r, [req[r] EXCEPT !.pc = "borrow", !.todo = {t}])
    /\ OnlyReq

TwinFound(r) ==
    /\ At(r, "get", "twin")
    /\ \E t \in Best(req[r].todo) :
         /\ ~ Cached(TwinPath(r, t)) /\ Extracts(t)
         /\ Goto(r, Stores(r, t, <<TwinPath(r, t), req[r].path>>))
    /\ OnlyReq

TwinFails(r) ==
    /\ At(r, "get", "twin")
    /\ \E t \in Best(req[r].todo) :
         /\ ~ Cached(TwinPath(r, t)) /\ Fails(t)
         /\ Goto(r, [req[r] EXCEPT !.todo = @ \ {t}])
    /\ OnlyReq

\* read_bytes: whatever the file holds by now; it may be evicted (500).
Borrow(r) ==
    /\ At(r, "get", "borrow")
    /\ LET p == TwinPath(r, CHOOSE t \in req[r].todo : TRUE)
       IN  IF Cached(p)
           THEN Goto(r, [Stores(r, FileAt(p).art, <<req[r].path>>) EXCEPT !.data = FileAt(p).data])
           ELSE Reply(r)
    /\ OnlyReq

\* No copy has artwork: the miss is remembered.
Miss(r) ==
    /\ At(r, "get", "twin")
    /\ req[r].todo = {}
    /\ misses' = misses \cup {req[r].path}
    /\ Reply(r)                                         \* 404
    /\ UNCHANGED <<cache, assets, acked, stops>>

Fetch(r) ==
    /\ At(r, "get", "fetch")
    /\ \/ Goto(r, Stores(r, req[r].path[2], <<req[r].path>>))
       \/ Outages /\ Reply(r)                           \* 404
    /\ OnlyReq

(* write_capped                                                            *)
Incoming(q)  == IF q.data = "empty" THEN 0 ELSE Size[q.art]
Fits(q)      == q.used + Incoming(q) <= Budget

\* Mutant: only icons/ is listed.
ScanIcons(r) ==
    /\ At(r, "get", "scan")
    /\ LET icons == SelectSeq(Listing, LAMBDA f : f.path[1] = "icons")
       IN  Goto(r, [req[r] EXCEPT !.pc = "evict", !.seen = icons, !.used = SumOf(icons)])
    /\ OnlyReq

\* The listing, taken in one step, is sorted by mtime.
Scan(r) ==
    /\ At(r, "get", "scan")
    /\ Goto(r, [req[r] EXCEPT !.pc = "evict", !.seen = Listing, !.used = Total])
    /\ OnlyReq

\* A file that another request unlinked is skipped and still counted.
Evict(r) ==
    /\ At(r, "get", "evict")
    /\ ~ Fits(req[r])
    /\ req[r].seen # <<>>
    /\ LET f == Head(req[r].seen)
       IN  /\ cache' = Without(f.path)
           /\ Goto(r, [req[r] EXCEPT !.seen = Tail(@),
                                     !.used = IF Cached(f.path) THEN @ - f.size ELSE @])
    /\ OnlyCache

\* open("wb"): a file that is there is cut to nothing and stays the same file.
Open(r) ==
    /\ At(r, "get", "evict")
    /\ Fits(req[r]) \/ req[r].seen = <<>>
    /\ LET p == Head(req[r].dests)
           w == IF Cached(p) THEN FileAt(p).writers ELSE {}
       IN  cache' = Append(Without(p), [path |-> p, art |-> req[r].art, data |-> "empty",
                                        writers |-> w \cup {r}])
    /\ Goto(r, [req[r] EXCEPT !.pc = "fill"])
    /\ OnlyCache

\* What a file holds once q has written over it from the start.
Over(f, q) ==
    IF f.data = "empty" \/ Size[q.art] >= Size[f.art]
    THEN [f EXCEPT !.art = q.art, !.data = q.data]
    ELSE [f EXCEPT !.data = "mixed"]

\* The bytes go to the file that was opened; unlinked meanwhile, they are lost.
Fill(r) ==
    /\ At(r, "get", "fill")
    /\ LET q == req[r]
           p == Head(q.dests)
           f == FileAt(p)
       IN  /\ cache' = IF Cached(p) /\ r \in f.writers
                       THEN Append(Without(p),
                                   [IF q.data = "empty" THEN f ELSE Over(f, q)
                                      EXCEPT !.writers = @ \ {r}])
                       ELSE cache
           /\ Goto(r, [q EXCEPT !.dests = Tail(@), !.seen = <<>>, !.used = 0,
                                !.pc = IF Len(q.dests) > 1 THEN "scan" ELSE "serve"])
    /\ OnlyCache

\* FileResponse: sends what is there, or fails when the file was evicted.
Serve(r) ==
    /\ At(r, "get", "serve")
    /\ Reply(r)
    /\ OnlyReq

(* POST /upload/image: a coroutine of the one server process (run.sh); once *)
(* the body is read, save_image runs to its end without an await.           *)
\* Mutant: saved in the pool of threads.
SavingNever == FALSE
Saving == \E r \in Reqs : At(r, "upload", "open") \/ At(r, "upload", "fill")

BeginUpload(r, image) ==
    /\ req[r] = NoReq
    /\ Goto(r, [op |-> "upload", pc |-> "check", image |-> image])
    /\ OnlyReq

UploadCheck(r) ==
    /\ At(r, "upload", "check")
    /\ ~ Saving
    /\ IF assets[req[r].image] # None
       THEN Reply(r) /\ acked' = acked \cup {req[r].image}
       ELSE Goto(r, [req[r] EXCEPT !.pc = "open"]) /\ UNCHANGED acked
    /\ UNCHANGED <<cache, misses, assets, stops>>

UploadOpen(r) ==
    /\ At(r, "upload", "open")
    /\ assets' = [assets EXCEPT ![req[r].image] = "empty"]
    /\ Goto(r, [req[r] EXCEPT !.pc = "fill"])
    /\ UNCHANGED <<cache, misses, acked, stops>>

UploadFill(r) ==
    /\ At(r, "upload", "fill")
    /\ assets' = [assets EXCEPT ![req[r].image] = "whole"]
    /\ acked' = acked \cup {req[r].image}
    /\ Reply(r)
    /\ UNCHANGED <<cache, misses, stops>>

\* The server is stopped, or the machine: the files stay as they are.
Stop ==
    /\ stops < MaxStops                                 \* BOUND
    /\ stops' = stops + 1
    /\ req' = [r \in Reqs |-> NoReq]
    /\ cache' = [i \in DOMAIN cache |-> [cache[i] EXCEPT !.writers = {}]]
    /\ UNCHANGED <<misses, assets, acked>>

-----------------------------------------------------------------------------
Finds(r)   == \/ Look(r) \/ CheckMiss(r) \/ OwnFound(r) \/ OwnFails(r) \/ TwinCached(r)
              \/ TwinFound(r) \/ TwinFails(r) \/ Borrow(r) \/ Miss(r) \/ Fetch(r)
Writes(r)  == Scan(r) \/ Evict(r) \/ Open(r) \/ Fill(r) \/ Serve(r)
Uploads(r) == UploadCheck(r) \/ UploadOpen(r) \/ UploadFill(r)

Next == \/ \E r \in Reqs : \/ Finds(r) \/ Writes(r) \/ Uploads(r)
                           \/ \E path \in Asked : BeginGet(r, path)
                           \/ \E image \in Images : BeginUpload(r, image)
        \/ Stop

Spec == Init /\ [][Next]_vars

-----------------------------------------------------------------------------
(* Properties.                                                             *)

AtLeast(m, n) == IF m > n THEN m ELSE n
Largest       == CHOOSE n \in {0} \cup {Size[a] : a \in Art} : \A a \in Art : Size[a] <= n

\* Writers that overlap exceed the ceiling by at most one image each beyond the
\* first, however often they scan, evict and write ("the correctness that
\* matters is the ceiling", app/cache.py).
Ceiling == Total <= AtLeast(Budget, Largest) + (Cardinality(Reqs) - 1) * Largest

\* What is cached under an id is artwork of that app or of a copy of it in
\* another repository, whoever borrowed it from whom ("still the author's own
\* artwork", app_icon).
GroupArtwork ==
    \A f \in ToSet(cache) :
        IF f.path[2] \in Codes THEN f.art = f.path[2]
        ELSE f.art \in Apps /\ Group[f.art] = Group[f.path[2]]

\* As long as the server did not stop, an upload that was answered with a URL
\* is on disk with all its bytes (save_image).
Stored(image) == assets[image] = "whole"
AckedUploads  == stops = 0 => \A image \in acked : Stored(image)

(* What the code does not keep.                                            *)

\* With no writer at work a cached image is all there.
CachedWhole ==
    stops = 0 => \A f \in ToSet(cache) : f.writers = {} => f.data = "whole"

\* A miss is remembered of an app that yields no icon ("Once we know an app
\* yields no icon, remember it", app_icon).
MissesTrue == \A p \in misses : p[2] \notin HasArt

\* An upload that was answered with a URL is on disk, whatever happened before:
\* a file cut short by a stop passes for the image ever after (save_image).
UploadsWhole == \A image \in acked : Stored(image)

\* The ceiling holds for all that write_capped writes (app_hvif: "size-bounded
\* LRU cache").
SumOfAll == SumOf([i \in DOMAIN cache |-> Entry(cache[i])])
CeilingOfAll == SumOfAll <= AtLeast(Budget, Largest) + (Cardinality(Reqs) - 1) * Largest
=============================================================================
