----------------------------- MODULE MediaProofs -----------------------------
(* Theorems about Media, for every set of apps, codes, images and requests.  *)
EXTENDS Media, Integers, SequenceTheorems, FiniteSetTheorems, WellFoundedInduction, TLAPS

(* Sequences of files.                                                     *)

LEMMA AppendElements ==
    ASSUME NEW T, NEW s \in Seq(T), NEW x \in T
    PROVE  Append(s, x) \in Seq(T) /\ \A y \in ToSet(Append(s, x)) : y \in ToSet(s) \/ y = x
  <1>1. /\ Append(s, x) \in Seq(T) /\ Len(Append(s, x)) = Len(s) + 1
        /\ Append(s, x)[Len(s) + 1] = x
        /\ \A i \in 1 .. Len(s) : Append(s, x)[i] = s[i]
    OBVIOUS
  <1>2. DOMAIN Append(s, x) = 1 .. Len(s) + 1 /\ DOMAIN s = 1 .. Len(s) /\ Len(s) \in Nat
    BY <1>1
  <1>3. \A i \in 1 .. Len(s) + 1 : i \in 1 .. Len(s) \/ i = Len(s) + 1
    BY <1>2
  <1> QED
    BY <1>1, <1>2, <1>3 DEF ToSet

LEMMA RemoveAtPlaces ==
    ASSUME NEW T, NEW s \in Seq(T), NEW i \in 1 .. Len(s)
    PROVE  /\ Len(s) \in Nat /\ DOMAIN s = 1 .. Len(s)
           /\ RemoveAt(s, i) \in Seq(T) /\ DOMAIN RemoveAt(s, i) = 1 .. Len(s) - 1
           /\ \A k \in 1 .. Len(s) - 1 : RemoveAt(s, i)[k] = s[IF k < i THEN k ELSE k + 1]
  <1> DEFINE u == SubSeq(s, 1, i - 1)
             v == SubSeq(s, i + 1, Len(s))
  <1>1. u \in Seq(T) /\ Len(u) = i - 1 /\ \A k \in 1 .. i - 1 : u[k] = s[k]
    OBVIOUS
  <1>2. v \in Seq(T) /\ Len(v) = Len(s) - i /\ \A k \in 1 .. Len(s) - i : v[k] = s[i + k]
    OBVIOUS
  <1> HIDE DEF u, v
  <1>3. /\ u \o v \in Seq(T) /\ Len(u \o v) = Len(u) + Len(v)
        /\ \A k \in 1 .. Len(u) + Len(v) :
             (u \o v)[k] = IF k <= Len(u) THEN u[k] ELSE v[k - Len(u)]
    BY <1>1, <1>2, ConcatProperties
  <1>4. \A k \in 1 .. Len(s) - 1 : (u \o v)[k] = s[IF k < i THEN k ELSE k + 1]
    <2> TAKE k \in 1 .. Len(s) - 1
    <2>1. Len(s) \in Nat /\ i \in Nat /\ k \in Nat /\ Len(u) = i - 1 /\ Len(v) = Len(s) - i
      BY <1>1, <1>2
    <2>2. CASE k <= i - 1
      BY <1>1, <1>3, <2>1, <2>2
    <2>3. CASE ~ k <= i - 1
      <3>1. k - (i - 1) \in 1 .. Len(s) - i /\ i + (k - (i - 1)) = k + 1 /\ ~ k < i
        BY <2>1, <2>3
      <3>2. (u \o v)[k] = v[k - (i - 1)]
        BY <1>3, <2>1, <2>3
      <3> QED
        BY <1>2, <3>1, <3>2
    <2> QED
      BY <2>2, <2>3
  <1>5. DOMAIN (u \o v) = 1 .. Len(s) - 1 /\ DOMAIN s = 1 .. Len(s) /\ Len(s) \in Nat
    BY <1>1, <1>2, <1>3
  <1> QED
    BY <1>3, <1>4, <1>5 DEF RemoveAt, u, v

LEMMA RemoveAtElements ==
    ASSUME NEW T, NEW s \in Seq(T), NEW i \in 1 .. Len(s)
    PROVE  RemoveAt(s, i) \in Seq(T) /\ ToSet(RemoveAt(s, i)) \subseteq ToSet(s)
  <1> DEFINE n == Len(s)
             u == RemoveAt(s, i)
  <1>1. /\ n \in Nat /\ DOMAIN s = 1 .. n /\ u \in Seq(T) /\ DOMAIN u = 1 .. n - 1
        /\ \A k \in 1 .. n - 1 : u[k] = s[IF k < i THEN k ELSE k + 1]
    BY RemoveAtPlaces
  <1> HIDE DEF n, u
  <1>2. \A k \in 1 .. n - 1 : k \in 1 .. n /\ k + 1 \in 1 .. n
    BY <1>1
  <1>3. ToSet(u) \subseteq ToSet(s)
    BY <1>1, <1>2 DEF ToSet
  <1> QED
    BY <1>1, <1>3 DEF u

LEMMA WithoutElements ==
    ASSUME cache \in Seq(File), NEW p
    PROVE  /\ Without(p) \in Seq(File) /\ ToSet(Without(p)) \subseteq ToSet(cache)
           /\ Cached(p) => FileAt(p) \in ToSet(cache) /\ FileAt(p).path = p
  <1>1. CASE Cached(p)
    <2>1. Place(p) \in DOMAIN cache /\ cache[Place(p)].path = p
      BY <1>1 DEF Cached, Place
    <2>2. Place(p) \in 1 .. Len(cache)
      BY <2>1
    <2>3. RemoveAt(cache, Place(p)) \in Seq(File)
          /\ ToSet(RemoveAt(cache, Place(p))) \subseteq ToSet(cache)
      BY <2>2, RemoveAtElements
    <2>4. FileAt(p) \in ToSet(cache) /\ FileAt(p).path = p
      BY <2>1 DEF FileAt, ToSet
    <2> QED
      BY <1>1, <2>3, <2>4 DEF Without
  <1>2. CASE ~ Cached(p)
    BY <1>2 DEF Without
  <1> QED
    BY <1>1, <1>2

LEMMA FilesAreFiles ==
    ASSUME cache \in Seq(File), NEW f \in ToSet(cache)
    PROVE  f \in File
  BY DEF ToSet

-----------------------------------------------------------------------------
(* Artwork.                                                                *)

\* What may lie under a path: the screenshot itself, artwork of the group.
Belongs(path, art) ==
    IF path[2] \in Codes THEN art = path[2]
    ELSE art \in Apps /\ Group[art] = Group[path[2]]

\* What a request is about to write, and where.
Pending(q) ==
    /\ q.art \in Art
    /\ q.dests \in Seq(Paths) /\ q.dests # <<>>
    /\ \A p \in ToSet(q.dests) : Belongs(p, q.art)

GetReq(q) ==
    /\ DOMAIN q = {"op", "path", "todo", "pc", "art", "data", "dests", "seen", "used"}
    /\ q.path \in Paths /\ q.data \in Contents
    /\ q.pc \in {"miss", "own", "twin", "borrow"} => q.path[2] \in Apps
    /\ q.pc = "fetch" => q.path[2] \in Codes
    /\ q.pc \in {"twin", "borrow"} => q.todo \subseteq Twins(q.path[2])
    /\ q.pc = "borrow" => q.todo # {}
    /\ q.pc \in {"scan", "evict", "fill"} => Pending(q)

UploadReq(q) == DOMAIN q = {"op", "pc", "image"} /\ q.image \in Images

Fitting(q) == \/ q.op = "get" /\ GetReq(q)
              \/ q.op = "upload" /\ UploadReq(q)

CacheBelongs == cache \in Seq(File) /\ \A f \in ToSet(cache) : Belongs(f.path, f.art)

ArtInv == /\ CacheBelongs
          /\ DOMAIN req = Reqs
          /\ \A r \in Reqs : req[r] # NoReq => Fitting(req[r])

LEMMA PathParts ==
    ASSUME NEW p \in Paths
    PROVE  /\ p[2] \in Apps \/ p[2] \in Codes
           /\ p[2] \in Apps => p[1] \in Dirs /\ \A t \in Apps : <<p[1], t>> \in Paths
           /\ p[2] \in Apps => p[2] \notin Codes
  BY GroupAssumption DEF Paths

LEMMA GetAt ==
    ASSUME ArtInv, NEW r \in Reqs, NEW pc, At(r, "get", pc)
    PROVE  req[r].op = "get" /\ req[r].pc = pc /\ GetReq(req[r])
  BY DEF ArtInv, At, Fitting

\* One request changes, and the cache perhaps.
LEMMA ArtStep ==
    ASSUME ArtInv, NEW r \in Reqs, NEW q, req' = [req EXCEPT ![r] = q],
           q = NoReq \/ Fitting(q), CacheBelongs'
    PROVE  ArtInv'
  BY DEF ArtInv

\* What is stored for one path or two is pending.
LEMMA StoresPending ==
    ASSUME ArtInv, NEW r \in Reqs, req[r].op = "get", GetReq(req[r]), NEW art \in Art,
           NEW dests, dests \in Seq(Paths), dests # <<>>,
           \A p \in ToSet(dests) : Belongs(p, art)
    PROVE  Fitting(Stores(r, art, dests))
  BY DEF Fitting, GetReq, Stores, Pending

LEMMA OneElement ==
    ASSUME NEW x
    PROVE  ToSet(<<x>>) = {x} /\ <<x>> # <<>>
  BY DEF ToSet

LEMMA TwoElements ==
    ASSUME NEW x, NEW y
    PROVE  ToSet(<<x, y>>) = {x, y} /\ <<x, y>> # <<>>
  <1>1. DOMAIN <<x, y>> = {1, 2} /\ <<x, y>>[1] = x /\ <<x, y>>[2] = y
    OBVIOUS
  <1> QED
    BY <1>1 DEF ToSet

LEMMA ArtFinds ==
    ASSUME ArtInv, NEW r \in Reqs, Finds(r)
    PROVE  ArtInv'
  <1> DEFINE p == req[r].path
  <1> USE DEF OnlyReq, Goto, Reply
  <1>0. UNCHANGED cache /\ CacheBelongs'
    BY DEF Finds, Look, CheckMiss, OwnFound, OwnFails, TwinCached, TwinFound, TwinFails, Borrow,
           Miss, Fetch, ArtInv, CacheBelongs
  <1>1. CASE Look(r)
    <2>1. req[r].op = "get" /\ GetReq(req[r])
      BY <1>1, GetAt DEF Look
    <2> DEFINE q == [req[r] EXCEPT !.pc = IF Cached(p) THEN "serve"
                                          ELSE IF p[2] \in Codes THEN "fetch" ELSE "miss"]
    <2>2. p[2] \in Apps \/ p[2] \in Codes
      BY <2>1, PathParts DEF GetReq
    <2>3. Fitting(q)
      BY <2>1, <2>2 DEF Fitting, GetReq
    <2>4. req' = [req EXCEPT ![r] = q]
      BY <1>1 DEF Look
    <2> HIDE DEF q
    <2> QED
      BY <1>0, <2>3, <2>4, ArtStep
  <1>2. CASE CheckMiss(r)
    <2>1. req[r].op = "get" /\ GetReq(req[r]) /\ req[r].pc = "miss"
      BY <1>2, GetAt DEF CheckMiss
    <2> DEFINE q == IF p \in misses THEN NoReq ELSE [req[r] EXCEPT !.pc = "own"]
    <2>2. q = NoReq \/ Fitting(q)
      BY <2>1 DEF Fitting, GetReq
    <2>3. req' = [req EXCEPT ![r] = q]
      BY <1>2 DEF CheckMiss
    <2> HIDE DEF q
    <2> QED
      BY <1>0, <2>2, <2>3, ArtStep
  <1>3. CASE OwnFound(r)
    <2>1. req[r].op = "get" /\ GetReq(req[r]) /\ req[r].pc = "own"
      BY <1>3, GetAt DEF OwnFound
    <2>2. p[2] \in Apps /\ p \in Paths /\ Belongs(p, p[2])
      BY <2>1 DEF GetReq, Belongs
    <2>3. <<p>> \in Seq(Paths) /\ \A d \in ToSet(<<p>>) : Belongs(d, p[2])
      BY <2>2, OneElement
    <2>4. Fitting(Stores(r, p[2], <<p>>))
      BY <2>1, <2>2, <2>3, OneElement, StoresPending DEF Art
    <2>5. req' = [req EXCEPT ![r] = Stores(r, p[2], <<p>>)]
      BY <1>3 DEF OwnFound
    <2> QED
      BY <1>0, <2>4, <2>5, ArtStep
  <1>4. CASE OwnFails(r)
    <2>1. req[r].op = "get" /\ GetReq(req[r]) /\ req[r].pc = "own"
      BY <1>4, GetAt DEF OwnFails
    <2> DEFINE q == [req[r] EXCEPT !.pc = "twin", !.todo = Twins(p[2])]
    <2>2. Fitting(q)
      BY <2>1 DEF Fitting, GetReq
    <2>3. req' = [req EXCEPT ![r] = q]
      BY <1>4 DEF OwnFails
    <2> HIDE DEF q
    <2> QED
      BY <1>0, <2>2, <2>3, ArtStep
  <1>5. CASE TwinCached(r)
    <2>1. req[r].op = "get" /\ GetReq(req[r]) /\ req[r].pc = "twin"
      BY <1>5, GetAt DEF TwinCached
    <2>2. PICK t \in req[r].todo : req' = [req EXCEPT ![r] = [req[r] EXCEPT !.pc = "borrow",
                                                                         !.todo = {t}]]
      BY <1>5 DEF TwinCached, Best
    <2> DEFINE q == [req[r] EXCEPT !.pc = "borrow", !.todo = {t}]
    <2>3. Fitting(q)
      BY <2>1 DEF Fitting, GetReq
    <2> HIDE DEF q
    <2> QED
      BY <1>0, <2>2, <2>3, ArtStep DEF q
  <1>6. CASE TwinFound(r)
    <2>1. req[r].op = "get" /\ GetReq(req[r]) /\ req[r].pc = "twin"
      BY <1>6, GetAt DEF TwinFound
    <2>2. PICK t \in req[r].todo :
             req' = [req EXCEPT ![r] = Stores(r, t, <<TwinPath(r, t), p>>)]
      BY <1>6 DEF TwinFound, Best
    <2> DEFINE two == <<TwinPath(r, t), p>>
    <2>3. p \in Paths /\ p[2] \in Apps /\ t \in Apps /\ Group[t] = Group[p[2]]
      BY <2>1 DEF GetReq, Twins
    <2>4. TwinPath(r, t) \in Paths /\ TwinPath(r, t)[2] = t
      BY <2>3, PathParts DEF TwinPath
    <2>5. Belongs(p, t) /\ Belongs(TwinPath(r, t), t)
      BY <2>3, <2>4, GroupAssumption DEF Belongs
    <2>6. two \in Seq(Paths) /\ two # <<>> /\ \A d \in ToSet(two) : Belongs(d, t)
      BY <2>3, <2>4, <2>5, TwoElements
    <2>7. Fitting(Stores(r, t, two))
      BY <2>1, <2>3, <2>6, StoresPending DEF Art
    <2> QED
      BY <1>0, <2>2, <2>7, ArtStep
  <1>7. CASE TwinFails(r)
    <2>1. req[r].op = "get" /\ GetReq(req[r]) /\ req[r].pc = "twin"
      BY <1>7, GetAt DEF TwinFails
    <2>2. PICK t : req' = [req EXCEPT ![r] = [req[r] EXCEPT !.todo = @ \ {t}]]
      BY <1>7 DEF TwinFails
    <2> DEFINE q == [req[r] EXCEPT !.todo = @ \ {t}]
    <2>3. Fitting(q)
      BY <2>1 DEF Fitting, GetReq
    <2> HIDE DEF q
    <2> QED
      BY <1>0, <2>2, <2>3, ArtStep DEF q
  <1>8. CASE Borrow(r)
    <2>1. req[r].op = "get" /\ GetReq(req[r]) /\ req[r].pc = "borrow"
      BY <1>8, GetAt DEF Borrow
    <2> DEFINE t == CHOOSE u \in req[r].todo : TRUE
               tp == TwinPath(r, t)
               f == FileAt(tp)
               q == [Stores(r, f.art, <<p>>) EXCEPT !.data = f.data]
    <2>2. p \in Paths /\ p[2] \in Apps /\ t \in Apps /\ Group[t] = Group[p[2]]
      BY <2>1 DEF GetReq, Twins
    <2>3. CASE Cached(tp)
      <3>1. f \in ToSet(cache) /\ f.path = tp /\ f \in File
        BY <2>3, WithoutElements, FilesAreFiles DEF ArtInv, CacheBelongs
      <3>2. Belongs(tp, f.art) /\ tp[2] = t /\ f.art \in Art /\ f.data \in Contents
        BY <3>1 DEF ArtInv, CacheBelongs, TwinPath, File
      <3>3. Belongs(p, f.art)
        BY <2>2, <3>2, GroupAssumption DEF Belongs
      <3>4. <<p>> \in Seq(Paths) /\ \A d \in ToSet(<<p>>) : Belongs(d, f.art)
        <4>1. <<p>> \in Seq(Paths)
          BY <2>2
        <4>2. ToSet(<<p>>) = {p}
          BY OneElement
        <4> QED
          BY <3>3, <4>1, <4>2
      <3>5. Fitting(Stores(r, f.art, <<p>>)) /\ Stores(r, f.art, <<p>>).op = "get"
        BY <2>1, <3>2, <3>4, OneElement, StoresPending DEF Stores, GetReq
      <3>6. Fitting(q)
        BY <3>2, <3>5 DEF Fitting, GetReq, Pending
      <3>7. req' = [req EXCEPT ![r] = q]
        BY <1>8, <2>3 DEF Borrow
      <3> HIDE DEF q
      <3> QED
        BY <1>0, <3>6, <3>7, ArtStep
    <2>4. CASE ~ Cached(tp)
      BY <1>0, <1>8, <2>4, ArtStep DEF Borrow
    <2> QED
      BY <2>3, <2>4
  <1>9. CASE Miss(r)
    BY <1>0, <1>9, ArtStep DEF Miss
  <1>10. CASE Fetch(r)
    <2>1. req[r].op = "get" /\ GetReq(req[r]) /\ req[r].pc = "fetch"
      BY <1>10, GetAt DEF Fetch
    <2>2. p[2] \in Codes /\ p \in Paths /\ Belongs(p, p[2])
      BY <2>1 DEF GetReq, Belongs
    <2>3. <<p>> \in Seq(Paths) /\ \A d \in ToSet(<<p>>) : Belongs(d, p[2])
      BY <2>2, OneElement
    <2>4. Fitting(Stores(r, p[2], <<p>>))
      BY <2>1, <2>2, <2>3, OneElement, StoresPending DEF Art
    <2>5. req' = [req EXCEPT ![r] = Stores(r, p[2], <<p>>)] \/ req' = [req EXCEPT ![r] = NoReq]
      BY <1>10 DEF Fetch
    <2> QED
      BY <1>0, <2>4, <2>5, ArtStep
  <1> QED
    BY <1>1, <1>2, <1>3, <1>4, <1>5, <1>6, <1>7, <1>8, <1>9, <1>10 DEF Finds

\* Removing a file, and adding one that belongs, keep the cache.
LEMMA CacheAppend ==
    ASSUME CacheBelongs, NEW p, NEW f \in File, Belongs(f.path, f.art),
           cache' = Append(Without(p), f)
    PROVE  CacheBelongs'
  <1>1. Without(p) \in Seq(File) /\ ToSet(Without(p)) \subseteq ToSet(cache)
    BY WithoutElements DEF CacheBelongs
  <1>2. Append(Without(p), f) \in Seq(File)
        /\ \A y \in ToSet(Append(Without(p), f)) : y \in ToSet(Without(p)) \/ y = f
    BY <1>1, AppendElements
  <1> QED
    BY <1>1, <1>2 DEF CacheBelongs

LEMMA TailElements ==
    ASSUME NEW T, NEW s \in Seq(T), s # <<>>
    PROVE  /\ Head(s) \in T /\ Head(s) \in ToSet(s) /\ Tail(s) \in Seq(T)
           /\ ToSet(Tail(s)) \subseteq ToSet(s)
           /\ Len(s) > 1 => Tail(s) # <<>>
  <1>1. Len(s) \in Nat /\ Len(s) >= 1 /\ DOMAIN s = 1 .. Len(s) /\ Head(s) = s[1]
    OBVIOUS
  <1>2. /\ Tail(s) \in Seq(T) /\ DOMAIN Tail(s) = 1 .. Len(s) - 1 /\ Len(Tail(s)) = Len(s) - 1
        /\ \A k \in 1 .. Len(s) - 1 : Tail(s)[k] = s[k + 1]
    OBVIOUS
  <1>3. \A n \in Nat : \A k \in 1 .. n - 1 : k + 1 \in 1 .. n
    OBVIOUS
  <1>4. ToSet(Tail(s)) \subseteq ToSet(s)
    BY <1>1, <1>2, <1>3 DEF ToSet
  <1>5. Head(s) \in ToSet(s) /\ Head(s) \in T
    BY <1>1 DEF ToSet
  <1>6. Len(s) > 1 => Tail(s) # <<>>
    <2> SUFFICES ASSUME Len(s) > 1, Tail(s) = <<>> PROVE FALSE
      OBVIOUS
    <2>1. Len(<<>>) = 0
      OBVIOUS
    <2> QED
      BY <1>1, <1>2, <2>1
  <1> QED
    BY <1>2, <1>4, <1>5, <1>6

LEMMA ArtWrites ==
    ASSUME ArtInv, NEW r \in Reqs, Writes(r)
    PROVE  ArtInv'
  <1> DEFINE p == Head(req[r].dests)
             f == FileAt(p)
  <1> USE DEF OnlyReq, OnlyCache, Goto, Reply
  <1>1. CASE Scan(r)
    <2>1. req[r].op = "get" /\ GetReq(req[r]) /\ req[r].pc = "scan"
      BY <1>1, GetAt DEF Scan
    <2> DEFINE q == [req[r] EXCEPT !.pc = "evict", !.seen = Listing, !.used = Total]
    <2>2. Fitting(q)
      BY <2>1 DEF Fitting, GetReq, Pending
    <2>3. req' = [req EXCEPT ![r] = q] /\ CacheBelongs'
      BY <1>1 DEF Scan, ArtInv, CacheBelongs
    <2> HIDE DEF q
    <2> QED
      BY <2>2, <2>3, ArtStep
  <1>2. CASE Evict(r)
    <2>1. req[r].op = "get" /\ GetReq(req[r]) /\ req[r].pc = "evict"
      BY <1>2, GetAt DEF Evict
    <2> DEFINE e == Head(req[r].seen)
               q == [req[r] EXCEPT !.seen = Tail(@),
                                   !.used = IF Cached(e.path) THEN @ - e.size ELSE @]
    <2>2. Fitting(q)
      BY <2>1 DEF Fitting, GetReq, Pending
    <2>3. req' = [req EXCEPT ![r] = q] /\ cache' = Without(e.path)
      BY <1>2 DEF Evict
    <2>4. CacheBelongs'
      BY <2>3, WithoutElements DEF ArtInv, CacheBelongs
    <2> HIDE DEF q
    <2> QED
      BY <2>2, <2>3, <2>4, ArtStep
  <1>3. CASE Open(r)
    <2>1. req[r].op = "get" /\ GetReq(req[r]) /\ req[r].pc = "evict"
      BY <1>3, GetAt DEF Open
    <2>2. p \in Paths /\ Belongs(p, req[r].art) /\ req[r].art \in Art
      BY <2>1, TailElements DEF GetReq, Pending
    <2> DEFINE w == IF Cached(p) THEN f.writers ELSE {}
               new == [path |-> p, art |-> req[r].art, data |-> "empty", writers |-> w \cup {r}]
               q == [req[r] EXCEPT !.pc = "fill"]
    <2>3. Cached(p) => f \in File
      BY WithoutElements, FilesAreFiles DEF ArtInv, CacheBelongs
    <2>4. w \in SUBSET Reqs
      BY <2>3 DEF File
    <2>5. new \in File /\ Belongs(new.path, new.art)
      BY <2>2, <2>4 DEF File, Contents
    <2>6. Fitting(q)
      BY <2>1 DEF Fitting, GetReq, Pending
    <2>7. req' = [req EXCEPT ![r] = q] /\ cache' = Append(Without(p), new)
      BY <1>3 DEF Open
    <2>8. CacheBelongs'
      BY <2>5, <2>7, CacheAppend DEF ArtInv
    <2> HIDE DEF q
    <2> QED
      BY <2>6, <2>7, <2>8, ArtStep
  <1>4. CASE Fill(r)
    <2>1. req[r].op = "get" /\ GetReq(req[r]) /\ req[r].pc = "fill"
      BY <1>4, GetAt DEF Fill
    <2>2. /\ req[r].dests \in Seq(Paths) /\ req[r].dests # <<>> /\ req[r].art \in Art
          /\ \A d \in ToSet(req[r].dests) : Belongs(d, req[r].art)
      BY <2>1 DEF GetReq, Pending
    <2>3. p \in Paths /\ Belongs(p, req[r].art)
      BY <2>2, TailElements
    <2> DEFINE kept == IF req[r].data = "empty" THEN f ELSE Over(f, req[r])
               new == [kept EXCEPT !.writers = @ \ {r}]
               q == [req[r] EXCEPT !.dests = Tail(@), !.seen = <<>>, !.used = 0,
                                   !.pc = IF Len(req[r].dests) > 1 THEN "scan" ELSE "serve"]
    <2>4. Fitting(q)
      <3>1. Len(req[r].dests) > 1 => Pending(q)
        BY <2>1, <2>2, TailElements DEF GetReq, Pending
      <3> QED
        BY <2>1, <3>1 DEF Fitting, GetReq
    <2>5. cache' = IF Cached(p) /\ r \in f.writers THEN Append(Without(p), new) ELSE cache
      BY <1>4 DEF Fill
    <2>6. Cached(p) => new \in File /\ Belongs(new.path, new.art)
      <3> SUFFICES ASSUME Cached(p) PROVE new \in File /\ Belongs(new.path, new.art)
        OBVIOUS
      <3>1. f \in ToSet(cache) /\ f \in File /\ f.path = p
        BY WithoutElements, FilesAreFiles DEF ArtInv, CacheBelongs
      <3>2. Belongs(f.path, f.art)
        BY <3>1 DEF ArtInv, CacheBelongs
      <3> HIDE DEF f
      <3>3. kept \in File /\ kept.path = p /\ (kept.art = f.art \/ kept.art = req[r].art)
        BY <2>1, <2>2, <3>1 DEF Over, File, Contents, GetReq
      <3> HIDE DEF kept
      <3>4. new \in File /\ new.path = p /\ new.art = kept.art
        BY <3>3 DEF File
      <3> QED
        BY <2>3, <3>1, <3>2, <3>3, <3>4
    <2>7. CacheBelongs'
      BY <2>5, <2>6, CacheAppend DEF ArtInv, CacheBelongs
    <2>8. req' = [req EXCEPT ![r] = q]
      BY <1>4 DEF Fill
    <2> HIDE DEF q
    <2> QED
      BY <2>4, <2>7, <2>8, ArtStep
  <1>5. CASE Serve(r)
    BY <1>5, ArtStep DEF Serve, ArtInv, CacheBelongs
  <1> QED
    BY <1>1, <1>2, <1>3, <1>4, <1>5 DEF Writes

\* A request that begins, a step of an upload, and a stop.
LEMMA ArtBegins ==
    ASSUME ArtInv, NEW r \in Reqs,
           \/ \E path \in Asked : BeginGet(r, path)
           \/ \E image \in Images : BeginUpload(r, image)
           \/ Uploads(r)
    PROVE  ArtInv'
  <1> USE DEF OnlyReq, Goto, Reply
  <1>0. CacheBelongs'
    BY DEF ArtInv, CacheBelongs, BeginGet, BeginUpload, Uploads, UploadCheck, UploadOpen, UploadFill
  <1>1. ASSUME NEW path \in Asked, BeginGet(r, path)
        PROVE  ArtInv'
    <2> DEFINE q == [op |-> "get", pc |-> "look", path |-> path, todo |-> {}, art |-> None,
                     data |-> "whole", dests |-> <<>>, seen |-> <<>>, used |-> 0]
    <2>1. path \in Paths
      BY SizeAssumption
    <2>2. Fitting(q)
      BY <2>1 DEF Fitting, GetReq, Contents
    <2>3. req' = [req EXCEPT ![r] = q]
      BY <1>1 DEF BeginGet
    <2> HIDE DEF q
    <2> QED
      BY <1>0, <2>2, <2>3, ArtStep
  <1>2. ASSUME NEW image \in Images, BeginUpload(r, image)
        PROVE  ArtInv'
    <2> DEFINE q == [op |-> "upload", pc |-> "check", image |-> image]
    <2>1. Fitting(q)
      BY DEF Fitting, UploadReq
    <2>2. req' = [req EXCEPT ![r] = q]
      BY <1>2 DEF BeginUpload
    <2> HIDE DEF q
    <2> QED
      BY <1>0, <2>1, <2>2, ArtStep
  <1>3. ASSUME Uploads(r)
        PROVE  ArtInv'
    <2> DEFINE q(pc) == [req[r] EXCEPT !.pc = pc]
    <2>1. req[r].op = "upload" /\ UploadReq(req[r])
      BY <1>3 DEF Uploads, UploadCheck, UploadOpen, UploadFill, At, ArtInv, Fitting
    <2>2. Fitting(q("open")) /\ Fitting(q("fill"))
      BY <2>1 DEF Fitting, UploadReq
    <2>3. \/ req' = [req EXCEPT ![r] = q("open")] \/ req' = [req EXCEPT ![r] = q("fill")]
          \/ req' = [req EXCEPT ![r] = NoReq]
      BY <1>3 DEF Uploads, UploadCheck, UploadOpen, UploadFill
    <2> HIDE DEF q
    <2> QED
      BY <1>0, <2>2, <2>3, ArtStep
  <1> QED
    BY <1>1, <1>2, <1>3

LEMMA ArtStops ==
    ASSUME ArtInv, Stop
    PROVE  ArtInv'
  <1> DEFINE closed(f) == [f EXCEPT !.writers = {}]
  <1>1. cache \in Seq(File) /\ DOMAIN cache = 1 .. Len(cache) /\ Len(cache) \in Nat
    BY DEF ArtInv, CacheBelongs
  <1>2. \A i \in DOMAIN cache : /\ closed(cache[i]) \in File /\ cache[i] \in ToSet(cache)
                                /\ closed(cache[i]).path = cache[i].path
                                /\ closed(cache[i]).art = cache[i].art
    <2> TAKE i \in DOMAIN cache
    <2>1. cache[i] \in File /\ cache[i] \in ToSet(cache)
      BY <1>1 DEF ToSet
    <2> QED
      BY <2>1 DEF File
  <1>3. cache' = [i \in DOMAIN cache |-> closed(cache[i])]
    BY DEF Stop
  <1> HIDE DEF closed
  <1>4. cache' \in Seq(File) /\ DOMAIN cache' = DOMAIN cache
    BY <1>1, <1>2, <1>3
  <1>5. \A f \in ToSet(cache') : \E i \in DOMAIN cache : f = closed(cache[i])
    BY <1>3, <1>4 DEF ToSet
  <1>6. CacheBelongs'
    BY <1>2, <1>4, <1>5 DEF ArtInv, CacheBelongs
  <1> QED
    BY <1>6 DEF Stop, ArtInv

\* What is cached under an id is artwork of that app or of a copy of it in
\* another repository, whoever borrowed it from whom, whoever wrote, evicted or
\* stopped meanwhile (app_icon, _borrow_twin_icon, write_capped).
THEOREM ArtworkOfGroup == Spec => []GroupArtwork
  <1>1. Init => ArtInv
    BY DEF Init, ArtInv, CacheBelongs, ToSet
  <1>2. ArtInv /\ [Next]_vars => ArtInv'
    <2> SUFFICES ASSUME ArtInv, [Next]_vars PROVE ArtInv'
      OBVIOUS
    <2>1. CASE UNCHANGED vars
      BY <2>1 DEF vars, ArtInv, CacheBelongs
    <2>2. CASE Next
      BY <2>2, ArtFinds, ArtWrites, ArtBegins, ArtStops DEF Next
    <2> QED
      BY <2>1, <2>2
  <1>3. ArtInv => GroupArtwork
    BY DEF ArtInv, CacheBelongs, GroupArtwork, Belongs
  <1> QED
    BY <1>1, <1>2, <1>3, PTL DEF Spec

-----------------------------------------------------------------------------
(* Uploads.                                                                *)

SavesNow(r) == At(r, "upload", "open") \/ At(r, "upload", "fill")

\* One request saves at a time; what it has not finished is the only file that
\* is there and not whole.
UploadInv ==
    /\ assets \in [Images -> Contents \cup {None}] /\ acked \subseteq Images /\ stops \in Nat
    /\ stops = 0 =>
         /\ \A r, s \in Reqs : SavesNow(r) /\ SavesNow(s) => r = s
         /\ \A r \in Reqs : At(r, "upload", "open") => assets[req[r].image] = None
         /\ \A m \in acked : assets[m] = "whole"
         /\ \A m \in Images : \/ assets[m] \in {None, "whole"}
                              \/ \E r \in Reqs : At(r, "upload", "fill") /\ req[r].image = m

\* A request for artwork, or one that begins, does not touch the uploads.
LEMMA OtherSteps ==
    ASSUME ArtInv, UploadInv, NEW r \in Reqs,
           \/ Finds(r) \/ Writes(r)
           \/ \E path \in Asked : BeginGet(r, path)
           \/ \E image \in Images : BeginUpload(r, image)
    PROVE  UploadInv'
  <1> USE DEF OnlyReq, OnlyCache, Goto, Reply
  <1>1. UNCHANGED <<assets, acked, stops>> /\ \A s \in Reqs \ {r} : req'[s] = req[s]
    BY DEF Finds, Writes, BeginGet, BeginUpload, Look, CheckMiss, OwnFound, OwnFails, TwinCached,
           TwinFound, TwinFails, Borrow, Miss, Fetch, Scan, Evict, Open, Fill, Serve, ArtInv
  <1>2. ~ SavesNow(r)
    BY DEF Finds, Writes, BeginGet, BeginUpload, Look, CheckMiss, OwnFound, OwnFails, TwinCached,
           TwinFound, TwinFails, Borrow, Miss, Fetch, Scan, Evict, Open, Fill, Serve, At, SavesNow
  <1>3. ~ SavesNow(r)'
    <2>1. CASE \E image \in Images : BeginUpload(r, image)
      BY <2>1 DEF BeginUpload, At, SavesNow, ArtInv
    <2>2. CASE \E path \in Asked : BeginGet(r, path)
      BY <2>2 DEF BeginGet, At, SavesNow, ArtInv
    <2>3. CASE Finds(r) \/ Writes(r)
      <3>1. req[r].op = "get" /\ GetReq(req[r])
        BY <2>3, GetAt DEF Finds, Writes, Look, CheckMiss, OwnFound, OwnFails, TwinCached,
           TwinFound, TwinFails, Borrow, Miss, Fetch, Scan, Evict, Open, Fill, Serve
      <3> USE DEF ArtInv, GetReq
      <3>2. CASE OwnFound(r) \/ TwinFound(r) \/ Fetch(r)
        BY <3>1, <3>2 DEF OwnFound, TwinFound, Fetch, Stores, At, SavesNow
      <3>3. CASE Borrow(r)
        BY <3>1, <3>3 DEF Borrow, Stores, At, SavesNow
      <3>4. CASE OwnFails(r) \/ TwinCached(r) \/ TwinFails(r) \/ Look(r) \/ CheckMiss(r) \/ Miss(r)
        BY <3>1, <3>4 DEF OwnFails, TwinCached, TwinFails, Look, CheckMiss, Miss, At, SavesNow
      <3>5. CASE Writes(r)
        BY <3>1, <3>5 DEF Writes, Scan, Evict, Open, Fill, Serve, At, SavesNow
      <3> QED
        BY <2>3, <3>2, <3>3, <3>4, <3>5 DEF Finds
    <2> QED
      BY <2>1, <2>2, <2>3
  <1> QED
    BY <1>1, <1>2, <1>3 DEF UploadInv, SavesNow, At

LEMMA UploadSteps ==
    ASSUME ArtInv, UploadInv, NEW r \in Reqs, Uploads(r)
    PROVE  UploadInv'
  <1> USE DEF Goto, Reply
  <1>1. /\ req[r] # NoReq /\ req[r].op = "upload" /\ UploadReq(req[r])
        /\ \A s \in Reqs \ {r} : req'[s] = req[s]
    BY DEF Uploads, UploadCheck, UploadOpen, UploadFill, At, ArtInv, Fitting
  <1> DEFINE m == req[r].image
  <1>2. CASE UploadCheck(r)
    <2>1. ~ Saving /\ UNCHANGED <<assets, stops>> /\ m \in Images
      BY <1>1, <1>2 DEF UploadCheck, UploadReq
    <2>2. CASE assets[m] # None
      <3>1. req'[r] = NoReq /\ acked' = acked \cup {m}
        BY <1>2, <2>2 DEF UploadCheck, ArtInv
      <3>2. stops = 0 => assets[m] = "whole"
        BY <2>1, <2>2 DEF UploadInv, Saving
      <3> QED
        BY <1>1, <2>1, <3>1, <3>2 DEF UploadInv, Saving, SavesNow, At
    <2>3. CASE assets[m] = None
      <3>1. acked' = acked /\ req'[r] = [req[r] EXCEPT !.pc = "open"]
        BY <1>2, <2>3 DEF UploadCheck, ArtInv
      <3>2. req'[r].image = m /\ req'[r].pc = "open"
        BY <1>1, <3>1 DEF UploadReq
      <3>3. \A s \in Reqs \ {r} : stops = 0 => ~ SavesNow(s) /\ ~ SavesNow(s)'
        BY <1>1, <2>1 DEF Saving, SavesNow, At
      <3>4. \A n \in Images : stops = 0 => assets[n] \in {None, "whole"}
        BY <2>1 DEF UploadInv, Saving
      <3>5. \A s, t \in Reqs : stops = 0 /\ SavesNow(s)' /\ SavesNow(t)' => s = t
        BY <3>3
      <3>6. \A s \in Reqs : stops = 0 /\ At(s, "upload", "open")' => assets[req'[s].image] = None
        BY <2>3, <3>2, <3>3 DEF SavesNow
      <3> QED
        BY <2>1, <3>1, <3>4, <3>5, <3>6 DEF UploadInv
    <2> QED
      BY <2>2, <2>3
  <1>3. CASE UploadOpen(r)
    <2>1. /\ SavesNow(r) /\ At(r, "upload", "open") /\ m \in Images
          /\ assets' = [assets EXCEPT ![m] = "empty"] /\ UNCHANGED <<acked, stops>>
          /\ req'[r] = [req[r] EXCEPT !.pc = "fill"]
      BY <1>1, <1>3 DEF UploadOpen, UploadReq, SavesNow, ArtInv
    <2>2. /\ req'[r].image = m /\ req'[r].pc = "fill" /\ req'[r].op = "upload"
          /\ req'[r] \in Upload
      BY <1>1, <2>1 DEF UploadReq, Upload
    <2>3. At(r, "upload", "fill")' /\ ~ At(r, "upload", "open")'
      BY <2>2, NullAssumption DEF At
    <2>4. \A s \in Reqs \ {r} : stops = 0 => ~ SavesNow(s) /\ ~ SavesNow(s)'
      BY <1>1, <2>1 DEF UploadInv, SavesNow, At
    <2>5. stops = 0 => m \notin acked
      BY <2>1, NullAssumption DEF UploadInv, Contents
    <2> QED
      BY <2>1, <2>2, <2>3, <2>4, <2>5 DEF UploadInv, SavesNow, Contents
  <1>4. CASE UploadFill(r)
    <2>1. /\ SavesNow(r) /\ At(r, "upload", "fill") /\ m \in Images
          /\ assets' = [assets EXCEPT ![m] = "whole"] /\ acked' = acked \cup {m}
          /\ UNCHANGED stops /\ req'[r] = NoReq
      BY <1>1, <1>4 DEF UploadFill, UploadReq, SavesNow, ArtInv
    <2>2. \A s \in Reqs : stops = 0 => ~ SavesNow(s)'
      BY <1>1, <2>1 DEF UploadInv, SavesNow, At
    <2>3. \A n \in Images \ {m} : stops = 0 => assets[n] \in {None, "whole"}
      BY <2>1 DEF UploadInv, SavesNow
    <2> QED
      BY <2>1, <2>2, <2>3 DEF UploadInv, SavesNow, Contents
  <1> QED
    BY <1>2, <1>3, <1>4 DEF Uploads

\* As long as the server did not stop, every upload that was answered with a
\* URL is on disk with all its bytes, however many requests upload the same
\* image at once: the one process saves one image at a time (save_image).
THEOREM UploadsStored == Spec => []AckedUploads
  <1> DEFINE Inv == ArtInv /\ UploadInv
  <1>1. Init => Inv
    BY SizeAssumption DEF Init, ArtInv, CacheBelongs, ToSet, UploadInv, SavesNow, At
  <1>2. Inv /\ [Next]_vars => Inv'
    <2> SUFFICES ASSUME ArtInv, UploadInv, [Next]_vars PROVE Inv'
      OBVIOUS
    <2>1. CASE UNCHANGED vars
      BY <2>1 DEF vars, ArtInv, CacheBelongs, UploadInv, SavesNow, At
    <2>2. CASE Stop
      <3>1. UploadInv'
        BY <2>2 DEF Stop, UploadInv
      <3> QED
        BY <2>2, <3>1, ArtStops
    <2>3. CASE Next /\ ~ Stop
      BY <2>3, ArtFinds, ArtWrites, ArtBegins, OtherSteps, UploadSteps DEF Next
    <2> QED
      BY <2>1, <2>2, <2>3 DEF Next
  <1>3. Inv => AckedUploads
    BY DEF UploadInv, AckedUploads, Stored
  <1> QED
    BY <1>1, <1>2, <1>3, PTL DEF Spec

-----------------------------------------------------------------------------
(* The ceiling of the cache.                                               *)

\* A set of naturals that is not empty has a least element.
LEMMA SmallestNat ==
    ASSUME NEW S, S \subseteq Nat, S # {}
    PROVE  \E x \in S : \A y \in S : x <= y
  <1>1. PICK x \in S : \A y \in S : ~ (<<y, x>> \in OpToRel(<, Nat))
    BY NatLessThanWellFounded, WFMin
  <1>2. \A y \in S : ~ (y < x)
    BY <1>1 DEF OpToRel
  <1> QED
    BY <1>2

\* What starts at 0 and passes from each number to the next holds up to n.
LEMMA UpTo ==
    ASSUME NEW n \in Nat, NEW H, 0 \in H, \A k \in 1 .. n : k - 1 \in H => k \in H
    PROVE  \A k \in 0 .. n : k \in H
  <1> DEFINE Missing == {k \in 0 .. n : k \notin H}
  <1> SUFFICES ASSUME Missing # {} PROVE FALSE
    OBVIOUS
  <1>1. Missing \subseteq Nat
    OBVIOUS
  <1>2. PICK k \in Missing : \A j \in Missing : k <= j
    BY <1>1, SmallestNat
  <1>3. k \in 1 .. n /\ k - 1 \in 0 .. n /\ ~ k <= k - 1
    <2>1. k # 0 /\ k \in 0 .. n
      BY <1>2
    <2> QED
      BY <2>1
  <1>4. k - 1 \in H
    BY <1>2, <1>3
  <1> QED
    BY <1>2, <1>3, <1>4

\* f starts at a and takes n steps of G.
Recurs(f, S, n, a, G) ==
    /\ f \in [0 .. n -> S]
    /\ f[0] = a /\ \A k \in 1 .. n : f[k] = G[<<k, f[k - 1]>>]

\* A function that is defined by recursion from 0 to n exists.
LEMMA RecursiveFunction ==
    ASSUME NEW S, NEW n \in Nat, NEW a \in S, NEW G \in [(1 .. n) \X S -> S]
    PROVE  \E f : Recurs(f, S, n, a, G)
  <1> DEFINE Upto(m, f) == f[0] = a /\ \A k \in 1 .. m : f[k] = G[<<k, f[k - 1]>>]
             H == {m \in 0 .. n : \E f \in [0 .. m -> S] : Upto(m, f)}
  <1>1. 0 \in H
    <2> DEFINE g == [k \in 0 .. 0 |-> a]
    <2>1. g \in [0 .. 0 -> S] /\ Upto(0, g)
      OBVIOUS
    <2>2. 0 \in 0 .. n
      OBVIOUS
    <2> HIDE DEF g, Upto
    <2> QED
      BY <2>1, <2>2
  <1>2. ASSUME NEW m \in 1 .. n, m - 1 \in H
        PROVE  m \in H
    <2>1. PICK f \in [0 .. m - 1 -> S] : Upto(m - 1, f)
      BY <1>2
    <2> DEFINE g == [k \in 0 .. m |-> IF k = m THEN G[<<m, f[m - 1]>>] ELSE f[k]]
    <2>2. m \in Nat /\ m \in 0 .. m /\ m - 1 \in 0 .. m - 1 /\ 0 \in 0 .. m - 1 /\ m - 1 # m
      OBVIOUS
    <2>3. f[m - 1] \in S /\ G[<<m, f[m - 1]>>] \in S
      BY <2>2
    <2>4. \A k \in 0 .. m : k = m \/ k \in 0 .. m - 1
      OBVIOUS
    <2>5. g \in [0 .. m -> S]
      BY <2>3, <2>4
    <2>6. /\ \A k \in 0 .. m - 1 : g[k] = f[k]
          /\ g[m] = G[<<m, f[m - 1]>>]
      BY <2>2
    <2>7. g[m] = G[<<m, g[m - 1]>>]
      BY <2>2, <2>6
    <2>8. \A k \in 1 .. m - 1 : g[k] = G[<<k, g[k - 1]>>]
      <3> TAKE k \in 1 .. m - 1
      <3>1. k \in 0 .. m - 1 /\ k - 1 \in 0 .. m - 1
        OBVIOUS
      <3> QED
        BY <2>1, <2>6, <3>1
    <2>9. g[0] = a
      BY <2>1, <2>2, <2>6
    <2> HIDE DEF g
    <2>10. \A k \in 1 .. m : k = m \/ k \in 1 .. m - 1
      OBVIOUS
    <2>11. \A k \in 1 .. m : g[k] = G[<<k, g[k - 1]>>]
      BY <2>7, <2>8, <2>10
    <2> QED
      BY <2>5, <2>9, <2>11
  <1>3. \A m \in 0 .. n : m \in H
    <2> HIDE DEF H
    <2> QED
      BY <1>1, <1>2, UpTo
  <1>4. \E f \in [0 .. n -> S] : Upto(n, f)
    BY <1>3
  <1> QED
    BY <1>4 DEF Recurs

LEMMA OneTo ==
    ASSUME NEW z \in Nat
    PROVE  IsFiniteSet(1 .. z) /\ Cardinality(1 .. z) = z
  <1>1. 1 \in Int /\ z \in Int /\ (1 > z => z = 0) /\ (z - 1) + 1 = z
    OBVIOUS
  <1>2. /\ IsFiniteSet(1 .. z)
        /\ Cardinality(1 .. z) = IF 1 > z THEN 0 ELSE z - 1 + 1
    BY <1>1, FS_Interval, Zenon
  <1> QED
    BY <1>1, <1>2

LEMMA OneColumn ==
    ASSUME NEW x, NEW z \in Nat
    PROVE  IsFiniteSet({x} \X (1 .. z)) /\ Cardinality({x} \X (1 .. z)) = z
  <1> DEFINE A == {x}
             C == 1 .. z
  <1>1. IsFiniteSet(A) /\ Cardinality(A) = 1
    BY FS_Singleton
  <1>2. IsFiniteSet(C) /\ Cardinality(C) = z
    BY OneTo
  <1> HIDE DEF A, C
  <1>3. IsFiniteSet(A \X C) /\ Cardinality(A \X C) = 1 * z
    BY <1>1, <1>2, FS_Product
  <1> QED
    BY <1>3 DEF A, C

-----------------------------------------------------------------------------
Distinct(s) == \A i, j \in DOMAIN s : s[i].path = s[j].path => i = j

\* The bytes that entries of a listing stand for, as pairs of a path and a place.
Octets(E) == {o \in Paths \X Nat : \E e \in E : o[1] = e.path /\ o[2] \in 1 .. e.size}

LEMMA SumEquations ==
    ASSUME NEW s \in Seq(Seen)
    PROVE  \E f \in [0 .. Len(s) -> Nat] :
              /\ f[0] = 0 /\ \A k \in 1 .. Len(s) : f[k] = f[k - 1] + s[k].size
              /\ SumOf(s) = f[Len(s)]
  <1> DEFINE n == Len(s)
             G == [x \in (1 .. n) \X Nat |-> x[2] + s[x[1]].size]
             Sums(f) == f = [k \in 0 .. n |-> IF k = 0 THEN 0 ELSE f[k - 1] + s[k].size]
  <1>0. n \in Nat /\ \A k \in 1 .. n : s[k] \in Seen
    OBVIOUS
  <1>1. n \in Nat /\ \A k \in 1 .. n : s[k].size \in Nat
    BY <1>0 DEF Seen
  <1>2. G \in [(1 .. n) \X Nat -> Nat]
    BY <1>1
  <1>3. \A k \in 1 .. n, x \in Nat : G[<<k, x>>] = x + s[k].size
    OBVIOUS
  <1> HIDE DEF G, n
  <1>30. 0 \in Nat
    OBVIOUS
  <1>31. \E g : Recurs(g, Nat, n, 0, G)
    BY <1>1, <1>2, <1>30, RecursiveFunction, Zenon
  <1>4. PICK g \in [0 .. n -> Nat] : g[0] = 0 /\ \A k \in 1 .. n : g[k] = G[<<k, g[k - 1]>>]
    BY <1>31 DEF Recurs
  <1>5. \A k \in 0 .. n : g[k] = IF k = 0 THEN 0 ELSE g[k - 1] + s[k].size
    <2> TAKE k \in 0 .. n
    <2>1. CASE k = 0
      BY <1>4, <2>1
    <2>2. CASE k # 0
      <3>1. k \in 1 .. n /\ k - 1 \in 0 .. n
        BY <1>1, <2>2
      <3> QED
        BY <1>3, <1>4, <2>2, <3>1
    <2> QED
      BY <2>1, <2>2
  <1>6. Sums(g)
    BY <1>4, <1>5
  <1> DEFINE h == CHOOSE f : Sums(f)
  <1>7. Sums(h)
    BY <1>6
  <1>8. SumOf(s) = h[n]
    BY DEF SumOf, n
  <1> HIDE DEF h
  <1>9. h[0] = 0 /\ \A k \in 1 .. n : h[k] = h[k - 1] + s[k].size
    BY <1>1, <1>7
  <1>10. \A k \in 0 .. n : h[k] \in Nat
    <2> DEFINE H == {k \in 0 .. n : h[k] \in Nat}
    <2>1. 0 \in H
      BY <1>1, <1>9
    <2>2. ASSUME NEW k \in 1 .. n, k - 1 \in H
          PROVE  k \in H
      <3>1. k \in 0 .. n /\ h[k - 1] \in Nat /\ s[k].size \in Nat
        BY <1>1, <2>2
      <3> QED
        BY <1>9, <3>1
    <2> HIDE DEF H
    <2>3. \A k \in 0 .. n : k \in H
      BY <1>1, <2>1, <2>2, UpTo
    <2> QED
      BY <2>3 DEF H
  <1>11. h \in [0 .. n -> Nat]
    BY <1>7, <1>10
  <1> QED
    BY <1>8, <1>9, <1>11 DEF n

\* The total of a listing is the number of bytes it stands for.
LEMMA SumCounts ==
    ASSUME NEW s \in Seq(Seen), Distinct(s)
    PROVE  /\ IsFiniteSet(Octets(ToSet(s)))
           /\ SumOf(s) = Cardinality(Octets(ToSet(s))) /\ SumOf(s) \in Nat
  <1> DEFINE n == Len(s)
             E(k) == {s[i] : i \in 1 .. k}
  <1>1. PICK f \in [0 .. n -> Nat] :
              /\ f[0] = 0 /\ \A k \in 1 .. n : f[k] = f[k - 1] + s[k].size
              /\ SumOf(s) = f[n]
    BY SumEquations DEF n
  <1>0. n \in Nat /\ DOMAIN s = 1 .. n /\ \A k \in 1 .. n : s[k] \in Seen
    OBVIOUS
  <1>2. n \in Nat /\ DOMAIN s = 1 .. n /\ \A k \in 1 .. n : s[k].size \in Nat /\ s[k].path \in Paths
    BY <1>0 DEF Seen
  <1> HIDE DEF n
  <1> DEFINE H == {k \in 0 .. n : IsFiniteSet(Octets(E(k))) /\ Cardinality(Octets(E(k))) = f[k]}
  <1>3. 0 \in H
    <2>1. Octets(E(0)) = {}
      BY DEF Octets
    <2>2. 0 \in 0 .. n
      BY <1>2
    <2> HIDE DEF E
    <2> QED
      BY <1>1, <2>1, <2>2, FS_EmptySet
  <1>4. ASSUME NEW k \in 1 .. n, k - 1 \in H
        PROVE  k \in H
    <2> DEFINE A == Octets(E(k - 1))
               B == {s[k].path} \X (1 .. s[k].size)
    <2>1. IsFiniteSet(A) /\ Cardinality(A) = f[k - 1]
      BY <1>4
    <2>4. IsFiniteSet(B) /\ Cardinality(B) = s[k].size
      BY <1>2, OneColumn
    <2>5. A \cap B = {}
      <3> SUFFICES ASSUME NEW o \in A, o \in B PROVE FALSE
        OBVIOUS
      <3>1. PICK i \in 1 .. k - 1 : o[1] = s[i].path
        BY DEF Octets
      <3>2. o[1] = s[k].path /\ i \in 1 .. n /\ i # k
        BY <1>2
      <3> QED
        BY <1>2, <3>1, <3>2 DEF Distinct
    <2>6. Octets(E(k)) = A \cup B
      <3>1. \A o : o \in Octets(E(k)) => o \in A \cup B
        <4> SUFFICES ASSUME NEW o \in Octets(E(k)) PROVE o \in A \cup B
          OBVIOUS
        <4>1. PICK i \in 1 .. k : o[1] = s[i].path /\ o[2] \in 1 .. s[i].size
          BY DEF Octets
        <4>2. o \in Paths \X Nat /\ o = <<o[1], o[2]>>
          BY DEF Octets
        <4>3. CASE i = k
          BY <4>1, <4>2, <4>3
        <4>4. CASE i # k
          <5>1. i \in 1 .. k - 1
            BY <4>4
          <5> QED
            BY <4>1, <4>2, <5>1 DEF Octets
        <4> QED
          BY <4>3, <4>4
      <3>2. \A o \in A : o \in Octets(E(k))
        <4>1. 1 .. k - 1 \subseteq 1 .. k
          OBVIOUS
        <4> QED
          BY <4>1 DEF Octets
      <3>3. \A o \in B : o \in Octets(E(k))
        <4> SUFFICES ASSUME NEW o \in B PROVE o \in Octets(E(k))
          OBVIOUS
        <4>1. o[1] = s[k].path /\ o[2] \in 1 .. s[k].size /\ o = <<o[1], o[2]>>
          OBVIOUS
        <4>2. o[2] \in Nat /\ o \in Paths \X Nat
          BY <1>2, <4>1
        <4>3. k \in 1 .. k
          OBVIOUS
        <4>4. s[k] \in E(k)
          BY <4>3
        <4> HIDE DEF B, E
        <4> QED
          BY <4>1, <4>2, <4>4 DEF Octets
      <3> QED
        BY <3>1, <3>2, <3>3
    <2> HIDE DEF A, B
    <2>7. IsFiniteSet(A \cup B) /\ Cardinality(A \cup B) = f[k - 1] + s[k].size
      <3>1. /\ IsFiniteSet(A \cup B)
            /\ Cardinality(A \cup B) = Cardinality(A) + Cardinality(B) - Cardinality(A \cap B)
        BY <2>1, <2>4, FS_Union
      <3>2. Cardinality(A \cap B) = 0
        BY <2>5, FS_EmptySet
      <3>3. f[k - 1] \in Nat
        BY <1>2
      <3> QED
        BY <1>2, <2>1, <2>4, <3>1, <3>2, <3>3
    <2> HIDE DEF E
    <2>8. k \in 0 .. n
      BY <1>2
    <2> QED
      BY <1>1, <1>2, <2>6, <2>7, <2>8
  <1>5. \A k \in 0 .. n : k \in H
    <2> HIDE DEF H
    <2> QED
      BY <1>2, <1>3, <1>4, UpTo
  <1>6. n \in 0 .. n
    BY <1>2
  <1>7. E(n) = ToSet(s)
    BY <1>2 DEF ToSet
  <1> QED
    BY <1>1, <1>5, <1>6, <1>7

\* The entries of the files that count.
Listed(c) == {Entry(f) : f \in {g \in ToSet(c) : Counted(g)}}

LEMMA EntryTypes ==
    ASSUME NEW f \in File
    PROVE  Entry(f) \in Seen /\ Entry(f).path = f.path /\ Entry(f).size = Bytes(f) /\ Bytes(f) \in Nat
  BY SizeAssumption DEF Entry, Seen, File, Bytes

LEMMA AppendDistinct ==
    ASSUME NEW T, NEW s \in Seq(T), NEW x \in T, Distinct(s),
           \A y \in ToSet(s) : y.path # x.path
    PROVE  /\ Append(s, x) \in Seq(T) /\ Distinct(Append(s, x))
           /\ ToSet(Append(s, x)) = ToSet(s) \cup {x}
  <1> DEFINE n == Len(s)
             u == Append(s, x)
  <1>1. /\ u \in Seq(T) /\ DOMAIN u = 1 .. n + 1 /\ DOMAIN s = 1 .. n /\ n \in Nat
        /\ u[n + 1] = x /\ \A i \in 1 .. n : u[i] = s[i]
    OBVIOUS
  <1> HIDE DEF n, u
  <1>2. \A i \in 1 .. n + 1 : i \in 1 .. n \/ i = n + 1
    BY <1>1
  <1>3. \A i \in 1 .. n : s[i].path # x.path /\ i \in 1 .. n + 1
    BY <1>1 DEF ToSet
  <1>4. Distinct(u)
    BY <1>1, <1>2, <1>3 DEF Distinct
  <1>5. n + 1 \in 1 .. n + 1
    BY <1>1
  <1>6. ToSet(u) = ToSet(s) \cup {x}
    <2>1. \A y \in ToSet(u) : y \in ToSet(s) \cup {x}
      BY <1>1, <1>2 DEF ToSet
    <2>2. \A y \in ToSet(s) : y \in ToSet(u)
      BY <1>1, <1>3 DEF ToSet
    <2>3. x \in ToSet(u)
      BY <1>1, <1>5 DEF ToSet
    <2> QED
      BY <2>1, <2>2, <2>3
  <1> QED
    BY <1>1, <1>4, <1>6 DEF u

LEMMA ListEquations ==
    ASSUME cache \in Seq(File)
    PROVE  \E f \in [0 .. Len(cache) -> Seq(Seen)] :
              /\ f[0] = <<>>
              /\ \A k \in 1 .. Len(cache) :
                   f[k] = IF Counted(cache[k]) THEN Append(f[k - 1], Entry(cache[k])) ELSE f[k - 1]
              /\ Listing = f[Len(cache)]
  <1> DEFINE n == Len(cache)
             Step(k, s) == IF Counted(cache[k]) THEN Append(s, Entry(cache[k])) ELSE s
             G == [x \in (1 .. n) \X Seq(Seen) |-> Step(x[1], x[2])]
             Lists(f) == f = [k \in 0 .. n |->
                                IF k = 0 THEN <<>>
                                ELSE IF Counted(cache[k]) THEN Append(f[k - 1], Entry(cache[k]))
                                ELSE f[k - 1]]
  <1>0. n \in Nat /\ \A k \in 1 .. n : cache[k] \in File
    OBVIOUS
  <1>1. \A k \in 1 .. n : Entry(cache[k]) \in Seen
    BY <1>0, EntryTypes
  <1>10. \A k \in 1 .. n, s \in Seq(Seen) : Step(k, s) \in Seq(Seen)
    BY <1>1
  <1>2. G \in [(1 .. n) \X Seq(Seen) -> Seq(Seen)]
    BY <1>10
  <1>3. \A k \in 1 .. n, s \in Seq(Seen) : G[<<k, s>>] = Step(k, s)
    OBVIOUS
  <1> HIDE DEF G, n
  <1>30. <<>> \in Seq(Seen)
    OBVIOUS
  <1>31. \E g : Recurs(g, Seq(Seen), n, <<>>, G)
    BY <1>0, <1>2, <1>30, RecursiveFunction, Zenon
  <1>4. PICK g \in [0 .. n -> Seq(Seen)] :
             g[0] = <<>> /\ \A k \in 1 .. n : g[k] = G[<<k, g[k - 1]>>]
    BY <1>31 DEF Recurs
  <1>5. \A k \in 0 .. n : g[k] = IF k = 0 THEN <<>> ELSE Step(k, g[k - 1])
    <2> TAKE k \in 0 .. n
    <2>1. CASE k = 0
      BY <1>4, <2>1
    <2>2. CASE k # 0
      <3>1. k \in 1 .. n /\ k - 1 \in 0 .. n
        BY <1>0, <2>2
      <3> HIDE DEF Step
      <3> QED
        BY <1>3, <1>4, <2>2, <3>1
    <2> QED
      BY <2>1, <2>2
  <1>6. Lists(g)
    BY <1>4, <1>5
  <1> DEFINE h == CHOOSE f : Lists(f)
  <1>7. Lists(h)
    BY <1>6
  <1>8. Listing = h[n]
    BY DEF Listing, n
  <1> HIDE DEF h
  <1>90. \A k \in 0 .. n : h[k] = IF k = 0 THEN <<>> ELSE Step(k, h[k - 1])
    BY <1>7
  <1>9. h[0] = <<>> /\ \A k \in 1 .. n : h[k] = Step(k, h[k - 1])
    <2> HIDE DEF Step
    <2>1. 0 \in 0 .. n /\ \A k \in 1 .. n : k \in 0 .. n /\ k # 0
      BY <1>0
    <2> QED
      BY <1>90, <2>1
  <1>100. \A k \in 0 .. n : h[k] \in Seq(Seen)
    <2> DEFINE H == {k \in 0 .. n : h[k] \in Seq(Seen)}
    <2>0. 0 \in 0 .. n
      BY <1>0
    <2>1. 0 \in H
      BY <1>30, <1>9, <2>0
    <2>2. ASSUME NEW k \in 1 .. n, k - 1 \in H
          PROVE  k \in H
      <3>1. k \in 0 .. n /\ h[k - 1] \in Seq(Seen)
        BY <1>0, <2>2
      <3> HIDE DEF Step
      <3> QED
        BY <1>9, <1>10, <3>1
    <2> HIDE DEF H
    <2>3. \A k \in 0 .. n : k \in H
      BY <1>0, <2>1, <2>2, UpTo
    <2> QED
      BY <2>3 DEF H
  <1>11. h \in [0 .. n -> Seq(Seen)]
    BY <1>7, <1>100
  <1> QED
    BY <1>8, <1>9, <1>11 DEF n

\* A listing has one entry for each file that counts.
LEMMA ListingExact ==
    ASSUME cache \in Seq(File), Distinct(cache)
    PROVE  Listing \in Seq(Seen) /\ Distinct(Listing) /\ ToSet(Listing) = Listed(cache)
  <1> DEFINE n == Len(cache)
             L(k) == {Entry(cache[i]) : i \in {j \in 1 .. k : Counted(cache[j])}}
  <1>1. PICK f \in [0 .. n -> Seq(Seen)] :
              /\ f[0] = <<>>
              /\ \A k \in 1 .. n :
                   f[k] = IF Counted(cache[k]) THEN Append(f[k - 1], Entry(cache[k])) ELSE f[k - 1]
              /\ Listing = f[n]
    BY ListEquations
  <1>2. n \in Nat /\ DOMAIN cache = 1 .. n /\ \A k \in 1 .. n : cache[k] \in File
    OBVIOUS
  <1>3. \A k \in 1 .. n : Entry(cache[k]) \in Seen /\ Entry(cache[k]).path = cache[k].path
    BY <1>2, EntryTypes
  <1> DEFINE H == {k \in 0 .. n : Distinct(f[k]) /\ ToSet(f[k]) = L(k)}
  <1>4. 0 \in H
    <2>1. DOMAIN <<>> = {}
      OBVIOUS
    <2>2. ToSet(<<>>) = {} /\ Distinct(<<>>)
      BY <2>1 DEF ToSet, Distinct
    <2>3. L(0) = {} /\ 0 \in 0 .. n
      BY <1>2
    <2> HIDE DEF L
    <2> QED
      BY <1>1, <2>2, <2>3
  <1>5. ASSUME NEW k \in 1 .. n, k - 1 \in H
        PROVE  k \in H
    <2> HIDE DEF n
    <2>1. k \in 0 .. n /\ k - 1 \in 0 .. n /\ f[k - 1] \in Seq(Seen)
      BY <1>2, <1>5
    <2>2. Distinct(f[k - 1]) /\ ToSet(f[k - 1]) = L(k - 1)
      BY <1>5
    <2>3. \A i \in 1 .. k : i = k \/ i \in 1 .. k - 1
      BY <1>2
    <2>4. \A i \in 1 .. k - 1 : i \in 1 .. k /\ i \in 1 .. n /\ i # k
      BY <1>2
    <2>5. k \in 1 .. k
      BY <1>2
    <2>6. CASE Counted(cache[k])
      <3>1. L(k) = L(k - 1) \cup {Entry(cache[k])}
        BY <2>3, <2>4, <2>5, <2>6
      <3>2. ASSUME NEW y \in L(k - 1)
            PROVE  y.path # Entry(cache[k]).path
        <4>1. PICK i \in 1 .. k - 1 : y = Entry(cache[i])
          OBVIOUS
        <4>2. i \in 1 .. n /\ i # k /\ cache[i].path # cache[k].path
          BY <1>2, <2>4 DEF Distinct
        <4> QED
          BY <1>3, <4>1, <4>2
      <3> HIDE DEF L
      <3>3. f[k] = Append(f[k - 1], Entry(cache[k]))
        BY <1>1, <2>6
      <3>4. Distinct(f[k]) /\ ToSet(f[k]) = ToSet(f[k - 1]) \cup {Entry(cache[k])}
        BY <1>3, <2>1, <2>2, <3>2, <3>3, AppendDistinct
      <3> QED
        BY <2>1, <2>2, <3>1, <3>4
    <2>7. CASE ~ Counted(cache[k])
      <3>1. L(k) = L(k - 1)
        BY <2>3, <2>4, <2>7
      <3> HIDE DEF L
      <3> QED
        BY <1>1, <2>1, <2>2, <2>7, <3>1
    <2> QED
      BY <2>6, <2>7
  <1>6. \A k \in 0 .. n : k \in H
    <2> HIDE DEF H
    <2> QED
      BY <1>2, <1>4, <1>5, UpTo
  <1>7. n \in 0 .. n
    BY <1>2
  <1>8. L(n) = Listed(cache)
    BY <1>2 DEF Listed, ToSet
  <1> QED
    BY <1>1, <1>6, <1>7, <1>8

\* The bytes of the cache that count.
Stock == Octets(Listed(cache))

LEMMA TotalCounts ==
    ASSUME cache \in Seq(File), Distinct(cache)
    PROVE  IsFiniteSet(Stock) /\ Total = Cardinality(Stock) /\ Total \in Nat
  BY ListingExact, SumCounts DEF Stock, Total

(* What the steps do to the cache and to a listing, as sets of bytes.      *)

LEMMA RemoveAtDistinct ==
    ASSUME NEW T, NEW s \in Seq(T), NEW i \in 1 .. Len(s), Distinct(s)
    PROVE  /\ Distinct(RemoveAt(s, i))
           /\ ToSet(RemoveAt(s, i)) = {y \in ToSet(s) : y.path # s[i].path}
  <1> DEFINE u == RemoveAt(s, i)
             n == Len(s)
             At0(k) == IF k < i THEN k ELSE k + 1
  <1>1. /\ n \in Nat /\ DOMAIN s = 1 .. n /\ DOMAIN u = 1 .. n - 1
        /\ \A k \in 1 .. n - 1 : u[k] = s[At0(k)]
    BY RemoveAtPlaces
  <1>2. \A k \in 1 .. n - 1 : At0(k) \in 1 .. n /\ At0(k) # i
    BY <1>1
  <1>3. \A k, l \in 1 .. n - 1 : At0(k) = At0(l) => k = l
    BY <1>1
  <1>4. \A j \in 1 .. n : j # i => \E k \in 1 .. n - 1 : At0(k) = j
    <2> TAKE j \in 1 .. n
    <2>1. CASE j < i
      <3>1. j \in 1 .. n - 1 /\ At0(j) = j
        BY <1>1, <2>1
      <3> QED
        BY <3>1
    <2>2. CASE j > i
      <3>1. j - 1 \in 1 .. n - 1 /\ At0(j - 1) = j
        BY <1>1, <2>2
      <3> QED
        BY <3>1
    <2> QED
      BY <1>1, <2>1, <2>2
  <1> HIDE DEF u, n, At0
  <1>5. Distinct(u)
    BY <1>1, <1>2, <1>3 DEF Distinct
  <1>6. \A y \in ToSet(u) : y \in ToSet(s) /\ y.path # s[i].path
    <2> TAKE y \in ToSet(u)
    <2>1. PICK k \in 1 .. n - 1 : y = s[At0(k)]
      BY <1>1 DEF ToSet
    <2>2. At0(k) \in 1 .. n /\ At0(k) # i /\ i \in 1 .. n
      BY <1>2 DEF n
    <2> QED
      BY <1>1, <2>1, <2>2 DEF Distinct, ToSet
  <1>7. \A y \in ToSet(s) : y.path # s[i].path => y \in ToSet(u)
    <2> SUFFICES ASSUME NEW y \in ToSet(s), y.path # s[i].path PROVE y \in ToSet(u)
      OBVIOUS
    <2>1. PICK j \in 1 .. n : y = s[j]
      BY <1>1 DEF ToSet
    <2>2. PICK k \in 1 .. n - 1 : At0(k) = j
      BY <1>4, <2>1
    <2> QED
      BY <1>1, <2>1, <2>2 DEF ToSet
  <1>8. ToSet(u) = {y \in ToSet(s) : y.path # s[i].path}
    BY <1>6, <1>7
  <1> QED
    BY <1>5, <1>8 DEF u

LEMMA WithoutExact ==
    ASSUME cache \in Seq(File), Distinct(cache), NEW p
    PROVE  /\ Distinct(Without(p))
           /\ ToSet(Without(p)) = {f \in ToSet(cache) : f.path # p}
  <1>1. CASE Cached(p)
    <2>1. Place(p) \in DOMAIN cache /\ cache[Place(p)].path = p
      BY <1>1 DEF Cached, Place
    <2>2. Place(p) \in 1 .. Len(cache)
      BY <2>1
    <2> QED
      BY <1>1, <2>1, <2>2, RemoveAtDistinct DEF Without
  <1>2. CASE ~ Cached(p)
    <2>1. \A f \in ToSet(cache) : f.path # p
      BY <1>2 DEF Cached, ToSet
    <2> QED
      BY <1>2, <2>1 DEF Without
  <1> QED
    BY <1>1, <1>2

LEMMA TailDistinct ==
    ASSUME NEW T, NEW s \in Seq(T), s # <<>>, Distinct(s)
    PROVE  /\ Distinct(Tail(s))
           /\ ToSet(Tail(s)) = {y \in ToSet(s) : y.path # Head(s).path}
  <1> DEFINE n == Len(s)
             u == Tail(s)
  <1>1. n \in Nat /\ n >= 1 /\ DOMAIN s = 1 .. n /\ Head(s) = s[1]
    OBVIOUS
  <1>2. DOMAIN u = 1 .. n - 1 /\ \A k \in 1 .. n - 1 : u[k] = s[k + 1]
    OBVIOUS
  <1> HIDE DEF n, u
  <1>3. 1 \in 1 .. n /\ \A k \in 1 .. n - 1 : k + 1 \in 1 .. n /\ k + 1 # 1
    BY <1>1
  <1>4. \A k, l \in 1 .. n - 1 : k + 1 = l + 1 => k = l
    BY <1>1
  <1>5. \A j \in 1 .. n : j # 1 => j - 1 \in 1 .. n - 1 /\ (j - 1) + 1 = j
    BY <1>1
  <1>6. Distinct(u)
    BY <1>1, <1>2, <1>3, <1>4 DEF Distinct
  <1>7. \A y \in ToSet(u) : y \in ToSet(s) /\ y.path # Head(s).path
    <2> TAKE y \in ToSet(u)
    <2>1. PICK k \in 1 .. n - 1 : y = s[k + 1]
      BY <1>2 DEF ToSet
    <2> QED
      BY <1>1, <1>3, <2>1 DEF Distinct, ToSet
  <1>8. \A y \in ToSet(s) : y.path # Head(s).path => y \in ToSet(u)
    <2> SUFFICES ASSUME NEW y \in ToSet(s), y.path # Head(s).path PROVE y \in ToSet(u)
      OBVIOUS
    <2>1. PICK j \in 1 .. n : y = s[j]
      BY <1>1 DEF ToSet
    <2>2. j - 1 \in 1 .. n - 1 /\ u[j - 1] = s[j]
      BY <1>1, <1>2, <1>5, <2>1
    <2> QED
      BY <1>2, <2>1, <2>2 DEF ToSet
  <1>9. ToSet(u) = {y \in ToSet(s) : y.path # Head(s).path}
    BY <1>7, <1>8
  <1> QED
    BY <1>6, <1>9 DEF u

\* The entries of some paths less stand for the bytes of those paths less.
LEMMA OctetsBut ==
    ASSUME NEW E, NEW p
    PROVE  Octets({e \in E : e.path # p}) = {o \in Octets(E) : o[1] # p}
  BY DEF Octets

\* A finite set of bytes less those of one entry.
LEMMA LessEntry ==
    ASSUME NEW E, NEW e \in E, e.path \in Paths, e.size \in Nat, IsFiniteSet(Octets(E)),
           \A g \in E : g.path = e.path => g = e
    PROVE  LET F == {g \in E : g.path # e.path}
           IN  /\ IsFiniteSet(Octets(F))
               /\ Cardinality(Octets(F)) = Cardinality(Octets(E)) - e.size
               /\ e.size <= Cardinality(Octets(E))
  <1> DEFINE F == {g \in E : g.path # e.path}
             z == e.size
             B == {e.path} \X (1 .. z)
  <1>2. z \in Nat
    OBVIOUS
  <1> HIDE DEF z
  <1>4. IsFiniteSet(B) /\ Cardinality(B) = z
    BY <1>2, OneColumn
  <1>5. \A o : o \in B => o \in Octets(E)
    <2> SUFFICES ASSUME NEW o \in B PROVE o \in Octets(E)
      OBVIOUS
    <2>1. o[1] = e.path /\ o[2] \in 1 .. e.size /\ o = <<o[1], o[2]>>
      BY DEF z
    <2>2. o[2] \in Nat /\ o \in Paths \X Nat
      BY <1>2, <2>1
    <2> HIDE DEF B
    <2> QED
      BY <2>1, <2>2 DEF Octets
  <1>6. Octets(F) = Octets(E) \ B
    <2>1. Octets(F) = {o \in Octets(E) : o[1] # e.path}
      BY OctetsBut
    <2>2. \A o \in Octets(E) : o[1] = e.path => o \in B
      <3> SUFFICES ASSUME NEW o \in Octets(E), o[1] = e.path PROVE o \in B
        OBVIOUS
      <3>1. o \in Paths \X Nat /\ o = <<o[1], o[2]>>
        BY DEF Octets
      <3>2. PICK g \in E : o[1] = g.path /\ o[2] \in 1 .. g.size
        BY DEF Octets
      <3> QED
        BY <3>1, <3>2 DEF z
    <2>3. \A o \in B : o[1] = e.path
      OBVIOUS
    <2> HIDE DEF B, F
    <2> QED
      BY <2>1, <2>2, <2>3
  <1> HIDE DEF B, F
  <1>7. Octets(E) \cap B = B /\ B \subseteq Octets(E)
    BY <1>5
  <1>8. /\ IsFiniteSet(Octets(E) \ B)
        /\ Cardinality(Octets(E) \ B) = Cardinality(Octets(E)) - Cardinality(Octets(E) \cap B)
    BY FS_Difference
  <1>9. Cardinality(B) <= Cardinality(Octets(E))
    BY <1>7, FS_Subset
  <1> QED
    BY <1>4, <1>6, <1>7, <1>8, <1>9 DEF F, z

-----------------------------------------------------------------------------
(* The invariant.  A request that is between its listing and its write holds  *)
(* the listing against its own size only, so what others write meanwhile goes  *)
(* over the budget.  The more requests are in that window, the less may lie    *)
(* in the cache that none of them knows of.                                   *)

Lists(r)   == At(r, "get", "evict") \/ At(r, "get", "fill")
Known(r)   == Octets(ToSet(req[r].seen))
Unknown(r) == Stock \ Known(r)

\* What the requests beyond the first k may add.
Room(k) == (Cardinality(Reqs) - k) * Largest

\* Of the requests Q either none has written beyond the budget, or one of them
\* knows nearly all that lies in the cache.
Good(Q) ==
    \/ Cardinality(Stock) <= AtLeast(Budget, Largest) + Room(Cardinality(Q) + 1)
    \/ \E r \in Q : Cardinality(Unknown(r)) <= Room(Cardinality(Q))

\* used counts at least the files of the listing that are left.
Counts(r) ==
    /\ req[r].seen \in Seq(Seen) /\ Distinct(req[r].seen) /\ req[r].used \in Nat
    /\ Cardinality(Known(r)) <= req[r].used
    /\ At(r, "get", "fill") => Fits(req[r]) \/ req[r].seen = <<>>

CeilInv ==
    /\ Distinct(cache)
    /\ \A r \in Reqs : Lists(r) => Counts(r)
    /\ \A Q \in SUBSET Reqs : (\A r \in Q : Lists(r)) => Good(Q)

LEMMA LargestSize ==
    /\ Largest \in Nat
    /\ \A a \in Art : Size[a] \in Nat /\ Size[a] <= Largest
  <1> DEFINE n == Cardinality(Art)
             Sizes == {0} \cup {Size[a] : a \in Art}
             IsLargest(m) == m \in Sizes /\ \A a \in Art : Size[a] <= m
  <1>1. n \in Nat /\ ExistsBijection(1 .. n, Art)
    BY FiniteAssumption, FS_CardinalityType
  <1>2. PICK f \in [1 .. n -> Art] : \A a \in Art : \E i \in 1 .. n : f[i] = a
    BY <1>1 DEF ExistsBijection, Bijection, Injection, Surjection
  <1> HIDE DEF n
  <1>3. \A a \in Art : Size[a] \in Nat
    BY SizeAssumption
  <1>4. \A i \in 1 .. n : f[i] \in Art /\ Size[f[i]] \in Nat
    BY <1>2, <1>3
  <1> DEFINE H == {k \in 0 .. n : \E m \in Sizes : \A i \in 1 .. k : Size[f[i]] <= m}
  <1>5. 0 \in H
    BY <1>1
  <1>6. ASSUME NEW k \in 1 .. n, k - 1 \in H
        PROVE  k \in H
    <2>1. PICK m \in Sizes : \A i \in 1 .. k - 1 : Size[f[i]] <= m
      BY <1>6
    <2>2. k \in 0 .. n /\ \A i \in 1 .. k : i = k \/ i \in 1 .. k - 1
      BY <1>1
    <2>3. m \in Nat /\ Size[f[k]] \in Nat /\ Size[f[k]] \in Sizes
      BY <1>3, <1>4
    <2>30. \A i \in 1 .. k - 1 : i \in 1 .. n
      BY <1>1
    <2> HIDE DEF Sizes
    <2>4. CASE Size[f[k]] <= m
      <3>1. \A i \in 1 .. k : Size[f[i]] <= m
        BY <2>1, <2>2, <2>4
      <3> QED
        BY <2>2, <3>1
    <2>5. CASE ~ Size[f[k]] <= m
      <3>1. \A i \in 1 .. k : Size[f[i]] <= Size[f[k]]
        BY <1>4, <2>1, <2>2, <2>3, <2>30, <2>5
      <3> QED
        BY <2>2, <2>3, <3>1
    <2> QED
      BY <2>4, <2>5
  <1>7. n \in H
    <2> HIDE DEF H
    <2>1. \A k \in 0 .. n : k \in H
      BY <1>1, <1>5, <1>6, UpTo
    <2> QED
      BY <1>1, <2>1
  <1>8. PICK m \in Sizes : \A i \in 1 .. n : Size[f[i]] <= m
    BY <1>7
  <1>9. IsLargest(m)
    BY <1>2, <1>8
  <1>10. Largest \in Sizes /\ \A a \in Art : Size[a] <= Largest
    BY <1>9 DEF Largest
  <1>11. Sizes \subseteq Nat
    BY <1>3
  <1> QED
    BY <1>3, <1>10, <1>11

LEMMA RoomSteps ==
    ASSUME NEW k \in Int
    PROVE  /\ Room(k) \in Int /\ Room(k + 1) \in Int /\ Room(k) = Room(k + 1) + Largest
           /\ k <= Cardinality(Reqs) => Room(k) >= 0
  <1> DEFINE n == Cardinality(Reqs)
  <1>1. n \in Nat
    BY FiniteAssumption, FS_CardinalityType
  <1>2. Largest \in Nat
    BY LargestSize
  <1>3. \A a \in Int, b \in Nat : /\ a * b \in Int /\ (a + 1) * b = a * b + b
                                 /\ a >= 0 => a * b >= 0
    OBVIOUS
  <1>4. n - (k + 1) \in Int /\ n - k = (n - (k + 1)) + 1
    BY <1>1
  <1>5. k <= n => n - k >= 0
    BY <1>1
  <1>6. n - k \in Int
    BY <1>1
  <1> DEFINE a == n - (k + 1)
             b == n - k
  <1>7. a \in Int /\ b \in Int /\ b = a + 1 /\ (k <= n => b >= 0)
    BY <1>4, <1>5, <1>6
  <1>8. Room(k) = b * Largest /\ Room(k + 1) = a * Largest
    BY DEF Room
  <1> HIDE DEF a, b
  <1>9. /\ a * Largest \in Int /\ b * Largest \in Int /\ b * Largest = a * Largest + Largest
        /\ b >= 0 => b * Largest >= 0
    BY <1>2, <1>3, <1>7
  <1> QED
    BY <1>7, <1>8, <1>9

LEMMA BudgetBounds ==
    /\ Budget \in Nat /\ AtLeast(Budget, Largest) \in Nat
    /\ AtLeast(Budget, Largest) >= Budget /\ AtLeast(Budget, Largest) >= Largest
  BY SizeAssumption, LargestSize DEF AtLeast

\* A set of requests has at most as many elements as there are requests.
LEMMA SomeRequests ==
    ASSUME NEW Q \in SUBSET Reqs
    PROVE  /\ IsFiniteSet(Q) /\ Cardinality(Q) \in Nat /\ Cardinality(Q) <= Cardinality(Reqs)
           /\ Cardinality(Reqs) \in Nat
  BY FiniteAssumption, FS_Subset, FS_CardinalityType

LEMMA StockFinite ==
    ASSUME ArtInv, Distinct(cache)
    PROVE  /\ IsFiniteSet(Stock) /\ Cardinality(Stock) \in Nat
           /\ \A r : IsFiniteSet(Unknown(r)) /\ Cardinality(Unknown(r)) \in Nat
  <1>1. cache \in Seq(File)
    BY DEF ArtInv, CacheBelongs
  <1>2. IsFiniteSet(Stock) /\ Cardinality(Stock) \in Nat
    BY <1>1, TotalCounts, FS_CardinalityType
  <1>3. \A r : Unknown(r) \subseteq Stock
    BY DEF Unknown
  <1> QED
    BY <1>2, <1>3, FS_Subset, FS_CardinalityType

\* A step that adds nothing to the cache, and after which a listing misses no
\* more than before, keeps the invariant.
LEMMA CeilKeeps ==
    ASSUME ArtInv, CeilInv, Distinct(cache)', Stock' \subseteq Stock,
           \A r \in Reqs : Lists(r)' => /\ Lists(r) /\ Counts(r)'
                                       /\ Unknown(r)' \subseteq Unknown(r)
    PROVE  CeilInv'
  <1> SUFFICES ASSUME NEW Q \in SUBSET Reqs, \A r \in Q : Lists(r)'
               PROVE  Good(Q)'
    BY DEF CeilInv
  <1>1. Good(Q)
    BY DEF CeilInv
  <1>2. /\ IsFiniteSet(Stock) /\ Cardinality(Stock) \in Nat
        /\ \A r : IsFiniteSet(Unknown(r)) /\ Cardinality(Unknown(r)) \in Nat
    BY StockFinite DEF CeilInv
  <1>3. Cardinality(Stock') \in Nat /\ Cardinality(Stock') <= Cardinality(Stock)
    BY <1>2, FS_Subset, FS_CardinalityType
  <1>4. \A r \in Q : /\ Cardinality(Unknown(r)') \in Nat
                     /\ Cardinality(Unknown(r)') <= Cardinality(Unknown(r))
    BY <1>2, FS_Subset, FS_CardinalityType
  <1> DEFINE k == Cardinality(Q)
             M == AtLeast(Budget, Largest)
  <1>5. k \in Nat /\ k \in Int /\ M \in Nat
    BY SomeRequests, BudgetBounds
  <1>6. Room(k) \in Int /\ Room(k + 1) \in Int
    BY <1>5, RoomSteps
  <1> HIDE DEF k, M
  <1>7. CASE Cardinality(Stock) <= M + Room(k + 1)
    <2>1. Cardinality(Stock') <= M + Room(k + 1)
      BY <1>2, <1>3, <1>5, <1>6, <1>7
    <2> QED
      BY <2>1 DEF Good, k, M, Room
  <1>8. CASE \E r \in Q : Cardinality(Unknown(r)) <= Room(k)
    <2>1. \E r \in Q : Cardinality(Unknown(r)') <= Room(k)
      BY <1>2, <1>4, <1>6, <1>8
    <2> QED
      BY <2>1 DEF Good, k, Room
  <1> QED
    BY <1>1, <1>7, <1>8 DEF Good, k, M

\* What another request holds does not change.
LEMMA OthersSame ==
    ASSUME NEW s \in Reqs, req'[s] = req[s]
    PROVE  /\ Lists(s)' <=> Lists(s)
           /\ Counts(s)' <=> Counts(s)
           /\ Known(s)' = Known(s)
  BY DEF Lists, Counts, Known, At, Fits

\* A step of a request that holds no listing afterwards, and leaves the cache.
LEMMA CeilQuiet ==
    ASSUME ArtInv, CeilInv, NEW r \in Reqs,
           \/ Finds(r) \/ Serve(r) \/ Uploads(r)
           \/ \E path \in Asked : BeginGet(r, path)
           \/ \E image \in Images : BeginUpload(r, image)
    PROVE  CeilInv'
  <1> USE DEF OnlyReq, Goto, Reply
  <1>1. UNCHANGED cache /\ \A s \in Reqs \ {r} : req'[s] = req[s]
    BY DEF Finds, BeginGet, BeginUpload, Look, CheckMiss, OwnFound, OwnFails, TwinCached,
           TwinFound, TwinFails, Borrow, Miss, Fetch, Serve, ArtInv,
           Uploads, UploadCheck, UploadOpen, UploadFill
  <1>2. ~ Lists(r)'
    <2> USE DEF ArtInv, GetReq, UploadReq
    <2>1. CASE \E image \in Images : BeginUpload(r, image)
      BY <2>1 DEF BeginUpload, At, Lists
    <2>2. CASE \E path \in Asked : BeginGet(r, path)
      BY <2>2 DEF BeginGet, At, Lists
    <2>3. CASE Finds(r) \/ Serve(r)
      <3>1. req[r].op = "get" /\ GetReq(req[r])
        BY <2>3, GetAt DEF Finds, Look, CheckMiss, OwnFound, OwnFails, TwinCached,
           TwinFound, TwinFails, Borrow, Miss, Fetch, Serve
      <3>2. CASE OwnFound(r) \/ TwinFound(r) \/ Fetch(r)
        BY <3>1, <3>2 DEF OwnFound, TwinFound, Fetch, Stores, At, Lists
      <3>3. CASE Borrow(r)
        BY <3>1, <3>3 DEF Borrow, Stores, At, Lists
      <3>4. CASE OwnFails(r) \/ TwinCached(r) \/ TwinFails(r) \/ Look(r) \/ CheckMiss(r) \/ Miss(r)
        <4>1. req[r].pc \notin {"evict", "fill"}
          BY <3>4 DEF OwnFails, TwinCached, TwinFails, Look, CheckMiss, Miss, At
        <4> QED
          BY <3>1, <3>4, <4>1 DEF OwnFails, TwinCached, TwinFails, Look, CheckMiss, Miss, At, Lists
      <3>5. CASE Serve(r)
        BY <3>5 DEF Serve, At, Lists
      <3> QED
        BY <2>3, <3>2, <3>3, <3>4, <3>5 DEF Finds
    <2>4. CASE Uploads(r)
      <3>1. req[r].op = "upload" /\ UploadReq(req[r])
        BY <2>4 DEF Uploads, UploadCheck, UploadOpen, UploadFill, At, Fitting
      <3> QED
        BY <2>4, <3>1 DEF Uploads, UploadCheck, UploadOpen, UploadFill, At, Lists
    <2> QED
      BY <2>1, <2>2, <2>3, <2>4
  <1>3. Stock' = Stock /\ Distinct(cache)'
    BY <1>1 DEF Stock, Listed, Octets, CeilInv, Distinct
  <1>4. \A s \in Reqs : Lists(s)' => /\ Lists(s) /\ Counts(s)' /\ Unknown(s)' \subseteq Unknown(s)
    <2> SUFFICES ASSUME NEW s \in Reqs, Lists(s)'
                 PROVE  Lists(s) /\ Counts(s)' /\ Unknown(s)' \subseteq Unknown(s)
      OBVIOUS
    <2>1. req'[s] = req[s]
      BY <1>1, <1>2
    <2> QED
      BY <1>3, <2>1, OthersSame DEF CeilInv, Unknown
  <1> QED
    BY <1>3, <1>4, CeilKeeps

\* A listing that was just made misses nothing.
LEMMA CeilScan ==
    ASSUME ArtInv, CeilInv, NEW r \in Reqs, Scan(r)
    PROVE  CeilInv'
  <1> DEFINE q == [req[r] EXCEPT !.pc = "evict", !.seen = Listing, !.used = Total]
  <1>1. req[r].op = "get" /\ GetReq(req[r])
    BY GetAt DEF Scan
  <1>2. req' = [req EXCEPT ![r] = q] /\ cache' = cache
    BY DEF Scan, Goto, OnlyReq
  <1>3. req'[r] = q /\ \A s \in Reqs \ {r} : req'[s] = req[s]
    BY <1>2 DEF ArtInv
  <1>4. q.seen = Listing /\ q.used = Total /\ q.pc = "evict"
    BY <1>1 DEF GetReq
  <1> HIDE DEF q
  <1>5. cache \in Seq(File) /\ Distinct(cache)
    BY DEF ArtInv, CacheBelongs, CeilInv
  <1>6. /\ Listing \in Seq(Seen) /\ Distinct(Listing) /\ Octets(ToSet(Listing)) = Stock
        /\ Total = Cardinality(Stock) /\ Total \in Nat
    BY <1>5, ListingExact, TotalCounts DEF Stock
  <1>7. Stock' = Stock /\ Distinct(cache)'
    BY <1>2, <1>5 DEF Stock, Listed, Octets, Distinct
  <1>8. Known(r)' = Stock
    BY <1>3, <1>4, <1>6 DEF Known
  <1>9. Counts(r)'
    <2>1. Cardinality(Known(r)') <= req'[r].used
      BY <1>3, <1>4, <1>6, <1>8
    <2>2. /\ req'[r].seen \in Seq(Seen) /\ Distinct(req'[r].seen) /\ req'[r].used \in Nat
          /\ req'[r].pc # "fill"
      BY <1>3, <1>4, <1>6
    <2> QED
      BY <2>1, <2>2 DEF Counts, At
  <1>10. \A s \in Reqs : s # r /\ Lists(s)' =>
                         Lists(s) /\ Counts(s)' /\ Unknown(s)' = Unknown(s)
    BY <1>3, <1>7, OthersSame DEF CeilInv, Unknown
  <1>11. \A s \in Reqs : Lists(s)' => Counts(s)'
    BY <1>9, <1>10
  <1>12. ASSUME NEW Q \in SUBSET Reqs, \A s \in Q : Lists(s)'
         PROVE  Good(Q)'
    <2>1. CASE r \in Q
      <3>1. Unknown(r)' = {}
        BY <1>7, <1>8 DEF Unknown
      <3>2. Cardinality(Unknown(r)') = 0
        BY <3>1, FS_EmptySet
      <3>3. Room(Cardinality(Q)) >= 0 /\ Room(Cardinality(Q)) \in Int
        BY SomeRequests, RoomSteps
      <3>4. Cardinality(Unknown(r)') <= Room(Cardinality(Q))
        BY <3>2, <3>3
      <3> QED
        BY <2>1, <3>4 DEF Good, Room
    <2>2. CASE r \notin Q
      <3>1. \A s \in Q : Lists(s) /\ Unknown(s)' = Unknown(s)
        BY <1>10, <1>12, <2>2
      <3>2. Good(Q)
        BY <3>1 DEF CeilInv
      <3> QED
        BY <1>7, <3>1, <3>2 DEF Good, Room
    <2> QED
      BY <2>1, <2>2
  <1> QED
    BY <1>7, <1>11, <1>12 DEF CeilInv

\* What the cache holds under other paths.
LEMMA StockBut ==
    ASSUME NEW p, NEW d, ToSet(d) = {f \in ToSet(cache) : f.path # p}
    PROVE  Octets(Listed(d)) = {o \in Stock : o[1] # p}
  <1>1. \A f : Entry(f).path = f.path
    BY DEF Entry
  <1>2. Listed(d) = {e \in Listed(cache) : e.path # p}
    BY <1>1 DEF Listed
  <1> QED
    BY <1>2 DEF Stock, Octets

\* The entry of an evicted file leaves the listing and the cache alike.
LEMMA CeilEvict ==
    ASSUME ArtInv, CeilInv, NEW r \in Reqs, Evict(r)
    PROVE  CeilInv'
  <1> DEFINE e == Head(req[r].seen)
             q == [req[r] EXCEPT !.seen = Tail(@),
                                 !.used = IF Cached(e.path) THEN @ - e.size ELSE @]
  <1>1. req[r].op = "get" /\ GetReq(req[r]) /\ req[r].pc = "evict" /\ req[r] # NoReq
    BY GetAt DEF Evict, At
  <1>2. req' = [req EXCEPT ![r] = q] /\ cache' = Without(e.path) /\ req[r].seen # <<>>
    BY DEF Evict, Goto, OnlyCache
  <1>3. req'[r] = q /\ \A s \in Reqs \ {r} : req'[s] = req[s]
    BY <1>2 DEF ArtInv
  <1>4. /\ q.seen = Tail(req[r].seen) /\ q.pc = "evict"
        /\ q.used = IF Cached(e.path) THEN req[r].used - e.size ELSE req[r].used
    BY <1>1 DEF GetReq
  <1> HIDE DEF q
  <1>5. Lists(r) /\ Counts(r)
    BY <1>1 DEF Lists, At, CeilInv
  <1>6. /\ req[r].seen \in Seq(Seen) /\ Distinct(req[r].seen) /\ req[r].used \in Nat
        /\ Cardinality(Known(r)) <= req[r].used
    BY <1>5 DEF Counts
  <1>7. cache \in Seq(File) /\ Distinct(cache)
    BY DEF ArtInv, CacheBelongs, CeilInv
  <1>8. Distinct(cache') /\ ToSet(cache') = {f \in ToSet(cache) : f.path # e.path}
    BY <1>2, <1>7, WithoutExact
  <1>9. Stock' = {o \in Stock : o[1] # e.path}
    BY <1>7, <1>8, StockBut DEF Stock, Listed, Octets
  <1> DEFINE K == ToSet(req[r].seen)
             F == {g \in K : g.path # e.path}
  <1>10. /\ Tail(req[r].seen) \in Seq(Seen) /\ Distinct(Tail(req[r].seen))
         /\ ToSet(Tail(req[r].seen)) = F /\ e \in Seen /\ e \in K
    BY <1>2, <1>6, TailDistinct, TailElements
  <1>11. e.path \in Paths /\ e.size \in Nat
    BY <1>10 DEF Seen
  <1>12. \A g \in K : g.path = e.path => g = e
    <2> SUFFICES ASSUME NEW g \in K, g.path = e.path PROVE g = e
      OBVIOUS
    <2>1. \E i, j \in DOMAIN req[r].seen : g = req[r].seen[i] /\ e = req[r].seen[j]
      BY <1>10 DEF ToSet
    <2> QED
      BY <1>6, <2>1 DEF Distinct
  <1>13. IsFiniteSet(Octets(K)) /\ Cardinality(Octets(K)) \in Nat
    BY <1>6, SumCounts
  <1> HIDE DEF e, K, F
  <1>14. /\ IsFiniteSet(Octets(F))
         /\ Cardinality(Octets(F)) = Cardinality(Octets(K)) - e.size
         /\ e.size <= Cardinality(Octets(K))
    BY <1>10, <1>11, <1>12, <1>13, LessEntry DEF F
  <1>15. Octets(F) = {o \in Octets(K) : o[1] # e.path}
    BY OctetsBut DEF F
  <1>16. Known(r) = Octets(K) /\ Known(r)' = Octets(F)
    BY <1>3, <1>4, <1>10 DEF Known, K
  <1>17. Counts(r)'
    <2>1. /\ q.used \in Nat /\ Cardinality(Octets(F)) <= q.used
      BY <1>4, <1>6, <1>11, <1>13, <1>14, <1>16
    <2>2. /\ req'[r].seen \in Seq(Seen) /\ Distinct(req'[r].seen) /\ req'[r].used \in Nat
          /\ req'[r].pc # "fill" /\ Cardinality(Known(r)') <= req'[r].used
      BY <1>3, <1>4, <1>10, <1>16, <2>1
    <2> QED
      BY <2>2 DEF Counts, At
  <1>18. Unknown(r)' \subseteq Unknown(r)
    BY <1>9, <1>15, <1>16 DEF Unknown
  <1>19. \A s \in Reqs : Lists(s)' => /\ Lists(s) /\ Counts(s)' /\ Unknown(s)' \subseteq Unknown(s)
    <2> SUFFICES ASSUME NEW s \in Reqs, Lists(s)'
                 PROVE  Lists(s) /\ Counts(s)' /\ Unknown(s)' \subseteq Unknown(s)
      OBVIOUS
    <2>1. CASE s = r
      BY <1>5, <1>17, <1>18, <2>1
    <2>2. CASE s # r
      BY <1>3, <1>9, <2>2, OthersSame DEF CeilInv, Unknown
    <2> QED
      BY <2>1, <2>2
  <1>20. Stock' \subseteq Stock
    BY <1>9
  <1> QED
    BY <1>8, <1>19, <1>20, CeilKeeps

\* The cache after a file is opened or written.
LEMMA CacheReplaced ==
    ASSUME cache \in Seq(File), Distinct(cache), NEW f \in File, cache' = Append(Without(f.path), f)
    PROVE  /\ Distinct(cache')
           /\ ToSet(cache') = {g \in ToSet(cache) : g.path # f.path} \cup {f}
  <1>1. Without(f.path) \in Seq(File)
    BY WithoutElements
  <1>2. /\ Distinct(Without(f.path))
        /\ ToSet(Without(f.path)) = {g \in ToSet(cache) : g.path # f.path}
    BY WithoutExact
  <1>3. \A y \in ToSet(Without(f.path)) : y.path # f.path
    BY <1>2
  <1> QED
    BY <1>1, <1>2, <1>3, AppendDistinct

\* Its bytes are those under other paths and those of the file.
LEMMA StockReplaced ==
    ASSUME ArtInv, Distinct(cache), NEW f \in File, cache' = Append(Without(f.path), f)
    PROVE  /\ Distinct(cache)'
           /\ \A o \in Stock' : \/ o \in Stock /\ o[1] # f.path
                                \/ o[1] = f.path /\ o[2] \in 1 .. Bytes(f) /\ Counted(f)
  <1>1. cache \in Seq(File)
    BY DEF ArtInv, CacheBelongs
  <1>2. /\ Distinct(cache')
        /\ ToSet(cache') = {g \in ToSet(cache) : g.path # f.path} \cup {f}
    BY <1>1, CacheReplaced
  <1>3. Entry(f).path = f.path /\ Entry(f).size = Bytes(f)
    BY EntryTypes
  <1>4. \A g : Entry(g).path = g.path
    BY DEF Entry
  <1>5. ASSUME NEW o \in Octets(Listed(cache'))
        PROVE  \/ o \in Stock /\ o[1] # f.path
               \/ o[1] = f.path /\ o[2] \in 1 .. Bytes(f) /\ Counted(f)
    <2>1. PICK g \in ToSet(cache') : /\ Counted(g) /\ o \in Paths \X Nat
                                     /\ o[1] = Entry(g).path /\ o[2] \in 1 .. Entry(g).size
      BY <1>5 DEF Octets, Listed
    <2>2. CASE g = f
      BY <1>3, <2>1, <2>2
    <2>3. CASE g # f
      <3>1. g \in ToSet(cache) /\ g.path # f.path
        BY <1>2, <2>1, <2>3
      <3>2. Entry(g) \in Listed(cache)
        BY <2>1, <3>1 DEF Listed
      <3> QED
        BY <1>4, <2>1, <3>1, <3>2 DEF Stock, Octets
    <2> QED
      BY <2>2, <2>3
  <1> QED
    BY <1>2, <1>5 DEF Stock, Octets, Listed, Distinct

\* A file that is cut to nothing counts nothing.
LEMMA CeilOpen ==
    ASSUME ArtInv, CeilInv, NEW r \in Reqs, Open(r)
    PROVE  CeilInv'
  <1> DEFINE p == Head(req[r].dests)
             w == IF Cached(p) THEN FileAt(p).writers ELSE {}
             new == [path |-> p, art |-> req[r].art, data |-> "empty", writers |-> w \cup {r}]
             q == [req[r] EXCEPT !.pc = "fill"]
  <1>1. req[r].op = "get" /\ GetReq(req[r]) /\ req[r].pc = "evict" /\ req[r] # NoReq
    BY GetAt DEF Open, At
  <1>2. /\ req' = [req EXCEPT ![r] = q] /\ cache' = Append(Without(p), new)
        /\ Fits(req[r]) \/ req[r].seen = <<>>
    BY DEF Open, Goto, OnlyCache
  <1>3. req'[r] = q /\ \A s \in Reqs \ {r} : req'[s] = req[s]
    BY <1>2 DEF ArtInv
  <1>4. q.seen = req[r].seen /\ q.used = req[r].used /\ q.art = req[r].art /\ q.data = req[r].data
    BY <1>1 DEF GetReq
  <1>5. Cached(p) => FileAt(p) \in File
    BY WithoutElements, FilesAreFiles DEF ArtInv, CacheBelongs
  <1>6. p \in Paths /\ req[r].art \in Art
    BY <1>1, TailElements DEF GetReq, Pending
  <1>7. w \in SUBSET Reqs
    BY <1>5 DEF File
  <1> HIDE DEF q, p, w
  <1>8. new \in File /\ new.path = p /\ Bytes(new) = 0
    BY <1>6, <1>7 DEF File, Contents, Bytes
  <1> HIDE DEF new
  <1>9. /\ Distinct(cache)'
        /\ \A o \in Stock' : o \in Stock
    <2>1. \A o : ~ o \in 1 .. 0
      OBVIOUS
    <2> QED
      BY <1>2, <1>8, <2>1, StockReplaced DEF CeilInv
  <1>10. Lists(r) /\ Counts(r)
    BY <1>1 DEF Lists, At, CeilInv
  <1>11. Known(r)' = Known(r)
    BY <1>3, <1>4 DEF Known
  <1>12. Counts(r)'
    <2>1. Fits(req'[r]) \/ req'[r].seen = <<>>
      BY <1>2, <1>3, <1>4 DEF Fits, Incoming
    <2> QED
      BY <1>3, <1>4, <1>10, <1>11, <2>1 DEF Counts
  <1>13. \A s \in Reqs : Lists(s)' => /\ Lists(s) /\ Counts(s)' /\ Unknown(s)' \subseteq Unknown(s)
    <2> SUFFICES ASSUME NEW s \in Reqs, Lists(s)'
                 PROVE  Lists(s) /\ Counts(s)' /\ Unknown(s)' \subseteq Unknown(s)
      OBVIOUS
    <2>1. CASE s = r
      BY <1>9, <1>10, <1>11, <1>12, <2>1 DEF Unknown
    <2>2. CASE s # r
      BY <1>3, <1>9, <2>2, OthersSame DEF CeilInv, Unknown
    <2> QED
      BY <2>1, <2>2
  <1>14. Stock' \subseteq Stock
    BY <1>9
  <1> QED
    BY <1>9, <1>13, <1>14, CeilKeeps

\* A stop leaves the bytes of the cache and no listing.
LEMMA CeilStop ==
    ASSUME ArtInv, CeilInv, Stop
    PROVE  CeilInv'
  <1> DEFINE closed(f) == [f EXCEPT !.writers = {}]
  <1>1. cache \in Seq(File) /\ DOMAIN cache = 1 .. Len(cache) /\ Len(cache) \in Nat
    BY DEF ArtInv, CacheBelongs
  <1>2. \A i \in DOMAIN cache : /\ Entry(closed(cache[i])) = Entry(cache[i])
                                /\ Counted(closed(cache[i])) <=> Counted(cache[i])
                                /\ closed(cache[i]).path = cache[i].path
    <2> TAKE i \in DOMAIN cache
    <2>1. cache[i] \in File
      BY <1>1
    <2> QED
      BY <2>1 DEF File, Entry, Counted, Bytes
  <1>3. cache' = [i \in DOMAIN cache |-> closed(cache[i])]
    BY DEF Stop
  <1> HIDE DEF closed
  <1>4. DOMAIN cache' = DOMAIN cache /\ \A i \in DOMAIN cache : cache'[i] = closed(cache[i])
    BY <1>3
  <1>5. Distinct(cache)'
    BY <1>2, <1>4 DEF Distinct, CeilInv
  <1>6. Listed(cache') \subseteq Listed(cache)
    BY <1>2, <1>4 DEF Listed, ToSet
  <1>7. Stock' \subseteq Stock
    BY <1>6 DEF Stock, Octets, Listed
  <1>8. \A r \in Reqs : ~ Lists(r)'
    BY DEF Stop, Lists, At
  <1> QED
    BY <1>5, <1>7, <1>8, CeilKeeps

\* A write adds the bytes of one image at most, which its own listing made room
\* for, unless that listing was used up.
LEMMA FillAdds ==
    ASSUME ArtInv, CeilInv, NEW r \in Reqs, Fill(r)
    PROVE  /\ Distinct(cache)' /\ IsFiniteSet(Stock') /\ Cardinality(Stock') \in Nat
           /\ Incoming(req[r]) \in Nat /\ Incoming(req[r]) <= Largest
           /\ \A K : /\ IsFiniteSet(Stock' \ K) /\ IsFiniteSet(Stock \ K)
                    /\ Cardinality(Stock' \ K) \in Nat /\ Cardinality(Stock \ K) \in Nat
                    /\ Cardinality(Stock' \ K) <= Cardinality(Stock \ K) + Incoming(req[r])
  <1> DEFINE p == Head(req[r].dests)
             f == FileAt(p)
             q == req[r]
             kept == IF q.data = "empty" THEN f ELSE Over(f, q)
             new == [kept EXCEPT !.writers = @ \ {r}]
             z == Incoming(q)
             B == {p} \X (1 .. z)
  <1>1. q.op = "get" /\ GetReq(q) /\ q.pc = "fill"
    BY GetAt DEF Fill
  <1>2. q.art \in Art /\ q.data \in Contents /\ p \in Paths
    BY <1>1, TailElements DEF GetReq, Pending
  <1>3. z \in Nat /\ z <= Largest
    BY <1>2, LargestSize DEF Incoming
  <1>4. cache' = IF Cached(p) /\ r \in f.writers THEN Append(Without(p), new) ELSE cache
    BY DEF Fill
  <1>5. cache \in Seq(File) /\ Distinct(cache)
    BY DEF ArtInv, CacheBelongs, CeilInv
  <1>6. Distinct(cache)' /\ Stock' \subseteq Stock \cup B
    <2>1. CASE ~ (Cached(p) /\ r \in f.writers)
      <3>1. cache' = cache
        BY <1>4, <2>1
      <3> QED
        BY <1>5, <3>1 DEF Distinct, Stock, Listed, Octets
    <2>2. CASE Cached(p) /\ r \in f.writers
      <3>1. f \in ToSet(cache) /\ f \in File /\ f.path = p
        BY <1>5, <2>2, WithoutElements, FilesAreFiles
      <3> HIDE DEF f, p
      <3>2. /\ kept \in File /\ kept.path = p
            /\ Bytes(kept) = Bytes(f) \/ Bytes(kept) = z
        BY <1>2, <3>1 DEF Over, File, Contents, Bytes, Incoming
      <3> HIDE DEF kept
      <3>3. new \in File /\ new.path = p /\ Bytes(new) = Bytes(kept)
            /\ (Counted(new) => Counted(f))
        BY <3>1, <3>2 DEF File, Bytes, Counted
      <3>4. cache' = Append(Without(p), new)
        BY <1>4, <2>2
      <3> HIDE DEF new, q, z
      <3>5. /\ Distinct(cache)'
            /\ \A o \in Stock' : \/ o \in Stock /\ o[1] # p
                                 \/ o[1] = p /\ o[2] \in 1 .. Bytes(new) /\ Counted(new)
        BY <1>5, <3>3, <3>4, StockReplaced
      <3>6. \A o \in Stock' : o \in Paths \X Nat /\ o = <<o[1], o[2]>>
        BY DEF Stock, Octets
      <3>7. ASSUME NEW o \in Stock', o[1] = p, o[2] \in 1 .. Bytes(f), Counted(f)
            PROVE  o \in Stock
        <4>1. Entry(f) \in Listed(cache) /\ Entry(f).path = p /\ Entry(f).size = Bytes(f)
          BY <3>1, <3>7, EntryTypes DEF Listed
        <4> QED
          BY <3>6, <3>7, <4>1 DEF Stock, Octets
      <3>8. \A o \in Stock' : o[1] = p /\ o[2] \in 1 .. z => o \in B
        BY <3>6
      <3> HIDE DEF B
      <3> QED
        BY <3>2, <3>3, <3>5, <3>7, <3>8
    <2> QED
      BY <2>1, <2>2
  <1> HIDE DEF p, z
  <1>7. IsFiniteSet(B) /\ Cardinality(B) = z
    BY <1>3, OneColumn
  <1>8. IsFiniteSet(Stock)
    BY <1>5, StockFinite
  <1> HIDE DEF B
  <1>9. IsFiniteSet(Stock \cup B)
    BY <1>7, <1>8, FS_Union
  <1>10. IsFiniteSet(Stock')
    BY <1>6, <1>9, FS_Subset
  <1>11. ASSUME NEW K
         PROVE  /\ IsFiniteSet(Stock' \ K) /\ IsFiniteSet(Stock \ K)
                /\ Cardinality(Stock' \ K) \in Nat /\ Cardinality(Stock \ K) \in Nat
                /\ Cardinality(Stock' \ K) <= Cardinality(Stock \ K) + z
    <2> DEFINE X == Stock' \ K
               Y == Stock \ K
    <2>1. IsFiniteSet(X) /\ IsFiniteSet(Y)
      BY <1>8, <1>10, FS_Subset
    <2>2. X \subseteq Y \cup B
      BY <1>6
    <2> HIDE DEF X, Y
    <2>3. Cardinality(X) \in Nat /\ Cardinality(Y) \in Nat
      BY <2>1, FS_CardinalityType
    <2>4. /\ IsFiniteSet(Y \cup B)
          /\ Cardinality(Y \cup B) = Cardinality(Y) + Cardinality(B) - Cardinality(Y \cap B)
      BY <1>7, <2>1, FS_Union
    <2>5. Cardinality(Y \cap B) \in Nat
      BY <1>7, FS_Subset, FS_CardinalityType
    <2>6. Cardinality(X) <= Cardinality(Y \cup B) /\ Cardinality(Y \cup B) \in Nat
      BY <2>2, <2>4, FS_Subset, FS_CardinalityType
    <2>7. Cardinality(X) <= Cardinality(Y) + z
      BY <1>3, <1>7, <2>3, <2>4, <2>5, <2>6
    <2> QED
      BY <2>1, <2>3, <2>7 DEF X, Y
  <1> QED
    BY <1>3, <1>6, <1>10, <1>11, FS_CardinalityType DEF z

LEMMA CeilFill ==
    ASSUME ArtInv, CeilInv, NEW r \in Reqs, Fill(r)
    PROVE  CeilInv'
  <1> DEFINE q == req[r]
             z == Incoming(q)
             L == Largest
             M == AtLeast(Budget, Largest)
  <1>1. q.op = "get" /\ GetReq(q) /\ q.pc = "fill" /\ q # NoReq
    BY GetAt DEF Fill, At
  <1>2. Lists(r) /\ Counts(r) /\ (Fits(q) \/ q.seen = <<>>)
    BY <1>1 DEF Lists, At, CeilInv, Counts
  <1>3. /\ \A s \in Reqs \ {r} : req'[s] = req[s]
        /\ ~ Lists(r)'
    <2>1. req' = [req EXCEPT ![r] = [q EXCEPT !.dests = Tail(@), !.seen = <<>>, !.used = 0,
                                !.pc = IF Len(q.dests) > 1 THEN "scan" ELSE "serve"]]
      BY DEF Fill, Goto
    <2> QED
      BY <1>1, <2>1 DEF ArtInv, GetReq, Lists, At
  <1>4. /\ Distinct(cache)' /\ Cardinality(Stock') \in Nat
        /\ z \in Nat /\ z <= L
        /\ \A K : /\ Cardinality(Stock' \ K) \in Nat /\ Cardinality(Stock \ K) \in Nat
                 /\ Cardinality(Stock' \ K) <= Cardinality(Stock \ K) + z
    BY FillAdds
  <1>5. /\ Cardinality(Stock) \in Nat /\ Cardinality(Stock') <= Cardinality(Stock) + z
        /\ IsFiniteSet(Stock)
    <2>1. Stock' \ {} = Stock' /\ Stock \ {} = Stock
      OBVIOUS
    <2>2. IsFiniteSet(Stock)
      BY StockFinite DEF CeilInv
    <2> QED
      BY <1>4, <2>1, <2>2
  <1>6. L \in Nat /\ M \in Nat /\ M >= Budget /\ M >= L /\ Budget \in Nat
    BY LargestSize, BudgetBounds
  <1>7. \A s \in Reqs : Lists(s)' =>
             /\ s # r /\ Lists(s) /\ Counts(s)'
             /\ Cardinality(Unknown(s)') \in Nat /\ Cardinality(Unknown(s)) \in Nat
             /\ Cardinality(Unknown(s)') <= Cardinality(Unknown(s)) + z
    <2> SUFFICES ASSUME NEW s \in Reqs, Lists(s)'
                 PROVE  /\ s # r /\ Lists(s) /\ Counts(s)'
                        /\ Cardinality(Unknown(s)') \in Nat /\ Cardinality(Unknown(s)) \in Nat
                        /\ Cardinality(Unknown(s)') <= Cardinality(Unknown(s)) + z
      OBVIOUS
    <2>1. s # r /\ Lists(s) /\ Counts(s)' /\ Known(s)' = Known(s)
      BY <1>3, OthersSame DEF CeilInv
    <2>2. Unknown(s)' = Stock' \ Known(s) /\ Unknown(s) = Stock \ Known(s)
      BY <2>1 DEF Unknown
    <2> HIDE DEF z
    <2> QED
      BY <1>4, <2>1, <2>2
  <1>8. /\ Cardinality(Unknown(r)) \in Nat
        /\ Cardinality(Stock) <= q.used + Cardinality(Unknown(r))
        /\ q.seen = <<>> => Cardinality(Stock) = Cardinality(Unknown(r))
    <2> DEFINE K == Known(r)
    <2>1. q.seen \in Seq(Seen) /\ Distinct(q.seen) /\ q.used \in Nat /\ Cardinality(K) <= q.used
      BY <1>2 DEF Counts
    <2>2. IsFiniteSet(K) /\ Cardinality(K) \in Nat
      BY <2>1, SumCounts, FS_CardinalityType DEF Known
    <2>3. q.seen = <<>> => K = {}
      <3>1. ToSet(<<>>) = {}
        <4>1. DOMAIN <<>> = {}
          OBVIOUS
        <4> QED
          BY <4>1 DEF ToSet
      <3> QED
        BY <3>1 DEF Known, Octets
    <2> HIDE DEF K
    <2>4. Unknown(r) = Stock \ K
      BY DEF Unknown, K
    <2>5. Cardinality(Stock \ K) = Cardinality(Stock) - Cardinality(Stock \cap K)
      BY <1>5, FS_Difference
    <2>6. Cardinality(Stock \cap K) \in Nat /\ Cardinality(Stock \cap K) <= Cardinality(K)
      BY <2>2, FS_Subset, FS_CardinalityType
    <2>7. q.seen = <<>> => Stock \ K = Stock
      BY <2>3
    <2>8. Cardinality(Stock \ K) \in Nat
      BY <1>4
    <2>9. Cardinality(Stock) <= q.used + Cardinality(Stock \ K)
      BY <1>5, <2>1, <2>2, <2>5, <2>6, <2>8
    <2> QED
      BY <2>4, <2>7, <2>8, <2>9
  <1>9. ASSUME NEW Q \in SUBSET Reqs, \A s \in Q : Lists(s)'
        PROVE  Good(Q)'
    <2> DEFINE k == Cardinality(Q)
               R == Q \cup {r}
    <2>1. r \notin Q /\ R \in SUBSET Reqs /\ \A s \in R : Lists(s)
      BY <1>2, <1>3, <1>7, <1>9
    <2>2. Good(R)
      BY <2>1 DEF CeilInv
    <2>3. IsFiniteSet(Q) /\ k \in Nat /\ k \in Int /\ k + 1 \in Int /\ Cardinality(R) = k + 1
      BY <2>1, SomeRequests, FS_AddElement
    <2> HIDE DEF k
    <2>4. /\ Room(k) \in Int /\ Room(k + 1) \in Int /\ Room((k + 1) + 1) \in Int
          /\ Room(k) = Room(k + 1) + L /\ Room(k + 1) = Room((k + 1) + 1) + L
      BY <2>3, RoomSteps
    <2> HIDE DEF R, L, M, z
    <2>5. CASE Cardinality(Stock) <= M + Room((k + 1) + 1)
      <3>1. Cardinality(Stock') <= M + Room(k + 1)
        BY <1>4, <1>5, <1>6, <2>4, <2>5
      <3> QED
        BY <3>1 DEF Good, k, M, Room
    <2>6. ASSUME NEW s \in Q, Cardinality(Unknown(s)) <= Room(k + 1)
          PROVE  Good(Q)'
      <3>0. /\ Cardinality(Unknown(s)') \in Nat /\ Cardinality(Unknown(s)) \in Nat
            /\ Cardinality(Unknown(s)') <= Cardinality(Unknown(s)) + z
        BY <1>7, <1>9, <2>6
      <3>1. Cardinality(Unknown(s)') <= Room(k)
        BY <1>4, <1>6, <2>4, <2>6, <3>0
      <3> QED
        BY <3>1 DEF Good, k, Room
    <2>7. CASE Cardinality(Unknown(r)) <= Room(k + 1)
      <3>1. Cardinality(Stock') <= M + Room(k + 1)
        <4>1. CASE Fits(q)
          <5>1. q.used + z <= Budget /\ q.used \in Nat
            BY <1>2, <4>1 DEF Fits, Counts, z
          <5>2. Cardinality(Stock') <= q.used + Cardinality(Unknown(r)) + z
            BY ONLY <1>4, <1>5, <1>8, <5>1
          <5>3. q.used + Cardinality(Unknown(r)) + z <= M + Cardinality(Unknown(r))
            BY ONLY <1>4, <1>6, <1>8, <5>1
          <5>4. Cardinality(Stock') \in Nat /\ Cardinality(Stock') <= M + Cardinality(Unknown(r))
            BY ONLY <1>4, <1>6, <1>8, <5>1, <5>2, <5>3
          <5> QED
            BY ONLY <1>5, <1>6, <1>8, <2>4, <2>7, <5>4
        <4>2. CASE q.seen = <<>>
          BY <1>4, <1>5, <1>6, <1>8, <2>4, <2>7, <4>2
        <4> QED
          BY <1>2, <4>1, <4>2
      <3> QED
        BY <3>1 DEF Good, k, M, Room
    <2>8. \/ Cardinality(Stock) <= M + Room((k + 1) + 1)
          \/ \E s \in R : Cardinality(Unknown(s)) <= Room(k + 1)
      BY <2>2, <2>3 DEF Good, M
    <2> QED
      BY <2>5, <2>6, <2>7, <2>8 DEF R
  <1> QED
    BY <1>4, <1>7, <1>9 DEF CeilInv

\* Writers that overlap exceed the ceiling by at most one image each beyond the
\* first, whatever the sizes, the budget and the number of requests, however
\* often they scan, evict, write and stop (evict_to_fit, write_capped).
THEOREM CeilingHolds == Spec => []Ceiling
  <1> DEFINE Inv == ArtInv /\ CeilInv
  <1>1. Init => Inv
    <2> SUFFICES ASSUME Init PROVE Inv
      OBVIOUS
    <2>1. ArtInv
      BY DEF Init, ArtInv, CacheBelongs, ToSet
    <2>2. DOMAIN cache = {}
      BY DEF Init
    <2>3. Distinct(cache) /\ \A r \in Reqs : ~ Lists(r)
      BY <2>2 DEF Init, Distinct, Lists, At
    <2>4. Stock = {}
      BY <2>2 DEF Stock, Octets, Listed, ToSet
    <2>5. Cardinality(Stock) = 0 /\ Cardinality({}) = 0
      BY <2>4, FS_EmptySet
    <2>6. AtLeast(Budget, Largest) \in Nat /\ AtLeast(Budget, Largest) >= Largest /\ Largest \in Nat
      BY BudgetBounds, LargestSize
    <2>7. 0 \in Int /\ 0 <= Cardinality(Reqs) /\ Cardinality(Reqs) \in Nat
      BY SomeRequests
    <2>8. /\ Room(0) \in Int /\ Room(0 + 1) \in Int /\ Room(0) = Room(0 + 1) + Largest
          /\ Room(0) >= 0
      BY <2>7, RoomSteps
    <2>9. 0 <= AtLeast(Budget, Largest) + Room(0 + 1)
      BY <2>6, <2>8
    <2>10. Good({})
      BY <2>5, <2>9 DEF Good
    <2>11. \A Q \in SUBSET Reqs : (\A r \in Q : Lists(r)) => Q = {}
      BY <2>3
    <2> QED
      BY <2>1, <2>3, <2>10, <2>11 DEF CeilInv
  <1>2. Inv /\ [Next]_vars => Inv'
    <2> SUFFICES ASSUME ArtInv, CeilInv, [Next]_vars PROVE Inv'
      OBVIOUS
    <2>1. CASE UNCHANGED vars
      <3>1. cache' = cache /\ req' = req
        BY <2>1 DEF vars
      <3>2. ArtInv'
        BY <3>1 DEF ArtInv, CacheBelongs
      <3>3. Stock' = Stock /\ Distinct(cache)'
        BY <3>1 DEF Stock, Listed, Octets, Distinct, CeilInv
      <3>4. \A s \in Reqs : Lists(s)' => /\ Lists(s) /\ Counts(s)' /\ Unknown(s)' \subseteq Unknown(s)
        BY <3>1, <3>3, OthersSame DEF CeilInv, Unknown
      <3> QED
        BY <3>2, <3>3, <3>4, CeilKeeps
    <2>2. CASE Next
      <3>1. ArtInv'
        BY <2>2, ArtFinds, ArtWrites, ArtBegins, ArtStops DEF Next
      <3>2. CeilInv'
        BY <2>2, CeilQuiet, CeilScan, CeilEvict, CeilOpen, CeilFill, CeilStop DEF Next, Writes
      <3> QED
        BY <3>1, <3>2
    <2> QED
      BY <2>1, <2>2
  <1>3. Inv => Ceiling
    <2> SUFFICES ASSUME ArtInv, CeilInv PROVE Ceiling
      OBVIOUS
    <2>1. Good({})
      BY DEF CeilInv
    <2>2. Cardinality({}) = 0
      BY FS_EmptySet
    <2>3. Cardinality(Stock) <= AtLeast(Budget, Largest) + Room(0 + 1)
      BY <2>1, <2>2 DEF Good
    <2>4. Total = Cardinality(Stock)
      BY TotalCounts DEF ArtInv, CacheBelongs, CeilInv
    <2> QED
      BY <2>3, <2>4 DEF Ceiling, Room
  <1> QED
    BY <1>1, <1>2, <1>3, PTL DEF Spec

=============================================================================
