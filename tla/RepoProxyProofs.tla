--------------------------- MODULE RepoProxyProofs ---------------------------
(* Theorems about RepoProxy, for every set of artifacts, packages, groups and *)
(* builds, with and without crashes and failures of the tool.                *)
EXTENDS RepoProxy, TLAPS

Fetching == {"fetch", "write", "verify", "replace", "meta"}

\* What a build has in hand when it needs it.
Placed(q) ==
    /\ q.pc \in {"write", "verify", "replace", "meta", "copy"} => q.slot \in Slots
    /\ q.pc \in {"write", "verify", "replace", "meta"} => q.want[q.slot] \in Hpkgs
    /\ \A s \in q.todo : q.want[s] \in Hpkgs
    /\ q.pc \notin Fetching \cup {"group"} => q.group \in Groups
    /\ q.pc \in {"newident", "info"} => q.ident \in Uuids
    /\ q.pc = "copy" => q.name \in Files
    /\ q.pc = "fill" => q.source \in Contents

\* A cached file is replaced, never removed: what was grouped is there.
Held(q, files) ==
    /\ q.pc \in {"meta", "copy"} => files[q.slot] # None
    /\ \A s \in q.left : files[s] # None
    /\ \A g \in Groups : \A s \in q.groups[g] : files[s] # None

TypeInv ==
    /\ TypeOK
    /\ DOMAIN build = Builds
    /\ \A b \in Builds : build[b] # Idle => Placed(build[b]) /\ Held(build[b], cache)

\* What a build may do to another: rename or remove its open files, or write to them.
Disturbed(p, r) ==
    \/ \E file \in {"none", "part", "cache"} : r = [p EXCEPT !.file = file]
    \/ r = [p EXCEPT !.shared = TRUE]
    \/ p.pc = "fill" /\ r = [p EXCEPT !.name = None]
    \/ \E source \in Contents : r = [p EXCEPT !.source = source]

\* A step of b that may disturb the others.
Moves(b, q) ==
    /\ DOMAIN build' = Builds
    /\ build'[b] = q
    /\ \A c \in Builds \ {b} :
         build'[c] = build[c] \/ (build[c] # Idle /\ Disturbed(build[c], build'[c]))

LEMMA MovesGoto ==
    ASSUME DOMAIN build = Builds, NEW b \in Builds, NEW q, Goto(b, q)
    PROVE  Moves(b, q)
  BY DEF Goto, Moves

LEMMA MovesUnlink ==
    ASSUME NEW b \in Builds, NEW q, NEW s, Unlink(b, q, s)
    PROVE  Moves(b, q)
  BY DEF Unlink, Renamed, Moves, Disturbed

LEMMA MovesSharing ==
    ASSUME NEW b \in Builds, NEW q, NEW with, \A c \in with : build[c] # Idle,
           build' = Sharing(b, q, with)
    PROVE  Moves(b, [q EXCEPT !.shared = with # {}])
  BY DEF Sharing, Moves, Disturbed

LEMMA MovesWrites ==
    ASSUME NEW b \in Builds, NEW q, NEW now \in Contents, Writes(b, q, now)
    PROVE  Moves(b, q)
  <1>1. PICK seen \in {now, Torn} :
          build' = [c \in Builds |->
                      IF c = b THEN q
                      ELSE IF /\ At(c, "fill") /\ build[c].slot = build[b].slot
                              /\ build[c].file = "cache" /\ build[b].file = "cache"
                           THEN [build[c] EXCEPT !.source = seen] ELSE build[c]]
    BY DEF Writes
  <1>2. seen \in Contents
    BY DEF Contents
  <1> QED
    BY <1>1, <1>2 DEF Moves, Disturbed, At

LEMMA DisturbedType ==
    ASSUME NEW p \in Build, Placed(p), Held(p, cache), NEW r, Disturbed(p, r)
    PROVE  /\ r \in Build /\ Placed(r) /\ Held(r, cache)
           /\ r.alone = p.alone /\ r.pc = p.pc
  <1>1. /\ r \in Build /\ r.pc = p.pc /\ r.want = p.want /\ r.todo = p.todo /\ r.slot = p.slot
        /\ r.groups = p.groups /\ r.group = p.group /\ r.ident = p.ident /\ r.left = p.left
        /\ r.alone = p.alone
        /\ r.name = p.name \/ p.pc = "fill"
        /\ r.source = p.source \/ r.source \in Contents
    <2>1. CASE \E file \in {"none", "part", "cache"} : r = [p EXCEPT !.file = file]
      BY <2>1 DEF Build
    <2>2. CASE r = [p EXCEPT !.shared = TRUE]
      BY <2>2 DEF Build
    <2>3. CASE p.pc = "fill" /\ r = [p EXCEPT !.name = None]
      BY <2>3 DEF Build
    <2>4. CASE \E source \in Contents : r = [p EXCEPT !.source = source]
      BY <2>4 DEF Build
    <2> QED
      BY <2>1, <2>2, <2>3, <2>4 DEF Disturbed
  <1>2. Placed(r)
    BY <1>1 DEF Placed
  <1>3. Held(r, cache)
    BY <1>1 DEF Held
  <1> QED
    BY <1>1, <1>2, <1>3

LEMMA TypeStep ==
    ASSUME TypeInv, NEW b \in Builds, NEW q, Moves(b, q),
           q = Idle \/ (q \in Build /\ Placed(q) /\ Held(q, cache')),
           \A s \in Slots : cache[s] # None => cache'[s] # None,
           pin' \in Pins, cache' \in [Slots -> Contents \cup {None}],
           part' \in [Slots -> Contents \cup {None}], dir' \in [Groups -> Dir]
    PROVE  TypeInv'
  <1>1. ASSUME NEW c \in Builds \ {b}, build'[c] # Idle
        PROVE  build'[c] \in Build /\ Placed(build'[c]) /\ Held(build'[c], cache')
    <2>0. ASSUME NEW n \in Build, Placed(n), Held(n, cache)
          PROVE  Held(n, cache')
      BY <2>0 DEF Held, Build, Placed
    <2>1. CASE build'[c] = build[c]
      BY <1>1, <2>0, <2>1 DEF TypeInv, TypeOK
    <2>2. CASE build'[c] # build[c]
      <3>1. build[c] # Idle /\ Disturbed(build[c], build'[c])
        BY <2>2 DEF Moves
      <3>2. build[c] \in Build /\ Placed(build[c]) /\ Held(build[c], cache)
        BY <3>1 DEF TypeInv, TypeOK
      <3>3. build'[c] \in Build /\ Placed(build'[c]) /\ Held(build'[c], cache)
        BY <3>1, <3>2, DisturbedType
      <3> QED
        BY <2>0, <3>3
    <2> QED
      BY <2>1, <2>2
  <1> QED
    BY <1>1 DEF TypeInv, TypeOK, Moves

LEMMA Running ==
    ASSUME TypeInv, NEW b \in Builds, NEW pc, At(b, pc)
    PROVE  /\ build[b] \in Build /\ Placed(build[b]) /\ Held(build[b], cache)
           /\ build[b].pc = pc /\ build[b] # Idle
  BY DEF TypeInv, TypeOK, At

LEMMA TypeBegin ==
    ASSUME TypeInv, NEW b \in Builds, Begin(b)
    PROVE  TypeInv'
  <1> DEFINE others == {c \in Builds : build[c] # Idle}
             q == [pc |-> "fetch", want |-> pin, todo |-> {s \in Slots : pin[s] # None},
                   slot |-> None, file |-> "none", groups |-> [g \in Groups |-> {}],
                   group |-> None, ident |-> None, left |-> {}, names |-> {}, name |-> None,
                   source |-> None, shared |-> FALSE, sum |-> None, alone |-> others = {}]
  <1>1. q \in Build /\ Placed(q) /\ Held(q, cache)
    <2>1. pin \in Pins /\ \A s \in Slots : pin[s] # None => pin[s] \in Hpkgs
      BY DEF TypeInv, TypeOK, Pins
    <2>2. (others = {}) \in BOOLEAN
      OBVIOUS
    <2> HIDE DEF others
    <2>3. q \in Build
      BY <2>1, <2>2 DEF Build
    <2> QED
      BY <2>1, <2>3 DEF Placed, Held, Fetching
  <1>2. /\ build' = [c \in Builds |-> IF c = b THEN q
                                      ELSE IF c \in others THEN [build[c] EXCEPT !.alone = FALSE]
                                      ELSE Idle]
        /\ UNCHANGED <<pin, cache, part, dir>>
    BY DEF Begin
  <1> HIDE DEF q
  <1>3. ASSUME NEW c \in Builds \ {b}, c \in others
        PROVE  /\ [build[c] EXCEPT !.alone = FALSE] \in Build
               /\ Placed([build[c] EXCEPT !.alone = FALSE])
               /\ Held([build[c] EXCEPT !.alone = FALSE], cache)
    <2>1. build[c] \in Build /\ Placed(build[c]) /\ Held(build[c], cache)
      BY <1>3 DEF TypeInv, TypeOK
    <2> DEFINE n == [build[c] EXCEPT !.alone = FALSE]
    <2>2. n \in Build
      BY <2>1 DEF Build
    <2>3. Placed(n) /\ Held(n, cache)
      BY <2>1 DEF Build, Placed, Held
    <2> QED
      BY <2>2, <2>3
  <1> QED
    BY <1>1, <1>2, <1>3 DEF TypeInv, TypeOK

\* What a step of the fetch does to the types, for a build and its next state.
\* A build that did not change its files, its hands or its groups.
LEMMA SkippedType ==
    ASSUME NEW p \in Build, Placed(p), Held(p, cache)
    PROVE  /\ Skipped(p) \in Build /\ Placed(Skipped(p)) /\ Held(Skipped(p), cache)
           /\ Skipped(p).pc = "fetch" /\ Skipped(p).groups = p.groups
  <1>1. Skipped(p) \in Build
    BY DEF Build, Skipped
  <1> QED
    BY <1>1 DEF Build, Placed, Held, Skipped, Fetching

LEMMA ChosenType ==
    ASSUME NEW p \in Build, p.pc = "fetch", Placed(p), Held(p, cache), NEW s \in p.todo
    PROVE  /\ s \in Slots /\ p.want[s] \in Hpkgs
           /\ Chosen(p, s) \in Build /\ Placed(Chosen(p, s)) /\ Held(Chosen(p, s), cache)
           /\ Chosen(p, s).slot = s /\ Chosen(p, s).want = p.want /\ Chosen(p, s).pc = "fetch"
  <1>1. s \in Slots /\ p.want[s] \in Hpkgs
    BY DEF Build, Placed
  <1>2. Chosen(p, s) \in Build
    BY <1>1 DEF Build, Chosen
  <1> QED
    BY <1>1, <1>2 DEF Build, Placed, Held, Chosen, Fetching

\* The step of the fetch that a build is at, and what is open.
LEMMA PcType ==
    ASSUME NEW p \in Build, Placed(p), Held(p, cache),
           NEW pc \in {"meta", "write", "verify", "replace"}, NEW file \in {"none", "part", "cache"},
           p.slot \in Slots, p.want[p.slot] \in Hpkgs
    PROVE  LET q == [p EXCEPT !.pc = pc, !.file = file]
           IN  /\ q \in Build /\ Placed(q)
               /\ pc # "meta" \/ cache[p.slot] # None => Held(q, cache)
  <1> DEFINE q == [p EXCEPT !.pc = pc, !.file = file]
  <1>1. q \in Build
    BY DEF Build
  <1>2. Placed(q)
    BY <1>1 DEF Build, Placed, Fetching
  <1>3. pc # "meta" \/ cache[p.slot] # None => Held(q, cache)
    BY <1>1 DEF Build, Held
  <1> QED
    BY <1>1, <1>2, <1>3

LEMMA NextPcType ==
    ASSUME NEW p \in Build, Placed(p), Held(p, cache),
           NEW pc \in {"meta", "write", "verify", "replace"},
           p.slot \in Slots, p.want[p.slot] \in Hpkgs
    PROVE  LET q == [p EXCEPT !.pc = pc]
           IN  /\ q \in Build /\ Placed(q)
               /\ pc # "meta" \/ cache[p.slot] # None => Held(q, cache)
  <1> DEFINE q == [p EXCEPT !.pc = pc]
  <1>1. q = [p EXCEPT !.pc = pc, !.file = p.file] /\ p.file \in {"none", "part", "cache"}
    BY DEF Build
  <1> QED
    BY <1>1, PcType

LEMMA SharedType ==
    ASSUME NEW p \in Build, Placed(p), NEW files, Held(p, files), NEW flag \in BOOLEAN
    PROVE  LET q == [p EXCEPT !.shared = flag]
           IN  q \in Build /\ Placed(q) /\ Held(q, files)
  <1> DEFINE q == [p EXCEPT !.shared = flag]
  <1>1. q \in Build
    BY DEF Build
  <1> QED
    BY <1>1 DEF Build, Placed, Held

LEMMA TypeFetch ==
    ASSUME TypeInv, NEW b \in Builds, Fetch(b)
    PROVE  TypeInv'
  <1> DEFINE p == build[b]
  <1>0. DOMAIN build = Builds /\ pin \in Pins /\ dir \in [Groups -> Dir]
        /\ cache \in [Slots -> Contents \cup {None}] /\ part \in [Slots -> Contents \cup {None}]
        /\ pin' = pin /\ dir' = dir
    BY DEF TypeInv, TypeOK, Fetch, FetchCached, FetchOpens, FetchRefused, FetchFails, FetchMixes, FetchWrites,
           FetchVerifies, FetchReplaces, FetchGroups
  <1>1. p \in Build /\ Placed(p) /\ Held(p, cache) /\ p.pc \in Fetching
    BY Running DEF Fetch, FetchCached, FetchOpens, FetchRefused, FetchFails, FetchMixes, FetchWrites,
                   FetchVerifies, FetchReplaces, FetchGroups, Fetching
  <1>2. Skipped(p) \in Build /\ Placed(Skipped(p)) /\ Held(Skipped(p), cache)
    BY <1>1, SkippedType
  <1>3. ASSUME p.pc = "fetch", NEW s \in p.todo
        PROVE  /\ s \in Slots /\ p.want[s] \in Hpkgs
               /\ Chosen(p, s) \in Build /\ Placed(Chosen(p, s)) /\ Held(Chosen(p, s), cache)
               /\ Chosen(p, s).slot = s /\ Chosen(p, s).want = p.want
               /\ Skipped(Chosen(p, s)) \in Build /\ Placed(Skipped(Chosen(p, s)))
               /\ Held(Skipped(Chosen(p, s)), cache)
    BY <1>1, <1>3, ChosenType, SkippedType
  <1>4. p.pc \in {"write", "verify", "replace", "meta"} => p.slot \in Slots /\ p.want[p.slot] \in Hpkgs
    BY <1>1 DEF Placed
  <1>14. ASSUME p.slot \in Slots, NEW now \in Contents, NEW q, Writes(b, q, now),
                q \in Build, Placed(q), Held(q, cache)
         PROVE  TypeInv'
    <2>1. /\ part' \in [Slots -> Contents \cup {None}] /\ cache' \in [Slots -> Contents \cup {None}]
          /\ \A s \in Slots : cache[s] # None => cache'[s] # None
      BY <1>0, <1>14, NullAssumption DEF Writes
    <2>2. Held(q, cache')
      BY <1>14, <2>1 DEF Held, Build, Placed
    <2>3. Moves(b, q)
      BY <1>14, MovesWrites
    <2> QED
      BY <1>0, <1>14, <2>1, <2>2, <2>3, TypeStep
  <1>6. CASE FetchCached(b)
    <2>1. p.pc = "fetch" /\ UNCHANGED <<cache, part>>
      BY <1>6, Running DEF FetchCached
    <2>2. PICK s \in p.todo : cache[s] = p.want[s] /\ Goto(b, [Chosen(p, s) EXCEPT !.pc = "meta"])
      BY <1>6 DEF FetchCached, Reusable
    <2> DEFINE q == [Chosen(p, s) EXCEPT !.pc = "meta"]
    <2>3. q \in Build /\ Placed(q) /\ Held(q, cache)
      <3> DEFINE c == Chosen(p, s)
      <3>1. c \in Build /\ Placed(c) /\ Held(c, cache) /\ c.slot = s /\ c.want = p.want
            /\ s \in Slots /\ p.want[s] \in Hpkgs
        BY <1>3, <2>1, <2>2
      <3>2. cache[s] # None
        BY <2>2, <3>1, NullAssumption DEF Contents
      <3>3. q = [c EXCEPT !.pc = "meta"]
        OBVIOUS
      <3> HIDE DEF c, q
      <3> QED
        BY <3>1, <3>2, <3>3, NextPcType
    <2>4. Moves(b, q)
      BY <1>0, <2>2, MovesGoto
    <2> HIDE DEF q
    <2> QED
      BY <1>0, <2>1, <2>3, <2>4, TypeStep
  <1>7. CASE FetchOpens(b)
    <2>1. p.pc = "fetch" /\ UNCHANGED cache
      BY <1>7, Running DEF FetchOpens
    <2>2. PICK s \in p.todo :
            LET with == {c \in Builds \ {b} : /\ At(c, "write") /\ build[c].slot = s
                                             /\ build[c].file = "part"}
            IN  /\ part' = [part EXCEPT ![s] = Torn]
                /\ build' = Sharing(b, [Chosen(p, s) EXCEPT !.pc = "write", !.file = "part"], with)
      BY <1>7 DEF FetchOpens
    <2> DEFINE with == {c \in Builds \ {b} : /\ At(c, "write") /\ build[c].slot = s
                                             /\ build[c].file = "part"}
               q == [Chosen(p, s) EXCEPT !.pc = "write", !.file = "part"]
               r == [q EXCEPT !.shared = with # {}]
    <2>3. q \in Build /\ Placed(q) /\ Held(q, cache)
      BY <1>3, <2>1, PcType
    <2>4. part' \in [Slots -> Contents \cup {None}]
      BY <1>0, <2>2 DEF Contents
    <2>5. build' = Sharing(b, q, with) /\ \A c \in with : build[c] # Idle
      BY <2>2 DEF At
    <2>6. (with # {}) \in BOOLEAN
      OBVIOUS
    <2> HIDE DEF q, with
    <2>7. r \in Build /\ Placed(r) /\ Held(r, cache)
      BY <2>3, <2>6, SharedType
    <2>8. Moves(b, r)
      BY <2>5, MovesSharing
    <2> HIDE DEF r
    <2> QED
      BY <1>0, <2>1, <2>4, <2>7, <2>8, TypeStep
  <1>8. CASE FetchRefused(b)
    <2>1. p.pc = "fetch" /\ UNCHANGED <<cache, part>>
      BY <1>8, Running DEF FetchRefused
    <2>2. PICK s \in p.todo : Goto(b, Skipped(Chosen(p, s))) \/ Goto(b, Idle)
      BY <1>8 DEF FetchRefused, Abort
    <2>3. Moves(b, Skipped(Chosen(p, s))) \/ Moves(b, Idle)
      BY <1>0, <2>2, MovesGoto
    <2> QED
      BY <1>0, <1>3, <2>1, <2>3, TypeStep
  <1>9. CASE FetchFails(b)
    <2>1. UNCHANGED cache /\ (p.pc = "fetch" \/ p.pc = "write")
      BY <1>9, Running DEF FetchFails
    <2>2. \/ Unlink(b, Skipped(p), p.slot)
          \/ p.pc = "fetch" /\ \E s \in p.todo : Unlink(b, Skipped(Chosen(p, s)), s)
      BY <1>9, Running DEF FetchFails
    <2>3. part' \in [Slots -> Contents \cup {None}]
      BY <1>0, <2>2 DEF Unlink
    <2>4. \/ Moves(b, Skipped(p))
          \/ p.pc = "fetch" /\ \E s \in p.todo : Moves(b, Skipped(Chosen(p, s)))
      BY <2>2, MovesUnlink
    <2>5. CASE Moves(b, Skipped(p))
      BY <1>0, <1>2, <2>1, <2>3, <2>5, TypeStep
    <2>6. ASSUME p.pc = "fetch", NEW s \in p.todo, Moves(b, Skipped(Chosen(p, s)))
          PROVE  TypeInv'
      BY <1>0, <1>3, <2>1, <2>3, <2>6, TypeStep
    <2> QED
      BY <2>4, <2>5, <2>6
  <1>10. CASE FetchWrites(b)
    <2>1. p.pc = "write" /\ p.slot \in Slots /\ p.want[p.slot] \in Hpkgs
      BY <1>4, <1>10, Running DEF FetchWrites
    <2> DEFINE u == [p EXCEPT !.pc = "verify", !.file = "none"]
               q == [p EXCEPT !.pc = "verify", !.file = "none", !.shared = FALSE]
    <2>2. PICK now \in Contents : Writes(b, q, now)
      BY <1>10 DEF FetchWrites
    <2>3. u \in Build /\ Placed(u) /\ Held(u, cache) /\ q = [u EXCEPT !.shared = FALSE]
      BY <1>1, <2>1, PcType
    <2> HIDE DEF u
    <2>4. q \in Build /\ Placed(q) /\ Held(q, cache)
      BY <2>3, SharedType
    <2> HIDE DEF q
    <2> QED
      BY <1>14, <2>1, <2>2, <2>4
  <1>15. CASE FetchMixes(b)
    <2>1. p.pc = "write" /\ p.slot \in Slots
      BY <1>4, <1>15, Running DEF FetchMixes
    <2>2. Torn \in Contents /\ Writes(b, p, Torn)
      BY <1>15 DEF FetchMixes, Contents
    <2> QED
      BY <1>1, <1>14, <2>1, <2>2
  <1>11. CASE FetchVerifies(b)
    <2>1. p.pc = "verify" /\ UNCHANGED cache /\ p.slot \in Slots /\ p.want[p.slot] \in Hpkgs
      BY <1>4, <1>11, Running DEF FetchVerifies
    <2> DEFINE q == [p EXCEPT !.pc = "replace"]
    <2>2. \/ Goto(b, Idle) /\ UNCHANGED part
          \/ Goto(b, q) /\ UNCHANGED part
          \/ Unlink(b, Skipped(p), p.slot)
      BY <1>11 DEF FetchVerifies, Abort
    <2>3. part' \in [Slots -> Contents \cup {None}]
      BY <1>0, <2>2 DEF Unlink
    <2>4. q \in Build /\ Placed(q) /\ Held(q, cache)
      BY <1>1, <2>1, NextPcType
    <2> HIDE DEF q
    <2>5. Moves(b, Idle) \/ Moves(b, q) \/ Moves(b, Skipped(p))
      BY <1>0, <2>2, MovesGoto, MovesUnlink
    <2> QED
      BY <1>0, <1>2, <2>1, <2>3, <2>4, <2>5, TypeStep
  <1>12. CASE FetchReplaces(b)
    <2>1. p.pc = "replace" /\ p.slot \in Slots /\ p.want[p.slot] \in Hpkgs
      BY <1>4, <1>12, Running DEF FetchReplaces
    <2> DEFINE q == [p EXCEPT !.pc = "meta"]
    <2>2. CASE Goto(b, Idle) /\ UNCHANGED <<cache, part>>
      BY <1>0, <2>2, MovesGoto, TypeStep
    <2>3. CASE /\ part[p.slot] # None
               /\ cache' = [cache EXCEPT ![p.slot] = part[p.slot]]
               /\ part' = [part EXCEPT ![p.slot] = None]
               /\ build' = [c \in Builds |->
                              IF c = b THEN q
                              ELSE IF build[c] # Idle /\ build[c].slot = p.slot
                              THEN [build[c] EXCEPT !.file = IF @ = "part" THEN "cache" ELSE "none"]
                              ELSE build[c]]
      <3>1. /\ part' \in [Slots -> Contents \cup {None}] /\ cache' \in [Slots -> Contents \cup {None}]
            /\ \A s \in Slots : cache[s] # None => cache'[s] # None
            /\ cache'[p.slot] # None
        BY <1>0, <2>1, <2>3
      <3>2. q \in Build /\ Placed(q)
        BY <1>1, <2>1, NextPcType
      <3>3. Held(q, cache')
        BY <1>1, <2>1, <3>1, <3>2 DEF Held, Build
      <3> HIDE DEF q
      <3>4. Moves(b, q)
        BY <2>3 DEF Moves, Disturbed
      <3> QED
        BY <1>0, <3>1, <3>2, <3>3, <3>4, TypeStep
    <2> QED
      BY <1>12, <2>2, <2>3 DEF FetchReplaces, Abort
  <1>13. CASE FetchGroups(b)
    <2>1. p.pc = "meta" /\ UNCHANGED <<cache, part>> /\ p.slot \in Slots /\ cache[p.slot] # None
      BY <1>1, <1>4, <1>13, Running DEF FetchGroups, Held
    <2> DEFINE g == Group[cache[p.slot]]
               all == [p.groups EXCEPT ![g] = @ \cup {p.slot}]
               q == [Skipped(p) EXCEPT !.groups = all]
    <2>2. ASSUME cache[p.slot] \in Hpkgs
          PROVE  q \in Build /\ Placed(q) /\ Held(q, cache)
      <3>1. p.groups \in [Groups -> SUBSET Slots] /\ g \in Groups
        BY <1>1, <2>2, PackageAssumption DEF Build
      <3>2. all \in [Groups -> SUBSET Slots]
            /\ \A k \in Groups : \A s \in all[k] : s \in p.groups[k] \/ s = p.slot
        BY <2>1, <3>1
      <3> HIDE DEF all, g
      <3>3. q \in Build /\ q.groups = all /\ q.pc = "fetch" /\ q.left = p.left
        <4>1. Skipped(p) \in Build /\ Skipped(p).pc = "fetch" /\ Skipped(p).left = p.left
          BY <1>1, <1>2, SkippedType DEF Build, Skipped
        <4> HIDE DEF p
        <4> QED
          BY <3>2, <4>1 DEF Build
      <3>4. Placed(q)
        <4>1. q.pc = "fetch" /\ q.todo = p.todo /\ q.want = p.want
          BY <1>1 DEF Build, Skipped
        <4>2. \A s \in p.todo : p.want[s] \in Hpkgs
          BY <1>1 DEF Placed
        <4> HIDE DEF q, p
        <4> QED
          BY <4>1, <4>2 DEF Placed, Fetching
      <3>5. Held(q, cache)
        BY <1>1, <2>1, <3>2, <3>3 DEF Held
      <3> QED
        BY <3>3, <3>4, <3>5
    <2>3. \/ Goto(b, Idle) \/ Goto(b, Skipped(p))
          \/ cache[p.slot] \in Hpkgs /\ Goto(b, q)
      <3>1. cache[p.slot] \in Contents
        BY <1>0, <2>1
      <3>2. Skipped(p).groups = p.groups
        BY <1>1, SkippedType
      <3> QED
        BY <1>13, <3>1, <3>2 DEF FetchGroups, Abort, Readable, Contents
    <2> HIDE DEF q
    <2>4. Moves(b, Idle) \/ Moves(b, Skipped(p)) \/ (cache[p.slot] \in Hpkgs /\ Moves(b, q))
      BY <1>0, <2>3, MovesGoto
    <2> QED
      BY <1>0, <1>2, <2>1, <2>2, <2>4, TypeStep
  <1> QED
    BY <1>6, <1>7, <1>8, <1>9, <1>10, <1>11, <1>12, <1>13, <1>15 DEF Fetch

\* A field of the directory of a group.
LEMMA DirType ==
    ASSUME dir \in [Groups -> Dir], NEW g \in Groups
    PROVE  /\ \A i \in Uuids \cup {None} : [dir EXCEPT ![g].ident = i] \in [Groups -> Dir]
           /\ \A i \in Uuids \cup {None} : [dir EXCEPT ![g].info = i] \in [Groups -> Dir]
           /\ \A c \in {None} \cup SUBSET Hpkgs : [dir EXCEPT ![g].catalog = c] \in [Groups -> Dir]
           /\ \A c \in {None} \cup SUBSET Hpkgs : [dir EXCEPT ![g].sum = c] \in [Groups -> Dir]
           /\ \A p \in [Files -> Contents \cup {None}] :
                [dir EXCEPT ![g].packages = p] \in [Groups -> Dir]
  <1>1. dir[g] \in Dir
    OBVIOUS
  <1>2. \A d \in Dir : [dir EXCEPT ![g] = d] \in [Groups -> Dir]
    OBVIOUS
  <1>3. \A i \in Uuids \cup {None} : [dir[g] EXCEPT !.ident = i] \in Dir
    BY <1>1 DEF Dir
  <1>4. \A i \in Uuids \cup {None} : [dir[g] EXCEPT !.info = i] \in Dir
    BY <1>1 DEF Dir
  <1>5. \A c \in {None} \cup SUBSET Hpkgs : [dir[g] EXCEPT !.catalog = c] \in Dir
    BY <1>1 DEF Dir
  <1>6. \A c \in {None} \cup SUBSET Hpkgs : [dir[g] EXCEPT !.sum = c] \in Dir
    BY <1>1 DEF Dir
  <1>7. \A p \in [Files -> Contents \cup {None}] : [dir[g] EXCEPT !.packages = p] \in Dir
    BY <1>1 DEF Dir
  <1> QED
    BY <1>2, <1>3, <1>4, <1>5, <1>6, <1>7

LEMMA ToGroupType ==
    ASSUME NEW p \in Build, Placed(p), Held(p, cache)
    PROVE  ToGroup(p) \in Build /\ Placed(ToGroup(p)) /\ Held(ToGroup(p), cache)
  <1>1. ToGroup(p) \in Build
    BY DEF Build, ToGroup
  <1> QED
    BY <1>1 DEF Build, Placed, Held, ToGroup, Fetching

\* A step of the second half changes the directory and builds only.
LEMMA GroupMoves ==
    ASSUME TypeInv, NEW b \in Builds, NEW q, Moves(b, q), UNCHANGED <<pin, cache, part>>,
           q = Idle \/ (q \in Build /\ Placed(q) /\ Held(q, cache)), dir' \in [Groups -> Dir]
    PROVE  TypeInv'
  BY TypeStep DEF TypeInv, TypeOK

LEMMA GroupStep ==
    ASSUME TypeInv, NEW b \in Builds, NEW q, Goto(b, q), UNCHANGED <<pin, cache, part>>,
           q = Idle \/ (q \in Build /\ Placed(q) /\ Held(q, cache)), dir' \in [Groups -> Dir]
    PROVE  TypeInv'
  <1>1. Moves(b, q)
    BY MovesGoto DEF TypeInv
  <1> QED
    BY <1>1, GroupMoves

\* One of the packages of a directory.
LEMMA PackageType ==
    ASSUME dir \in [Groups -> Dir], NEW g \in Groups, NEW f \in Files, NEW now \in Contents
    PROVE  [dir EXCEPT ![g].packages[f] = now] \in [Groups -> Dir]
  <1> DEFINE packages == [dir[g].packages EXCEPT ![f] = now]
  <1>1. packages \in [Files -> Contents \cup {None}]
    BY DEF Dir
  <1>2. [dir EXCEPT ![g].packages[f] = now] = [dir EXCEPT ![g].packages = packages]
    OBVIOUS
  <1> HIDE DEF packages
  <1> QED
    BY <1>1, <1>2, DirType

LEMMA TypeSubrepo ==
    ASSUME TypeInv, NEW b \in Builds, BuildsGroup(b) \/ Subrepo(b) \/ Answers(b) \/ Stops(b)
    PROVE  TypeInv'
  <1> DEFINE p == build[b]
             g == p.group
  <1>0. dir \in [Groups -> Dir] /\ cache \in [Slots -> Contents \cup {None}]
    BY DEF TypeInv, TypeOK
  <1>1. CASE Answers(b) \/ Stops(b)
    <2>1. dir' \in [Groups -> Dir]
      <3>1. CASE UNCHANGED dir
        BY <1>0, <3>1
      <3>2. CASE dir' # dir
        <4>1. At(b, "newident") \/ At(b, "info") \/ At(b, "sum")
          BY <1>1, <3>2 DEF Answers, Stops
        <4>2. g \in Groups
          BY <4>1, Running DEF Placed, Fetching
        <4>3. \/ dir' = [dir EXCEPT ![g].ident = None]
              \/ dir' = [dir EXCEPT ![g].info = None]
              \/ dir' = [dir EXCEPT ![g].sum = None]
          BY <1>1, <3>2 DEF Answers, Stops
        <4> HIDE DEF g
        <4> QED
          BY <1>0, <4>2, <4>3, DirType
      <3> QED
        BY <3>1, <3>2
    <2> QED
      BY <1>1, <2>1, GroupStep DEF Answers, Stops
  <1>2. CASE BuildsGroup(b)
    <2>1. p \in Build /\ Placed(p) /\ Held(p, cache) /\ UNCHANGED <<pin, cache, part, dir>>
      BY <1>2, Running DEF BuildsGroup, Fetched
    <2>2. PICK h \in Groups : Goto(b, [p EXCEPT !.pc = "ident", !.group = h,
                                                !.left = p.groups[h], !.groups[h] = {}])
      BY <1>2 DEF BuildsGroup
    <2> DEFINE rest == [p.groups EXCEPT ![h] = {}]
               q == [p EXCEPT !.pc = "ident", !.group = h, !.left = p.groups[h], !.groups = rest]
    <2>3. rest \in [Groups -> SUBSET Slots] /\ p.groups[h] \in SUBSET Slots
          /\ \A k \in Groups : rest[k] \subseteq p.groups[k]
      BY <2>1 DEF Build
    <2>4. Goto(b, q)
      BY <2>1, <2>2 DEF Build
    <2> HIDE DEF rest
    <2>5. q \in Build /\ q.groups = rest
      BY <2>1, <2>3 DEF Build
    <2>6. Placed(q) /\ Held(q, cache)
      BY <2>1, <2>3, <2>5 DEF Build, Placed, Held, Fetching
    <2> HIDE DEF q
    <2> QED
      BY <1>0, <2>1, <2>4, <2>5, <2>6, GroupStep
  <1>3. CASE ReadsIdent(b)
    <2>1. p \in Build /\ Placed(p) /\ Held(p, cache) /\ p.pc = "ident"
          /\ UNCHANGED <<pin, cache, part, dir>>
      BY <1>3, Running DEF ReadsIdent
    <2>2. g \in Groups /\ dir[g].ident \in Uuids \cup {None}
      BY <1>0, <2>1 DEF Placed, Fetching, Dir
    <2>3. PICK id \in Uuids, pc \in {"newident", "info"} :
            Goto(b, [p EXCEPT !.ident = id, !.pc = pc])
      BY <1>3, <2>2 DEF ReadsIdent, Identified
    <2> DEFINE q == [p EXCEPT !.ident = id, !.pc = pc]
    <2>4. q \in Build
      BY <2>1 DEF Build
    <2>5. Placed(q) /\ Held(q, cache)
      BY <2>1, <2>4 DEF Build, Placed, Held, Fetching
    <2> HIDE DEF q
    <2> QED
      BY <1>0, <2>1, <2>3, <2>4, <2>5, GroupStep DEF q
  <1>4. CASE WritesIdent(b)
    <2>1. p \in Build /\ Placed(p) /\ Held(p, cache) /\ p.pc = "newident"
          /\ UNCHANGED <<pin, cache, part>>
      BY <1>4, Running DEF WritesIdent
    <2> DEFINE q == [p EXCEPT !.pc = "info"]
    <2>2. g \in Groups /\ p.ident \in Uuids
      BY <2>1 DEF Placed, Fetching
    <2>3. dir' \in [Groups -> Dir] /\ Goto(b, q)
      BY <1>0, <1>4, <2>2, DirType DEF WritesIdent
    <2>4. q \in Build
      BY <2>1 DEF Build
    <2>5. Placed(q) /\ Held(q, cache)
      BY <2>1, <2>4 DEF Build, Placed, Held, Fetching
    <2> HIDE DEF q
    <2> QED
      BY <2>1, <2>3, <2>4, <2>5, GroupStep
  <1>5. CASE WritesInfo(b)
    <2>1. p \in Build /\ Placed(p) /\ Held(p, cache) /\ p.pc = "info"
          /\ UNCHANGED <<pin, cache, part>>
      BY <1>5, Running DEF WritesInfo
    <2> DEFINE q == [p EXCEPT !.pc = "stage", !.ident = None]
    <2>2. g \in Groups /\ p.ident \in Uuids
      BY <2>1 DEF Placed, Fetching
    <2>3. dir' \in [Groups -> Dir] /\ Goto(b, q)
      BY <1>0, <1>5, <2>2, DirType DEF WritesInfo
    <2>4. q \in Build
      BY <2>1 DEF Build
    <2>5. Placed(q) /\ Held(q, cache)
      BY <2>1, <2>4 DEF Build, Placed, Held, Fetching
    <2> HIDE DEF q
    <2> QED
      BY <2>1, <2>3, <2>4, <2>5, GroupStep
  <1>6. CASE StagesName(b)
    <2>1. p \in Build /\ Placed(p) /\ Held(p, cache) /\ p.pc = "stage"
          /\ UNCHANGED <<pin, cache, part, dir>>
      BY <1>6, Running DEF StagesName
    <2>2. PICK s \in p.left :
            \/ Goto(b, Idle) \/ Goto(b, ToGroup(p))
            \/ /\ Readable(cache[s])
               /\ Goto(b, [p EXCEPT !.pc = "copy", !.slot = s, !.left = @ \ {s},
                                    !.name = File[cache[s]], !.names = @ \cup {File[cache[s]]}])
      BY <1>6 DEF StagesName, Abort
    <2>3. s \in Slots /\ cache[s] # None
      BY <2>1 DEF Build, Held
    <2> DEFINE n == File[cache[s]]
               q == [p EXCEPT !.pc = "copy", !.slot = s, !.left = @ \ {s}, !.name = n,
                              !.names = @ \cup {n}]
    <2>4. CASE Readable(cache[s]) /\ Goto(b, q)
      <3>1. cache[s] \in Hpkgs /\ n \in Files
        BY <1>0, <2>3, <2>4, PackageAssumption DEF Readable, Contents
      <3> HIDE DEF n
      <3>2. q \in Build
        BY <2>1, <2>3, <3>1 DEF Build
      <3>3. Placed(q) /\ Held(q, cache)
        BY <2>1, <2>3, <3>1, <3>2 DEF Build, Placed, Held, Fetching
      <3> HIDE DEF q
      <3> QED
        BY <1>0, <2>1, <2>4, <3>2, <3>3, GroupStep
    <2>5. CASE Goto(b, Idle) \/ Goto(b, ToGroup(p))
      BY <1>0, <2>1, <2>5, ToGroupType, GroupStep
    <2> QED
      BY <2>2, <2>4, <2>5
  <1>7. CASE CopyOpens(b)
    <2>1. p \in Build /\ Placed(p) /\ Held(p, cache) /\ p.pc = "copy"
          /\ UNCHANGED <<pin, cache, part>>
      BY <1>7, Running DEF CopyOpens
    <2> DEFINE with == {c \in Builds \ {b} : /\ At(c, "fill") /\ build[c].group = p.group
                                             /\ build[c].name = p.name}
               q == [p EXCEPT !.pc = "fill", !.file = "cache", !.source = cache[p.slot]]
               r == [q EXCEPT !.shared = with # {}]
    <2>2. g \in Groups /\ p.name \in Files /\ p.slot \in Slots /\ cache[p.slot] \in Contents
      BY <1>0, <2>1 DEF Placed, Fetching, Held
    <2>3. dir' \in [Groups -> Dir]
      <3>1. Torn \in Contents
        BY DEF Contents
      <3>2. dir' = [dir EXCEPT ![g].packages[p.name] = Torn]
        BY <1>7 DEF CopyOpens
      <3> HIDE DEF g, p
      <3> QED
        BY <1>0, <2>2, <3>1, <3>2, PackageType
    <2>4. q \in Build /\ q.source = cache[p.slot] /\ q.pc = "fill"
      BY <2>1, <2>2 DEF Build
    <2>5. Placed(q) /\ Held(q, cache)
      BY <2>1, <2>2, <2>4 DEF Build, Placed, Held, Fetching
    <2>6. build' = Sharing(b, q, with) /\ \A c \in with : build[c] # Idle
      BY <1>7 DEF CopyOpens, At
    <2>7. (with # {}) \in BOOLEAN
      OBVIOUS
    <2> HIDE DEF q, with
    <2>8. r \in Build /\ Placed(r) /\ Held(r, cache)
      BY <2>4, <2>5, <2>7, SharedType
    <2>9. Moves(b, r)
      BY <2>6, MovesSharing
    <2> HIDE DEF r
    <2> QED
      BY <2>1, <2>3, <2>8, <2>9, GroupMoves
  <1>12. ASSUME At(b, "fill"), NEW now \in Contents, Fills(b, now)
         PROVE  dir' \in [Groups -> Dir]
    <2>1. g \in Groups /\ p.name \in Files \cup {None}
      BY <1>12, Running DEF Placed, Fetching, Build
    <2> QED
      BY <1>0, <1>12, <2>1, PackageType DEF Fills
  <1>13. CASE CopyFills(b) \/ CopyMixes(b)
    <2>1. p \in Build /\ Placed(p) /\ Held(p, cache) /\ p.pc = "fill" /\ At(b, "fill")
          /\ UNCHANGED <<pin, cache, part>>
      BY <1>13, Running DEF CopyFills, CopyMixes
    <2> DEFINE q == [p EXCEPT !.pc = "stage", !.slot = None, !.name = None, !.file = "none",
                              !.source = None, !.shared = FALSE]
    <2>2. p.source \in Contents /\ Torn \in Contents
      BY <2>1 DEF Placed, Contents
    <2>3. dir' \in [Groups -> Dir]
      BY <1>12, <1>13, <2>1, <2>2 DEF CopyFills, CopyMixes
    <2>4. q \in Build
      BY <2>1 DEF Build
    <2>5. Placed(q) /\ Held(q, cache)
      BY <2>1, <2>4 DEF Build, Placed, Held, Fetching
    <2>6. Goto(b, q) \/ build' = build
      BY <1>13 DEF CopyFills, CopyMixes
    <2>7. Moves(b, q) \/ Moves(b, p)
      BY <2>6, MovesGoto DEF TypeInv, Moves
    <2> HIDE DEF q
    <2> QED
      BY <2>1, <2>3, <2>4, <2>5, <2>7, GroupMoves
  <1>8. CASE Prunes(b)
    <2>1. p \in Build /\ Placed(p) /\ Held(p, cache) /\ p.pc = "stage"
          /\ UNCHANGED <<pin, cache, part>>
      BY <1>8, Running DEF Prunes
    <2> DEFINE t == [p EXCEPT !.pc = "tool"]
    <2>2. PICK gone \in SUBSET Stale(dir[g].packages, p.names), q \in {Idle, t} :
            /\ dir' = [dir EXCEPT ![g].packages =
                                    [f \in Files |-> IF f \in gone THEN None ELSE @[f]]]
            /\ build' = [c \in Builds |->
                           IF c = b THEN q
                           ELSE IF At(c, "fill") /\ build[c].group = g /\ build[c].name \in gone
                                THEN [build[c] EXCEPT !.name = None] ELSE build[c]]
      BY <1>8 DEF Prunes
    <2> DEFINE now == [f \in Files |-> IF f \in gone THEN None ELSE dir[g].packages[f]]
    <2>3. g \in Groups
      BY <2>1 DEF Placed, Fetching
    <2>4. now \in [Files -> Contents \cup {None}]
      BY <1>0, <2>3 DEF Dir
    <2>5. dir' = [dir EXCEPT ![g].packages = now]
      BY <1>0, <2>2, <2>3
    <2> HIDE DEF now
    <2>6. dir' \in [Groups -> Dir]
      BY <1>0, <2>3, <2>4, <2>5, DirType
    <2>7. t \in Build
      BY <2>1 DEF Build
    <2>8. Placed(t) /\ Held(t, cache)
      BY <2>1, <2>7 DEF Build, Placed, Held, Fetching
    <2> HIDE DEF t
    <2>9. Moves(b, q)
      BY <2>2 DEF Moves, Disturbed, At
    <2> QED
      BY <2>1, <2>2, <2>6, <2>7, <2>8, <2>9, GroupMoves
  <1>9. CASE RunsTool(b)
    <2>1. p \in Build /\ Placed(p) /\ Held(p, cache) /\ p.pc = "tool"
          /\ UNCHANGED <<pin, cache, part>>
      BY <1>9, Running DEF RunsTool
    <2> DEFINE q == [p EXCEPT !.pc = "hash", !.names = {}]
    <2>2. g \in Groups
      BY <2>1 DEF Placed, Fetching
    <2>3. \/ Goto(b, ToGroup(p)) /\ UNCHANGED dir
          \/ \E staged \in SUBSET Hpkgs : dir' = [dir EXCEPT ![g].catalog = staged] /\ Goto(b, q)
      BY <1>9 DEF RunsTool
    <2>4. dir' \in [Groups -> Dir]
      <3>1. ASSUME NEW staged \in SUBSET Hpkgs, dir' = [dir EXCEPT ![g].catalog = staged]
            PROVE  dir' \in [Groups -> Dir]
        <4>1. staged \in {None} \cup SUBSET Hpkgs
          OBVIOUS
        <4> HIDE DEF g
        <4> QED
          BY <1>0, <2>2, <3>1, <4>1, DirType
      <3> QED
        BY <1>0, <2>3, <3>1
    <2>5. q \in Build
      BY <2>1 DEF Build
    <2>6. Placed(q) /\ Held(q, cache)
      BY <2>1, <2>5 DEF Build, Placed, Held, Fetching
    <2> HIDE DEF q
    <2> QED
      BY <2>1, <2>3, <2>4, <2>5, <2>6, ToGroupType, GroupStep
  <1>10. CASE Hashes(b)
    <2>1. p \in Build /\ Placed(p) /\ Held(p, cache) /\ p.pc = "hash"
          /\ UNCHANGED <<pin, cache, part, dir>>
      BY <1>10, Running DEF Hashes
    <2> DEFINE c == dir[g].catalog
               q == [p EXCEPT !.pc = "sum", !.sum = c]
    <2>2. c \in {None} \cup SUBSET Hpkgs /\ g \in Groups
      BY <1>0, <2>1 DEF Placed, Fetching, Dir
    <2>3. Goto(b, q)
      BY <1>10 DEF Hashes
    <2> HIDE DEF c
    <2>4. q \in Build
      BY <2>1, <2>2 DEF Build
    <2>5. Placed(q) /\ Held(q, cache)
      BY <2>1, <2>2, <2>4 DEF Build, Placed, Held, Fetching
    <2> HIDE DEF q
    <2> QED
      BY <1>0, <2>1, <2>3, <2>4, <2>5, GroupStep
  <1>11. CASE WritesSum(b)
    <2>1. p \in Build /\ Placed(p) /\ Held(p, cache) /\ p.pc = "sum"
          /\ UNCHANGED <<pin, cache, part>>
      BY <1>11, Running DEF WritesSum
    <2>2. g \in Groups /\ p.sum \in {None} \cup SUBSET Hpkgs
      BY <2>1 DEF Placed, Fetching, Build
    <2>3. dir' \in [Groups -> Dir] /\ Goto(b, ToGroup(p))
      BY <1>0, <1>11, <2>2, DirType DEF WritesSum
    <2> QED
      BY <2>1, <2>3, ToGroupType, GroupStep
  <1> QED
    BY <1>1, <1>2, <1>3, <1>4, <1>5, <1>6, <1>7, <1>8, <1>9, <1>10, <1>11, <1>13
       DEF Subrepo

LEMMA TypePin ==
    ASSUME TypeInv, NEW s \in Slots, NEW h \in Hpkgs \cup {None}, Pin(s, h)
    PROVE  TypeInv'
  BY DEF TypeInv, TypeOK, Pin, Pins

LEMMA TypeInit == Init => TypeInv
  <1> SUFFICES ASSUME Init PROVE TypeInv
    OBVIOUS
  <1>1. Empty \in Dir
    BY DEF Empty, Dir
  <1> QED
    BY <1>1 DEF Init, TypeInv, TypeOK, Pins

LEMMA TypeNext == TypeInv /\ [Next]_vars => TypeInv'
  <1> SUFFICES ASSUME TypeInv, [Next]_vars PROVE TypeInv'
    OBVIOUS
  <1>1. CASE UNCHANGED vars
    BY <1>1 DEF vars, TypeInv, TypeOK
  <1>2. CASE Next
    BY <1>2, TypeBegin, TypeFetch, TypeSubrepo, TypePin DEF Next, Rebuild
  <1> QED
    BY <1>1, <1>2

\* Whatever the servers send and however builds overlap, fail or stop, a build
\* has the artifact, the group and the names that each of its steps uses
\* (_rebuild_all_repos, fetch_verified, build_subrepo).
THEOREM TypeCorrect == Spec => []TypeOK
  <1>1. TypeInv => TypeOK
    BY DEF TypeInv
  <1> QED
    BY <1>1, TypeInit, TypeNext, PTL DEF Spec

-----------------------------------------------------------------------------
(* Builds that run alone.                                                  *)

\* The slots whose file is what q pins, and belongs to g.
Good(q, g, files) ==
    {s \in Slots : /\ files[s] = q.want[s] /\ q.want[s] \in Hpkgs \ (Junk \cup Bare)
                   /\ Group[q.want[s]] = g}
Wanted(q, g, files) == {q.want[s] : s \in Good(q, g, files)}

\* While q fetches: the files it went through are grouped, or not what it pins.
FetchOK(q, files, parts) ==
    /\ q.names = {}
    /\ q.pc = "fetch" => q.slot = None
    /\ q.pc # "fetch" => q.slot \notin q.todo
    /\ q.pc = "write" => q.file = "part"
    /\ q.pc \in {"write", "verify", "replace"} => files[q.slot] # q.want[q.slot]
    /\ q.pc = "replace" => parts[q.slot] = q.want[q.slot]
    /\ q.pc = "meta" => files[q.slot] = q.want[q.slot]
    /\ \A s \in Slots \ (q.todo \cup {q.slot}) :
         files[s] = q.want[s] => q.want[s] \notin Junk
    /\ \A g \in Groups :
         /\ q.groups[g] \subseteq Good(q, g, files)
         /\ \A s \in Good(q, g, files) : s \in q.todo \cup {q.slot} \cup q.groups[g]

\* What is served of a group is what q pins of it, all of it and nothing else.
Published(q, g, files, d) ==
    /\ d.catalog = {d.packages[f] : f \in Files} \ {None}
    /\ \A f \in Files : d.packages[f] \in Wanted(q, g, files) \cup {None}
    /\ \A s \in Good(q, g, files) : d.packages[File[q.want[s]]] # None

\* While q builds group g, with d the directory of g.
DirOK(q, g, files, d) ==
    /\ q.pc \in {"ident", "newident", "info"} => q.left = Good(q, g, files) /\ q.names = {}
    /\ q.pc \in {"stage", "copy", "fill"} =>
         /\ q.left \subseteq Good(q, g, files)
         /\ \A s \in Good(q, g, files) : s \in q.left \/ File[q.want[s]] \in q.names
    /\ q.pc \in {"copy", "fill"} => q.slot \in Good(q, g, files) /\ q.name = File[q.want[q.slot]]
    /\ q.pc = "fill" => q.source = q.want[q.slot] /\ ~ q.shared
    /\ q.pc \in {"stage", "copy", "fill", "tool"} =>
         \A f \in q.names : \/ q.pc \in {"copy", "fill"} /\ f = q.name
                            \/ d.packages[f] \in Wanted(q, g, files)
    /\ q.pc = "tool" =>
         /\ \A s \in Good(q, g, files) : File[q.want[s]] \in q.names
         /\ \A f \in Files \ q.names : d.packages[f] = None
    /\ q.pc \in {"hash", "sum"} => Published(q, g, files, d)
    /\ q.pc = "sum" => q.sum = d.catalog

GroupOK(q, files, dirs) ==
    /\ q.todo = {}
    /\ \A s \in Slots : files[s] = q.want[s] => q.want[s] \notin Junk
    /\ \A g \in Groups : q.groups[g] = {} \/ q.groups[g] = Good(q, g, files)
    /\ q.pc = "group" => q.names = {}
    /\ q.pc # "group" => DirOK(q, q.group, files, dirs[q.group])

Sound(q, files, parts, dirs) == IF q.pc \in Fetching THEN FetchOK(q, files, parts)
                                ELSE GroupOK(q, files, dirs)

\* No two builds overlap, by assumption of the theorems that need it.
OneBuild == \A b, c \in Builds : b = c

AloneInv ==
    \A b \in Builds : build[b] # Idle =>
        /\ OneBuild => build[b].alone
        /\ build[b].alone => /\ \A c \in Builds \ {b} : build[c] = Idle
                             /\ Sound(build[b], cache, part, dir)

\* A step of b is sound if it is when b runs alone.
LEMMA AloneStep ==
    ASSUME TypeInv, AloneInv, NEW b \in Builds, build[b] # Idle, NEW q, Moves(b, q),
           q # Idle => q.alone = build[b].alone /\ (q.alone => Sound(q, cache', part', dir'))
    PROVE  AloneInv'
  <1>0. ASSUME NEW c \in Builds, build'[c] # Idle, OneBuild
        PROVE  build'[c].alone
    <2>1. c = b /\ build'[c] = q /\ build[b].alone
      BY <1>0 DEF OneBuild, AloneInv, Moves
    <2> QED
      BY <1>0, <2>1
  <1> SUFFICES ASSUME NEW c \in Builds, build'[c] # Idle, build'[c].alone
               PROVE  /\ \A e \in Builds \ {c} : build'[e] = Idle
                      /\ Sound(build'[c], cache', part', dir')
    BY <1>0 DEF AloneInv, OneBuild
  <1>1. c = b
    <2> SUFFICES ASSUME c # b PROVE FALSE
      OBVIOUS
    <2>1. build[c] # Idle
      BY DEF Moves
    <2>2. build[c] \in Build
      BY <2>1 DEF TypeInv, TypeOK
    <2>3. build'[c].alone = build[c].alone
      <3>1. CASE build'[c] = build[c]
        BY <3>1
      <3>2. CASE build'[c] # build[c]
        <4>1. Disturbed(build[c], build'[c])
          BY <3>2 DEF Moves
        <4> QED
          BY <2>2, <4>1 DEF Disturbed, Build
      <3> QED
        BY <3>1, <3>2
    <2> QED
      BY <2>1, <2>3 DEF AloneInv
  <1>2. \A e \in Builds \ {b} : build[e] = Idle
    BY <1>1 DEF AloneInv, Moves
  <1> QED
    BY <1>1, <1>2 DEF Moves

LEMMA AloneSound ==
    ASSUME AloneInv, NEW b \in Builds, build[b] # Idle, build[b].alone
    PROVE  Sound(build[b], cache, part, dir) /\ \A c \in Builds \ {b} : build[c] = Idle
  BY DEF AloneInv

\* The next artifact, or none.
LEMMA SkippedSound ==
    ASSUME NEW p \in Build, Placed(p), NEW parts, FetchOK(p, cache, part),
           p.pc \in {"write", "verify"}
    PROVE  FetchOK(Skipped(p), cache, parts)
  <1>1. Skipped(p) \in Build
    BY DEF Build, Skipped
  <1>2. /\ Skipped(p).want = p.want /\ Skipped(p).todo = p.todo /\ Skipped(p).slot = None
        /\ Skipped(p).groups = p.groups /\ Skipped(p).names = p.names /\ Skipped(p).pc = "fetch"
    BY DEF Skipped, Build
  <1>3. \A s \in Slots : s \notin Slots \ (p.todo \cup {p.slot}) =>
          s \in p.todo \/ cache[s] # p.want[s]
    BY DEF FetchOK
  <1>4. \A g \in Groups : Good(Skipped(p), g, cache) = Good(p, g, cache)
    BY <1>2 DEF Good
  <1>5. \A g \in Groups : \A s \in Good(p, g, cache) : s \in p.todo \cup p.groups[g]
    BY <1>3 DEF FetchOK, Good
  <1> QED
    BY <1>2, <1>3, <1>4, <1>5 DEF FetchOK

LEMMA RefusedSound ==
    ASSUME NEW p \in Build, Placed(p), NEW parts, FetchOK(p, cache, part), p.pc = "fetch",
           NEW s \in p.todo, cache[s] # p.want[s]
    PROVE  FetchOK(Skipped(Chosen(p, s)), cache, parts)
  <1> DEFINE q == Skipped(Chosen(p, s))
  <1>1. /\ q.want = p.want /\ q.todo = p.todo \ {s} /\ q.slot = None
        /\ q.groups = p.groups /\ q.names = p.names /\ q.pc = "fetch"
    BY DEF Skipped, Chosen, Build
  <1> HIDE DEF q
  <1>2. \A g \in Groups : Good(q, g, cache) = Good(p, g, cache)
    BY <1>1 DEF Good
  <1>3. p.slot = None /\ None \notin Slots
    BY NullAssumption DEF FetchOK
  <1>4. \A g \in Groups : \A t \in Good(p, g, cache) : t # s /\ t \in Slots
    BY DEF Good
  <1> QED
    BY <1>1, <1>2, <1>3, <1>4 DEF FetchOK, q

LEMMA AloneFetch ==
    ASSUME TypeInv, AloneInv, NEW b \in Builds, Fetch(b)
    PROVE  AloneInv'
  <1> DEFINE p == build[b]
  <1>0. DOMAIN build = Builds /\ cache \in [Slots -> Contents \cup {None}]
        /\ part \in [Slots -> Contents \cup {None}] /\ dir' = dir
    BY DEF TypeInv, TypeOK, Fetch, FetchCached, FetchOpens, FetchRefused, FetchFails, FetchMixes, FetchWrites,
           FetchVerifies, FetchReplaces, FetchGroups
  <1>1. p \in Build /\ Placed(p) /\ Held(p, cache) /\ p.pc \in Fetching /\ p # Idle
    BY Running DEF Fetch, FetchCached, FetchOpens, FetchRefused, FetchFails, FetchMixes, FetchWrites,
                   FetchVerifies, FetchReplaces, FetchGroups, Fetching
  <1>2. p.alone => FetchOK(p, cache, part)
    BY <1>1, AloneSound DEF Sound
  <1>3. Skipped(p).alone = p.alone /\ Skipped(p).pc = "fetch"
    BY <1>1 DEF Skipped, Build
  <1>4. \A s : Skipped(Chosen(p, s)).alone = p.alone /\ Skipped(Chosen(p, s)).pc = "fetch"
    BY <1>1 DEF Skipped, Chosen, Build
  <1>5. \A q : Moves(b, q) /\ (q = Idle \/ (q.alone = p.alone /\ q.pc \in Fetching
                                            /\ (p.alone => FetchOK(q, cache', part')))) => AloneInv'
    BY <1>1, AloneStep DEF Sound
  <1>6. CASE FetchCached(b)
    <2>1. p.pc = "fetch" /\ UNCHANGED <<cache, part>>
      BY <1>6, Running DEF FetchCached
    <2>2. PICK s \in p.todo : cache[s] = p.want[s] /\ Goto(b, [Chosen(p, s) EXCEPT !.pc = "meta"])
      BY <1>6 DEF FetchCached, Reusable
    <2> DEFINE q == [Chosen(p, s) EXCEPT !.pc = "meta"]
    <2>3. /\ q.want = p.want /\ q.todo = p.todo \ {s} /\ q.slot = s /\ q.alone = p.alone
          /\ q.groups = p.groups /\ q.names = p.names /\ q.pc = "meta"
      BY <1>1 DEF Chosen, Build
    <2>4. Moves(b, q)
      BY <1>0, <2>2, MovesGoto
    <2> HIDE DEF q
    <2>5. p.alone => FetchOK(q, cache, part)
      BY <1>2, <2>1, <2>2, <2>3, NullAssumption DEF FetchOK, Good
    <2> QED
      BY <1>5, <2>1, <2>3, <2>4, <2>5 DEF Fetching
  <1>7. CASE FetchOpens(b)
    <2>1. p.pc = "fetch" /\ UNCHANGED cache
      BY <1>7, Running DEF FetchOpens
    <2>2. PICK s \in p.todo :
            LET with == {c \in Builds \ {b} : /\ At(c, "write") /\ build[c].slot = s
                                             /\ build[c].file = "part"}
            IN  /\ cache[s] # p.want[s]
                /\ build' = Sharing(b, [Chosen(p, s) EXCEPT !.pc = "write", !.file = "part"], with)
      BY <1>7 DEF FetchOpens, Reusable
    <2> DEFINE with == {c \in Builds \ {b} : /\ At(c, "write") /\ build[c].slot = s
                                             /\ build[c].file = "part"}
               o == [Chosen(p, s) EXCEPT !.pc = "write", !.file = "part"]
               q == [o EXCEPT !.shared = with # {}]
    <2>3. /\ q.want = p.want /\ q.todo = p.todo \ {s} /\ q.slot = s /\ q.alone = p.alone
          /\ q.groups = p.groups /\ q.names = p.names /\ q.pc = "write" /\ q.file = "part"
      BY <1>1 DEF Chosen, Build
    <2>4. Moves(b, q)
      <3>1. build' = Sharing(b, o, with) /\ \A c \in with : build[c] # Idle
        BY <2>2 DEF At
      <3> HIDE DEF o, with
      <3> QED
        BY <3>1, MovesSharing
    <2> HIDE DEF q
    <2>5. p.alone => FetchOK(q, cache, part')
      BY <1>2, <2>1, <2>2, <2>3, NullAssumption DEF FetchOK, Good
    <2> QED
      BY <1>5, <2>1, <2>3, <2>4, <2>5 DEF Fetching
  <1>8. CASE FetchRefused(b)
    <2>1. p.pc = "fetch" /\ UNCHANGED <<cache, part>>
      BY <1>8, Running DEF FetchRefused
    <2>2. PICK s \in p.todo : /\ cache[s] # p.want[s]
                              /\ Goto(b, Skipped(Chosen(p, s))) \/ Goto(b, Idle)
      BY <1>8 DEF FetchRefused, Abort, Reusable
    <2>3. Moves(b, Skipped(Chosen(p, s))) \/ Moves(b, Idle)
      BY <1>0, <2>2, MovesGoto
    <2>4. p.alone => FetchOK(Skipped(Chosen(p, s)), cache, part)
      BY <1>1, <1>2, <2>1, <2>2, RefusedSound
    <2> QED
      BY <1>4, <1>5, <2>1, <2>3, <2>4 DEF Fetching
  <1>9. CASE FetchFails(b)
    <2>1. UNCHANGED cache
      BY <1>9 DEF FetchFails
    <2>2. CASE p.pc = "write" /\ Unlink(b, Skipped(p), p.slot)
      <3>1. p.alone => FetchOK(Skipped(p), cache, part')
        BY <1>1, <1>2, <2>2, SkippedSound
      <3> QED
        BY <1>3, <1>5, <2>1, <2>2, <3>1, MovesUnlink DEF Fetching
    <2>3. ASSUME p.pc = "fetch", NEW s \in p.todo, cache[s] # p.want[s],
                 Unlink(b, Skipped(Chosen(p, s)), s)
          PROVE  AloneInv'
      <3>1. p.alone => FetchOK(Skipped(Chosen(p, s)), cache, part')
        BY <1>1, <1>2, <2>3, RefusedSound
      <3> QED
        BY <1>4, <1>5, <2>1, <2>3, <3>1, MovesUnlink DEF Fetching
    <2> QED
      BY <1>9, <2>2, <2>3 DEF FetchFails, Reusable, At
  <1>10. CASE FetchWrites(b)
    <2>1. p.pc = "write"
      BY <1>10, Running DEF FetchWrites
    <2> DEFINE q == [p EXCEPT !.pc = "verify", !.file = "none", !.shared = FALSE]
    <2>2. /\ q.want = p.want /\ q.todo = p.todo /\ q.slot = p.slot /\ q.alone = p.alone
          /\ q.groups = p.groups /\ q.names = p.names /\ q.pc = "verify"
      BY <1>1 DEF Build
    <2>3. PICK now \in Contents : Writes(b, q, now)
      BY <1>10 DEF FetchWrites
    <2>4. p.alone => cache' = cache
      BY <1>2, <2>1, <2>3 DEF Writes, FetchOK
    <2> HIDE DEF q
    <2>5. p.alone => FetchOK(q, cache', part')
      BY <1>2, <2>1, <2>2, <2>4 DEF FetchOK, Good
    <2> QED
      BY <1>5, <2>2, <2>3, <2>5, MovesWrites DEF Fetching
  <1>14. CASE FetchMixes(b)
    <2>1. p.pc = "write" /\ Writes(b, p, Torn) /\ Torn \in Contents
      BY <1>14, Running DEF FetchMixes, Contents
    <2>2. p.alone => cache' = cache
      BY <1>2, <2>1 DEF Writes, FetchOK
    <2>3. p.alone => FetchOK(p, cache', part')
      BY <1>2, <2>1, <2>2 DEF FetchOK
    <2> QED
      BY <1>5, <2>1, <2>3, MovesWrites DEF Fetching
  <1>11. CASE FetchVerifies(b)
    <2>1. p.pc = "verify" /\ UNCHANGED cache
      BY <1>11, Running DEF FetchVerifies
    <2> DEFINE q == [p EXCEPT !.pc = "replace"]
    <2>2. \/ Goto(b, Idle)
          \/ Goto(b, q) /\ part[p.slot] = p.want[p.slot] /\ UNCHANGED part
          \/ Unlink(b, Skipped(p), p.slot)
      BY <1>11 DEF FetchVerifies, Abort, Matches, Artifact
    <2>3. /\ q.want = p.want /\ q.todo = p.todo /\ q.slot = p.slot /\ q.alone = p.alone
          /\ q.groups = p.groups /\ q.names = p.names /\ q.pc = "replace"
      BY <1>1 DEF Build
    <2> HIDE DEF q
    <2>4. p.alone => FetchOK(Skipped(p), cache, part')
      BY <1>1, <1>2, <2>1, SkippedSound
    <2>5. p.alone /\ part[p.slot] = p.want[p.slot] /\ UNCHANGED part => FetchOK(q, cache, part')
      BY <1>2, <2>1, <2>3 DEF FetchOK, Good
    <2> QED
      BY <1>0, <1>3, <1>5, <2>1, <2>2, <2>3, <2>4, <2>5, MovesGoto, MovesUnlink DEF Fetching
  <1>12. CASE FetchReplaces(b)
    <2>1. p.pc = "replace" /\ p.slot \in Slots /\ p.want[p.slot] \in Hpkgs
      BY <1>1, <1>12, Running DEF FetchReplaces, Placed
    <2> DEFINE q == [p EXCEPT !.pc = "meta"]
    <2>2. CASE Goto(b, Idle)
      BY <1>0, <1>5, <2>2, MovesGoto
    <2>3. CASE /\ cache' = [cache EXCEPT ![p.slot] = part[p.slot]]
               /\ build' = [c \in Builds |->
                              IF c = b THEN q
                              ELSE IF build[c] # Idle /\ build[c].slot = p.slot
                              THEN [build[c] EXCEPT !.file = IF @ = "part" THEN "cache" ELSE "none"]
                              ELSE build[c]]
      <3>1. /\ q.want = p.want /\ q.todo = p.todo /\ q.slot = p.slot /\ q.alone = p.alone
            /\ q.groups = p.groups /\ q.names = p.names /\ q.pc = "meta"
        BY <1>1 DEF Build
      <3>2. Moves(b, q)
        BY <2>3 DEF Moves, Disturbed
      <3> HIDE DEF q
      <3>3. \A s \in Slots \ {p.slot} : cache'[s] = cache[s]
        BY <1>0, <2>3
      <3>4. p.alone => cache'[p.slot] = p.want[p.slot]
        BY <1>0, <1>2, <2>1, <2>3 DEF FetchOK
      <3>5. p.alone => \A g \in Groups : \A s \in Slots \ {p.slot} :
                         s \in Good(q, g, cache') <=> s \in Good(p, g, cache)
        BY <3>1, <3>3 DEF Good
      <3>6. p.alone => \A g \in Groups : p.slot \notin p.groups[g]
        BY <1>2, <2>1 DEF FetchOK, Good
      <3>7. p.alone => FetchOK(q, cache', part')
        <4> SUFFICES ASSUME p.alone PROVE FetchOK(q, cache', part')
          OBVIOUS
        <4>1. \A g \in Groups : q.groups[g] \subseteq Good(q, g, cache')
          BY <1>2, <3>1, <3>5, <3>6 DEF FetchOK, Good
        <4>2. \A g \in Groups : \A s \in Good(q, g, cache') : s \in q.todo \cup {q.slot} \cup q.groups[g]
          BY <1>2, <3>1, <3>5 DEF FetchOK, Good
        <4>3. \A s \in Slots \ (q.todo \cup {q.slot}) : cache'[s] = q.want[s] => q.want[s] \notin Junk
          BY <1>2, <3>1, <3>3 DEF FetchOK
        <4> QED
          BY <1>2, <2>1, <3>1, <3>4, <4>1, <4>2, <4>3 DEF FetchOK
      <3> QED
        BY <1>5, <3>1, <3>2, <3>7 DEF Fetching
    <2> QED
      BY <1>12, <2>2, <2>3 DEF FetchReplaces, Abort
  <1>13. CASE FetchGroups(b)
    <2>1. p.pc = "meta" /\ UNCHANGED <<cache, part>> /\ p.slot \in Slots /\ cache[p.slot] # None
      BY <1>1, <1>13, Running DEF FetchGroups, Held, Placed
    <2> DEFINE h == cache[p.slot]
               all == [p.groups EXCEPT ![Group[h]] = @ \cup {p.slot}]
               q == [Skipped(p) EXCEPT !.groups = all]
    <2>2. p.alone => h = p.want[p.slot] /\ h \in Hpkgs /\ p.slot \notin p.todo
      BY <1>1, <1>2, <2>1 DEF FetchOK, Placed
    <2>3. /\ Skipped(p).want = p.want /\ Skipped(p).todo = p.todo /\ Skipped(p).slot = None
          /\ Skipped(p).groups = p.groups /\ Skipped(p).names = p.names
      BY <1>1 DEF Skipped, Build
    <2>4. CASE Goto(b, Idle)
      BY <1>0, <1>5, <2>4, MovesGoto
    <2>5. CASE h \in Bare \ Junk /\ Goto(b, Skipped(p))
      <3>1. \A g \in Groups : Good(Skipped(p), g, cache) = Good(p, g, cache)
        BY <2>3 DEF Good
      <3>2. p.alone => \A g \in Groups : p.slot \notin Good(p, g, cache)
        BY <2>2, <2>5 DEF Good
      <3>3. p.alone => FetchOK(Skipped(p), cache, part)
        BY <1>2, <1>3, <2>2, <2>3, <2>5, <3>1, <3>2 DEF FetchOK
      <3> QED
        BY <1>0, <1>3, <1>5, <2>1, <2>5, <3>3, MovesGoto DEF Fetching
    <2>6. CASE Readable(h) /\ h \notin Bare /\ Goto(b, q)
      <3>1. h \in Hpkgs \ (Junk \cup Bare) /\ Group[h] \in Groups
        BY <1>0, <2>1, <2>6, PackageAssumption DEF Readable, Contents
      <3>2. /\ q.want = p.want /\ q.todo = p.todo /\ q.slot = None /\ q.alone = p.alone
            /\ q.groups = all /\ q.names = p.names /\ q.pc = "fetch"
        BY <1>1, <1>3, <2>3 DEF Skipped, Build
      <3>3. \A g \in Groups : all[g] = IF g = Group[h] THEN p.groups[g] \cup {p.slot} ELSE p.groups[g]
        BY <1>1, <3>1 DEF Build
      <3>4. Moves(b, q)
        BY <1>0, <2>6, MovesGoto
      <3> HIDE DEF q, all
      <3>5. \A g \in Groups : Good(q, g, cache) = Good(p, g, cache)
        BY <3>2 DEF Good
      <3>6. p.alone => \A g \in Groups : p.slot \in Good(p, g, cache) <=> g = Group[h]
        BY <2>1, <2>2, <3>1 DEF Good
      <3>7. p.alone => FetchOK(q, cache, part)
        <4> SUFFICES ASSUME p.alone PROVE FetchOK(q, cache, part)
          OBVIOUS
        <4>0. \A g \in Groups :
                /\ p.groups[g] \subseteq Good(p, g, cache)
                /\ \A s \in Good(p, g, cache) : s \in p.todo \cup {p.slot} \cup p.groups[g]
          BY <1>2, <2>1 DEF FetchOK, Fetching
        <4> HIDE DEF h
        <4>1. ASSUME NEW g \in Groups PROVE q.groups[g] \subseteq Good(q, g, cache)
          <5>1. CASE g = Group[h]
            <6>1. q.groups[g] = p.groups[g] \cup {p.slot}
              BY <3>2, <3>3, <5>1
            <6>2. p.slot \in Good(p, g, cache)
              BY <3>6, <5>1
            <6> QED
              BY <3>5, <4>0, <6>1, <6>2
          <5>2. CASE g # Group[h]
            BY <3>2, <3>3, <3>5, <4>0, <5>2
          <5> QED
            BY <5>1, <5>2
        <4>2. ASSUME NEW g \in Groups, NEW s \in Good(q, g, cache)
              PROVE  s \in q.todo \cup {q.slot} \cup q.groups[g]
          <5>1. s \in Good(p, g, cache)
            BY <3>5
          <5>2. s \in p.todo \cup p.groups[g] \/ (s = p.slot /\ g = Group[h])
            BY <3>6, <4>0, <5>1
          <5>3. q.groups[g] = all[g] /\ q.todo = p.todo
            BY <3>2
          <5>4. CASE g = Group[h]
            <6>1. q.groups[g] = p.groups[g] \cup {p.slot}
              BY <3>3, <5>3, <5>4
            <6> QED
              BY <5>2, <5>3, <6>1
          <5>5. CASE g # Group[h]
            BY <3>3, <5>2, <5>3, <5>5
          <5> QED
            BY <5>4, <5>5
        <4> USE DEF h
        <4>3. \A s \in Slots \ (q.todo \cup {q.slot}) : cache[s] = q.want[s] => q.want[s] \notin Junk
          BY <1>2, <2>2, <3>1, <3>2 DEF FetchOK
        <4> QED
          BY <1>2, <3>2, <4>1, <4>2, <4>3 DEF FetchOK
      <3> QED
        BY <1>5, <2>1, <3>2, <3>4, <3>7 DEF Fetching
    <2> QED
      BY <1>13, <2>3, <2>4, <2>5, <2>6 DEF FetchGroups, Abort
  <1> QED
    BY <1>6, <1>7, <1>8, <1>9, <1>10, <1>11, <1>12, <1>13, <1>14 DEF Fetch

LEMMA SameWant ==
    ASSUME NEW p, NEW q, q.want = p.want, NEW g, NEW files
    PROVE  Good(q, g, files) = Good(p, g, files) /\ Wanted(q, g, files) = Wanted(p, g, files)
  BY DEF Good, Wanted

\* A directory is published when its catalog is made of what is staged, and stays so.
LEMMA PublishedWhen ==
    ASSUME NEW p, NEW g, NEW files, NEW d, NEW e, e.packages = d.packages,
           e.catalog = {d.packages[f] : f \in Files} \ {None},
           \A f \in Files : d.packages[f] \in Wanted(p, g, files) \cup {None},
           \A s \in Good(p, g, files) : d.packages[File[p.want[s]]] # None
    PROVE  Published(p, g, files, e)
  BY DEF Published

LEMMA PublishedKept ==
    ASSUME NEW p, NEW q, q.want = p.want, NEW g, NEW files, NEW d, Published(p, g, files, d)
    PROVE  Published(q, g, files, d)
  BY SameWant DEF Published

\* Between the groups nothing is in hand.
LEMMA ToGroupSound ==
    ASSUME NEW p \in Build, NEW files, NEW dirs, NEW dirsNext, GroupOK(p, files, dirs)
    PROVE  /\ GroupOK(ToGroup(p), files, dirsNext)
           /\ ToGroup(p).alone = p.alone /\ ToGroup(p).pc = "group"
  <1> DEFINE q == ToGroup(p)
  <1>1. /\ q.want = p.want /\ q.todo = p.todo /\ q.groups = p.groups /\ q.names = {}
        /\ q.alone = p.alone /\ q.pc = "group"
    BY DEF ToGroup, Build
  <1> HIDE DEF q
  <1>2. \A g : Good(q, g, files) = Good(p, g, files)
    BY <1>1, SameWant
  <1> QED
    BY <1>1, <1>2 DEF GroupOK, q

\* A build that keeps what it wants and what it grouped.
LEMMA GroupKept ==
    ASSUME NEW p, NEW q, NEW files, NEW dirs, NEW dirsNext, GroupOK(p, files, dirs),
           q.want = p.want, q.todo = p.todo, q.groups = p.groups, q.pc # "group",
           DirOK(q, q.group, files, dirsNext[q.group])
    PROVE  GroupOK(q, files, dirsNext)
  <1>1. \A g : Good(q, g, files) = Good(p, g, files)
    BY SameWant
  <1> QED
    BY <1>1 DEF GroupOK

LEMMA AloneSubrepo ==
    ASSUME TypeInv, AloneInv, NEW b \in Builds,
           BuildsGroup(b) \/ Subrepo(b) \/ Answers(b) \/ Stops(b)
    PROVE  AloneInv'
  <1> DEFINE p == build[b]
             g == p.group
             d == dir[g]
  <1>0. /\ DOMAIN build = Builds /\ dir \in [Groups -> Dir] /\ cache' = cache /\ part' = part
        /\ cache \in [Slots -> Contents \cup {None}]
    BY DEF TypeInv, TypeOK, Subrepo, BuildsGroup, Answers, Stops, ReadsIdent, WritesIdent, WritesInfo,
           StagesName, CopyOpens, CopyMixes, CopyFills, Prunes, RunsTool, Hashes, WritesSum
  <1>1. p \in Build /\ Placed(p) /\ p # Idle
    BY Running DEF Subrepo, BuildsGroup, Answers, Stops, Fetched, ReadsIdent, WritesIdent, WritesInfo,
           StagesName, CopyOpens, CopyMixes, CopyFills, Prunes, RunsTool, Hashes, WritesSum, TypeInv, TypeOK
  <1>2. p.alone => Sound(p, cache, part, dir)
    BY <1>1, AloneSound
  <1>3. p.alone /\ p.pc \notin Fetching => GroupOK(p, cache, dir)
    BY <1>2 DEF Sound
  <1>4. p.alone /\ p.pc \notin Fetching \cup {"group"} => DirOK(p, g, cache, d) /\ g \in Groups /\ d \in Dir
    BY <1>0, <1>1, <1>3 DEF GroupOK, Placed
  <1>5. \A q : Goto(b, q) /\ (q = Idle \/ (q.alone = p.alone /\ q.pc \notin Fetching
                                          /\ (p.alone => GroupOK(q, cache, dir')))) => AloneInv'
    BY <1>0, <1>1, AloneStep, MovesGoto DEF Sound
  <1>17. \A q : Moves(b, q) /\ (q = Idle \/ (q.alone = p.alone /\ q.pc \notin Fetching
                                           /\ (p.alone => GroupOK(q, cache, dir')))) => AloneInv'
    BY <1>0, <1>1, AloneStep DEF Sound
  <1>6. CASE Answers(b) \/ Stops(b)
    BY <1>5, <1>6 DEF Answers, Stops
  <1>7. CASE BuildsGroup(b)
    <2>1. PICK h \in Groups :
             /\ p.groups[h] # {}
             /\ Goto(b, [p EXCEPT !.pc = "ident", !.group = h,
                                  !.left = p.groups[h], !.groups[h] = {}])
      BY <1>7 DEF BuildsGroup
    <2>2. (p.pc = "fetch" /\ p.todo = {}) \/ p.pc = "group"
      BY <1>7 DEF BuildsGroup, Fetched, At
    <2> DEFINE rest == [p.groups EXCEPT ![h] = {}]
               q == [p EXCEPT !.pc = "ident", !.group = h, !.left = p.groups[h], !.groups = rest]
    <2>3. p.alone => /\ p.todo = {} /\ p.names = {}
                     /\ \A s \in Slots : cache[s] = p.want[s] => p.want[s] \notin Junk
                     /\ \A k \in Groups : p.groups[k] = {} \/ p.groups[k] = Good(p, k, cache)
      <3>1. CASE p.pc = "group"
        BY <1>3, <3>1 DEF GroupOK, Fetching
      <3>2. CASE p.pc = "fetch" /\ p.todo = {}
        BY <1>2, <3>2, NullAssumption DEF Sound, FetchOK, Fetching, Good
      <3> QED
        BY <2>2, <3>1, <3>2
    <2>4. Goto(b, q)
      BY <1>1, <2>1 DEF Build
    <2>5. rest[h] = {} /\ \A k \in Groups \ {h} : rest[k] = p.groups[k]
      BY <1>1 DEF Build
    <2> HIDE DEF rest
    <2>6. /\ q.want = p.want /\ q.todo = p.todo /\ q.groups = rest /\ q.names = p.names
          /\ q.alone = p.alone /\ q.pc = "ident" /\ q.group = h /\ q.left = p.groups[h]
      BY <1>1 DEF Build
    <2> HIDE DEF q
    <2>7. \A k : Good(q, k, cache) = Good(p, k, cache)
      BY <2>6, SameWant
    <2>8. p.alone => DirOK(q, h, cache, dir'[h])
      BY <2>1, <2>3, <2>6, <2>7 DEF DirOK
    <2>9. p.alone => GroupOK(q, cache, dir')
      BY <2>3, <2>5, <2>6, <2>7, <2>8 DEF GroupOK
    <2> QED
      BY <1>5, <2>4, <2>6, <2>9 DEF Fetching
  <1>8. CASE ReadsIdent(b)
    <2>1. p.pc = "ident" /\ dir' = dir
      BY <1>8, Running DEF ReadsIdent
    <2>2a. PICK pc \in {"newident", "info"} : \E id : Goto(b, [p EXCEPT !.ident = id, !.pc = pc])
      BY <1>8 DEF ReadsIdent
    <2>2. PICK id : Goto(b, [p EXCEPT !.ident = id, !.pc = pc])
      BY <2>2a
    <2> DEFINE q == [p EXCEPT !.ident = id, !.pc = pc]
    <2>3. /\ q.want = p.want /\ q.todo = p.todo /\ q.groups = p.groups /\ q.names = p.names
          /\ q.alone = p.alone /\ q.pc = pc /\ q.group = g /\ q.left = p.left
      BY <1>1 DEF Build
    <2>4. Goto(b, q)
      BY <2>2
    <2> HIDE DEF q
    <2>5. p.alone => DirOK(q, g, cache, dir'[g])
      BY <1>4, <2>1, <2>3, SameWant DEF DirOK, Fetching
    <2>6. p.alone => GroupOK(q, cache, dir')
      <3>1. p.pc \notin Fetching /\ q.pc # "group"
        BY <2>1, <2>3 DEF Fetching
      <3> QED
        BY <1>3, <2>3, <2>5, <3>1, GroupKept
    <2> QED
      BY <1>5, <2>3, <2>4, <2>6 DEF Fetching
  <1>9. CASE WritesIdent(b)
    <2>1. p.pc = "newident" /\ dir' = [dir EXCEPT ![g].ident = p.ident]
      BY <1>9, Running DEF WritesIdent
    <2> DEFINE q == [p EXCEPT !.pc = "info"]
    <2>3. /\ q.want = p.want /\ q.todo = p.todo /\ q.groups = p.groups /\ q.names = p.names
          /\ q.alone = p.alone /\ q.pc = "info" /\ q.group = g /\ q.left = p.left
      BY <1>1 DEF Build
    <2>4. Goto(b, q)
      BY <1>9 DEF WritesIdent
    <2> HIDE DEF q
    <2>5. p.alone => DirOK(q, g, cache, dir'[g])
      BY <1>4, <2>1, <2>3, SameWant DEF DirOK, Fetching
    <2>6. p.alone => GroupOK(q, cache, dir')
      <3>1. p.pc \notin Fetching /\ q.pc # "group"
        BY <2>1, <2>3 DEF Fetching
      <3> QED
        BY <1>3, <2>3, <2>5, <3>1, GroupKept
    <2> QED
      BY <1>5, <2>3, <2>4, <2>6 DEF Fetching
  <1>10. CASE WritesInfo(b)
    <2>1. p.pc = "info"
      BY <1>10, Running DEF WritesInfo
    <2> DEFINE q == [p EXCEPT !.pc = "stage", !.ident = None]
    <2>3. /\ q.want = p.want /\ q.todo = p.todo /\ q.groups = p.groups /\ q.names = p.names
          /\ q.alone = p.alone /\ q.pc = "stage" /\ q.group = g /\ q.left = p.left
      BY <1>1 DEF Build
    <2>4. Goto(b, q)
      BY <1>10 DEF WritesInfo
    <2> HIDE DEF q
    <2>5. p.alone => DirOK(q, g, cache, dir'[g])
      BY <1>4, <2>1, <2>3, SameWant DEF DirOK, Fetching
    <2>6. p.alone => GroupOK(q, cache, dir')
      <3>1. p.pc \notin Fetching /\ q.pc # "group"
        BY <2>1, <2>3 DEF Fetching
      <3> QED
        BY <1>3, <2>3, <2>5, <3>1, GroupKept
    <2> QED
      BY <1>5, <2>3, <2>4, <2>6 DEF Fetching
  <1>11. CASE StagesName(b)
    <2>1. p.pc = "stage" /\ dir' = dir
      BY <1>11, Running DEF StagesName
    <2>2. PICK s \in p.left :
            \/ Goto(b, Idle) \/ Goto(b, ToGroup(p))
            \/ Goto(b, [p EXCEPT !.pc = "copy", !.slot = s, !.left = @ \ {s},
                                 !.name = File[cache[s]], !.names = @ \cup {File[cache[s]]}])
      BY <1>11 DEF StagesName, Abort
    <2> DEFINE n == File[cache[s]]
               q == [p EXCEPT !.pc = "copy", !.slot = s, !.left = @ \ {s}, !.name = n,
                              !.names = @ \cup {n}]
    <2>3. /\ q.want = p.want /\ q.todo = p.todo /\ q.groups = p.groups /\ q.names = p.names \cup {n}
          /\ q.alone = p.alone /\ q.pc = "copy" /\ q.group = g /\ q.left = p.left \ {s}
          /\ q.slot = s /\ q.name = n
      BY <1>1 DEF Build
    <2>4. p.alone => s \in Good(p, g, cache) /\ n = File[p.want[s]]
      BY <1>4, <2>1 DEF DirOK, Good, Fetching
    <2>5. \/ Goto(b, Idle) \/ Goto(b, ToGroup(p)) \/ Goto(b, q)
      BY <2>2
    <2> HIDE DEF n, q
    <2>6. p.alone => DirOK(q, g, cache, d)
      <3> SUFFICES ASSUME p.alone PROVE DirOK(q, g, cache, d)
        OBVIOUS
      <3>1. DirOK(p, g, cache, d)
        BY <1>4, <2>1 DEF Fetching
      <3>2. Good(q, g, cache) = Good(p, g, cache) /\ Wanted(q, g, cache) = Wanted(p, g, cache)
        BY <2>3, SameWant
      <3>3. q.left \subseteq Good(p, g, cache)
            /\ \A t \in Good(p, g, cache) : t \in q.left \/ File[p.want[t]] \in q.names
        BY <2>1, <2>3, <2>4, <3>1 DEF DirOK
      <3>4. \A f \in q.names : f = q.name \/ d.packages[f] \in Wanted(p, g, cache)
        BY <2>1, <2>3, <3>1 DEF DirOK
      <3> QED
        BY <2>3, <2>4, <3>2, <3>3, <3>4 DEF DirOK
    <2>7. p.alone => GroupOK(q, cache, dir')
      BY <1>3, <2>1, <2>3, <2>6, GroupKept DEF Fetching
    <2>8. p.alone => GroupOK(ToGroup(p), cache, dir')
      BY <1>1, <1>3, <2>1, ToGroupSound DEF Fetching
    <2>9. ToGroup(p).alone = p.alone /\ ToGroup(p).pc = "group"
      BY <1>1 DEF ToGroup, Build
    <2> QED
      BY <1>5, <2>3, <2>5, <2>7, <2>8, <2>9 DEF Fetching
  <1>12. CASE CopyOpens(b)
    <2>1. p.pc = "copy" /\ dir' = [dir EXCEPT ![g].packages[p.name] = Torn]
      BY <1>12, Running DEF CopyOpens
    <2> DEFINE with == {c \in Builds \ {b} : /\ At(c, "fill") /\ build[c].group = g
                                             /\ build[c].name = p.name}
               o == [p EXCEPT !.pc = "fill", !.file = "cache", !.source = cache[p.slot]]
               q == [o EXCEPT !.shared = with # {}]
    <2>2. build' = Sharing(b, o, with) /\ \A c \in with : build[c] # Idle
      BY <1>12 DEF CopyOpens, At
    <2>3. /\ q.want = p.want /\ q.todo = p.todo /\ q.groups = p.groups /\ q.names = p.names
          /\ q.alone = p.alone /\ q.pc = "fill" /\ q.group = g /\ q.left = p.left
          /\ q.slot = p.slot /\ q.name = p.name /\ q.source = cache[p.slot]
          /\ q.shared = (with # {})
      BY <1>1 DEF Build
    <2>4. p.alone => with = {}
      BY <1>1, <2>2, AloneSound
    <2> HIDE DEF o, with
    <2>5. Moves(b, q)
      BY <2>2, MovesSharing
    <2> HIDE DEF q
    <2>6. p.alone => DirOK(q, g, cache, dir'[g])
      <3> SUFFICES ASSUME p.alone PROVE DirOK(q, g, cache, dir'[g])
        OBVIOUS
      <3>1. DirOK(p, g, cache, d) /\ g \in Groups /\ d \in Dir
        BY <1>4, <2>1 DEF Fetching
      <3>2. p.names \subseteq Files
        BY <1>1 DEF Build
      <3>3. \A f \in Files \ {p.name} : dir'[g].packages[f] = d.packages[f]
        BY <1>0, <2>1, <3>1 DEF Dir
      <3>4. Good(q, g, cache) = Good(p, g, cache) /\ Wanted(q, g, cache) = Wanted(p, g, cache)
        BY <2>3, SameWant
      <3>5. /\ p.slot \in Good(p, g, cache) /\ p.name = File[p.want[p.slot]]
            /\ cache[p.slot] = p.want[p.slot]
        BY <2>1, <3>1 DEF DirOK, Good
      <3>6. \A f \in p.names : f = p.name \/ dir'[g].packages[f] \in Wanted(p, g, cache)
        BY <2>1, <3>1, <3>2, <3>3 DEF DirOK
      <3>7. /\ p.left \subseteq Good(p, g, cache)
            /\ \A s \in Good(p, g, cache) : s \in p.left \/ File[p.want[s]] \in p.names
        BY <2>1, <3>1 DEF DirOK
      <3> QED
        BY <2>3, <2>4, <3>4, <3>5, <3>6, <3>7 DEF DirOK
    <2>7. p.alone => GroupOK(q, cache, dir')
      <3>1. p.pc \notin Fetching /\ q.pc # "group"
        BY <2>1, <2>3 DEF Fetching
      <3> QED
        BY <1>3, <2>3, <2>6, <3>1, GroupKept
    <2> QED
      BY <1>17, <2>3, <2>5, <2>7 DEF Fetching
  <1>18. CASE CopyMixes(b)
    <2>1. p.pc = "fill" /\ p.shared /\ build' = build
      BY <1>18, Running DEF CopyMixes
    <2>2. ~ p.alone
      BY <1>4, <2>1 DEF DirOK, Fetching
    <2>3. Moves(b, p)
      BY <1>0, <2>1 DEF Moves
    <2> QED
      BY <1>17, <2>1, <2>2, <2>3 DEF Fetching
  <1>19. CASE CopyFills(b)
    <2>1. p.pc = "fill" /\ (Fills(b, p.source) \/ (p.shared /\ Fills(b, Torn)))
      BY <1>19, Running DEF CopyFills
    <2> DEFINE q == [p EXCEPT !.pc = "stage", !.slot = None, !.name = None, !.file = "none",
                              !.source = None, !.shared = FALSE]
    <2>3. /\ q.want = p.want /\ q.todo = p.todo /\ q.groups = p.groups /\ q.names = p.names
          /\ q.alone = p.alone /\ q.pc = "stage" /\ q.group = g /\ q.left = p.left
      BY <1>1 DEF Build
    <2>4. Goto(b, q)
      BY <1>19 DEF CopyFills
    <2> HIDE DEF q
    <2>5. p.alone => DirOK(q, g, cache, dir'[g])
      <3> SUFFICES ASSUME p.alone PROVE DirOK(q, g, cache, dir'[g])
        OBVIOUS
      <3>1. DirOK(p, g, cache, d) /\ g \in Groups /\ d \in Dir
        BY <1>4, <2>1 DEF Fetching
      <3>2. /\ p.names \subseteq Files /\ p.slot \in Good(p, g, cache)
            /\ p.name = File[p.want[p.slot]] /\ p.source = p.want[p.slot] /\ ~ p.shared
        BY <1>1, <2>1, <3>1 DEF DirOK, Build
      <3>3. p.name \in Files /\ p.source \in Wanted(p, g, cache)
        BY <3>2, PackageAssumption DEF Good, Wanted
      <3>4. dir' = [dir EXCEPT ![g].packages[p.name] = p.source]
        BY <2>1, <3>2, <3>3, NullAssumption DEF Fills
      <3>5. \A f \in Files : dir'[g].packages[f] = IF f = p.name THEN p.source ELSE d.packages[f]
        BY <1>0, <3>1, <3>4 DEF Dir
      <3>6. \A f \in p.names : dir'[g].packages[f] \in Wanted(p, g, cache)
        BY <2>1, <3>1, <3>2, <3>3, <3>5 DEF DirOK
      <3>7. Good(q, g, cache) = Good(p, g, cache) /\ Wanted(q, g, cache) = Wanted(p, g, cache)
        BY <2>3, SameWant
      <3>8. /\ p.left \subseteq Good(p, g, cache)
            /\ \A s \in Good(p, g, cache) : s \in p.left \/ File[p.want[s]] \in p.names
        BY <2>1, <3>1 DEF DirOK
      <3> QED
        BY <2>3, <3>6, <3>7, <3>8 DEF DirOK
    <2>6. p.alone => GroupOK(q, cache, dir')
      <3>1. p.pc \notin Fetching /\ q.pc # "group"
        BY <2>1, <2>3 DEF Fetching
      <3> QED
        BY <1>3, <2>3, <2>5, <3>1, GroupKept
    <2> QED
      BY <1>5, <2>3, <2>4, <2>6 DEF Fetching
  <1>13. CASE Prunes(b)
    <2>1. p.pc = "stage" /\ p.left = {}
      BY <1>13, Running DEF Prunes
    <2> DEFINE stale == Stale(d.packages, p.names)
               q == [p EXCEPT !.pc = "tool"]
    <2>2. PICK gone \in SUBSET stale, r \in {Idle, q} :
            /\ r = Idle \/ gone = stale
            /\ dir' = [dir EXCEPT ![g].packages =
                                    [f \in Files |-> IF f \in gone THEN None ELSE @[f]]]
            /\ build' = [c \in Builds |->
                           IF c = b THEN r
                           ELSE IF At(c, "fill") /\ build[c].group = g /\ build[c].name \in gone
                                THEN [build[c] EXCEPT !.name = None] ELSE build[c]]
      BY <1>13 DEF Prunes
    <2>3. /\ q.want = p.want /\ q.todo = p.todo /\ q.groups = p.groups /\ q.names = p.names
          /\ q.alone = p.alone /\ q.pc = "tool" /\ q.group = g
      BY <1>1 DEF Build
    <2> HIDE DEF q
    <2>4. Moves(b, r)
      BY <2>2 DEF Moves, Disturbed, At
    <2>5. p.alone /\ gone = stale => DirOK(q, g, cache, dir'[g])
      <3> SUFFICES ASSUME p.alone, gone = stale PROVE DirOK(q, g, cache, dir'[g])
        OBVIOUS
      <3>1. DirOK(p, g, cache, d) /\ g \in Groups /\ d \in Dir
        BY <1>4, <2>1 DEF Fetching
      <3>2. p.names \subseteq Files
        BY <1>1 DEF Build
      <3>3. \A f \in Files : dir'[g].packages[f] = IF f \in p.names THEN d.packages[f] ELSE None
        BY <1>0, <2>2, <3>1 DEF Dir, Stale
      <3> QED
        BY <2>1, <2>3, <3>1, <3>2, <3>3, SameWant DEF DirOK
    <2>6. p.alone /\ gone = stale => GroupOK(q, cache, dir')
      <3>1. p.pc \notin Fetching /\ q.pc # "group"
        BY <2>1, <2>3 DEF Fetching
      <3> QED
        BY <1>3, <2>3, <2>5, <3>1, GroupKept
    <2> QED
      BY <1>17, <2>2, <2>3, <2>4, <2>6 DEF Fetching
  <1>14. CASE RunsTool(b)
    <2>1. p.pc = "tool"
      BY <1>14, Running DEF RunsTool
    <2> DEFINE q == [p EXCEPT !.pc = "hash", !.names = {}]
               staged == {d.packages[f] : f \in p.names}
    <2>3. /\ q.want = p.want /\ q.todo = p.todo /\ q.groups = p.groups
          /\ q.alone = p.alone /\ q.pc = "hash" /\ q.group = g
      BY <1>1 DEF Build
    <2>4. \/ Goto(b, q) /\ dir' = [dir EXCEPT ![g].catalog = staged]
          \/ Goto(b, ToGroup(p))
      BY <1>14 DEF RunsTool
    <2> HIDE DEF q
    <2>5. p.alone /\ dir' = [dir EXCEPT ![g].catalog = staged] => DirOK(q, g, cache, dir'[g])
      <3> SUFFICES ASSUME p.alone, dir' = [dir EXCEPT ![g].catalog = staged]
                   PROVE  DirOK(q, g, cache, dir'[g])
        OBVIOUS
      <3>1. DirOK(p, g, cache, d) /\ g \in Groups /\ d \in Dir
        BY <1>4, <2>1 DEF Fetching
      <3>2. p.names \subseteq Files
        BY <1>1 DEF Build
      <3>3. dir'[g].packages = d.packages /\ dir'[g].catalog = staged
        BY <1>0, <3>1 DEF Dir
      <3>4. None \notin Wanted(p, g, cache)
        BY NullAssumption DEF Wanted, Good, Contents
      <3>5. /\ \A f \in p.names : d.packages[f] \in Wanted(p, g, cache)
            /\ \A f \in Files \ p.names : d.packages[f] = None
            /\ \A s \in Good(p, g, cache) : File[p.want[s]] \in p.names
        BY <2>1, <3>1 DEF DirOK
      <3>6. staged = {d.packages[f] : f \in Files} \ {None}
        BY <3>2, <3>4, <3>5
      <3>7. Published(p, g, cache, dir'[g])
        <4>1. \A f \in Files : d.packages[f] \in Wanted(p, g, cache) \cup {None}
          BY <3>5
        <4>2. \A s \in Good(p, g, cache) : d.packages[File[p.want[s]]] # None
          BY <3>4, <3>5
        <4> QED
          BY ONLY <3>3, <3>6, <4>1, <4>2, PublishedWhen
      <3>8. Published(q, g, cache, dir'[g])
        BY ONLY <2>3, <3>7, PublishedKept
      <3> QED
        BY <2>3, <3>8 DEF DirOK
    <2>6. p.alone /\ dir' = [dir EXCEPT ![g].catalog = staged] => GroupOK(q, cache, dir')
      <3>1. p.pc \notin Fetching /\ q.pc # "group"
        BY <2>1, <2>3 DEF Fetching
      <3> QED
        BY <1>3, <2>3, <2>5, <3>1, GroupKept
    <2>7. p.alone => GroupOK(ToGroup(p), cache, dir')
      BY <1>1, <1>3, <2>1, ToGroupSound DEF Fetching
    <2>8. ToGroup(p).alone = p.alone /\ ToGroup(p).pc = "group"
      BY <1>1 DEF ToGroup, Build
    <2> QED
      BY <1>5, <2>3, <2>4, <2>6, <2>7, <2>8 DEF Fetching
  <1>15. CASE Hashes(b)
    <2>1. p.pc = "hash" /\ dir' = dir
      BY <1>15, Running DEF Hashes
    <2> DEFINE q == [p EXCEPT !.pc = "sum", !.sum = d.catalog]
    <2>3. /\ q.want = p.want /\ q.todo = p.todo /\ q.groups = p.groups /\ q.sum = d.catalog
          /\ q.alone = p.alone /\ q.pc = "sum" /\ q.group = g
      BY <1>1 DEF Build
    <2>4. Goto(b, q)
      BY <1>15 DEF Hashes
    <2> HIDE DEF q
    <2>5. p.alone => DirOK(q, g, cache, dir'[g])
      <3> SUFFICES ASSUME p.alone PROVE DirOK(q, g, cache, dir'[g])
        OBVIOUS
      <3>1. Published(p, g, cache, d)
        BY <1>4, <2>1 DEF DirOK, Fetching
      <3>2. Published(q, g, cache, d)
        BY ONLY <2>3, <3>1, PublishedKept
      <3>3. dir'[g] = d
        BY <2>1
      <3> QED
        BY <2>3, <3>2, <3>3 DEF DirOK
    <2>6. p.alone => GroupOK(q, cache, dir')
      <3>1. p.pc \notin Fetching /\ q.pc # "group"
        BY <2>1, <2>3 DEF Fetching
      <3> QED
        BY <1>3, <2>3, <2>5, <3>1, GroupKept
    <2> QED
      BY <1>5, <2>3, <2>4, <2>6 DEF Fetching
  <1>16. CASE WritesSum(b)
    <2>1. p.pc = "sum" /\ Goto(b, ToGroup(p))
      BY <1>16, Running DEF WritesSum
    <2>2. p.alone => GroupOK(ToGroup(p), cache, dir')
      BY <1>1, <1>3, <2>1, ToGroupSound DEF Fetching
    <2>3. ToGroup(p).alone = p.alone /\ ToGroup(p).pc = "group"
      BY <1>1 DEF ToGroup, Build
    <2> QED
      BY <1>5, <2>1, <2>2, <2>3 DEF Fetching
  <1> QED
    BY <1>6, <1>7, <1>8, <1>9, <1>10, <1>11, <1>12, <1>13, <1>14, <1>15, <1>16,
       <1>18, <1>19 DEF Subrepo

LEMMA AloneBegin ==
    ASSUME TypeInv, AloneInv, NEW b \in Builds, Begin(b)
    PROVE  AloneInv'
  <1> DEFINE others == {c \in Builds : build[c] # Idle}
             q == [pc |-> "fetch", want |-> pin, todo |-> {s \in Slots : pin[s] # None},
                   slot |-> None, file |-> "none", groups |-> [g \in Groups |-> {}],
                   group |-> None, ident |-> None, left |-> {}, names |-> {}, name |-> None,
                   source |-> None, shared |-> FALSE, sum |-> None, alone |-> others = {}]
  <1>1. /\ build' = [c \in Builds |-> IF c = b THEN q
                                      ELSE IF c \in others THEN [build[c] EXCEPT !.alone = FALSE]
                                      ELSE Idle]
        /\ cache' = cache /\ part' = part /\ dir' = dir
    BY DEF Begin
  <1>2. /\ q.pc = "fetch" /\ q.want = pin /\ q.todo = {s \in Slots : pin[s] # None}
        /\ q.slot = None /\ q.groups = [g \in Groups |-> {}] /\ q.names = {}
        /\ q.alone <=> others = {}
    OBVIOUS
  <1> HIDE DEF q
  <1>3. FetchOK(q, cache, part)
    <2>1. \A s \in Slots : s \in q.todo \/ q.want[s] = None
      BY <1>2
    <2>2. None \notin Hpkgs /\ None \notin Junk
      BY NullAssumption, PackageAssumption DEF Contents
    <2>3. \A g \in Groups : q.groups[g] = {} /\ \A s \in Good(q, g, cache) : s \in q.todo
      BY <1>2, <2>1, <2>2 DEF Good
    <2>4. \A s \in Slots \ (q.todo \cup {q.slot}) : q.want[s] \notin Junk
      BY <2>1, <2>2
    <2> QED
      BY <1>2, <2>3, <2>4 DEF FetchOK
  <1>4. \A c \in Builds \ {b} : c \in others => ~ [build[c] EXCEPT !.alone = FALSE].alone
    BY DEF TypeInv, TypeOK, Build
  <1>6. ASSUME NEW c \in Builds, OneBuild
        PROVE  build'[c].alone
    <2>1. c = b /\ others = {}
      BY <1>6 DEF OneBuild, Begin
    <2> QED
      BY <1>1, <1>2, <2>1
  <1> SUFFICES ASSUME NEW c \in Builds, build'[c] # Idle, build'[c].alone
               PROVE  /\ \A e \in Builds \ {c} : build'[e] = Idle
                      /\ Sound(build'[c], cache', part', dir')
    BY <1>6 DEF AloneInv, OneBuild
  <1>5. c = b
    BY <1>1, <1>4
  <1> QED
    BY <1>1, <1>2, <1>3, <1>5 DEF Sound, Fetching

AloneTypes == TypeInv /\ AloneInv

LEMMA AloneInit == Init => AloneTypes
  BY TypeInit DEF Init, AloneTypes, AloneInv

LEMMA AloneNext == AloneTypes /\ [Next]_vars => AloneTypes'
  <1> SUFFICES ASSUME TypeInv, AloneInv, [Next]_vars PROVE AloneTypes'
    BY DEF AloneTypes
  <1>1. AloneInv'
    <2>1. CASE UNCHANGED vars
      BY <2>1 DEF vars, AloneInv
    <2>2. CASE \E s \in Slots, h \in Hpkgs \cup {None} : Pin(s, h)
      BY <2>2 DEF Pin, AloneInv
    <2>3. CASE \E b \in Builds : Rebuild(b) \/ Stops(b)
      BY <2>3, AloneBegin, AloneFetch, AloneSubrepo DEF Rebuild
    <2> QED
      BY <2>1, <2>2, <2>3 DEF Next
  <1> QED
    BY <1>1, TypeNext DEF AloneTypes

\* A build that runs alone leaves its last step of a group by finishing it.
LEMMA LastStep ==
    ASSUME TypeInv, AloneInv, NEW b \in Builds, At(b, "sum"), build[b].alone,
           [Next]_vars, At(b, "group")'
    PROVE  WritesSum(b)
  <1>1. build[b] \in Build /\ build[b].pc = "sum" /\ build[b] # Idle
    BY Running
  <1>2. build'[b].pc = "group" /\ build'[b] # Idle
    BY DEF At
  <1>3. \A c \in Builds \ {b} : build[c] = Idle
    BY <1>1, AloneSound
  <1>4. ~ UNCHANGED build
    BY <1>1, <1>2
  <1>5. PICK c \in Builds : Rebuild(c) \/ Stops(c)
    BY <1>4 DEF Next, Pin, vars
  <1>6. CASE c = b
    <2>1. ~ Begin(b) /\ ~ Fetch(b) /\ ~ BuildsGroup(b) /\ ~ Answers(b)
      BY <1>1 DEF Begin, Fetch, FetchCached, FetchOpens, FetchRefused, FetchFails, FetchMixes, FetchWrites,
                  FetchVerifies, FetchReplaces, FetchGroups, BuildsGroup, Answers, Fetched, At
    <2>2. ~ Stops(b)
      BY <1>2 DEF Stops, Goto, TypeInv
    <2> QED
      BY <1>1, <1>5, <1>6, <2>1, <2>2 DEF Rebuild, Subrepo, ReadsIdent, WritesIdent, WritesInfo,
         StagesName, CopyOpens, CopyMixes, CopyFills, Prunes, RunsTool, Hashes, At
  <1>7. CASE c # b
    <2>1. build[c] = Idle
      BY <1>3, <1>7
    <2>2. Begin(c)
      BY <1>5, <2>1 DEF Rebuild, Fetch, FetchCached, FetchOpens, FetchRefused, FetchFails, FetchMixes, FetchWrites,
         FetchVerifies, FetchReplaces, FetchGroups, BuildsGroup, Answers, Fetched, At, Stops, Subrepo,
         ReadsIdent, WritesIdent, WritesInfo, StagesName, CopyOpens, CopyMixes, CopyFills, Prunes, RunsTool, Hashes, WritesSum
    <2>3. build'[b] = [build[b] EXCEPT !.alone = FALSE]
      BY <1>1, <1>7, <2>2 DEF Begin
    <2> QED
      BY <1>1, <1>2, <2>3 DEF Build
  <1> QED
    BY <1>6, <1>7

\* The step of GroupPublished, for one build.
LEMMA GroupFinished ==
    ASSUME TypeInv, AloneInv, NEW b \in Builds, At(b, "sum"), build[b].alone, WritesSum(b)
    PROVE  Repaired(b)
  <1> DEFINE p == build[b]
             g == p.group
             d == dir[g]
             e == dir'[g]
             served == {e.packages[f] : f \in Files} \ {None}
             fetched == {p.want[s] : s \in {t \in Slots : cache[t] = p.want[t]}}
  <1>1. p \in Build /\ Placed(p) /\ p.pc = "sum"
    BY Running
  <1>2. g \in Groups /\ dir \in [Groups -> Dir] /\ d \in Dir
    BY <1>1 DEF Placed, Fetching, TypeInv, TypeOK
  <1>3. GroupOK(p, cache, dir)
    BY <1>1, AloneSound DEF Sound, At, Fetching
  <1>4. Published(p, g, cache, d) /\ p.sum = d.catalog
    BY <1>1, <1>3 DEF GroupOK, DirOK
  <1>5. e.packages = d.packages /\ e.catalog = d.catalog /\ e.sum = d.catalog
    BY <1>2, <1>4 DEF WritesSum, Dir
  <1>6. \A h \in served : \E s \in Good(p, g, cache) : h = p.want[s]
    <2>1. \A f \in Files : e.packages[f] \in Wanted(p, g, cache) \cup {None}
      BY <1>4, <1>5 DEF Published
    <2> QED
      BY ONLY <2>1 DEF Wanted
  <1>7. \A s \in Good(p, g, cache) : /\ p.want[s] \in fetched /\ p.want[s] # None
                                    /\ Group[p.want[s]] = g
    BY NullAssumption DEF Good, Contents
  <1>8. ASSUME NEW h \in fetched \ ({None} \cup Bare), Group[h] = g
        PROVE  e.packages[File[h]] # None
    <2>1. PICK s \in Slots : cache[s] = p.want[s] /\ h = p.want[s]
      OBVIOUS
    <2>2. h \in Hpkgs \ Junk
      BY <1>1, <1>3, <2>1 DEF GroupOK, Build, Pins
    <2>3. s \in Good(p, g, cache)
      BY <1>8, <2>1, <2>2 DEF Good
    <2> QED
      BY <1>4, <1>5, <2>1, <2>3 DEF Published
  <1>9. e.catalog = served
    BY <1>4, <1>5 DEF Published
  <1>10. served \subseteq {h \in fetched \ {None} : Group[h] = g}
    BY <1>6, <1>7
  <1> QED
    BY <1>5, <1>8, <1>9, <1>10 DEF Repaired

\* Whatever crashed or overlapping builds have left in the cache, its partial
\* files and the directory, a build that ran alone leaves a group with exactly
\* the packages it pins of it, and a catalog and a checksum of them
\* (_rebuild_all_repos, build_subrepo).
THEOREM GroupsRepaired == Spec => GroupPublished
  <1>1. AloneTypes /\ [Next]_vars =>
          \A b \in Builds : At(b, "sum") /\ build[b].alone /\ At(b, "group")' => Repaired(b)
    BY LastStep, GroupFinished DEF AloneTypes
  <1> QED
    BY <1>1, AloneInit, AloneNext, PTL DEF Spec, GroupPublished

-----------------------------------------------------------------------------
(* Builds that never overlap.                                              *)

\* The packages of a directory change by copying and pruning.
LEMMA PackagesStep ==
    ASSUME TypeInv, [Next]_vars, NEW g \in Groups, NEW f \in Files
    PROVE  LET now == dir'[g].packages[f]
           IN  \/ now \in {None, dir[g].packages[f]}
               \/ now = Torn /\ \E b \in Builds : CopyOpens(b)
               \/ \E b \in Builds : At(b, "fill") /\ (now = build[b].source \/ build[b].shared)
  <1> DEFINE now == dir'[g].packages[f]
             Goal == \/ now \in {None, dir[g].packages[f]}
                     \/ now = Torn /\ \E b \in Builds : CopyOpens(b)
                     \/ \E b \in Builds : /\ At(b, "fill")
                                          /\ now = build[b].source \/ build[b].shared
  <1>0. dir \in [Groups -> Dir]
    BY DEF TypeInv, TypeOK
  <1>1. CASE UNCHANGED dir
    BY <1>1
  <1>2. CASE dir' # dir
    <2>1. PICK b \in Builds : Subrepo(b) \/ Stops(b)
      BY <1>2 DEF Next, vars, Pin, Rebuild, Begin, Fetch, FetchCached, FetchOpens, FetchRefused,
         FetchFails, FetchMixes, FetchWrites, FetchVerifies, FetchReplaces, FetchGroups,
         BuildsGroup, Answers
    <2> DEFINE h == build[b].group
    <2>2. CASE WritesIdent(b) \/ WritesInfo(b) \/ RunsTool(b) \/ WritesSum(b) \/ Stops(b)
      <3>1. CASE WritesIdent(b)
        BY <1>0, <3>1 DEF WritesIdent, Dir
      <3>2. CASE WritesInfo(b)
        BY <1>0, <3>2 DEF WritesInfo, Dir
      <3>3. CASE RunsTool(b)
        <4>1. PICK c : dir' = [dir EXCEPT ![h].catalog = c]
          BY <1>2, <3>3 DEF RunsTool
        <4> QED
          BY <1>0, <4>1 DEF Dir
      <3>4. CASE WritesSum(b)
        BY <1>0, <3>4 DEF WritesSum, Dir
      <3>5. CASE Stops(b)
        BY <1>0, <1>2, <3>5 DEF Stops, Dir
      <3> QED
        BY <2>2, <3>1, <3>2, <3>3, <3>4, <3>5
    <2>3. CASE CopyOpens(b)
      <3>1. dir' = [dir EXCEPT ![h].packages[build[b].name] = Torn]
        BY <2>3 DEF CopyOpens
      <3>2. now \in {Torn, dir[g].packages[f]}
        BY <1>0, <3>1 DEF Dir
      <3> QED
        BY <2>3, <3>2
    <2>4. CASE CopyMixes(b) \/ CopyFills(b)
      <3>1. \/ build[b].shared
            \/ dir' = [dir EXCEPT ![h].packages[build[b].name] = build[b].source]
        BY <1>2, <2>4 DEF CopyMixes, CopyFills, Fills
      <3>2. At(b, "fill")
        BY <2>4 DEF CopyMixes, CopyFills
      <3>3. CASE build[b].shared
        BY <3>2, <3>3
      <3>4. CASE dir' = [dir EXCEPT ![h].packages[build[b].name] = build[b].source]
        <4>1. now \in {build[b].source, dir[g].packages[f]}
          BY <1>0, <3>4 DEF Dir
        <4> QED
          BY <3>2, <4>1
      <3> QED
        BY <3>1, <3>3, <3>4
    <2>5. CASE Prunes(b)
      <3>1. PICK gone : dir' = [dir EXCEPT ![h].packages =
                                            [e \in Files |-> IF e \in gone THEN None ELSE @[e]]]
        BY <2>5 DEF Prunes
      <3>2. now \in {None, dir[g].packages[f]}
        BY <1>0, <3>1 DEF Dir
      <3> QED
        BY <3>2
    <2>6. CASE ReadsIdent(b) \/ StagesName(b) \/ Hashes(b)
      BY <1>2, <2>6 DEF ReadsIdent, StagesName, Hashes
    <2> QED
      BY <2>1, <2>2, <2>3, <2>4, <2>5, <2>6 DEF Subrepo
  <1> QED
    BY <1>1, <1>2

\* As long as builds do not overlap, whatever the servers send and wherever a build
\* stops, in the middle of a copy too, a file under packages/ that is not being copied,
\* and was not when a build stopped, is one its catalog pins (fetch_verified,
\* build_subrepo).
THEOREM OnlyPinnedStaged ==
    ASSUME OneBuild
    PROVE  Spec => StagedAsPinned
  <1>1. AloneTypes /\ [Next]_vars =>
          \A g \in Groups, f \in Files :
            LET now == dir'[g].packages[f]
            IN  \/ now \in {None, dir[g].packages[f]}
                \/ now = Torn /\ \E b \in Builds : At(b, "copy") /\ At(b, "fill")'
                \/ \E b \in Builds, s \in Slots : At(b, "fill") /\ now = build[b].want[s]
    <2> SUFFICES ASSUME AloneTypes, [Next]_vars, NEW g \in Groups, NEW f \in Files
                 PROVE  LET now == dir'[g].packages[f]
                        IN  \/ now \in {None, dir[g].packages[f]}
                            \/ now = Torn /\ \E b \in Builds : At(b, "copy") /\ At(b, "fill")'
                            \/ \E b \in Builds, s \in Slots : At(b, "fill") /\ now = build[b].want[s]
      OBVIOUS
    <2> DEFINE now == dir'[g].packages[f]
    <2>1. TypeInv /\ AloneInv
      BY DEF AloneTypes
    <2>2. ASSUME NEW b \in Builds, CopyOpens(b)
          PROVE  At(b, "copy") /\ At(b, "fill")'
      <3>1. build[b] \in Build /\ At(b, "copy")
        BY <2>1, <2>2, Running DEF CopyOpens
      <3>2. build'[b] # Idle /\ build'[b].pc = "fill"
        <4> DEFINE o == [build[b] EXCEPT !.pc = "fill", !.file = "cache",
                                        !.source = cache[build[b].slot]]
        <4>1. PICK with : build'[b] = [o EXCEPT !.shared = with # {}]
          BY <2>2 DEF CopyOpens, Sharing
        <4>2. build'[b].pc = "fill"
          BY <3>1, <4>1 DEF Build
        <4>3. build'[b] \in Build
          <5>1. build[b].slot \in Slots /\ cache[build[b].slot] \in Contents
            BY <2>1, <2>2, Running DEF CopyOpens, Placed, Held, TypeInv, TypeOK
          <5>2. (with # {}) \in BOOLEAN
            OBVIOUS
          <5> QED
            BY <3>1, <4>1, <5>1, <5>2 DEF Build
        <4> QED
          BY <4>2, <4>3, NullAssumption
      <3> QED
        BY <3>1, <3>2 DEF At
    <2>3. ASSUME NEW b \in Builds, At(b, "fill"), now = build[b].source \/ build[b].shared
          PROVE  \E s \in Slots : now = build[b].want[s]
      <3> DEFINE p == build[b]
      <3>1. p.alone /\ p # Idle /\ p.pc = "fill"
        BY <2>1, <2>3 DEF AloneInv, At
      <3>2. DirOK(p, p.group, cache, dir[p.group])
        BY <2>1, <3>1, AloneSound DEF Sound, GroupOK, Fetching
      <3>3. p.slot \in Slots /\ p.source = p.want[p.slot] /\ ~ p.shared
        BY <3>1, <3>2 DEF DirOK, Good
      <3> QED
        BY <2>3, <3>3
    <2>4. \/ now \in {None, dir[g].packages[f]}
          \/ now = Torn /\ \E b \in Builds : CopyOpens(b)
          \/ \E b \in Builds : At(b, "fill") /\ (now = build[b].source \/ build[b].shared)
      BY <2>1, PackagesStep
    <2> QED
      BY <2>2, <2>3, <2>4
  <1> QED
    BY <1>1, AloneInit, AloneNext, PTL DEF Spec, StagedAsPinned

\* What repo.info says is the identifier beside it, and what a build is about to
\* say; a build makes an identifier only where there is none.
IdentInv ==
    /\ \A g \in Groups : dir[g].info # None => dir[g].info = dir[g].ident
    /\ \A b \in Builds : At(b, "newident") => dir[build[b].group].ident = None
    /\ \A b \in Builds : At(b, "info") => dir[build[b].group].ident = build[b].ident

\* Where a build is after a step of the copy or the pruning.
LEMMA CopyPc ==
    ASSUME TypeInv, NEW b \in Builds, CopyOpens(b) \/ CopyMixes(b) \/ CopyFills(b) \/ Prunes(b)
    PROVE  build'[b] = Idle \/ build'[b].pc \in {"fill", "stage", "tool"}
  <1> DEFINE p == build[b]
  <1>1. p \in Build /\ DOMAIN build = Builds
    BY Running DEF CopyOpens, CopyMixes, CopyFills, Prunes, TypeInv
  <1>2. CASE CopyOpens(b)
    <2>1. PICK flag : build'[b] = [[p EXCEPT !.pc = "fill", !.file = "cache",
                                             !.source = cache[p.slot]] EXCEPT !.shared = flag]
      BY <1>2 DEF CopyOpens, Sharing
    <2> QED
      BY <1>1, <2>1 DEF Build
  <1>3. CASE CopyMixes(b)
    BY <1>3 DEF CopyMixes, At
  <1>4. CASE CopyFills(b)
    BY <1>1, <1>4 DEF CopyFills, Goto, Build
  <1>5. CASE Prunes(b)
    <2>1. build'[b] \in {Idle, [p EXCEPT !.pc = "tool"]}
      BY <1>5 DEF Prunes
    <2> QED
      BY <1>1, <2>1 DEF Build
  <1> QED
    BY <1>2, <1>3, <1>4, <1>5

\* Only the first steps of a group touch the identity.
LEMMA IdentUntouched ==
    ASSUME TypeInv, NEW b \in Builds, Rebuild(b),
           ~ ReadsIdent(b), ~ WritesIdent(b), ~ WritesInfo(b)
    PROVE  /\ \A g \in Groups : dir'[g].ident = dir[g].ident /\ dir'[g].info = dir[g].info
           /\ ~ At(b, "newident")' /\ ~ At(b, "info")'
  <1> DEFINE p == build[b]
  <1> USE DEF Goto, Abort
  <1>1. DOMAIN build = Builds /\ (p # Idle => p \in Build /\ Placed(p)) /\ dir \in [Groups -> Dir]
    BY DEF TypeInv, TypeOK
  <1>2. CASE UNCHANGED dir
    <2>1. \A g \in Groups : dir'[g].ident = dir[g].ident /\ dir'[g].info = dir[g].info
      BY <1>2
    <2>2. p # Idle => Skipped(p).pc = "fetch" /\ ToGroup(p).pc = "group"
      BY <1>1 DEF Skipped, ToGroup, Build
    <2>3. p # Idle => \A s : /\ Skipped(Chosen(p, s)).pc = "fetch" /\ DOMAIN Chosen(p, s) = DOMAIN p
      BY <1>1 DEF Skipped, Chosen, Build
    <2>4. CASE Begin(b)
      BY <2>1, <2>4 DEF Begin, At
    <2>5. CASE Fetch(b)
      <3>1. p \in Build /\ "pc" \in DOMAIN p
        BY <1>1, <2>5 DEF Fetch, FetchCached, FetchOpens, FetchRefused, FetchFails, FetchMixes, FetchWrites,
           FetchVerifies, FetchReplaces, FetchGroups, At, Build
      <3>2. CASE FetchCached(b) \/ FetchRefused(b)
        BY <1>1, <2>1, <2>3, <3>1, <3>2 DEF FetchCached, FetchRefused, At
      <3>8. CASE FetchOpens(b)
        <4>0. PICK s \in p.todo : \E with :
                build' = Sharing(b, [Chosen(p, s) EXCEPT !.pc = "write", !.file = "part"], with)
          BY <3>8 DEF FetchOpens
        <4>1. PICK flag :
                build'[b] = [[Chosen(p, s) EXCEPT !.pc = "write", !.file = "part"] EXCEPT !.shared = flag]
          BY <4>0 DEF Sharing
        <4>2. build'[b].pc = "write"
          BY <3>1, <4>1 DEF Chosen, Build
        <4> QED
          BY <2>1, <4>2 DEF At
      <3>9. CASE FetchMixes(b)
        BY <1>1, <2>1, <3>1, <3>9 DEF FetchMixes, Writes, At
      <3>3. CASE FetchFails(b)
        BY <1>1, <2>1, <2>2, <2>3, <3>1, <3>3 DEF FetchFails, Unlink, Renamed, At
      <3>4. CASE FetchWrites(b)
        BY <1>1, <2>1, <3>1, <3>4 DEF FetchWrites, Writes, At, Build
      <3>5. CASE FetchVerifies(b)
        BY <1>1, <2>1, <2>2, <3>1, <3>5 DEF FetchVerifies, Unlink, Renamed, At
      <3>6. CASE FetchReplaces(b)
        BY <1>1, <2>1, <3>1, <3>6 DEF FetchReplaces, At
      <3>7. CASE FetchGroups(b)
        <4>1. \A g : [Skipped(p) EXCEPT !.groups[g] = @ \cup {p.slot}].pc = "fetch"
          BY <2>2, <3>1 DEF Skipped, Build
        <4> QED
          BY <1>1, <2>1, <2>2, <3>1, <3>7, <4>1 DEF FetchGroups, At
      <3> QED
        BY <2>5, <3>2, <3>3, <3>4, <3>5, <3>6, <3>7, <3>8, <3>9 DEF Fetch
    <2>6. CASE BuildsGroup(b) \/ Answers(b)
      <3>1. CASE Answers(b)
        BY <1>1, <2>1, <3>1 DEF Answers, Fetched, At
      <3>2. CASE BuildsGroup(b)
        <4>1. build'[b].pc = "ident" /\ p # Idle
          BY <1>1, <3>2 DEF BuildsGroup, Fetched, At, Build
        <4> QED
          BY <2>1, <4>1 DEF At
      <3> QED
        BY <2>6, <3>1, <3>2
    <2>7. CASE Subrepo(b)
      <3>1. p \in Build /\ "pc" \in DOMAIN p
        BY <1>1, <2>7 DEF Subrepo, StagesName, CopyOpens, CopyMixes, CopyFills, Prunes, RunsTool, Hashes, WritesSum, At, Build
      <3>2. CASE StagesName(b)
        <4>1. \/ build'[b] = Idle \/ build'[b] = ToGroup(p)
              \/ \E s : build'[b] = [p EXCEPT !.pc = "copy", !.slot = s, !.left = @ \ {s},
                                !.name = File[cache[s]], !.names = @ \cup {File[cache[s]]}]
          BY <1>1, <3>2 DEF StagesName
        <4>2. build'[b] = Idle \/ build'[b].pc = "group" \/ build'[b].pc = "copy"
          BY <2>2, <3>1, <3>2, <4>1 DEF StagesName, At
        <4> QED
          BY <2>1, <4>2 DEF At
      <3>3. CASE CopyOpens(b) \/ CopyMixes(b) \/ CopyFills(b) \/ Prunes(b)
        BY <2>1, <3>3, CopyPc DEF At
      <3>4. CASE RunsTool(b) \/ Hashes(b) \/ WritesSum(b)
        BY <1>1, <2>1, <2>2, <3>1, <3>4 DEF RunsTool, Hashes, WritesSum, At, Build
      <3> QED
        BY <2>7, <3>2, <3>3, <3>4 DEF Subrepo
    <2> QED
      BY <2>4, <2>5, <2>6, <2>7 DEF Rebuild
  <1>3. CASE dir' # dir
    <2>1. CopyOpens(b) \/ CopyMixes(b) \/ CopyFills(b) \/ Prunes(b) \/ RunsTool(b) \/ WritesSum(b)
      BY <1>3 DEF Rebuild, Subrepo, Begin, Fetch, FetchCached, FetchOpens, FetchRefused, FetchFails,
         FetchMixes, FetchWrites, FetchVerifies, FetchReplaces, FetchGroups, BuildsGroup, Answers,
         StagesName, Hashes
    <2>2. p \in Build /\ p # Idle
      BY <1>1, <2>1 DEF CopyOpens, CopyMixes, CopyFills, Prunes, RunsTool, WritesSum, At
    <2>3. ToGroup(p).pc = "group"
      BY <2>2 DEF ToGroup, Build
    <2>4. \A g \in Groups : dir'[g].ident = dir[g].ident /\ dir'[g].info = dir[g].info
      <3>1. CASE CopyOpens(b) \/ CopyMixes(b) \/ CopyFills(b) \/ Prunes(b)
        <4>1. CASE CopyOpens(b)
          BY <1>1, <4>1 DEF CopyOpens, Dir
        <4>2. CASE CopyMixes(b) \/ CopyFills(b)
          BY <1>1, <1>3, <4>2 DEF CopyMixes, CopyFills, Fills, Dir
        <4>3. CASE Prunes(b)
          <5>1. PICK now : dir' = [dir EXCEPT ![p.group].packages = now]
            BY <4>3 DEF Prunes
          <5> QED
            BY <1>1, <5>1 DEF Dir
        <4> QED
          BY <3>1, <4>1, <4>2, <4>3
      <3>2. CASE RunsTool(b)
        <4>1. PICK now : dir' = [dir EXCEPT ![p.group].catalog = now]
          BY <1>3, <3>2 DEF RunsTool
        <4> QED
          BY <1>1, <4>1 DEF Dir
      <3>3. CASE WritesSum(b)
        BY <1>1, <3>3 DEF WritesSum, Dir
      <3> QED
        BY <2>1, <3>1, <3>2, <3>3
    <2>5. ~ At(b, "newident")' /\ ~ At(b, "info")'
      <3>1. CASE CopyOpens(b) \/ CopyMixes(b) \/ CopyFills(b) \/ Prunes(b)
        BY <3>1, CopyPc DEF At
      <3>3. CASE RunsTool(b)
        BY <1>1, <2>2, <2>3, <3>3 DEF RunsTool, At, Build
      <3>4. CASE WritesSum(b)
        BY <1>1, <2>2, <2>3, <3>4 DEF WritesSum, At, Build
      <3> QED
        BY <2>1, <3>1, <3>3, <3>4
    <2> QED
      BY <2>4, <2>5
  <1> QED
    BY <1>2, <1>3

LEMMA IdentStep ==
    ASSUME OneBuild, TypeInv, IdentInv, [Next]_vars
    PROVE  /\ IdentInv'
           /\ \A g \in Groups : dir[g].ident # None => dir'[g].ident = dir[g].ident
  <1>1. CASE UNCHANGED <<dir, build>>
    BY <1>1 DEF IdentInv, At
  <1>3. ASSUME NEW b \in Builds, Stops(b)
        PROVE  /\ IdentInv'
               /\ \A g \in Groups : dir[g].ident # None => dir'[g].ident = dir[g].ident
    <2> DEFINE g == build[b].group
    <2>1. /\ DOMAIN build = Builds /\ dir \in [Groups -> Dir] /\ \A c \in Builds : c = b
          /\ build'[b] = Idle
      BY <1>3 DEF TypeInv, TypeOK, OneBuild, Stops, Goto
    <2>2. CASE UNCHANGED dir
      BY <2>1, <2>2 DEF IdentInv, At
    <2>3. CASE At(b, "newident") /\ dir' = [dir EXCEPT ![g].ident = None]
      <3>1. dir[g].ident = None
        BY <2>3 DEF IdentInv
      <3>2. \A h \in Groups : dir'[h].ident = dir[h].ident /\ dir'[h].info = dir[h].info
        BY <2>1, <2>3, <3>1 DEF Dir
      <3> QED
        BY <2>1, <3>2 DEF IdentInv, At
    <2>4. CASE dir' = [dir EXCEPT ![g].info = None] \/ dir' = [dir EXCEPT ![g].sum = None]
      <3>1. \A h \in Groups : dir'[h].ident = dir[h].ident /\ dir'[h].info \in {None, dir[h].info}
        BY <2>1, <2>4 DEF Dir
      <3> QED
        BY <2>1, <3>1 DEF IdentInv, At
    <2> QED
      BY <1>3, <2>2, <2>3, <2>4 DEF Stops
  <1>2. ASSUME NEW b \in Builds, Rebuild(b)
        PROVE  /\ IdentInv'
               /\ \A g \in Groups : dir[g].ident # None => dir'[g].ident = dir[g].ident
    <2> DEFINE p == build[b]
               g == p.group
    <2>1. /\ DOMAIN build = Builds /\ (p # Idle => p \in Build /\ Placed(p)) /\ dir \in [Groups -> Dir]
          /\ \A c \in Builds : c = b
      BY DEF TypeInv, TypeOK, OneBuild
    <2> USE DEF Goto
    <2>2. CASE ~ ReadsIdent(b) /\ ~ WritesIdent(b) /\ ~ WritesInfo(b)
      BY <1>2, <2>1, <2>2, IdentUntouched DEF IdentInv
    <2>3. CASE ReadsIdent(b)
      <3>1. p \in Build /\ g \in Groups /\ dir' = dir /\ p.pc = "ident"
        BY <2>1, <2>3 DEF ReadsIdent, At, Placed, Fetching
      <3>2. /\ build'[b].group = g
            /\ build'[b].pc = "newident" => dir[g].ident = None
            /\ build'[b].pc = "info" => build'[b].ident = dir[g].ident
        BY <2>1, <2>3, <3>1 DEF ReadsIdent, Identified, Build
      <3> QED
        BY <2>1, <3>1, <3>2 DEF IdentInv, At
    <2>4. CASE WritesIdent(b)
      <3>1. p \in Build /\ g \in Groups /\ p.pc = "newident" /\ dir[g].ident = None
        BY <2>1, <2>4 DEF WritesIdent, At, Placed, Fetching, IdentInv
      <3>2. /\ build'[b].group = g /\ build'[b].ident = p.ident /\ build'[b].pc = "info"
        BY <2>1, <2>4, <3>1 DEF WritesIdent, Build
      <3>3. /\ dir'[g].ident = p.ident /\ \A h \in Groups : dir'[h].info = dir[h].info
            /\ \A h \in Groups \ {g} : dir'[h].ident = dir[h].ident
        BY <2>1, <2>4, <3>1 DEF WritesIdent, Dir
      <3>4. dir[g].info = None
        BY <3>1 DEF IdentInv
      <3> QED
        BY <2>1, <3>1, <3>2, <3>3, <3>4 DEF IdentInv, At
    <2>5. CASE WritesInfo(b)
      <3>1. p \in Build /\ g \in Groups /\ p.pc = "info" /\ dir[g].ident = p.ident
        BY <2>1, <2>5 DEF WritesInfo, At, Placed, Fetching, IdentInv
      <3>2. build'[b].pc = "stage"
        BY <2>1, <2>5, <3>1 DEF WritesInfo, Build
      <3>3. /\ dir'[g].info = p.ident /\ \A h \in Groups : dir'[h].ident = dir[h].ident
            /\ \A h \in Groups \ {g} : dir'[h].info = dir[h].info
        BY <2>1, <2>5, <3>1 DEF WritesInfo, Dir
      <3> QED
        BY <2>1, <3>1, <3>2, <3>3 DEF IdentInv, At
    <2> QED
      BY <2>2, <2>3, <2>4, <2>5
  <1> QED
    BY <1>1, <1>2, <1>3 DEF Next, vars, Pin

\* As long as builds do not overlap, the identity of a repository is that of its
\* first build, wherever that or a later one stops, and repo.info says that one or,
\* where a stop cut it short, none (stable_identifier, build_subrepo).
THEOREM IdentityKept ==
    ASSUME OneBuild
    PROVE  Spec => IdentifierKept
  <1>1. Init => IdentInv
    BY DEF Init, IdentInv, At, Empty
  <1>2. TypeInv /\ IdentInv /\ [Next]_vars => IdentInv'
    BY IdentStep
  <1>3. TypeInv /\ IdentInv /\ [Next]_vars =>
          \A g \in Groups : /\ dir[g].ident # None => dir'[g].ident = dir[g].ident
                            /\ dir'[g].info \in {None, dir'[g].ident}
    <2> SUFFICES ASSUME TypeInv, IdentInv, [Next]_vars, NEW g \in Groups
                 PROVE  /\ dir[g].ident # None => dir'[g].ident = dir[g].ident
                        /\ dir'[g].info \in {None, dir'[g].ident}
      OBVIOUS
    <2>1. IdentInv' /\ (dir[g].ident # None => dir'[g].ident = dir[g].ident)
      BY IdentStep
    <2> QED
      BY <2>1 DEF IdentInv
  <1> QED
    BY <1>1, <1>2, <1>3, TypeInit, TypeNext, PTL DEF Spec, IdentifierKept

=============================================================================
