----------------------------- MODULE OmbraProofs -----------------------------
(* Theorems about Ombra, for every set of apps, channels, releases, requests. *)
EXTENDS Ombra, TLAPS

\* A request that needs its channel has it, and one that commits what it made.
PlacedReq(q) ==
    /\ q.op = "resolve" /\ q.pc # "load" => q.cfg \in Configs
    /\ q.op = "resolve" /\ q.pc = "commit" => q.new \in Snapshot
    /\ q.op = "crawl" /\ q.pc = "refresh" => q.app \in Apps /\ q.cfg \in Configs
Placed == \A r \in Reqs : req[r] # NoReq => PlacedReq(req[r])

TypeInv == TypeOK /\ Placed

\* A request in flight is of the record type of its operation.
LEMMA RequestTypes ==
    ASSUME TypeOK, NEW r \in Reqs, req[r] # NoReq
    PROVE  /\ req[r].op = "resolve" => req[r] \in Resolve
           /\ req[r].op = "crawl" => req[r] \in Crawl
           /\ req[r].op \in {"resolve", "crawl"}
  BY DEF TypeOK, Request, Resolve, Crawl

\* What GitHub is asked for is a release, with artifacts of the channel or none.
LEMMA FoundType ==
    ASSUME TypeOK, NEW cfg \in Configs, NEW arches \in SUBSET Arches
    PROVE  /\ Found(cfg, arches).version \in Versions
           /\ Found(cfg, arches).artifacts \in Artifacts \cup {None}
           /\ Found(cfg, arches).artifacts # None =>
                /\ Found(cfg, arches).artifacts.cfg = cfg
                /\ Found(cfg, arches).artifacts.version = Found(cfg, arches).version
  BY ShipsAssumption DEF Found, Artifacts, TypeOK

\* A refresh makes a snapshot of the channel it was made for.
LEMMA OutcomeType ==
    ASSUME TypeOK, NEW cfg \in Configs, NEW copy \in Snapshot \cup {None},
           NEW new \in Outcomes(copy, cfg)
    PROVE  new \in Snapshot /\ new.cfg = cfg
  <1>1. Listed[cfg] \in SUBSET Arches
    BY ListedAssumption
  <1>2. Found(cfg, Listed[cfg]).version \in Versions
        /\ Found(cfg, Listed[cfg]).artifacts \in Artifacts \cup {None}
    BY <1>1, FoundType
  <1>3. Old(copy).version \in Versions \cup {None} /\ Old(copy).artifacts \in Artifacts \cup {None}
    BY DEF Old, Blank, Snapshot
  <1>4. Refreshed(copy, cfg, Found(cfg, Listed[cfg])) \in Snapshot
        /\ Refreshed(copy, cfg, Found(cfg, Listed[cfg])).cfg = cfg
    BY <1>2 DEF Refreshed, Snapshot
  <1>5. Failed(copy, cfg) \in Snapshot /\ Failed(copy, cfg).cfg = cfg
    BY <1>3 DEF Failed, Snapshot
  <1> QED
    BY <1>4, <1>5 DEF Outcomes

\* A flush writes a snapshot: column by column what is new, else what was there.
LEMMA WrittenType ==
    ASSUME NEW current \in Snapshot \cup {None}, NEW copy \in Snapshot \cup {None},
           NEW new \in Snapshot, ~ Conflict(copy, current)
    PROVE  /\ Written(current, copy, new) \in Snapshot
           /\ copy = None => Written(current, copy, new) = new
           /\ copy # None => \A c \in {"cfg", "version", "artifacts", "error"} :
                Written(current, copy, new)[c] =
                    IF new[c] # copy[c] THEN new[c] ELSE current[c]
  <1>1. CASE copy = None
    BY <1>1 DEF Written
  <1>2. CASE copy # None
    <2>1. current \in Snapshot
      BY <1>2 DEF Conflict
    <2>2. DOMAIN new = {"cfg", "version", "artifacts", "error", "fresh"}
      BY DEF Snapshot
    <2> DEFINE w == Written(current, copy, new)
    <2>3. w = [c \in {"cfg", "version", "artifacts", "error", "fresh"} |->
                 IF c = "fresh" \/ new[c] # copy[c] THEN new[c] ELSE current[c]]
      BY <1>2, <2>2 DEF Written
    <2>4. /\ w.cfg \in Configs /\ w.version \in Versions \cup {None}
          /\ w.artifacts \in Artifacts \cup {None}
          /\ w.error \in {"clean", "no asset", "failed"} /\ w.fresh \in BOOLEAN
      BY <2>1, <2>3 DEF Snapshot
    <2>5. w = [cfg |-> w.cfg, version |-> w.version, artifacts |-> w.artifacts,
               error |-> w.error, fresh |-> w.fresh]
      BY <2>3
    <2>6. w \in Snapshot
      BY <2>4, <2>5 DEF Snapshot
    <2> QED
      BY <1>2, <2>3, <2>6
  <1> QED
    BY <1>1, <1>2

-----------------------------------------------------------------------------
\* A step of one request, with tables of the right types.
LEMMA RequestStep ==
    ASSUME TypeInv, NEW r \in Reqs, NEW q \in Request \cup {NoReq},
           req' = [req EXCEPT ![r] = q], q # NoReq => PlacedReq(q),
           declared' = declared, released' = released,
           snapshots' \in [Apps -> Snapshot \cup {None}], writer' \in Reqs \cup {NoReq}
    PROVE  TypeInv'
  BY DEF TypeInv, TypeOK, Placed

\* The snapshots after a commit.
LEMMA CommittedType ==
    ASSUME TypeOK, NEW a \in Apps, NEW copy \in Snapshot \cup {None}, NEW new \in Snapshot
    PROVE  Committed(snapshots, a, copy, new) \in [Apps -> Snapshot \cup {None}]
  <1>1. snapshots[a] \in Snapshot \cup {None}
    BY DEF TypeOK
  <1>2. ~ Conflict(copy, snapshots[a]) => Written(snapshots[a], copy, new) \in Snapshot
    BY <1>1, WrittenType
  <1> DEFINE v == IF Conflict(copy, snapshots[a]) THEN snapshots[a]
                  ELSE Written(snapshots[a], copy, new)
  <1>3. v \in Snapshot \cup {None}
    BY <1>1, <1>2
  <1>4. Committed(snapshots, a, copy, new) = [snapshots EXCEPT ![a] = v]
    BY DEF Committed
  <1> HIDE DEF v
  <1> QED
    BY <1>3, <1>4 DEF TypeOK

LEMMA TypeInvResolve ==
    ASSUME TypeInv, NEW r \in Reqs, ResolveStep(r)
    PROVE  TypeInv'
  <1> USE DEF At, Reply, OnlyReq
  <1>0. req[r] # NoReq /\ req[r] \in Resolve /\ PlacedReq(req[r])
    BY RequestTypes DEF ResolveStep, LoadApp, ReadSnapshot, ResolveLive, LiveFails, GetSnapshot,
                        RefreshSnapshot, CommitSnapshot, CommitFails, Answer, TypeInv, Placed
  <1> DEFINE p == req[r]
  <1>1. CASE LoadApp(r)
    <2> DEFINE q == [p EXCEPT !.pc = "read", !.cfg = declared[p.app]]
    <2>1. declared[p.app] \in Configs \cup {None}
      BY <1>0 DEF TypeInv, TypeOK, Resolve
    <2>2. declared[p.app] # None => q \in Request /\ PlacedReq(q)
      BY <1>0, <2>1 DEF Request, Resolve, PlacedReq
    <2>3. /\ UNCHANGED <<declared, released, snapshots, writer>>
          /\ \/ req' = [req EXCEPT ![r] = NoReq]
             \/ declared[p.app] # None /\ req' = [req EXCEPT ![r] = q]
      BY <1>0, <1>1 DEF LoadApp, TypeInv, TypeOK
    <2> HIDE DEF q
    <2> QED
      BY <2>2, <2>3, RequestStep DEF TypeInv, TypeOK
  <1>2. CASE ReadSnapshot(r)
    <2> DEFINE snap == snapshots[p.app]
               q == IF ~ Usable(snap, p.cfg) THEN [p EXCEPT !.pc = "live"]
                    ELSE IF snap.artifacts = None THEN [p EXCEPT !.pc = "live", !.copy = snap]
                    ELSE [p EXCEPT !.pc = "answer", !.hit = TRUE, !.answer = snap.artifacts]
    <2>1. snap \in Snapshot \cup {None} /\ (Usable(snap, p.cfg) => snap \in Snapshot)
      BY <1>0 DEF TypeInv, TypeOK, Resolve, Usable
    <2>2. q \in Request /\ PlacedReq(q)
      BY <1>0, <1>2, <2>1 DEF Request, Resolve, PlacedReq, Snapshot, ReadSnapshot
    <2>3. req' = [req EXCEPT ![r] = q] /\ UNCHANGED <<declared, released, snapshots, writer>>
      BY <1>2 DEF ReadSnapshot
    <2> HIDE DEF q
    <2> QED
      BY <2>2, <2>3, RequestStep DEF TypeInv, TypeOK
  <1>3. CASE ResolveLive(r)
    <2> DEFINE arches == IF p.arch = None THEN Listed[p.cfg] ELSE {p.arch}
               q == [p EXCEPT !.pc = "get", !.answer = Found(p.cfg, arches).artifacts]
    <2>1. p.cfg \in Configs /\ arches \in SUBSET Arches
      BY <1>0, <1>3, ListedAssumption DEF ResolveLive, PlacedReq, Resolve
    <2>2. Found(p.cfg, arches).artifacts \in Artifacts \cup {None}
      BY <2>1, FoundType DEF TypeInv
    <2>3. q \in Request /\ PlacedReq(q)
      BY <1>0, <2>1, <2>2 DEF Request, Resolve, PlacedReq
    <2>4. req' = [req EXCEPT ![r] = q]
      BY <1>0, <1>3 DEF ResolveLive, TypeInv, TypeOK
    <2> HIDE DEF q
    <2> QED
      BY <1>3, <2>3, <2>4, RequestStep DEF ResolveLive, TypeInv, TypeOK
  <1>4. CASE LiveFails(r)
    BY <1>4, RequestStep DEF LiveFails, TypeInv, TypeOK
  <1>5. CASE GetSnapshot(r)
    <2> DEFINE q == [p EXCEPT !.pc = "refresh",
                              !.copy = IF @ = None THEN snapshots[p.app] ELSE @]
    <2>1. q \in Request /\ PlacedReq(q)
      BY <1>0, <1>5 DEF Request, Resolve, PlacedReq, GetSnapshot, TypeInv, TypeOK
    <2>2. req' = [req EXCEPT ![r] = q]
      BY <1>0, <1>5 DEF GetSnapshot, TypeInv, TypeOK
    <2> HIDE DEF q
    <2> QED
      BY <1>5, <2>1, <2>2, RequestStep DEF GetSnapshot, TypeInv, TypeOK
  <1>6. CASE RefreshSnapshot(r)
    <2>1. PICK new \in Outcomes(p.copy, p.cfg) :
            req' = [req EXCEPT ![r].pc = "commit", ![r].new = new]
      BY <1>6 DEF RefreshSnapshot
    <2>2. new \in Snapshot
      BY <1>0, <1>6, OutcomeType DEF RefreshSnapshot, PlacedReq, Resolve, TypeInv
    <2> DEFINE q == [p EXCEPT !.pc = "commit", !.new = new]
    <2>3. q \in Request /\ PlacedReq(q)
      BY <1>0, <1>6, <2>2 DEF Request, Resolve, PlacedReq, RefreshSnapshot
    <2>4. req' = [req EXCEPT ![r] = q]
      BY <1>0, <2>1 DEF TypeInv, TypeOK
    <2> HIDE DEF q
    <2> QED
      BY <1>6, <2>3, <2>4, RequestStep DEF RefreshSnapshot, TypeInv, TypeOK
  <1>7. ASSUME CommitSnapshot(r) \/ CommitFails(r) PROVE TypeInv'
    <2> DEFINE q == [p EXCEPT !.pc = "answer"]
    <2>1. q \in Request /\ PlacedReq(q)
      BY <1>0, <1>7 DEF Request, Resolve, PlacedReq, CommitSnapshot, CommitFails
    <2>2. req' = [req EXCEPT ![r] = q]
      BY <1>0, <1>7 DEF CommitSnapshot, CommitFails, TypeInv, TypeOK
    <2>3. p.app \in Apps /\ p.copy \in Snapshot \cup {None} /\ p.new \in Snapshot
      BY <1>0, <1>7 DEF CommitSnapshot, CommitFails, PlacedReq, Resolve
    <2>4. Committed(snapshots, p.app, p.copy, p.new) \in [Apps -> Snapshot \cup {None}]
      BY <2>3, CommittedType DEF TypeInv
    <2>5. snapshots' \in [Apps -> Snapshot \cup {None}]
      BY <1>7, <2>4 DEF CommitSnapshot, CommitFails, TypeInv, TypeOK
    <2> HIDE DEF q
    <2> QED
      BY <1>7, <2>1, <2>2, <2>5, RequestStep DEF CommitSnapshot, CommitFails, TypeInv, TypeOK
  <1>8. CASE Answer(r)
    BY <1>8, RequestStep DEF Answer, TypeInv, TypeOK
  <1> QED
    BY <1>1, <1>2, <1>3, <1>4, <1>5, <1>6, <1>7, <1>8 DEF ResolveStep

LEMMA TypeInvCrawl ==
    ASSUME TypeInv, NEW r \in Reqs, CrawlStep(r)
    PROVE  TypeInv'
  <1> USE DEF At, Reply, OnlyReq
  <1>0. req[r] # NoReq /\ req[r] \in Crawl /\ PlacedReq(req[r])
    BY RequestTypes DEF CrawlStep, CrawlNext, CrawlRefresh, CrawlCommit, CrawlFails, TypeInv, Placed
  <1> DEFINE p == req[r]
  <1>1. CASE CrawlNext(r)
    <2>1. PICK t \in p.todo :
            req' = [req EXCEPT ![r].pc = "refresh", ![r].todo = @ \ {t}, ![r].app = t[1],
                               ![r].cfg = t[2], ![r].copy = snapshots[t[1]]]
      BY <1>1 DEF CrawlNext
    <2> DEFINE q == [p EXCEPT !.pc = "refresh", !.todo = @ \ {t}, !.app = t[1],
                              !.cfg = t[2], !.copy = snapshots[t[1]]]
    <2>2. t[1] \in Apps /\ t[2] \in Configs
      BY <1>0 DEF Crawl
    <2>3. snapshots[t[1]] \in Snapshot \cup {None}
      BY <2>2 DEF TypeInv, TypeOK
    <2>4. q \in Request /\ PlacedReq(q)
      BY <1>0, <2>2, <2>3 DEF Request, Crawl, PlacedReq
    <2>5. req' = [req EXCEPT ![r] = q]
      BY <1>0, <2>1 DEF TypeInv, TypeOK
    <2> HIDE DEF q
    <2> QED
      BY <1>1, <2>4, <2>5, RequestStep DEF CrawlNext, TypeInv, TypeOK
  <1>2. CASE CrawlRefresh(r)
    <2>1. PICK new \in Outcomes(p.copy, p.cfg) :
            req' = [req EXCEPT ![r].pc = "next", ![r].app = None, ![r].cfg = None,
                               ![r].copy = None,
                               ![r].batch = @ \cup {[app |-> p.app, copy |-> p.copy, new |-> new]}]
      BY <1>2 DEF CrawlRefresh
    <2> DEFINE f == [app |-> p.app, copy |-> p.copy, new |-> new]
               q == [p EXCEPT !.pc = "next", !.app = None, !.cfg = None, !.copy = None,
                              !.batch = @ \cup {f}]
    <2>2. p.app \in Apps /\ p.cfg \in Configs /\ p.copy \in Snapshot \cup {None}
      BY <1>0, <1>2 DEF CrawlRefresh, PlacedReq, Crawl
    <2>3. f \in Refresh
      BY <2>2, OutcomeType DEF Refresh, TypeInv
    <2>4. q \in Request /\ PlacedReq(q)
      <3> HIDE DEF f
      <3> QED BY <1>0, <2>3 DEF Request, Crawl, PlacedReq
    <2>5. req' = [req EXCEPT ![r] = q]
      BY <1>0, <2>1 DEF TypeInv, TypeOK
    <2> HIDE DEF q
    <2> QED
      BY <1>2, <2>4, <2>5, RequestStep DEF CrawlRefresh, TypeInv, TypeOK
  <1>3. CASE CrawlCommit(r)
    <2>1. ASSUME NEW a \in Apps PROVE snapshots'[a] \in Snapshot \cup {None}
      <3>1. CASE \E f \in p.batch : f.app = a
        <4> DEFINE f == CHOOSE g \in p.batch : g.app = a
        <4>1. f \in p.batch /\ f.app = a
          BY <3>1
        <4>2. f \in Refresh
          BY <1>0, <4>1 DEF Crawl
        <4>3. ~ Conflict(f.copy, snapshots[a])
          BY <1>3, <4>1 DEF CrawlCommit, Lost
        <4>4. snapshots[a] \in Snapshot \cup {None} /\ f.copy \in Snapshot \cup {None}
              /\ f.new \in Snapshot
          BY <4>2 DEF TypeInv, TypeOK, Refresh
        <4>5. snapshots'[a] = Written(snapshots[a], f.copy, f.new)
          BY <1>3, <3>1 DEF CrawlCommit
        <4> HIDE DEF f
        <4> QED
          BY <4>3, <4>4, <4>5, WrittenType
      <3>2. CASE ~ \E f \in p.batch : f.app = a
        BY <1>3, <3>2 DEF CrawlCommit, TypeInv, TypeOK
      <3> QED
        BY <3>1, <3>2
    <2>2. snapshots' = [a \in Apps |-> snapshots'[a]]
      BY <1>3 DEF CrawlCommit
    <2>3. snapshots' \in [Apps -> Snapshot \cup {None}]
      BY <2>1, <2>2
    <2> QED
      BY <1>3, <2>3, RequestStep DEF CrawlCommit
  <1>4. CASE CrawlFails(r)
    BY <1>4, RequestStep DEF CrawlFails, TypeInv, TypeOK
  <1> QED
    BY <1>1, <1>2, <1>3, <1>4 DEF CrawlStep

LEMMA TypeInvBegin ==
    ASSUME TypeInv, NEW r \in Reqs
    PROVE  /\ \A a \in Apps, x \in Arches \cup {None} : BeginResolve(r, a, x) => TypeInv'
           /\ BeginCrawl(r) => TypeInv'
  <1>1. ASSUME NEW a \in Apps, NEW x \in Arches \cup {None}, BeginResolve(r, a, x)
        PROVE  TypeInv'
    <2> DEFINE q == [op |-> "resolve", pc |-> "load", app |-> a, arch |-> x, cfg |-> None,
                     answer |-> None, hit |-> FALSE, copy |-> None, new |-> None]
    <2>1. q \in Request /\ PlacedReq(q)
      BY DEF Request, Resolve, PlacedReq
    <2> QED
      BY <1>1, <2>1, RequestStep DEF BeginResolve, OnlyReq, TypeInv, TypeOK
  <1>2. ASSUME BeginCrawl(r) PROVE TypeInv'
    <2> DEFINE q == [op |-> "crawl", pc |-> "next", app |-> None, cfg |-> None, copy |-> None,
                     todo |-> {p \in Apps \X Configs : declared[p[1]] = p[2]}, batch |-> {}]
    <2>1. q \in Request /\ PlacedReq(q)
      BY DEF Request, Crawl, PlacedReq
    <2> QED
      BY <1>2, <2>1, RequestStep DEF BeginCrawl, OnlyReq, TypeInv, TypeOK
  <1> QED
    BY <1>1, <1>2

LEMMA TypeInvEnviron ==
    ASSUME TypeInv, Environ
    PROVE  TypeInv'
  <1>1. ASSUME NEW c \in Configs, Publish(c) PROVE TypeInv'
    <2>1. released[c] + 1 \in Versions
      BY <1>1, ShipsAssumption DEF Publish, TypeInv, TypeOK, Versions
    <2> QED
      BY <1>1, <2>1 DEF Publish, TypeInv, TypeOK, Placed
  <1>2. ASSUME NEW a \in Apps, Expire(a) PROVE TypeInv'
    <2>1. [snapshots[a] EXCEPT !.fresh = FALSE] \in Snapshot
      BY <1>2 DEF Expire, TypeInv, TypeOK, Snapshot
    <2> QED
      BY <1>2, <2>1 DEF Expire, TypeInv, TypeOK, Placed
  <1>3. ASSUME NEW a \in Apps, NEW c \in Configs \cup {None}, Declare(a, c) PROVE TypeInv'
    BY <1>3 DEF Declare, TypeInv, TypeOK, Placed
  <1> QED
    BY <1>1, <1>2, <1>3 DEF Environ

LEMMA TypeInvStep == TypeInv /\ [Next]_vars => TypeInv'
  <1>1. ASSUME TypeInv, Next PROVE TypeInv'
    BY <1>1, TypeInvBegin, TypeInvResolve, TypeInvCrawl, TypeInvEnviron DEF Next, Serve
  <1>2. ASSUME TypeInv, UNCHANGED vars PROVE TypeInv'
    BY <1>2 DEF TypeInv, TypeOK, Placed, vars
  <1> QED
    BY <1>1, <1>2

LEMMA TypeInvInit == Init => TypeInv
  BY ShipsAssumption DEF Init, TypeInv, TypeOK, Placed, Versions

LEMMA TypesKept == Spec => []TypeInv
  BY TypeInvInit, TypeInvStep, PTL DEF Spec

\* The requests and the tables keep their types.
THEOREM TypeCorrect == Spec => []TypeOK
  BY TypesKept, PTL DEF TypeInv

-----------------------------------------------------------------------------
(* No known version is wiped.                                              *)

\* What was made of a snapshot has no version only if that had none.
Keeps(copy, new) == new.version = None /\ copy # None => copy.version = None
KeepsReq(q) ==
    /\ q.op = "resolve" /\ q.pc = "commit" => Keeps(q.copy, q.new)
    /\ q.op = "crawl" => \A f \in q.batch : Keeps(f.copy, f.new)
KeepInv == \A r \in Reqs : req[r] # NoReq => KeepsReq(req[r])

LEMMA OutcomeKeeps ==
    ASSUME TypeOK, NEW cfg \in Configs, NEW copy \in Snapshot \cup {None},
           NEW new \in Outcomes(copy, cfg)
    PROVE  Keeps(copy, new)
  <1>1. Found(cfg, Listed[cfg]).version # None
    BY ListedAssumption, FoundType, NullAssumption
  <1>2. Keeps(copy, Refreshed(copy, cfg, Found(cfg, Listed[cfg])))
    BY <1>1 DEF Keeps, Refreshed
  <1>3. Keeps(copy, Failed(copy, cfg))
    BY DEF Keeps, Failed, Old
  <1> QED
    BY <1>2, <1>3 DEF Outcomes

\* A commit wipes no version.
LEMMA WriteKeeps ==
    ASSUME NEW current \in Snapshot, NEW copy \in Snapshot \cup {None}, NEW new \in Snapshot,
           ~ Conflict(copy, current), Keeps(copy, new), current.version # None
    PROVE  Written(current, copy, new) # None /\ Written(current, copy, new).version # None
  <1>1. copy # None
    BY NullAssumption DEF Conflict
  <1>2. Written(current, copy, new) \in Snapshot
    BY WrittenType
  <1>3. Written(current, copy, new).version =
          IF new.version # copy.version THEN new.version ELSE current.version
    BY <1>1, WrittenType
  <1> QED
    BY <1>1, <1>2, <1>3, NullAssumption DEF Keeps

LEMMA KeepInvStep ==
    ASSUME TypeInv, KeepInv, [Next]_vars
    PROVE  KeepInv'
  <1> USE DEF At, Reply, OnlyReq
  <1>1. ASSUME NEW r \in Reqs, RefreshSnapshot(r) PROVE KeepInv'
    <2>1. PICK new \in Outcomes(req[r].copy, req[r].cfg) :
            req' = [req EXCEPT ![r].pc = "commit", ![r].new = new]
      BY <1>1 DEF RefreshSnapshot
    <2>2. req[r] # NoReq /\ req[r] \in Resolve /\ req[r].cfg \in Configs
          /\ req[r].copy \in Snapshot \cup {None}
      BY <1>1, RequestTypes DEF RefreshSnapshot, TypeInv, Placed, PlacedReq, Resolve
    <2>3. Keeps(req[r].copy, new)
      BY <2>2, OutcomeKeeps DEF TypeInv
    <2>4. KeepsReq(req'[r])
      BY <2>1, <2>2, <2>3 DEF KeepsReq, Resolve, TypeInv, TypeOK
    <2> QED
      BY <2>1, <2>4 DEF KeepInv, TypeInv, TypeOK
  <1>2. ASSUME NEW r \in Reqs, CrawlRefresh(r) PROVE KeepInv'
    <2>1. PICK new \in Outcomes(req[r].copy, req[r].cfg) :
            req' = [req EXCEPT ![r].pc = "next", ![r].app = None, ![r].cfg = None,
                               ![r].copy = None,
                               ![r].batch = @ \cup {[app |-> req[r].app, copy |-> req[r].copy,
                                                     new |-> new]}]
      BY <1>2 DEF CrawlRefresh
    <2>2. req[r] # NoReq /\ req[r] \in Crawl /\ req[r].cfg \in Configs
          /\ req[r].copy \in Snapshot \cup {None}
      BY <1>2, RequestTypes DEF CrawlRefresh, TypeInv, Placed, PlacedReq, Crawl
    <2>3. Keeps(req[r].copy, new)
      BY <2>2, OutcomeKeeps DEF TypeInv
    <2>4. /\ req'[r].op = "crawl"
          /\ req'[r].batch = req[r].batch \cup {[app |-> req[r].app, copy |-> req[r].copy,
                                                 new |-> new]}
      BY <2>1, <2>2 DEF Crawl, TypeInv, TypeOK
    <2>5. KeepsReq(req'[r])
      BY <2>2, <2>3, <2>4 DEF KeepsReq, KeepInv, Crawl
    <2> QED
      BY <2>1, <2>5 DEF KeepInv, TypeInv, TypeOK
  <1>3. ASSUME NEW r \in Reqs, CrawlNext(r) PROVE KeepInv'
    <2>1. PICK t \in req[r].todo :
            req' = [req EXCEPT ![r].pc = "refresh", ![r].todo = @ \ {t}, ![r].app = t[1],
                               ![r].cfg = t[2], ![r].copy = snapshots[t[1]]]
      BY <1>3 DEF CrawlNext
    <2>2. req[r] # NoReq /\ req[r] \in Crawl
      BY <1>3, RequestTypes DEF CrawlNext, TypeInv
    <2>3. KeepsReq(req'[r])
      BY <2>1, <2>2 DEF KeepsReq, KeepInv, Crawl, TypeInv, TypeOK
    <2> QED
      BY <2>1, <2>3 DEF KeepInv, TypeInv, TypeOK
  <1>4. ASSUME NEW r \in Reqs, ResolveStep(r), ~ RefreshSnapshot(r) PROVE KeepInv'
    <2>1. req[r] # NoReq /\ req[r] \in Resolve
      BY <1>4, RequestTypes DEF ResolveStep, LoadApp, ReadSnapshot, ResolveLive, LiveFails,
                GetSnapshot, CommitSnapshot, CommitFails, Answer, TypeInv
    <2>2. /\ \A s \in Reqs \ {r} : req'[s] = req[s]
          /\ req'[r] # NoReq => req'[r].op = "resolve" /\ req'[r].pc # "commit"
      <3>1. CASE LoadApp(r)
        BY <2>1, <3>1 DEF LoadApp, Resolve, TypeInv, TypeOK
      <3>2. CASE ReadSnapshot(r)
        BY <2>1, <3>2 DEF ReadSnapshot, Resolve, TypeInv, TypeOK
      <3>3. CASE ~ (LoadApp(r) \/ ReadSnapshot(r))
        BY <1>4, <2>1, <3>3 DEF ResolveStep, ResolveLive, LiveFails, GetSnapshot,
                CommitSnapshot, CommitFails, Answer, Resolve, TypeInv, TypeOK
      <3> QED
        BY <3>1, <3>2, <3>3
    <2> QED
      BY <2>2 DEF KeepInv, KeepsReq
  <1>5. ASSUME NEW r \in Reqs, CrawlCommit(r) \/ CrawlFails(r) PROVE KeepInv'
    BY <1>5 DEF CrawlCommit, CrawlFails, KeepInv, TypeInv, TypeOK
  <1>6. ASSUME NEW r \in Reqs, BeginCrawl(r) \/ \E a \in Apps, x \in Arches \cup {None} :
                                                  BeginResolve(r, a, x)
        PROVE  KeepInv'
    BY <1>6 DEF BeginCrawl, BeginResolve, KeepInv, KeepsReq, TypeInv, TypeOK
  <1>7. CASE Environ \/ UNCHANGED vars
    BY <1>7 DEF Environ, Publish, Expire, Declare, vars, KeepInv
  <1> QED
    BY <1>1, <1>2, <1>3, <1>4, <1>5, <1>6, <1>7 DEF Next, Serve, CrawlStep

\* The snapshots of apps change by a commit, a crawl's commit or the passing of time.
LEMMA KeptStep ==
    ASSUME TypeInv, KeepInv, [Next]_vars, NEW a \in Apps,
           snapshots[a] # None, snapshots[a].version # None
    PROVE  snapshots'[a] # None /\ snapshots'[a].version # None
  <1> USE DEF At
  <1>0. snapshots[a] \in Snapshot
    BY DEF TypeInv, TypeOK
  <1>1. ASSUME NEW r \in Reqs, CommitSnapshot(r)
        PROVE  snapshots'[a] # None /\ snapshots'[a].version # None
    <2> DEFINE p == req[r]
    <2>1. /\ p.app \in Apps /\ p.copy \in Snapshot \cup {None} /\ p.new \in Snapshot
          /\ Keeps(p.copy, p.new)
      BY <1>1, RequestTypes DEF CommitSnapshot, TypeInv, Placed, PlacedReq, Resolve, KeepInv, KeepsReq
    <2>2. snapshots' = Committed(snapshots, p.app, p.copy, p.new)
      BY <1>1 DEF CommitSnapshot
    <2>3. snapshots'[a] = IF p.app = a /\ ~ Conflict(p.copy, snapshots[a])
                          THEN Written(snapshots[a], p.copy, p.new) ELSE snapshots[a]
      BY <2>1, <2>2 DEF Committed, TypeInv, TypeOK
    <2> HIDE DEF p
    <2> QED
      BY <1>0, <2>1, <2>3, WriteKeeps
  <1>2. ASSUME NEW r \in Reqs, CrawlCommit(r)
        PROVE  snapshots'[a] # None /\ snapshots'[a].version # None
    <2>1. CASE \E f \in req[r].batch : f.app = a
      <3> DEFINE f == CHOOSE g \in req[r].batch : g.app = a
      <3>1. f \in req[r].batch /\ f.app = a
        BY <2>1
      <3>2. f \in Refresh /\ Keeps(f.copy, f.new)
        BY <1>2, <3>1, RequestTypes DEF CrawlCommit, Crawl, KeepInv, KeepsReq, TypeInv
      <3>3. ~ Conflict(f.copy, snapshots[a])
        BY <1>2, <3>1 DEF CrawlCommit, Lost
      <3>4. snapshots'[a] = Written(snapshots[a], f.copy, f.new)
        BY <1>2, <2>1 DEF CrawlCommit
      <3> HIDE DEF f
      <3> QED
        BY <1>0, <3>2, <3>3, <3>4, WriteKeeps DEF Refresh
    <2>2. CASE ~ \E f \in req[r].batch : f.app = a
      BY <1>2, <2>2 DEF CrawlCommit
    <2> QED
      BY <2>1, <2>2
  <1>3. ASSUME NEW b \in Apps, Expire(b)
        PROVE  snapshots'[a] # None /\ snapshots'[a].version # None
    <2>1. snapshots'[a] = snapshots[a] \/ snapshots'[a] = [snapshots[a] EXCEPT !.fresh = FALSE]
      BY <1>3 DEF Expire, TypeInv, TypeOK
    <2>2. [snapshots[a] EXCEPT !.fresh = FALSE] \in Snapshot
          /\ [snapshots[a] EXCEPT !.fresh = FALSE].version = snapshots[a].version
      BY <1>0 DEF Snapshot
    <2> QED
      BY <2>1, <2>2, NullAssumption
  <1>4. CASE UNCHANGED snapshots
    BY <1>4
  <1> QED
    BY <1>1, <1>2, <1>3, <1>4
       DEF Next, Serve, Environ, ResolveStep, CrawlStep, BeginResolve, BeginCrawl, LoadApp,
           ReadSnapshot, ResolveLive, LiveFails, GetSnapshot, RefreshSnapshot, CommitFails,
           Answer, CrawlNext, CrawlRefresh, CrawlFails, OnlyReq, Publish, Declare, vars

\* However many refreshes overlap, fail or are lost, a version that was known of a
\* release is never wiped from the catalog (resolve_and_snapshot: "keep any previous
\* version rather than wipe").
THEOREM VersionsKept == Spec => VersionKept
  <1>1. Init => KeepInv
    BY DEF Init, KeepInv
  <1>2. TypeInv /\ KeepInv /\ [Next]_vars => KeepInv'
    BY KeepInvStep
  <1>3. TypeInv /\ KeepInv /\ [Next]_vars =>
          [\A a \in Apps : snapshots[a] # None /\ snapshots[a].version # None
             => snapshots'[a] # None /\ snapshots'[a].version # None]_vars
    BY KeptStep
  <1> QED
    BY <1>1, <1>2, <1>3, TypesKept, PTL DEF Spec, VersionKept

-----------------------------------------------------------------------------
(* One request at a time: what a snapshot says of its downloads.           *)

OneRequest == \A r, s \in Reqs : r = s

\* The downloads are of the release the snapshot names, and of its channel unless
\* the last resolution failed.
Sound(snap) ==
    snap # None /\ snap.artifacts # None =>
        /\ snap.artifacts.version = snap.version
        /\ snap.artifacts.cfg = snap.cfg \/ snap.error = "failed"

\* What a session loaded is still what the table says, but for the passing of time.
Agree(copy, current) ==
    /\ copy = None <=> current = None
    /\ copy # None => /\ copy.cfg = current.cfg /\ copy.version = current.version
                      /\ copy.artifacts = current.artifacts /\ copy.error = current.error

SerialReq(q) ==
    /\ q.op = "resolve" =>
         /\ q.pc \in {"refresh", "commit"} => Agree(q.copy, snapshots[q.app])
         /\ q.pc \in {"live", "get"} /\ q.copy # None => Agree(q.copy, snapshots[q.app])
         /\ q.pc \in {"load", "read"} => q.copy = None
         /\ q.pc \in {"load", "read", "live"} => q.answer = None
         /\ q.pc = "commit" => Sound(q.new)
         /\ q.answer # None /\ q.answer.cfg # q.cfg =>
               q.pc = "answer" /\ q.hit /\ MarkedFailed(q.app)
    /\ q.op = "crawl" =>
         /\ q.pc = "refresh" => Agree(q.copy, snapshots[q.app])
         /\ \A f \in q.batch : Agree(f.copy, snapshots[f.app]) /\ Sound(f.new)

SerialInv ==
    /\ \A a \in Apps : Sound(snapshots[a])
    /\ \A r \in Reqs : req[r] # NoReq => SerialReq(req[r])

LEMMA OutcomeSound ==
    ASSUME TypeOK, NEW cfg \in Configs, NEW copy \in Snapshot \cup {None}, Sound(copy),
           NEW new \in Outcomes(copy, cfg)
    PROVE  Sound(new)
  <1>1. Listed[cfg] \in SUBSET Arches
    BY ListedAssumption
  <1>2. Sound(Refreshed(copy, cfg, Found(cfg, Listed[cfg])))
    BY <1>1, FoundType DEF Sound, Refreshed
  <1>3. CASE Outages
    <2>1. Sound(Failed(copy, cfg))
      BY <1>3 DEF Sound, Failed, Old, Blank
    <2> QED
      BY <1>2, <2>1 DEF Outcomes
  <1>4. CASE ~ Outages
    BY <1>2, <1>4 DEF Outcomes
  <1> QED
    BY <1>3, <1>4

\* Made of what the table still says, a snapshot is written as it was made.
LEMMA WrittenSound ==
    ASSUME NEW current \in Snapshot \cup {None}, NEW copy \in Snapshot \cup {None},
           NEW new \in Snapshot, Agree(copy, current), Sound(new)
    PROVE  Sound(Written(current, copy, new))
  <1>1. ~ Conflict(copy, current)
    BY DEF Agree, Conflict
  <1>2. CASE copy = None
    BY <1>1, <1>2, WrittenType
  <1>3. CASE copy # None
    <2> DEFINE w == Written(current, copy, new)
    <2>1. /\ w.cfg = new.cfg /\ w.version = new.version /\ w.artifacts = new.artifacts
          /\ w.error = new.error
      BY <1>1, <1>3, WrittenType DEF Agree
    <2>2. w \in Snapshot
      BY <1>1, WrittenType
    <2> HIDE DEF w
    <2>3. Sound(w)
      BY <2>1, <2>2, NullAssumption DEF Sound
    <2> QED
      BY <2>3 DEF w
  <1> QED
    BY <1>2, <1>3

\* A step that leaves the snapshots alone and one request in order.
LEMMA SerialStep ==
    ASSUME SerialInv, NEW r \in Reqs, req \in [Reqs -> Request \cup {NoReq}],
           UNCHANGED snapshots, NEW q, req' = [req EXCEPT ![r] = q],
           q # NoReq => SerialReq(q)
    PROVE  SerialInv'
  BY DEF SerialInv, SerialReq, MarkedFailed

LEMMA SerialResolve ==
    ASSUME TypeInv, SerialInv, NEW r \in Reqs, ResolveStep(r), ~ CommitSnapshot(r)
    PROVE  SerialInv'
  <1> USE DEF At, Reply, OnlyReq
  <1> DEFINE p == req[r]
  <1>0. /\ p # NoReq /\ p \in Resolve /\ PlacedReq(p) /\ SerialReq(p)
        /\ req \in [Reqs -> Request \cup {NoReq}]
        /\ snapshots[p.app] \in Snapshot \cup {None} /\ Sound(snapshots[p.app])
        /\ UNCHANGED snapshots
    <2>1. p # NoReq /\ p \in Resolve /\ UNCHANGED snapshots
      BY RequestTypes DEF ResolveStep, LoadApp, ReadSnapshot, ResolveLive, LiveFails, GetSnapshot,
                          RefreshSnapshot, CommitFails, Answer, TypeInv
    <2> QED
      BY <2>1 DEF TypeInv, TypeOK, Placed, SerialInv, Resolve
  <1> HIDE DEF p
  <1>1. CASE LoadApp(r)
    <2> DEFINE q == [p EXCEPT !.pc = "read", !.cfg = declared[p.app]]
    <2>1. req' = [req EXCEPT ![r] = NoReq] \/ req' = [req EXCEPT ![r] = q]
      BY <1>0, <1>1 DEF LoadApp, p
    <2>2. SerialReq(q)
      BY <1>0, <1>1 DEF LoadApp, SerialReq, Resolve, p
    <2> HIDE DEF q
    <2> QED
      BY <1>0, <2>1, <2>2, SerialStep
  <1>2. CASE ReadSnapshot(r)
    <2> DEFINE snap == snapshots[p.app]
               q == IF ~ Usable(snap, p.cfg) THEN [p EXCEPT !.pc = "live"]
                    ELSE IF snap.artifacts = None THEN [p EXCEPT !.pc = "live", !.copy = snap]
                    ELSE [p EXCEPT !.pc = "answer", !.hit = TRUE, !.answer = snap.artifacts]
    <2>1. req' = [req EXCEPT ![r] = q]
      BY <1>0, <1>2 DEF ReadSnapshot, p
    <2>2. p.op = "resolve" /\ p.pc = "read"
      BY <1>2 DEF ReadSnapshot, p
    <2>3. Agree(snap, snap)
      BY DEF Agree
    <2>4. SerialReq(q)
      <3>1. CASE ~ Usable(snap, p.cfg)
        BY <1>0, <2>2, <3>1 DEF SerialReq, Resolve
      <3>2. CASE Usable(snap, p.cfg) /\ snap.artifacts = None
        BY <1>0, <2>2, <2>3, <3>2 DEF SerialReq, Resolve
      <3>3. CASE Usable(snap, p.cfg) /\ snap.artifacts # None
        <4>1. q.pc = "answer" /\ q.hit /\ q.app = p.app /\ q.cfg = p.cfg /\ q.op = "resolve"
              /\ q.answer = snap.artifacts
          BY <1>0, <3>3 DEF Resolve
        <4>2. q.answer.cfg = q.cfg \/ MarkedFailed(q.app)
          BY <1>0, <3>3, <4>1 DEF Usable, Sound, MarkedFailed
        <4> HIDE DEF q
        <4> QED
          BY <4>1, <4>2 DEF SerialReq
      <3> QED
        BY <3>1, <3>2, <3>3
    <2> HIDE DEF q
    <2> QED
      BY <1>0, <2>1, <2>4, SerialStep
  <1>3. CASE ResolveLive(r)
    <2> DEFINE arches == IF p.arch = None THEN Listed[p.cfg] ELSE {p.arch}
               q == [p EXCEPT !.pc = "get", !.answer = Found(p.cfg, arches).artifacts]
    <2>1. p.op = "resolve" /\ p.pc = "live"
      BY <1>3 DEF ResolveLive, p
    <2>2. p.cfg \in Configs /\ arches \in SUBSET Arches
      BY <1>0, <2>1, ListedAssumption DEF PlacedReq, Resolve
    <2>3. req' = [req EXCEPT ![r] = q]
      BY <1>0, <1>3 DEF ResolveLive, p
    <2>4. LET art == Found(p.cfg, arches).artifacts IN art # None => art.cfg = p.cfg
      BY <2>2, FoundType DEF TypeInv
    <2>5. SerialReq(q)
      BY <1>0, <2>1, <2>4 DEF SerialReq, Resolve
    <2> HIDE DEF q
    <2> QED
      BY <1>0, <2>3, <2>5, SerialStep
  <1>4. ASSUME LiveFails(r) \/ Answer(r) PROVE SerialInv'
    BY <1>0, <1>4, SerialStep DEF LiveFails, Answer
  <1>5. CASE GetSnapshot(r)
    <2> DEFINE q == [p EXCEPT !.pc = "refresh",
                              !.copy = IF @ = None THEN snapshots[p.app] ELSE @]
    <2>1. p.op = "resolve" /\ p.pc = "get"
      BY <1>5 DEF GetSnapshot, p
    <2>2. req' = [req EXCEPT ![r] = q]
      BY <1>0, <1>5 DEF GetSnapshot, p
    <2>3. Agree(q.copy, snapshots[q.app])
      BY <1>0, <2>1 DEF SerialReq, Agree, Resolve
    <2>4. SerialReq(q)
      BY <1>0, <2>1, <2>3 DEF SerialReq, Resolve
    <2> HIDE DEF q
    <2> QED
      BY <1>0, <2>2, <2>4, SerialStep
  <1>6. CASE RefreshSnapshot(r)
    <2>1. PICK new \in Outcomes(p.copy, p.cfg) :
            req' = [req EXCEPT ![r].pc = "commit", ![r].new = new]
      BY <1>6 DEF RefreshSnapshot, p
    <2>2. p.op = "resolve" /\ p.pc = "refresh"
      BY <1>6 DEF RefreshSnapshot, p
    <2>3. p.cfg \in Configs /\ p.copy \in Snapshot \cup {None} /\ Sound(p.copy)
      <3>1. p.cfg \in Configs /\ p.copy \in Snapshot \cup {None}
        BY <1>0, <2>2 DEF PlacedReq, Resolve
      <3>2. Agree(p.copy, snapshots[p.app])
        BY <1>0, <2>2 DEF SerialReq
      <3> QED
        BY <1>0, <3>1, <3>2 DEF Agree, Sound
    <2>4. Sound(new)
      BY <2>3, OutcomeSound DEF TypeInv
    <2> DEFINE q == [p EXCEPT !.pc = "commit", !.new = new]
    <2>5. req' = [req EXCEPT ![r] = q]
      BY <1>0, <2>1 DEF p
    <2>6. SerialReq(q)
      BY <1>0, <2>2, <2>4 DEF SerialReq, Resolve
    <2> HIDE DEF q
    <2> QED
      BY <1>0, <2>5, <2>6, SerialStep
  <1>7. CASE CommitFails(r)
    <2> DEFINE q == [p EXCEPT !.pc = "answer"]
    <2>1. req' = [req EXCEPT ![r] = q]
      BY <1>0, <1>7 DEF CommitFails, p
    <2>2. SerialReq(q)
      BY <1>0, <1>7 DEF SerialReq, Resolve, CommitFails, p
    <2> HIDE DEF q
    <2> QED
      BY <1>0, <2>1, <2>2, SerialStep
  <1> QED
    BY <1>1, <1>2, <1>3, <1>4, <1>5, <1>6, <1>7 DEF ResolveStep

\* The only request there is commits what it made.
LEMMA SerialCommit ==
    ASSUME OneRequest, TypeInv, SerialInv, NEW r \in Reqs, CommitSnapshot(r)
    PROVE  SerialInv'
  <1> USE DEF At
  <1> DEFINE p == req[r]
  <1>1. /\ p # NoReq /\ p \in Resolve /\ p.op = "resolve" /\ p.pc = "commit" /\ SerialReq(p)
        /\ p.app \in Apps /\ p.copy \in Snapshot \cup {None} /\ p.new \in Snapshot
        /\ snapshots[p.app] \in Snapshot \cup {None}
    BY RequestTypes DEF CommitSnapshot, TypeInv, TypeOK, Placed, PlacedReq, Resolve, SerialInv
  <1>2. Sound(Written(snapshots[p.app], p.copy, p.new))
    <2>1. Agree(p.copy, snapshots[p.app]) /\ Sound(p.new)
      BY <1>1 DEF SerialReq
    <2> QED
      BY <1>1, <2>1, WrittenSound
  <1>3. \A a \in Apps : snapshots'[a] \in {snapshots[a], Written(snapshots[p.app], p.copy, p.new)}
    BY DEF CommitSnapshot, Committed, TypeInv, TypeOK
  <1>4. \A a \in Apps : Sound(snapshots'[a])
    BY <1>2, <1>3 DEF SerialInv
  <1>5. req'[r] = [p EXCEPT !.pc = "answer"] /\ \A s \in Reqs : s = r
    BY DEF CommitSnapshot, TypeInv, TypeOK, OneRequest
  <1>6. /\ req'[r].op = "resolve" /\ req'[r].pc = "answer"
        /\ req'[r].answer = p.answer /\ req'[r].cfg = p.cfg
    BY <1>1, <1>5 DEF Resolve
  <1>7. SerialReq(req[r])'
    BY <1>1, <1>6 DEF SerialReq
  <1> QED
    BY <1>4, <1>5, <1>7 DEF SerialInv

LEMMA SerialCrawl ==
    ASSUME OneRequest, TypeInv, SerialInv, NEW r \in Reqs, CrawlStep(r)
    PROVE  SerialInv'
  <1> USE DEF At, Reply, OnlyReq
  <1> DEFINE p == req[r]
  <1>0. /\ p # NoReq /\ p \in Crawl /\ PlacedReq(p) /\ SerialReq(p)
        /\ req \in [Reqs -> Request \cup {NoReq}]
        /\ \A a \in Apps : snapshots[a] \in Snapshot \cup {None} /\ Sound(snapshots[a])
    <2>1. p # NoReq /\ p \in Crawl
      BY RequestTypes DEF CrawlStep, CrawlNext, CrawlRefresh, CrawlCommit, CrawlFails, TypeInv
    <2> QED
      BY <2>1 DEF TypeInv, TypeOK, Placed, SerialInv
  <1> HIDE DEF p
  <1>1. CASE CrawlNext(r)
    <2>1. PICK t \in p.todo :
            req' = [req EXCEPT ![r].pc = "refresh", ![r].todo = @ \ {t}, ![r].app = t[1],
                               ![r].cfg = t[2], ![r].copy = snapshots[t[1]]]
      BY <1>1 DEF CrawlNext, p
    <2> DEFINE q == [p EXCEPT !.pc = "refresh", !.todo = @ \ {t}, !.app = t[1],
                              !.cfg = t[2], !.copy = snapshots[t[1]]]
    <2>2. req' = [req EXCEPT ![r] = q] /\ UNCHANGED snapshots
      BY <1>0, <1>1, <2>1 DEF CrawlNext, p
    <2>3. Agree(snapshots[t[1]], snapshots[t[1]])
      BY DEF Agree
    <2>4. q.op = "crawl" /\ q.batch = p.batch /\ q.copy = snapshots[t[1]] /\ q.app = t[1]
          /\ p.op = "crawl"
      BY <1>0 DEF Crawl
    <2> HIDE DEF q
    <2>5. SerialReq(q)
      BY <1>0, <2>3, <2>4 DEF SerialReq
    <2> QED
      BY <1>0, <2>2, <2>5, SerialStep
  <1>2. CASE CrawlRefresh(r)
    <2>1. PICK new \in Outcomes(p.copy, p.cfg) :
            req' = [req EXCEPT ![r].pc = "next", ![r].app = None, ![r].cfg = None,
                               ![r].copy = None,
                               ![r].batch = @ \cup {[app |-> p.app, copy |-> p.copy, new |-> new]}]
      BY <1>2 DEF CrawlRefresh, p
    <2> DEFINE f == [app |-> p.app, copy |-> p.copy, new |-> new]
               q == [p EXCEPT !.pc = "next", !.app = None, !.cfg = None, !.copy = None,
                              !.batch = @ \cup {f}]
    <2>2. /\ p.cfg \in Configs /\ p.copy \in Snapshot \cup {None} /\ p.app \in Apps
          /\ Agree(p.copy, snapshots[p.app])
      BY <1>0, <1>2 DEF CrawlRefresh, PlacedReq, Crawl, SerialReq, p
    <2>3. Sound(p.copy)
      BY <1>0, <2>2 DEF Sound, Agree
    <2>4. Sound(new)
      BY <2>2, <2>3, OutcomeSound DEF TypeInv
    <2>5. q.op = "crawl" /\ q.pc = "next" /\ q.batch = p.batch \cup {f} /\ p.op = "crawl"
      BY <1>0 DEF Crawl
    <2>6. req' = [req EXCEPT ![r] = q] /\ UNCHANGED snapshots
      BY <1>0, <1>2, <2>1 DEF CrawlRefresh, p
    <2> HIDE DEF q
    <2>7. SerialReq(q)
      BY <1>0, <2>2, <2>4, <2>5 DEF SerialReq
    <2> QED
      BY <1>0, <2>6, <2>7, SerialStep
  <1>3. CASE CrawlCommit(r)
    <2>1. ASSUME NEW a \in Apps PROVE Sound(snapshots'[a])
      <3>1. CASE \E f \in p.batch : f.app = a
        <4> DEFINE f == CHOOSE g \in p.batch : g.app = a
        <4>1. f \in p.batch /\ f.app = a
          BY <3>1
        <4>2. f \in Refresh /\ Agree(f.copy, snapshots[a]) /\ Sound(f.new)
          BY <1>0, <4>1 DEF Crawl, SerialReq
        <4>3. snapshots'[a] = Written(snapshots[a], f.copy, f.new)
          BY <1>3, <3>1 DEF CrawlCommit, p
        <4> HIDE DEF f
        <4> QED
          BY <1>0, <4>2, <4>3, WrittenSound DEF Refresh
      <3>2. CASE ~ \E f \in p.batch : f.app = a
        BY <1>0, <1>3, <3>2 DEF CrawlCommit, p
      <3> QED
        BY <3>1, <3>2
    <2>2. req'[r] = NoReq /\ \A s \in Reqs : s = r
      BY <1>0, <1>3 DEF CrawlCommit, OneRequest
    <2> QED
      BY <2>1, <2>2 DEF SerialInv
  <1>4. CASE CrawlFails(r)
    BY <1>0, <1>4, SerialStep DEF CrawlFails
  <1> QED
    BY <1>1, <1>2, <1>3, <1>4 DEF CrawlStep

LEMMA SerialBegin ==
    ASSUME TypeInv, SerialInv, NEW r \in Reqs,
           BeginCrawl(r) \/ \E a \in Apps, x \in Arches \cup {None} : BeginResolve(r, a, x)
    PROVE  SerialInv'
  <1>0. req \in [Reqs -> Request \cup {NoReq}]
    BY DEF TypeInv, TypeOK
  <1>1. CASE BeginCrawl(r)
    <2> DEFINE q == [op |-> "crawl", pc |-> "next", app |-> None, cfg |-> None, copy |-> None,
                     todo |-> {p \in Apps \X Configs : declared[p[1]] = p[2]}, batch |-> {}]
    <2>1. SerialReq(q)
      BY DEF SerialReq
    <2> QED
      BY <1>0, <1>1, <2>1, SerialStep DEF BeginCrawl, OnlyReq
  <1>2. ASSUME NEW a \in Apps, NEW x \in Arches \cup {None}, BeginResolve(r, a, x)
        PROVE  SerialInv'
    <2> DEFINE q == [op |-> "resolve", pc |-> "load", app |-> a, arch |-> x, cfg |-> None,
                     answer |-> None, hit |-> FALSE, copy |-> None, new |-> None]
    <2>1. SerialReq(q)
      BY DEF SerialReq
    <2> QED
      BY <1>0, <1>2, <2>1, SerialStep DEF BeginResolve, OnlyReq
  <1> QED
    BY <1>1, <1>2

\* Time passes over a snapshot without changing what it says.
LEMMA SerialEnviron ==
    ASSUME TypeInv, SerialInv, Environ
    PROVE  SerialInv'
  <1>1. ASSUME NEW a \in Apps, Expire(a) PROVE SerialInv'
    <2>1. \A b \in Apps : /\ snapshots'[b] = None <=> snapshots[b] = None
                          /\ snapshots[b] # None =>
                                /\ snapshots'[b].cfg = snapshots[b].cfg
                                /\ snapshots'[b].version = snapshots[b].version
                                /\ snapshots'[b].artifacts = snapshots[b].artifacts
                                /\ snapshots'[b].error = snapshots[b].error
      <3>1. snapshots[a] \in Snapshot /\ [snapshots[a] EXCEPT !.fresh = FALSE] \in Snapshot
        BY <1>1 DEF Expire, TypeInv, TypeOK, Snapshot
      <3> QED
        BY <1>1, <3>1, NullAssumption DEF Expire, TypeInv, TypeOK, Snapshot
    <2>2. \A b \in Apps : Sound(snapshots'[b])
      BY <2>1 DEF SerialInv, Sound
    <2>3. \A b \in Apps : \A copy : Agree(copy, snapshots[b]) => Agree(copy, snapshots'[b])
      BY <2>1 DEF Agree
    <2>4. ASSUME NEW r \in Reqs, req[r] # NoReq PROVE SerialReq(req[r])'
      <3>1. SerialReq(req[r]) /\ req' = req
        BY <1>1, <2>4 DEF SerialInv, Expire
      <3>2. CASE req[r].op = "resolve"
        <4>1. req[r] \in Resolve
          BY <2>4, <3>2, RequestTypes DEF TypeInv
        <4> QED
          BY <2>1, <2>3, <3>1, <3>2, <4>1 DEF SerialReq, Resolve, MarkedFailed
      <3>3. CASE req[r].op = "crawl"
        <4>1. req[r] \in Crawl
          BY <2>4, <3>3, RequestTypes DEF TypeInv
        <4>2. \A f \in req[r].batch : f.app \in Apps
          BY <4>1 DEF Crawl, Refresh
        <4>3. req[r].pc = "refresh" => req[r].app \in Apps
          BY <2>4, <3>3 DEF TypeInv, Placed, PlacedReq
        <4> QED
          BY <2>3, <3>1, <3>3, <4>2, <4>3 DEF SerialReq
      <3> QED
        BY <2>4, <3>2, <3>3, RequestTypes DEF TypeInv
    <2> QED
      BY <1>1, <2>2, <2>4 DEF SerialInv, Expire
  <1>2. CASE UNCHANGED <<snapshots, req>>
    BY <1>2 DEF SerialInv, SerialReq, MarkedFailed
  <1> QED
    BY <1>1, <1>2 DEF Environ, Publish, Declare

LEMMA SerialInvStep ==
    ASSUME OneRequest, TypeInv, SerialInv, [Next]_vars
    PROVE  SerialInv'
  <1>1. CASE UNCHANGED vars
    BY <1>1 DEF vars, SerialInv, SerialReq, MarkedFailed
  <1>2. CASE Next
    BY <1>2, SerialResolve, SerialCommit, SerialCrawl, SerialBegin, SerialEnviron
       DEF Next, Serve
  <1> QED
    BY <1>1, <1>2

LEMMA SerialKept ==
    ASSUME OneRequest
    PROVE  Spec => []SerialInv
  <1>1. Init => SerialInv
    BY DEF Init, SerialInv, Sound
  <1>2. TypeInv /\ SerialInv /\ [Next]_vars => SerialInv'
    BY SerialInvStep
  <1> QED
    BY <1>1, <1>2, TypesKept, PTL DEF Spec

\* If refreshes do not overlap, the version the catalog shows of a snapshot is the
\* release its downloads are of, whether resolutions fail or not
\* (resolve_and_snapshot).
THEOREM VersionsOfDownloads ==
    ASSUME OneRequest
    PROVE  Spec => []VersionOfArtifacts
  <1>1. SerialInv => VersionOfArtifacts
    BY DEF SerialInv, Sound, VersionOfArtifacts
  <1> QED
    BY <1>1, SerialKept, PTL

\* If refreshes do not overlap, what is served was resolved for the channel that the
\* app declared when it was looked up, and so were the downloads of every snapshot,
\* with the one exception of a snapshot whose last resolution failed (read_snapshot,
\* resolve_and_snapshot); OmbraOutage.cfg reaches the exception.
THEOREM ServedAsDeclared ==
    ASSUME OneRequest
    PROVE  Spec => []ServedForConfig
  <1>1. SerialInv => ServedForConfig
    BY DEF SerialInv, SerialReq, Sound, ServedForConfig, MarkedFailed, Answering, At
  <1> QED
    BY <1>1, SerialKept, PTL

=============================================================================
