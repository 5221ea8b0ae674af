---------------------------- MODULE CatalogProofs ----------------------------
(* Theorems about Catalog, for every set of taps, apps and requests.         *)
EXTENDS MCCrawls, FiniteSetTheorems, TLAPS

\* The disjuncts of Next, one per step of a request or of the environment.
LEMMA NextCases ==
    ASSUME Next, NEW P,
           \A r \in Reqs, t \in Taps, op \in {"ingest", "import"} : BeginCrawl(r, t, op) => P,
           \A r \in Reqs, t \in Taps : BeginDrop(r, t) => P,
           \A r \in Reqs : CrawlStep(r) => P,
           \A r \in Reqs : DropStep(r) => P,
           \A t \in Taps : Push(t) => P
    PROVE  P
  BY DEF Next, Crawls, Drops, Pushes

\* The step of a request tells which kind it is.
LEMMA RequestKinds ==
    ASSUME TypeOK, NEW r \in Reqs, req[r] # NoReq
    PROVE  /\ req[r] \in Crawl \/ req[r] \in Drop
           /\ req[r].tap \in Taps
           /\ req[r].pc \in {"select", "delete"} => req[r] \in Drop
           /\ req[r].pc \notin {"select", "delete"} => req[r] \in Crawl
  BY DEF TypeOK, Request, Crawl, Drop

LEMMA FiniteSubsets ==
    ASSUME NEW S \in SUBSET Apps
    PROVE  Cardinality(S) \in Nat
  BY AppsAssumption, FS_Subset, FS_CardinalityType

-----------------------------------------------------------------------------
\* The tables and the requests have the types declared for them, and a crawl
\* that merges a manifest knows its id.
TypeInv == TypeOK /\ \A r \in Reqs : At(r, "merge") \/ At(r, "write") => req[r].app \in Apps

\* A step that gives one request a well-typed value and keeps the tables typed.
LEMMA TypedStep ==
    ASSUME TypeInv, NEW r \in Reqs, NEW q \in Request \cup {NoReq},
           q # NoReq /\ q.pc \in {"merge", "write"} => q.app \in Apps,
           req' = [req EXCEPT ![r] = q],
           upstream' \in [Taps -> Clone],
           rows' \in [Apps -> Row \cup {NoRow}],
           bacari' \in [Taps -> Record \cup {NoRow}],
           locks' \in [Taps -> Reqs \cup {NoReq}],
           last' \in [Taps -> Clone]
    PROVE  TypeInv'
  BY DEF TypeInv, TypeOK, At

\* What the write of a crawl makes of the rows: each manifest that was taken is
\* a row of the tap, its other rows are gone and those of other taps are as
\* they were.
LEMMA TakenRows ==
    ASSUME TypeOK, NEW q \in Crawl, q.app \in Apps, ~ Conflict(q.copy, rows[q.app])
    PROVE  /\ Taken(q) \in SUBSET Apps
           /\ AfterFirst(q) \in [Apps -> Row \cup {NoRow}]
           /\ Pruned(q) \in [Apps -> Row \cup {NoRow}]
  <1>1. NewRow(q) \in Row
    BY DEF NewRow, Row, Manifest, Crawl, Clone
  <1>2. Merged(rows[q.app], q.copy, NewRow(q)) \in Row
    BY <1>1 DEF Merged, Column, Conflict, Row, Crawl, TypeOK
  <1>3. AfterFirst(q) \in [Apps -> Row \cup {NoRow}]
    BY <1>2 DEF AfterFirst, TypeOK
  <1>4. Taken(q) \in SUBSET Apps
    BY DEF Taken, Crawl
  <1> QED
    BY <1>1, <1>3, <1>4 DEF Pruned, Upserted

LEMMA TypeCrawlStep ==
    ASSUME TypeInv, NEW r \in Reqs, CrawlStep(r)
    PROVE  TypeInv'
  <1> USE DEF At
  <1>0. /\ req[r] # NoReq /\ req[r] \in Crawl /\ req[r].tap \in Taps
        /\ locks \in [Taps -> Reqs \cup {NoReq}]
    BY RequestKinds DEF CrawlStep, CloneTap, CloneFails, Acquire, NextFile, MergeFile, WriteAll,
       WriteFails, SelectStale, PruneStale, RecordLoad, RecordSave, TypeInv, TypeOK
  <1>e. ASSUME NEW n \in Nat, NEW e \in BOOLEAN, Ended(r, n, e)
        PROVE  \E q \in Request \cup {NoReq} : /\ req' = [req EXCEPT ![r] = q]
                                               /\ q # NoReq => q.pc = "record"
    <2>1. [req[r] EXCEPT !.pc = "record", !.result = [count |-> n, error |-> e]] \in Crawl
      BY <1>0 DEF Crawl, Record
    <2>2. CASE req[r].op = "ingest"
      <3> DEFINE q == [req[r] EXCEPT !.pc = "record", !.result = [count |-> n, error |-> e]]
      <3>1. q \in Request /\ q.pc = "record"
        BY <2>1, <1>0 DEF Request, Crawl
      <3>2. req' = [req EXCEPT ![r] = q]
        BY <1>e, <2>2 DEF Ended
      <3> QED
        BY <3>1, <3>2
    <2>3. CASE req[r].op # "ingest"
      BY <1>e, <2>3 DEF Ended
    <2> QED
      BY <2>2, <2>3
  <1>1. CASE CloneTap(r)
    <2> DEFINE q == [req[r] EXCEPT !.pc = "lock", !.clone = upstream[req[r].tap]]
    <2>1. q \in Request /\ q.pc = "lock"
      BY <1>0 DEF Request, Crawl, TypeInv, TypeOK
    <2>2. req' = [req EXCEPT ![r] = q]
      BY <1>0, <1>1 DEF CloneTap, TypeInv, TypeOK
    <2> HIDE DEF q
    <2> QED
      BY <1>1, <2>1, <2>2, TypedStep DEF CloneTap, TypeInv, TypeOK
  <1>2. CASE CloneFails(r)
    <2>1. PICK q \in Request \cup {NoReq} : /\ req' = [req EXCEPT ![r] = q]
                                            /\ q # NoReq => q.pc = "record"
      BY <1>2, <1>e DEF CloneFails
    <2> QED
      BY <1>2, <2>1, TypedStep DEF CloneFails, TypeInv, TypeOK
  <1>3. CASE Acquire(r)
    <2> DEFINE q == [req[r] EXCEPT !.pc = "next", !.todo = req[r].clone.valid]
    <2>1. q \in Request /\ q.pc = "next"
      BY <1>0 DEF Request, Crawl, Clone
    <2>2. req' = [req EXCEPT ![r] = q]
      BY <1>0, <1>3 DEF Acquire, TypeInv, TypeOK
    <2>3. locks' \in [Taps -> Reqs \cup {NoReq}]
      BY <1>0, <1>3 DEF Acquire
    <2> HIDE DEF q
    <2> QED
      BY <1>3, <2>1, <2>2, <2>3, TypedStep DEF Acquire, TypeInv, TypeOK
  <1>4. CASE NextFile(r)
    <2>1. PICK a \in req[r].todo :
            req' = [req EXCEPT ![r] =
                      IF Foreign(req[r].tap, rows[a])
                      THEN [req[r] EXCEPT !.todo = @ \ {a}]
                      ELSE [req[r] EXCEPT !.todo = @ \ {a}, !.pc = "merge",
                                          !.app = a, !.copy = rows[a]]]
      BY <1>4 DEF NextFile
    <2>2. a \in Apps /\ rows[a] \in Row \cup {NoRow}
      BY <1>0 DEF Crawl, TypeInv, TypeOK
    <2> DEFINE skip == [req[r] EXCEPT !.todo = @ \ {a}]
               take == [req[r] EXCEPT !.todo = @ \ {a}, !.pc = "merge",
                                      !.app = a, !.copy = rows[a]]
    <2>3. skip \in Request /\ skip.pc = "next"
      BY <1>0, <1>4 DEF Request, Crawl, NextFile
    <2>4. take \in Request /\ take.app \in Apps
      BY <1>0, <2>2 DEF Request, Crawl
    <2>5. req' = [req EXCEPT ![r] = skip] \/ req' = [req EXCEPT ![r] = take]
      BY <2>1
    <2> HIDE DEF skip, take
    <2> QED
      BY <1>4, <2>3, <2>4, <2>5, TypedStep DEF NextFile, TypeInv, TypeOK
  <1>5. CASE MergeFile(r)
    <2> DEFINE q == [req[r] EXCEPT !.pc = "write",
                       !.copy = IF @ = NoRow THEN rows[req[r].app] ELSE @]
    <2>1. req[r].app \in Apps
      BY <1>5 DEF MergeFile, TypeInv
    <2>2. q \in Request /\ q.app \in Apps
      BY <1>0, <2>1 DEF Request, Crawl, TypeInv, TypeOK
    <2>3. req' = [req EXCEPT ![r] = q]
      BY <1>0, <1>5 DEF MergeFile, TypeInv, TypeOK
    <2> HIDE DEF q
    <2> QED
      BY <1>5, <2>2, <2>3, TypedStep DEF MergeFile, TypeInv, TypeOK
  <1>6. CASE WriteAll(r)
    <2>1. req[r].app \in Apps
      BY <1>6 DEF WriteAll, TypeInv
    <2>2. /\ Taken(req[r]) \in SUBSET Apps
          /\ rows' \in [Apps -> Row \cup {NoRow}]
      BY <1>0, <1>6, <2>1, TakenRows DEF WriteAll, TypeInv
    <2>3. Cardinality(Taken(req[r])) \in Nat
      BY <2>2, FiniteSubsets
    <2>4. PICK q \in Request \cup {NoReq} : /\ req' = [req EXCEPT ![r] = q]
                                            /\ q # NoReq => q.pc = "record"
      BY <1>6, <2>3, <1>e DEF WriteAll
    <2>5. locks' \in [Taps -> Reqs \cup {NoReq}]
      BY <1>0, <1>6 DEF WriteAll, Release
    <2>6. last' \in [Taps -> Clone]
      BY <1>0, <1>6, <2>2 DEF WriteAll, Clone, Crawl, TypeInv, TypeOK
    <2> QED
      BY <1>6, <2>2, <2>4, <2>5, <2>6, TypedStep DEF WriteAll, TypeInv, TypeOK
  <1>7. CASE WriteFails(r)
    <2>1. PICK q \in Request \cup {NoReq} : /\ req' = [req EXCEPT ![r] = q]
                                            /\ q # NoReq => q.pc = "record"
      BY <1>7, <1>e DEF WriteFails
    <2>2. locks' \in [Taps -> Reqs \cup {NoReq}]
      BY <1>0, <1>7 DEF WriteFails, Release
    <2> QED
      BY <1>7, <2>1, <2>2, TypedStep DEF WriteFails, TypeInv, TypeOK
  <1>8. CASE SelectStale(r)
    <2> DEFINE q == [req[r] EXCEPT !.pc = "prune", !.stale = RowsOf(req[r].tap, rows)]
    <2>1. q \in Request /\ q.pc = "prune"
      BY <1>0 DEF Request, Crawl, RowsOf
    <2>2. req' = [req EXCEPT ![r] = q]
      BY <1>0, <1>8 DEF SelectStale, TypeInv, TypeOK
    <2> HIDE DEF q
    <2> QED
      BY <1>8, <2>1, <2>2, TypedStep DEF SelectStale, TypeInv, TypeOK
  <1>9. CASE PruneStale(r)
    <2>1. PICK q \in Request \cup {NoReq} : /\ req' = [req EXCEPT ![r] = q]
                                            /\ q # NoReq => q.pc = "record"
      BY <1>9, <1>e DEF PruneStale
    <2>2. locks' \in [Taps -> Reqs \cup {NoReq}]
      BY <1>0, <1>9 DEF PruneStale, Release
    <2>3. last' \in [Taps -> Clone]
      BY <1>0, <1>9 DEF PruneStale, Clone, Crawl, TypeInv, TypeOK
    <2>4. rows' \in [Apps -> Row \cup {NoRow}]
      BY <1>9 DEF PruneStale, Without, TypeInv, TypeOK
    <2> QED
      BY <1>9, <2>1, <2>2, <2>3, <2>4, TypedStep DEF PruneStale, TypeInv, TypeOK
  <1>10. CASE RecordLoad(r)
    <2> DEFINE q == [req[r] EXCEPT !.pc = "save", !.rec = bacari[req[r].tap]]
    <2>1. q \in Request /\ q.pc = "save"
      BY <1>0 DEF Request, Crawl, TypeInv, TypeOK
    <2>2. req' = [req EXCEPT ![r] = q]
      BY <1>0, <1>10 DEF RecordLoad, TypeInv, TypeOK
    <2> HIDE DEF q
    <2> QED
      BY <1>10, <2>1, <2>2, TypedStep DEF RecordLoad, TypeInv, TypeOK
  <1>11. CASE RecordSave(r)
    <2> DEFINE t == req[r].tap
               s == Saved(bacari[t], req[r].rec, req[r].result)
    <2>1. ~ Conflict(req[r].rec, bacari[t]) => s \in Record
      BY <1>0 DEF Saved, Column, Conflict, Record, Crawl, TypeInv, TypeOK
    <2>2. bacari' \in {bacari, [bacari EXCEPT ![t] = s]}
          /\ (Conflict(req[r].rec, bacari[t]) => bacari' = bacari)
      BY <1>11 DEF RecordSave
    <2>3. bacari' \in [Taps -> Record \cup {NoRow}]
      BY <1>0, <2>1, <2>2 DEF TypeInv, TypeOK
    <2> QED
      BY <1>11, <2>3, TypedStep DEF RecordSave, TypeInv, TypeOK
  <1> QED
    BY <1>1, <1>2, <1>3, <1>4, <1>5, <1>6, <1>7, <1>8, <1>9, <1>10, <1>11 DEF CrawlStep

LEMMA TypeDropStep ==
    ASSUME TypeInv, NEW r \in Reqs, DropStep(r)
    PROVE  TypeInv'
  <1> USE DEF At
  <1>0. /\ req[r] # NoReq /\ req[r] \in Drop /\ req[r].tap \in Taps
    BY RequestKinds DEF DropStep, DropSelect, DropDelete, TypeInv
  <1>1. CASE DropSelect(r)
    <2> DEFINE q == [req[r] EXCEPT !.pc = "delete", !.stale = RowsOf(req[r].tap, rows)]
    <2>1. q \in Request /\ q.pc = "delete"
      BY <1>0 DEF Request, Drop, RowsOf
    <2>2. req' = [req EXCEPT ![r] = q]
      BY <1>0, <1>1 DEF DropSelect, TypeInv, TypeOK
    <2> HIDE DEF q
    <2> QED
      BY <1>1, <2>1, <2>2, TypedStep DEF DropSelect, TypeInv, TypeOK
  <1>2. CASE DropDelete(r)
    <2>1. rows' \in [Apps -> Row \cup {NoRow}]
      BY <1>2 DEF DropDelete, Without, TypeInv, TypeOK
    <2>2. last' \in [Taps -> Clone]
      BY <1>0, <1>2 DEF DropDelete, Clone, TypeInv, TypeOK
    <2>3. bacari' \in [Taps -> Record \cup {NoRow}]
      BY <1>0, <1>2 DEF DropDelete, TypeInv, TypeOK
    <2> QED
      BY <1>2, <2>1, <2>2, <2>3, TypedStep DEF DropDelete, TypeInv, TypeOK
  <1> QED
    BY <1>1, <1>2 DEF DropStep

\* The value of a new request.
Started(t, op) == [op |-> op, tap |-> t, pc |-> "clone", clone |-> Nothing, todo |-> {},
                   app |-> NoRow, copy |-> NoRow, stale |-> {},
                   result |-> [count |-> 0, error |-> FALSE], rec |-> NoRow]
Dropped(t) == [op |-> "drop", tap |-> t, pc |-> "select", stale |-> {}]

LEMMA TypeBegin ==
    ASSUME TypeInv, NEW r \in Reqs, NEW t \in Taps
    PROVE  /\ \A op \in {"ingest", "import"} : BeginCrawl(r, t, op) => TypeInv'
           /\ BeginDrop(r, t) => TypeInv'
  <1>1. ASSUME NEW op \in {"ingest", "import"}, BeginCrawl(r, t, op) PROVE TypeInv'
    <2>1. Started(t, op) \in Request /\ Started(t, op).pc = "clone"
      BY RevAssumption DEF Started, Request, Crawl, Clone, Nothing, Revs, Record
    <2>2. req' = [req EXCEPT ![r] = Started(t, op)]
      BY <1>1 DEF BeginCrawl, Started
    <2> QED
      BY <1>1, <2>1, <2>2, TypedStep DEF BeginCrawl, TypeInv, TypeOK
  <1>2. ASSUME BeginDrop(r, t) PROVE TypeInv'
    <2>1. Dropped(t) \in Request /\ Dropped(t).pc = "select"
      BY DEF Dropped, Request, Drop
    <2>2. req' = [req EXCEPT ![r] = Dropped(t)]
      BY <1>2 DEF BeginDrop, Dropped
    <2> QED
      BY <1>2, <2>1, <2>2, TypedStep DEF BeginDrop, TypeInv, TypeOK
  <1> QED
    BY <1>1, <1>2

LEMMA TypePush ==
    ASSUME TypeInv, NEW t \in Taps, Push(t)
    PROVE  TypeInv'
  <1>1. upstream[t].rev + 1 \in Revs
    BY RevAssumption DEF Push, Revs, Clone, TypeInv, TypeOK
  <1>2. PICK S \in SUBSET May[t] :
          upstream' = [upstream EXCEPT ![t] = [rev |-> upstream[t].rev + 1, valid |-> S]]
    BY DEF Push
  <1>3. [rev |-> upstream[t].rev + 1, valid |-> S] \in Clone
    BY <1>1, MayAssumption DEF Clone
  <1>4. upstream' \in [Taps -> Clone]
    BY <1>2, <1>3 DEF TypeInv, TypeOK
  <1> QED
    BY <1>4 DEF Push, TypeInv, TypeOK, At

LEMMA TypeInit == Init => TypeInv
  BY RevAssumption DEF Init, TypeInv, TypeOK, At, Nothing, Clone, Revs

LEMMA TypeNext == TypeInv /\ [Next]_vars => TypeInv'
  <1> SUFFICES ASSUME TypeInv, [Next]_vars PROVE TypeInv'
    OBVIOUS
  <1>1. CASE Next
    BY <1>1, NextCases, TypeBegin, TypeCrawlStep, TypeDropStep, TypePush
  <1>2. CASE UNCHANGED vars
    BY <1>2 DEF vars, TypeInv, TypeOK, At
  <1> QED
    BY <1>1, <1>2

\* TypeOK holds always: whatever overlaps, a crawl writes whole rows of a tap
\* and whole records (_ingest_directory_locked, _record_bacaro).
THEOREM TypeCorrect == Spec => []TypeOK
  <1>1. TypeInv => TypeOK
    BY DEF TypeInv
  <1> QED
    BY <1>1, TypeInit, TypeNext, PTL DEF Spec

-----------------------------------------------------------------------------
\* No two taps are crawled at once: others may clone, wait, write their records or
\* be dropped meanwhile.  Taps may use the same ids.
OneLocked == \A t, u \in Taps : locks[t] # NoReq /\ locks[u] # NoReq => t = u

\* Who is past Acquire holds the lock; what a crawl has loaded is a row of its tap,
\* and where it found none there still is none when it merges.
Guarded(q, r, locked, db) ==
    q # NoReq =>
      /\ q.pc \in {"next", "merge", "write", "prune"} => locked[q.tap] = r
      /\ q.pc \in {"merge", "write"} /\ q.copy # NoRow => q.copy.bacaro = q.tap
      /\ q.pc = "merge" /\ q.copy = NoRow => db[q.app] = NoRow

HijackInv == TypeInv /\ \A r \in Reqs : Guarded(req[r], r, locks, rows)

\* No tap takes over a row of another: an app that stays keeps its owner.
Keeps == \A a \in Apps : rows[a] # NoRow /\ rows'[a] # NoRow => rows'[a].bacaro = rows[a].bacaro

\* Rows change by deletion, or the request that writes them is the only one that
\* holds a lock.
Deletes  == \A a \in Apps : rows'[a] \in {NoRow, rows[a]}
HoldsLock(r) == locks[req[r].tap] = r

LEMMA GuardedStep ==
    ASSUME HijackInv, OneLocked, TypeInv', NEW r \in Reqs, NEW q,
           req' = [req EXCEPT ![r] = q], Guarded(q, r, locks', rows'),
           \/ Deletes /\ locks' = locks
           \/ Deletes /\ \E t \in Taps : locks[t] = NoReq /\ locks' = [locks EXCEPT ![t] = r]
           \/ /\ req[r] # NoReq /\ HoldsLock(r)
              /\ locks' = [locks EXCEPT ![req[r].tap] = NoReq]
    PROVE  HijackInv'
  <1> SUFFICES ASSUME NEW p \in Reqs, p # r, req[p] # NoReq
               PROVE  Guarded(req[p], p, locks', rows')
    BY DEF HijackInv, Guarded, TypeInv, TypeOK
  <1>0. /\ req[p].tap \in Taps /\ (req[r] # NoReq => req[r].tap \in Taps)
        /\ locks \in [Taps -> Reqs \cup {NoReq}] /\ p # NoReq
        /\ req[p].pc = "merge" => req[p].app \in Apps
    BY RequestKinds, NullsAssumption DEF HijackInv, TypeInv, TypeOK, At
  <1>1. Guarded(req[p], p, locks, rows)
    BY DEF HijackInv
  <1>2. CASE req[p].pc \notin {"next", "merge", "write", "prune"}
    BY <1>2 DEF Guarded
  <1>3. CASE req[p].pc \in {"next", "merge", "write", "prune"}
    <2>1. locks[req[p].tap] = p
      BY <1>1, <1>3 DEF Guarded
    <2>2. ASSUME req[r] # NoReq, HoldsLock(r) PROVE FALSE
      <3>1. r # NoReq /\ req[r].tap \in Taps
        BY <1>0, <2>2, NullsAssumption
      <3>2. req[r].tap = req[p].tap
        BY <1>0, <2>1, <2>2, <3>1 DEF OneLocked, HoldsLock
      <3> QED
        BY <2>1, <2>2, <3>2 DEF HoldsLock
    <2>3. Deletes /\ locks'[req[p].tap] = p
      BY <1>0, <2>1, <2>2
    <2> QED
      BY <1>0, <1>1, <2>3 DEF Guarded, Deletes
  <1> QED
    BY <1>2, <1>3

LEMMA DeletesKeep == ASSUME Deletes PROVE Keeps
  BY DEF Deletes, Keeps

\* The write of a crawl whose copy is of its tap gives no row another owner.
LEMMA WriteKeeps ==
    ASSUME TypeInv, NEW r \in Reqs, WriteAll(r),
           req[r].copy # NoRow => req[r].copy.bacaro = req[r].tap
    PROVE  Keeps
  <1> DEFINE q == req[r]
             first == Merged(rows[q.app], q.copy, NewRow(q))
  <1>0. /\ q \in Crawl /\ q.tap \in Taps /\ q.app \in Apps /\ q.todo \subseteq Apps
        /\ ~ Conflict(q.copy, rows[q.app]) /\ rows' = Pruned(q)
        /\ rows \in [Apps -> Row \cup {NoRow}]
    BY RequestKinds DEF WriteAll, At, TypeInv, TypeOK, Crawl
  <1>1. NewRow(q).bacaro = q.tap
    BY DEF NewRow
  <1>2. rows[q.app] # NoRow => first.bacaro = rows[q.app].bacaro
    BY <1>0, <1>1 DEF Merged, Conflict, Column
  <1>3. /\ AfterFirst(q)[q.app] = first
        /\ \A a \in Apps : a # q.app => AfterFirst(q)[a] = rows[a]
    BY <1>0 DEF AfterFirst
  <1>4. ASSUME NEW a \in Apps, rows[a] # NoRow
        PROVE  Upserted(q)[a] = NoRow \/ Upserted(q)[a].bacaro = rows[a].bacaro
    <2>1. CASE a = q.app
      BY <1>2, <1>3, <1>4, <2>1 DEF Upserted
    <2>2. CASE a # q.app /\ a \in Taken(q)
      <3>1. ~ Foreign(q.tap, AfterFirst(q)[a])
        BY <2>2 DEF Taken
      <3>2. rows[a].bacaro = q.tap
        BY <1>3, <1>4, <2>2, <3>1 DEF Foreign
      <3>3. Upserted(q)[a] = NewRow(q)
        BY <2>2 DEF Upserted
      <3> QED
        BY <1>1, <3>2, <3>3
    <2>3. CASE a # q.app /\ a \notin Taken(q)
      BY <1>3, <2>3 DEF Upserted
    <2> QED
      BY <2>1, <2>2, <2>3
  <1> QED
    BY <1>0, <1>4 DEF Keeps, Pruned

LEMMA HijackCrawlStep ==
    ASSUME HijackInv, OneLocked, TypeInv', NEW r \in Reqs, CrawlStep(r)
    PROVE  HijackInv' /\ Keeps
  <1> USE DEF At
  <1> DEFINE t == req[r].tap
  <1>0. /\ req[r] # NoReq /\ req[r] \in Crawl /\ t \in Taps /\ req \in [Reqs -> Request \cup {NoReq}]
        /\ Guarded(req[r], r, locks, rows)
    BY RequestKinds DEF CrawlStep, CloneTap, CloneFails, Acquire, NextFile, MergeFile, WriteAll,
       WriteFails, SelectStale, PruneStale, RecordLoad, RecordSave, HijackInv, TypeInv, TypeOK
  <1>k. rows' = rows => Deletes /\ Keeps
    BY DEF Deletes, Keeps
  <1>e. ASSUME NEW n, NEW e, Ended(r, n, e)
        PROVE  \E q : req' = [req EXCEPT ![r] = q] /\ Guarded(q, r, locks', rows')
    <2>1. CASE req[r].op = "ingest"
      <3> DEFINE q == [req[r] EXCEPT !.pc = "record", !.result = [count |-> n, error |-> e]]
      <3>1. q.pc = "record"
        BY <1>0 DEF Crawl
      <3>2. Guarded(q, r, locks', rows')
        BY <3>1 DEF Guarded
      <3>3. req' = [req EXCEPT ![r] = q]
        BY <1>e, <2>1 DEF Ended
      <3> QED
        BY <3>2, <3>3
    <2>2. CASE req[r].op # "ingest"
      BY <1>e, <2>2 DEF Ended, Guarded
    <2> QED
      BY <2>1, <2>2
  <1>1. CASE CloneTap(r) \/ RecordLoad(r)
    <2> DEFINE q == IF req[r].pc = "clone" THEN [req[r] EXCEPT !.pc = "lock", !.clone = upstream[t]]
                    ELSE [req[r] EXCEPT !.pc = "save", !.rec = bacari[t]]
    <2>1. q.pc \in {"lock", "save"}
      BY <1>0 DEF Crawl
    <2>2. req' = [req EXCEPT ![r] = q] /\ rows' = rows /\ locks' = locks
      BY <1>0, <1>1 DEF CloneTap, RecordLoad
    <2>3. Guarded(q, r, locks', rows')
      BY <2>1 DEF Guarded
    <2> HIDE DEF q
    <2> QED
      BY <1>k, <2>2, <2>3, GuardedStep
  <1>2. CASE CloneFails(r)
    <2>1. PICK q : req' = [req EXCEPT ![r] = q] /\ Guarded(q, r, locks', rows')
      BY <1>2, <1>e DEF CloneFails
    <2> QED
      BY <1>2, <1>k, <2>1, GuardedStep DEF CloneFails
  <1>3. CASE Acquire(r)
    <2> DEFINE q == [req[r] EXCEPT !.pc = "next", !.todo = req[r].clone.valid]
    <2>1. q.pc = "next" /\ q.tap = t
      BY <1>0 DEF Crawl
    <2>2. /\ req' = [req EXCEPT ![r] = q] /\ rows' = rows
          /\ locks[t] = NoReq /\ locks' = [locks EXCEPT ![t] = r]
      BY <1>0, <1>3 DEF Acquire, Free
    <2>3. Guarded(q, r, locks', rows')
      BY <1>0, <2>1, <2>2 DEF Guarded, HijackInv, TypeInv, TypeOK
    <2> HIDE DEF q
    <2> QED
      BY <1>0, <1>k, <2>2, <2>3, GuardedStep
  <1>4. CASE NextFile(r)
    <2>1. PICK a \in req[r].todo :
            req' = [req EXCEPT ![r] =
                      IF Foreign(t, rows[a])
                      THEN [req[r] EXCEPT !.todo = @ \ {a}]
                      ELSE [req[r] EXCEPT !.todo = @ \ {a}, !.pc = "merge",
                                          !.app = a, !.copy = rows[a]]]
      BY <1>4 DEF NextFile
    <2> DEFINE skip == [req[r] EXCEPT !.todo = @ \ {a}]
               take == [req[r] EXCEPT !.todo = @ \ {a}, !.pc = "merge",
                                      !.app = a, !.copy = rows[a]]
    <2>2. req[r].pc = "next" /\ locks[t] = r /\ rows' = rows /\ locks' = locks
      BY <1>0, <1>4 DEF NextFile, Guarded
    <2>3. Guarded(skip, r, locks', rows')
      <3>1. skip.pc = "next" /\ skip.tap = t
        BY <1>0, <2>2 DEF Crawl
      <3> QED
        BY <2>2, <3>1 DEF Guarded
    <2>4. ~ Foreign(t, rows[a]) => Guarded(take, r, locks', rows')
      <3>1. take.pc = "merge" /\ take.tap = t /\ take.app = a /\ take.copy = rows[a]
        BY <1>0 DEF Crawl
      <3> QED
        BY <2>2, <3>1 DEF Guarded, Foreign
    <2>5. \/ req' = [req EXCEPT ![r] = skip]
          \/ ~ Foreign(t, rows[a]) /\ req' = [req EXCEPT ![r] = take]
      BY <2>1
    <2> HIDE DEF skip, take
    <2> QED
      BY <1>k, <2>2, <2>3, <2>4, <2>5, GuardedStep
  <1>5. CASE MergeFile(r)
    <2> DEFINE c == IF req[r].copy = NoRow THEN rows[req[r].app] ELSE req[r].copy
               q == [req[r] EXCEPT !.pc = "write", !.copy = c]
    <2>1. /\ req[r].pc = "merge" /\ locks[t] = r /\ rows' = rows /\ locks' = locks
          /\ req[r].copy # NoRow => req[r].copy.bacaro = t
          /\ req[r].copy = NoRow => rows[req[r].app] = NoRow
      BY <1>0, <1>5 DEF MergeFile, Guarded
    <2>2. q.pc = "write" /\ q.tap = t /\ q.copy = c
      BY <1>0 DEF Crawl
    <2>3. Guarded(q, r, locks', rows')
      BY <2>1, <2>2 DEF Guarded
    <2>4. req' = [req EXCEPT ![r] = q]
      BY <1>0, <1>5 DEF MergeFile
    <2> HIDE DEF q
    <2> QED
      BY <1>k, <2>1, <2>3, <2>4, GuardedStep
  <1>6. CASE WriteAll(r)
    <2>1. PICK q : req' = [req EXCEPT ![r] = q] /\ Guarded(q, r, locks', rows')
      BY <1>6, <1>e DEF WriteAll
    <2>2. HoldsLock(r) /\ locks' = [locks EXCEPT ![t] = NoReq]
      BY <1>0, <1>6 DEF WriteAll, Release, Guarded, HoldsLock
    <2>3. req[r].copy # NoRow => req[r].copy.bacaro = t
      BY <1>0, <1>6 DEF WriteAll, Guarded
    <2>4. Keeps
      BY <1>6, <2>3, WriteKeeps DEF HijackInv
    <2> QED
      BY <1>0, <2>1, <2>2, <2>4, GuardedStep
  <1>7. CASE WriteFails(r) \/ PruneStale(r)
    <2>1. PICK q : req' = [req EXCEPT ![r] = q] /\ Guarded(q, r, locks', rows')
      BY <1>7, <1>e DEF WriteFails, PruneStale
    <2>2. HoldsLock(r) /\ locks' = [locks EXCEPT ![t] = NoReq]
      BY <1>0, <1>7 DEF WriteFails, PruneStale, Release, Guarded, HoldsLock
    <2>3. Deletes
      BY <1>k, <1>7 DEF WriteFails, PruneStale, Without, Deletes
    <2> QED
      BY <1>0, <2>1, <2>2, <2>3, DeletesKeep, GuardedStep
  <1>8. CASE SelectStale(r)
    <2> DEFINE q == [req[r] EXCEPT !.pc = "prune", !.stale = RowsOf(t, rows)]
    <2>1. /\ locks[t] = r /\ rows' = rows /\ locks' = locks /\ req' = [req EXCEPT ![r] = q]
      BY <1>0, <1>8 DEF SelectStale, Guarded
    <2>2. q.pc = "prune" /\ q.tap = t
      BY <1>0 DEF Crawl
    <2>3. Guarded(q, r, locks', rows')
      BY <2>1, <2>2 DEF Guarded
    <2> HIDE DEF q
    <2> QED
      BY <1>k, <2>1, <2>3, GuardedStep
  <1>9. CASE RecordSave(r)
    <2>1. req' = [req EXCEPT ![r] = NoReq] /\ rows' = rows /\ locks' = locks
      BY <1>9 DEF RecordSave
    <2>2. Guarded(NoReq, r, locks', rows')
      BY DEF Guarded
    <2> QED
      BY <1>k, <2>1, <2>2, GuardedStep
  <1> QED
    BY <1>1, <1>2, <1>3, <1>4, <1>5, <1>6, <1>7, <1>8, <1>9 DEF CrawlStep

LEMMA HijackOtherStep ==
    ASSUME HijackInv, OneLocked, TypeInv'
    PROVE  /\ \A r \in Reqs : DropStep(r) => HijackInv' /\ Keeps
           /\ \A r \in Reqs, t \in Taps, op \in {"ingest", "import"} :
                BeginCrawl(r, t, op) => HijackInv' /\ Keeps
           /\ \A r \in Reqs, t \in Taps : BeginDrop(r, t) => HijackInv' /\ Keeps
           /\ \A t \in Taps : Push(t) => HijackInv' /\ Keeps
           /\ UNCHANGED vars => HijackInv' /\ Keeps
  <1>k. rows' = rows => Deletes /\ Keeps
    BY DEF Deletes, Keeps
  <1>1. ASSUME NEW r \in Reqs, DropStep(r) PROVE HijackInv' /\ Keeps
    <2>1. PICK q : /\ req' = [req EXCEPT ![r] = q] /\ locks' = locks
                   /\ q # NoReq => q.pc = "delete"
      <3>1. req[r] \in Drop
        BY <1>1, RequestKinds DEF DropStep, DropSelect, DropDelete, At, HijackInv, TypeInv
      <3>2. CASE DropSelect(r)
        <4> DEFINE q == [req[r] EXCEPT !.pc = "delete", !.stale = RowsOf(req[r].tap, rows)]
        <4>1. q.pc = "delete"
          BY <3>1 DEF Drop
        <4>2. req' = [req EXCEPT ![r] = q] /\ locks' = locks
          BY <3>2 DEF DropSelect, HijackInv, TypeInv, TypeOK
        <4> QED
          BY <4>1, <4>2
      <3>3. CASE DropDelete(r)
        BY <3>3 DEF DropDelete
      <3> QED
        BY <1>1, <3>2, <3>3 DEF DropStep
    <2>2. Deletes
      BY <1>1, <1>k DEF DropStep, DropSelect, DropDelete, Without, Deletes
    <2>3. Guarded(q, r, locks', rows')
      BY <2>1 DEF Guarded
    <2> QED
      BY <2>1, <2>2, <2>3, DeletesKeep, GuardedStep
  <1>2. ASSUME NEW r \in Reqs, NEW t \in Taps, NEW op \in {"ingest", "import"},
               BeginCrawl(r, t, op)
        PROVE  HijackInv' /\ Keeps
    <2>1. Guarded(Started(t, op), r, locks', rows')
      BY DEF Guarded, Started
    <2>2. req' = [req EXCEPT ![r] = Started(t, op)] /\ rows' = rows /\ locks' = locks
      BY <1>2 DEF BeginCrawl, Started
    <2> QED
      BY <1>k, <2>1, <2>2, GuardedStep
  <1>3. ASSUME NEW r \in Reqs, NEW t \in Taps, BeginDrop(r, t) PROVE HijackInv' /\ Keeps
    <2>1. Guarded(Dropped(t), r, locks', rows')
      BY DEF Guarded, Dropped
    <2>2. req' = [req EXCEPT ![r] = Dropped(t)] /\ rows' = rows /\ locks' = locks
      BY <1>3 DEF BeginDrop, Dropped
    <2> QED
      BY <1>k, <2>1, <2>2, GuardedStep
  <1>4. ASSUME NEW t \in Taps, Push(t) PROVE HijackInv' /\ Keeps
    BY <1>4, <1>k DEF Push, HijackInv
  <1>5. ASSUME UNCHANGED vars PROVE HijackInv' /\ Keeps
    BY <1>5, <1>k DEF vars, HijackInv
  <1> QED
    BY <1>1, <1>2, <1>3, <1>4, <1>5

LEMMA HijackInit == Init => HijackInv
  BY TypeInit DEF Init, HijackInv, Guarded

LEMMA HijackNext ==
    ASSUME HijackInv, OneLocked, [Next]_vars
    PROVE  HijackInv' /\ Keeps
  <1>1. TypeInv'
    BY TypeNext DEF HijackInv
  <1>2. CASE Next
    BY <1>1, <1>2, NextCases, HijackCrawlStep, HijackOtherStep
  <1>3. CASE UNCHANGED vars
    BY <1>1, <1>3, HijackOtherStep
  <1> QED
    BY <1>2, <1>3

\* As long as the directories of two taps are not read and written at once, no tap ever
\* takes over an app of another, also where taps publish the same ids, whatever fails
\* and however crawls of one tap, drops and pushes overlap (anti-hijack,
\* _ingest_directory_locked). The lock is one per tap, so the code does not see to it
\* that taps take turns: CatalogOwners.cfg.
THEOREM NoHijack == Spec /\ []OneLocked => OwnerKeepsId
  <1>1. HijackInv /\ OneLocked /\ [Next]_vars => HijackInv'
    BY HijackNext
  <1>2. HijackInv /\ OneLocked /\ [Next]_vars =>
          [\A a \in Apps : rows[a] # NoRow /\ rows'[a] # NoRow
                             => rows'[a].bacaro = rows[a].bacaro]_vars
    BY HijackNext DEF Keeps
  <1> QED
    BY <1>1, <1>2, HijackInit, PTL DEF Spec, OwnerKeepsId

-----------------------------------------------------------------------------
\* When no two taps use the same id, what a crawl of a tap has in hand is of
\* that tap: the ids it may still take, and the row it loaded.
Of(t, row) == row.bacaro = t /\ row.raw.tap = t
Belongs(q) ==
    q # NoReq /\ q.op # "drop" =>
      /\ q.clone.valid \subseteq May[q.tap] /\ q.todo \subseteq May[q.tap]
      /\ q.pc \in {"merge", "write"} => /\ q.app \in May[q.tap]
                                        /\ q.copy # NoRow => Of(q.tap, q.copy)

\* The inductive invariant: the same of the repositories and of every row.
OwnInv ==
    /\ TypeInv
    /\ \A t \in Taps : upstream[t].valid \subseteq May[t]
    /\ \A a \in Apps : rows[a] # NoRow => a \in May[rows[a].bacaro] /\ Of(rows[a].bacaro, rows[a])
    /\ \A r \in Reqs : Belongs(req[r])

OwnRows(db) ==
    \A a \in Apps : db[a] # NoRow => a \in May[db[a].bacaro] /\ Of(db[a].bacaro, db[a])

LEMMA OwnStep ==
    ASSUME OwnInv, TypeInv', NEW r \in Reqs, NEW q, Belongs(q),
           req' = [req EXCEPT ![r] = q], upstream' = upstream, OwnRows(rows')
    PROVE  OwnInv'
  BY DEF OwnInv, OwnRows, TypeInv, TypeOK

\* What the write of a crawl makes of the rows: each manifest it took is a row
\* of the tap, its other rows are gone, and those of other taps as they were.
LEMMA WrittenRows ==
    ASSUME Namespaces, OwnInv, NEW r \in Reqs, WriteAll(r)
    PROVE  /\ Taken(req[r]) \subseteq May[req[r].tap]
           /\ \A a \in Taken(req[r]) : rows'[a] # NoRow /\ Of(req[r].tap, rows'[a])
           /\ \A a \in Apps \ Taken(req[r]) :
                rows'[a] = IF a \in RowsOf(req[r].tap, rows) THEN NoRow ELSE rows[a]
           /\ \A a \in Taken(req[r]) : rows[a] # NoRow => rows[a].bacaro = req[r].tap
  <1> DEFINE q == req[r]
             t == req[r].tap
             first == Merged(rows[q.app], q.copy, NewRow(q))
  <1>0. /\ q \in Crawl /\ t \in Taps /\ q.op # "drop" /\ q.pc = "write" /\ q.app \in Apps
        /\ ~ Conflict(q.copy, rows[q.app]) /\ rows' = Pruned(q) /\ q # NoReq
    BY RequestKinds DEF WriteAll, At, OwnInv, TypeInv, Crawl
  <1>1. /\ q.app \in May[t] /\ q.todo \subseteq May[t]
        /\ q.copy # NoRow => Of(t, q.copy)
    BY <1>0 DEF OwnInv, Belongs
  <1>2. \A a \in May[t] : rows[a] # NoRow => rows[a].bacaro = t /\ Of(t, rows[a])
    <2> SUFFICES ASSUME NEW a \in May[t], rows[a] # NoRow
                 PROVE  rows[a].bacaro = t /\ Of(t, rows[a])
      OBVIOUS
    <2>1. a \in Apps
      BY <1>0, MayAssumption
    <2>2. rows[a].bacaro \in Taps
      BY <2>1 DEF Row, OwnInv, TypeInv, TypeOK
    <2> QED
      BY <1>0, <2>1, <2>2 DEF OwnInv, Namespaces
  <1>3. NewRow(q) # NoRow /\ Of(t, NewRow(q)) /\ NewRow(q) \in Row
    BY <1>0, NullsAssumption DEF NewRow, Of, Row, Manifest, Crawl, Clone
  <1>4. first # NoRow /\ Of(t, first)
    <2>1. CASE q.copy = NoRow
      BY <1>3, <2>1 DEF Merged
    <2>2. CASE q.copy # NoRow
      <3>1. rows[q.app] # NoRow /\ rows[q.app] \in Row
        BY <1>0, <2>2 DEF Conflict, OwnInv, TypeInv, TypeOK
      <3>2. Of(t, rows[q.app])
        BY <1>1, <1>2, <3>1
      <3>3. first \in Row
        BY <1>0, <1>3, <2>2, <3>1 DEF Merged, Column, Row
      <3>4. Of(t, first)
        BY <1>3, <2>2, <3>2 DEF Merged, Column, Of
      <3> QED
        BY <3>3, <3>4, NullsAssumption
    <2> QED
      BY <2>1, <2>2
  <1>5. /\ AfterFirst(q)[q.app] = first
        /\ \A a \in Apps : a # q.app => AfterFirst(q)[a] = rows[a]
    BY <1>0 DEF AfterFirst, OwnInv, TypeInv, TypeOK
  <1>6. Taken(q) \subseteq May[t] /\ q.app \in Taken(q) /\ Taken(q) \subseteq Apps
    BY <1>0, <1>1, MayAssumption DEF Taken, Crawl
  <1>7. \A a \in Taken(q) : Upserted(q)[a] # NoRow /\ Of(t, Upserted(q)[a])
    BY <1>3, <1>4, <1>5, <1>6 DEF Upserted
  <1>8. \A a \in Apps \ Taken(q) : Upserted(q)[a] = rows[a]
    BY <1>5, <1>6 DEF Upserted
  <1>9. \A a \in Taken(q) : rows'[a] = Upserted(q)[a]
    BY <1>0, <1>6 DEF Pruned
  <1>10. \A a \in Apps \ Taken(q) :
           rows'[a] = IF a \in RowsOf(t, rows) THEN NoRow ELSE rows[a]
    BY <1>0, <1>8 DEF Pruned, RowsOf
  <1> QED
    BY <1>2, <1>6, <1>7, <1>9, <1>10

LEMMA KeptRows ==
    ASSUME OwnInv, \A a \in Apps : rows'[a] = NoRow \/ rows'[a] = rows[a]
    PROVE  OwnRows(rows')
  BY DEF OwnInv, OwnRows

LEMMA OwnCrawlStep ==
    ASSUME Namespaces, OwnInv, TypeInv', NEW r \in Reqs, CrawlStep(r)
    PROVE  OwnInv'
  <1> USE DEF At
  <1> DEFINE t == req[r].tap
  <1>0. /\ req[r] # NoReq /\ req[r] \in Crawl /\ t \in Taps /\ req[r].op # "drop"
        /\ Belongs(req[r])
    BY RequestKinds DEF CrawlStep, CloneTap, CloneFails, Acquire, NextFile, MergeFile, WriteAll,
       WriteFails, SelectStale, PruneStale, RecordLoad, RecordSave, OwnInv, TypeInv, Crawl
  <1>k. rows' = rows => OwnRows(rows')
    BY KeptRows
  <1>e. ASSUME NEW n, NEW e, Ended(r, n, e)
        PROVE  \E q : /\ req' = [req EXCEPT ![r] = q]
                      /\ Belongs(q)
    <2>1. CASE req[r].op = "ingest"
      <3> DEFINE q == [req[r] EXCEPT !.pc = "record", !.result = [count |-> n, error |-> e]]
      <3>1. Belongs(q)
        BY <1>0 DEF Belongs, Crawl
      <3>2. req' = [req EXCEPT ![r] = q]
        BY <1>e, <2>1 DEF Ended
      <3> QED
        BY <3>1, <3>2
    <2>2. CASE req[r].op # "ingest"
      BY <1>e, <2>2 DEF Ended, Belongs
    <2> QED
      BY <2>1, <2>2
  <1>1. CASE CloneTap(r)
    <2> DEFINE q == [req[r] EXCEPT !.pc = "lock", !.clone = upstream[t]]
    <2>1. Belongs(q)
      BY <1>0 DEF Belongs, Crawl, OwnInv
    <2>2. req' = [req EXCEPT ![r] = q]
      BY <1>0, <1>1 DEF CloneTap, OwnInv, TypeInv, TypeOK
    <2> HIDE DEF q
    <2> QED
      BY <1>1, <1>k, <2>1, <2>2, OwnStep DEF CloneTap
  <1>2. CASE CloneFails(r)
    <2>1. PICK q : req' = [req EXCEPT ![r] = q] /\ Belongs(q)
      BY <1>2, <1>e DEF CloneFails
    <2> QED
      BY <1>2, <1>k, <2>1, OwnStep DEF CloneFails
  <1>3. CASE Acquire(r)
    <2> DEFINE q == [req[r] EXCEPT !.pc = "next", !.todo = req[r].clone.valid]
    <2>1. Belongs(q)
      BY <1>0 DEF Belongs, Crawl
    <2>2. req' = [req EXCEPT ![r] = q]
      BY <1>0, <1>3 DEF Acquire, OwnInv, TypeInv, TypeOK
    <2> HIDE DEF q
    <2> QED
      BY <1>3, <1>k, <2>1, <2>2, OwnStep DEF Acquire
  <1>4. CASE NextFile(r)
    <2>1. PICK a \in req[r].todo :
            req' = [req EXCEPT ![r] =
                      IF Foreign(t, rows[a])
                      THEN [req[r] EXCEPT !.todo = @ \ {a}]
                      ELSE [req[r] EXCEPT !.todo = @ \ {a}, !.pc = "merge",
                                          !.app = a, !.copy = rows[a]]]
      BY <1>4 DEF NextFile
    <2>2. a \in Apps /\ a \in May[t]
      BY <1>0 DEF Belongs, Crawl
    <2> DEFINE skip == [req[r] EXCEPT !.todo = @ \ {a}]
               take == [req[r] EXCEPT !.todo = @ \ {a}, !.pc = "merge",
                                      !.app = a, !.copy = rows[a]]
    <2>3. Belongs(skip)
      BY <1>0, <1>4 DEF Belongs, Crawl, NextFile
    <2>4. ~ Foreign(t, rows[a]) => Belongs(take)
      BY <1>0, <2>2 DEF Belongs, Crawl, Foreign, OwnInv
    <2>5. \/ req' = [req EXCEPT ![r] = skip]
          \/ ~ Foreign(t, rows[a]) /\ req' = [req EXCEPT ![r] = take]
      BY <2>1
    <2> HIDE DEF skip, take
    <2> QED
      BY <1>4, <1>k, <2>3, <2>4, <2>5, OwnStep DEF NextFile
  <1>5. CASE MergeFile(r)
    <2> DEFINE c == IF req[r].copy = NoRow THEN rows[req[r].app] ELSE req[r].copy
               q == [req[r] EXCEPT !.pc = "write", !.copy = c]
    <2>1. req[r].app \in Apps /\ req[r].app \in May[t]
      BY <1>0, <1>5 DEF MergeFile, Belongs, OwnInv, TypeInv
    <2>2. rows[req[r].app] # NoRow => Of(t, rows[req[r].app])
      <3>1. rows[req[r].app] # NoRow => rows[req[r].app].bacaro \in Taps
        BY <2>1 DEF Row, OwnInv, TypeInv, TypeOK
      <3> QED
        BY <1>0, <2>1, <3>1 DEF OwnInv, Namespaces
    <2>3. c # NoRow => Of(t, c)
      BY <1>0, <1>5, <2>2 DEF Belongs, MergeFile
    <2>4. Belongs(q)
      BY <1>0, <2>1, <2>3 DEF Belongs, Crawl
    <2>5. req' = [req EXCEPT ![r] = q]
      BY <1>0, <1>5 DEF MergeFile, OwnInv, TypeInv, TypeOK
    <2> HIDE DEF q
    <2> QED
      BY <1>5, <1>k, <2>4, <2>5, OwnStep DEF MergeFile
  <1>6. CASE WriteAll(r)
    <2>1. PICK q : req' = [req EXCEPT ![r] = q] /\ Belongs(q)
      BY <1>6, <1>e DEF WriteAll
    <2>2. Taken(req[r]) \subseteq Apps
      BY <1>0, <1>6 DEF Taken, OwnInv, TypeInv, WriteAll, Crawl
    <2>3. OwnRows(rows')
      BY <1>0, <1>6, <2>2, WrittenRows DEF OwnRows, Of, OwnInv
    <2> QED
      BY <1>6, <2>1, <2>3, OwnStep DEF WriteAll
  <1>7. CASE WriteFails(r)
    <2>1. PICK q : req' = [req EXCEPT ![r] = q] /\ Belongs(q)
      BY <1>7, <1>e DEF WriteFails
    <2> QED
      BY <1>7, <1>k, <2>1, OwnStep DEF WriteFails
  <1>8. CASE SelectStale(r)
    <2> DEFINE q == [req[r] EXCEPT !.pc = "prune", !.stale = RowsOf(t, rows)]
    <2>1. Belongs(q)
      BY <1>0 DEF Belongs, Crawl
    <2>2. req' = [req EXCEPT ![r] = q]
      BY <1>0, <1>8 DEF SelectStale, OwnInv, TypeInv, TypeOK
    <2> HIDE DEF q
    <2> QED
      BY <1>8, <1>k, <2>1, <2>2, OwnStep DEF SelectStale
  <1>9. CASE PruneStale(r)
    <2>1. PICK q : req' = [req EXCEPT ![r] = q] /\ Belongs(q)
      BY <1>9, <1>e DEF PruneStale
    <2>2. \A a \in Apps : rows'[a] = NoRow \/ rows'[a] = rows[a]
      BY <1>9 DEF PruneStale, Without
    <2> QED
      BY <1>9, <2>1, <2>2, KeptRows, OwnStep DEF PruneStale
  <1>10. CASE RecordLoad(r)
    <2> DEFINE q == [req[r] EXCEPT !.pc = "save", !.rec = bacari[t]]
    <2>1. Belongs(q)
      BY <1>0 DEF Belongs, Crawl
    <2>2. req' = [req EXCEPT ![r] = q]
      BY <1>0, <1>10 DEF RecordLoad, OwnInv, TypeInv, TypeOK
    <2> HIDE DEF q
    <2> QED
      BY <1>10, <1>k, <2>1, <2>2, OwnStep DEF RecordLoad
  <1>11. CASE RecordSave(r)
    <2>1. Belongs(NoReq)
      BY DEF Belongs
    <2> QED
      BY <1>11, <1>k, <2>1, OwnStep DEF RecordSave
  <1> QED
    BY <1>1, <1>2, <1>3, <1>4, <1>5, <1>6, <1>7, <1>8, <1>9, <1>10, <1>11 DEF CrawlStep

LEMMA OwnOtherStep ==
    ASSUME OwnInv, TypeInv'
    PROVE  /\ \A r \in Reqs : DropStep(r) => OwnInv'
           /\ \A r \in Reqs, t \in Taps, op \in {"ingest", "import"} :
                BeginCrawl(r, t, op) => OwnInv'
           /\ \A r \in Reqs, t \in Taps : BeginDrop(r, t) => OwnInv'
           /\ \A t \in Taps : Push(t) => OwnInv'
           /\ UNCHANGED vars => OwnInv'
  <1>k. rows' = rows => OwnRows(rows')
    BY KeptRows
  <1>1. ASSUME NEW r \in Reqs, DropStep(r) PROVE OwnInv'
    <2>0. req[r] # NoReq /\ req[r] \in Drop
      BY <1>1, RequestKinds DEF DropStep, DropSelect, DropDelete, At, OwnInv, TypeInv
    <2>1. CASE DropSelect(r)
      <3> DEFINE q == [req[r] EXCEPT !.pc = "delete", !.stale = RowsOf(req[r].tap, rows)]
      <3>1. Belongs(q)
        BY <2>0 DEF Belongs, Drop
      <3>2. req' = [req EXCEPT ![r] = q]
        BY <2>0, <2>1 DEF DropSelect, OwnInv, TypeInv, TypeOK
      <3> HIDE DEF q
      <3> QED
        BY <2>1, <1>k, <3>1, <3>2, OwnStep DEF DropSelect
    <2>2. CASE DropDelete(r)
      <3>1. Belongs(NoReq)
        BY DEF Belongs
      <3>2. \A a \in Apps : rows'[a] = NoRow \/ rows'[a] = rows[a]
        BY <2>2 DEF DropDelete, Without
      <3> QED
        BY <2>2, <3>1, <3>2, KeptRows, OwnStep DEF DropDelete
    <2> QED
      BY <1>1, <2>1, <2>2 DEF DropStep
  <1>2. ASSUME NEW r \in Reqs, NEW t \in Taps, NEW op \in {"ingest", "import"},
               BeginCrawl(r, t, op)
        PROVE  OwnInv'
    <2>1. Belongs(Started(t, op))
      BY DEF Belongs, Started, Nothing
    <2>2. req' = [req EXCEPT ![r] = Started(t, op)]
      BY <1>2 DEF BeginCrawl, Started
    <2> QED
      BY <1>2, <1>k, <2>1, <2>2, OwnStep DEF BeginCrawl
  <1>3. ASSUME NEW r \in Reqs, NEW t \in Taps, BeginDrop(r, t) PROVE OwnInv'
    <2>1. Belongs(Dropped(t))
      BY DEF Belongs, Dropped
    <2>2. req' = [req EXCEPT ![r] = Dropped(t)]
      BY <1>3 DEF BeginDrop, Dropped
    <2> QED
      BY <1>3, <1>k, <2>1, <2>2, OwnStep DEF BeginDrop
  <1>4. ASSUME NEW t \in Taps, Push(t) PROVE OwnInv'
    <2>1. PICK S \in SUBSET May[t] :
            upstream' = [upstream EXCEPT ![t] = [rev |-> upstream[t].rev + 1, valid |-> S]]
      BY <1>4 DEF Push
    <2>2. \A u \in Taps : upstream'[u].valid \subseteq May[u]
      BY <2>1 DEF OwnInv, TypeInv, TypeOK
    <2> QED
      BY <1>4, <1>k, <2>2 DEF Push, OwnInv, OwnRows
  <1>5. ASSUME UNCHANGED vars PROVE OwnInv'
    BY <1>5, <1>k DEF vars, OwnInv, OwnRows
  <1> QED
    BY <1>1, <1>2, <1>3, <1>4, <1>5

LEMMA OwnInit == Init => OwnInv
  BY TypeInit DEF Init, OwnInv, Nothing, Belongs

LEMMA OwnNext ==
    ASSUME Namespaces, OwnInv, [Next]_vars
    PROVE  OwnInv'
  <1>1. TypeInv'
    BY TypeNext DEF OwnInv
  <1>2. CASE Next
    BY <1>1, <1>2, NextCases, OwnCrawlStep, OwnOtherStep
  <1>3. CASE UNCHANGED vars
    BY <1>1, <1>3, OwnOtherStep
  <1> QED
    BY <1>2, <1>3

-----------------------------------------------------------------------------
\* With no drop on the way, a crawl that is at the rows of its tap holds the
\* lock of the tap, so the stale rows it selected are still those of the tap.
Holds(r) ==
    req[r] # NoReq =>
      /\ req[r].op # "drop"
      /\ req[r].pc \in {"next", "merge", "write", "prune"} => locks[req[r].tap] = r
      /\ req[r].pc = "prune" => req[r].stale = RowsOf(req[r].tap, rows)
LockInv == OwnInv /\ TapIsProjection /\ \A r \in Reqs : Holds(r)

\* A step that changes neither rows nor locks.
LEMMA LockStep ==
    ASSUME LockInv, OwnInv', NEW r \in Reqs, NEW q,
           req' = [req EXCEPT ![r] = q], rows' = rows, locks' = locks, last' = last,
           q # NoReq => /\ q.op # "drop"
                        /\ q.pc \in {"next", "merge", "write", "prune"} => locks[q.tap] = r
                        /\ q.pc = "prune" => q.stale = RowsOf(q.tap, rows)
    PROVE  LockInv'
  <1>1. TapIsProjection'
    BY DEF LockInv, TapIsProjection, RowsOf
  <1>2. \A p \in Reqs : Holds(p)'
    BY DEF LockInv, Holds, RowsOf, OwnInv, TypeInv, TypeOK
  <1> QED
    BY <1>1, <1>2 DEF LockInv

\* A step of the holder of a lock that lets it go, and leaves the rows of
\* every other tap as they were.
LEMMA UnlockStep ==
    ASSUME LockInv, OwnInv', NEW r \in Reqs, NEW q, req[r] # NoReq,
           req[r].pc \in {"next", "merge", "write", "prune"},
           req' = [req EXCEPT ![r] = q],
           q # NoReq => q.op # "drop" /\ q.pc = "record",
           locks' = [locks EXCEPT ![req[r].tap] = NoReq],
           \A t \in Taps \ {req[r].tap} : /\ RowsOf(t, rows') = RowsOf(t, rows)
                                          /\ last'[t] = last[t],
           RowsOf(req[r].tap, rows') = last'[req[r].tap].valid
    PROVE  LockInv'
  <1>1. TapIsProjection'
    BY DEF LockInv, TapIsProjection
  <1>2. ASSUME NEW p \in Reqs PROVE Holds(p)'
    <2>1. CASE p = r
      BY <2>1 DEF LockInv, Holds, OwnInv, TypeInv, TypeOK
    <2>2. CASE p # r /\ req[p] # NoReq
      <3>1. req'[p] = req[p] /\ req[p].tap \in Taps
        BY <2>2, RequestKinds DEF LockInv, OwnInv, TypeInv, TypeOK
      <3>2. CASE req[p].pc \in {"next", "merge", "write", "prune"}
        <4>1. req[p].tap # req[r].tap
          BY <2>2, <3>2 DEF LockInv, Holds
        <4>2. locks'[req[p].tap] = locks[req[p].tap]
          BY <3>1, <4>1 DEF LockInv, OwnInv, TypeInv, TypeOK
        <4>3. RowsOf(req[p].tap, rows') = RowsOf(req[p].tap, rows)
          BY <3>1, <4>1
        <4>4. Holds(p)
          BY DEF LockInv
        <4> HIDE DEF RowsOf
        <4> QED
          BY <2>2, <3>1, <4>2, <4>3, <4>4 DEF Holds
      <3>3. CASE req[p].pc \notin {"next", "merge", "write", "prune"}
        BY <2>2, <3>1, <3>3 DEF LockInv, Holds
      <3> QED
        BY <3>2, <3>3
    <2>3. CASE p # r /\ req[p] = NoReq
      BY <2>3 DEF Holds, LockInv, OwnInv, TypeInv, TypeOK
    <2> QED
      BY <2>1, <2>2, <2>3
  <1> QED
    BY <1>1, <1>2 DEF LockInv

LEMMA LockCrawlStep ==
    ASSUME Namespaces, LockInv, OwnInv', NEW r \in Reqs, CrawlStep(r)
    PROVE  LockInv'
  <1> USE DEF At
  <1> DEFINE t == req[r].tap
  <1>0. /\ req[r] # NoReq /\ req[r] \in Crawl /\ t \in Taps /\ req[r].op # "drop"
        /\ Holds(r) /\ req \in [Reqs -> Request \cup {NoReq}] /\ OwnInv
    BY RequestKinds DEF CrawlStep, CloneTap, CloneFails, Acquire, NextFile, MergeFile, WriteAll,
       WriteFails, SelectStale, PruneStale, RecordLoad, RecordSave, LockInv, OwnInv, TypeInv,
       Crawl, TypeOK
  <1>e. ASSUME NEW n, NEW e, Ended(r, n, e)
        PROVE  \E q : /\ req' = [req EXCEPT ![r] = q]
                      /\ q # NoReq => q.op # "drop" /\ q.pc = "record"
    <2>1. CASE req[r].op = "ingest"
      <3> DEFINE q == [req[r] EXCEPT !.pc = "record", !.result = [count |-> n, error |-> e]]
      <3>1. q.op # "drop" /\ q.pc = "record"
        BY <1>0 DEF Crawl
      <3>2. req' = [req EXCEPT ![r] = q]
        BY <1>e, <2>1 DEF Ended
      <3> QED
        BY <3>1, <3>2
    <2>2. CASE req[r].op # "ingest"
      BY <1>e, <2>2 DEF Ended
    <2> QED
      BY <2>1, <2>2
  <1>1. CASE CloneTap(r)
    <2> DEFINE q == [req[r] EXCEPT !.pc = "lock", !.clone = upstream[t]]
    <2>1. q.op # "drop" /\ q.pc = "lock"
      BY <1>0 DEF Crawl
    <2>2. req' = [req EXCEPT ![r] = q]
      BY <1>0, <1>1 DEF CloneTap
    <2> HIDE DEF q
    <2> QED
      BY <1>1, <2>1, <2>2, LockStep DEF CloneTap
  <1>2. CASE CloneFails(r)
    <2>1. PICK q : /\ req' = [req EXCEPT ![r] = q]
                   /\ q # NoReq => q.op # "drop" /\ q.pc = "record"
      BY <1>2, <1>e DEF CloneFails
    <2> QED
      BY <1>2, <2>1, LockStep DEF CloneFails
  <1>3. CASE Acquire(r)
    <2> DEFINE q == [req[r] EXCEPT !.pc = "next", !.todo = req[r].clone.valid]
    <2>1. q.op # "drop" /\ q.pc = "next" /\ q.tap = t
      BY <1>0 DEF Crawl
    <2>2. req' = [req EXCEPT ![r] = q]
      BY <1>0, <1>3 DEF Acquire
    <2>3. locks' = [locks EXCEPT ![t] = r] /\ locks[t] = NoReq /\ rows' = rows /\ last' = last
      BY <1>3 DEF Acquire, Free
    <2>4. locks \in [Taps -> Reqs \cup {NoReq}]
      BY <1>0 DEF OwnInv, TypeInv, TypeOK
    <2> HIDE DEF q
    <2>5. ASSUME NEW p \in Reqs PROVE Holds(p)'
      <3>1. CASE p = r
        BY <1>0, <2>1, <2>2, <2>3, <2>4, <3>1 DEF Holds
      <3>2. CASE p # r
        <4>1. Holds(p) /\ req'[p] = req[p]
          BY <1>0, <2>2, <3>2 DEF LockInv
        <4>2. NoReq \notin Reqs
          BY NullsAssumption
        <4> QED
          BY <2>3, <2>4, <4>1, <4>2 DEF Holds, RowsOf
      <3> QED
        BY <3>1, <3>2
    <2>6. TapIsProjection'
      BY <2>3 DEF LockInv, TapIsProjection, RowsOf
    <2> QED
      BY <2>5, <2>6 DEF LockInv
  <1>4. CASE NextFile(r)
    <2>1. PICK a \in req[r].todo :
            req' = [req EXCEPT ![r] =
                      IF Foreign(t, rows[a])
                      THEN [req[r] EXCEPT !.todo = @ \ {a}]
                      ELSE [req[r] EXCEPT !.todo = @ \ {a}, !.pc = "merge",
                                          !.app = a, !.copy = rows[a]]]
      BY <1>4 DEF NextFile
    <2> DEFINE skip == [req[r] EXCEPT !.todo = @ \ {a}]
               take == [req[r] EXCEPT !.todo = @ \ {a}, !.pc = "merge",
                                      !.app = a, !.copy = rows[a]]
    <2>2. locks[t] = r /\ req[r].pc = "next"
      BY <1>0, <1>4 DEF NextFile, Holds
    <2>3. skip.op # "drop" /\ skip.pc = "next" /\ skip.tap = t
      BY <1>0, <2>2 DEF Crawl
    <2>4. take.op # "drop" /\ take.pc = "merge" /\ take.tap = t
      BY <1>0 DEF Crawl
    <2>5. req' = [req EXCEPT ![r] = skip] \/ req' = [req EXCEPT ![r] = take]
      BY <2>1
    <2>6. rows' = rows /\ locks' = locks /\ last' = last
      BY <1>4 DEF NextFile
    <2> HIDE DEF skip, take
    <2> QED
      BY <2>2, <2>3, <2>4, <2>5, <2>6, LockStep
  <1>5. CASE MergeFile(r)
    <2> DEFINE q == [req[r] EXCEPT !.pc = "write",
                       !.copy = IF @ = NoRow THEN rows[req[r].app] ELSE @]
    <2>1. q.op # "drop" /\ q.pc = "write" /\ q.tap = t
      BY <1>0 DEF Crawl
    <2>2. req' = [req EXCEPT ![r] = q]
      BY <1>0, <1>5 DEF MergeFile
    <2>3. locks[t] = r
      BY <1>0, <1>5 DEF MergeFile, Holds
    <2>4. rows' = rows /\ locks' = locks /\ last' = last
      BY <1>5 DEF MergeFile
    <2> HIDE DEF q
    <2> QED
      BY <2>1, <2>2, <2>3, <2>4, LockStep
  <1>6. CASE WriteAll(r)
    <2>1. PICK q : /\ req' = [req EXCEPT ![r] = q]
                   /\ q # NoReq => q.op # "drop" /\ q.pc = "record"
      BY <1>6, <1>e DEF WriteAll
    <2>2. /\ \A a \in Taken(req[r]) : rows'[a] # NoRow /\ rows'[a].bacaro = t
          /\ \A a \in Apps \ Taken(req[r]) :
               rows'[a] = IF a \in RowsOf(t, rows) THEN NoRow ELSE rows[a]
          /\ \A a \in Taken(req[r]) : rows[a] # NoRow => rows[a].bacaro = t
      BY <1>0, <1>6, WrittenRows DEF Of
    <2>3. Taken(req[r]) \subseteq Apps
      BY <1>0, <1>6 DEF Taken, OwnInv, TypeInv, WriteAll, Crawl
    <2>4. RowsOf(t, rows') = Taken(req[r])
      BY <2>2, <2>3 DEF RowsOf
    <2>5. \A u \in Taps \ {t} : RowsOf(u, rows') = RowsOf(u, rows)
      BY <2>2, <2>3 DEF RowsOf
    <2>6. /\ last'[t].valid = Taken(req[r])
          /\ \A u \in Taps \ {t} : last'[u] = last[u]
      BY <1>0, <1>6 DEF WriteAll, OwnInv, TypeInv, TypeOK
    <2> QED
      BY <1>0, <1>6, <2>1, <2>4, <2>5, <2>6, UnlockStep DEF WriteAll, Release
  <1>7. CASE WriteFails(r)
    <2>1. PICK q : /\ req' = [req EXCEPT ![r] = q]
                   /\ q # NoReq => q.op # "drop" /\ q.pc = "record"
      BY <1>7, <1>e DEF WriteFails
    <2>2. rows' = rows /\ last' = last /\ RowsOf(t, rows) = last[t].valid
      BY <1>0, <1>7 DEF WriteFails, LockInv, TapIsProjection
    <2> QED
      BY <1>0, <1>7, <2>1, <2>2, UnlockStep DEF WriteFails, Release
  <1>8. CASE SelectStale(r)
    <2> DEFINE q == [req[r] EXCEPT !.pc = "prune", !.stale = RowsOf(t, rows)]
    <2>1. q.op # "drop" /\ q.pc = "prune" /\ q.tap = t /\ q.stale = RowsOf(t, rows)
      BY <1>0 DEF Crawl
    <2>2. req' = [req EXCEPT ![r] = q]
      BY <1>0, <1>8 DEF SelectStale
    <2>3. locks[t] = r
      BY <1>0, <1>8 DEF SelectStale, Holds
    <2>4. rows' = rows /\ locks' = locks /\ last' = last
      BY <1>8 DEF SelectStale
    <2> HIDE DEF q
    <2> QED
      BY <2>1, <2>2, <2>3, <2>4, LockStep
  <1>9. CASE PruneStale(r)
    <2>1. PICK q : /\ req' = [req EXCEPT ![r] = q]
                   /\ q # NoReq => q.op # "drop" /\ q.pc = "record"
      BY <1>9, <1>e DEF PruneStale
    <2>2. req[r].stale = RowsOf(t, rows)
      BY <1>0, <1>9 DEF PruneStale, Holds
    <2>3. \A a \in Apps : rows'[a] = IF a \in RowsOf(t, rows) THEN NoRow ELSE rows[a]
      BY <1>9, <2>2 DEF PruneStale, Without
    <2>4. RowsOf(t, rows') = {} /\ \A u \in Taps \ {t} : RowsOf(u, rows') = RowsOf(u, rows)
      BY <2>3 DEF RowsOf
    <2>5. /\ last'[t].valid = {}
          /\ \A u \in Taps \ {t} : last'[u] = last[u]
      BY <1>0, <1>9 DEF PruneStale, OwnInv, TypeInv, TypeOK
    <2> QED
      BY <1>0, <1>9, <2>1, <2>4, <2>5, UnlockStep DEF PruneStale, Release
  <1>10. CASE RecordLoad(r)
    <2> DEFINE q == [req[r] EXCEPT !.pc = "save", !.rec = bacari[t]]
    <2>1. q.op # "drop" /\ q.pc = "save"
      BY <1>0 DEF Crawl
    <2>2. req' = [req EXCEPT ![r] = q]
      BY <1>0, <1>10 DEF RecordLoad
    <2> HIDE DEF q
    <2> QED
      BY <1>10, <2>1, <2>2, LockStep DEF RecordLoad
  <1>11. CASE RecordSave(r)
    BY <1>11, LockStep DEF RecordSave
  <1> QED
    BY <1>1, <1>2, <1>3, <1>4, <1>5, <1>6, <1>7, <1>8, <1>9, <1>10, <1>11 DEF CrawlStep

LEMMA LockInit == Init => LockInv
  BY OwnInit DEF Init, LockInv, TapIsProjection, Holds, RowsOf, Nothing

LEMMA LockNext ==
    ASSUME Namespaces, LockInv, [Crawls \/ Pushes]_vars
    PROVE  LockInv'
  <1>1. OwnInv'
    BY OwnNext DEF LockInv, Next
  <1>2. ASSUME NEW r \in Reqs, CrawlStep(r) PROVE LockInv'
    BY <1>1, <1>2, LockCrawlStep
  <1>3. ASSUME NEW r \in Reqs, NEW t \in Taps, NEW op \in {"ingest", "import"},
               BeginCrawl(r, t, op)
        PROVE  LockInv'
    <2>1. Started(t, op).op # "drop" /\ Started(t, op).pc = "clone"
      BY DEF Started
    <2>2. req' = [req EXCEPT ![r] = Started(t, op)]
      BY <1>3 DEF BeginCrawl, Started
    <2> QED
      BY <1>1, <1>3, <2>1, <2>2, LockStep DEF BeginCrawl
  <1>4. ASSUME NEW t \in Taps, Push(t) PROVE LockInv'
    BY <1>1, <1>4 DEF Push, LockInv, TapIsProjection, Holds, RowsOf
  <1>5. CASE UNCHANGED vars
    BY <1>1, <1>5 DEF vars, LockInv, TapIsProjection, Holds, RowsOf
  <1> QED
    BY <1>2, <1>3, <1>4, <1>5 DEF Crawls, Pushes

\* The lock of a tap does what it is for: when taps have ids of their own,
\* however many crawls overlap and wherever they fail, each tap shows exactly
\* what the last crawl to commit took over (_ingest_locks, ingest_directory).
THEOREM Projection ==
    ASSUME Namespaces
    PROVE  Crawling => []TapIsProjection
  <1>1. LockInv /\ [Crawls \/ Pushes]_vars => LockInv'
    BY LockNext
  <1>2. LockInv => TapIsProjection
    BY DEF LockInv
  <1> QED
    BY <1>1, <1>2, LockInit, PTL DEF Crawling

-----------------------------------------------------------------------------
(* Crawls that overtake each other.                                        *)

\* A crawl that has its clone and has not committed.
Busy == {"lock", "next", "merge", "write", "prune"}

\* What a request is after a step: as it was, begun, past its clone, or further
\* on with the same clone.
Same(p)    == req'[p] = req[p]
Begun(p)   == req'[p].tap \in Taps /\ req'[p].clone = Nothing /\ req'[p].pc = "clone"
Cloned(p)  == /\ At(p, "clone") /\ req'[p].pc = "lock" /\ req'[p].tap = req[p].tap
              /\ req'[p].clone = upstream[req[p].tap] /\ UNCHANGED <<upstream, last>>
Loaded(p)  == /\ UNCHANGED rows
              /\ \/ req'[p].copy = rows[req'[p].app]
                 \/ /\ At(p, "merge") /\ req'[p].app = req[p].app
                    /\ req'[p].copy = req[p].copy
Further(p) == /\ req[p] # NoReq
              /\ req'[p].tap = req[p].tap /\ req'[p].clone = req[p].clone
              /\ req'[p].pc \in Busy => req[p].pc \in Busy
              /\ req'[p].pc \in {"merge", "write"} => Loaded(p)
Moves(p)   == req'[p] # NoReq => Same(p) \/ Begun(p) \/ Cloned(p) \/ Further(p)

LEMMA MovesCrawl ==
    ASSUME LockInv, NEW r \in Reqs, CrawlStep(r), NEW p \in Reqs
    PROVE  Moves(p)
  <1> USE DEF At
  <1> DEFINE t == req[r].tap
  <1>0. /\ req[r] # NoReq /\ req[r] \in Crawl /\ t \in Taps
        /\ req \in [Reqs -> Request \cup {NoReq}]
    BY RequestKinds DEF CrawlStep, CloneTap, CloneFails, Acquire, NextFile, MergeFile, WriteAll,
       WriteFails, SelectStale, PruneStale, RecordLoad, RecordSave, LockInv, OwnInv, TypeInv,
       TypeOK
  <1>1. ASSUME NEW q, req' = [req EXCEPT ![r] = q], p # r PROVE Moves(p)
    BY <1>1 DEF Moves, Same
  <1>2. ASSUME NEW q, req' = [req EXCEPT ![r] = q]
        PROVE  req'[r] = q
    BY <1>0, <1>2
  <1>e. ASSUME NEW n, NEW e, Ended(r, n, e) PROVE Moves(p)
    <2>1. CASE req[r].op = "ingest"
      <3> DEFINE q == [req[r] EXCEPT !.pc = "record", !.result = [count |-> n, error |-> e]]
      <3>1. q.pc = "record" /\ q.tap = t /\ q.clone = req[r].clone
        BY <1>0 DEF Crawl
      <3>2. req' = [req EXCEPT ![r] = q]
        BY <1>e, <2>1 DEF Ended
      <3> HIDE DEF q
      <3> QED
        BY <1>0, <1>1, <1>2, <3>1, <3>2 DEF Moves, Further, Busy
    <2>2. CASE req[r].op # "ingest"
      BY <1>1, <1>2, <1>e, <2>2 DEF Ended, Moves
    <2> QED
      BY <2>1, <2>2
  <1>3. CASE CloneTap(r)
    <2> DEFINE q == [req[r] EXCEPT !.pc = "lock", !.clone = upstream[t]]
    <2>1. q.pc = "lock" /\ q.tap = t /\ q.clone = upstream[t]
      BY <1>0 DEF Crawl
    <2>2. req' = [req EXCEPT ![r] = q]
      BY <1>0, <1>3 DEF CloneTap
    <2> HIDE DEF q
    <2> QED
      BY <1>0, <1>1, <1>2, <1>3, <2>1, <2>2 DEF Moves, Cloned, CloneTap
  <1>4. CASE Acquire(r) \/ SelectStale(r) \/ RecordLoad(r)
    <2> DEFINE s == [req[r] EXCEPT !.pc = "next", !.todo = req[r].clone.valid]
               u == [req[r] EXCEPT !.pc = "prune", !.stale = RowsOf(t, rows)]
               v == [req[r] EXCEPT !.pc = "save", !.rec = bacari[t]]
    <2>1. /\ s.pc = "next" /\ s.tap = t /\ s.clone = req[r].clone
          /\ u.pc = "prune" /\ u.tap = t /\ u.clone = req[r].clone
          /\ v.pc = "save" /\ v.tap = t /\ v.clone = req[r].clone
      BY <1>0 DEF Crawl
    <2>2. \/ req' = [req EXCEPT ![r] = s] /\ req[r].pc = "lock"
          \/ req' = [req EXCEPT ![r] = u] /\ req[r].pc = "next"
          \/ req' = [req EXCEPT ![r] = v]
      BY <1>0, <1>4 DEF Acquire, SelectStale, RecordLoad
    <2> HIDE DEF s, u, v
    <2> QED
      BY <1>0, <1>1, <1>2, <2>1, <2>2 DEF Moves, Further, Busy
  <1>5. CASE NextFile(r)
    <2>1. PICK a \in req[r].todo :
            req' = [req EXCEPT ![r] =
                      IF Foreign(t, rows[a])
                      THEN [req[r] EXCEPT !.todo = @ \ {a}]
                      ELSE [req[r] EXCEPT !.todo = @ \ {a}, !.pc = "merge",
                                          !.app = a, !.copy = rows[a]]]
      BY <1>5 DEF NextFile
    <2> DEFINE skip == [req[r] EXCEPT !.todo = @ \ {a}]
               take == [req[r] EXCEPT !.todo = @ \ {a}, !.pc = "merge",
                                      !.app = a, !.copy = rows[a]]
    <2>2. /\ skip.pc = req[r].pc /\ skip.tap = t /\ skip.clone = req[r].clone
          /\ take.pc = "merge" /\ take.tap = t /\ take.clone = req[r].clone
          /\ take.app = a /\ take.copy = rows[a]
      BY <1>0 DEF Crawl
    <2>3. req' = [req EXCEPT ![r] = skip] \/ req' = [req EXCEPT ![r] = take]
      BY <2>1
    <2>4. rows' = rows /\ req[r].pc = "next"
      BY <1>5 DEF NextFile
    <2> HIDE DEF skip, take
    <2> QED
      BY <1>0, <1>1, <1>2, <2>2, <2>3, <2>4 DEF Moves, Further, Loaded, Busy
  <1>6. CASE MergeFile(r)
    <2> DEFINE c == IF req[r].copy = NoRow THEN rows[req[r].app] ELSE req[r].copy
               q == [req[r] EXCEPT !.pc = "write", !.copy = c]
    <2>1. /\ q.pc = "write" /\ q.tap = t /\ q.clone = req[r].clone /\ q.app = req[r].app
          /\ q.copy = c
      BY <1>0 DEF Crawl
    <2>2. req' = [req EXCEPT ![r] = q] /\ rows' = rows /\ At(r, "merge")
      BY <1>0, <1>6 DEF MergeFile
    <2> HIDE DEF q
    <2> QED
      BY <1>0, <1>1, <1>2, <2>1, <2>2 DEF Moves, Further, Loaded, Busy
  <1>7. CASE RecordSave(r)
    BY <1>1, <1>2, <1>7 DEF RecordSave, Moves
  <1> QED
    BY <1>e, <1>3, <1>4, <1>5, <1>6, <1>7 DEF CrawlStep, CloneFails, WriteAll, WriteFails, PruneStale

LEMMA MovesNext ==
    ASSUME LockInv, [Crawls \/ Pushes]_vars, NEW p \in Reqs
    PROVE  Moves(p)
  <1>1. ASSUME NEW r \in Reqs, NEW t \in Taps, NEW op \in {"ingest", "import"},
               BeginCrawl(r, t, op)
        PROVE  Moves(p)
    <2>1. /\ Started(t, op).clone = Nothing /\ Started(t, op).pc = "clone"
          /\ Started(t, op).tap = t
      BY DEF Started
    <2>2. req' = [req EXCEPT ![r] = Started(t, op)] /\ r \in DOMAIN req
      BY <1>1 DEF BeginCrawl, Started, LockInv, OwnInv, TypeInv, TypeOK
    <2> QED
      BY <2>1, <2>2 DEF Moves, Same, Begun
  <1>2. CASE Pushes \/ UNCHANGED vars
    BY <1>2 DEF Pushes, Push, vars, Moves, Same
  <1> QED
    BY <1>1, <1>2, MovesCrawl DEF Crawls

\* The tables change by the commit of a crawl only, and revisions only grow.
LEMMA TableStep ==
    ASSUME LockInv, [Crawls \/ Pushes]_vars
    PROVE  /\ UNCHANGED <<rows, last>> \/ \E r \in Reqs : Commits(r)
           /\ \A t \in Taps : /\ upstream[t].rev \in Nat /\ upstream'[t].rev \in Nat
                              /\ upstream[t].rev <= upstream'[t].rev
  <1>0. \A t \in Taps : upstream[t].rev \in Nat
    BY RevAssumption DEF LockInv, OwnInv, TypeInv, TypeOK, Clone, Revs
  <1>1. ASSUME UNCHANGED upstream
        PROVE  \A t \in Taps : /\ upstream[t].rev \in Nat /\ upstream'[t].rev \in Nat
                               /\ upstream[t].rev <= upstream'[t].rev
    BY <1>0, <1>1
  <1>2. ASSUME NEW r \in Reqs, CrawlStep(r)
        PROVE  (UNCHANGED <<rows, last>> \/ Commits(r)) /\ UNCHANGED upstream
    BY <1>2 DEF CrawlStep, CloneTap, CloneFails, Acquire, NextFile, MergeFile, WriteAll,
       WriteFails, SelectStale, PruneStale, RecordLoad, RecordSave, Commits
  <1>3. ASSUME NEW u \in Taps, Push(u)
        PROVE  /\ UNCHANGED <<rows, last>>
               /\ \A t \in Taps : /\ upstream[t].rev \in Nat /\ upstream'[t].rev \in Nat
                                  /\ upstream[t].rev <= upstream'[t].rev
    <2>1. PICK S \in SUBSET May[u] :
            upstream' = [upstream EXCEPT ![u] = [rev |-> upstream[u].rev + 1, valid |-> S]]
      BY <1>3 DEF Push
    <2>2. \A t \in Taps : upstream'[t].rev = IF t = u THEN upstream[u].rev + 1
                                             ELSE upstream[t].rev
      BY <2>1 DEF LockInv, OwnInv, TypeInv, TypeOK
    <2> QED
      BY <1>0, <1>3, <2>2 DEF Push
  <1>4. ASSUME NEW r \in Reqs, NEW t \in Taps, NEW op \in {"ingest", "import"},
               BeginCrawl(r, t, op)
        PROVE  UNCHANGED <<rows, last, upstream>>
    BY <1>4 DEF BeginCrawl
  <1>5. CASE UNCHANGED vars
    BY <1>1, <1>5 DEF vars
  <1> QED
    BY <1>1, <1>2, <1>3, <1>4, <1>5 DEF Crawls, Pushes

\* A commit is of the holder of the lock of the tap; it moves the rows and the
\* revision of this tap alone.
LEMMA CommitStep ==
    ASSUME Namespaces, LockInv, NEW r \in Reqs, Commits(r)
    PROVE  /\ req[r] # NoReq /\ req[r].tap \in Taps /\ locks[req[r].tap] = r
           /\ req[r].pc \in Busy
           /\ req'[r] # NoReq => req'[r].pc = "record"
           /\ last'[req[r].tap].rev = req[r].clone.rev
           /\ \A t \in Taps \ {req[r].tap} : last'[t] = last[t]
           /\ \A a \in Apps : rows[a] # NoRow /\ rows[a].bacaro # req[r].tap
                                => rows'[a] = rows[a]
           /\ UNCHANGED upstream
  <1> DEFINE t == req[r].tap
  <1>0. /\ req[r] # NoReq /\ req[r] \in Crawl /\ t \in Taps /\ req[r].pc \in {"write", "prune"}
        /\ req \in [Reqs -> Request \cup {NoReq}] /\ Holds(r) /\ OwnInv
    BY RequestKinds DEF Commits, WriteAll, PruneStale, At, LockInv, OwnInv, TypeInv, TypeOK
  <1>1. locks[t] = r /\ req[r].pc \in Busy
    BY <1>0 DEF Holds, Busy
  <1>2. ASSUME NEW n, NEW e, Ended(r, n, e) PROVE req'[r] # NoReq => req'[r].pc = "record"
    <2> DEFINE q == [req[r] EXCEPT !.pc = "record", !.result = [count |-> n, error |-> e]]
    <2>1. q.pc = "record"
      BY <1>0 DEF Crawl
    <2>2. req' = [req EXCEPT ![r] = q] \/ req' = [req EXCEPT ![r] = NoReq]
      BY <1>2 DEF Ended
    <2> HIDE DEF q
    <2> QED
      BY <1>0, <2>1, <2>2
  <1>3. CASE WriteAll(r)
    <2>1. /\ \A a \in Apps \ Taken(req[r]) :
               rows'[a] = IF a \in RowsOf(t, rows) THEN NoRow ELSE rows[a]
          /\ \A a \in Taken(req[r]) : rows[a] # NoRow => rows[a].bacaro = t
      BY <1>0, <1>3, WrittenRows
    <2>2. \A a \in Apps : rows[a] # NoRow /\ rows[a].bacaro # t => rows'[a] = rows[a]
      BY <2>1 DEF RowsOf
    <2>3. last'[t].rev = req[r].clone.rev /\ \A u \in Taps \ {t} : last'[u] = last[u]
      BY <1>0, <1>3 DEF WriteAll, OwnInv, TypeInv, TypeOK
    <2> QED
      BY <1>0, <1>1, <1>2, <1>3, <2>2, <2>3 DEF WriteAll
  <1>4. CASE PruneStale(r)
    <2>1. req[r].stale = RowsOf(t, rows)
      BY <1>0, <1>4 DEF PruneStale, At, Holds
    <2>2. \A a \in Apps : rows[a] # NoRow /\ rows[a].bacaro # t => rows'[a] = rows[a]
      BY <1>4, <2>1 DEF PruneStale, Without, RowsOf
    <2>3. last'[t].rev = req[r].clone.rev /\ \A u \in Taps \ {t} : last'[u] = last[u]
      BY <1>0, <1>4 DEF PruneStale, OwnInv, TypeInv, TypeOK
    <2> QED
      BY <1>0, <1>1, <1>2, <1>4, <2>2, <2>3 DEF PruneStale
  <1> QED
    BY <1>3, <1>4 DEF Commits

\* No clone and no revision taken over is ahead of the repository; a crawl at
\* its write knows the row as it is; and the clone of a crawl that was not
\* overtaken is at no older a revision than any that was taken over.
AheadReq(r) ==
    req[r] # NoReq =>
      /\ req[r].clone.rev <= upstream[req[r].tap].rev
      /\ req[r].pc \in {"merge", "write"} /\ req[r].copy # NoRow
           => req[r].copy = rows[req[r].app]
      /\ ahead[r] /\ req[r].pc \in Busy => newest[req[r].tap] <= req[r].clone.rev
AheadInv ==
    /\ LockInv
    /\ \A t \in Taps : /\ newest[t] \in Nat /\ last[t].rev <= newest[t]
                       /\ newest[t] <= upstream[t].rev
    /\ \A r \in Reqs : AheadReq(r)

LEMMA AheadInit == CrawlsInit => AheadInv
  BY LockInit DEF CrawlsInit, HistInit, Init, Nothing, AheadInv, AheadReq

\* Revisions are numbers.
LEMMA RevTypes ==
    ASSUME TypeOK
    PROVE  /\ \A t \in Taps : last[t].rev \in Nat /\ upstream[t].rev \in Nat
           /\ \A r \in Reqs : req[r] \in Crawl => req[r].clone.rev \in Nat
  BY RevAssumption DEF TypeOK, Clone, Crawl, Revs

LEMMA NewestStep ==
    ASSUME Namespaces, AheadInv, [Crawls \/ Pushes]_vars, LockInv',
           HistNext \/ UNCHANGED <<newest, last>>, NEW t \in Taps
    PROVE  /\ newest'[t] \in Nat /\ last'[t].rev <= newest'[t]
           /\ newest'[t] <= upstream'[t].rev
           /\ newest'[t] = newest[t] \/ \E r \in Reqs : Commits(r) /\ req[r].tap = t
  <1>1. /\ last'[t].rev \in Nat /\ upstream'[t].rev \in Nat /\ upstream[t].rev \in Nat
        /\ newest[t] \in Nat /\ last[t].rev \in Nat /\ upstream[t].rev <= upstream'[t].rev
        /\ last[t].rev <= newest[t] /\ newest[t] <= upstream[t].rev
    BY RevTypes, TableStep DEF LockInv, OwnInv, TypeInv, TypeOK, AheadInv, Clone, Revs
  <1>2. newest'[t] = IF last'[t].rev > newest[t] THEN last'[t].rev ELSE newest[t]
    <2>1. CASE HistNext
      BY <2>1 DEF HistNext
    <2>2. CASE UNCHANGED <<newest, last>>
      BY <1>1, <2>2
    <2> QED
      BY <2>1, <2>2
  <1>3. CASE last'[t] = last[t]
    BY <1>1, <1>2, <1>3
  <1>4. CASE last'[t] # last[t]
    <2>1. PICK r \in Reqs : Commits(r)
      BY <1>4, TableStep DEF AheadInv
    <2>2. req[r].tap = t /\ req[r] # NoReq /\ last'[t].rev = req[r].clone.rev
      BY <1>4, <2>1, CommitStep DEF AheadInv
    <2>3. last'[t].rev <= upstream[t].rev
      BY <2>2 DEF AheadInv, AheadReq
    <2> QED
      BY <1>1, <1>2, <2>1, <2>2, <2>3
  <1> QED
    BY <1>3, <1>4

LEMMA AheadReqNext ==
    ASSUME Namespaces, AheadInv, [Crawls \/ Pushes]_vars, LockInv',
           HistNext \/ UNCHANGED <<vars, newest, ahead>>, NEW p \in Reqs
    PROVE  AheadReq(p)'
  <1> SUFFICES ASSUME req'[p] # NoReq
               PROVE  AheadReq(p)'
    BY DEF AheadReq
  <1> DEFINE t == req'[p].tap
  <1>0. /\ TypeOK /\ TypeOK' /\ LockInv /\ AheadReq(p) /\ Moves(p)
        /\ req'[p] \in Crawl /\ t \in Taps /\ req'[p].clone.rev \in Nat
    <2>1. TypeOK /\ TypeOK' /\ LockInv /\ AheadReq(p) /\ Moves(p) /\ Holds(p)'
      BY MovesNext DEF AheadInv, LockInv, OwnInv, TypeInv
    <2>2. req'[p] \in Crawl
      BY <2>1 DEF Holds, TypeOK, Request, Drop
    <2> QED
      BY <2>1, <2>2, RevAssumption DEF Crawl, Clone, Revs
  <1>1. upstream[t].rev \in Nat /\ upstream'[t].rev \in Nat /\ upstream[t].rev <= upstream'[t].rev
    BY <1>0, TableStep
  <1>h. HistNext \/ UNCHANGED <<newest, last>>
    BY DEF vars
  <1>2. req'[p].clone.rev <= upstream'[t].rev
    <2>1. CASE Same(p) \/ Further(p)
      <3>1. req'[p].clone.rev <= upstream[t].rev
        BY <1>0, <2>1 DEF AheadReq, Same, Further
      <3> QED
        BY <1>0, <1>1, <3>1
    <2>2. CASE Begun(p)
      BY <1>1, <2>2 DEF Begun, Nothing
    <2>3. CASE Cloned(p)
      BY <1>1, <2>3 DEF Cloned
    <2> QED
      BY <1>0, <2>1, <2>2, <2>3 DEF Moves
  \* Whoever commits meanwhile is of another tap.
  <1>3. ASSUME NEW r \in Reqs, Commits(r), Same(p), req[p].pc \in Busy \ {"lock"}
        PROVE  r # p /\ req[r].tap # t
    <2>1. r # p
      BY <1>3, CommitStep, <1>0 DEF Same, Busy
    <2>2. locks[req[r].tap] = r /\ locks[t] = p
      BY <1>0, <1>3, CommitStep DEF LockInv, Holds, Same, Busy
    <2> QED
      BY <2>1, <2>2
  <1>4. ASSUME req'[p].pc \in {"merge", "write"}, req'[p].copy # NoRow
        PROVE  req'[p].copy = rows'[req'[p].app]
    <2>1. CASE Same(p)
      <3>1. req'[p].copy = rows[req'[p].app]
        BY <1>0, <1>4, <2>1 DEF AheadReq, Same
      <3>2. CASE UNCHANGED rows
        BY <3>1, <3>2
      <3>3. ASSUME NEW r \in Reqs, Commits(r) PROVE req'[p].copy = rows'[req'[p].app]
        <4>1. req[r].tap # t
          BY <1>3, <1>4, <2>1, <3>3 DEF Same, Busy
        <4>2. req'[p].app \in Apps /\ req'[p].copy.bacaro = t
          <5>1. OwnInv'
            BY DEF LockInv
          <5> QED
            BY <1>0, <1>4, <5>1 DEF OwnInv, Belongs, TypeInv, At, Of, Crawl
        <4> QED
          BY <1>0, <1>4, <3>1, <3>3, <4>1, <4>2, CommitStep
      <3> QED
        BY <1>0, <3>2, <3>3, TableStep
    <2>2. CASE Further(p)
      <3>1. Loaded(p)
        BY <1>4, <2>2 DEF Further
      <3>2. CASE req'[p].copy = rows[req'[p].app]
        BY <3>1, <3>2 DEF Loaded
      <3>3. CASE At(p, "merge") /\ req'[p].app = req[p].app /\ req'[p].copy = req[p].copy
        BY <1>0, <1>4, <3>1, <3>3 DEF Loaded, AheadReq, At
      <3> QED
        BY <3>1, <3>2, <3>3 DEF Loaded
    <2> QED
      BY <1>0, <1>4, <2>1, <2>2 DEF Moves, Begun, Cloned
  <1>5. ASSUME ahead'[p], req'[p].pc \in Busy
        PROVE  newest'[t] <= req'[p].clone.rev
    <2>0. newest[t] \in Nat /\ newest[t] <= upstream[t].rev
      BY <1>0 DEF AheadInv
    <2>1. CASE Same(p) \/ Further(p)
      <3>1. req[p].pc \in Busy /\ req[p] # NoReq /\ req[p].tap = t
            /\ req[p].clone = req'[p].clone
        BY <1>5, <2>1 DEF Same, Further
      <3>2. /\ ahead[p]
            /\ UNCHANGED newest \/ \A q \in Reqs \ {p} : req[q] # NoReq /\ req[q].tap = t
                                                           => ~ Commits(q)
        <4>1. CASE HistNext
          <5>1. ~ At(p, "clone")
            BY <3>1 DEF At, Busy
          <5>2. ahead'[p] <=> /\ ahead[p] /\ req'[p] # NoReq
                              /\ \A q \in Reqs \ {p} : req[q] # NoReq /\ req[q].tap = req[p].tap
                                                         => ~ Commits(q)
            BY <4>1, <5>1 DEF HistNext
          <5> QED
            BY <1>5, <3>1, <5>2
        <4>2. CASE UNCHANGED <<vars, newest, ahead>>
          BY <1>5, <4>2
        <4> QED
          BY <4>1, <4>2
      <3>3. newest[t] <= req'[p].clone.rev
        BY <1>0, <3>1, <3>2 DEF AheadReq
      <3>4. CASE newest'[t] = newest[t]
        BY <3>3, <3>4
      <3>5. ASSUME NEW r \in Reqs, Commits(r), req[r].tap = t, newest'[t] # newest[t]
            PROVE  FALSE
        <4>1. r = p
          BY <1>0, <3>2, <3>5, CommitStep
        <4>2. req'[p].pc = "record"
          BY <1>0, <3>5, <4>1, CommitStep
        <4> QED
          BY <1>5, <4>2 DEF Busy
      <3> QED
        BY <1>0, <1>h, <3>4, <3>5, NewestStep
    <2>2. CASE Cloned(p)
      <3>1. UNCHANGED <<upstream, last>> /\ req'[p].clone.rev = upstream[t].rev
        BY <2>2 DEF Cloned
      <3>2. newest'[t] <= upstream'[t].rev
        BY <1>0, <1>h, NewestStep
      <3> QED
        BY <3>1, <3>2
    <2> QED
      BY <1>0, <1>5, <2>1, <2>2 DEF Moves, Begun, Busy
  <1> QED
    BY <1>2, <1>4, <1>5 DEF AheadReq

LEMMA AheadNext ==
    ASSUME Namespaces, AheadInv, [CrawlsNext]_crawl_vars
    PROVE  AheadInv'
  <1>1. [Crawls \/ Pushes]_vars /\ (HistNext \/ UNCHANGED <<vars, newest, ahead>>)
    BY DEF CrawlsNext, crawl_vars
  <1>2. LockInv'
    BY <1>1, LockNext DEF AheadInv
  <1>3. HistNext \/ UNCHANGED <<newest, last>>
    BY <1>1 DEF vars
  <1>4. \A t \in Taps : /\ newest'[t] \in Nat /\ last'[t].rev <= newest'[t]
                        /\ newest'[t] <= upstream'[t].rev
    BY <1>1, <1>2, <1>3, NewestStep
  <1>5. \A r \in Reqs : AheadReq(r)'
    BY <1>1, <1>2, AheadReqNext
  <1> QED
    BY <1>2, <1>4, <1>5 DEF AheadInv

\* What a crawl of tap t commits is all of its own clone.
LEMMA CommittedRows ==
    ASSUME Namespaces, AheadInv, NEW r \in Reqs, Commits(r),
           NEW a \in RowsOf(req[r].tap, rows')
    PROVE  rows'[a].raw.rev = req[r].clone.rev
  <1> DEFINE q == req[r]
             t == req[r].tap
             first == Merged(rows[q.app], q.copy, NewRow(q))
  <1>0. /\ q # NoReq /\ q \in Crawl /\ t \in Taps /\ q.pc \in {"write", "prune"} /\ AheadReq(r)
        /\ req \in [Reqs -> Request \cup {NoReq}] /\ Holds(r) /\ OwnInv /\ LockInv
        /\ rows \in [Apps -> Row \cup {NoRow}] /\ Belongs(q) /\ a \in Apps
        /\ rows'[a] # NoRow /\ rows'[a].bacaro = t
    BY RequestKinds DEF Commits, WriteAll, PruneStale, At, AheadInv, LockInv, OwnInv, TypeInv,
       TypeOK, RowsOf
  <1>1. CASE PruneStale(r)
    <2>1. q.stale = RowsOf(t, rows)
      BY <1>0, <1>1 DEF PruneStale, At, Holds
    <2>2. a \notin q.stale /\ rows'[a] = rows[a]
      BY <1>0, <1>1 DEF PruneStale, Without
    <2> QED
      BY <1>0, <2>1, <2>2 DEF RowsOf
  <1>2. CASE WriteAll(r)
    <2>1. a \in Taken(q)
      <3>1. ASSUME a \notin Taken(q)
            PROVE  rows'[a] = IF a \in RowsOf(t, rows) THEN NoRow ELSE rows[a]
        BY <1>0, <1>2, <3>1, WrittenRows
      <3> QED
        BY <1>0, <3>1 DEF RowsOf
    <2>2. q.pc = "write" /\ q.app \in Apps /\ rows' = Pruned(q) /\ ~ Conflict(q.copy, rows[q.app])
      BY <1>0, <1>2 DEF WriteAll, At, OwnInv, TypeInv
    <2>3. rows'[a] = Upserted(q)[a]
      BY <1>0, <2>1, <2>2 DEF Pruned
    <2>4. NewRow(q).raw.rev = q.clone.rev
      BY DEF NewRow
    <2>5. CASE a # q.app
      BY <1>0, <2>1, <2>3, <2>4, <2>5 DEF Upserted
    <2>6. CASE a = q.app
      <3>1. rows'[a] = first
        BY <1>0, <2>3, <2>6 DEF Upserted, AfterFirst
      <3>2. CASE q.copy = NoRow
        BY <2>4, <3>1, <3>2 DEF Merged
      <3>3. CASE q.copy # NoRow
        <4>1. q.copy = rows[q.app]
          BY <1>0, <2>2, <3>3 DEF AheadReq
        <4>2. first.raw = NewRow(q).raw
          BY <3>3, <4>1 DEF Merged, Column
        <4> QED
          BY <2>4, <3>1, <4>2
      <3> QED
        BY <3>2, <3>3
    <2> QED
      BY <2>5, <2>6
  <1> QED
    BY <1>1, <1>2 DEF Commits

\* When taps have ids of their own, and however many crawls overlap, what a crawl
\* commits is all of the revision it cloned, and a crawl that no other of its tap
\* overtook leaves the tap at no older a revision than it ever was
\* (ingest_directory, _ingest_locks).
THEOREM CatchUp ==
    ASSUME Namespaces
    PROVE  CrawlsSpec => CrawlsCatchUp
  <1> DEFINE Catches ==
               \A r \in Reqs : Commits(r) =>
                 LET t == req[r].tap
                 IN  /\ \A a \in RowsOf(t, rows') : rows'[a].raw.rev = req[r].clone.rev
                     /\ ahead[r] => last'[t].rev >= newest[t]
  <1>1. ASSUME AheadInv PROVE Catches
    <2> SUFFICES ASSUME NEW r \in Reqs, Commits(r), ahead[r]
                 PROVE  last'[req[r].tap].rev >= newest[req[r].tap]
      BY <1>1, CommittedRows
    <2>1. AheadReq(r) /\ LockInv
      BY <1>1 DEF AheadInv
    <2>2. /\ req[r] # NoReq /\ req[r].tap \in Taps /\ req[r].pc \in Busy
          /\ last'[req[r].tap].rev = req[r].clone.rev
      BY <2>1, CommitStep
    <2>3. newest[req[r].tap] <= req[r].clone.rev
      BY <2>1, <2>2 DEF AheadReq
    <2> QED
      BY <2>2, <2>3
  <1>2. AheadInv /\ [CrawlsNext]_crawl_vars => AheadInv' /\ [Catches]_crawl_vars
    BY <1>1, AheadNext
  <1>3. CrawlsSpec => [][Catches]_crawl_vars
    BY <1>2, AheadInit, PTL DEF CrawlsSpec
  <1> QED
    BY <1>3 DEF CrawlsCatchUp

-----------------------------------------------------------------------------
(* The record of a tap.                                                    *)

OneRequest == \A r, s \in Reqs : r = s

Told(t, rec, db) ==
    IF rec = NoRow THEN RowsOf(t, db) = {}
    ELSE rec.error \/ rec.count = Cardinality(RowsOf(t, db))

\* What the only request has read is still so; a crawl that is through knows how
\* many rows it left, and until then the record tells what it told before.
RecordReq(q, db, records) ==
    /\ q.op # "import"
    /\ q.pc \notin {"record", "save"} => Told(q.tap, records[q.tap], db)
    /\ q.pc \in {"merge", "write"} => q.copy = db[q.app] /\ ~ Foreign(q.tap, db[q.app])
    /\ q.pc \in {"prune", "delete"} => q.stale = RowsOf(q.tap, db)
    /\ q.pc \in {"record", "save"} => Told(q.tap, q.result, db)
    /\ q.pc = "save" => q.rec = records[q.tap]

RecordInv ==
    /\ TypeInv
    /\ \A r \in Reqs : req[r] # NoReq => RecordReq(req[r], rows, bacari)
    /\ \A t \in Taps : Quiet(t) => Told(t, bacari[t], rows)

\* A first manifest that is the tap's, or new, is a row of the tap after its write.
LEMMA FirstRow ==
    ASSUME TypeOK, NEW q \in Crawl, q.app \in Apps,
           q.copy = rows[q.app], ~ Foreign(q.tap, rows[q.app])
    PROVE  /\ NewRow(q) \in Row /\ NewRow(q).bacaro = q.tap
           /\ AfterFirst(q)[q.app] \in Row /\ AfterFirst(q)[q.app].bacaro = q.tap
           /\ \A a \in Apps \ {q.app} : AfterFirst(q)[a] = rows[a]
  <1>1. NewRow(q) \in Row /\ NewRow(q).bacaro = q.tap
    BY DEF NewRow, Row, Manifest, Crawl, Clone
  <1>2. /\ AfterFirst(q)[q.app] = Merged(rows[q.app], q.copy, NewRow(q))
        /\ \A a \in Apps \ {q.app} : AfterFirst(q)[a] = rows[a]
    BY DEF AfterFirst, TypeOK
  <1>3. CASE q.copy = NoRow
    BY <1>1, <1>2, <1>3 DEF Merged
  <1>4. CASE q.copy # NoRow
    <2>1. rows[q.app] \in Row /\ rows[q.app].bacaro = q.tap
      BY <1>4 DEF TypeOK, Foreign
    <2> QED
      BY <1>1, <1>2, <1>4, <2>1 DEF Merged, Column, Row
  <1> QED
    BY <1>1, <1>2, <1>3, <1>4

\* The manifests a crawl takes are rows of the tap after its write, each of them
\* new or of the tap before; the other rows of the tap are gone.
LEMMA ShownRow ==
    ASSUME TypeOK, NEW q \in Crawl, q.app \in Apps,
           q.copy = rows[q.app], ~ Foreign(q.tap, rows[q.app]), NEW a \in Apps
    PROVE  /\ a \in Taken(q) => /\ rows[a] = NoRow \/ rows[a].bacaro = q.tap
                                /\ Pruned(q)[a] # NoRow /\ Pruned(q)[a].bacaro = q.tap
           /\ a \notin Taken(q) =>
                Pruned(q)[a] = IF rows[a] # NoRow /\ rows[a].bacaro = q.tap
                               THEN NoRow ELSE rows[a]
  <1>1. q.app \in Taken(q)
    BY DEF Taken
  <1>2. CASE a \in Taken(q)
    <2>1. rows[a] = NoRow \/ rows[a].bacaro = q.tap
      BY <1>2, FirstRow DEF Taken, Foreign
    <2>2. Upserted(q)[a] \in Row /\ Upserted(q)[a].bacaro = q.tap
      BY <1>2, FirstRow DEF Upserted
    <2>3. Pruned(q)[a] = Upserted(q)[a]
      BY <1>2 DEF Pruned
    <2> QED
      BY <1>2, <2>1, <2>2, <2>3, NullsAssumption
  <1>3. CASE a \notin Taken(q)
    <2>1. Upserted(q)[a] = rows[a]
      BY <1>1, <1>3, FirstRow DEF Upserted
    <2> QED
      BY <1>3, <2>1 DEF Pruned, RowsOf
  <1> QED
    BY <1>2, <1>3

\* So the tap shows what was taken, and the other taps what they showed before.
LEMMA ShownRows ==
    ASSUME TypeOK, NEW q \in Crawl, q.app \in Apps,
           q.copy = rows[q.app], ~ Foreign(q.tap, rows[q.app])
    PROVE  /\ RowsOf(q.tap, Pruned(q)) = Taken(q)
           /\ \A u \in Taps \ {q.tap} : RowsOf(u, Pruned(q)) = RowsOf(u, rows)
  <1>1. Taken(q) \subseteq Apps
    BY DEF Taken, Crawl
  <1>2. RowsOf(q.tap, Pruned(q)) = Taken(q)
    BY <1>1, ShownRow DEF RowsOf
  <1>3. ASSUME NEW u \in Taps \ {q.tap} PROVE RowsOf(u, Pruned(q)) = RowsOf(u, rows)
    BY ShownRow DEF RowsOf
  <1> QED
    BY <1>2, <1>3

\* A step of the only request is about one tap.
LEMMA RecordStep ==
    ASSUME OneRequest, RecordInv, TypeInv', NEW r \in Reqs, NEW t \in Taps, NEW q,
           req' = [req EXCEPT ![r] = q],
           req[r] # NoReq => req[r].tap = t,
           q # NoReq => q.tap = t /\ RecordReq(q, rows', bacari'),
           q = NoReq => Told(t, bacari'[t], rows'),
           \A u \in Taps \ {t} : bacari'[u] = bacari[u] /\ RowsOf(u, rows') = RowsOf(u, rows)
    PROVE  RecordInv'
  <1>1. \A p \in Reqs : p = r
    BY DEF OneRequest
  <1>2. req'[r] = q
    BY DEF RecordInv, TypeInv, TypeOK
  <1>3. \A p \in Reqs : req'[p] # NoReq => RecordReq(req'[p], rows', bacari')
    BY <1>1, <1>2
  <1>4. ASSUME NEW u \in Taps, Quiet(u)' PROVE Told(u, bacari'[u], rows')
    <2>1. CASE u = t
      BY <1>2, <1>4, <2>1 DEF Quiet
    <2>2. CASE u # t
      <3>1. Quiet(u)
        BY <1>1, <2>2 DEF Quiet
      <3>2. Told(u, bacari[u], rows)
        BY <3>1 DEF RecordInv
      <3> QED
        BY <2>2, <3>2 DEF Told
    <2> QED
      BY <2>1, <2>2
  <1> QED
    BY <1>3, <1>4 DEF RecordInv

LEMMA RecordInit == Init => RecordInv
  BY TypeInit, FS_EmptySet DEF Init, RecordInv, Told, RowsOf, Quiet

LEMMA RecordPush ==
    ASSUME RecordInv, TypeInv', NEW t \in Taps, Push(t)
    PROVE  RecordInv'
  BY DEF RecordInv, Push, Quiet

\* The only request is about its tap alone, which is therefore not quiet.
LEMMA RecordBegin ==
    ASSUME OneRequest, RecordInv, TypeInv', NEW r \in Reqs, NEW t \in Taps
    PROVE  /\ BeginCrawl(r, t, "ingest") => RecordInv'
           /\ BeginDrop(r, t) => RecordInv'
  <1>1. req[r] = NoReq => Told(t, bacari[t], rows)
    BY DEF OneRequest, RecordInv, Quiet
  <1>2. ASSUME BeginCrawl(r, t, "ingest") PROVE RecordInv'
    <2> DEFINE q == Started(t, "ingest")
    <2>1. req' = [req EXCEPT ![r] = q]
      BY <1>2 DEF BeginCrawl, Started
    <2>2. q.tap = t /\ q.op = "ingest" /\ q.pc = "clone"
      BY DEF Started
    <2>3. req[r] = NoReq /\ rows' = rows /\ bacari' = bacari /\ q # NoReq
      <3>1. q \in Request
        BY RevAssumption DEF Started, Request, Crawl, Clone, Nothing, Revs, Record
      <3> QED
        BY <1>2, <3>1, NullsAssumption DEF BeginCrawl
    <2> HIDE DEF q
    <2>4. RecordReq(q, rows', bacari')
      BY <1>1, <2>2, <2>3 DEF RecordReq
    <2> QED
      BY <2>1, <2>2, <2>3, <2>4, RecordStep
  <1>3. ASSUME BeginDrop(r, t) PROVE RecordInv'
    <2> DEFINE q == Dropped(t)
    <2>1. req' = [req EXCEPT ![r] = q]
      BY <1>3 DEF BeginDrop, Dropped
    <2>2. q.tap = t /\ q.op = "drop" /\ q.pc = "select"
      BY DEF Dropped
    <2>3. req[r] = NoReq /\ rows' = rows /\ bacari' = bacari /\ q # NoReq
      <3>1. q \in Request
        BY DEF Dropped, Request, Drop
      <3> QED
        BY <1>3, <3>1, NullsAssumption DEF BeginDrop
    <2> HIDE DEF q
    <2>4. RecordReq(q, rows', bacari')
      BY <1>1, <2>2, <2>3 DEF RecordReq
    <2> QED
      BY <2>1, <2>2, <2>3, <2>4, RecordStep
  <1> QED
    BY <1>2, <1>3

\* The tap of which these rows are deleted shows none, the others what they showed.
LEMMA DeletedRows ==
    ASSUME NEW t \in Taps
    PROVE  /\ RowsOf(t, Without(RowsOf(t, rows))) = {}
           /\ \A u \in Taps \ {t} : RowsOf(u, Without(RowsOf(t, rows))) = RowsOf(u, rows)
  BY DEF RowsOf, Without

LEMMA RecordDropStep ==
    ASSUME OneRequest, RecordInv, TypeInv', NEW r \in Reqs, DropStep(r)
    PROVE  RecordInv'
  <1>0. /\ req[r] # NoReq /\ req[r] \in Drop /\ req[r].tap \in Taps
        /\ RecordReq(req[r], rows, bacari)
    BY RequestKinds DEF DropStep, DropSelect, DropDelete, At, RecordInv, TypeInv
  <1>1. CASE DropSelect(r)
    <2> DEFINE q == [req[r] EXCEPT !.pc = "delete", !.stale = RowsOf(req[r].tap, rows)]
    <2>1. req' = [req EXCEPT ![r] = q]
      BY <1>0, <1>1 DEF DropSelect, RecordInv, TypeInv, TypeOK
    <2>2. /\ q.tap = req[r].tap /\ q.op = "drop" /\ q.pc = "delete"
          /\ q.stale = RowsOf(req[r].tap, rows) /\ q \in Request
      BY <1>0 DEF Drop, Request, RowsOf
    <2>3. /\ Told(req[r].tap, bacari[req[r].tap], rows)
          /\ rows' = rows /\ bacari' = bacari /\ q # NoReq
      BY <1>0, <1>1, <2>2, NullsAssumption DEF DropSelect, At, RecordReq
    <2> HIDE DEF q
    <2>4. RecordReq(q, rows', bacari')
      BY <2>2, <2>3 DEF RecordReq
    <2> QED
      BY <1>0, <2>1, <2>2, <2>3, <2>4, RecordStep
  <1>2. CASE DropDelete(r)
    <2> DEFINE t == req[r].tap
    <2>1. rows' = Without(RowsOf(t, rows))
      BY <1>0, <1>2 DEF DropDelete, At, RecordReq
    <2>2. /\ bacari' = [bacari EXCEPT ![t] = NoRow]
          /\ req' = [req EXCEPT ![r] = NoReq]
      BY <1>2 DEF DropDelete
    <2>3. bacari'[t] = NoRow /\ \A u \in Taps \ {t} : bacari'[u] = bacari[u]
      BY <1>0, <2>2 DEF RecordInv, TypeInv, TypeOK
    <2>4. Told(t, bacari'[t], rows')
      BY <1>0, <2>1, <2>3, DeletedRows DEF Told
    <2>5. \A u \in Taps \ {t} : RowsOf(u, rows') = RowsOf(u, rows)
      BY <1>0, <2>1, DeletedRows
    <2> HIDE DEF t
    <2> QED
      BY <1>0, <2>2, <2>3, <2>4, <2>5, RecordStep DEF t
  <1> QED
    BY <1>1, <1>2 DEF DropStep

\* A crawl that is over leaves a result that tells what the tap shows.
LEMMA RecordEnded ==
    ASSUME OneRequest, RecordInv, TypeInv', NEW r \in Reqs, NEW n \in Nat, NEW e \in BOOLEAN,
           req[r] # NoReq, req[r] \in Crawl, req[r].tap \in Taps,
           RecordReq(req[r], rows, bacari), Ended(r, n, e), bacari' = bacari,
           \A u \in Taps \ {req[r].tap} : RowsOf(u, rows') = RowsOf(u, rows),
           e \/ n = Cardinality(RowsOf(req[r].tap, rows'))
    PROVE  RecordInv'
  <1> DEFINE result == [count |-> n, error |-> e]
             q == [req[r] EXCEPT !.pc = "record", !.result = result]
  <1>1. req' = [req EXCEPT ![r] = q]
    BY DEF Ended, RecordReq, Crawl
  <1>2. result \in Record /\ result # NoRow
    BY NullsAssumption DEF Record
  <1>3. /\ q.tap = req[r].tap /\ q.op = "ingest" /\ q.pc = "record"
        /\ q.result = result /\ q \in Request
    BY <1>2 DEF Crawl, Request, RecordReq
  <1>4. q # NoReq
    BY <1>3, NullsAssumption
  <1>5. Told(req[r].tap, result, rows')
    BY <1>2 DEF Told
  <1> HIDE DEF q, result
  <1>6. RecordReq(q, rows', bacari')
    BY <1>3, <1>5 DEF RecordReq
  <1> QED
    BY <1>1, <1>3, <1>4, <1>6, RecordStep

LEMMA RecordCrawlStep ==
    ASSUME OneRequest, RecordInv, TypeInv', NEW r \in Reqs, CrawlStep(r)
    PROVE  RecordInv'
  <1> DEFINE t == req[r].tap
  <1> USE DEF At
  <1>0. /\ req[r] # NoReq /\ req[r] \in Crawl /\ t \in Taps
        /\ RecordReq(req[r], rows, bacari) /\ TypeInv /\ TypeOK
    BY RequestKinds DEF CrawlStep, CloneTap, CloneFails, Acquire, NextFile, MergeFile, WriteAll,
       WriteFails, SelectStale, PruneStale, RecordLoad, RecordSave, RecordInv, TypeInv
  \* A step after which the tap still shows what it showed.
  <1>k. ASSUME NEW q \in Crawl, q.tap = t, RecordReq(q, rows, bacari),
               req' = [req EXCEPT ![r] = q], rows' = rows, bacari' = bacari
        PROVE  RecordInv'
    <2>1. q # NoReq
      BY NullsAssumption DEF Request
    <2> HIDE DEF t
    <2> QED
      BY <1>0, <1>k, <2>1, RecordStep DEF t
  <1>e. ASSUME Ended(r, 0, TRUE), rows' = rows, bacari' = bacari
        PROVE  RecordInv'
    BY <1>0, <1>e, RecordEnded
  <1>1. CASE CloneTap(r)
    <2> DEFINE q == [req[r] EXCEPT !.pc = "lock", !.clone = upstream[req[r].tap]]
    <2>1. q \in Crawl /\ q.tap = t /\ q.op = req[r].op /\ q.pc = "lock"
      BY <1>0 DEF Crawl, TypeOK
    <2>2. req' = [req EXCEPT ![r] = q] /\ rows' = rows /\ bacari' = bacari
      BY <1>0, <1>1 DEF CloneTap, TypeOK
    <2>3. q.op # "import" /\ Told(t, bacari[t], rows)
      BY <1>0, <1>1, <2>1 DEF CloneTap, RecordReq
    <2> HIDE DEF q
    <2> QED
      BY <1>k, <2>1, <2>2, <2>3 DEF RecordReq
  <1>2. CASE CloneFails(r)
    BY <1>2, <1>e DEF CloneFails
  <1>3. CASE Acquire(r)
    <2> DEFINE q == [req[r] EXCEPT !.pc = "next", !.todo = req[r].clone.valid]
    <2>1. q \in Crawl /\ q.tap = t /\ q.op = req[r].op /\ q.pc = "next"
      BY <1>0 DEF Crawl, Clone
    <2>2. req' = [req EXCEPT ![r] = q] /\ rows' = rows /\ bacari' = bacari
      BY <1>0, <1>3 DEF Acquire, TypeOK
    <2>3. q.op # "import" /\ Told(t, bacari[t], rows)
      BY <1>0, <1>3, <2>1 DEF Acquire, RecordReq
    <2> HIDE DEF q
    <2> QED
      BY <1>k, <2>1, <2>2, <2>3 DEF RecordReq
  <1>4. CASE NextFile(r)
    <2>1. PICK a \in req[r].todo :
            req' = [req EXCEPT ![r] =
                      IF Foreign(req[r].tap, rows[a])
                      THEN [req[r] EXCEPT !.todo = @ \ {a}]
                      ELSE [req[r] EXCEPT !.todo = @ \ {a}, !.pc = "merge",
                                          !.app = a, !.copy = rows[a]]]
      BY <1>4 DEF NextFile
    <2>2. a \in Apps /\ rows[a] \in Row \cup {NoRow}
      BY <1>0 DEF Crawl, TypeOK
    <2>3. Told(t, bacari[t], rows) /\ rows' = rows /\ bacari' = bacari
      BY <1>0, <1>4 DEF NextFile, RecordReq
    <2>4. CASE Foreign(t, rows[a])
      <3> DEFINE q == [req[r] EXCEPT !.todo = @ \ {a}]
      <3>1. q \in Crawl /\ q.tap = t /\ q.op = req[r].op /\ q.pc = "next"
        BY <1>0, <1>4 DEF Crawl, NextFile
      <3>2. req' = [req EXCEPT ![r] = q]
        BY <2>1, <2>4
      <3>3. q.op # "import"
        BY <1>0, <3>1 DEF RecordReq
      <3> HIDE DEF q
      <3> QED
        BY <1>k, <2>3, <3>1, <3>2, <3>3 DEF RecordReq
    <2>5. CASE ~ Foreign(t, rows[a])
      <3> DEFINE q == [req[r] EXCEPT !.todo = @ \ {a}, !.pc = "merge",
                                     !.app = a, !.copy = rows[a]]
      <3>1. /\ q \in Crawl /\ q.tap = t /\ q.op = req[r].op /\ q.pc = "merge"
            /\ q.app = a /\ q.copy = rows[a]
        BY <1>0, <2>2 DEF Crawl
      <3>2. req' = [req EXCEPT ![r] = q]
        BY <2>1, <2>5
      <3>3. q.op # "import"
        BY <1>0, <3>1 DEF RecordReq
      <3> HIDE DEF q
      <3> QED
        BY <1>k, <2>3, <2>5, <3>1, <3>2, <3>3 DEF RecordReq
    <2> QED
      BY <2>4, <2>5
  <1>5. CASE MergeFile(r)
    <2> DEFINE q == [req[r] EXCEPT !.pc = "write",
                       !.copy = IF @ = NoRow THEN rows[req[r].app] ELSE @]
    <2>1. /\ req[r].app \in Apps /\ req[r].op # "import" /\ Told(t, bacari[t], rows)
          /\ req[r].copy = rows[req[r].app] /\ ~ Foreign(t, rows[req[r].app])
      BY <1>0, <1>5 DEF MergeFile, TypeInv, RecordReq
    <2>2. /\ q \in Crawl /\ q.tap = t /\ q.op = req[r].op /\ q.pc = "write"
          /\ q.app = req[r].app /\ q.copy = rows[req[r].app]
      BY <1>0, <2>1 DEF Crawl, TypeOK
    <2>3. req' = [req EXCEPT ![r] = q] /\ rows' = rows /\ bacari' = bacari
      BY <1>0, <1>5 DEF MergeFile, TypeOK
    <2> HIDE DEF q
    <2> QED
      BY <1>k, <2>1, <2>2, <2>3 DEF RecordReq
  <1>6. CASE WriteAll(r)
    <2>1. /\ req[r].app \in Apps /\ req[r].copy = rows[req[r].app]
          /\ ~ Foreign(t, rows[req[r].app])
      BY <1>0, <1>6 DEF WriteAll, TypeInv, RecordReq
    <2>2. /\ RowsOf(t, rows') = Taken(req[r])
          /\ \A u \in Taps \ {t} : RowsOf(u, rows') = RowsOf(u, rows)
      BY <1>0, <1>6, <2>1, ShownRows DEF WriteAll
    <2>3. Cardinality(Taken(req[r])) \in Nat
      BY <2>2, FiniteSubsets DEF RowsOf
    <2>4. Ended(r, Cardinality(Taken(req[r])), FALSE) /\ bacari' = bacari
      BY <1>6 DEF WriteAll
    <2> QED
      BY <1>0, <2>2, <2>3, <2>4, RecordEnded
  <1>7. CASE WriteFails(r)
    BY <1>7, <1>e DEF WriteFails
  <1>8. CASE SelectStale(r)
    <2> DEFINE q == [req[r] EXCEPT !.pc = "prune", !.stale = RowsOf(req[r].tap, rows)]
    <2>1. /\ q \in Crawl /\ q.tap = t /\ q.op = req[r].op /\ q.pc = "prune"
          /\ q.stale = RowsOf(t, rows)
      BY <1>0 DEF Crawl, RowsOf
    <2>2. req' = [req EXCEPT ![r] = q] /\ rows' = rows /\ bacari' = bacari
      BY <1>0, <1>8 DEF SelectStale, TypeOK
    <2>3. q.op # "import" /\ Told(t, bacari[t], rows)
      BY <1>0, <1>8, <2>1 DEF SelectStale, RecordReq
    <2> HIDE DEF q
    <2> QED
      BY <1>k, <2>1, <2>2, <2>3 DEF RecordReq
  <1>9. CASE PruneStale(r)
    <2>1. rows' = Without(RowsOf(t, rows)) /\ Ended(r, 0, FALSE) /\ bacari' = bacari
      BY <1>0, <1>9 DEF PruneStale, RecordReq
    <2>2. /\ RowsOf(t, rows') = {}
          /\ \A u \in Taps \ {t} : RowsOf(u, rows') = RowsOf(u, rows)
      BY <1>0, <2>1, DeletedRows
    <2>3. FALSE \/ 0 = Cardinality(RowsOf(t, rows'))
      BY <2>2, FS_EmptySet
    <2>4. 0 \in Nat /\ FALSE \in BOOLEAN
      OBVIOUS
    <2> QED
      BY <1>0, <2>1, <2>2, <2>3, <2>4, RecordEnded, Zenon
  <1>10. CASE RecordLoad(r)
    <2> DEFINE q == [req[r] EXCEPT !.pc = "save", !.rec = bacari[req[r].tap]]
    <2>1. /\ q \in Crawl /\ q.tap = t /\ q.op = req[r].op /\ q.pc = "save"
          /\ q.rec = bacari[t] /\ q.result = req[r].result
      BY <1>0 DEF Crawl, TypeOK
    <2>2. req' = [req EXCEPT ![r] = q] /\ rows' = rows /\ bacari' = bacari
      BY <1>0, <1>10 DEF RecordLoad, TypeOK
    <2>3. q.op # "import" /\ Told(t, q.result, rows)
      BY <1>0, <1>10, <2>1 DEF RecordLoad, RecordReq
    <2> HIDE DEF q
    <2> QED
      BY <1>k, <2>1, <2>2, <2>3 DEF RecordReq
  <1>11. CASE RecordSave(r)
    <2> DEFINE s == Saved(bacari[t], req[r].rec, req[r].result)
    <2>1. req[r].rec = bacari[t] /\ Told(t, req[r].result, rows) /\ req[r].result \in Record
      BY <1>0, <1>11 DEF RecordSave, RecordReq, Crawl
    <2>2. s \in Record /\ s.count = req[r].result.count /\ s.error = req[r].result.error
      BY <1>0, <2>1 DEF Saved, Column, Record, TypeOK
    <2>3. /\ bacari' = [bacari EXCEPT ![t] = s] /\ rows' = rows
          /\ req' = [req EXCEPT ![r] = NoReq]
      BY <1>11, <2>1 DEF RecordSave, Conflict
    <2> HIDE DEF s
    <2>4. bacari'[t] = s /\ \A u \in Taps \ {t} : bacari'[u] = bacari[u]
      BY <1>0, <2>3 DEF TypeOK
    <2>5. Told(t, bacari'[t], rows')
      BY <2>1, <2>2, <2>3, <2>4, NullsAssumption DEF Told
    <2> HIDE DEF t
    <2> QED
      BY <1>0, <2>3, <2>4, <2>5, RecordStep DEF t
  <1> QED
    BY <1>1, <1>2, <1>3, <1>4, <1>5, <1>6, <1>7, <1>8, <1>9, <1>10, <1>11 DEF CrawlStep

\* When the requests come one at a time and every tap is crawled through /ingest,
\* the record of a tap tells what the tap shows: whichever step of a crawl fails,
\* and whatever a crawl or a drop left behind (_record_bacaro, delete_bacaro).
THEOREM RecordsTold ==
    ASSUME OneRequest
    PROVE  IngestingSpec => []RecordsTellOutcome
  <1>1. ASSUME RecordInv, [Ingests \/ Drops \/ Pushes]_vars PROVE RecordInv'
    <2>1. TypeInv'
      <3>1. [Next]_vars
        BY <1>1 DEF Next, Ingests, Crawls
      <3> QED
        BY <1>1, <3>1, TypeNext DEF RecordInv
    <2>2. CASE Ingests
      BY <1>1, <2>1, <2>2, RecordBegin, RecordCrawlStep DEF Ingests
    <2>3. CASE Drops
      BY <1>1, <2>1, <2>3, RecordBegin, RecordDropStep DEF Drops
    <2>4. CASE Pushes
      BY <1>1, <2>1, <2>4, RecordPush DEF Pushes
    <2>5. CASE UNCHANGED vars
      BY <1>1, <2>1, <2>5 DEF vars, RecordInv, Quiet
    <2> QED
      BY <1>1, <2>2, <2>3, <2>4, <2>5
  <1>2. RecordInv => RecordsTellOutcome
    BY DEF RecordInv, RecordsTellOutcome, Told
  <1> QED
    BY <1>1, <1>2, RecordInit, PTL DEF IngestingSpec
=============================================================================
