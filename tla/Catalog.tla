------------------------------- MODULE Catalog -------------------------------
(***************************************************************************)
(* Taps (bacari) and the catalog they fill (app/ingest.py and the admin     *)
(* endpoints of app/main.py): a crawl clones the git repository of a tap,   *)
(* takes the lock of the tap, upserts the manifests it found and prunes the *)
(* rows of the tap that were not among them; an admin may drop a tap.       *)
(*                                                                         *)
(* Table `cicheti` is keyed by app id over all taps.  Reads before the      *)
(* first write of a transaction see the last commit; the first write takes  *)
(* the write lock of the database, so from then to the commit a             *)
(* transaction is one step.  What was loaded before it (copy, stale, rec)   *)
(* may be out of date by then.                                              *)
(***************************************************************************)
EXTENDS Naturals, FiniteSets

CONSTANTS
    Taps, Apps,
    May,             \* [Taps -> SUBSET Apps]: ids a tap's manifests may use
    Reqs,            \* request slots: how many requests may be in flight
    MaxRev,          \* BOUND: how often a git repository changes
    NoRow, NoReq

Revs     == 0 .. MaxRev
Manifest == [tap: Taps, rev: Revs]          \* column raw: whose, and how new
Row      == [bacaro: Taps, raw: Manifest]
Clone    == [rev: Revs, valid: SUBSET Apps] \* the ids with a valid manifest
Record   == [count: Nat, error: BOOLEAN]
Crawl    == [op: {"ingest", "import"}, tap: Taps,
             pc: {"clone", "lock", "next", "merge", "write", "prune", "record", "save"},
             clone: Clone, todo: SUBSET Apps, app: Apps \cup {NoRow},
             copy: Row \cup {NoRow}, stale: SUBSET Apps, result: Record,
             rec: Record \cup {NoRow}]
Drop     == [op: {"drop"}, tap: Taps, pc: {"select", "delete"}, stale: SUBSET Apps]
Request  == Crawl \cup Drop

ASSUME AppsAssumption == IsFiniteSet(Apps)
ASSUME RevAssumption  == MaxRev \in Nat
ASSUME MayAssumption  == May \in [Taps -> SUBSET Apps]
ASSUME NullsAssumption == /\ NoRow \notin Row \cup Record \cup Apps
                          /\ NoReq \notin Request \cup Reqs

VARIABLES
    upstream,   \* [Taps -> Clone]: the head of the tap's git repository
    rows,       \* [Apps -> Row or NoRow]: table `cicheti` by primary key
    bacari,     \* [Taps -> Record or NoRow]: table `bacari`
    locks,      \* [Taps -> Reqs or NoReq]: _ingest_locks
    req,        \* [Reqs -> Request or NoReq]
    last        \* [Taps -> Clone]: what the last crawl to commit took over

vars == <<upstream, rows, bacari, locks, req, last>>

TypeOK ==
    /\ upstream \in [Taps -> Clone]
    /\ rows \in [Apps -> Row \cup {NoRow}]
    /\ bacari \in [Taps -> Record \cup {NoRow}]
    /\ locks \in [Taps -> Reqs \cup {NoReq}]
    /\ req \in [Reqs -> Request \cup {NoReq}]
    /\ last \in [Taps -> Clone]

Nothing == [rev |-> 0, valid |-> {}]

Init ==
    /\ upstream = [t \in Taps |-> Nothing]
    /\ rows = [a \in Apps |-> NoRow]
    /\ bacari = [t \in Taps |-> NoRow]
    /\ locks = [t \in Taps |-> NoReq]
    /\ req = [r \in Reqs |-> NoReq]
    /\ last = [t \in Taps |-> Nothing]

-----------------------------------------------------------------------------
At(r, pc)     == req[r] # NoReq /\ req[r].pc = pc
RowsOf(t, db) == {a \in Apps : db[a] # NoRow /\ db[a].bacaro = t}

\* Mutant: the owner of an id is not looked at.
ForeignNever(t, row) == FALSE
\* Anti-hijack: the id belongs to another tap.
Foreign(t, row) == row # NoRow /\ row.bacaro # t

\* An UPDATE sets only the columns whose value differs from the one loaded.
Column(current, loaded, new) == IF new # loaded THEN new ELSE current

NewRow(q) == [bacaro |-> q.tap, raw |-> [tap |-> q.tap, rev |-> q.clone.rev]]
\* Mutant: a row that is there stays as it is.
MergedOnce(current, copy, new) == IF copy = NoRow THEN new ELSE current
Merged(current, copy, new) ==
    IF copy = NoRow
    THEN new
    ELSE [bacaro |-> Column(current.bacaro, copy.bacaro, new.bacaro),
          raw    |-> Column(current.raw, copy.raw, new.raw)]

\* IntegrityError (inserted meanwhile) or StaleDataError (deleted meanwhile).
Conflict(loaded, current) == (loaded = NoRow) # (current = NoRow)

\* Mutants: two crawls of a tap at once; a lock that a failure leaves behind.
FreeAlways(t) == TRUE
Free(t) == locks[t] = NoReq
ReleaseOnSuccess(r, error) == IF error THEN locks ELSE [locks EXCEPT ![req[r].tap] = NoReq]
Release(r, error) == [locks EXCEPT ![req[r].tap] = NoReq]

(* POST /ingest and POST /repo/import-hpkr                                 *)
BeginCrawl(r, t, op) ==
    /\ req[r] = NoReq
    /\ req' = [req EXCEPT ![r] =
                 [op |-> op, tap |-> t, pc |-> "clone", clone |-> Nothing, todo |-> {},
                  app |-> NoRow, copy |-> NoRow, stale |-> {},
                  result |-> [count |-> 0, error |-> FALSE], rec |-> NoRow]]
    /\ UNCHANGED <<upstream, rows, bacari, locks, last>>

\* The crawl is over: an ingest goes on to its record, an import answers.
Ended(r, count, error) ==
    req' = [req EXCEPT ![r] =
              IF req[r].op = "ingest"
              THEN [req[r] EXCEPT !.pc = "record",
                                  !.result = [count |-> count, error |-> error]]
              ELSE NoReq]

\* The clone, or the download of the catalog, is made before any lock is taken.
CloneTap(r) ==
    /\ At(r, "clone")
    /\ req' = [req EXCEPT ![r].pc = "lock", ![r].clone = upstream[req[r].tap]]
    /\ UNCHANGED <<upstream, rows, bacari, locks, last>>

\* Timeout, incomplete, too large.
CloneFails(r) ==
    /\ At(r, "clone")
    /\ Ended(r, 0, TRUE)
    /\ UNCHANGED <<upstream, rows, bacari, locks, last>>

Acquire(r) ==
    /\ At(r, "lock")
    /\ Free(req[r].tap)
    /\ locks' = [locks EXCEPT ![req[r].tap] = r]
    /\ req' = [req EXCEPT ![r].pc = "next", ![r].todo = req[r].clone.valid]
    /\ UNCHANGED <<upstream, rows, bacari, last>>

\* The next manifest: session.get of its id.
NextFile(r) ==
    /\ At(r, "next")
    /\ \E a \in req[r].todo :
         req' = [req EXCEPT ![r] =
                   IF Foreign(req[r].tap, rows[a])
                   THEN [req[r] EXCEPT !.todo = @ \ {a}]
                   ELSE [req[r] EXCEPT !.todo = @ \ {a}, !.pc = "merge",
                                       !.app = a, !.copy = rows[a]]]
    /\ UNCHANGED <<upstream, rows, bacari, locks, last>>

\* session.merge: with no row in the session it selects the row once more.
MergeFile(r) ==
    /\ At(r, "merge")
    /\ req' = [req EXCEPT ![r].pc = "write",
                          ![r].copy = IF @ = NoRow THEN rows[req[r].app] ELSE @]
    /\ UNCHANGED <<upstream, rows, bacari, locks, last>>

\* The first flush takes the write lock; the other manifests, the select of
\* the stale rows, their deletion and the commit follow under it.
AfterFirst(q) == [rows EXCEPT ![q.app] = Merged(@, q.copy, NewRow(q))]
Taken(q)  == {q.app} \cup {a \in q.todo : ~ Foreign(q.tap, AfterFirst(q)[a])}
Upserted(q) == [a \in Apps |-> IF a \in Taken(q) \ {q.app} THEN NewRow(q)
                               ELSE AfterFirst(q)[a]]
\* Mutant: whatever the crawl did not take is pruned, of any tap.
PrunedOfAll(q) == [a \in Apps |-> IF a \notin Taken(q) THEN NoRow ELSE Upserted(q)[a]]
Pruned(q) == [a \in Apps |-> IF a \in RowsOf(q.tap, Upserted(q)) \ Taken(q) THEN NoRow
                             ELSE Upserted(q)[a]]

WriteAll(r) ==
    /\ At(r, "write")
    /\ ~ Conflict(req[r].copy, rows[req[r].app])
    /\ rows' = Pruned(req[r])
    /\ locks' = Release(r, FALSE)
    /\ last' = [last EXCEPT ![req[r].tap] =
                  [rev |-> req[r].clone.rev, valid |-> Taken(req[r])]]
    /\ Ended(r, Cardinality(Taken(req[r])), FALSE)
    /\ UNCHANGED <<upstream, bacari>>

\* A conflict, or the database stays locked for longer than busy_timeout: the
\* transaction is rolled back and the lock of the tap released.
WriteFails(r) ==
    /\ At(r, "write") \/ At(r, "prune")
    /\ locks' = Release(r, TRUE)
    /\ Ended(r, 0, TRUE)
    /\ UNCHANGED <<upstream, rows, bacari, last>>

\* No manifest was accepted: nothing was written yet, and the stale rows are
\* selected outside of a transaction.
SelectStale(r) ==
    /\ At(r, "next")
    /\ req[r].todo = {}
    /\ req' = [req EXCEPT ![r].pc = "prune", ![r].stale = RowsOf(req[r].tap, rows)]
    /\ UNCHANGED <<upstream, rows, bacari, locks, last>>

Without(ids) == [a \in Apps |-> IF a \in ids THEN NoRow ELSE rows[a]]

PruneStale(r) ==
    /\ At(r, "prune")
    /\ rows' = Without(req[r].stale)
    /\ locks' = Release(r, FALSE)
    /\ last' = [last EXCEPT ![req[r].tap] = [rev |-> req[r].clone.rev, valid |-> {}]]
    /\ Ended(r, 0, FALSE)
    /\ UNCHANGED <<upstream, bacari>>

\* _record_bacaro: outside of the lock of the tap.
RecordLoad(r) ==
    /\ At(r, "record")
    /\ req' = [req EXCEPT ![r].pc = "save", ![r].rec = bacari[req[r].tap]]
    /\ UNCHANGED <<upstream, rows, bacari, locks, last>>

\* Mutant: an error leaves the count of the crawl before.
SavedKeepsCount(current, loaded, new) ==
    IF loaded = NoRow THEN new
    ELSE [count |-> current.count, error |-> Column(current.error, loaded.error, new.error)]
Saved(current, loaded, new) ==
    IF loaded = NoRow THEN new
    ELSE [count |-> Column(current.count, loaded.count, new.count),
          error |-> Column(current.error, loaded.error, new.error)]

RecordSave(r) ==
    /\ At(r, "save")
    /\ LET t == req[r].tap
       IN  bacari' = IF Conflict(req[r].rec, bacari[t]) THEN bacari
                     ELSE [bacari EXCEPT ![t] = Saved(@, req[r].rec, req[r].result)]
    /\ req' = [req EXCEPT ![r] = NoReq]
    /\ UNCHANGED <<upstream, rows, locks, last>>

(* DELETE /bacari/{slug}: takes no lock of the tap.                        *)
BeginDrop(r, t) ==
    /\ req[r] = NoReq
    /\ req' = [req EXCEPT ![r] = [op |-> "drop", tap |-> t, pc |-> "select", stale |-> {}]]
    /\ UNCHANGED <<upstream, rows, bacari, locks, last>>

DropSelect(r) ==
    /\ At(r, "select")
    /\ req' = [req EXCEPT ![r].pc = "delete", ![r].stale = RowsOf(req[r].tap, rows)]
    /\ UNCHANGED <<upstream, rows, bacari, locks, last>>

DropDelete(r) ==
    /\ At(r, "delete")
    /\ rows' = Without(req[r].stale)
    /\ bacari' = [bacari EXCEPT ![req[r].tap] = NoRow]
    /\ last' = [last EXCEPT ![req[r].tap] = [@ EXCEPT !.valid = {}]]
    /\ req' = [req EXCEPT ![r] = NoReq]
    /\ UNCHANGED <<upstream, locks>>

\* The packager pushes to the tap's repository.
Push(t) ==
    /\ upstream[t].rev < MaxRev          \* BOUND
    /\ \E S \in SUBSET May[t] :
         upstream' = [upstream EXCEPT ![t] = [rev |-> @.rev + 1, valid |-> S]]
    /\ UNCHANGED <<rows, bacari, locks, req, last>>

-----------------------------------------------------------------------------
CrawlStep(r) == \/ CloneTap(r)    \/ CloneFails(r)  \/ Acquire(r)    \/ NextFile(r)
                \/ MergeFile(r)   \/ WriteAll(r)    \/ WriteFails(r) \/ SelectStale(r)
                \/ PruneStale(r)  \/ RecordLoad(r)  \/ RecordSave(r)
DropStep(r)  == DropSelect(r) \/ DropDelete(r)

Crawls == \E r \in Reqs : \/ \E t \in Taps, op \in {"ingest", "import"} : BeginCrawl(r, t, op)
                          \/ CrawlStep(r)
Drops  == \E r \in Reqs : DropStep(r) \/ \E t \in Taps : BeginDrop(r, t)
Pushes == \E t \in Taps : Push(t)

Next == Crawls \/ Drops \/ Pushes

Spec     == Init /\ [][Next]_vars
\* No admin drops a tap.
Crawling == Init /\ [][Crawls \/ Pushes]_vars
\* Every tap is crawled through /ingest, which keeps a record of it.
Ingests  == \E r \in Reqs : CrawlStep(r) \/ \E t \in Taps : BeginCrawl(r, t, "ingest")
IngestingSpec == Init /\ [][Ingests \/ Drops \/ Pushes]_vars

\* The server carries a request through, and a crawl that waits for the lock
\* of its tap again and again finds it free.
Fairness == \A r \in Reqs : WF_vars(CrawlStep(r) \/ DropStep(r)) /\ SF_vars(Acquire(r))

-----------------------------------------------------------------------------
(* Properties.                                                             *)

\* No two taps use the same id (the convention of reverse-domain ids).
Namespaces == \A t, u \in Taps : t # u => May[t] \cap May[u] = {}

\* What a tap shows is what its last crawl took over: no app of it is missing
\* and none is left over (ingest_directory: "a faithful projection").
TapIsProjection == \A t \in Taps : RowsOf(t, rows) = last[t].valid

\* An app never passes from one tap to another while its row exists
\* (ingest: "the owner keeps its id").
OwnerKeepsId ==
    [][\A a \in Apps : rows[a] # NoRow /\ rows'[a] # NoRow
                         => rows'[a].bacaro = rows[a].bacaro]_vars

\* A tap never goes back to an older revision of its repository: a crawl does
\* not prune what a crawl of a newer clone just inserted (_ingest_locks).
CrawlsInOrder == [][\A t \in Taps : last'[t].rev >= last[t].rev]_vars

\* The record of a tap that no request is at work on tells the number of apps the
\* tap shows, unless the last crawl failed (Bacaro: "the last crawl outcome"); and
\* a tap without a record, as a drop leaves it, shows none (delete_bacaro).
Quiet(t) == \A r \in Reqs : req[r] # NoReq => req[r].tap # t
RecordsTellOutcome ==
    \A t \in Taps : Quiet(t) =>
        IF bacari[t] = NoRow
        THEN RowsOf(t, rows) = {}
        ELSE bacari[t].error \/ bacari[t].count = Cardinality(RowsOf(t, rows))

\* A crawl comes to an end, whatever fails in it and in the crawls it waits
\* for: no failure keeps the lock of a tap.
CrawlsEnd == \A r \in Reqs : req[r] # NoReq ~> req[r] = NoReq
=============================================================================
