------------------------------- MODULE Library -------------------------------
(***************************************************************************)
(* The install queue of spritz (app/main.py, "library"): the rows of table *)
(* `library`, the requests that read and write them, and the two parties   *)
(* around them, the catalog (rows appear and vanish) and the daemon of a   *)
(* user (polls, installs, confirms).                                       *)
(*                                                                         *)
(* Every handler runs in a worker thread with a database session of its    *)
(* own.  A SELECT sees the last commit and takes no lock, and a handler     *)
(* writes in the one flush of its commit, so a request is a sequence of     *)
(* steps, one for each statement, and the steps of different requests       *)
(* interleave.  What a request loaded stays in its session (copy, todo)     *)
(* until a commit expires it.  updated_at is left out.                      *)
(***************************************************************************)
EXTENDS Naturals, FiniteSets

CONSTANTS
    Users, Apps, Channels, Arches,
    LiveChannels,    \* channels whose resolution may commit (ombra snapshots)
    Reqs,            \* request slots: how many requests may be in flight
    MaxId,           \* BOUND: largest id of a library row
    IdReuse,         \* TRUE: SQLite gives max(id)+1; FALSE: a sequence
    LegacyDaemon,    \* TRUE: a daemon may confirm without a body
    NoRow, NoChannel, Idle

States == {"pending", "installed", "unavailable"}
RowIds == 1 .. MaxId
Row  == [user: Users, app: Apps, channel: Channels, arch: Arches, state: States]
Copy == [id: RowIds, row: Row]
Item == [app: Apps, channel: Channels, arch: Arches]

QueueReq   == [op: {"queue"}, pc: {"check", "find", "insert", "refind", "update"},
               user: Users, app: Apps, channel: Channels, arch: Arches,
               copy: Copy \cup {NoRow}]
RemoveReq  == [op: {"remove"}, pc: {"find", "delete"}, user: Users, app: Apps,
               copy: Copy \cup {NoRow}]
ConfirmReq == [op: {"confirm"}, pc: {"find", "update", "event"}, user: Users,
               app: Apps, channel: Channels \cup {NoChannel}, arch: Arches,
               copy: Copy \cup {NoRow}]
PollReq    == [op: {"poll"}, pc: {"select", "pick", "lookup", "mark"}, user: Users,
               todo: SUBSET Copy, copy: Copy \cup {NoRow}, out: SUBSET Item,
               expired: BOOLEAN]
CloseReq   == [op: {"close"}, pc: {"select", "delete"}, user: Users,
               todo: SUBSET Copy]
Request    == QueueReq \cup RemoveReq \cup ConfirmReq \cup PollReq \cup CloseReq

ASSUME BoundAssumption == MaxId \in Nat
ASSUME FlagAssumption  == IdReuse \in BOOLEAN /\ LegacyDaemon \in BOOLEAN
ASSUME LiveAssumption  == LiveChannels \subseteq Channels
ASSUME NullAssumption  == /\ NoRow \notin Row \cup Copy
                          /\ NoRow \notin [channel : Channels, arch : Arches, state : States]
                          /\ NoChannel \notin Channels
                          /\ Idle \notin Request

VARIABLES
    users,      \* ids in table `users`
    catalog,    \* ids in table `cicheti`
    lib,        \* [RowIds -> Row or NoRow]: table `library` by primary key
    lastId,     \* last id of the sequence (unused when ids are reused)
    req,        \* [Reqs -> Request or Idle]: the requests in flight
    fetched,    \* [Users -> SUBSET Item]: builds the user's daemon was handed
    downloads   \* builds counted in table `downloads` with kind 'installed'

vars == <<users, catalog, lib, lastId, req, fetched, downloads>>

\* A step that only reads, or answers.
StoreUnchanged == UNCHANGED <<users, catalog, lib, lastId, fetched, downloads>>

TypeOK ==
    /\ users \subseteq Users
    /\ catalog \subseteq Apps
    /\ lib \in [RowIds -> Row \cup {NoRow}]
    /\ lastId \in 0 .. MaxId
    /\ req \in [Reqs -> Request \cup {Idle}]
    /\ fetched \in [Users -> SUBSET Item]
    /\ downloads \subseteq Item

Init ==
    /\ users = Users
    /\ catalog = Apps
    /\ lib = [i \in RowIds |-> NoRow]
    /\ lastId = 0
    /\ req = [r \in Reqs |-> Idle]
    /\ fetched = [u \in Users |-> {}]
    /\ downloads = {}

-----------------------------------------------------------------------------
(* The table and the session.                                              *)

RowsOf(u)    == {i \in RowIds : lib[i] # NoRow /\ lib[i].user = u}

\* A mutant: the query forgets whose library it reads.
RowOfAnyone(u, a) == {i \in RowIds : lib[i] # NoRow /\ lib[i].app = a}
RowOf(u, a)  == {i \in RowsOf(u) : lib[i].app = a}
Load(i)      == [id |-> i, row |-> lib[i]]

\* select(...).first(): a copy of the row, or None.
First(S) == IF S = {} THEN {NoRow} ELSE {Load(i) : i \in S}

\* The id the database gives to the next row: SQLite the one after the largest
\* in use, so the id of a deleted row may come back; Postgres a fresh one.
Taken == IF IdReuse THEN {i \in RowIds : \E j \in RowIds : j >= i /\ lib[j] # NoRow}
                    ELSE 1 .. lastId
NewId == {i \in RowIds : i \notin Taken /\ i - 1 \in Taken \cup {0}}

\* An UPDATE sets only the columns whose value differs from the one loaded.
Column(current, loaded, new) == IF new # loaded THEN new ELSE current
Flush(current, loaded, new) ==
    [user    |-> current.user,
     app     |-> current.app,
     channel |-> Column(current.channel, loaded.channel, new.channel),
     arch    |-> Column(current.arch, loaded.arch, new.arch),
     state   |-> Column(current.state, loaded.state, new.state)]

\* UPDATE ... WHERE id = copy.id; with no row left the flush raises.
Written(copy, new) ==
    [lib EXCEPT ![copy.id] = IF @ = NoRow THEN @ ELSE Flush(@, copy.row, new)]

Deleted(copies) ==
    [i \in RowIds |-> IF \E c \in copies : c.id = i THEN NoRow ELSE lib[i]]

\* Mutants: the table without its unique constraint, and without foreign keys.
MayInsertTwice(u, a)  == u \in users
MayInsertOrphan(u, a) == RowOf(u, a) = {}
\* The constraints of the table: a unique (user, app), a user that exists.
MayInsert(u, a) == u \in users /\ RowOf(u, a) = {}

-----------------------------------------------------------------------------
At(r, op, pc) == req[r] # Idle /\ req[r].op = op /\ req[r].pc = pc
Goto(r, pc)   == req' = [req EXCEPT ![r].pc = pc]
Reply(r)      == req' = [req EXCEPT ![r] = Idle]
Begin(r, u, q) == /\ req[r] = Idle
                  /\ u \in users         \* current_user: anyone else gets 401
                  /\ req' = [req EXCEPT ![r] = q]

(* POST /library/{id}                                                      *)
\* A mutant: the new row carries the word of the reply instead of a state.
NewRowQueued(q) == [user |-> q.user, app |-> q.app, channel |-> q.channel,
                    arch |-> q.arch, state |-> "queued"]
NewRow(q) == [user |-> q.user, app |-> q.app, channel |-> q.channel,
              arch |-> q.arch, state |-> "pending"]

\* A mutant: asking again keeps the state of the row.
RequeuedInPlace(q, row) == [row EXCEPT !.channel = q.channel, !.arch = q.arch]
Requeued(q, row) == [row EXCEPT !.state = "pending", !.channel = q.channel,
                                !.arch = q.arch]

IdsLeft == Cardinality(Taken)
           + Cardinality({r \in Reqs : req[r] # Idle /\ req[r].op = "queue"}) < MaxId

BeginQueue(r, u, a, c, x) ==
    /\ IdsLeft       \* BOUND: only as many requests as there are ids for
    /\ Begin(r, u, [op |-> "queue", pc |-> "check", user |-> u, app |-> a,
                    channel |-> c, arch |-> x, copy |-> NoRow])
    /\ StoreUnchanged

QueueCheck(r) ==
    /\ At(r, "queue", "check")
    /\ IF req[r].app \in catalog THEN Goto(r, "find") ELSE Reply(r)
    /\ StoreUnchanged

QueueFind(r) ==
    /\ At(r, "queue", "find")
    /\ \E c \in First(RowOf(req[r].user, req[r].app)) :
         req' = [req EXCEPT ![r].copy = c,
                            ![r].pc = IF c = NoRow THEN "insert" ELSE "update"]
    /\ StoreUnchanged

QueueInsert(r) ==
    /\ At(r, "queue", "insert")
    /\ MayInsert(req[r].user, req[r].app)
    /\ \E i \in NewId :
         /\ lib' = [lib EXCEPT ![i] = NewRow(req[r])]
         /\ lastId' = IF IdReuse THEN lastId ELSE i
    /\ Reply(r)
    /\ UNCHANGED <<users, catalog, fetched, downloads>>

\* IntegrityError: roll back and look again.
QueueConflict(r) ==
    /\ At(r, "queue", "insert")
    /\ ~ MayInsert(req[r].user, req[r].app)
    /\ Goto(r, "refind")
    /\ StoreUnchanged

\* The rollback expired `user`, so a deleted account is an error; a row that
\* was removed meanwhile is not, and the reply still says "queued".
QueueRefind(r) ==
    /\ At(r, "queue", "refind")
    /\ IF req[r].user \notin users
       THEN Reply(r)
       ELSE \E c \in First(RowOf(req[r].user, req[r].app)) :
              IF c = NoRow
              THEN Reply(r)
              ELSE req' = [req EXCEPT ![r].copy = c, ![r].pc = "update"]
    /\ StoreUnchanged

QueueUpdate(r) ==
    /\ At(r, "queue", "update")
    /\ lib' = Written(req[r].copy, Requeued(req[r], req[r].copy.row))
    /\ Reply(r)
    /\ UNCHANGED <<users, catalog, lastId, fetched, downloads>>

(* POST /library/{id}/remove                                               *)
BeginRemove(r, u, a) ==
    /\ Begin(r, u, [op |-> "remove", pc |-> "find", user |-> u, app |-> a,
                    copy |-> NoRow])
    /\ StoreUnchanged

RemoveFind(r) ==
    /\ At(r, "remove", "find")
    /\ \E c \in First(RowOf(req[r].user, req[r].app)) :
         IF c = NoRow
         THEN Reply(r)
         ELSE req' = [req EXCEPT ![r].copy = c, ![r].pc = "delete"]
    /\ StoreUnchanged

RemoveDelete(r) ==
    /\ At(r, "remove", "delete")
    /\ lib' = Deleted({req[r].copy})
    /\ Reply(r)
    /\ UNCHANGED <<users, catalog, lastId, fetched, downloads>>

(* POST /library/{id}/installed: the daemon confirms a build it was handed. *)
BeginConfirm(r, u, item, c) ==
    /\ item \in fetched[u]
    /\ c = item.channel \/ (LegacyDaemon /\ c = NoChannel)
    /\ Begin(r, u, [op |-> "confirm", pc |-> "find", user |-> u,
                    app |-> item.app, channel |-> c, arch |-> item.arch,
                    copy |-> NoRow])
    /\ StoreUnchanged

\* A mutant: the body of the confirm is not looked at.
NeverSuperseded(q, row) == FALSE
\* The reply "superseded" when the row is for another channel.
Superseded(q, row) == q.channel # NoChannel /\ q.channel # row.channel

ConfirmFind(r) ==
    /\ At(r, "confirm", "find")
    /\ \E c \in First(RowOf(req[r].user, req[r].app)) :
         IF c = NoRow \/ (c # NoRow /\ Superseded(req[r], c.row))
         THEN Reply(r)
         ELSE req' = [req EXCEPT ![r].copy = c, ![r].pc = "update"]
    /\ StoreUnchanged

ConfirmUpdate(r) ==
    /\ At(r, "confirm", "update")
    /\ lib' = Written(req[r].copy, [req[r].copy.row EXCEPT !.state = "installed"])
    /\ IF lib[req[r].copy.id] = NoRow THEN Reply(r) ELSE Goto(r, "event")
    /\ UNCHANGED <<users, catalog, lastId, fetched, downloads>>

\* The commit expired the row: the event names what the row says by now.
ConfirmEvent(r) ==
    /\ At(r, "confirm", "event")
    /\ LET row == lib[req[r].copy.id]
       IN  downloads' = IF row = NoRow THEN downloads
                        ELSE downloads \cup {[app |-> req[r].app,
                                              channel |-> row.channel,
                                              arch |-> row.arch]}
    /\ Reply(r)
    /\ UNCHANGED <<users, catalog, lib, lastId, fetched>>

(* GET /library/pending: the poll of the daemon.                           *)
BeginPoll(r, u) ==
    /\ Begin(r, u, [op |-> "poll", pc |-> "select", user |-> u, todo |-> {},
                    copy |-> NoRow, out |-> {}, expired |-> FALSE])
    /\ StoreUnchanged

PollSelect(r) ==
    /\ At(r, "poll", "select")
    /\ req' = [req EXCEPT ![r].pc = "pick",
                          ![r].todo = {Load(i) : i \in {j \in RowsOf(req[r].user) :
                                                          lib[j].state = "pending"}}]
    /\ StoreUnchanged

\* The next row; once a commit has expired it, it is read again, and a row
\* that is gone fails the whole poll.
PollPick(r) ==
    /\ At(r, "poll", "pick")
    /\ \E c \in req[r].todo :
         IF req[r].expired /\ lib[c.id] = NoRow
         THEN Reply(r)
         ELSE req' = [req EXCEPT ![r].pc = "lookup",
                                 ![r].todo = @ \ {c},
                                 ![r].copy = IF req[r].expired THEN Load(c.id) ELSE c]
    /\ StoreUnchanged

\* A row whose app is in the catalog becomes an item; resolving a live channel
\* may commit or roll back, which expires the remaining rows.
PollLookup(r) ==
    /\ At(r, "poll", "lookup")
    /\ LET row == req[r].copy.row
       IN  IF row.app \notin catalog
           THEN Goto(r, "mark")
           ELSE \E e \in BOOLEAN :
                  /\ e => row.channel \in LiveChannels
                  /\ req' = [req EXCEPT ![r].pc = "pick",
                                        ![r].expired = @ \/ e,
                                        ![r].out = @ \cup {[app |-> row.app,
                                                            channel |-> row.channel,
                                                            arch |-> row.arch]}]
    /\ StoreUnchanged

\* Mutants: the row is left pending; the terminal state is the wrong one.
GonePending(row)   == row
GoneInstalled(row) == [row EXCEPT !.state = "installed"]
Gone(row) == [row EXCEPT !.state = "unavailable"]

\* The app left the catalog: a terminal state, committed at once.
PollMark(r) ==
    /\ At(r, "poll", "mark")
    /\ lib' = Written(req[r].copy, Gone(req[r].copy.row))
    /\ IF lib[req[r].copy.id] = NoRow
       THEN Reply(r)
       ELSE req' = [req EXCEPT ![r].pc = "pick", ![r].expired = TRUE]
    /\ UNCHANGED <<users, catalog, lastId, fetched, downloads>>

PollReply(r) ==
    /\ At(r, "poll", "pick")
    /\ req[r].todo = {}
    /\ fetched' = [fetched EXCEPT ![req[r].user] = @ \cup req[r].out]
    /\ Reply(r)
    /\ UNCHANGED <<users, catalog, lib, lastId, downloads>>

(* POST /auth/delete-account                                               *)
BeginClose(r, u) ==
    /\ Begin(r, u, [op |-> "close", pc |-> "select", user |-> u, todo |-> {}])
    /\ StoreUnchanged

CloseSelect(r) ==
    /\ At(r, "close", "select")
    /\ req' = [req EXCEPT ![r].pc = "delete",
                          ![r].todo = {Load(i) : i \in RowsOf(req[r].user)}]
    /\ StoreUnchanged

\* The rows it loaded, then the user; a row queued since then still refers to
\* the user, and the whole deletion is rolled back.
CloseDelete(r) ==
    /\ At(r, "close", "delete")
    /\ LET left == Deleted(req[r].todo)
       IN  IF \E i \in RowIds : left[i] # NoRow /\ left[i].user = req[r].user
           THEN UNCHANGED <<lib, users>>
           ELSE lib' = left /\ users' = users \ {req[r].user}
    /\ Reply(r)
    /\ UNCHANGED <<catalog, lastId, fetched, downloads>>

(* The catalog: a crawl prunes an app or brings it back.                   *)
Prune(a)  == /\ a \in catalog
             /\ catalog' = catalog \ {a}
             /\ UNCHANGED <<users, lib, lastId, req, fetched, downloads>>
Publish(a) == /\ a \notin catalog
              /\ catalog' = catalog \cup {a}
              /\ UNCHANGED <<users, lib, lastId, req, fetched, downloads>>

-----------------------------------------------------------------------------
\* The user in front of the browser.
UserBegins(r, u) ==
    \/ \E a \in Apps, c \in Channels, x \in Arches : BeginQueue(r, u, a, c, x)
    \/ \E a \in Apps : BeginRemove(r, u, a)
    \/ BeginClose(r, u)

DaemonBegins(r, u) ==
    \/ BeginPoll(r, u)
    \/ \E item \in Item, c \in Channels \cup {NoChannel} : BeginConfirm(r, u, item, c)

QueueStep(r)   == \/ QueueCheck(r)    \/ QueueFind(r)   \/ QueueInsert(r)
                  \/ QueueConflict(r) \/ QueueRefind(r) \/ QueueUpdate(r)
RemoveStep(r)  == RemoveFind(r) \/ RemoveDelete(r)
ConfirmStep(r) == ConfirmFind(r) \/ ConfirmUpdate(r) \/ ConfirmEvent(r)
PollStep(r)    == \/ PollSelect(r) \/ PollPick(r) \/ PollLookup(r)
                  \/ PollMark(r)   \/ PollReply(r)
CloseStep(r)   == CloseSelect(r) \/ CloseDelete(r)

\* The server goes on with the request in slot r.
Step(r) == QueueStep(r) \/ RemoveStep(r) \/ ConfirmStep(r) \/ PollStep(r) \/ CloseStep(r)

CatalogStep == \E a \in Apps : Prune(a) \/ Publish(a)

Next == \/ \E r \in Reqs, u \in Users : UserBegins(r, u) \/ DaemonBegins(r, u)
        \/ \E r \in Reqs : Step(r)
        \/ CatalogStep

Spec == Init /\ [][Next]_vars

\* A request that was begun is carried through, and the daemon of a user
\* keeps polling (every 30-60 s) whatever else goes on.
Fairness == /\ \A r \in Reqs : WF_vars(Step(r))
            /\ \A u \in Users : SF_vars(\E r \in Reqs : BeginPoll(r, u))

FairSpec == Spec /\ Fairness

-----------------------------------------------------------------------------
(* Properties.                                                             *)

\* However requests overlap, a user has at most one row for an app: the loser
\* of two first clicks ends up updating the row of the winner
\* (queue_install, UniqueConstraint of InstallState).
OneRowPerApp ==
    \A i, j \in RowIds :
        /\ lib[i] # NoRow /\ lib[j] # NoRow
        /\ lib[i].user = lib[j].user /\ lib[i].app = lib[j].app
        => i = j

\* No library row outlives its account, whichever of an erasure and a queue
\* request commits first (delete_account, PRAGMA foreign_keys).
NoOrphanRows == \A i \in RowIds : lib[i] # NoRow => lib[i].user \in users

\* A request changes library rows of the user it is made for and no others,
\* even when the row it loaded was removed and another one inserted before it
\* writes by id (mark_installed, queue_install, remove_from_library, pending).
Mine(r, row) == row = NoRow \/ row.user = req[r].user
OwnRowsOnly ==
    [][\A i \in RowIds : lib'[i] # lib[i] =>
         \E r \in Reqs : /\ req[r] # Idle /\ req'[r] # req[r]
                         /\ Mine(r, lib[i]) /\ Mine(r, lib'[i])]_vars

\* The library says "installed" of an app only when the daemon of that user
\* was handed a build of it by a poll (mark_installed, pending).
InstalledWasHanded ==
    \A i \in RowIds : lib[i] # NoRow /\ lib[i].state = "installed" =>
        \E item \in fetched[lib[i].user] : item.app = lib[i].app

(* Why these hold when ids are not reused: the inductive strengthening.    *)

\* A request that is about to write has loaded a row.
Loaded ==
    \A r \in Reqs :
        /\ req[r] # Idle /\ req[r].op # "close"
        /\ req[r].pc \in {"update", "delete", "event", "lookup", "mark"}
        => req[r].copy \in Copy

\* No row lies beyond the sequence.
FreshIds == \A i \in RowIds : i > lastId => lib[i] = NoRow

\* A loaded row is one of the user of the request, and if there is still a row
\* with its id it is for the same user and app.
Copies(q) == {c \in Copy : \/ q.op # "close" /\ c = q.copy
                           \/ q.op \in {"poll", "close"} /\ c \in q.todo}
RowMatch(c) == /\ c.id <= lastId
               /\ lib[c.id] # NoRow => /\ lib[c.id].user = c.row.user
                                       /\ lib[c.id].app = c.row.app
CopiesMatch ==
    \A r \in Reqs : req[r] # Idle =>
        \A c \in Copies(req[r]) : c.row.user = req[r].user /\ RowMatch(c)

\* A confirm is for an app the daemon of its user was handed.
ConfirmsHanded ==
    \A r \in Reqs : req[r] # Idle /\ req[r].op = "confirm" =>
        /\ \E item \in fetched[req[r].user] : item.app = req[r].app
        /\ req[r].copy # NoRow => req[r].copy.row.app = req[r].app

\* What a session has loaded stays true of the table, by id: the reason why the
\* writes by primary key above hit the rows they are meant for.
SessionInv == Loaded /\ FreshIds /\ CopiesMatch /\ ConfirmsHanded

\* Every confirmed install that is counted was of a build some daemon was
\* handed (mark_installed: "the install actually landed on a machine").
Counted(d) == \E u \in Users : \E item \in fetched[u] :
                 item.app = d.app /\ item.channel = d.channel
DownloadsAreReal == \A d \in downloads : Counted(d)

\* A confirm that names its channel never turns a request for another channel
\* into "installed" (mark_installed: a stale confirm must not drop the request
\* the user actually wants).
Confirming(r, i) ==
    /\ At(r, "confirm", "update") /\ req'[r] # req[r]
    /\ req[r].copy.id = i /\ req[r].channel # NoChannel
    /\ lib[i] # NoRow /\ lib'[i] # lib[i]
ConfirmKeepsNewerRequest ==
    [][\A r \in Reqs, i \in RowIds :
         Confirming(r, i) => lib[i].channel = req[r].channel]_vars

\* The same for the architecture the daemon reports (InstalledBody: a row
\* re-queued "on a different channel/arch").
ConfirmKeepsNewerArch ==
    [][\A r \in Reqs, i \in RowIds :
         Confirming(r, i) => lib[i].arch = req[r].arch]_vars

\* A pending row whose app is gone does not stay pending as long as the app
\* stays away: some poll moves it to a terminal state, so the daemon does not
\* see it forever (pending).
Stuck(u, a) == a \notin catalog /\ u \in users
               /\ \E i \in RowOf(u, a) : lib[i].state = "pending"
PrunedRequestsSettle == \A u \in Users, a \in Apps : Stuck(u, a) ~> ~ Stuck(u, a)

\* One request at a time, the rows are an InstallQueue: the newest request of
\* the user stands until its own build is confirmed, it is given up for an app
\* that vanished, or it is withdrawn.
AbstractSlot ==
    [p \in Users \X Apps |->
        IF RowOf(p[1], p[2]) = {} THEN NoRow
        ELSE LET row == lib[CHOOSE i \in RowOf(p[1], p[2]) : TRUE]
             IN  [channel |-> row.channel, arch |-> row.arch, state |-> row.state]]
AbstractHanded ==
    UNION {{<<u, item.app, item.channel>> : item \in fetched[u]} : u \in Users}
Queue == INSTANCE InstallQueue WITH Absent <- NoRow, slot <- AbstractSlot,
                                    handed <- AbstractHanded
ImplementsQueue == Queue!Spec
=============================================================================
