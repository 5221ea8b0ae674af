---------------------------- MODULE LibraryProofs ----------------------------
(* Theorems about Library, for every set of users, apps, channels, requests. *)
EXTENDS Library, TLAPS

\* The disjuncts of Next, one per statement of a handler.
LEMMA NextCases ==
    ASSUME Next, NEW P,
           \A r \in Reqs, u \in Users, a \in Apps, c \in Channels, x \in Arches :
               BeginQueue(r, u, a, c, x) => P,
           \A r \in Reqs, u \in Users, a \in Apps : BeginRemove(r, u, a) => P,
           \A r \in Reqs, u \in Users : BeginClose(r, u) \/ BeginPoll(r, u) => P,
           \A r \in Reqs, u \in Users, item \in Item, c \in Channels \cup {NoChannel} :
               BeginConfirm(r, u, item, c) => P,
           \A r \in Reqs : QueueStep(r) => P,
           \A r \in Reqs : RemoveStep(r) => P,
           \A r \in Reqs : ConfirmStep(r) => P,
           \A r \in Reqs : PollStep(r) => P,
           \A r \in Reqs : CloseStep(r) => P,
           CatalogStep => P
    PROVE  P
  BY DEF Next, UserBegins, DaemonBegins, Step

\* A request in flight is of the record type of its operation.
LEMMA RequestTypes ==
    ASSUME TypeOK, NEW r \in Reqs, req[r] # Idle
    PROVE  /\ req[r] \in Request
           /\ req[r].op = "queue"   => req[r] \in QueueReq
           /\ req[r].op = "remove"  => req[r] \in RemoveReq
           /\ req[r].op = "confirm" => req[r] \in ConfirmReq
           /\ req[r].op = "poll"    => req[r] \in PollReq
           /\ req[r].op = "close"   => req[r] \in CloseReq
  BY DEF TypeOK, Request, QueueReq, RemoveReq, ConfirmReq, PollReq, CloseReq

\* What a query returns: None or a row of the table with its id.
LEMMA FirstType ==
    ASSUME TypeOK, NEW u, NEW a, NEW c \in First(RowOf(u, a))
    PROVE  \/ c = NoRow
           \/ /\ c \in Copy /\ c.id \in RowIds /\ c.row = lib[c.id]
              /\ lib[c.id] # NoRow /\ lib[c.id].user = u /\ lib[c.id].app = a
  BY DEF First, RowOf, RowsOf, Load, Copy, TypeOK

\* A write by id keeps the table a table.
LEMMA WrittenType ==
    ASSUME TypeOK, NEW c \in Copy, NEW new \in Row
    PROVE  /\ Written(c, new) \in [RowIds -> Row \cup {NoRow}]
           /\ \A i \in RowIds : i # c.id => Written(c, new)[i] = lib[i]
           /\ lib[c.id] = NoRow => Written(c, new)[c.id] = NoRow
           /\ lib[c.id] # NoRow =>
                /\ Written(c, new)[c.id] # NoRow
                /\ Written(c, new)[c.id].user = lib[c.id].user
                /\ Written(c, new)[c.id].app = lib[c.id].app
                /\ Written(c, new)[c.id].state \in {lib[c.id].state, new.state}
  <1>1. c.id \in RowIds /\ c.row \in Row
    BY DEF Copy
  <1>2. CASE lib[c.id] = NoRow
    BY <1>1, <1>2 DEF Written, TypeOK
  <1>3. CASE lib[c.id] # NoRow
    <2> DEFINE f == Flush(lib[c.id], c.row, new)
    <2>1. lib[c.id] \in Row
      BY <1>1, <1>3 DEF TypeOK
    <2>2. /\ f \in Row
          /\ f.user = lib[c.id].user /\ f.app = lib[c.id].app
          /\ f.state \in {lib[c.id].state, new.state}
      BY <2>1, <1>1 DEF Flush, Column, Row
    <2>3. Written(c, new) = [lib EXCEPT ![c.id] = f]
      BY <1>3 DEF Written
    <2>4. f # NoRow
      BY <2>2, NullAssumption
    <2> QED
      BY <1>1, <1>3, <2>2, <2>3, <2>4 DEF TypeOK
  <1> QED
    BY <1>2, <1>3

\* The three values a handler flushes are rows.
LEMMA NewValues ==
    ASSUME TypeOK, NEW r \in Reqs, req[r] # Idle, NEW row \in Row
    PROVE  /\ req[r].op = "queue" => NewRow(req[r]) \in Row
           /\ req[r].op = "queue" => Requeued(req[r], row) \in Row
           /\ [row EXCEPT !.state = "installed"] \in Row
           /\ Gone(row) \in Row
  BY RequestTypes DEF QueueReq, NewRow, Requeued, Gone, Row, States

LEMMA DeletedType ==
    ASSUME TypeOK, NEW C
    PROVE  /\ Deleted(C) \in [RowIds -> Row \cup {NoRow}]
           /\ \A i \in RowIds : Deleted(C)[i] \in {NoRow, lib[i]}
  BY DEF Deleted, TypeOK

-----------------------------------------------------------------------------
\* The table and the sessions have the types declared for them, and a handler
\* that is about to write holds the row it loaded.
TypeInv == TypeOK /\ Loaded

\* A step that leaves the store alone and one request well typed.
LEMMA ReadStep ==
    ASSUME TypeInv, NEW r \in Reqs, NEW q \in Request \cup {Idle},
           req' = [req EXCEPT ![r] = q],
           q # Idle /\ q.op # "close" /\
             q.pc \in {"update", "delete", "event", "lookup", "mark"} => q.copy \in Copy,
           users' \subseteq Users, catalog' \subseteq Apps, lastId' \in 0 .. MaxId,
           lib' \in [RowIds -> Row \cup {NoRow}],
           fetched' \in [Users -> SUBSET Item], downloads' \subseteq Item
    PROVE  TypeInv'
  BY DEF TypeInv, TypeOK, Loaded

LEMMA TypeInvBegin ==
    ASSUME TypeInv, NEW r \in Reqs, NEW u \in Users
    PROVE  /\ \A a \in Apps, c \in Channels, x \in Arches :
                BeginQueue(r, u, a, c, x) => TypeInv'
           /\ \A a \in Apps : BeginRemove(r, u, a) => TypeInv'
           /\ \A item \in Item, c \in Channels \cup {NoChannel} :
                BeginConfirm(r, u, item, c) => TypeInv'
           /\ BeginPoll(r, u) => TypeInv'
           /\ BeginClose(r, u) => TypeInv'
  <1> USE DEF Begin, StoreUnchanged
  <1>1. ASSUME NEW a \in Apps, NEW c \in Channels, NEW x \in Arches,
               BeginQueue(r, u, a, c, x)
        PROVE  TypeInv'
    <2> DEFINE q == [op |-> "queue", pc |-> "check", user |-> u, app |-> a,
                     channel |-> c, arch |-> x, copy |-> NoRow]
    <2>1. q \in Request
      BY DEF Request, QueueReq
    <2> QED
      BY <1>1, <2>1, ReadStep DEF BeginQueue, TypeInv, TypeOK
  <1>2. ASSUME NEW a \in Apps, BeginRemove(r, u, a) PROVE TypeInv'
    <2> DEFINE q == [op |-> "remove", pc |-> "find", user |-> u, app |-> a,
                     copy |-> NoRow]
    <2>1. q \in Request
      BY DEF Request, RemoveReq
    <2> QED
      BY <1>2, <2>1, ReadStep DEF BeginRemove, TypeInv, TypeOK
  <1>3. ASSUME NEW item \in Item, NEW c \in Channels \cup {NoChannel},
               BeginConfirm(r, u, item, c)
        PROVE  TypeInv'
    <2> DEFINE q == [op |-> "confirm", pc |-> "find", user |-> u, app |-> item.app,
                     channel |-> c, arch |-> item.arch, copy |-> NoRow]
    <2>1. q \in Request
      BY DEF Request, ConfirmReq, Item
    <2> QED
      BY <1>3, <2>1, ReadStep DEF BeginConfirm, TypeInv, TypeOK
  <1>4. ASSUME BeginPoll(r, u) PROVE TypeInv'
    <2> DEFINE q == [op |-> "poll", pc |-> "select", user |-> u, todo |-> {},
                     copy |-> NoRow, out |-> {}, expired |-> FALSE]
    <2>1. q \in Request
      BY DEF Request, PollReq
    <2> QED
      BY <1>4, <2>1, ReadStep DEF BeginPoll, TypeInv, TypeOK
  <1>5. ASSUME BeginClose(r, u) PROVE TypeInv'
    <2> DEFINE q == [op |-> "close", pc |-> "select", user |-> u, todo |-> {}]
    <2>1. q \in Request
      BY DEF Request, CloseReq
    <2> QED
      BY <1>5, <2>1, ReadStep DEF BeginClose, TypeInv, TypeOK
  <1> QED
    BY <1>1, <1>2, <1>3, <1>4, <1>5


LEMMA TypeInvQueue ==
    ASSUME TypeInv, NEW r \in Reqs, QueueStep(r)
    PROVE  TypeInv'
  <1> USE DEF At, Goto, Reply, StoreUnchanged
  <1>0. req[r] # Idle /\ req[r] \in QueueReq
    BY RequestTypes DEF QueueStep, QueueCheck, QueueFind, QueueInsert, QueueConflict,
                        QueueRefind, QueueUpdate, TypeInv
  <1>1. CASE QueueCheck(r)
    <2>1. [req[r] EXCEPT !.pc = "find"] \in Request
      BY <1>0 DEF Request, QueueReq
    <2> QED
      BY <1>0, <1>1, <2>1, ReadStep DEF QueueCheck, QueueReq, TypeInv, TypeOK
  <1>2. CASE QueueFind(r)
    <2>1. PICK c \in First(RowOf(req[r].user, req[r].app)) :
            req' = [req EXCEPT ![r].copy = c,
                               ![r].pc = IF c = NoRow THEN "insert" ELSE "update"]
      BY <1>2 DEF QueueFind
    <2> DEFINE q == [req[r] EXCEPT !.copy = c,
                                   !.pc = IF c = NoRow THEN "insert" ELSE "update"]
    <2>2. c = NoRow \/ c \in Copy
      BY FirstType DEF TypeInv
    <2>3. q \in Request /\ (q.pc = "update" => q.copy \in Copy)
          /\ q.pc \in {"insert", "update"} /\ q.op = "queue"
      BY <1>0, <2>2 DEF Request, QueueReq
    <2>4. req' = [req EXCEPT ![r] = q]
      BY <2>1, <1>0 DEF TypeInv, TypeOK
    <2> HIDE DEF q
    <2> QED
      BY <1>2, <2>3, <2>4, ReadStep DEF QueueFind, TypeInv, TypeOK
  <1>3. CASE QueueInsert(r)
    <2>1. PICK i \in NewId : /\ lib' = [lib EXCEPT ![i] = NewRow(req[r])]
                             /\ lastId' = IF IdReuse THEN lastId ELSE i
      BY <1>3 DEF QueueInsert
    <2>2. i \in RowIds
      BY DEF NewId
    <2>3. NewRow(req[r]) \in Row
      BY <1>0 DEF QueueReq, NewRow, Row, States
    <2>4. lib' \in [RowIds -> Row \cup {NoRow}] /\ lastId' \in 0 .. MaxId
      BY <2>1, <2>2, <2>3, BoundAssumption DEF TypeInv, TypeOK, RowIds
    <2> QED
      BY <1>3, <2>4, ReadStep DEF QueueInsert, TypeInv, TypeOK
  <1>4. CASE QueueConflict(r)
    <2>1. [req[r] EXCEPT !.pc = "refind"] \in Request
      BY <1>0 DEF Request, QueueReq
    <2> QED
      BY <1>0, <1>4, <2>1, ReadStep DEF QueueConflict, QueueReq, TypeInv, TypeOK
  <1>5. CASE QueueRefind(r)
    <2>1. CASE req' = [req EXCEPT ![r] = Idle]
      BY <1>5, <2>1, ReadStep DEF QueueRefind, TypeInv, TypeOK
    <2>2. ASSUME NEW c \in First(RowOf(req[r].user, req[r].app)), c # NoRow,
                 req' = [req EXCEPT ![r].copy = c, ![r].pc = "update"]
          PROVE  TypeInv'
      <3>1. c \in Copy
        BY <2>2, FirstType DEF TypeInv
      <3> DEFINE q == [req[r] EXCEPT !.copy = c, !.pc = "update"]
      <3>2. q \in Request /\ q.copy \in Copy
        BY <1>0, <3>1 DEF Request, QueueReq
      <3>3. req' = [req EXCEPT ![r] = q]
        BY <1>0, <2>2 DEF TypeInv, TypeOK
      <3> HIDE DEF q
      <3> QED
        BY <1>5, <3>2, <3>3, ReadStep DEF QueueRefind, TypeInv, TypeOK
    <2> QED
      BY <1>5, <2>1, <2>2 DEF QueueRefind
  <1>6. CASE QueueUpdate(r)
    <2>1. req[r].copy \in Copy
      BY <1>0, <1>6 DEF QueueUpdate, TypeInv, Loaded, QueueReq
    <2>2. Requeued(req[r], req[r].copy.row) \in Row
      BY <1>0, <2>1, NewValues DEF TypeInv, Copy, QueueReq
    <2>3. lib' \in [RowIds -> Row \cup {NoRow}]
      BY <1>6, <2>1, <2>2, WrittenType DEF QueueUpdate, TypeInv
    <2> QED
      BY <1>6, <2>3, ReadStep DEF QueueUpdate, TypeInv, TypeOK
  <1> QED
    BY <1>1, <1>2, <1>3, <1>4, <1>5, <1>6 DEF QueueStep

LEMMA TypeInvRemove ==
    ASSUME TypeInv, NEW r \in Reqs, RemoveStep(r)
    PROVE  TypeInv'
  <1> USE DEF At, Reply, StoreUnchanged
  <1>0. req[r] # Idle /\ req[r] \in RemoveReq
    BY RequestTypes DEF RemoveStep, RemoveFind, RemoveDelete, TypeInv
  <1>1. CASE RemoveFind(r)
    <2>1. CASE req' = [req EXCEPT ![r] = Idle]
      BY <1>1, <2>1, ReadStep DEF RemoveFind, TypeInv, TypeOK
    <2>2. ASSUME NEW c \in First(RowOf(req[r].user, req[r].app)), c # NoRow,
                 req' = [req EXCEPT ![r].copy = c, ![r].pc = "delete"]
          PROVE  TypeInv'
      <3>1. c \in Copy
        BY <2>2, FirstType DEF TypeInv
      <3>2. [req[r] EXCEPT !.copy = c, !.pc = "delete"] \in Request
        BY <1>0, <3>1 DEF Request, RemoveReq
      <3> QED
        BY <1>0, <1>1, <2>2, <3>1, <3>2, ReadStep DEF RemoveFind, RemoveReq, TypeInv, TypeOK
    <2> QED
      BY <1>1, <2>1, <2>2 DEF RemoveFind
  <1>2. CASE RemoveDelete(r)
    BY <1>2, DeletedType, ReadStep DEF RemoveDelete, TypeInv, TypeOK
  <1> QED
    BY <1>1, <1>2 DEF RemoveStep

LEMMA TypeInvConfirm ==
    ASSUME TypeInv, NEW r \in Reqs, ConfirmStep(r)
    PROVE  TypeInv'
  <1> USE DEF At, Goto, Reply, StoreUnchanged
  <1>0. req[r] # Idle /\ req[r] \in ConfirmReq
    BY RequestTypes DEF ConfirmStep, ConfirmFind, ConfirmUpdate, ConfirmEvent, TypeInv
  <1>1. CASE ConfirmFind(r)
    <2>1. CASE req' = [req EXCEPT ![r] = Idle]
      BY <1>1, <2>1, ReadStep DEF ConfirmFind, TypeInv, TypeOK
    <2>2. ASSUME NEW c \in First(RowOf(req[r].user, req[r].app)), c # NoRow,
                 req' = [req EXCEPT ![r].copy = c, ![r].pc = "update"]
          PROVE  TypeInv'
      <3>1. c \in Copy
        BY <2>2, FirstType DEF TypeInv
      <3>2. [req[r] EXCEPT !.copy = c, !.pc = "update"] \in Request
        BY <1>0, <3>1 DEF Request, ConfirmReq
      <3> QED
        BY <1>0, <1>1, <2>2, <3>1, <3>2, ReadStep DEF ConfirmFind, ConfirmReq, TypeInv, TypeOK
    <2> QED
      BY <1>1, <2>1, <2>2 DEF ConfirmFind
  <1>2. CASE ConfirmUpdate(r)
    <2>1. req[r].copy \in Copy
      BY <1>0, <1>2 DEF ConfirmUpdate, TypeInv, Loaded, ConfirmReq
    <2>2. [req[r].copy.row EXCEPT !.state = "installed"] \in Row
      BY <1>0, <2>1, NewValues DEF TypeInv, Copy
    <2>3. lib' \in [RowIds -> Row \cup {NoRow}]
      BY <1>2, <2>1, <2>2, WrittenType DEF ConfirmUpdate, TypeInv
    <2>4. [req[r] EXCEPT !.pc = "event"] \in Request
      BY <1>0 DEF Request, ConfirmReq
    <2>5. CASE req' = [req EXCEPT ![r] = Idle]
      BY <1>2, <2>3, <2>5, ReadStep DEF ConfirmUpdate, TypeInv, TypeOK
    <2>6. CASE req' = [req EXCEPT ![r].pc = "event"]
      BY <1>0, <1>2, <2>1, <2>3, <2>4, <2>6, ReadStep
         DEF ConfirmUpdate, ConfirmReq, TypeInv, TypeOK
    <2> QED
      BY <1>2, <2>5, <2>6 DEF ConfirmUpdate
  <1>3. CASE ConfirmEvent(r)
    <2>1. req[r].copy \in Copy
      BY <1>0, <1>3 DEF ConfirmEvent, TypeInv, Loaded, ConfirmReq
    <2>2. lib[req[r].copy.id] \in Row \cup {NoRow}
      BY <2>1 DEF TypeInv, TypeOK, Copy
    <2>3. downloads' \subseteq Item
      BY <1>0, <1>3, <2>2 DEF ConfirmEvent, ConfirmReq, TypeInv, TypeOK, Item, Row
    <2> QED
      BY <1>3, <2>3, ReadStep DEF ConfirmEvent, TypeInv, TypeOK
  <1> QED
    BY <1>1, <1>2, <1>3 DEF ConfirmStep


LEMMA TypeInvPoll ==
    ASSUME TypeInv, NEW r \in Reqs, PollStep(r)
    PROVE  TypeInv'
  <1> USE DEF At, Goto, Reply, StoreUnchanged
  <1>0. req[r] # Idle /\ req[r] \in PollReq
    BY RequestTypes DEF PollStep, PollSelect, PollPick, PollLookup, PollMark,
                        PollReply, TypeInv
  <1>1. CASE PollSelect(r)
    <2> DEFINE S == {Load(i) : i \in {j \in RowsOf(req[r].user) : lib[j].state = "pending"}}
               q == [req[r] EXCEPT !.pc = "pick", !.todo = S]
    <2>1. S \subseteq Copy
      BY DEF Load, RowsOf, Copy, TypeInv, TypeOK
    <2>2. q \in Request /\ q.pc = "pick"
      BY <1>0, <2>1 DEF Request, PollReq
    <2>3. req' = [req EXCEPT ![r] = q]
      BY <1>0, <1>1 DEF PollSelect, TypeInv, TypeOK
    <2> HIDE DEF q
    <2> QED
      BY <1>1, <2>2, <2>3, ReadStep DEF PollSelect, TypeInv, TypeOK
  <1>2. CASE PollPick(r)
    <2>1. PICK c \in req[r].todo :
            IF req[r].expired /\ lib[c.id] = NoRow
            THEN req' = [req EXCEPT ![r] = Idle]
            ELSE req' = [req EXCEPT ![r].pc = "lookup",
                                    ![r].todo = @ \ {c},
                                    ![r].copy = IF req[r].expired THEN Load(c.id) ELSE c]
      BY <1>2 DEF PollPick
    <2>2. c \in Copy
      BY <1>0 DEF PollReq
    <2>3. CASE req[r].expired /\ lib[c.id] = NoRow
      BY <1>2, <2>1, <2>3, ReadStep DEF PollPick, TypeInv, TypeOK
    <2>4. CASE ~ (req[r].expired /\ lib[c.id] = NoRow)
      <3> DEFINE d == IF req[r].expired THEN Load(c.id) ELSE c
                 q == [req[r] EXCEPT !.pc = "lookup", !.todo = @ \ {c}, !.copy = d]
      <3>1. d \in Copy
        BY <2>2, <2>4 DEF Load, Copy, TypeInv, TypeOK
      <3>2. q \in Request /\ q.copy \in Copy
        BY <1>0, <3>1 DEF Request, PollReq
      <3>3. req' = [req EXCEPT ![r] = q]
        BY <1>0, <2>1, <2>4 DEF TypeInv, TypeOK
      <3> HIDE DEF q
      <3> QED
        BY <1>2, <3>2, <3>3, ReadStep DEF PollPick, TypeInv, TypeOK
    <2> QED
      BY <2>3, <2>4
  <1>3. CASE PollLookup(r)
    <2>1. req[r].copy \in Copy
      BY <1>0, <1>3 DEF PollLookup, TypeInv, Loaded, PollReq
    <2>2. CASE req' = [req EXCEPT ![r].pc = "mark"]
      <3>1. [req[r] EXCEPT !.pc = "mark"] \in Request
        BY <1>0 DEF Request, PollReq
      <3> QED
        BY <1>0, <1>3, <2>1, <2>2, <3>1, ReadStep DEF PollLookup, PollReq, TypeInv, TypeOK
    <2>3. ASSUME NEW e \in BOOLEAN, NEW item,
                 item = [app |-> req[r].copy.row.app, channel |-> req[r].copy.row.channel,
                         arch |-> req[r].copy.row.arch],
                 req' = [req EXCEPT ![r].pc = "pick", ![r].expired = @ \/ e,
                                    ![r].out = @ \cup {item}]
          PROVE  TypeInv'
      <3> DEFINE q == [req[r] EXCEPT !.pc = "pick", !.expired = @ \/ e,
                                     !.out = @ \cup {item}]
      <3>1. item \in Item
        BY <2>1, <2>3 DEF Copy, Row, Item
      <3>2. req[r].out \cup {item} \in SUBSET Item /\ (req[r].expired \/ e) \in BOOLEAN
        BY <1>0, <3>1 DEF PollReq
      <3>3. q \in Request /\ q.pc = "pick"
        BY <1>0, <3>2 DEF Request, PollReq
      <3>4. req' = [req EXCEPT ![r] = q]
        BY <1>0, <2>3 DEF TypeInv, TypeOK
      <3> HIDE DEF q
      <3> QED
        BY <1>3, <3>3, <3>4, ReadStep DEF PollLookup, TypeInv, TypeOK
    <2> QED
      BY <1>3, <2>2, <2>3 DEF PollLookup
  <1>4. CASE PollMark(r)
    <2>1. req[r].copy \in Copy
      BY <1>0, <1>4 DEF PollMark, TypeInv, Loaded, PollReq
    <2>2. Gone(req[r].copy.row) \in Row
      BY <1>0, <2>1, NewValues DEF TypeInv, Copy
    <2>3. lib' \in [RowIds -> Row \cup {NoRow}]
      BY <1>4, <2>1, <2>2, WrittenType DEF PollMark, TypeInv
    <2> DEFINE q == [req[r] EXCEPT !.pc = "pick", !.expired = TRUE]
    <2>4. q \in Request /\ q.pc = "pick"
      BY <1>0 DEF Request, PollReq
    <2>5. CASE req' = [req EXCEPT ![r] = Idle]
      BY <1>4, <2>3, <2>5, ReadStep DEF PollMark, TypeInv, TypeOK
    <2>6. CASE req' = [req EXCEPT ![r].pc = "pick", ![r].expired = TRUE]
      <3>1. req' = [req EXCEPT ![r] = q]
        BY <1>0, <2>6 DEF TypeInv, TypeOK
      <3> HIDE DEF q
      <3> QED
        BY <1>4, <2>3, <2>4, <3>1, ReadStep DEF PollMark, TypeInv, TypeOK
    <2> QED
      BY <1>4, <2>5, <2>6 DEF PollMark
  <1>5. CASE PollReply(r)
    <2>1. fetched' \in [Users -> SUBSET Item]
      BY <1>0, <1>5 DEF PollReply, PollReq, TypeInv, TypeOK
    <2> QED
      BY <1>5, <2>1, ReadStep DEF PollReply, TypeInv, TypeOK
  <1> QED
    BY <1>1, <1>2, <1>3, <1>4, <1>5 DEF PollStep

LEMMA TypeInvClose ==
    ASSUME TypeInv, NEW r \in Reqs, CloseStep(r)
    PROVE  TypeInv'
  <1> USE DEF At, Goto, Reply, StoreUnchanged
  <1>0. req[r] # Idle /\ req[r] \in CloseReq
    BY RequestTypes DEF CloseStep, CloseSelect, CloseDelete, TypeInv
  <1>1. CASE CloseSelect(r)
    <2> DEFINE S == {Load(i) : i \in RowsOf(req[r].user)}
               q == [req[r] EXCEPT !.pc = "delete", !.todo = S]
    <2>1. S \subseteq Copy
      BY DEF Load, RowsOf, Copy, TypeInv, TypeOK
    <2>2. q \in Request /\ q.op = "close"
      BY <1>0, <2>1 DEF Request, CloseReq
    <2>3. req' = [req EXCEPT ![r] = q]
      BY <1>0, <1>1 DEF CloseSelect, TypeInv, TypeOK
    <2> HIDE DEF q
    <2> QED
      BY <1>1, <2>2, <2>3, ReadStep DEF CloseSelect, TypeInv, TypeOK
  <1>2. CASE CloseDelete(r)
    <2>1. lib' \in [RowIds -> Row \cup {NoRow}] /\ users' \subseteq Users
      BY <1>2, DeletedType DEF CloseDelete, TypeInv, TypeOK
    <2> QED
      BY <1>2, <2>1, ReadStep DEF CloseDelete, TypeInv, TypeOK
  <1> QED
    BY <1>1, <1>2 DEF CloseStep

LEMMA TypeInvStep == TypeInv /\ [Next]_vars => TypeInv'
  <1>1. ASSUME TypeInv, Next PROVE TypeInv'
    <2>1. CatalogStep => TypeInv'
      BY <1>1 DEF CatalogStep, Prune, Publish, TypeInv, TypeOK, Loaded
    <2> QED
      BY <1>1, <2>1, NextCases, TypeInvBegin, TypeInvQueue, TypeInvRemove,
         TypeInvConfirm, TypeInvPoll, TypeInvClose
  <1>2. ASSUME TypeInv, UNCHANGED vars PROVE TypeInv'
    BY <1>2 DEF vars, TypeInv, TypeOK, Loaded
  <1> QED
    BY <1>1, <1>2

\* Every reachable state is well typed (the tables and the sessions of all the
\* handlers), for every number of users, apps and overlapping requests.
THEOREM TypeCorrect == Spec => []TypeOK
  <1>1. Init => TypeInv
    BY BoundAssumption DEF Init, TypeInv, TypeOK, Loaded
  <1>2. TypeInv => TypeOK
    BY DEF TypeInv
  <1> QED
    BY <1>1, <1>2, TypeInvStep, PTL DEF Spec

LEMMA TypeInvariant == Spec => []TypeInv
  <1>1. Init => TypeInv
    BY BoundAssumption DEF Init, TypeInv, TypeOK, Loaded
  <1> QED
    BY <1>1, TypeInvStep, PTL DEF Spec


-----------------------------------------------------------------------------
(* How a step changes the table: not at all, or by the one request that    *)
(* makes it, in one of three ways.                                         *)
Inserts(r) ==
    /\ MayInsert(req[r].user, req[r].app)
    /\ \E i \in NewId : /\ lib' = [lib EXCEPT ![i] = NewRow(req[r])]
                        /\ lastId' = IF IdReuse THEN lastId ELSE i
    /\ NewRow(req[r]) \in Row /\ req[r].op = "queue"
    /\ users' = users

Writes(r) ==
    /\ req[r].copy \in Copies(req[r])
    /\ \E new \in Row : lib' = Written(req[r].copy, new)
    /\ UNCHANGED <<users, lastId>>

Deletes(r) ==
    /\ \E C \in SUBSET Copies(req[r]) : lib' = Deleted(C)
    /\ users' \subseteq users
    /\ \A u \in users \ users', i \in RowIds : lib'[i] # NoRow => lib'[i].user # u
    /\ UNCHANGED lastId

LEMMA StoreShapes ==
    ASSUME TypeInv, Next
    PROVE  \/ UNCHANGED <<users, lib, lastId>>
           \/ \E r \in Reqs : /\ req[r] # Idle /\ req'[r] # req[r]
                              /\ Inserts(r) \/ Writes(r) \/ Deletes(r)
  <1> DEFINE P == \/ UNCHANGED <<users, lib, lastId>>
                  \/ \E r \in Reqs : /\ req[r] # Idle /\ req'[r] # req[r]
                                     /\ Inserts(r) \/ Writes(r) \/ Deletes(r)
  <1>1. ASSUME NEW r \in Reqs, QueueStep(r) PROVE P
    <2>0. req[r] # Idle /\ req[r] \in QueueReq
      BY <1>1, RequestTypes DEF QueueStep, QueueCheck, QueueFind, QueueInsert, At,
                                QueueConflict, QueueRefind, QueueUpdate, TypeInv
    <2>1. CASE QueueInsert(r)
      <3>1. req'[r] = Idle
        BY <2>1 DEF QueueInsert, Reply, TypeInv, TypeOK
      <3>2. Inserts(r)
        BY <2>0, <2>1, NewValues DEF QueueInsert, Inserts, QueueReq, NewRow, Row,
                                     States, At
      <3> QED
        BY <2>0, <3>1, <3>2
    <2>2. CASE QueueUpdate(r)
      <3>1. req'[r] = Idle
        BY <2>2 DEF QueueUpdate, Reply, TypeInv, TypeOK
      <3>2. req[r].copy \in Copy
        BY <2>0, <2>2 DEF QueueUpdate, At, TypeInv, Loaded, QueueReq
      <3>3. Requeued(req[r], req[r].copy.row) \in Row
        BY <2>0, <3>2, NewValues DEF TypeInv, Copy, QueueReq
      <3>4. Writes(r)
        BY <2>0, <2>2, <3>2, <3>3 DEF QueueUpdate, Writes, Copies, QueueReq
      <3> QED
        BY <2>0, <3>1, <3>4
    <2>3. CASE QueueCheck(r) \/ QueueFind(r) \/ QueueConflict(r) \/ QueueRefind(r)
      BY <2>3 DEF QueueCheck, QueueFind, QueueConflict, QueueRefind, StoreUnchanged
    <2> QED
      BY <1>1, <2>1, <2>2, <2>3 DEF QueueStep
  <1>2. ASSUME NEW r \in Reqs, RemoveStep(r) PROVE P
    <2>1. CASE RemoveFind(r)
      BY <2>1 DEF RemoveFind, StoreUnchanged
    <2>2. CASE RemoveDelete(r)
      <3>0. req[r] # Idle /\ req[r] \in RemoveReq /\ req'[r] = Idle
        BY <2>2, RequestTypes DEF RemoveDelete, At, Reply, TypeInv, TypeOK
      <3>1. req[r].copy \in Copies(req[r])
        BY <2>2, <3>0 DEF RemoveDelete, At, TypeInv, Loaded, RemoveReq, Copies
      <3>2. Deletes(r)
        BY <2>2, <3>1 DEF RemoveDelete, Deletes
      <3> QED
        BY <3>0, <3>2
    <2> QED
      BY <1>2, <2>1, <2>2 DEF RemoveStep
  <1>3. ASSUME NEW r \in Reqs, ConfirmStep(r) PROVE P
    <2>1. CASE ConfirmFind(r) \/ ConfirmEvent(r)
      BY <2>1 DEF ConfirmFind, ConfirmEvent, StoreUnchanged
    <2>2. CASE ConfirmUpdate(r)
      <3>0. req[r] # Idle /\ req[r] \in ConfirmReq /\ req[r].pc = "update"
        BY <2>2, RequestTypes DEF ConfirmUpdate, At, TypeInv
      <3>1. req'[r] # req[r]
        BY <2>2, <3>0 DEF ConfirmUpdate, Reply, Goto, TypeInv, TypeOK, ConfirmReq
      <3>2. req[r].copy \in Copy /\ req[r].copy \in Copies(req[r])
        BY <3>0 DEF TypeInv, Loaded, ConfirmReq, Copies
      <3>3. [req[r].copy.row EXCEPT !.state = "installed"] \in Row
        BY <3>0, <3>2, NewValues DEF TypeInv, Copy
      <3>4. Writes(r)
        BY <2>2, <3>2, <3>3 DEF ConfirmUpdate, Writes
      <3> QED
        BY <3>0, <3>1, <3>4
    <2> QED
      BY <1>3, <2>1, <2>2 DEF ConfirmStep
  <1>4. ASSUME NEW r \in Reqs, PollStep(r) PROVE P
    <2>1. CASE PollSelect(r) \/ PollPick(r) \/ PollLookup(r) \/ PollReply(r)
      BY <2>1 DEF PollSelect, PollPick, PollLookup, PollReply, StoreUnchanged
    <2>2. CASE PollMark(r)
      <3>0. req[r] # Idle /\ req[r] \in PollReq /\ req[r].pc = "mark"
        BY <2>2, RequestTypes DEF PollMark, At, TypeInv
      <3>1. req'[r] # req[r]
        BY <2>2, <3>0 DEF PollMark, Reply, TypeInv, TypeOK, PollReq
      <3>2. req[r].copy \in Copy /\ req[r].copy \in Copies(req[r])
        BY <3>0 DEF TypeInv, Loaded, PollReq, Copies
      <3>3. Gone(req[r].copy.row) \in Row
        BY <3>0, <3>2, NewValues DEF TypeInv, Copy
      <3>4. Writes(r)
        BY <2>2, <3>2, <3>3 DEF PollMark, Writes
      <3> QED
        BY <3>0, <3>1, <3>4
    <2> QED
      BY <1>4, <2>1, <2>2 DEF PollStep
  <1>5. ASSUME NEW r \in Reqs, CloseStep(r) PROVE P
    <2>1. CASE CloseSelect(r)
      BY <2>1 DEF CloseSelect, StoreUnchanged
    <2>2. CASE CloseDelete(r)
      <3>0. req[r] # Idle /\ req[r] \in CloseReq /\ req'[r] = Idle
        BY <2>2, RequestTypes DEF CloseDelete, At, Reply, TypeInv, TypeOK
      <3>1. CASE UNCHANGED <<lib, users>>
        BY <2>2, <3>1 DEF CloseDelete
      <3>2. CASE /\ lib' = Deleted(req[r].todo)
                 /\ users' = users \ {req[r].user}
                 /\ \A i \in RowIds : lib'[i] # NoRow => lib'[i].user # req[r].user
        <4>1. req[r].todo \subseteq Copies(req[r])
          BY <3>0 DEF CloseReq, Copies
        <4>2. Deletes(r)
          BY <2>2, <3>2, <4>1 DEF CloseDelete, Deletes
        <4> QED
          BY <3>0, <4>2
      <3> QED
        BY <2>2, <3>1, <3>2 DEF CloseDelete
    <2> QED
      BY <1>5, <2>1, <2>2 DEF CloseStep
  <1>6. ASSUME NEW r \in Reqs, NEW u \in Users
        PROVE  /\ \A a \in Apps, c \in Channels, x \in Arches :
                    BeginQueue(r, u, a, c, x) => P
               /\ \A a \in Apps : BeginRemove(r, u, a) => P
               /\ \A item \in Item, c \in Channels \cup {NoChannel} :
                    BeginConfirm(r, u, item, c) => P
               /\ BeginPoll(r, u) \/ BeginClose(r, u) => P
    BY DEF BeginQueue, BeginRemove, BeginConfirm, BeginPoll, BeginClose, StoreUnchanged
  <1>7. CatalogStep => P
    BY DEF CatalogStep, Prune, Publish
  <1> HIDE DEF P
  <1>8. P
    BY <1>1, <1>2, <1>3, <1>4, <1>5, <1>6, <1>7, NextCases
  <1> QED
    BY <1>8 DEF P

\* No step moves a row to another user or app while it exists.
LEMMA RowsKeepOwner ==
    ASSUME TypeInv, NEW r \in Reqs, Writes(r) \/ Deletes(r), NEW i \in RowIds,
           lib'[i] # NoRow
    PROVE  lib[i] # NoRow /\ lib'[i].user = lib[i].user /\ lib'[i].app = lib[i].app
  <1>1. CASE Writes(r)
    BY <1>1, WrittenType DEF Writes, Copies, TypeInv
  <1>2. CASE Deletes(r)
    BY <1>2, DeletedType DEF Deletes, TypeInv
  <1> QED
    BY <1>1, <1>2

\* A user has at most one library row for an app, however many first requests
\* for it race: the insert that loses the race does not happen.
THEOREM AtMostOneRow == Spec => []OneRowPerApp
  <1>1. Init => OneRowPerApp
    BY DEF Init, OneRowPerApp
  <1>2. TypeInv /\ OneRowPerApp /\ [Next]_vars => OneRowPerApp'
    <2> SUFFICES ASSUME TypeInv, OneRowPerApp, [Next]_vars PROVE OneRowPerApp'
      OBVIOUS
    <2>1. CASE UNCHANGED <<users, lib, lastId>>
      BY <2>1 DEF OneRowPerApp
    <2>2. ASSUME NEW r \in Reqs, Inserts(r) PROVE OneRowPerApp'
      <3>1. PICK k \in NewId : lib' = [lib EXCEPT ![k] = NewRow(req[r])]
        BY <2>2 DEF Inserts
      <3>2. /\ k \in RowIds
            /\ NewRow(req[r]).user = req[r].user /\ NewRow(req[r]).app = req[r].app
        BY DEF NewId, NewRow
      <3>3. \A j \in RowIds : lib[j] # NoRow =>
              ~ (lib[j].user = req[r].user /\ lib[j].app = req[r].app)
        BY <2>2 DEF Inserts, MayInsert, RowOf, RowsOf
      <3> QED
        BY <3>1, <3>2, <3>3 DEF OneRowPerApp, TypeInv, TypeOK
    <2>3. ASSUME NEW r \in Reqs, Writes(r) \/ Deletes(r) PROVE OneRowPerApp'
      BY <2>3, RowsKeepOwner DEF OneRowPerApp
    <2> QED
      BY <2>1, <2>2, <2>3, StoreShapes DEF vars
  <1> QED
    BY <1>1, <1>2, TypeInvariant, PTL DEF Spec

\* An erased account leaves no library row behind, whatever requests of the same
\* user are in flight: a row queued after the rows were listed keeps the account.
THEOREM NoOrphans == Spec => []NoOrphanRows
  <1>1. Init => NoOrphanRows
    BY DEF Init, NoOrphanRows
  <1>2. TypeInv /\ NoOrphanRows /\ [Next]_vars => NoOrphanRows'
    <2> SUFFICES ASSUME TypeInv, NoOrphanRows, [Next]_vars PROVE NoOrphanRows'
      OBVIOUS
    <2>1. CASE UNCHANGED <<users, lib, lastId>>
      BY <2>1 DEF NoOrphanRows
    <2>2. ASSUME NEW r \in Reqs, Inserts(r) PROVE NoOrphanRows'
      BY <2>2 DEF Inserts, MayInsert, NoOrphanRows, NewRow, NewId, TypeInv, TypeOK
    <2>3. ASSUME NEW r \in Reqs, Writes(r) PROVE NoOrphanRows'
      BY <2>3, RowsKeepOwner DEF Writes, NoOrphanRows
    <2>4. ASSUME NEW r \in Reqs, Deletes(r) PROVE NoOrphanRows'
      BY <2>4, RowsKeepOwner DEF Deletes, NoOrphanRows
    <2> QED
      BY <2>1, <2>2, <2>3, <2>4, StoreShapes DEF vars
  <1> QED
    BY <1>1, <1>2, TypeInvariant, PTL DEF Spec


-----------------------------------------------------------------------------
(* Ids from a sequence: what a session loaded stays true of the table.      *)
MatchInv == TypeInv /\ FreshIds /\ CopiesMatch

\* The only id the sequence gives is beyond all rows and all loaded copies.
LEMMA FreshId ==
    ASSUME ~ IdReuse, TypeInv, NEW i \in NewId
    PROVE  i \in RowIds /\ i = lastId + 1
  BY BoundAssumption DEF NewId, Taken, RowIds, TypeInv, TypeOK

LEMMA FreshIdsStep ==
    ASSUME ~ IdReuse, TypeInv, FreshIds, [Next]_vars
    PROVE  FreshIds' /\ lastId <= lastId'
  <1>0. lastId \in Nat /\ \A i \in RowIds : i \in Nat
    BY BoundAssumption DEF TypeInv, TypeOK, RowIds
  <1>1. CASE UNCHANGED <<users, lib, lastId>>
    BY <1>0, <1>1 DEF FreshIds
  <1>2. ASSUME NEW r \in Reqs, Inserts(r) PROVE FreshIds' /\ lastId <= lastId'
    <2>1. PICK k \in NewId : lib' = [lib EXCEPT ![k] = NewRow(req[r])] /\ lastId' = k
      BY <1>2 DEF Inserts
    <2>2. k \in RowIds /\ k = lastId + 1
      BY FreshId
    <2> QED
      BY <1>0, <2>1, <2>2 DEF FreshIds, TypeInv, TypeOK
  <1>3. ASSUME NEW r \in Reqs, Writes(r) \/ Deletes(r)
        PROVE  FreshIds' /\ lastId <= lastId'
    <2>1. lastId' = lastId
      BY <1>3 DEF Writes, Deletes
    <2> QED
      BY <1>0, <1>3, <2>1, RowsKeepOwner DEF FreshIds
  <1> QED
    BY <1>1, <1>2, <1>3, StoreShapes DEF vars

\* A copy that matches the table goes on matching it.
LEMMA RowMatchStep ==
    ASSUME ~ IdReuse, TypeInv, FreshIds, [Next]_vars, NEW c \in Copy, RowMatch(c)
    PROVE  RowMatch(c)'
  <1>0. /\ lastId \in Nat /\ c.id \in Nat /\ c.id \in RowIds /\ lastId' \in Nat
        /\ lastId <= lastId'
    BY BoundAssumption, FreshIdsStep, TypeInvStep DEF TypeInv, TypeOK, RowIds, Copy
  <1>1. CASE UNCHANGED <<users, lib, lastId>>
    BY <1>1 DEF RowMatch
  <1>2. ASSUME NEW r \in Reqs, Inserts(r) PROVE RowMatch(c)'
    <2>1. PICK k \in NewId : lib' = [lib EXCEPT ![k] = NewRow(req[r])]
      BY <1>2 DEF Inserts
    <2>2. k # c.id
      BY <1>0, FreshId DEF RowMatch
    <2> QED
      BY <1>0, <2>1, <2>2 DEF RowMatch, TypeInv, TypeOK
  <1>3. ASSUME NEW r \in Reqs, Writes(r) \/ Deletes(r) PROVE RowMatch(c)'
    BY <1>0, <1>3, RowsKeepOwner DEF RowMatch
  <1> QED
    BY <1>1, <1>2, <1>3, StoreShapes DEF vars

\* A row just read matches.
LEMMA LoadMatches ==
    ASSUME TypeInv, FreshIds, NEW i \in RowIds, lib[i] # NoRow
    PROVE  Load(i) \in Copy /\ RowMatch(Load(i)) /\ Load(i).row = lib[i]
  BY BoundAssumption DEF Load, RowMatch, FreshIds, Copy, TypeInv, TypeOK, RowIds

\* All the copies a request holds after a step matched before it.
CopiesOk(q) == q # Idle => \A c \in Copies(q) : c.row.user = q.user /\ RowMatch(c)

LEMMA CopiesOfBegun ==
    ASSUME TypeInv, NEW r \in Reqs, NEW u \in Users
    PROVE  /\ \A a \in Apps, c \in Channels, x \in Arches :
                BeginQueue(r, u, a, c, x) => Copies(req'[r]) = {}
           /\ \A a \in Apps : BeginRemove(r, u, a) => Copies(req'[r]) = {}
           /\ \A item \in Item, c \in Channels \cup {NoChannel} :
                BeginConfirm(r, u, item, c) => Copies(req'[r]) = {}
           /\ BeginPoll(r, u) => Copies(req'[r]) = {}
           /\ BeginClose(r, u) => Copies(req'[r]) = {}
  BY NullAssumption DEF BeginQueue, BeginRemove, BeginConfirm, BeginPoll, BeginClose,
     Begin, Copies, TypeInv, TypeOK

LEMMA CopiesFromFirst ==
    ASSUME MatchInv, NEW r \in Reqs, req[r] # Idle,
           req[r].op \in {"queue", "remove", "confirm"},
           NEW c \in First(RowOf(req[r].user, req[r].app)), NEW pc,
           req'[r] = [req[r] EXCEPT !.copy = c, !.pc = pc]
    PROVE  CopiesOk(req'[r])
  <1>1. req[r] \in QueueReq \cup RemoveReq \cup ConfirmReq
    BY RequestTypes DEF MatchInv, TypeInv
  <1>2. /\ req'[r].op = req[r].op /\ req'[r].user = req[r].user /\ req'[r].copy = c
        /\ req[r].op # "poll" /\ req[r].op # "close"
    BY <1>1 DEF QueueReq, RemoveReq, ConfirmReq
  <1>3. \A d \in Copies(req'[r]) : d = c /\ c \in Copy
    BY <1>2 DEF Copies
  <1>4. c # NoRow => c.row.user = req[r].user /\ RowMatch(c)
    <2> SUFFICES ASSUME c # NoRow PROVE c.row.user = req[r].user /\ RowMatch(c)
      OBVIOUS
    <2>1. PICK i \in RowOf(req[r].user, req[r].app) : c = Load(i)
      BY DEF First
    <2>2. i \in RowIds /\ lib[i] # NoRow /\ lib[i].user = req[r].user
      BY DEF RowOf, RowsOf
    <2> QED
      BY <2>1, <2>2, LoadMatches DEF MatchInv
  <1>5. c \in Copy => c # NoRow
    BY NullAssumption
  <1> QED
    BY <1>2, <1>3, <1>4, <1>5 DEF CopiesOk

LEMMA CopiesOfStep ==
    ASSUME MatchInv, NEW r \in Reqs,
           QueueStep(r) \/ RemoveStep(r) \/ ConfirmStep(r) \/ PollStep(r) \/ CloseStep(r)
    PROVE  CopiesOk(req'[r]) /\ \A s \in Reqs : s # r => req'[s] = req[s]
  <1> USE DEF At
  <1>0. req[r] # Idle /\ TypeInv /\ TypeOK /\ CopiesOk(req[r])
    BY DEF QueueStep, RemoveStep, ConfirmStep, PollStep, CloseStep, QueueCheck, QueueFind,
       QueueInsert, QueueConflict, QueueRefind, QueueUpdate, RemoveFind, RemoveDelete,
       ConfirmFind, ConfirmUpdate, ConfirmEvent, PollSelect, PollPick, PollLookup,
       PollMark, PollReply, CloseSelect, CloseDelete, MatchInv, TypeInv, CopiesMatch,
       CopiesOk
  <1>1. CASE Reply(r)
    BY <1>0, <1>1 DEF Reply, CopiesOk, TypeOK
  <1>2. ASSUME NEW pc, Goto(r, pc)
        PROVE  CopiesOk(req'[r]) /\ \A s \in Reqs : s # r => req'[s] = req[s]
    <2>1. req' = [req EXCEPT ![r] = [req[r] EXCEPT !.pc = pc]]
      BY <1>2 DEF Goto
    <2>2. /\ req'[r] = [req[r] EXCEPT !.pc = pc]
          /\ \A s \in Reqs : s # r => req'[s] = req[s]
      BY <1>0, <2>1 DEF TypeOK
    <2>3. Copies(req'[r]) = Copies(req[r]) /\ req'[r].user = req[r].user
      BY <1>0, <2>2, RequestTypes
         DEF Copies, QueueReq, RemoveReq, ConfirmReq, PollReq, CloseReq, Request
    <2> QED
      BY <1>0, <2>2, <2>3 DEF CopiesOk
  <1>3. CASE QueueStep(r)
    <2>1. CASE QueueFind(r)
      BY <1>0, <2>1, CopiesFromFirst DEF QueueFind, TypeOK
    <2>2. CASE QueueRefind(r)
      BY <1>0, <1>1, <2>2, CopiesFromFirst DEF QueueRefind, TypeOK
    <2> QED
      BY <1>1, <1>2, <1>3, <2>1, <2>2
         DEF QueueStep, QueueCheck, QueueInsert, QueueConflict, QueueUpdate
  <1>4. CASE RemoveStep(r)
    BY <1>0, <1>1, <1>4, CopiesFromFirst DEF RemoveStep, RemoveFind, RemoveDelete, TypeOK
  <1>5. CASE ConfirmStep(r)
    BY <1>0, <1>1, <1>2, <1>5, CopiesFromFirst
       DEF ConfirmStep, ConfirmFind, ConfirmUpdate, ConfirmEvent, TypeOK
  <1>6. CASE PollStep(r)
    <2>0. req[r] \in PollReq
      BY <1>0, <1>6, RequestTypes DEF PollStep, PollSelect, PollPick, PollLookup,
         PollMark, PollReply
    <2>1. CASE PollSelect(r)
      <3> DEFINE S == {Load(i) : i \in {j \in RowsOf(req[r].user) : lib[j].state = "pending"}}
      <3>1. /\ req'[r] = [req[r] EXCEPT !.pc = "pick", !.todo = S]
            /\ \A s \in Reqs : s # r => req'[s] = req[s]
        BY <1>0, <2>1 DEF PollSelect, TypeOK
      <3>2. /\ req'[r].op = "poll" /\ req'[r].user = req[r].user /\ req'[r].todo = S
            /\ req'[r].copy = req[r].copy
        BY <2>0, <3>1 DEF PollReq
      <3>3. \A c \in S : c.row.user = req[r].user /\ RowMatch(c)
        BY LoadMatches DEF RowsOf, MatchInv
      <3>4. \A c \in Copies(req'[r]) : c \in S \/ c \in Copies(req[r])
        BY <2>0, <3>2 DEF Copies, PollReq
      <3> QED
        BY <1>0, <3>1, <3>2, <3>3, <3>4 DEF CopiesOk
    <2>2. CASE PollPick(r)
      <3>1. PICK c \in req[r].todo :
              IF req[r].expired /\ lib[c.id] = NoRow
              THEN req' = [req EXCEPT ![r] = Idle]
              ELSE req' = [req EXCEPT ![r].pc = "lookup",
                                      ![r].todo = @ \ {c},
                                      ![r].copy = IF req[r].expired THEN Load(c.id) ELSE c]
        BY <2>2 DEF PollPick, Reply
      <3>2. CASE req[r].expired /\ lib[c.id] = NoRow
        BY <1>0, <3>1, <3>2 DEF CopiesOk, TypeOK
      <3>3. CASE ~ (req[r].expired /\ lib[c.id] = NoRow)
        <4> DEFINE d == IF req[r].expired THEN Load(c.id) ELSE c
        <4>1. /\ req'[r] = [req[r] EXCEPT !.pc = "lookup", !.todo = @ \ {c}, !.copy = d]
              /\ \A s \in Reqs : s # r => req'[s] = req[s]
          BY <1>0, <3>1, <3>3 DEF TypeOK
        <4>2. /\ req'[r].op = "poll" /\ req'[r].user = req[r].user
              /\ req'[r].todo \subseteq req[r].todo /\ req'[r].copy = d
          BY <2>0, <4>1 DEF PollReq
        <4>3. c \in Copy /\ c \in Copies(req[r]) /\ c.id \in RowIds
          BY <2>0 DEF PollReq, Copies, Copy
        <4>4. c.row.user = req[r].user /\ RowMatch(c)
          BY <1>0, <4>3 DEF CopiesOk
        <4>5. d.row.user = req[r].user /\ RowMatch(d)
          <5>1. CASE req[r].expired
            BY <3>3, <4>3, <4>4, <5>1, LoadMatches DEF RowMatch, MatchInv
          <5>2. CASE ~ req[r].expired
            BY <4>4, <5>2
          <5> QED
            BY <5>1, <5>2
        <4>6. \A e \in Copies(req'[r]) : e = d \/ e \in Copies(req[r])
          BY <2>0, <4>2 DEF Copies, PollReq
        <4> QED
          BY <1>0, <4>1, <4>2, <4>5, <4>6 DEF CopiesOk
      <3> QED
        BY <3>2, <3>3
    <2>3. CASE PollLookup(r) /\ ~ Goto(r, "mark")
      <3> DEFINE row  == req[r].copy.row
      <3> DEFINE item == [app |-> row.app, channel |-> row.channel, arch |-> row.arch]
      <3>1. PICK e \in BOOLEAN :
              req' = [req EXCEPT ![r].pc = "pick", ![r].expired = @ \/ e,
                                 ![r].out = @ \cup {item}]
        BY <2>3 DEF PollLookup
      <3>2. /\ req'[r] = [req[r] EXCEPT !.pc = "pick", !.expired = @ \/ e,
                                        !.out = @ \cup {item}]
            /\ \A s \in Reqs : s # r => req'[s] = req[s]
        BY <1>0, <3>1 DEF TypeOK
      <3>3. Copies(req'[r]) = Copies(req[r]) /\ req'[r].user = req[r].user
        BY <2>0, <3>2 DEF Copies, PollReq
      <3> QED
        BY <1>0, <3>2, <3>3 DEF CopiesOk
    <2>4. CASE PollMark(r) /\ ~ Reply(r)
      <3>1. req' = [req EXCEPT ![r].pc = "pick", ![r].expired = TRUE]
        BY <2>4 DEF PollMark
      <3>2. /\ req'[r] = [req[r] EXCEPT !.pc = "pick", !.expired = TRUE]
            /\ \A s \in Reqs : s # r => req'[s] = req[s]
        BY <1>0, <3>1 DEF TypeOK
      <3>3. Copies(req'[r]) = Copies(req[r]) /\ req'[r].user = req[r].user
        BY <2>0, <3>2 DEF Copies, PollReq
      <3> QED
        BY <1>0, <3>2, <3>3 DEF CopiesOk
    <2> QED
      BY <1>1, <1>2, <1>6, <2>1, <2>2, <2>3, <2>4 DEF PollStep, PollReply
  <1>7. CASE CloseStep(r)
    <2>0. req[r] \in CloseReq
      BY <1>0, <1>7, RequestTypes DEF CloseStep, CloseSelect, CloseDelete
    <2>1. CASE CloseSelect(r)
      <3> DEFINE S == {Load(i) : i \in RowsOf(req[r].user)}
      <3>1. /\ req'[r] = [req[r] EXCEPT !.pc = "delete", !.todo = S]
            /\ \A s \in Reqs : s # r => req'[s] = req[s]
        BY <1>0, <2>1 DEF CloseSelect, TypeOK
      <3>2. req'[r].op = "close" /\ req'[r].user = req[r].user /\ req'[r].todo = S
        BY <2>0, <3>1 DEF CloseReq
      <3>3. \A c \in S : c.row.user = req[r].user /\ RowMatch(c)
        BY LoadMatches DEF RowsOf, MatchInv
      <3>4. \A c \in Copies(req'[r]) : c \in S
        BY <3>2 DEF Copies
      <3> QED
        BY <3>1, <3>2, <3>3, <3>4 DEF CopiesOk
    <2> QED
      BY <1>1, <1>7, <2>1 DEF CloseStep, CloseDelete
  <1> QED
    BY <1>3, <1>4, <1>5, <1>6, <1>7


LEMMA CopiesOfNext ==
    ASSUME MatchInv, [Next]_vars, NEW r \in Reqs
    PROVE  CopiesOk(req'[r])
  <1> USE DEF MatchInv
  <1>1. CopiesOk(req[r])
    BY DEF CopiesMatch, CopiesOk
  <1>2. CASE UNCHANGED req
    BY <1>1, <1>2
  <1>3. ASSUME NEW s \in Reqs, NEW u \in Users, NEW q, Begin(s, u, q),
               Copies(req'[s]) = {}
        PROVE  CopiesOk(req'[r])
    <2>1. CASE r = s
      BY <1>3, <2>1 DEF CopiesOk
    <2>2. CASE r # s
      BY <1>1, <1>3, <2>2 DEF Begin, TypeInv, TypeOK
    <2> QED
      BY <2>1, <2>2
  <1>4. ASSUME NEW s \in Reqs, NEW u \in Users
        PROVE  /\ \A a \in Apps, c \in Channels, x \in Arches :
                    BeginQueue(s, u, a, c, x) => CopiesOk(req'[r])
               /\ \A a \in Apps : BeginRemove(s, u, a) => CopiesOk(req'[r])
               /\ \A item \in Item, c \in Channels \cup {NoChannel} :
                    BeginConfirm(s, u, item, c) => CopiesOk(req'[r])
               /\ BeginPoll(s, u) \/ BeginClose(s, u) => CopiesOk(req'[r])
    BY <1>3, CopiesOfBegun
       DEF BeginQueue, BeginRemove, BeginConfirm, BeginPoll, BeginClose
  <1>5. ASSUME NEW s \in Reqs, QueueStep(s) \/ RemoveStep(s) \/ ConfirmStep(s)
                                \/ PollStep(s) \/ CloseStep(s)
        PROVE  CopiesOk(req'[r])
    BY <1>1, <1>5, CopiesOfStep
  <1>6. CatalogStep => UNCHANGED req
    BY DEF CatalogStep, Prune, Publish
  <1>7. CASE Next
    BY <1>2, <1>4, <1>5, <1>6, <1>7, NextCases
  <1> QED
    BY <1>2, <1>7 DEF vars

LEMMA MatchInvStep ==
    ASSUME ~ IdReuse
    PROVE  MatchInv /\ [Next]_vars => MatchInv'
  <1> SUFFICES ASSUME MatchInv, [Next]_vars PROVE MatchInv'
    OBVIOUS
  <1>1. TypeInv' /\ FreshIds'
    BY TypeInvStep, FreshIdsStep DEF MatchInv
  <1>2. CopiesMatch'
    <2> SUFFICES ASSUME NEW r \in Reqs, req'[r] # Idle, NEW c \in Copies(req'[r])
                 PROVE  c.row.user = req'[r].user /\ RowMatch(c)'
      BY DEF CopiesMatch
    <2>1. c.row.user = req'[r].user /\ RowMatch(c)
      BY CopiesOfNext DEF CopiesOk
    <2>2. c \in Copy
      BY DEF Copies
    <2> QED
      BY <2>1, <2>2, RowMatchStep DEF MatchInv
  <1> QED
    BY <1>1, <1>2 DEF MatchInv

LEMMA MatchInvariant ==
    ASSUME ~ IdReuse
    PROVE  Spec => []MatchInv
  <1>1. Init => MatchInv
    BY BoundAssumption DEF Init, MatchInv, TypeInv, TypeOK, Loaded, FreshIds, CopiesMatch
  <1> QED
    BY <1>1, MatchInvStep, PTL DEF Spec

\* With ids from a sequence a request writes rows of its own user only: the row
\* with the id it loaded is still that user's, or it is gone.
THEOREM OwnRows ==
    ASSUME ~ IdReuse
    PROVE  Spec => OwnRowsOnly
  <1> DEFINE A == \A i \in RowIds : lib'[i] # lib[i] =>
                    \E r \in Reqs : /\ req[r] # Idle /\ req'[r] # req[r]
                                    /\ Mine(r, lib[i]) /\ Mine(r, lib'[i])
  <1>1. MatchInv /\ [Next]_vars => [A]_vars
    <2> SUFFICES ASSUME MatchInv, Next, NEW i \in RowIds, lib'[i] # lib[i]
                 PROVE  \E r \in Reqs : /\ req[r] # Idle /\ req'[r] # req[r]
                                        /\ Mine(r, lib[i]) /\ Mine(r, lib'[i])
      BY DEF vars
    <2>1. PICK r \in Reqs : /\ req[r] # Idle /\ req'[r] # req[r]
                            /\ Inserts(r) \/ Writes(r) \/ Deletes(r)
      BY StoreShapes DEF MatchInv
    <2>2. CopiesOk(req[r])
      BY <2>1 DEF MatchInv, CopiesMatch, CopiesOk
    <2>3. CASE Inserts(r)
      <3>1. PICK k \in NewId : lib' = [lib EXCEPT ![k] = NewRow(req[r])]
        BY <2>3 DEF Inserts
      <3>2. i = k /\ lib'[i] = NewRow(req[r])
        BY <3>1 DEF MatchInv, TypeInv, TypeOK
      <3>3. lib[i] = NoRow
        BY <3>2, FreshId, BoundAssumption
           DEF MatchInv, FreshIds, TypeInv, TypeOK, RowIds
      <3> QED
        BY <2>1, <3>2, <3>3 DEF Mine, NewRow
    <2>4. CASE Writes(r)
      <3>1. PICK new \in Row : lib' = Written(req[r].copy, new)
        BY <2>4 DEF Writes
      <3>2. req[r].copy \in Copy /\ req[r].copy \in Copies(req[r])
        BY <2>4 DEF Writes, Copies
      <3>3. i = req[r].copy.id
        <4>1. lib' = [lib EXCEPT ![req[r].copy.id] =
                        IF @ = NoRow THEN @ ELSE Flush(@, req[r].copy.row, new)]
          BY <3>1 DEF Written
        <4>2. i # req[r].copy.id => lib'[i] = lib[i]
          BY <4>1 DEF MatchInv, TypeInv, TypeOK
        <4> QED
          BY <4>2
      <3>4. lib[i] # NoRow => lib[i].user = req[r].user
        BY <2>1, <2>2, <3>2, <3>3 DEF CopiesOk, RowMatch
      <3> QED
        BY <2>1, <2>4, <3>4, RowsKeepOwner DEF Mine, MatchInv
    <2>5. CASE Deletes(r)
      <3>1. PICK C \in SUBSET Copies(req[r]) : lib' = Deleted(C)
        BY <2>5 DEF Deletes
      <3>2. PICK c \in C : c.id = i
        BY <3>1 DEF Deleted
      <3>3. lib[i] # NoRow => lib[i].user = req[r].user
        BY <2>1, <2>2, <3>2 DEF CopiesOk, RowMatch
      <3> QED
        BY <2>1, <2>5, <3>3, RowsKeepOwner DEF Mine, MatchInv
    <2> QED
      BY <2>1, <2>3, <2>4, <2>5
  <1>2. Spec => [][A]_vars
    <2> HIDE DEF A
    <2> QED
      BY <1>1, MatchInvariant, PTL DEF Spec
  <1> QED
    BY <1>2 DEF OwnRowsOnly

-----------------------------------------------------------------------------
(* "installed" is said of builds that were handed out.                     *)

LEMMA FetchedGrows ==
    ASSUME TypeInv, [Next]_vars, NEW u \in Users
    PROVE  fetched[u] \subseteq fetched'[u]
  <1> DEFINE P == fetched[u] \subseteq fetched'[u]
  <1>1. ASSUME NEW r \in Reqs, PollStep(r) PROVE P
    <2>1. CASE PollReply(r)
      BY <2>1 DEF PollReply, TypeInv, TypeOK
    <2>2. CASE ~ PollReply(r)
      BY <1>1, <2>2 DEF PollStep, PollSelect, PollPick, PollLookup, PollMark, StoreUnchanged
    <2> QED
      BY <2>1, <2>2
  <1>2. ASSUME NEW r \in Reqs, QueueStep(r) \/ RemoveStep(r) \/ ConfirmStep(r) \/ CloseStep(r)
        PROVE  P
    BY <1>2 DEF QueueStep, RemoveStep, ConfirmStep, CloseStep, QueueCheck, QueueFind,
       QueueInsert, QueueConflict, QueueRefind, QueueUpdate, RemoveFind, RemoveDelete,
       ConfirmFind, ConfirmUpdate, ConfirmEvent, CloseSelect, CloseDelete, StoreUnchanged
  <1>3. CatalogStep => P
    BY DEF CatalogStep, Prune, Publish
  <1>4. ASSUME NEW r \in Reqs, NEW w \in Users
        PROVE  /\ \A a \in Apps, c \in Channels, x \in Arches :
                    BeginQueue(r, w, a, c, x) => P
               /\ \A a \in Apps : BeginRemove(r, w, a) => P
               /\ \A item \in Item, c \in Channels \cup {NoChannel} :
                    BeginConfirm(r, w, item, c) => P
               /\ BeginPoll(r, w) \/ BeginClose(r, w) => P
    BY DEF BeginQueue, BeginRemove, BeginConfirm, BeginPoll, BeginClose, StoreUnchanged
  <1>5. UNCHANGED vars => P
    BY DEF vars
  <1> HIDE DEF P
  <1>6. P
    BY <1>1, <1>2, <1>3, <1>4, <1>5, NextCases
  <1> QED
    BY <1>6 DEF P

\* Only a confirm turns a row into "installed".
Confirms(r, i) == /\ At(r, "confirm", "update")
                  /\ req[r].copy \in Copy /\ req[r].copy.id = i

LEMMA InstalledBy ==
    ASSUME TypeInv, [Next]_vars, NEW i \in RowIds,
           lib'[i] # NoRow, lib'[i].state = "installed"
    PROVE  /\ lib[i] # NoRow
           /\ lib'[i].user = lib[i].user /\ lib'[i].app = lib[i].app
           /\ \/ lib[i].state = "installed"
              \/ \E r \in Reqs : Confirms(r, i)
  <1> DEFINE P == /\ lib[i] # NoRow
                  /\ lib'[i].user = lib[i].user /\ lib'[i].app = lib[i].app
                  /\ \/ lib[i].state = "installed"
                     \/ \E r \in Reqs : Confirms(r, i)
  <1>1. lib' = lib => P
    OBVIOUS
  <1>2. ASSUME NEW r \in Reqs, Deletes(r) PROVE P
    <2>1. lib'[i] = lib[i]
      BY <1>2, DeletedType DEF Deletes, TypeInv
    <2> QED
      BY <2>1
  <1>3. ASSUME NEW C, lib' = Deleted(C) PROVE P
    <2>1. lib'[i] = lib[i]
      BY <1>3, DeletedType DEF TypeInv
    <2> QED
      BY <2>1
  <1>4. ASSUME NEW c \in Copy, NEW new \in Row, lib' = Written(c, new),
               new.state = "installed" => \E r \in Reqs : Confirms(r, c.id)
        PROVE  P
    <2>1. CASE i = c.id
      BY <1>4, <2>1, WrittenType DEF TypeInv
    <2>2. CASE i # c.id
      <3>1. lib'[i] = lib[i]
        BY <1>4, <2>2, WrittenType DEF TypeInv
      <3> QED
        BY <3>1
    <2> QED
      BY <2>1, <2>2
  <1>5. ASSUME NEW r \in Reqs, QueueStep(r) PROVE P
    <2>0. req[r] # Idle /\ req[r] \in QueueReq
      BY <1>5, RequestTypes DEF QueueStep, QueueCheck, QueueFind, QueueInsert, At,
                                QueueConflict, QueueRefind, QueueUpdate, TypeInv
    <2>1. CASE QueueInsert(r)
      <3>1. PICK k \in NewId : lib' = [lib EXCEPT ![k] = NewRow(req[r])]
        BY <2>1 DEF QueueInsert
      <3>2. lib'[i] = lib[i]
        BY <3>1 DEF NewRow, TypeInv, TypeOK
      <3> QED
        BY <3>2
    <2>2. CASE QueueUpdate(r)
      <3>1. req[r].copy \in Copy
        BY <2>0, <2>2 DEF QueueUpdate, At, TypeInv, Loaded, QueueReq
      <3>2. Requeued(req[r], req[r].copy.row) \in Row
        BY <2>0, <3>1, NewValues DEF TypeInv, Copy, QueueReq
      <3>3. Requeued(req[r], req[r].copy.row).state = "pending"
        BY <3>1 DEF Requeued, Copy, Row
      <3> QED
        BY <1>4, <2>2, <3>1, <3>2, <3>3 DEF QueueUpdate
    <2> QED
      BY <1>1, <1>5, <2>1, <2>2
         DEF QueueStep, QueueCheck, QueueFind, QueueConflict, QueueRefind, StoreUnchanged
  <1>6. ASSUME NEW r \in Reqs, RemoveStep(r) PROVE P
    BY <1>1, <1>3, <1>6 DEF RemoveStep, RemoveFind, RemoveDelete, StoreUnchanged
  <1>7. ASSUME NEW r \in Reqs, ConfirmStep(r) PROVE P
    <2>1. CASE ConfirmUpdate(r)
      <3>1. req[r].copy \in Copy /\ req[r] # Idle
        BY <2>1, RequestTypes DEF ConfirmUpdate, At, TypeInv, Loaded, ConfirmReq
      <3>2. [req[r].copy.row EXCEPT !.state = "installed"] \in Row
        BY <3>1, NewValues DEF TypeInv, Copy
      <3>3. Confirms(r, req[r].copy.id)
        BY <2>1, <3>1 DEF ConfirmUpdate, Confirms
      <3> QED
        BY <1>4, <2>1, <3>1, <3>2, <3>3 DEF ConfirmUpdate
    <2> QED
      BY <1>1, <1>7, <2>1 DEF ConfirmStep, ConfirmFind, ConfirmEvent, StoreUnchanged
  <1>8. ASSUME NEW r \in Reqs, PollStep(r) PROVE P
    <2>1. CASE PollMark(r)
      <3>1. req[r].copy \in Copy /\ req[r] # Idle
        BY <2>1, RequestTypes DEF PollMark, At, TypeInv, Loaded, PollReq
      <3>2. Gone(req[r].copy.row) \in Row
        BY <3>1, NewValues DEF TypeInv, Copy
      <3>3. Gone(req[r].copy.row).state = "unavailable"
        BY <3>1 DEF Gone, Copy, Row
      <3> QED
        BY <1>4, <2>1, <3>1, <3>2, <3>3 DEF PollMark
    <2> QED
      BY <1>1, <1>8, <2>1
         DEF PollStep, PollSelect, PollPick, PollLookup, PollReply, StoreUnchanged
  <1>9. ASSUME NEW r \in Reqs, CloseStep(r) PROVE P
    BY <1>1, <1>3, <1>9 DEF CloseStep, CloseSelect, CloseDelete, StoreUnchanged
  <1>10. ASSUME NEW r \in Reqs, NEW w \in Users
         PROVE  /\ \A a \in Apps, c \in Channels, x \in Arches :
                     BeginQueue(r, w, a, c, x) => lib' = lib
                /\ \A a \in Apps : BeginRemove(r, w, a) => lib' = lib
                /\ \A item \in Item, c \in Channels \cup {NoChannel} :
                     BeginConfirm(r, w, item, c) => lib' = lib
                /\ BeginPoll(r, w) \/ BeginClose(r, w) => lib' = lib
    BY DEF BeginQueue, BeginRemove, BeginConfirm, BeginPoll, BeginClose, StoreUnchanged
  <1>11. (CatalogStep \/ UNCHANGED vars) => lib' = lib
    BY DEF CatalogStep, Prune, Publish, vars
  <1> HIDE DEF P
  <1>12. P
    BY <1>1, <1>5, <1>6, <1>7, <1>8, <1>9, <1>10, <1>11, NextCases
  <1> QED
    BY <1>12 DEF P

\* What ConfirmsHanded says of one request.
HandedReq(q) == q # Idle /\ q.op = "confirm" =>
    /\ q.user \in Users /\ \E item \in fetched[q.user] : item.app = q.app
    /\ q.copy # NoRow => q.copy.row.app = q.app

LEMMA OtherOps ==
    ASSUME TypeInv, NEW r \in Reqs,
           QueueStep(r) \/ RemoveStep(r) \/ PollStep(r) \/ CloseStep(r)
    PROVE  req'[r] = Idle \/ req'[r].op # "confirm"
  <1> USE DEF At, Reply, Goto, TypeInv, TypeOK
  <1>1. CASE QueueStep(r)
    <2>1. req[r] # Idle /\ req[r].op = "queue" /\ req[r] \in QueueReq
      BY <1>1, RequestTypes DEF QueueStep, QueueCheck, QueueFind, QueueInsert,
                                QueueConflict, QueueRefind, QueueUpdate
    <2>2. CASE QueueCheck(r) \/ QueueInsert(r) \/ QueueConflict(r) \/ QueueUpdate(r)
      BY <2>1, <2>2 DEF QueueCheck, QueueInsert, QueueConflict, QueueUpdate, QueueReq
    <2>3. CASE QueueFind(r)
      <3>1. PICK c \in Copy \cup {NoRow}, pc \in {"insert", "update"} :
              req' = [req EXCEPT ![r].copy = c, ![r].pc = pc]
        BY <2>3, FirstType DEF QueueFind
      <3> QED
        BY <2>1, <3>1 DEF QueueReq
    <2>4. CASE QueueRefind(r) /\ ~ Reply(r)
      <3>1. PICK c \in Copy \cup {NoRow} :
              req' = [req EXCEPT ![r].copy = c, ![r].pc = "update"]
        BY <2>4, FirstType DEF QueueRefind
      <3> QED
        BY <2>1, <3>1 DEF QueueReq
    <2>5. CASE Reply(r)
      BY <2>5
    <2> QED
      BY <1>1, <2>2, <2>3, <2>4, <2>5 DEF QueueStep
  <1>2. CASE RemoveStep(r)
    <2>1. req[r] # Idle /\ req[r].op = "remove" /\ req[r] \in RemoveReq
      BY <1>2, RequestTypes DEF RemoveStep, RemoveFind, RemoveDelete
    <2>2. CASE RemoveFind(r)
      <3>1. CASE Reply(r)
        BY <3>1
      <3>2. ASSUME NEW c, req' = [req EXCEPT ![r].copy = c, ![r].pc = "delete"]
            PROVE  req'[r].op = "remove"
        BY <2>1, <3>2 DEF RemoveReq
      <3> QED
        BY <2>2, <3>1, <3>2 DEF RemoveFind
    <2>3. CASE RemoveDelete(r)
      BY <2>3 DEF RemoveDelete
    <2> QED
      BY <1>2, <2>2, <2>3 DEF RemoveStep
  <1>3. CASE PollStep(r)
    <2>1. req[r] # Idle /\ req[r].op = "poll" /\ req[r] \in PollReq
      BY <1>3, RequestTypes DEF PollStep, PollSelect, PollPick, PollLookup, PollMark, PollReply
    <2>2. CASE PollSelect(r) \/ PollReply(r)
      BY <2>1, <2>2 DEF PollSelect, PollReply, PollReq
    <2>3. CASE PollPick(r)
      BY <2>1, <2>3 DEF PollPick, PollReq
    <2>4. CASE PollLookup(r)
      <3>1. \/ Goto(r, "mark")
            \/ \E e \in BOOLEAN, out \in SUBSET Item :
                 req' = [req EXCEPT ![r].pc = "pick", ![r].expired = @ \/ e, ![r].out = out]
        <4>1. CASE Goto(r, "mark")
          BY <4>1
        <4>2. CASE ~ Goto(r, "mark")
          <5> DEFINE row == req[r].copy.row
                     out == req[r].out \cup {[app |-> row.app, channel |-> row.channel,
                                             arch |-> row.arch]}
          <5>1. PICK e \in BOOLEAN :
                  req' = [req EXCEPT ![r].pc = "pick", ![r].expired = @ \/ e, ![r].out = out]
            BY <2>4, <4>2 DEF PollLookup
          <5>2. row \in Row
            BY <2>1, <2>4 DEF PollLookup, Loaded, Copy
          <5>3. out \in SUBSET Item
            BY <2>1, <5>2 DEF PollReq, Row, Item
          <5> QED
            BY <5>1, <5>3
        <4> QED
          BY <4>1, <4>2
      <3>2. ASSUME NEW e, NEW out,
                   req' = [req EXCEPT ![r].pc = "pick", ![r].expired = @ \/ e, ![r].out = out]
            PROVE  req'[r].op # "confirm"
        <4>1. req' = [req EXCEPT ![r] = [req[r] EXCEPT !.pc = "pick",
                                           !.expired = @ \/ e, !.out = out]]
          BY <3>2
        <4> QED
          BY <2>1, <4>1 DEF PollReq
      <3>3. Goto(r, "mark") => req'[r].op # "confirm"
        BY <2>1 DEF PollReq
      <3> QED
        BY <3>1, <3>2, <3>3
    <2>5. CASE PollMark(r)
      BY <2>1, <2>5 DEF PollMark, PollReq
    <2> QED
      BY <1>3, <2>2, <2>3, <2>4, <2>5 DEF PollStep
  <1>4. CASE CloseStep(r)
    <2>1. req[r] # Idle /\ req[r].op = "close" /\ req[r] \in CloseReq
      BY <1>4, RequestTypes DEF CloseStep, CloseSelect, CloseDelete
    <2> QED
      BY <1>4, <2>1 DEF CloseStep, CloseSelect, CloseDelete, CloseReq
  <1> QED
    BY <1>1, <1>2, <1>3, <1>4

LEMMA ConfirmOps ==
    ASSUME TypeInv, NEW r \in Reqs, ConfirmStep(r), HandedReq(req[r])
    PROVE  HandedReq(req'[r])
  <1> USE DEF At, TypeInv, TypeOK
  <1>0. req[r] # Idle /\ req[r].op = "confirm" /\ req[r] \in ConfirmReq
    BY RequestTypes DEF ConfirmStep, ConfirmFind, ConfirmUpdate, ConfirmEvent
  <1>1. CASE Reply(r)
    BY <1>1 DEF Reply, HandedReq
  <1>2. CASE Goto(r, "event")
    BY <1>0, <1>2 DEF Goto, HandedReq, ConfirmReq
  <1>3. CASE ConfirmFind(r) /\ ~ Reply(r)
    <2>1. PICK c \in First(RowOf(req[r].user, req[r].app)) :
            c # NoRow /\ req' = [req EXCEPT ![r].copy = c, ![r].pc = "update"]
      BY <1>3 DEF ConfirmFind
    <2>2. c.row.app = req[r].app
      BY <2>1, FirstType
    <2>3. req'[r] = [req[r] EXCEPT !.copy = c, !.pc = "update"]
      BY <2>1
    <2> QED
      BY <1>0, <2>2, <2>3 DEF HandedReq, ConfirmReq
  <1> QED
    BY <1>1, <1>2, <1>3 DEF ConfirmStep, ConfirmUpdate, ConfirmEvent

LEMMA HandedStep ==
    ASSUME MatchInv, ConfirmsHanded, [Next]_vars
    PROVE  ConfirmsHanded'
  <1> DEFINE P == \A r \in Reqs : HandedReq(req'[r])
  <1>0. TypeInv /\ \A r \in Reqs : HandedReq(req[r])
    BY RequestTypes DEF MatchInv, TypeInv, ConfirmsHanded, HandedReq, ConfirmReq
  <1>1. ASSUME NEW s \in Reqs, NEW u \in Users, NEW q, Begin(s, u, q), HandedReq(q)
        PROVE  P
    BY <1>0, <1>1 DEF Begin, TypeInv, TypeOK
  <1>2. ASSUME NEW s \in Reqs, NEW u \in Users
        PROVE  /\ \A a \in Apps, c \in Channels, x \in Arches :
                    BeginQueue(s, u, a, c, x) => P
               /\ \A a \in Apps : BeginRemove(s, u, a) => P
               /\ \A item \in Item, c \in Channels \cup {NoChannel} :
                    BeginConfirm(s, u, item, c) => P
               /\ BeginPoll(s, u) \/ BeginClose(s, u) => P
    BY <1>1 DEF BeginQueue, BeginRemove, BeginConfirm, BeginPoll, BeginClose, HandedReq
  <1>3. ASSUME NEW s \in Reqs,
               QueueStep(s) \/ RemoveStep(s) \/ ConfirmStep(s) \/ PollStep(s) \/ CloseStep(s)
        PROVE  P
    <2>1. HandedReq(req'[s])
      BY <1>0, <1>3, OtherOps, ConfirmOps DEF HandedReq
    <2>2. \A r \in Reqs : r # s => req'[r] = req[r]
      BY <1>3, CopiesOfStep
    <2> QED
      BY <1>0, <2>1, <2>2
  <1>4. (CatalogStep \/ UNCHANGED vars) => P
    BY <1>0 DEF CatalogStep, Prune, Publish, vars
  <1> HIDE DEF P
  <1>5. P
    BY <1>2, <1>3, <1>4, NextCases
  <1>6. \A u \in Users : fetched[u] \subseteq fetched'[u]
    BY <1>0, FetchedGrows
  <1> QED
    BY <1>5, <1>6 DEF P, HandedReq, ConfirmsHanded

\* The library says "installed" only of an app whose build the user's daemon was
\* handed: the row a confirm writes is still for the app it named.
THEOREM InstalledHanded ==
    ASSUME ~ IdReuse
    PROVE  Spec => []InstalledWasHanded
  <1> DEFINE HandedInv == MatchInv /\ ConfirmsHanded /\ InstalledWasHanded
  <1>1. Init => ConfirmsHanded /\ InstalledWasHanded
    BY DEF Init, ConfirmsHanded, InstalledWasHanded
  <1>2. HandedInv /\ [Next]_vars => ConfirmsHanded' /\ InstalledWasHanded'
    <2> SUFFICES ASSUME MatchInv, ConfirmsHanded, InstalledWasHanded, [Next]_vars
                 PROVE  InstalledWasHanded'
      BY HandedStep
    <2> SUFFICES ASSUME NEW i \in RowIds, lib'[i] # NoRow, lib'[i].state = "installed"
                 PROVE  \E item \in fetched'[lib'[i].user] : item.app = lib'[i].app
      BY DEF InstalledWasHanded
    <2>1. /\ TypeInv /\ lib[i] # NoRow
          /\ lib'[i].user = lib[i].user /\ lib'[i].app = lib[i].app
          /\ lib[i].state = "installed" \/ \E r \in Reqs : Confirms(r, i)
      BY InstalledBy DEF MatchInv
    <2>2. \E item \in fetched[lib[i].user] : item.app = lib[i].app
      <3>1. CASE lib[i].state = "installed"
        BY <2>1, <3>1 DEF InstalledWasHanded
      <3>2. ASSUME NEW r \in Reqs, Confirms(r, i)
            PROVE  \E item \in fetched[lib[i].user] : item.app = lib[i].app
        <4>1. /\ req[r] # Idle /\ req[r].op = "confirm"
              /\ req[r].copy \in Copy /\ req[r].copy.id = i
          BY <3>2 DEF Confirms, At
        <4>2. /\ req[r].copy.row.user = req[r].user
              /\ lib[i].user = req[r].copy.row.user /\ lib[i].app = req[r].copy.row.app
          BY <2>1, <4>1 DEF MatchInv, CopiesMatch, Copies, RowMatch
        <4>3. /\ req[r].copy.row.app = req[r].app
              /\ \E item \in fetched[req[r].user] : item.app = req[r].app
          BY <4>1, NullAssumption DEF ConfirmsHanded
        <4> QED
          BY <4>2, <4>3
      <3> QED
        BY <2>1, <3>1, <3>2
    <2>3. lib[i].user \in Users
      BY <2>1 DEF TypeInv, TypeOK, Row
    <2> QED
      BY <2>1, <2>2, <2>3, FetchedGrows
  <1>3. HandedInv => InstalledWasHanded
    OBVIOUS
  <1> HIDE DEF HandedInv
  <1>4. Spec => []InstalledWasHanded
    BY <1>1, <1>2, MatchInvariant, PTL DEF Spec, HandedInv
  <1> QED
    BY <1>4

\* The whole strengthening holds in every reachable state.
THEOREM SessionsHold ==
    ASSUME ~ IdReuse
    PROVE  Spec => []SessionInv
  <1>1. Init => ConfirmsHanded
    BY DEF Init, ConfirmsHanded
  <1>2. MatchInv /\ ConfirmsHanded /\ [Next]_vars => ConfirmsHanded'
    BY HandedStep
  <1>3. MatchInv /\ ConfirmsHanded => SessionInv
    BY DEF MatchInv, TypeInv, SessionInv
  <1> QED
    BY <1>1, <1>2, <1>3, MatchInvariant, PTL DEF Spec

-----------------------------------------------------------------------------
(* One request at a time: what a session loaded is what the table says.     *)
OneRequest == \A r, s \in Reqs : r = s

\* A loaded copy is the row as it stands in table t.
Holds(c, t) == c \in Copy /\ c.row = t[c.id]
HoldsFor(c, t, u, a) == Holds(c, t) /\ c.row.user = u /\ c.row.app = a
\* ... a pending one of the user u.
Awaits(c, t, u) == Holds(c, t) /\ c.row.user = u /\ c.row.state = "pending"

\* What the request q holds of the table t and of the builds f handed out.
QueueServes(q, t) ==
    q.op = "queue" /\ q.pc = "update" => HoldsFor(q.copy, t, q.user, q.app)
RemoveServes(q, t) ==
    q.op = "remove" /\ q.pc = "delete" => HoldsFor(q.copy, t, q.user, q.app)
ConfirmServes(q, t, f) ==
    q.op = "confirm" =>
        /\ q.channel # NoChannel
        /\ \E item \in f[q.user] : item.app = q.app /\ item.channel = q.channel
        /\ q.pc \in {"update", "event"} =>
             /\ q.copy \in Copy /\ q.copy.row.user = q.user
             /\ q.copy.row.app = q.app /\ q.copy.row.channel = q.channel
        /\ q.pc = "update" => q.copy.row = t[q.copy.id]
        /\ q.pc = "event" => t[q.copy.id] = [q.copy.row EXCEPT !.state = "installed"]
InHand(q) == IF q.pc \in {"lookup", "mark"} THEN {q.copy} ELSE {}
PollServes(q, t) ==
    q.op = "poll" =>
        /\ q.pc = "select" => q.out = {}
        /\ \A c \in q.todo \cup InHand(q) : Awaits(c, t, q.user)
        /\ q.todo \cap InHand(q) = {}
        /\ \A o \in q.out : \E c \in Copy :
             /\ Awaits(c, t, q.user) /\ c.row.app = o.app /\ c.row.channel = o.channel
             /\ c \notin q.todo \cup InHand(q)
CloseServes(q, t) ==
    q.op = "close" /\ q.pc = "delete" =>
        /\ \A i \in RowIds : t[i] # NoRow /\ t[i].user = q.user => \E c \in q.todo : c.id = i
        /\ \A c \in q.todo : Holds(c, t) /\ c.row.user = q.user
Serves(q, t, f) == q # Idle => /\ QueueServes(q, t) /\ RemoveServes(q, t)
                              /\ ConfirmServes(q, t, f)
                              /\ PollServes(q, t)  /\ CloseServes(q, t)

SerialInv == /\ TypeInv
             /\ IdReuse \/ FreshIds
             /\ \A r \in Reqs : Serves(req[r], lib, fetched)

\* A read leaves the table alone, so what a query returned is what it says.
LEMMA FirstHolds ==
    ASSUME TypeOK, NEW u, NEW a, NEW c \in First(RowOf(u, a)), c # NoRow
    PROVE  HoldsFor(c, lib, u, a)
  BY FirstType DEF HoldsFor, Holds

\* A row given out by an id of the table is never one in use.
LEMMA NewIdFree ==
    ASSUME TypeInv, IdReuse \/ FreshIds, NEW i \in NewId
    PROVE  i \in RowIds /\ lib[i] = NoRow
  <1>0. i \in RowIds /\ i \in Nat /\ i \notin Taken
    BY DEF NewId, RowIds
  <1>1. CASE IdReuse
    BY <1>0, <1>1 DEF Taken
  <1>2. CASE ~ IdReuse
    BY <1>2, <1>0, FreshId DEF FreshIds, TypeInv, TypeOK
  <1> QED
    BY <1>1, <1>2

\* The flush of a session that holds the current row replaces that row.
LEMMA WrittenHeld ==
    ASSUME TypeOK, NEW c, Holds(c, lib), NEW new \in Row,
           new.user = c.row.user, new.app = c.row.app
    PROVE  Written(c, new) = [lib EXCEPT ![c.id] = new]
  <1>1. c.id \in RowIds /\ c.row \in Row /\ lib[c.id] = c.row /\ lib[c.id] # NoRow
    BY NullAssumption DEF Holds, Copy
  <1>2. Flush(lib[c.id], c.row, new) = new
    BY <1>1 DEF Flush, Column, Row
  <1> QED
    BY <1>1, <1>2 DEF Written

LEMMA BegunServes ==
    ASSUME TypeInv, ~ LegacyDaemon, NEW r \in Reqs, NEW u \in Users
    PROVE  /\ \A a \in Apps, c \in Channels, x \in Arches :
                BeginQueue(r, u, a, c, x) => Serves(req'[r], lib', fetched')
           /\ \A a \in Apps : BeginRemove(r, u, a) => Serves(req'[r], lib', fetched')
           /\ \A item \in Item, c \in Channels \cup {NoChannel} :
                BeginConfirm(r, u, item, c) => Serves(req'[r], lib', fetched')
           /\ BeginPoll(r, u) => Serves(req'[r], lib', fetched')
           /\ BeginClose(r, u) => Serves(req'[r], lib', fetched')
  <1> USE DEF Begin, StoreUnchanged, TypeInv, TypeOK, Serves, QueueServes, RemoveServes,
              ConfirmServes, PollServes, CloseServes, InHand
  <1>1. ASSUME NEW a \in Apps, NEW c \in Channels, NEW x \in Arches,
               BeginQueue(r, u, a, c, x)
        PROVE  Serves(req'[r], lib', fetched')
    BY <1>1 DEF BeginQueue
  <1>2. ASSUME NEW a \in Apps, BeginRemove(r, u, a)
        PROVE  Serves(req'[r], lib', fetched')
    BY <1>2 DEF BeginRemove
  <1>3. ASSUME NEW item \in Item, NEW c \in Channels \cup {NoChannel},
               BeginConfirm(r, u, item, c)
        PROVE  Serves(req'[r], lib', fetched')
    <2>1. /\ req'[r] = [op |-> "confirm", pc |-> "find", user |-> u, app |-> item.app,
                        channel |-> c, arch |-> item.arch, copy |-> NoRow]
          /\ c = item.channel /\ item \in fetched'[u]
      BY <1>3 DEF BeginConfirm
    <2>2. c # NoChannel
      BY <2>1, NullAssumption DEF Item
    <2> QED
      BY <2>1, <2>2
  <1>4. ASSUME BeginPoll(r, u) PROVE Serves(req'[r], lib', fetched')
    BY <1>4 DEF BeginPoll
  <1>5. ASSUME BeginClose(r, u) PROVE Serves(req'[r], lib', fetched')
    BY <1>5 DEF BeginClose
  <1> QED
    BY <1>1, <1>2, <1>3, <1>4, <1>5

LEMMA QueueServesStep ==
    ASSUME TypeInv, NEW r \in Reqs, QueueStep(r) \/ RemoveStep(r)
    PROVE  Serves(req'[r], lib', fetched')
  <1> USE DEF At, Goto, StoreUnchanged, TypeInv, TypeOK
  <1>0. CASE Reply(r)
    BY <1>0 DEF Reply, Serves
  <1>1. ASSUME NEW q, req'[r] = q, q.op = "queue",
               q.pc = "update" => HoldsFor(q.copy, lib', q.user, q.app)
        PROVE  Serves(req'[r], lib', fetched')
    BY <1>1 DEF Serves, QueueServes, RemoveServes, ConfirmServes, PollServes, CloseServes
  <1>2. CASE QueueStep(r) /\ ~ Reply(r)
    <2>0. req[r] # Idle /\ req[r].op = "queue" /\ req[r] \in QueueReq
      BY <1>2, RequestTypes DEF QueueStep, QueueCheck, QueueFind, QueueInsert,
                                QueueConflict, QueueRefind, QueueUpdate
    <2>1. CASE Goto(r, "find") \/ Goto(r, "refind")
      BY <1>1, <2>0, <2>1 DEF QueueReq
    <2>2. ASSUME NEW c \in First(RowOf(req[r].user, req[r].app)), NEW pc,
                 pc = "update" => c # NoRow, lib' = lib,
                 req' = [req EXCEPT ![r].copy = c, ![r].pc = pc]
          PROVE  Serves(req'[r], lib', fetched')
      <3> DEFINE q == [req[r] EXCEPT !.copy = c, !.pc = pc]
      <3>1. req'[r] = q
        BY <2>2
      <3>2. /\ q.op = "queue" /\ q.pc = pc /\ q.copy = c
            /\ q.user = req[r].user /\ q.app = req[r].app
        BY <2>0 DEF QueueReq
      <3>3. q.pc = "update" => HoldsFor(q.copy, lib', q.user, q.app)
        BY <2>2, <3>2, FirstHolds
      <3> HIDE DEF q
      <3> QED
        BY <1>1, <3>1, <3>2, <3>3
    <2>3. CASE QueueFind(r)
      <3>1. PICK c \in First(RowOf(req[r].user, req[r].app)) :
              req' = [req EXCEPT ![r].copy = c,
                                 ![r].pc = IF c = NoRow THEN "insert" ELSE "update"]
        BY <2>3 DEF QueueFind
      <3>2. lib' = lib
        BY <2>3 DEF QueueFind
      <3> DEFINE pc == IF c = NoRow THEN "insert" ELSE "update"
      <3>3. pc = "update" => c # NoRow
        OBVIOUS
      <3>4. req' = [req EXCEPT ![r].copy = c, ![r].pc = pc]
        BY <3>1
      <3> HIDE DEF pc
      <3> QED
        BY <2>2, <3>2, <3>3, <3>4
    <2>4. CASE QueueRefind(r)
      <3>1. PICK c \in First(RowOf(req[r].user, req[r].app)) :
              c # NoRow /\ req' = [req EXCEPT ![r].copy = c, ![r].pc = "update"]
        BY <1>2, <2>4 DEF QueueRefind
      <3> QED
        BY <2>2, <2>4, <3>1 DEF QueueRefind
    <2> QED
      BY <1>2, <2>1, <2>3, <2>4 DEF QueueStep, QueueCheck, QueueInsert, QueueConflict, QueueUpdate
  <1>3. CASE RemoveStep(r) /\ ~ Reply(r)
    <2>0. req[r] # Idle /\ req[r].op = "remove" /\ req[r] \in RemoveReq
      BY <1>3, RequestTypes DEF RemoveStep, RemoveFind, RemoveDelete
    <2>1. PICK c \in First(RowOf(req[r].user, req[r].app)) :
            c # NoRow /\ req' = [req EXCEPT ![r].copy = c, ![r].pc = "delete"]
      BY <1>3 DEF RemoveStep, RemoveFind, RemoveDelete
    <2>2. lib' = lib
      BY <1>3 DEF RemoveStep, RemoveFind, RemoveDelete
    <2>3. /\ req'[r].op = "remove" /\ req'[r].copy = c
          /\ req'[r].user = req[r].user /\ req'[r].app = req[r].app
      BY <2>0, <2>1 DEF RemoveReq
    <2>4. HoldsFor(c, lib', req[r].user, req[r].app)
      BY <2>1, <2>2, FirstHolds
    <2> QED
      BY <2>3, <2>4 DEF Serves, QueueServes, RemoveServes, ConfirmServes, PollServes, CloseServes
  <1> QED
    BY <1>0, <1>2, <1>3

LEMMA ConfirmServesStep ==
    ASSUME TypeInv, NEW r \in Reqs, Serves(req[r], lib, fetched), ConfirmStep(r)
    PROVE  Serves(req'[r], lib', fetched')
  <1> USE DEF At, Goto, StoreUnchanged, TypeInv, TypeOK
  <1>0. req[r] # Idle /\ req[r].op = "confirm" /\ req[r] \in ConfirmReq
    BY RequestTypes DEF ConfirmStep, ConfirmFind, ConfirmUpdate, ConfirmEvent
  <1>1. CASE Reply(r)
    BY <1>1 DEF Reply, Serves
  <1>2. ConfirmServes(req[r], lib, fetched)
    BY <1>0 DEF Serves
  <1>3. ASSUME NEW q, req'[r] = q, q.op = "confirm", ConfirmServes(q, lib', fetched')
        PROVE  Serves(req'[r], lib', fetched')
    BY <1>3 DEF Serves, QueueServes, RemoveServes, PollServes, CloseServes
  <1>4. CASE ConfirmFind(r) /\ ~ Reply(r)
    <2>1. PICK c \in First(RowOf(req[r].user, req[r].app)) :
            /\ c # NoRow /\ ~ Superseded(req[r], c.row)
            /\ req' = [req EXCEPT ![r].copy = c, ![r].pc = "update"]
      BY <1>4 DEF ConfirmFind
    <2>2. HoldsFor(c, lib, req[r].user, req[r].app) /\ c.row.channel = req[r].channel
      BY <1>0, <1>2, <2>1, FirstHolds DEF Superseded, ConfirmServes
    <2>3. /\ req'[r].op = "confirm" /\ req'[r].pc = "update" /\ req'[r].copy = c
          /\ req'[r].user = req[r].user /\ req'[r].app = req[r].app
          /\ req'[r].channel = req[r].channel
      BY <1>0, <2>1 DEF ConfirmReq
    <2>4. lib' = lib /\ fetched' = fetched
      BY <1>4 DEF ConfirmFind
    <2>5. c \in Copy /\ c.row.user = req[r].user /\ c.row.app = req[r].app
          /\ c.row = lib'[c.id]
      BY <2>2, <2>4 DEF HoldsFor, Holds
    <2>6. /\ req[r].channel # NoChannel
          /\ \E item \in fetched[req[r].user] :
               item.app = req[r].app /\ item.channel = req[r].channel
      BY <1>0, <1>2 DEF ConfirmServes
    <2> HIDE DEF TypeOK
    <2>7. ConfirmServes(req'[r], lib', fetched')
      BY <2>2, <2>3, <2>4, <2>5, <2>6 DEF ConfirmServes
    <2> QED
      BY <1>3, <2>3, <2>7
  <1>5. CASE ConfirmUpdate(r) /\ ~ Reply(r)
    <2> DEFINE c == req[r].copy
               new == [c.row EXCEPT !.state = "installed"]
    <2>1. /\ req[r].pc = "update" /\ req'[r] = [req[r] EXCEPT !.pc = "event"]
          /\ lib' = Written(c, new) /\ fetched' = fetched
      BY <1>5 DEF ConfirmUpdate
    <2>2. Holds(c, lib) /\ c.row \in Row /\ c.id \in RowIds
      BY <1>0, <1>2, <2>1 DEF ConfirmServes, Holds, Copy
    <2>3. new \in Row /\ new.user = c.row.user /\ new.app = c.row.app
      BY <2>2 DEF Row, States
    <2>4. lib'[c.id] = new
      <3> HIDE DEF new
      <3>1. Written(c, new) = [lib EXCEPT ![c.id] = new]
        BY <2>2, <2>3, WrittenHeld
      <3> QED
        BY <2>1, <2>2, <3>1
    <2>5. /\ req'[r].op = "confirm" /\ req'[r].pc = "event" /\ req'[r].copy = c
          /\ req'[r].user = req[r].user /\ req'[r].app = req[r].app
          /\ req'[r].channel = req[r].channel
      BY <1>0, <2>1 DEF ConfirmReq
    <2>6. /\ c \in Copy /\ c.row.user = req[r].user /\ c.row.app = req[r].app
          /\ c.row.channel = req[r].channel /\ req[r].channel # NoChannel
          /\ \E item \in fetched[req[r].user] :
               item.app = req[r].app /\ item.channel = req[r].channel
      BY <1>0, <1>2, <2>1 DEF ConfirmServes
    <2> HIDE DEF c, TypeOK
    <2>7. ConfirmServes(req'[r], lib', fetched')
      BY <2>1, <2>4, <2>5, <2>6 DEF ConfirmServes
    <2> QED
      BY <1>3, <2>5, <2>7
  <1> QED
    BY <1>1, <1>4, <1>5 DEF ConfirmStep, ConfirmEvent

LEMMA PollServesStep ==
    ASSUME TypeInv, NEW r \in Reqs, Serves(req[r], lib, fetched), PollStep(r)
    PROVE  Serves(req'[r], lib', fetched')
  <1> USE DEF At, Goto, StoreUnchanged, TypeInv, TypeOK
  <1>0. req[r] # Idle /\ req[r].op = "poll" /\ req[r] \in PollReq
    BY RequestTypes DEF PollStep, PollSelect, PollPick, PollLookup, PollMark, PollReply
  <1>1. CASE Reply(r)
    BY <1>1 DEF Reply, Serves
  <1>2. PollServes(req[r], lib) /\ req[r].todo \subseteq Copy
    BY <1>0 DEF Serves, PollReq
  <1>3. ASSUME NEW q, req'[r] = q, q.op = "poll", PollServes(q, lib')
        PROVE  Serves(req'[r], lib', fetched')
    BY <1>3 DEF Serves, QueueServes, RemoveServes, ConfirmServes, CloseServes
  <1>4. CASE PollSelect(r)
    <2> DEFINE S == {Load(i) : i \in {j \in RowsOf(req[r].user) : lib[j].state = "pending"}}
               q == [req[r] EXCEPT !.pc = "pick", !.todo = S]
    <2>1. req'[r] = q /\ lib' = lib
      BY <1>4 DEF PollSelect
    <2>2. /\ q.op = "poll" /\ q.pc = "pick" /\ q.todo = S
          /\ q.user = req[r].user /\ q.out = req[r].out
      BY <1>0 DEF PollReq
    <2>3. \A c \in S : Awaits(c, lib, req[r].user)
      BY DEF Awaits, Holds, Load, RowsOf, Copy
    <2>4. q.out = {}
      BY <1>0, <1>2, <1>4, <2>2 DEF PollSelect, PollServes
    <2> HIDE DEF q, S
    <2>5. PollServes(q, lib')
      BY <2>1, <2>2, <2>3, <2>4 DEF PollServes, InHand
    <2> QED
      BY <1>3, <2>1, <2>2, <2>5
  <1>5. CASE PollPick(r)
    <2>1. PICK c \in req[r].todo :
            IF req[r].expired /\ lib[c.id] = NoRow
            THEN Reply(r)
            ELSE req' = [req EXCEPT ![r].pc = "lookup",
                                    ![r].todo = @ \ {c},
                                    ![r].copy = IF req[r].expired THEN Load(c.id) ELSE c]
      BY <1>5 DEF PollPick
    <2>2. Awaits(c, lib, req[r].user) /\ c \in Copy
      BY <1>0, <1>2 DEF PollServes
    <2>3. lib[c.id] # NoRow /\ Load(c.id) = c
      BY <2>2, NullAssumption DEF Awaits, Holds, Copy, Load
    <2> DEFINE q == [req[r] EXCEPT !.pc = "lookup", !.todo = @ \ {c}, !.copy = c]
    <2>4. req'[r] = q /\ lib' = lib
      <3>1. req' = [req EXCEPT ![r].pc = "lookup", ![r].todo = @ \ {c}, ![r].copy = c]
        BY <2>1, <2>3
      <3> QED
        BY <1>5, <3>1 DEF PollPick
    <2>5. /\ q.op = "poll" /\ q.pc = "lookup" /\ q.todo = req[r].todo \ {c} /\ q.copy = c
          /\ q.user = req[r].user /\ q.out = req[r].out
      BY <1>0 DEF PollReq
    <2> HIDE DEF q
    <2>6. PollServes(q, lib)
      BY <1>0, <1>2, <2>2, <2>5 DEF PollServes, InHand
    <2> QED
      BY <1>3, <2>4, <2>5, <2>6
  <1>6. CASE PollLookup(r)
    <2> DEFINE c == req[r].copy
               item == [app |-> c.row.app, channel |-> c.row.channel, arch |-> c.row.arch]
    <2>0. /\ req[r].pc = "lookup" /\ c \in Copy /\ Awaits(c, lib, req[r].user)
          /\ c \notin req[r].todo /\ lib' = lib
      BY <1>0, <1>2, <1>6 DEF PollLookup, PollServes, InHand, Loaded
    <2>1. CASE Goto(r, "mark")
      <3>1. /\ req'[r].op = "poll" /\ req'[r].pc = "mark" /\ req'[r].copy = c
            /\ req'[r].todo = req[r].todo /\ req'[r].user = req[r].user
            /\ req'[r].out = req[r].out
        BY <1>0, <2>1 DEF PollReq
      <3> HIDE DEF c
      <3>2. InHand(req'[r]) = {c} /\ InHand(req[r]) = {c}
        BY <2>0, <3>1 DEF InHand, c
      <3>3. PollServes(req'[r], lib')
        BY <1>0, <1>2, <2>0, <3>1, <3>2 DEF PollServes
      <3> QED
        BY <1>3, <3>1, <3>3
    <2>2. ASSUME NEW e \in BOOLEAN,
                 req' = [req EXCEPT ![r].pc = "pick", ![r].expired = @ \/ e,
                                    ![r].out = @ \cup {item}]
          PROVE  Serves(req'[r], lib', fetched')
      <3> DEFINE q == [req[r] EXCEPT !.pc = "pick", !.expired = @ \/ e,
                                     !.out = @ \cup {item}]
      <3>1. req'[r] = q
        BY <2>2
      <3>2. /\ q.op = "poll" /\ q.pc = "pick" /\ q.todo = req[r].todo
            /\ q.user = req[r].user /\ q.out = req[r].out \cup {item}
        BY <1>0 DEF PollReq
      <3>3. item.app = c.row.app /\ item.channel = c.row.channel
        OBVIOUS
      <3> HIDE DEF q, item, c
      <3>4. InHand(q) = {} /\ InHand(req[r]) = {c}
        BY <2>0, <3>2 DEF InHand, c
      <3>5. PollServes(q, lib)
        BY <1>0, <1>2, <2>0, <3>2, <3>3, <3>4 DEF PollServes
      <3> QED
        BY <1>3, <2>0, <3>1, <3>2, <3>5
    <2> QED
      BY <1>6, <2>1, <2>2 DEF PollLookup
  <1>7. CASE PollMark(r) /\ ~ Reply(r)
    <2> DEFINE c == req[r].copy
    <2>0. /\ req[r].pc = "mark" /\ c \in Copy /\ Holds(c, lib)
          /\ c \notin req[r].todo /\ lib' = Written(c, Gone(c.row))
      BY <1>0, <1>2, <1>7 DEF PollMark, PollServes, InHand, Loaded, Awaits
    <2>1. /\ Gone(c.row) \in Row /\ Gone(c.row).user = c.row.user
          /\ Gone(c.row).app = c.row.app
      BY <2>0 DEF Gone, Copy, Row, States
    <2>2. lib' = [lib EXCEPT ![c.id] = Gone(c.row)]
      BY <2>0, <2>1, WrittenHeld
    <2>3. \A d \in Copy : d # c /\ Awaits(d, lib, req[r].user) => Awaits(d, lib', req[r].user)
      <3> SUFFICES ASSUME NEW d \in Copy, d # c, Awaits(d, lib, req[r].user)
                   PROVE  Awaits(d, lib', req[r].user)
        OBVIOUS
      <3>1. d.id # c.id
        BY <2>0 DEF Awaits, Holds, Copy
      <3>2. lib'[d.id] = lib[d.id]
        BY <2>2, <3>1 DEF Copy
      <3> QED
        BY <3>2 DEF Awaits, Holds
    <2>4. /\ req'[r].op = "poll" /\ req'[r].pc = "pick" /\ req'[r].todo = req[r].todo
          /\ req'[r].user = req[r].user /\ req'[r].out = req[r].out
      BY <1>0, <1>7 DEF PollMark, PollReq
    <2> HIDE DEF c
    <2>5. InHand(req'[r]) = {} /\ InHand(req[r]) = {c}
      BY <2>0, <2>4 DEF InHand, c
    <2>6. PollServes(req'[r], lib')
      BY <1>0, <1>2, <2>0, <2>3, <2>4, <2>5 DEF PollServes
    <2> QED
      BY <1>3, <2>4, <2>6
  <1> QED
    BY <1>1, <1>4, <1>5, <1>6, <1>7 DEF PollStep, PollReply

LEMMA CloseServesStep ==
    ASSUME TypeInv, NEW r \in Reqs, CloseStep(r)
    PROVE  Serves(req'[r], lib', fetched')
  <1> USE DEF At, StoreUnchanged, TypeInv, TypeOK
  <1>0. req[r] # Idle /\ req[r].op = "close" /\ req[r] \in CloseReq
    BY RequestTypes DEF CloseStep, CloseSelect, CloseDelete
  <1>1. CASE Reply(r)
    BY <1>1 DEF Reply, Serves
  <1>2. CASE CloseSelect(r)
    <2> DEFINE S == {Load(i) : i \in RowsOf(req[r].user)}
    <2>1. /\ req'[r].op = "close" /\ req'[r].user = req[r].user
          /\ req'[r].todo = S /\ lib' = lib
      BY <1>0, <1>2 DEF CloseSelect, CloseReq
    <2>2. \A i \in RowIds : lib[i] # NoRow /\ lib[i].user = req[r].user =>
            \E c \in S : c.id = i
      <3> SUFFICES ASSUME NEW i \in RowIds, lib[i] # NoRow, lib[i].user = req[r].user
                   PROVE  \E c \in S : c.id = i
        OBVIOUS
      <3>1. Load(i) \in S
        BY DEF RowsOf
      <3>2. Load(i).id = i
        BY DEF Load
      <3> HIDE DEF S
      <3> QED
        BY <3>1, <3>2
    <2>3. \A c \in S : Holds(c, lib) /\ c.row.user = req[r].user
      BY DEF RowsOf, Load, Holds, Copy
    <2> HIDE DEF S
    <2> QED
      BY <2>1, <2>2, <2>3
         DEF Serves, QueueServes, RemoveServes, ConfirmServes, PollServes, CloseServes
  <1> QED
    BY <1>1, <1>2 DEF CloseStep, CloseDelete

\* With one request at a time, what it holds stays true until it is answered.
LEMMA SerialStep ==
    ASSUME OneRequest, ~ LegacyDaemon, SerialInv, [Next]_vars
    PROVE  SerialInv'
  <1> DEFINE P == \A r \in Reqs : Serves(req'[r], lib', fetched')
  <1>0. TypeInv /\ (IdReuse \/ FreshIds) /\ \A r \in Reqs : Serves(req[r], lib, fetched)
    BY DEF SerialInv
  <1>1. ASSUME NEW r \in Reqs, Serves(req'[r], lib', fetched') PROVE P
    BY <1>1 DEF OneRequest
  <1>2. ASSUME NEW r \in Reqs, NEW u \in Users
        PROVE  /\ \A a \in Apps, c \in Channels, x \in Arches :
                    BeginQueue(r, u, a, c, x) => P
               /\ \A a \in Apps : BeginRemove(r, u, a) => P
               /\ \A item \in Item, c \in Channels \cup {NoChannel} :
                    BeginConfirm(r, u, item, c) => P
               /\ BeginPoll(r, u) \/ BeginClose(r, u) => P
    BY <1>0, <1>1, BegunServes
  <1>3. ASSUME NEW r \in Reqs,
               QueueStep(r) \/ RemoveStep(r) \/ ConfirmStep(r) \/ PollStep(r) \/ CloseStep(r)
        PROVE  P
    BY <1>0, <1>1, <1>3, QueueServesStep, ConfirmServesStep, PollServesStep, CloseServesStep
  <1>4. (CatalogStep \/ UNCHANGED vars) => P
    BY <1>0 DEF CatalogStep, Prune, Publish, vars
  <1> HIDE DEF P
  <1>5. P
    BY <1>2, <1>3, <1>4, NextCases
  <1> QED
    BY <1>0, <1>5, TypeInvStep, FreshIdsStep DEF P, SerialInv

LEMMA SerialInvariant ==
    ASSUME OneRequest, ~ LegacyDaemon
    PROVE  Spec => []SerialInv
  <1>1. Init => SerialInv
    BY BoundAssumption, NullAssumption
       DEF Init, SerialInv, TypeInv, TypeOK, Loaded, FreshIds, Serves
  <1>2. SerialInv /\ [Next]_vars => SerialInv'
    BY SerialStep
  <1> QED
    BY <1>1, <1>2, PTL DEF Spec

\* Every counted install is of a build the daemon of some user was handed: the
\* row the event names is the one the confirm was for.
THEOREM CountedWasHanded ==
    ASSUME OneRequest, ~ LegacyDaemon
    PROVE  Spec => []DownloadsAreReal
  <1>1. Init => DownloadsAreReal
    BY DEF Init, DownloadsAreReal
  <1>2. SerialInv /\ DownloadsAreReal /\ [Next]_vars => DownloadsAreReal'
    <2> SUFFICES ASSUME SerialInv, DownloadsAreReal, [Next]_vars
                 PROVE  DownloadsAreReal'
      OBVIOUS
    <2> DEFINE P == \A d \in downloads' : d \in downloads \/ Counted(d)
    <2>0. TypeInv /\ \A r \in Reqs : Serves(req[r], lib, fetched)
      BY DEF SerialInv
    <2>1. ASSUME NEW r \in Reqs, ConfirmEvent(r) PROVE P
      <3>1. /\ req[r] # Idle /\ req[r] \in ConfirmReq
            /\ req[r].op = "confirm" /\ req[r].pc = "event"
        BY <2>0, <2>1, RequestTypes DEF ConfirmEvent, At, TypeInv
      <3>2. ConfirmServes(req[r], lib, fetched)
        BY <2>0, <3>1 DEF Serves
      <3> DEFINE c == req[r].copy
                 row == lib[c.id]
                 d == [app |-> req[r].app, channel |-> row.channel, arch |-> row.arch]
      <3>3. /\ c \in Copy /\ row = [c.row EXCEPT !.state = "installed"]
            /\ c.row.channel = req[r].channel
            /\ \E item \in fetched[req[r].user] :
                 item.app = req[r].app /\ item.channel = req[r].channel
        BY <3>1, <3>2 DEF ConfirmServes
      <3>4. row.channel = c.row.channel
        BY <3>3 DEF Copy, Row
      <3>5. Counted(d)
        BY <3>1, <3>3, <3>4 DEF Counted, ConfirmReq
      <3>6. downloads' \subseteq downloads \cup {d}
        BY <2>1 DEF ConfirmEvent
      <3> QED
        BY <3>5, <3>6
    <2>2. downloads' = downloads => P
      OBVIOUS
    <2>3. ASSUME NEW r \in Reqs,
                 QueueStep(r) \/ RemoveStep(r) \/ PollStep(r) \/ CloseStep(r)
                 \/ ConfirmFind(r) \/ ConfirmUpdate(r)
          PROVE  P
      BY <2>2, <2>3 DEF QueueStep, RemoveStep, PollStep, CloseStep, QueueCheck, QueueFind,
         QueueInsert, QueueConflict, QueueRefind, QueueUpdate, RemoveFind, RemoveDelete,
         PollSelect, PollPick, PollLookup, PollMark, PollReply, CloseSelect, CloseDelete,
         ConfirmFind, ConfirmUpdate, StoreUnchanged
    <2>4. ASSUME NEW r \in Reqs, NEW u \in Users
          PROVE  /\ \A a \in Apps, c \in Channels, x \in Arches :
                      BeginQueue(r, u, a, c, x) => P
                 /\ \A a \in Apps : BeginRemove(r, u, a) => P
                 /\ \A item \in Item, c \in Channels \cup {NoChannel} :
                      BeginConfirm(r, u, item, c) => P
                 /\ BeginPoll(r, u) \/ BeginClose(r, u) => P
      BY <2>2 DEF BeginQueue, BeginRemove, BeginConfirm, BeginPoll, BeginClose, StoreUnchanged
    <2>5. (CatalogStep \/ UNCHANGED vars) => P
      BY <2>2 DEF CatalogStep, Prune, Publish, vars
    <2> HIDE DEF P
    <2>6. P
      BY <2>1, <2>3, <2>4, <2>5, NextCases DEF ConfirmStep
    <2>7. \A u \in Users : fetched[u] \subseteq fetched'[u]
      BY <2>0, FetchedGrows
    <2> QED
      BY <2>6, <2>7 DEF P, DownloadsAreReal, Counted
  <1> QED
    BY <1>1, <1>2, SerialInvariant, PTL DEF Spec

-----------------------------------------------------------------------------
(* One request at a time, the table is an InstallQueue.                     *)
Entry(row) == [channel |-> row.channel, arch |-> row.arch, state |-> row.state]
Pairs == Users \X Apps
RowsIn(t, p) == {i \in RowIds : t[i] # NoRow /\ t[i].user = p[1] /\ t[i].app = p[2]}
SlotIn(t) == [p \in Pairs |->
                 IF RowsIn(t, p) = {} THEN NoRow
                 ELSE Entry(t[CHOOSE i \in RowsIn(t, p) : TRUE])]
HandedIn(f) == UNION {{<<u, item.app, item.channel>> : item \in f[u]} : u \in Users}

\* A table with one row for a user and app.
Table(t) == /\ t \in [RowIds -> Row \cup {NoRow}]
            /\ \A i, j \in RowIds :
                 /\ t[i] # NoRow /\ t[j] # NoRow
                 /\ t[i].user = t[j].user /\ t[i].app = t[j].app
                 => i = j

LEMMA AbstractIsSlotIn ==
    /\ AbstractSlot = SlotIn(lib)     /\ AbstractHanded = HandedIn(fetched)
    /\ AbstractSlot' = SlotIn(lib')   /\ AbstractHanded' = HandedIn(fetched')
  <1>1. \A p \in Pairs : RowOf(p[1], p[2]) = RowsIn(lib, p)
    BY DEF RowOf, RowsOf, RowsIn
  <1>2. \A p \in Pairs : RowOf(p[1], p[2])' = RowsIn(lib', p)
    BY DEF RowOf, RowsOf, RowsIn
  <1>3. AbstractSlot = SlotIn(lib)
    BY <1>1 DEF AbstractSlot, SlotIn, Pairs, Entry
  <1>4. AbstractSlot' = SlotIn(lib')
    BY <1>2 DEF AbstractSlot, SlotIn, Pairs, Entry
  <1> QED
    BY <1>3, <1>4 DEF AbstractHanded, HandedIn

\* The entry of a pair is the row of the pair, and absent when it has none.
LEMMA EntryOfRow ==
    ASSUME NEW t, Table(t), NEW i \in RowIds, t[i] # NoRow
    PROVE  /\ <<t[i].user, t[i].app>> \in Pairs
           /\ SlotIn(t)[<<t[i].user, t[i].app>>] = Entry(t[i])
           /\ Entry(t[i]) # NoRow
  <1> DEFINE p == <<t[i].user, t[i].app>>
  <1>1. t[i] \in Row /\ p \in Pairs
    BY DEF Table, Row, Pairs
  <1>2. RowsIn(t, p) = {i}
    BY DEF Table, RowsIn
  <1>3. (CHOOSE j \in RowsIn(t, p) : TRUE) = i
    BY <1>2
  <1>4. Entry(t[i]) # NoRow
    BY <1>1, NullAssumption DEF Entry, Row
  <1> HIDE DEF p
  <1>5. SlotIn(t)[p] = Entry(t[i])
    BY <1>1, <1>2, <1>3 DEF SlotIn
  <1> QED
    BY <1>1, <1>4, <1>5 DEF p

\* Tables that differ in one pair only have slots that differ in one pair only.
LEMMA OneSlotChanges ==
    ASSUME NEW t, NEW s, NEW u \in Users, NEW a \in Apps,
           \A i \in RowIds :
               s[i] # t[i] => /\ t[i] = NoRow \/ (t[i].user = u /\ t[i].app = a)
                              /\ s[i] = NoRow \/ (s[i].user = u /\ s[i].app = a)
    PROVE  SlotIn(s) = [SlotIn(t) EXCEPT ![<<u, a>>] = SlotIn(s)[<<u, a>>]]
  <1>1. ASSUME NEW p \in Pairs, p # <<u, a>> PROVE SlotIn(s)[p] = SlotIn(t)[p]
    <2>1. p[1] # u \/ p[2] # a
      BY <1>1 DEF Pairs
    <2>2. RowsIn(s, p) = RowsIn(t, p) /\ \A i \in RowsIn(t, p) : s[i] = t[i]
      BY <2>1 DEF RowsIn
    <2> DEFINE k == CHOOSE i \in RowsIn(t, p) : TRUE
    <2>3. RowsIn(t, p) # {} => k \in RowsIn(t, p)
      OBVIOUS
    <2>4. /\ SlotIn(t)[p] = IF RowsIn(t, p) = {} THEN NoRow ELSE Entry(t[k])
          /\ SlotIn(s)[p] = IF RowsIn(t, p) = {} THEN NoRow ELSE Entry(s[k])
      BY <2>2 DEF SlotIn
    <2> QED
      BY <2>2, <2>3, <2>4
  <1>2. /\ SlotIn(s) = [p \in Pairs |-> SlotIn(s)[p]]
        /\ SlotIn(t) = [p \in Pairs |-> SlotIn(t)[p]]
    BY DEF SlotIn
  <1>3. <<u, a>> \in Pairs
    BY DEF Pairs
  <1> QED
    BY <1>1, <1>2, <1>3

\* What the abstract queue sees when a row is inserted or replaced.
LEMMA RowPut ==
    ASSUME Table(lib'), NEW i \in RowIds, NEW new \in Row, lib \in [RowIds -> Row \cup {NoRow}],
           lib' = [lib EXCEPT ![i] = new],
           lib[i] = NoRow \/ (lib[i].user = new.user /\ lib[i].app = new.app)
    PROVE  AbstractSlot' = [AbstractSlot EXCEPT ![<<new.user, new.app>>] = Entry(new)]
  <1> DEFINE u == new.user
             a == new.app
  <1>1. u \in Users /\ a \in Apps /\ lib'[i] = new /\ new # NoRow
    BY NullAssumption DEF Row
  <1>2. \A j \in RowIds :
          lib'[j] # lib[j] => /\ lib[j] = NoRow \/ (lib[j].user = u /\ lib[j].app = a)
                              /\ lib'[j] = NoRow \/ (lib'[j].user = u /\ lib'[j].app = a)
    <2> SUFFICES ASSUME NEW j \in RowIds, lib'[j] # lib[j]
                 PROVE  /\ lib[j] = NoRow \/ (lib[j].user = u /\ lib[j].app = a)
                        /\ lib'[j] = NoRow \/ (lib'[j].user = u /\ lib'[j].app = a)
      OBVIOUS
    <2>1. j = i
      OBVIOUS
    <2> QED
      BY <1>1, <2>1
  <1>3. SlotIn(lib')[<<u, a>>] = Entry(new)
    BY <1>1, EntryOfRow
  <1> HIDE DEF u, a
  <1>4. ASSUME NEW s, s = lib'
        PROVE  SlotIn(s) = [SlotIn(lib) EXCEPT ![<<u, a>>] = SlotIn(s)[<<u, a>>]]
    <2>1. \A j \in RowIds :
            s[j] # lib[j] => /\ lib[j] = NoRow \/ (lib[j].user = u /\ lib[j].app = a)
                             /\ s[j] = NoRow \/ (s[j].user = u /\ s[j].app = a)
      BY <1>2, <1>4
    <2> QED
      BY ONLY <1>1, <2>1, OneSlotChanges
  <1> QED
    BY <1>3, <1>4, AbstractIsSlotIn DEF u, a

LEMMA HandedKept == fetched' = fetched => UNCHANGED AbstractHanded
  BY AbstractIsSlotIn

LEMMA QueueStutters == lib' = lib /\ fetched' = fetched => UNCHANGED Queue!vars
  BY AbstractIsSlotIn DEF Queue!vars

\* Everything that is true of the states around a step of a serial run.
SerialPair == /\ SerialInv /\ Table(lib) /\ Table(lib')
QueueMoves == Queue!Next \/ UNCHANGED Queue!vars

LEMMA QueueRefines ==
    ASSUME SerialPair, NEW r \in Reqs, QueueStep(r)
    PROVE  QueueMoves
  <1>0. /\ TypeInv /\ Serves(req[r], lib, fetched) /\ lib \in [RowIds -> Row \cup {NoRow}]
        /\ Table(lib') /\ (IdReuse \/ FreshIds)
    BY DEF SerialPair, SerialInv, Table
  <1>1. req[r] # Idle /\ req[r].op = "queue" /\ req[r] \in QueueReq
    BY <1>0, RequestTypes DEF QueueStep, QueueCheck, QueueFind, QueueInsert, At,
                              QueueConflict, QueueRefind, QueueUpdate, TypeInv
  <1>2. ASSUME NEW i \in RowIds, NEW new \in Row, lib' = [lib EXCEPT ![i] = new],
               lib[i] = NoRow \/ (lib[i].user = new.user /\ lib[i].app = new.app),
               new.state = "pending", fetched' = fetched
        PROVE  QueueMoves
    <2>1. /\ new.user \in Users /\ new.app \in Apps
          /\ new.channel \in Channels /\ new.arch \in Arches
      BY DEF Row
    <2>2. AbstractSlot' = [AbstractSlot EXCEPT ![<<new.user, new.app>>] =
                             [channel |-> new.channel, arch |-> new.arch, state |-> "pending"]]
      BY <1>0, <1>2, RowPut DEF Entry
    <2>3. UNCHANGED AbstractHanded
      BY <1>2, HandedKept
    <2>4. Queue!Request(new.user, new.app)
      BY <2>1, <2>2, <2>3 DEF Queue!Request
    <2> QED
      BY <2>1, <2>4 DEF Queue!Next, QueueMoves
  <1>3. CASE QueueInsert(r)
    <2>1. PICK i \in NewId : lib' = [lib EXCEPT ![i] = NewRow(req[r])]
      BY <1>3 DEF QueueInsert
    <2>2. NewRow(req[r]) \in Row /\ NewRow(req[r]).state = "pending"
      BY <1>1 DEF NewRow, Row, QueueReq, States
    <2>3. i \in RowIds /\ lib[i] = NoRow
      BY <1>0, NewIdFree
    <2> QED
      BY <1>2, <1>3, <2>1, <2>2, <2>3 DEF QueueInsert
  <1>4. CASE QueueUpdate(r)
    <2> DEFINE c == req[r].copy
               new == Requeued(req[r], c.row)
    <2>1. HoldsFor(c, lib, req[r].user, req[r].app) /\ c \in Copy
      BY <1>0, <1>1, <1>4 DEF Serves, QueueServes, QueueUpdate, At, HoldsFor, Holds
    <2>2. /\ new \in Row /\ new.state = "pending"
          /\ new.user = c.row.user /\ new.app = c.row.app
      BY <1>1, <2>1 DEF Requeued, Row, Copy, QueueReq, States
    <2>3. Holds(c, lib) /\ c.id \in RowIds /\ lib[c.id] = c.row
      BY <2>1 DEF HoldsFor, Holds, Copy
    <2> HIDE DEF new, c
    <2>4. lib' = [lib EXCEPT ![c.id] = new]
      BY <1>0, <1>4, <2>2, <2>3, WrittenHeld DEF QueueUpdate, TypeInv, new, c
    <2> QED
      BY <1>2, <1>4, <2>2, <2>3, <2>4 DEF QueueUpdate
  <1>5. CASE QueueCheck(r) \/ QueueFind(r) \/ QueueConflict(r) \/ QueueRefind(r)
    BY <1>5, QueueStutters
       DEF QueueCheck, QueueFind, QueueConflict, QueueRefind, StoreUnchanged, QueueMoves
  <1> QED
    BY <1>3, <1>4, <1>5 DEF QueueStep

LEMMA RemoveRefines ==
    ASSUME SerialPair, NEW r \in Reqs, RemoveStep(r)
    PROVE  QueueMoves
  <1>0. TypeInv /\ Serves(req[r], lib, fetched) /\ Table(lib) /\ Table(lib')
    BY DEF SerialPair, SerialInv
  <1>1. req[r] # Idle /\ req[r].op = "remove" /\ req[r] \in RemoveReq
    BY <1>0, RequestTypes DEF RemoveStep, RemoveFind, RemoveDelete, At, TypeInv
  <1>2. CASE RemoveFind(r)
    BY <1>2, QueueStutters DEF RemoveFind, StoreUnchanged, QueueMoves
  <1>3. CASE RemoveDelete(r)
    <2> DEFINE c == req[r].copy
               u == req[r].user
               a == req[r].app
    <2>1. /\ c \in Copy /\ c.row = lib[c.id] /\ c.row.user = u /\ c.row.app = a
          /\ u \in Users /\ a \in Apps /\ c.id \in RowIds /\ lib[c.id] # NoRow
      BY <1>0, <1>1, <1>3, NullAssumption
         DEF Serves, RemoveServes, RemoveDelete, At, HoldsFor, Holds, RemoveReq, Copy
    <2>2. \A i \in RowIds : lib'[i] = IF i = c.id THEN NoRow ELSE lib[i]
      BY <1>3 DEF RemoveDelete, Deleted
    <2> HIDE DEF c, u, a
    <2>3. RowsIn(lib', <<u, a>>) = {}
      BY <1>0, <2>1, <2>2 DEF RowsIn, Table
    <2>4. SlotIn(lib')[<<u, a>>] = NoRow
      BY <2>1, <2>3 DEF SlotIn, Pairs
    <2>5. SlotIn(lib') = [SlotIn(lib) EXCEPT ![<<u, a>>] = SlotIn(lib')[<<u, a>>]]
      BY <2>1, <2>2, OneSlotChanges
    <2>6. UNCHANGED AbstractHanded
      BY <1>3, HandedKept DEF RemoveDelete
    <2>7. Queue!Withdraw(u, a)
      BY <2>4, <2>5, <2>6, AbstractIsSlotIn DEF Queue!Withdraw
    <2> QED
      BY <2>1, <2>7 DEF Queue!Next, QueueMoves
  <1> QED
    BY <1>2, <1>3 DEF RemoveStep

\* A row of the table, as the abstract queue sees it.
LEMMA SlotOfHeld ==
    ASSUME Table(lib), NEW c \in Copy, Holds(c, lib)
    PROVE  /\ c.row.user \in Users /\ c.row.app \in Apps
           /\ AbstractSlot[<<c.row.user, c.row.app>>] = Entry(c.row)
           /\ Entry(c.row) # NoRow
  <1>1. c.id \in RowIds /\ c.row \in Row /\ lib[c.id] = c.row /\ lib[c.id] # NoRow
    BY NullAssumption DEF Holds, Copy
  <1> QED
    BY <1>1, EntryOfRow, AbstractIsSlotIn DEF Row

\* A change of state of the row a request holds.
LEMMA StateSet ==
    ASSUME Table(lib), Table(lib'), TypeOK, NEW c \in Copy, Holds(c, lib), NEW s \in States,
           lib' = Written(c, [c.row EXCEPT !.state = s])
    PROVE  AbstractSlot' = [AbstractSlot EXCEPT ![<<c.row.user, c.row.app>>].state = s]
  <1> DEFINE new == [c.row EXCEPT !.state = s]
             p == <<c.row.user, c.row.app>>
  <1>1. c.id \in RowIds /\ c.row \in Row /\ lib[c.id] = c.row
    BY DEF Holds, Copy
  <1>2. /\ new \in Row /\ new.user = c.row.user /\ new.app = c.row.app
        /\ Entry(new) = [Entry(c.row) EXCEPT !.state = s]
    BY <1>1 DEF Row, Entry
  <1>3. AbstractSlot[p] = Entry(c.row)
    BY SlotOfHeld
  <1> HIDE DEF new
  <1>4. lib' = [lib EXCEPT ![c.id] = new]
    BY <1>2, WrittenHeld DEF new
  <1>5. AbstractSlot' = [AbstractSlot EXCEPT ![<<new.user, new.app>>] = Entry(new)]
    BY <1>1, <1>2, <1>4, RowPut DEF Table
  <1> QED
    BY <1>2, <1>3, <1>5

LEMMA ConfirmRefines ==
    ASSUME SerialPair, NEW r \in Reqs, ConfirmStep(r)
    PROVE  QueueMoves
  <1>0. TypeInv /\ Serves(req[r], lib, fetched) /\ Table(lib) /\ Table(lib')
    BY DEF SerialPair, SerialInv
  <1>1. req[r] # Idle /\ req[r].op = "confirm" /\ req[r] \in ConfirmReq
    BY <1>0, RequestTypes DEF ConfirmStep, ConfirmFind, ConfirmUpdate, ConfirmEvent, At, TypeInv
  <1>2. CASE ConfirmFind(r) \/ ConfirmEvent(r)
    BY <1>2, QueueStutters DEF ConfirmFind, ConfirmEvent, StoreUnchanged, QueueMoves
  <1>3. CASE ConfirmUpdate(r)
    <2> DEFINE c == req[r].copy
               u == req[r].user
               a == req[r].app
    <2>1. /\ c \in Copy /\ Holds(c, lib) /\ c.row.user = u /\ c.row.app = a
          /\ c.row.channel = req[r].channel
          /\ \E item \in fetched[u] : item.app = a /\ item.channel = c.row.channel
      BY <1>0, <1>1, <1>3 DEF ConfirmUpdate, At, Serves, ConfirmServes, Holds
    <2>2. lib' = Written(c, [c.row EXCEPT !.state = "installed"]) /\ fetched' = fetched
      BY <1>3 DEF ConfirmUpdate
    <2> HIDE DEF c, u, a
    <2>3. /\ u \in Users /\ a \in Apps
          /\ AbstractSlot[<<u, a>>] = Entry(c.row) /\ AbstractSlot[<<u, a>>] # NoRow
      BY <1>0, <2>1, SlotOfHeld
    <2>4. AbstractSlot[<<u, a>>].channel = c.row.channel
      BY <2>3 DEF Entry
    <2>5. <<u, a, c.row.channel>> \in AbstractHanded
      BY <2>1, <2>3 DEF AbstractHanded
    <2>6. AbstractSlot' = [AbstractSlot EXCEPT ![<<u, a>>].state = "installed"]
      <3>1. "installed" \in States
        BY DEF States
      <3> QED
        BY <1>0, <2>1, <2>2, <3>1, StateSet DEF TypeInv
    <2>7. UNCHANGED AbstractHanded
      BY <2>2, HandedKept
    <2>8. Queue!Confirm(u, a)
      BY <2>3, <2>4, <2>5, <2>6, <2>7 DEF Queue!Confirm
    <2> QED
      BY <2>3, <2>8 DEF Queue!Next, QueueMoves
  <1> QED
    BY <1>2, <1>3 DEF ConfirmStep

LEMMA PollRefines ==
    ASSUME SerialPair, NEW r \in Reqs, PollStep(r)
    PROVE  QueueMoves
  <1>0. TypeInv /\ Serves(req[r], lib, fetched) /\ Table(lib) /\ Table(lib')
    BY DEF SerialPair, SerialInv
  <1>1. req[r] # Idle /\ req[r].op = "poll" /\ req[r] \in PollReq
    BY <1>0, RequestTypes DEF PollStep, PollSelect, PollPick, PollLookup, PollMark,
                              PollReply, At, TypeInv
  <1>2. PollServes(req[r], lib)
    BY <1>0, <1>1 DEF Serves
  <1>3. CASE PollSelect(r) \/ PollPick(r) \/ PollLookup(r)
    BY <1>3, QueueStutters DEF PollSelect, PollPick, PollLookup, StoreUnchanged, QueueMoves
  <1>4. CASE PollMark(r)
    <2> DEFINE c == req[r].copy
               u == c.row.user
               a == c.row.app
    <2>1. /\ c \in Copy /\ Holds(c, lib) /\ c.row.state = "pending"
      BY <1>1, <1>2, <1>4 DEF PollMark, At, PollServes, InHand, Awaits, Holds
    <2>2. lib' = Written(c, [c.row EXCEPT !.state = "unavailable"]) /\ fetched' = fetched
      BY <1>4 DEF PollMark, Gone
    <2> HIDE DEF c
    <2>3. /\ u \in Users /\ a \in Apps
          /\ AbstractSlot[<<u, a>>] = Entry(c.row) /\ AbstractSlot[<<u, a>>] # NoRow
      BY <1>0, <2>1, SlotOfHeld
    <2>4. AbstractSlot[<<u, a>>].state = "pending"
      BY <2>1, <2>3 DEF Entry
    <2>5. AbstractSlot' = [AbstractSlot EXCEPT ![<<u, a>>].state = "unavailable"]
      <3>1. "unavailable" \in States
        BY DEF States
      <3> QED
        BY <1>0, <2>1, <2>2, <3>1, StateSet DEF TypeInv
    <2>6. UNCHANGED AbstractHanded
      BY <2>2, HandedKept
    <2>7. Queue!GiveUp(u, a)
      BY <2>3, <2>4, <2>5, <2>6 DEF Queue!GiveUp
    <2> QED
      BY <2>3, <2>7 DEF Queue!Next, QueueMoves
  <1>5. CASE PollReply(r)
    <2> DEFINE u == req[r].user
               out == req[r].out
               A == {o.app : o \in out}
    <2>1. /\ u \in Users /\ out \subseteq Item /\ lib' = lib
          /\ fetched' = [fetched EXCEPT ![u] = @ \cup out]
          /\ fetched \in [Users -> SUBSET Item]
      BY <1>0, <1>1, <1>5 DEF PollReply, PollReq, TypeInv, TypeOK
    <2>2. \A o \in out : \E c \in Copy : /\ Holds(c, lib) /\ c.row.user = u
                                         /\ c.row.state = "pending"
                                         /\ c.row.app = o.app /\ c.row.channel = o.channel
      BY <1>1, <1>2 DEF PollServes, Awaits
    <2> HIDE DEF u, out
    <2>3. ASSUME NEW o \in out
          PROVE  /\ o.app \in Apps /\ AbstractSlot[<<u, o.app>>] # NoRow
                 /\ AbstractSlot[<<u, o.app>>].state = "pending"
                 /\ AbstractSlot[<<u, o.app>>].channel = o.channel
      <3>1. PICK c \in Copy : /\ Holds(c, lib) /\ c.row.user = u
                              /\ c.row.state = "pending"
                              /\ c.row.app = o.app /\ c.row.channel = o.channel
        BY <2>2
      <3>2. /\ o.app \in Apps /\ AbstractSlot[<<u, o.app>>] = Entry(c.row)
            /\ Entry(c.row) # NoRow
        BY <1>0, <3>1, SlotOfHeld
      <3> QED
        BY <3>1, <3>2 DEF Entry
    <2>4. A \in SUBSET {a \in Apps : /\ AbstractSlot[<<u, a>>] # NoRow
                                     /\ AbstractSlot[<<u, a>>].state = "pending"}
      BY <2>3
    <2>5. {<<u, a, AbstractSlot[<<u, a>>].channel>> : a \in A} =
            {<<u, o.app, o.channel>> : o \in out}
      <3> DEFINE F(a) == <<u, a, AbstractSlot[<<u, a>>].channel>>
                 G(o) == <<u, o.app, o.channel>>
      <3>1. \A o \in out : F(o.app) = G(o)
        BY <2>3
      <3> HIDE DEF F, G
      <3>2. {F(a) : a \in A} = {G(o) : o \in out}
        BY <3>1
      <3> QED
        BY <3>2 DEF F, G
    <2>6. HandedIn(fetched') = HandedIn(fetched) \cup {<<u, o.app, o.channel>> : o \in out}
      <3>1. \A w \in Users : fetched'[w] = IF w = u THEN fetched[u] \cup out ELSE fetched[w]
        BY <2>1
      <3>2. ASSUME NEW t \in HandedIn(fetched')
            PROVE  t \in HandedIn(fetched) \cup {<<u, o.app, o.channel>> : o \in out}
        <4>1. PICK w \in Users : \E item \in fetched'[w] : t = <<w, item.app, item.channel>>
          BY <3>2 DEF HandedIn
        <4> QED
          BY <3>1, <4>1 DEF HandedIn
      <3>3. ASSUME NEW t \in HandedIn(fetched) PROVE t \in HandedIn(fetched')
        <4>1. PICK w \in Users : \E item \in fetched[w] : t = <<w, item.app, item.channel>>
          BY <3>3 DEF HandedIn
        <4> QED
          BY <3>1, <4>1 DEF HandedIn
      <3>4. {<<u, o.app, o.channel>> : o \in out} \subseteq HandedIn(fetched')
        BY <2>1, <3>1 DEF HandedIn
      <3> QED
        BY <3>2, <3>3, <3>4
    <2>7. UNCHANGED AbstractSlot
      BY <2>1, AbstractIsSlotIn
    <2>8. AbstractHanded' = AbstractHanded \cup {<<u, a, AbstractSlot[<<u, a>>].channel>> : a \in A}
      BY <2>5, <2>6, AbstractIsSlotIn
    <2> HIDE DEF A
    <2>9. Queue!Hand(u)
      BY <2>4, <2>7, <2>8 DEF Queue!Hand
    <2> QED
      BY <2>1, <2>9 DEF Queue!Next, QueueMoves
  <1> QED
    BY <1>3, <1>4, <1>5 DEF PollStep

LEMMA CloseRefines ==
    ASSUME SerialPair, NEW r \in Reqs, CloseStep(r)
    PROVE  QueueMoves
  <1>0. TypeInv /\ Serves(req[r], lib, fetched) /\ Table(lib) /\ Table(lib')
    BY DEF SerialPair, SerialInv
  <1>1. req[r] # Idle /\ req[r].op = "close" /\ req[r] \in CloseReq
    BY <1>0, RequestTypes DEF CloseStep, CloseSelect, CloseDelete, At, TypeInv
  <1>2. CASE fetched' = fetched /\ lib' = lib
    BY <1>2, QueueStutters DEF QueueMoves
  <1>3. CASE CloseDelete(r) /\ lib' # lib
    <2> DEFINE u == req[r].user
    <2>1. /\ u \in Users /\ fetched' = fetched
          /\ \A i \in RowIds : lib'[i] = IF \E c \in req[r].todo : c.id = i THEN NoRow
                                        ELSE lib[i]
      BY <1>1, <1>3 DEF CloseDelete, Deleted, CloseReq
    <2>2. /\ \A i \in RowIds : lib[i] # NoRow /\ lib[i].user = u =>
                                 \E c \in req[r].todo : c.id = i
          /\ \A c \in req[r].todo : lib[c.id].user = u
      BY <1>0, <1>1, <1>3 DEF CloseDelete, At, Serves, CloseServes, Holds
    <2> HIDE DEF u
    <2>3. ASSUME NEW p \in Pairs
          PROVE  SlotIn(lib')[p] = IF p[1] = u THEN NoRow ELSE SlotIn(lib)[p]
      <3>1. CASE p[1] = u
        <4>1. RowsIn(lib', p) = {}
          BY <2>1, <2>2, <3>1 DEF RowsIn
        <4> QED
          BY <3>1, <4>1 DEF SlotIn
      <3>2. CASE p[1] # u
        <4>1. RowsIn(lib', p) = RowsIn(lib, p) /\ \A i \in RowsIn(lib, p) : lib'[i] = lib[i]
          BY <2>1, <2>2, <3>2 DEF RowsIn
        <4> DEFINE k == CHOOSE i \in RowsIn(lib, p) : TRUE
        <4>2. RowsIn(lib, p) # {} => k \in RowsIn(lib, p)
          OBVIOUS
        <4>3. /\ SlotIn(lib)[p] = IF RowsIn(lib, p) = {} THEN NoRow ELSE Entry(lib[k])
              /\ SlotIn(lib')[p] = IF RowsIn(lib, p) = {} THEN NoRow ELSE Entry(lib'[k])
          BY <4>1 DEF SlotIn
        <4> QED
          BY <3>2, <4>1, <4>2, <4>3
      <3> QED
        BY <3>1, <3>2
    <2>4. SlotIn(lib') = [p \in Pairs |-> IF p[1] = u THEN NoRow ELSE SlotIn(lib)[p]]
      <3>1. SlotIn(lib') = [p \in Pairs |-> SlotIn(lib')[p]]
        BY DEF SlotIn
      <3> QED
        BY <2>3, <3>1
    <2>5. UNCHANGED AbstractHanded
      BY <2>1, HandedKept
    <2>6. Queue!Close(u)
      BY <2>4, <2>5, AbstractIsSlotIn DEF Queue!Close, Pairs
    <2> QED
      BY <2>1, <2>6 DEF Queue!Next, QueueMoves
  <1> QED
    BY <1>2, <1>3 DEF CloseStep, CloseSelect, CloseDelete, StoreUnchanged

\* One request at a time, whatever the catalog does and whichever way the ids
\* are given, the table is an InstallQueue: the newest request of a user stands
\* until its own build is confirmed, it is given up, or it is withdrawn.
THEOREM RefinesQueue ==
    ASSUME OneRequest, ~ LegacyDaemon
    PROVE  Spec => ImplementsQueue
  <1>1. Init => Queue!Init
    <2> SUFFICES ASSUME Init PROVE Queue!Init
      OBVIOUS
    <2>1. \A p \in Pairs : RowsIn(lib, p) = {}
      BY DEF Init, RowsIn
    <2>2. SlotIn(lib) = [p \in Pairs |-> NoRow]
      BY <2>1 DEF SlotIn
    <2>3. HandedIn(fetched) = {}
      BY DEF Init, HandedIn
    <2> QED
      BY <2>2, <2>3, AbstractIsSlotIn DEF Queue!Init, Pairs
  <1>2. SerialInv /\ OneRowPerApp /\ SerialInv' /\ OneRowPerApp' /\ [Next]_vars => QueueMoves
    <2> SUFFICES ASSUME SerialInv, OneRowPerApp, SerialInv', OneRowPerApp', [Next]_vars
                 PROVE  QueueMoves
      OBVIOUS
    <2>1. SerialPair
      BY DEF SerialPair, SerialInv, TypeInv, TypeOK, OneRowPerApp, Table
    <2>2. ASSUME NEW r \in Reqs, NEW u \in Users
          PROVE  /\ \A a \in Apps, c \in Channels, x \in Arches :
                      BeginQueue(r, u, a, c, x) => QueueMoves
                 /\ \A a \in Apps : BeginRemove(r, u, a) => QueueMoves
                 /\ \A item \in Item, c \in Channels \cup {NoChannel} :
                      BeginConfirm(r, u, item, c) => QueueMoves
                 /\ BeginPoll(r, u) \/ BeginClose(r, u) => QueueMoves
      BY QueueStutters DEF BeginQueue, BeginRemove, BeginConfirm, BeginPoll, BeginClose,
         StoreUnchanged, QueueMoves
    <2>3. (CatalogStep \/ UNCHANGED vars) => QueueMoves
      BY QueueStutters DEF CatalogStep, Prune, Publish, vars, QueueMoves
    <2> QED
      BY <2>1, <2>2, <2>3, NextCases, QueueRefines, RemoveRefines, ConfirmRefines,
         PollRefines, CloseRefines
  <1> QED
    BY <1>1, <1>2, SerialInvariant, AtMostOneRow, PTL
       DEF Spec, ImplementsQueue, Queue!Spec, QueueMoves
=============================================================================
