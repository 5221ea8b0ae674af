---------------------------- MODULE AccountsProofs ----------------------------
(* Theorems about Accounts, for any number of emails, requests and accounts. *)
EXTENDS MCAccounts, FiniteSetTheorems, TLAPS

\* A request that holds the row of an account.
Holding(r) == \E pc \in {"refresh", "admins", "demote", "mint", "write"} : At(r, pc)

\* The types, with what the sessions guarantee: a request past its load holds a
\* row, and one that will bump a version was let in below the bound.
TypeInv ==
    /\ TypeOK
    /\ \A r \in Reqs : Holding(r) => req[r].copy \in Copy
    /\ \A r \in Reqs : At(r, "write") /\ req[r].op # "delete"
                         => req[r].copy.user.ver < MaxVersion

\* At one place of a handler the request is of one record type.
LEMMA RequestTypes ==
    ASSUME TypeOK, NEW r \in Reqs, req[r] # NoReq
    PROVE  /\ req[r] \in Request
           /\ req[r].pc \in {"check", "first", "insert", "admins", "demote"}
                => req[r] \in Register
           /\ req[r].op = "register" => req[r] \in Register
           /\ req[r].op # "register" => req[r] \in Login
           /\ req[r].pc = "write" => req[r] \in Login
  BY DEF TypeOK, Request, Register, Login

LEMMA Loads ==
    ASSUME TypeOK, NEW i \in Used
    PROVE  i \in Ids /\ users[i] \in User /\ Load(i) \in Copy
  BY DEF TypeOK, Used, Load, Copy

\* The types and what is held, when a step writes one request.
LEMMA RequestStep ==
    ASSUME TypeInv, NEW r \in Reqs, NEW q \in Request \cup {NoReq}, Goto(r, q),
           users' \in [Ids -> User \cup {NoUser}], born' \in 0 .. MaxUsers,
           tokens' \subseteq Token,
           q # NoReq /\ q.pc \in {"refresh", "admins", "demote", "mint", "write"}
             => q.copy \in Copy,
           q # NoReq /\ q.pc = "write" /\ q.op # "delete" => q.copy.user.ver < MaxVersion
    PROVE  TypeInv'
  BY DEF TypeInv, TypeOK, Goto, At, Holding

LEMMA ReplyStep ==
    ASSUME TypeInv, NEW r \in Reqs, Reply(r),
           users' \in [Ids -> User \cup {NoUser}], born' \in 0 .. MaxUsers,
           tokens' \subseteq Token
    PROVE  TypeInv'
  BY RequestStep DEF Reply

LEMMA TypeInvBegin ==
    ASSUME TypeInv, NEW r \in Reqs
    PROVE  /\ \A email \in Emails : BeginRegister(r, email) => TypeInv'
           /\ \A i \in Ids : BeginLogin(r, i) => TypeInv'
           /\ \A op \in {"change", "logout", "delete"}, tok \in tokens :
                BeginAuthorized(r, op, tok) => TypeInv'
  <1> TypeOK
    BY DEF TypeInv
  <1>1. ASSUME NEW email \in Emails, BeginRegister(r, email) PROVE TypeInv'
    <2> DEFINE q == [op |-> "register", pc |-> "check", email |-> email,
                     admin |-> FALSE, admins |-> {}, copy |-> NoUser]
    <2>1. q \in Request
      BY DEF Request, Register
    <2> QED
      BY <1>1, <2>1, RequestStep DEF BeginRegister, TypeOK
  <1>2. ASSUME NEW i \in Ids, BeginLogin(r, i) PROVE TypeInv'
    <2> DEFINE q == [op |-> "login", pc |-> "mint", copy |-> Load(i)]
    <2>1. Load(i) \in Copy /\ Goto(r, q)
      BY <1>2, Loads DEF BeginLogin
    <2>2. q \in Request
      BY <2>1 DEF Request, Login
    <2> QED
      BY <1>2, <2>1, <2>2, RequestStep DEF BeginLogin, TypeOK
  <1>3. ASSUME NEW op \in {"change", "logout", "delete"}, NEW tok \in tokens,
               BeginAuthorized(r, op, tok)
        PROVE  TypeInv'
    <2> DEFINE q == [op |-> op, pc |-> "write", copy |-> Load(tok.id)]
    <2>1. Load(tok.id) \in Copy /\ Goto(r, q)
      BY <1>3, Loads DEF BeginAuthorized, Accepted
    <2>2. q \in Request
      BY <2>1 DEF Request, Login
    <2>3. q.op # "delete" => q.copy.user.ver < MaxVersion
      BY <1>3 DEF BeginAuthorized, Accepted, Load
    <2> QED
      BY <1>3, <2>1, <2>2, <2>3, RequestStep DEF BeginAuthorized, TypeOK
  <1> QED
    BY <1>1, <1>2, <1>3

LEMMA TypeInvRegister ==
    ASSUME TypeInv, NEW r \in Reqs, RegisterStep(r)
    PROVE  TypeInv'
  <1> DEFINE q == req[r]
  <1> TypeOK
    BY DEF TypeInv
  <1>1. CASE RegisterCheck(r)
    <2>1. q \in Register
      BY <1>1, RequestTypes DEF RegisterCheck, At
    <2>2. [q EXCEPT !.pc = "first"] \in Request
      BY <2>1 DEF Request, Register
    <2> QED
      BY <1>1, <2>1, <2>2, RequestStep, ReplyStep DEF RegisterCheck, TypeOK, Register
  <1>2. CASE RegisterFirst(r)
    <2>1. q \in Register
      BY <1>2, RequestTypes DEF RegisterFirst, At
    <2> DEFINE p == [q EXCEPT !.pc = "insert", !.admin = Bootstrap /\ Used = {}]
    <2>2. (Bootstrap /\ Used = {}) \in BOOLEAN
      OBVIOUS
    <2>3. p \in Request /\ p.pc = "insert"
      BY <2>1, <2>2 DEF Request, Register
    <2> QED
      BY <1>2, <2>3, RequestStep DEF RegisterFirst, TypeOK
  <1>3. CASE RegisterInsert(r)
    <2>1. q \in Register
      BY <1>3, RequestTypes DEF RegisterInsert, At
    <2>2. NewUser(q) \in User
      BY <1>3, <2>1, BoundAssumption
      DEF RegisterInsert, NewUser, User, Register, Versions, Ids, TypeOK
    <2>3. PICK i \in NewIds :
            /\ users' = [users EXCEPT ![i] = NewUser(q)]
            /\ Goto(r, [q EXCEPT !.pc = "refresh", !.copy = [id |-> i, user |-> NewUser(q)]])
      BY <1>3 DEF RegisterInsert
    <2>4. i \in Ids
      BY <1>3, <2>3, BoundAssumption DEF RegisterInsert, NewIds, Rowids, Ids, TypeOK
    <2> DEFINE p == [q EXCEPT !.pc = "refresh", !.copy = [id |-> i, user |-> NewUser(q)]]
    <2>5. p \in Request /\ p.copy \in Copy /\ p.pc = "refresh"
      BY <2>1, <2>2, <2>4 DEF Request, Register, Copy
    <2>6. users' \in [Ids -> User \cup {NoUser}]
      BY <2>2, <2>3, <2>4 DEF TypeOK
    <2>7. born' \in 0 .. MaxUsers /\ tokens' \subseteq Token
      BY <1>3, BoundAssumption DEF RegisterInsert, TypeOK
    <2> QED
      BY <2>3, <2>5, <2>6, <2>7, RequestStep
  <1>4. CASE RegisterConflict(r)
    BY <1>4, ReplyStep DEF RegisterConflict, TypeOK
  <1>5. CASE RegisterAdmins(r)
    <2>1. q \in Register /\ q.copy \in Copy
      BY <1>5, RequestTypes DEF RegisterAdmins, At, TypeInv, Holding
    <2> DEFINE p == [q EXCEPT !.admins = Extra,
                              !.pc = IF Extra = {} THEN "mint" ELSE "demote"]
    <2>2. Extra \in SUBSET Ids
      BY DEF Extra, Admins, Used
    <2>3. p \in Request /\ p.copy \in Copy /\ p.pc # "write"
      BY <2>1, <2>2 DEF Request, Register
    <2> QED
      BY <1>5, <2>3, RequestStep DEF RegisterAdmins, TypeOK
  <1>6. CASE RegisterDemote(r)
    <2>1. q \in Register /\ q.copy \in Copy
      BY <1>6, RequestTypes DEF RegisterDemote, At, TypeInv, Holding
    <2> DEFINE p == [q EXCEPT !.pc = "refresh", !.admin = FALSE, !.admins = {}]
    <2>2. p \in Request /\ p.copy \in Copy /\ p.pc # "write"
      BY <2>1 DEF Request, Register
    <2>3. CASE q.admins \subseteq Used
      <3>1. users' = [i \in Ids |-> IF i \in q.admins
                                    THEN [users[i] EXCEPT !.admin = FALSE] ELSE users[i]]
        BY <1>6, <2>3 DEF RegisterDemote
      <3>2. \A i \in q.admins : [users[i] EXCEPT !.admin = FALSE] \in User
        BY <2>3, Loads DEF User
      <3>3. users' \in [Ids -> User \cup {NoUser}]
        BY <3>1, <3>2 DEF TypeOK
      <3> QED
        BY <1>6, <2>2, <2>3, <3>3, RequestStep DEF RegisterDemote, TypeOK
    <2>4. CASE ~ (q.admins \subseteq Used)
      BY <1>6, <2>4, ReplyStep DEF RegisterDemote, TypeOK
    <2> QED
      BY <2>3, <2>4
  <1> QED
    BY <1>1, <1>2, <1>3, <1>4, <1>5, <1>6 DEF RegisterStep

LEMMA TypeInvAccount ==
    ASSUME TypeInv, NEW r \in Reqs, AccountStep(r)
    PROVE  TypeInv'
  <1> DEFINE q == req[r]
  <1> TypeOK
    BY DEF TypeInv
  <1>1. CASE Refresh(r)
    <2>1. q \in Request /\ q.pc = "refresh"
      BY <1>1, RequestTypes DEF Refresh, At
    <2>2. CASE q.copy.id \notin Used
      BY <1>1, <2>2, ReplyStep DEF Refresh, TypeOK
    <2>3. CASE q.copy.id \in Used
      <3> DEFINE t == IF q.op = "register" /\ q.admin THEN "admins" ELSE "mint"
                 p == [q EXCEPT !.copy = Load(q.copy.id), !.pc = t]
      <3>1. Load(q.copy.id) \in Copy
        BY <2>3, Loads
      <3>2. q \in Register \/ (q \in Login /\ t = "mint")
        BY <2>1 DEF Request, Login
      <3>3. p \in Request /\ p.copy \in Copy /\ p.pc # "write"
        BY <3>1, <3>2 DEF Request, Register, Login
      <3> QED
        BY <1>1, <2>3, <3>3, RequestStep DEF Refresh, TypeOK
    <2> QED
      BY <2>2, <2>3
  <1>2. CASE Mint(r)
    <2>1. q.copy \in Copy
      BY <1>2 DEF Mint, At, TypeInv, Holding
    <2>2. tokens' \subseteq Token
      BY <1>2, <2>1 DEF Mint, Minted, TypeOK, Token, Copy, User
    <2> QED
      BY <1>2, <2>2, ReplyStep DEF Mint, TypeOK
  <1>3. CASE Bump(r)
    <2>1. q \in Login /\ q.copy \in Copy /\ q.copy.user.ver < MaxVersion
      BY <1>3, RequestTypes DEF Bump, At, TypeInv, Holding
    <2>2. q.copy.user.ver + 1 \in Versions
      BY <2>1, BoundAssumption DEF Copy, User, Versions
    <2>3. [users[q.copy.id] EXCEPT !.ver = q.copy.user.ver + 1] \in User
      BY <1>3, <2>2, Loads DEF Bump, User
    <2>4. users' \in [Ids -> User \cup {NoUser}]
      BY <1>3, <2>3 DEF Bump, Bumped, TypeOK
    <2> DEFINE p == [q EXCEPT !.pc = "refresh"]
    <2>5. p \in Request /\ p.copy \in Copy /\ p.pc # "write"
      BY <2>1 DEF Request, Login
    <2> QED
      BY <1>3, <2>4, <2>5, RequestStep, ReplyStep DEF Bump, TypeOK
  <1>4. CASE BumpNoOne(r)
    BY <1>4, ReplyStep DEF BumpNoOne, TypeOK
  <1>5. CASE Erase(r)
    BY <1>5, ReplyStep DEF Erase, TypeOK
  <1>6. CASE CommitFails(r)
    BY <1>6, ReplyStep DEF CommitFails, TypeOK
  <1> QED
    BY <1>1, <1>2, <1>3, <1>4, <1>5, <1>6 DEF AccountStep

LEMMA TypeInvNext ==
    ASSUME TypeInv, [Next]_vars
    PROVE  TypeInv'
  <1>1. CASE \E r \in Reqs : RegisterStep(r)
    BY <1>1, TypeInvRegister
  <1>2. CASE \E r \in Reqs : AccountStep(r)
    BY <1>2, TypeInvAccount
  <1>3. CASE Sessions \/ \E r \in Reqs, email \in Emails : BeginRegister(r, email)
    BY <1>3, TypeInvBegin DEF Sessions
  <1>4. CASE \E tok \in tokens : Expire(tok)
    BY <1>4 DEF Expire, TypeInv, TypeOK, At, Holding
  <1>5. CASE UNCHANGED vars
    BY <1>5 DEF vars, TypeInv, TypeOK, At, Holding
  <1> QED
    BY <1>1, <1>2, <1>3, <1>4, <1>5 DEF Next, Registers

LEMMA TypeInvInit ==
    ASSUME Init
    PROVE  TypeInv
  BY BoundAssumption DEF Init, TypeInv, TypeOK, At, Holding

\* Every variable keeps its type (app/models.py User, and the handlers' locals).
THEOREM TypeCorrect == Spec => []TypeOK
  <1>1. TypeInv => TypeOK
    BY DEF TypeInv
  <1> QED
    BY <1>1, TypeInvInit, TypeInvNext, PTL DEF Spec

-----------------------------------------------------------------------------
\* One account per email: the check before the insert may be stale, the unique
\* index decides (register, app/models.py User.email).
LEMMA OneUserPerEmailNext ==
    ASSUME TypeInv, OneUserPerEmail, [Next]_vars
    PROVE  OneUserPerEmail'
  <1> TypeOK
    BY DEF TypeInv
  <1>1. ASSUME \A i \in Used' : i \in Used /\ users'[i].email = users[i].email
        PROVE  OneUserPerEmail'
    BY <1>1 DEF OneUserPerEmail
  <1>2. ASSUME UNCHANGED users PROVE OneUserPerEmail'
    BY <1>1, <1>2 DEF Used
  <1>3. ASSUME NEW r \in Reqs, RegisterInsert(r) PROVE OneUserPerEmail'
    <2>1. PICK i \in NewIds : users' = [users EXCEPT ![i] = NewUser(req[r])]
      BY <1>3 DEF RegisterInsert
    <2>2. \A j \in Used' : j = i \/ (j \in Used /\ users'[j] = users[j])
      BY <2>1 DEF Used, TypeOK
    <2>3. i \in Used' => users'[i].email = req[r].email
      BY <2>1 DEF Used, NewUser, TypeOK
    <2> QED
      BY <1>3, <2>2, <2>3 DEF RegisterInsert, EmailFree, OneUserPerEmail
  <1>4. ASSUME NEW r \in Reqs, RegisterDemote(r) PROVE OneUserPerEmail'
    <2>1. CASE req[r].admins \subseteq Used
      <3>1. users' = [i \in Ids |-> IF i \in req[r].admins
                                    THEN [users[i] EXCEPT !.admin = FALSE] ELSE users[i]]
        BY <1>4, <2>1 DEF RegisterDemote
      <3>2. \A i \in Used' : i \in Used
        BY <2>1, <3>1 DEF Used
      <3>3. \A i \in Used : users'[i].email = users[i].email
        BY <3>1, Loads DEF User
      <3> QED
        BY <1>1, <3>2, <3>3
    <2> QED
      BY <1>2, <1>4, <2>1 DEF RegisterDemote
  <1>5. ASSUME NEW r \in Reqs, Bump(r) PROVE OneUserPerEmail'
    <2>1. users[req[r].copy.id] \in User
      BY <1>5, Loads DEF Bump
    <2>2. \A i \in Used' : i \in Used /\ users'[i].email = users[i].email
      BY <1>5, <2>1 DEF Bump, Bumped, Used, User, TypeOK
    <2> QED
      BY <1>1, <2>2
  <1>6. ASSUME NEW r \in Reqs, Erase(r) PROVE OneUserPerEmail'
    BY <1>1, <1>6 DEF Erase, Used, TypeOK
  <1>7. ASSUME NEW r \in Reqs, RegisterStep(r) \/ AccountStep(r) PROVE OneUserPerEmail'
    BY <1>2, <1>3, <1>4, <1>5, <1>6, <1>7
    DEF RegisterStep, AccountStep, RegisterCheck, RegisterFirst, RegisterConflict,
        RegisterAdmins, Refresh, Mint, BumpNoOne, CommitFails
  <1>8. CASE Sessions \/ (\E r \in Reqs, email \in Emails : BeginRegister(r, email))
             \/ (\E tok \in tokens : Expire(tok)) \/ UNCHANGED vars
    BY <1>2, <1>8 DEF Sessions, BeginRegister, BeginLogin, BeginAuthorized, Expire, vars
  <1> QED
    BY <1>7, <1>8 DEF Next, Registers

\* However registrations overlap, no two accounts have one email.
THEOREM UniqueEmail == Spec => []OneUserPerEmail
  <1>1. Init => OneUserPerEmail
    BY DEF Init, OneUserPerEmail, Used
  <1> QED
    BY <1>1, TypeInvInit, TypeInvNext, OneUserPerEmailNext, PTL DEF Spec

-----------------------------------------------------------------------------
\* With ids that are given once, an account, its tokens and the rows sessions
\* hold of it all carry the number of its registration.
OwnInv ==
    /\ TypeInv
    /\ \A i \in Used : users[i].acct = i
    /\ \A tok \in tokens : tok.acct = tok.id
    /\ \A r \in Reqs : Holding(r) => req[r].copy.user.acct = req[r].copy.id

\* A step that hands out no token, and gives one request a row of its account.
LEMMA OwnStep ==
    ASSUME OwnInv, TypeInv', NEW r \in Reqs, NEW q, Goto(r, q),
           \A i \in Used' : users'[i].acct = i,
           \A tok \in tokens' : tok.acct = tok.id,
           q # NoReq /\ q.pc \in {"refresh", "admins", "demote", "mint", "write"}
             => q.copy.user.acct = q.copy.id
    PROVE  OwnInv'
  BY DEF OwnInv, TypeInv, TypeOK, Goto, At, Holding

LEMMA OwnReply ==
    ASSUME OwnInv, TypeInv', NEW r \in Reqs, Reply(r),
           \A i \in Used' : users'[i].acct = i,
           \A tok \in tokens' : tok.acct = tok.id
    PROVE  OwnInv'
  BY OwnStep DEF Reply

LEMMA OwnRegister ==
    ASSUME OwnInv, TypeInv', ~ IdReuse, NEW r \in Reqs, RegisterStep(r)
    PROVE  OwnInv'
  <1> DEFINE q == req[r]
  <1> TypeInv /\ TypeOK
    BY DEF OwnInv, TypeInv
  <1>0. ASSUME UNCHANGED users PROVE \A i \in Used' : users'[i].acct = i
    BY <1>0 DEF OwnInv, Used
  <1>1. CASE RegisterCheck(r)
    <2>1. q \in Register
      BY <1>1, RequestTypes DEF RegisterCheck, At
    <2> QED
      BY <1>0, <1>1, <2>1, OwnStep, OwnReply DEF RegisterCheck, OwnInv, Register
  <1>2. CASE RegisterFirst(r)
    <2>1. q \in Register
      BY <1>2, RequestTypes DEF RegisterFirst, At
    <2> DEFINE p == [q EXCEPT !.pc = "insert", !.admin = Bootstrap /\ Used = {}]
    <2>2. p.pc = "insert"
      BY <2>1 DEF Register
    <2> QED
      BY <1>0, <1>2, <2>2, OwnStep DEF RegisterFirst, OwnInv
  <1>3. CASE RegisterInsert(r)
    <2>1. q \in Register
      BY <1>3, RequestTypes DEF RegisterInsert, At
    <2> DEFINE i == born + 1
               p == [q EXCEPT !.pc = "refresh", !.copy = [id |-> i, user |-> NewUser(q)]]
    <2>2. users' = [users EXCEPT ![i] = NewUser(q)] /\ Goto(r, p)
      BY <1>3 DEF RegisterInsert, NewIds
    <2>3. NewUser(q).acct = i
      BY DEF NewUser
    <2>4. \A j \in Used' : users'[j].acct = j
      BY <2>2, <2>3 DEF OwnInv, Used, TypeOK
    <2>5. p.copy.user.acct = p.copy.id
      BY <2>1, <2>3 DEF Register
    <2> QED
      BY <1>3, <2>2, <2>4, <2>5, OwnStep DEF RegisterInsert, OwnInv
  <1>4. CASE RegisterConflict(r)
    BY <1>0, <1>4, OwnReply DEF RegisterConflict, OwnInv
  <1>5. CASE RegisterAdmins(r)
    <2>1. q \in Register /\ q.copy.user.acct = q.copy.id
      BY <1>5, RequestTypes DEF RegisterAdmins, At, OwnInv, Holding
    <2> DEFINE p == [q EXCEPT !.admins = Extra,
                              !.pc = IF Extra = {} THEN "mint" ELSE "demote"]
    <2>2. p.copy.user.acct = p.copy.id
      BY <2>1 DEF Register
    <2>3. Goto(r, p) /\ tokens' = tokens /\ users' = users
      BY <1>5 DEF RegisterAdmins
    <2> HIDE DEF p
    <2> QED
      BY <1>0, <2>2, <2>3, OwnStep DEF OwnInv
  <1>6. CASE RegisterDemote(r)
    <2>1. q \in Register /\ q.copy.user.acct = q.copy.id
      BY <1>6, RequestTypes DEF RegisterDemote, At, OwnInv, Holding
    <2> DEFINE p == [q EXCEPT !.pc = "refresh", !.admin = FALSE, !.admins = {}]
    <2>2. p.copy.user.acct = p.copy.id
      BY <2>1 DEF Register
    <2>3. CASE q.admins \subseteq Used
      <3>1. users' = [i \in Ids |-> IF i \in q.admins
                                    THEN [users[i] EXCEPT !.admin = FALSE] ELSE users[i]]
        BY <1>6, <2>3 DEF RegisterDemote
      <3>2. \A i \in Used' : i \in Used
        BY <2>3, <3>1 DEF Used
      <3>3. \A i \in Used : users'[i].acct = users[i].acct
        BY <3>1, Loads DEF User
      <3>4. Goto(r, p) /\ tokens' = tokens
        BY <1>6, <2>3 DEF RegisterDemote
      <3> HIDE DEF p
      <3> QED
        BY <2>2, <3>2, <3>3, <3>4, OwnStep DEF OwnInv
    <2>4. CASE ~ (q.admins \subseteq Used)
      BY <1>0, <1>6, <2>4, OwnReply DEF RegisterDemote, OwnInv
    <2> QED
      BY <2>3, <2>4
  <1> QED
    BY <1>1, <1>2, <1>3, <1>4, <1>5, <1>6 DEF RegisterStep

LEMMA OwnAccount ==
    ASSUME OwnInv, TypeInv', NEW r \in Reqs, AccountStep(r)
    PROVE  OwnInv'
  <1> DEFINE q == req[r]
  <1> TypeInv /\ TypeOK
    BY DEF OwnInv, TypeInv
  <1>0. ASSUME UNCHANGED users PROVE \A i \in Used' : users'[i].acct = i
    BY <1>0 DEF OwnInv, Used
  <1>1. CASE Refresh(r)
    <2>1. q \in Request /\ q.pc = "refresh"
      BY <1>1, RequestTypes DEF Refresh, At
    <2>2. CASE q.copy.id \notin Used
      BY <1>0, <1>1, <2>2, OwnReply DEF Refresh, OwnInv
    <2>3. CASE q.copy.id \in Used
      <3> DEFINE t == IF q.op = "register" /\ q.admin THEN "admins" ELSE "mint"
                 p == [q EXCEPT !.copy = Load(q.copy.id), !.pc = t]
      <3>1. p.copy = Load(q.copy.id)
        BY <2>1 DEF Request, Register, Login
      <3>2. p.copy.user.acct = p.copy.id
        BY <2>3, <3>1 DEF Load, OwnInv
      <3>3. Goto(r, p) /\ tokens' = tokens /\ users' = users
        BY <1>1, <2>3 DEF Refresh
      <3> HIDE DEF p
      <3> QED
        BY <1>0, <3>2, <3>3, OwnStep DEF OwnInv
    <2> QED
      BY <2>2, <2>3
  <1>2. CASE Mint(r)
    <2>1. q.copy.user.acct = q.copy.id
      BY <1>2 DEF Mint, At, OwnInv, Holding
    <2>2. \A tok \in tokens' : tok.acct = tok.id
      BY <1>2, <2>1 DEF Mint, Minted, OwnInv
    <2> QED
      BY <1>0, <1>2, <2>2, OwnReply DEF Mint
  <1>3. CASE Bump(r)
    <2>1. q \in Login /\ q.copy.user.acct = q.copy.id
      BY <1>3, RequestTypes DEF Bump, At, OwnInv, Holding
    <2>2. users[q.copy.id] \in User
      BY <1>3, Loads DEF Bump
    <2>3. \A i \in Used' : i \in Used /\ users'[i].acct = users[i].acct
      BY <1>3, <2>2 DEF Bump, Bumped, Used, User, TypeOK
    <2> DEFINE p == [q EXCEPT !.pc = "refresh"]
    <2>4. p.copy.user.acct = p.copy.id
      BY <2>1 DEF Login
    <2>5. (Goto(r, p) \/ Reply(r)) /\ tokens' = tokens
      BY <1>3 DEF Bump
    <2> HIDE DEF p
    <2> QED
      BY <2>3, <2>4, <2>5, OwnStep, OwnReply DEF OwnInv
  <1>4. CASE BumpNoOne(r)
    BY <1>0, <1>4, OwnReply DEF BumpNoOne, OwnInv
  <1>5. CASE Erase(r)
    <2>1. \A i \in Used' : i \in Used /\ users'[i] = users[i]
      BY <1>5 DEF Erase, Used, TypeOK
    <2> QED
      BY <1>5, <2>1, OwnReply DEF Erase, OwnInv
  <1>6. CASE CommitFails(r)
    BY <1>0, <1>6, OwnReply DEF CommitFails, OwnInv
  <1> QED
    BY <1>1, <1>2, <1>3, <1>4, <1>5, <1>6 DEF AccountStep

LEMMA OwnNext ==
    ASSUME OwnInv, ~ IdReuse, [Next]_vars
    PROVE  OwnInv'
  <1> TypeInv /\ TypeOK /\ TypeInv'
    BY TypeInvNext DEF OwnInv, TypeInv
  <1>0. ASSUME UNCHANGED users PROVE \A i \in Used' : users'[i].acct = i
    BY <1>0 DEF OwnInv, Used
  <1>1. ASSUME NEW r \in Reqs, RegisterStep(r) \/ AccountStep(r) PROVE OwnInv'
    BY <1>1, OwnRegister, OwnAccount
  <1>2. ASSUME NEW r \in Reqs, NEW email \in Emails, BeginRegister(r, email) PROVE OwnInv'
    BY <1>0, <1>2, OwnStep DEF BeginRegister, OwnInv
  <1>3. ASSUME NEW r \in Reqs, NEW i \in Ids, BeginLogin(r, i) PROVE OwnInv'
    BY <1>0, <1>3, OwnStep DEF BeginLogin, Load, OwnInv
  <1>4. ASSUME NEW r \in Reqs, NEW op \in {"change", "logout", "delete"},
               NEW tok \in tokens, BeginAuthorized(r, op, tok)
        PROVE  OwnInv'
    BY <1>0, <1>4, OwnStep DEF BeginAuthorized, Accepted, Load, OwnInv
  <1>5. CASE (\E tok \in tokens : Expire(tok)) \/ UNCHANGED vars
    BY <1>0, <1>5 DEF Expire, vars, OwnInv, At, Holding
  <1> QED
    BY <1>1, <1>2, <1>3, <1>4, <1>5 DEF Next, Registers, Sessions

LEMMA OwnInit ==
    ASSUME Init
    PROVE  OwnInv
  BY TypeInvInit DEF Init, OwnInv, Used, At, Holding

\* With ids from a sequence a token opens the account it was minted for, through
\* every erasure and new registration (current_user).
THEOREM TokensStayTheirs == ASSUME ~ IdReuse PROVE Spec => []TokenOpensOwn
  <1>1. OwnInv => TokenOpensOwn
    BY DEF OwnInv, TokenOpensOwn, Accepted
  <1>2. OwnInv /\ [Next]_vars => OwnInv'
    BY OwnNext
  <1> QED
    BY <1>1, <1>2, OwnInit, PTL DEF Spec

\* A step of a request that is about to write, and that changes the table, is its
\* own write.
LEMMA WriterMoves ==
    ASSUME Next, NEW r \in Reqs, At(r, "write"), req'[r] # req[r], users' # users
    PROVE  Bump(r) \/ Erase(r)
  <1>1. ASSUME NEW p \in Reqs, RegisterStep(p) \/ AccountStep(p)
        PROVE  Bump(r) \/ Erase(r)
    <2>1. \A q : Goto(p, q) => p = r
      BY DEF Goto
    <2> QED
      BY <1>1, <2>1 DEF RegisterStep, AccountStep, RegisterCheck, RegisterFirst, RegisterInsert,
         RegisterConflict, RegisterAdmins, RegisterDemote, Refresh, Mint, Bump, BumpNoOne, Erase,
         CommitFails, Reply, Goto, At
  <1>2. ASSUME NEW p \in Reqs, NEW email \in Emails, BeginRegister(p, email) PROVE FALSE
    BY <1>2 DEF BeginRegister
  <1>3. ASSUME Sessions PROVE FALSE
    BY <1>3 DEF Sessions, BeginLogin, BeginAuthorized
  <1>4. ASSUME NEW tok \in tokens, Expire(tok) PROVE FALSE
    BY <1>4 DEF Expire
  <1> QED
    BY <1>1, <1>2, <1>3, <1>4 DEF Next, Registers

\* With ids from a sequence no request writes to, or erases, an account that it
\* did not load (change_password, logout, delete_account).
THEOREM WritesStayTheirs == ASSUME ~ IdReuse PROVE Spec => WritesOwn
  <1> DEFINE Own == \A r \in Reqs, i \in Ids :
                      At(r, "write") /\ req'[r] # req[r] /\ users'[i] # users[i]
                        => i = req[r].copy.id /\ users[i].acct = req[r].copy.user.acct
  <1>1. ASSUME OwnInv, Next PROVE Own
    <2> SUFFICES ASSUME NEW r \in Reqs, NEW i \in Ids, At(r, "write"), req'[r] # req[r],
                        users'[i] # users[i]
                 PROVE  i = req[r].copy.id /\ users[i].acct = req[r].copy.user.acct
      OBVIOUS
    <2>1. req[r].copy.user.acct = req[r].copy.id /\ (i \in Used => users[i].acct = i)
      BY <1>1 DEF OwnInv, At, Holding
    <2>2. users[i] # NoUser => i \in Used
      BY DEF Used
    <2>3. Bump(r) \/ Erase(r)
      BY <1>1, WriterMoves
    <2>4. i = req[r].copy.id /\ users[i] # NoUser
      <3>1. CASE Bump(r)
        BY <1>1, <3>1 DEF Bump, Bumped, Used, OwnInv, TypeInv, TypeOK
      <3>2. CASE Erase(r)
        BY <1>1, <3>2 DEF Erase, OwnInv, TypeInv, TypeOK
      <3> QED
        BY <2>3, <3>1, <3>2
    <2> QED
      BY <2>1, <2>2, <2>4
  <1>2. OwnInv /\ [Next]_vars => OwnInv' /\ [Own]_vars
    BY <1>1, OwnNext
  <1>3. Spec => [][Own]_vars
    BY <1>2, OwnInit, PTL DEF Spec
  <1> QED
    BY <1>3 DEF WritesOwn

-----------------------------------------------------------------------------
\* What a step does to the table: it keeps the version of an account, raises it by
\* the write of a request, or adds an account with the next number.
Keeps(i)     == i \in Used /\ users'[i].ver = users[i].ver
Raises(r, i) == Bump(r) /\ i = req[r].copy.id /\ users'[i].ver = req[r].copy.user.ver + 1
Arrives(i)   == i = born + 1 /\ born' = born + 1

LEMMA BumpRaises ==
    ASSUME TypeInv, NEW r \in Reqs, Bump(r)
    PROVE  /\ req[r].copy \in Copy /\ req[r].copy.user.ver + 1 \in Versions
           /\ Raises(r, req[r].copy.id)
           /\ Used' = Used /\ \A i \in Used \ {req[r].copy.id} : users'[i] = users[i]
  <1> DEFINE c == req[r].copy
             new == [users[c.id] EXCEPT !.ver = c.user.ver + 1]
  <1>1. c \in Copy /\ c.user.ver < MaxVersion /\ c.id \in Used
    BY DEF Bump, At, TypeInv, Holding
  <1>2. c.user.ver + 1 \in Versions
    BY <1>1, BoundAssumption DEF Copy, User, Versions
  <1>3. users[c.id] \in User
    BY <1>1, Loads DEF TypeInv
  <1>4. new \in User /\ new.ver = c.user.ver + 1
    BY <1>2, <1>3 DEF User
  <1>5. users' = [users EXCEPT ![c.id] = new]
    BY DEF Bump, Bumped
  <1> HIDE DEF new
  <1>6. users'[c.id] = new /\ \A i \in Ids \ {c.id} : users'[i] = users[i]
    BY <1>1, <1>5 DEF TypeInv, TypeOK, Used
  <1>7. new # NoUser
    BY <1>4, NullAssumption
  <1> QED
    BY <1>1, <1>2, <1>4, <1>6, <1>7 DEF Raises, Used

LEMMA TableStep ==
    ASSUME TypeInv, ~ IdReuse, [Next]_vars
    PROVE  /\ born' \in Nat /\ born <= born'
           /\ \A i \in Used' : Keeps(i) \/ Arrives(i) \/ \E r \in Reqs : Raises(r, i)
  <1> TypeOK /\ born \in Nat
    BY BoundAssumption DEF TypeInv, TypeOK
  <1>1. ASSUME UNCHANGED <<users, born>>
        PROVE  born' = born /\ \A i \in Used' : Keeps(i)
    BY <1>1 DEF Used, Keeps
  <1>2. ASSUME NEW r \in Reqs, RegisterInsert(r)
        PROVE  born' = born + 1 /\ \A i \in Used' : Keeps(i) \/ Arrives(i)
    <2>1. users' = [users EXCEPT ![born + 1] = NewUser(req[r])] /\ born' = born + 1
      BY <1>2 DEF RegisterInsert, NewIds
    <2>2. \A i \in Ids \ {born + 1} : users'[i] = users[i]
      BY <2>1 DEF TypeOK
    <2> QED
      BY <2>1, <2>2 DEF Used, Keeps, Arrives
  <1>3. ASSUME NEW r \in Reqs, RegisterDemote(r)
        PROVE  born' = born /\ \A i \in Used' : Keeps(i)
    <2>1. CASE req[r].admins \subseteq Used
      <3>1. /\ users' = [i \in Ids |-> IF i \in req[r].admins
                                       THEN [users[i] EXCEPT !.admin = FALSE] ELSE users[i]]
            /\ born' = born
        BY <1>3, <2>1 DEF RegisterDemote
      <3>2. \A i \in Used' : i \in Used
        BY <2>1, <3>1 DEF Used
      <3>3. \A i \in Used : users'[i].ver = users[i].ver
        BY <3>1, Loads DEF User
      <3> QED
        BY <3>1, <3>2, <3>3 DEF Keeps
    <2> QED
      BY <1>1, <1>3, <2>1 DEF RegisterDemote
  <1>4. ASSUME NEW r \in Reqs, Bump(r)
        PROVE  born' = born /\ \A i \in Used' : Keeps(i) \/ Raises(r, i)
    BY <1>4, BumpRaises DEF Bump, Keeps
  <1>5. ASSUME NEW r \in Reqs, Erase(r) PROVE born' = born /\ \A i \in Used' : Keeps(i)
    BY <1>5 DEF Erase, Used, Keeps, TypeOK
  <1>6. ASSUME NEW r \in Reqs, RegisterStep(r) \/ AccountStep(r)
        PROVE  /\ born' = born \/ born' = born + 1
               /\ \A i \in Used' : Keeps(i) \/ Arrives(i) \/ Raises(r, i)
    BY <1>1, <1>2, <1>3, <1>4, <1>5, <1>6
    DEF RegisterStep, AccountStep, RegisterCheck, RegisterFirst, RegisterConflict,
        RegisterAdmins, Refresh, Mint, BumpNoOne, CommitFails
  <1>7. CASE Sessions \/ (\E r \in Reqs, email \in Emails : BeginRegister(r, email))
             \/ (\E tok \in tokens : Expire(tok)) \/ UNCHANGED vars
    <2>1. UNCHANGED <<users, born>>
      BY <1>7 DEF Sessions, BeginRegister, BeginLogin, BeginAuthorized, Expire, vars
    <2>2. born' = born /\ \A i \in Used' : Keeps(i)
      BY <1>1, <2>1
    <2> QED
      BY <2>2
  <1> QED
    BY <1>6, <1>7 DEF Next, Registers

\* What a step hands out is the version a session holds, and the table stands still.
LEMMA TokenStep ==
    ASSUME [Next]_vars, NEW tok \in tokens'
    PROVE  \/ tok \in tokens
           \/ /\ UNCHANGED <<users, born>>
              /\ \E r \in Reqs : At(r, "mint") /\ tok = Minted(req[r].copy)
  <1>1. ASSUME NEW r \in Reqs, Mint(r)
        PROVE  tok \in tokens \/ (/\ UNCHANGED <<users, born>>
                                  /\ At(r, "mint") /\ tok = Minted(req[r].copy))
    BY <1>1 DEF Mint
  <1>2. ASSUME NEW r \in Reqs, RegisterStep(r) \/ AccountStep(r)
        PROVE  Mint(r) \/ tokens' \subseteq tokens
    BY <1>2
    DEF RegisterStep, AccountStep, RegisterCheck, RegisterFirst, RegisterInsert,
        RegisterConflict, RegisterAdmins, RegisterDemote, Refresh, Bump, BumpNoOne, Erase,
        CommitFails
  <1>3. CASE Sessions \/ (\E r \in Reqs, email \in Emails : BeginRegister(r, email))
             \/ (\E t \in tokens : Expire(t)) \/ UNCHANGED vars
    BY <1>3 DEF Sessions, BeginRegister, BeginLogin, BeginAuthorized, Expire, vars
  <1> QED
    BY <1>1, <1>2, <1>3 DEF Next, Registers

\* What a session holds after a step: what it held, or the row as it is now.  A
\* request that is about to write was so before, or has just read the row.
Held(p) == \/ Holding(p) /\ req'[p].copy = req[p].copy
           \/ req'[p].copy.id \in Used' /\ req'[p].copy.user = users'[req'[p].copy.id]
Read(p) == \/ req'[p] = req[p]
           \/ UNCHANGED users /\ req'[p].copy.user = users[req'[p].copy.id]

LEMMA HeldStep ==
    ASSUME TypeOK, NEW r \in Reqs, NEW q, Goto(r, q),
           q # NoReq /\ q.pc \in {"refresh", "admins", "demote", "mint", "write"}
             => \/ Holding(r) /\ q.copy = req[r].copy
                \/ q.copy.id \in Used' /\ q.copy.user = users'[q.copy.id],
           q # NoReq /\ q.pc = "write"
             => UNCHANGED users /\ q.copy.user = users[q.copy.id],
           NEW p \in Reqs
    PROVE  (Holding(p)' => Held(p)) /\ (At(p, "write")' => Read(p))
  <1>1. CASE p = r
    BY <1>1 DEF TypeOK, Goto, At, Holding, Held, Read
  <1>2. CASE p # r
    BY <1>2 DEF TypeOK, Goto, At, Holding, Held, Read
  <1> QED
    BY <1>1, <1>2

LEMMA ReplyHeld ==
    ASSUME TypeOK, NEW r \in Reqs, Reply(r), NEW p \in Reqs
    PROVE  (Holding(p)' => Held(p)) /\ (At(p, "write")' => Read(p))
  BY HeldStep DEF Reply
LEMMA HeldNext ==
    ASSUME TypeInv, ~ IdReuse, [Next]_vars, NEW p \in Reqs
    PROVE  (Holding(p)' => Held(p)) /\ (At(p, "write")' => Read(p))
  <1> TypeOK
    BY DEF TypeInv
  <1> DEFINE Goal == (Holding(p)' => Held(p)) /\ (At(p, "write")' => Read(p))
  <1>1. ASSUME NEW r \in Reqs, RegisterCheck(r) \/ RegisterFirst(r) PROVE Goal
    <2>1. req[r] \in Register
      BY <1>1, RequestTypes DEF RegisterCheck, RegisterFirst, At
    <2> DEFINE q == [req[r] EXCEPT !.pc = "first"]
               t == [req[r] EXCEPT !.pc = "insert", !.admin = Bootstrap /\ Used = {}]
    <2>2. q.pc = "first" /\ t.pc = "insert"
      BY <2>1 DEF Register
    <2>3. Goto(r, q) \/ Goto(r, t) \/ Reply(r)
      BY <1>1 DEF RegisterCheck, RegisterFirst
    <2> HIDE DEF q, t
    <2> QED
      BY <2>2, <2>3, HeldStep, ReplyHeld
  <1>2. ASSUME NEW r \in Reqs, RegisterInsert(r) PROVE Goal
    <2>1. req[r] \in Register
      BY <1>2, RequestTypes DEF RegisterInsert, At
    <2> DEFINE new == NewUser(req[r])
               q == [req[r] EXCEPT !.pc = "refresh",
                                   !.copy = [id |-> born + 1, user |-> new]]
    <2>2. q.pc = "refresh" /\ q.copy.id = born + 1 /\ q.copy.user = new
      BY <2>1 DEF Register
    <2>3. users' = [users EXCEPT ![born + 1] = new] /\ Goto(r, q)
      BY <1>2 DEF RegisterInsert, NewIds
    <2>4. born + 1 \in Ids
      BY <1>2, BoundAssumption DEF RegisterInsert, Ids, TypeOK
    <2>5. new # NoUser
      <3>1. new \in User
        BY <1>2, <2>1, BoundAssumption
        DEF RegisterInsert, NewUser, User, Register, Versions, Ids, TypeOK
      <3> QED
        BY <3>1, NullAssumption
    <2> HIDE DEF q, new
    <2>6. q.copy.id \in Used' /\ q.copy.user = users'[q.copy.id]
      BY <2>2, <2>3, <2>4, <2>5 DEF Used, TypeOK
    <2> QED
      BY <2>2, <2>3, <2>6, HeldStep
  <1>3. ASSUME NEW r \in Reqs, RegisterAdmins(r) PROVE Goal
    <2>1. req[r] \in Register /\ Holding(r)
      BY <1>3, RequestTypes DEF RegisterAdmins, At, Holding
    <2> DEFINE q == [req[r] EXCEPT !.admins = Extra,
                                   !.pc = IF Extra = {} THEN "mint" ELSE "demote"]
    <2>2. q.pc # "write" /\ q.copy = req[r].copy
      BY <2>1 DEF Register
    <2>3. Goto(r, q)
      BY <1>3 DEF RegisterAdmins
    <2> HIDE DEF q
    <2> QED
      BY <2>1, <2>2, <2>3, HeldStep
  <1>4. ASSUME NEW r \in Reqs, RegisterDemote(r) PROVE Goal
    <2>1. req[r] \in Register /\ Holding(r)
      BY <1>4, RequestTypes DEF RegisterDemote, At, Holding
    <2> DEFINE q == [req[r] EXCEPT !.pc = "refresh", !.admin = FALSE, !.admins = {}]
    <2>2. q.pc # "write" /\ q.copy = req[r].copy
      BY <2>1 DEF Register
    <2>3. Goto(r, q) \/ Reply(r)
      BY <1>4 DEF RegisterDemote
    <2> HIDE DEF q
    <2> QED
      BY <2>1, <2>2, <2>3, HeldStep, ReplyHeld
  <1>5. ASSUME NEW r \in Reqs, Refresh(r) PROVE Goal
    <2>1. req[r] \in Request
      BY <1>5, RequestTypes DEF Refresh, At
    <2> DEFINE t == IF req[r].op = "register" /\ req[r].admin THEN "admins" ELSE "mint"
               q == [req[r] EXCEPT !.copy = Load(req[r].copy.id), !.pc = t]
    <2>2. q.pc # "write" /\ q.copy = Load(req[r].copy.id)
      BY <2>1 DEF Request, Register, Login
    <2>3. (Reply(r) \/ (req[r].copy.id \in Used /\ Goto(r, q))) /\ users' = users
      BY <1>5 DEF Refresh
    <2> HIDE DEF q
    <2> QED
      BY <2>2, <2>3, HeldStep, ReplyHeld DEF Load, Used
  <1>6. ASSUME NEW r \in Reqs, Bump(r) PROVE Goal
    <2>1. req[r] \in Login /\ Holding(r)
      BY <1>6, RequestTypes DEF Bump, At, Holding
    <2> DEFINE q == [req[r] EXCEPT !.pc = "refresh"]
    <2>2. q.pc # "write" /\ q.copy = req[r].copy
      BY <2>1 DEF Login
    <2>3. Goto(r, q) \/ Reply(r)
      BY <1>6 DEF Bump
    <2> HIDE DEF q
    <2> QED
      BY <2>1, <2>2, <2>3, HeldStep, ReplyHeld
  <1>7. ASSUME NEW r \in Reqs, RegisterStep(r) \/ AccountStep(r) PROVE Goal
    <2>1. RegisterConflict(r) \/ Mint(r) \/ BumpNoOne(r) \/ Erase(r) \/ CommitFails(r)
            => Reply(r)
      BY DEF RegisterConflict, Mint, BumpNoOne, Erase, CommitFails
    <2> QED
      BY <1>1, <1>2, <1>3, <1>4, <1>5, <1>6, <1>7, <2>1, ReplyHeld
      DEF RegisterStep, AccountStep
  <1>8. ASSUME NEW r \in Reqs, NEW email \in Emails, BeginRegister(r, email) PROVE Goal
    BY <1>8, HeldStep DEF BeginRegister
  <1>9. ASSUME NEW r \in Reqs, NEW i \in Ids, BeginLogin(r, i) PROVE Goal
    <2> DEFINE q == [op |-> "login", pc |-> "mint", copy |-> Load(i)]
    <2>1. /\ Goto(r, q) /\ q.copy.id \in Used' /\ q.copy.user = users'[q.copy.id]
          /\ q.pc = "mint"
      BY <1>9 DEF BeginLogin, Load, Used
    <2> HIDE DEF q
    <2> QED
      BY <2>1, HeldStep
  <1>10. ASSUME NEW r \in Reqs, NEW op \in {"change", "logout", "delete"},
                NEW tok \in tokens, BeginAuthorized(r, op, tok)
         PROVE  Goal
    <2> DEFINE q == [op |-> op, pc |-> "write", copy |-> Load(tok.id)]
    <2>1. /\ Goto(r, q) /\ q.copy.id \in Used' /\ q.copy.user = users'[q.copy.id]
          /\ UNCHANGED users /\ q.copy.user = users[q.copy.id]
      BY <1>10 DEF BeginAuthorized, Accepted, Load, Used
    <2> HIDE DEF q
    <2> QED
      BY <2>1, HeldStep
  <1>11. CASE (\E tok \in tokens : Expire(tok)) \/ UNCHANGED vars
    BY <1>11 DEF Expire, vars, Holding, At, Held, Read
  <1> QED
    BY <1>7, <1>8, <1>9, <1>10, <1>11 DEF Next, Registers, Sessions

-----------------------------------------------------------------------------
\* Ids are given once: what a token or a session knows of an account that is gone
\* is about no later one.
Numbered ==
    /\ TypeInv
    /\ \A i \in Used : i <= born
    /\ \A tok \in tokens : tok.id <= born
    /\ \A r \in Reqs : Holding(r) => req[r].copy.id <= born

\* No token and no session is ahead of the table, and a request that will raise a
\* version knows the one that the table has.
Fresh ==
    /\ Calm
    /\ \A tok \in tokens : tok.id \in Used => tok.ver <= users[tok.id].ver
    /\ \A r \in Reqs : Holding(r) /\ req[r].copy.id \in Used
         => req[r].copy.user.ver <= users[req[r].copy.id].ver
    /\ \A r \in Reqs, i \in Used : Revoking(r, i) => req[r].copy.user.ver = users[i].ver

CalmInv == Numbered /\ (calm => Fresh)

LEMMA NumberedNext ==
    ASSUME Numbered, ~ IdReuse, [Next]_vars
    PROVE  Numbered'
  <1> TypeInv /\ TypeInv' /\ Used \subseteq Nat /\ born \in Nat
    BY TypeInvNext, BoundAssumption DEF Numbered, TypeInv, TypeOK, Used, Ids
  <1>1. born' \in Nat /\ born <= born'
    BY TableStep
  <1>2. \A i \in Used' : i <= born'
    <2> SUFFICES ASSUME NEW i \in Used' PROVE i <= born'
      OBVIOUS
    <2>1. Keeps(i) \/ Arrives(i) \/ \E r \in Reqs : Raises(r, i)
      BY TableStep
    <2>2. CASE Keeps(i) \/ \E r \in Reqs : Raises(r, i)
      <3>1. i \in Used
        BY <2>2 DEF Keeps, Raises, Bump
      <3>2. i \in Nat /\ i <= born /\ born \in Nat
        BY <3>1 DEF Numbered
      <3> QED
        BY ONLY <1>1, <3>2
    <2> QED
      BY <1>1, <2>1, <2>2 DEF Arrives
  <1>3. \A r \in Reqs : Holding(r) => req[r].copy.id \in Nat /\ req[r].copy.id <= born'
    BY <1>1 DEF Numbered, TypeInv, Copy, Ids
  <1>4. \A tok \in tokens' : tok.id <= born'
    <2> SUFFICES ASSUME NEW tok \in tokens' PROVE tok.id <= born'
      OBVIOUS
    <2>1. CASE tok \in tokens
      BY <1>1, <2>1 DEF Numbered, TypeInv, TypeOK, Token, Ids
    <2>2. ASSUME NEW r \in Reqs, At(r, "mint"), tok = Minted(req[r].copy)
          PROVE  tok.id <= born'
      BY <1>3, <2>2 DEF Holding, Minted
    <2> QED
      BY <2>1, <2>2, TokenStep
  <1>5. \A r \in Reqs : Holding(r)' => req'[r].copy.id <= born'
    BY <1>2, <1>3, HeldNext DEF Held
  <1> QED
    BY <1>2, <1>4, <1>5 DEF Numbered

\* As long as it is calm no version that anyone may know of is passed backwards.
LEMMA VersionsGrow ==
    ASSUME Numbered, Fresh, ~ IdReuse, [Next]_vars, NEW i \in Used', i <= born
    PROVE  i \in Used /\ users[i].ver \in Nat /\ users'[i].ver \in Nat
           /\ users[i].ver <= users'[i].ver
  <1>1. TypeInv /\ TypeInv' /\ born \in Nat /\ i \in Ids
    BY TypeInvNext, BoundAssumption DEF Numbered, TypeInv, TypeOK, Used
  <1>2. Keeps(i) \/ \E r \in Reqs : Raises(r, i)
    BY <1>1, TableStep DEF Arrives
  <1>3. users'[i].ver \in Nat
    BY <1>1, BoundAssumption DEF TypeInv, TypeOK, Used, User, Versions
  <1>4. ASSUME i \in Used PROVE users[i].ver \in Nat
    BY <1>1, <1>4, Loads, BoundAssumption DEF TypeInv, User, Versions
  <1>5. ASSUME NEW r \in Reqs, Raises(r, i)
        PROVE  i \in Used /\ users'[i].ver = users[i].ver + 1
    <2>1. i \in Used /\ Revoking(r, i)
      BY <1>5 DEF Raises, Bump, Revoking
    <2> QED
      BY <1>5, <2>1 DEF Fresh, Raises
  <1> QED
    BY <1>2, <1>3, <1>4, <1>5 DEF Keeps

LEMMA FreshNext ==
    ASSUME Numbered, Fresh, ~ IdReuse, [Next]_vars, Calm'
    PROVE  Fresh'
  <1> TypeInv /\ TypeInv' /\ TypeOK /\ TypeOK' /\ Numbered'
    BY NumberedNext DEF Numbered, TypeInv
  <1>1. ASSUME NEW tok \in tokens', tok.id \in Used'
        PROVE  tok.ver <= users'[tok.id].ver
    <2>1. CASE tok \in tokens
      <3>1. tok.id <= born /\ tok.ver \in Nat
        BY <2>1, BoundAssumption DEF Numbered, TypeOK, Token, Versions
      <3>2. tok.id \in Used /\ tok.ver <= users[tok.id].ver
        BY <1>1, <2>1, <3>1, VersionsGrow DEF Fresh
      <3> QED
        BY <1>1, <3>1, <3>2, VersionsGrow
    <2>2. ASSUME NEW r \in Reqs, At(r, "mint"), tok = Minted(req[r].copy), UNCHANGED users
          PROVE  tok.ver <= users'[tok.id].ver
      <3>1. Used' = Used /\ Holding(r) /\ tok.id = req[r].copy.id /\ tok.ver = req[r].copy.user.ver
        BY <2>2 DEF Used, Holding, Minted
      <3> QED
        BY <1>1, <2>2, <3>1 DEF Fresh
    <2> QED
      BY <2>1, <2>2, TokenStep
  <1>2. ASSUME NEW r \in Reqs, Holding(r)', req'[r].copy.id \in Used'
        PROVE  req'[r].copy.user.ver <= users'[req'[r].copy.id].ver
    <2> DEFINE c == req'[r].copy
    <2>1. c.user.ver \in Nat
      BY <1>2, BoundAssumption DEF TypeInv, Copy, User, Versions
    <2>2. CASE Holding(r) /\ c = req[r].copy
      <3>1. c.id <= born
        BY <2>2 DEF Numbered
      <3>2. c.id \in Used /\ c.user.ver <= users[c.id].ver
        BY <1>2, <2>2, <3>1, VersionsGrow DEF Fresh
      <3> QED
        BY <1>2, <2>1, <3>1, <3>2, VersionsGrow
    <2>3. CASE c.user = users'[c.id]
      BY <2>1, <2>3
    <2> QED
      BY <1>2, <2>2, <2>3, HeldNext DEF Held
  <1>3. ASSUME NEW r \in Reqs, NEW i \in Used', Revoking(r, i)'
        PROVE  req'[r].copy.user.ver = users'[i].ver
    <2>1. At(r, "write")' /\ req'[r].copy.id = i
      BY <1>3 DEF Revoking
    <2>2. CASE UNCHANGED users /\ req'[r].copy.user = users[req'[r].copy.id]
      BY <2>1, <2>2
    <2>3. CASE req'[r] = req[r]
      <3>1. Revoking(r, i) /\ Holding(r)
        BY <1>3, <2>3 DEF Revoking, At, Holding
      <3>2. i <= born /\ i \in Used
        BY <2>1, <2>3, <3>1, VersionsGrow DEF Numbered
      <3>3. req[r].copy.user.ver = users[i].ver
        BY <3>1, <3>2 DEF Fresh
      <3>4. CASE Keeps(i)
        BY <2>3, <3>3, <3>4 DEF Keeps
      <3>5. ASSUME NEW s \in Reqs, Raises(s, i) PROVE FALSE
        <4>1. Revoking(s, i)
          BY <3>5 DEF Raises, Bump, Revoking
        <4>2. s = r
          BY <3>1, <3>2, <4>1 DEF Fresh, Calm, Used
        <4>3. req'[r] # req[r]
          <5>1. Bump(r) /\ req[r] \in Login /\ req[r].pc = "write" /\ req[r] # NoReq
            BY <3>5, <4>2, RequestTypes DEF Raises, Bump, At
          <5>2. [req[r] EXCEPT !.pc = "refresh"].pc = "refresh"
            BY <5>1 DEF Login
          <5> QED
            BY <5>1, <5>2 DEF Bump, Goto, Reply, TypeOK
        <4> QED
          BY <2>3, <4>3
      <3>6. ~ Arrives(i)
        BY <3>2, BoundAssumption DEF Arrives, TypeOK
      <3> QED
        BY <3>4, <3>5, <3>6, TableStep
    <2> QED
      BY <2>1, <2>2, <2>3, HeldNext DEF Read
  <1> QED
    BY <1>1, <1>2, <1>3 DEF Fresh
LEMMA CalmInvNext ==
    ASSUME CalmInv, ~ IdReuse, [CalmNext]_mcvars
    PROVE  CalmInv'
  <1>1. [Next]_vars
    BY DEF CalmNext, mcvars
  <1>2. Numbered'
    BY <1>1, NumberedNext DEF CalmInv
  <1>3. ASSUME calm' PROVE Fresh'
    <2>1. CASE CalmNext
      BY <1>1, <1>3, <2>1, FreshNext DEF CalmInv, CalmNext
    <2>2. CASE UNCHANGED mcvars
      <3>1. calm /\ Calm'
        BY <1>3, <2>2 DEF mcvars, vars, CalmInv, Fresh, Calm, Revoking, At
      <3> QED
        BY <1>1, <3>1, FreshNext DEF CalmInv
    <2> QED
      BY <2>1, <2>2
  <1> QED
    BY <1>2, <1>3 DEF CalmInv

LEMMA CalmInvInit ==
    ASSUME CalmInit
    PROVE  CalmInv
  BY TypeInvInit
  DEF CalmInit, Init, CalmInv, Numbered, Fresh, Calm, Revoking, Used, At, Holding

\* With ids from a sequence, and as long as the revocations of an account do not
\* overlap each other, a logout or a change of password leaves no token of the
\* account that is accepted (change_password, logout: User.token_version).
THEOREM RevokesAllWhenCalm == ASSUME ~ IdReuse PROVE CalmSpec => RevokesAllIfCalm
  <1> DEFINE Revokes == calm => \A r \in Reqs : Bump(r) =>
                          \A tok \in tokens : tok.id = req[r].copy.id => ~ Accepted(tok)'
  <1>1. ASSUME CalmInv, [CalmNext]_mcvars PROVE Revokes
    <2> SUFFICES ASSUME calm, NEW r \in Reqs, Bump(r), NEW tok \in tokens,
                        tok.id = req[r].copy.id
                 PROVE  ~ Accepted(tok)'
      OBVIOUS
    <2> DEFINE c == req[r].copy
    <2>1. TypeInv /\ Fresh
      BY <1>1 DEF CalmInv, Numbered
    <2>2. c.id \in Used /\ Revoking(r, c.id)
      BY DEF Bump, Revoking
    <2>3. c.user.ver = users[c.id].ver /\ tok.ver <= users[c.id].ver
      BY <2>1, <2>2 DEF Fresh
    <2>4. c.user.ver \in Nat /\ tok.ver \in Nat
      BY <2>1, BumpRaises, BoundAssumption DEF TypeInv, TypeOK, Token, Copy, User, Versions
    <2>5. users'[c.id].ver = c.user.ver + 1
      BY <2>1, BumpRaises DEF Raises
    <2> QED
      BY <2>3, <2>4, <2>5 DEF Accepted
  <1>2. CalmInv /\ [CalmNext]_mcvars => CalmInv' /\ [Revokes]_mcvars
    BY <1>1, CalmInvNext
  <1>3. CalmSpec => [][Revokes]_mcvars
    BY <1>2, CalmInvInit, PTL DEF CalmSpec
  <1> QED
    BY <1>3 DEF RevokesAllIfCalm

\* Under the same conditions a token that is not accepted is never accepted again,
\* whatever is erased and registered later (current_user).
THEOREM RevokedForGoodWhenCalm == ASSUME ~ IdReuse PROVE CalmSpec => RevokedForGoodIfCalm
  <1> DEFINE Stays == calm => \A tok \in tokens : ~ Accepted(tok) => ~ Accepted(tok)'
  <1>1. ASSUME CalmInv, [CalmNext]_mcvars PROVE Stays
    <2> SUFFICES ASSUME calm, NEW tok \in tokens, ~ Accepted(tok), Accepted(tok)'
                 PROVE  FALSE
      OBVIOUS
    <2>1. Numbered /\ Fresh /\ [Next]_vars
      BY <1>1 DEF CalmInv, CalmNext, mcvars
    <2>2. tok.id \in Used' /\ tok.id <= born /\ users'[tok.id].ver = tok.ver
      BY <2>1 DEF Accepted, Numbered
    <2>3. /\ tok.id \in Used /\ users[tok.id].ver \in Nat /\ users'[tok.id].ver \in Nat
          /\ users[tok.id].ver <= users'[tok.id].ver
      BY <2>1, <2>2, VersionsGrow
    <2>4. tok.ver <= users[tok.id].ver
      BY <2>1, <2>3 DEF Fresh
    <2>5. users[tok.id].ver = tok.ver
      BY <2>2, <2>3, <2>4
    <2> QED
      BY <2>3, <2>5 DEF Accepted
  <1>2. CalmInv /\ [CalmNext]_mcvars => CalmInv' /\ [Stays]_mcvars
    BY <1>1, CalmInvNext
  <1>3. CalmSpec => [][Stays]_mcvars
    BY <1>2, CalmInvInit, PTL DEF CalmSpec
  <1> QED
    BY <1>3 DEF RevokedForGoodIfCalm

-----------------------------------------------------------------------------
\* A registration that will still see, or has seen, that account i is an admin
\* too many.
Watching(r, i) ==
    /\ req[r] # NoReq
    /\ req[r].op = "register"
    /\ \/ req[r].pc = "refresh" /\ req[r].admin
       \/ req[r].pc = "admins"
       \/ req[r].pc = "demote" /\ i \in req[r].admins

\* While accounts are only registered: ids grow, no session's row disappears, and
\* some registration is watching each admin but the first.
ElectInv ==
    /\ TypeInv
    /\ \A i \in Used : i <= born
    /\ \A r \in Reqs : ~ At(r, "write")
    /\ \A r \in Reqs : Holding(r) => req[r].copy.id \in Used
    /\ \A r \in Reqs : At(r, "demote") => req[r].admins \subseteq Used
    /\ \A i \in Extra : \E r \in Reqs : Watching(r, i)

LEMMA NewIdsGrow ==
    ASSUME TypeOK, \A j \in Used : j <= born, NEW i \in NewIds
    PROVE  i \in Nat /\ i <= born + 1 /\ \A j \in Used : j < i
  <1>1. Used \subseteq Nat /\ born \in Nat
    BY BoundAssumption DEF Used, Ids, TypeOK
  <1> QED
    BY <1>1, BoundAssumption DEF NewIds, Rowids, Ids

LEMMA ElectStep ==
    ASSUME ElectInv, TypeInv', NEW r \in Reqs, NEW q, Goto(r, q),
           Used \subseteq Used', \A i \in Used' : i <= born',
           q # NoReq => q.pc # "write",
           q # NoReq /\ q.pc \in {"refresh", "admins", "demote", "mint"}
             => q.copy.id \in Used',
           q # NoReq /\ q.pc = "demote" => q.admins \subseteq Used',
           \A i \in Extra' : (i \in Extra /\ ~ Watching(r, i)) \/ Watching(r, i)'
    PROVE  ElectInv'
  <1>1. \A p \in Reqs : req'[p] = IF p = r THEN q ELSE req[p]
    BY DEF ElectInv, TypeInv, TypeOK, Goto
  <1>2. \A p \in Reqs : \A i : p # r /\ Watching(p, i) => Watching(p, i)'
    BY <1>1 DEF Watching
  <1>3. \A i \in Extra' : \E p \in Reqs : Watching(p, i)'
    BY <1>2 DEF ElectInv
  <1>4. \A p \in Reqs : ~ At(p, "write")'
    BY <1>1 DEF ElectInv, At
  <1>5. \A p \in Reqs : Holding(p)' => req'[p].copy.id \in Used'
    BY <1>1 DEF ElectInv, At, Holding
  <1>6. \A p \in Reqs : At(p, "demote")' => req'[p].admins \subseteq Used'
    BY <1>1 DEF ElectInv, At
  <1> QED
    BY <1>3, <1>4, <1>5, <1>6 DEF ElectInv

\* A step that reads, by a request that is watching no one.
LEMMA ElectRead ==
    ASSUME ElectInv, TypeInv', NEW r \in Reqs, NEW q, Goto(r, q), UNCHANGED <<users, born>>,
           q # NoReq => q.pc \in {"check", "first", "insert", "mint"},
           q # NoReq /\ q.pc = "mint" => q.copy.id \in Used,
           \A i \in Extra : ~ Watching(r, i)
    PROVE  ElectInv'
  <1>1. Used' = Used /\ Extra' = Extra
    BY DEF Used, Extra, Admins
  <1> QED
    BY <1>1, ElectStep DEF ElectInv

LEMMA ElectNext ==
    ASSUME ElectInv, "demote" \notin Failing,
           [Registers \/ \E r \in Reqs, i \in Ids : BeginLogin(r, i)]_vars
    PROVE  ElectInv'
  <1> TypeInv /\ TypeOK /\ TypeInv'
    <2>1. [Next]_vars
      BY DEF Next, Sessions
    <2> QED
      BY <2>1, TypeInvNext DEF ElectInv, TypeInv
  <1>1. ASSUME NEW r \in Reqs, NEW email \in Emails, BeginRegister(r, email) PROVE ElectInv'
    BY <1>1, ElectRead DEF BeginRegister, Watching
  <1>2. ASSUME NEW r \in Reqs, NEW i \in Ids, BeginLogin(r, i) PROVE ElectInv'
    BY <1>2, ElectRead DEF BeginLogin, Load, Watching
  <1>3. ASSUME NEW r \in Reqs, RegisterCheck(r) \/ RegisterFirst(r) \/ RegisterConflict(r)
        PROVE  ElectInv'
    <2>1. req[r] \in Register
      BY <1>3, RequestTypes DEF RegisterCheck, RegisterFirst, RegisterConflict, At
    <2> DEFINE p == [req[r] EXCEPT !.pc = "first"]
               q == [req[r] EXCEPT !.pc = "insert", !.admin = Bootstrap /\ Used = {}]
    <2>2. p.pc = "first" /\ q.pc = "insert"
      BY <2>1 DEF Register
    <2>3. Goto(r, p) \/ Goto(r, q) \/ Goto(r, NoReq)
      BY <1>3 DEF RegisterCheck, RegisterFirst, RegisterConflict, Reply
    <2> HIDE DEF p, q
    <2>4. UNCHANGED <<users, born>> /\ \A i \in Extra : ~ Watching(r, i)
      BY <1>3 DEF RegisterCheck, RegisterFirst, RegisterConflict, At, Watching
    <2> QED
      BY <2>2, <2>3, <2>4, ElectRead
  <1>4. ASSUME NEW r \in Reqs, RegisterInsert(r) PROVE ElectInv'
    <2>1. req[r] \in Register /\ req[r].pc = "insert"
      BY <1>4, RequestTypes DEF RegisterInsert, At
    <2>2. PICK i \in NewIds :
            /\ users' = [users EXCEPT ![i] = NewUser(req[r])]
            /\ Goto(r, [req[r] EXCEPT !.pc = "refresh",
                                      !.copy = [id |-> i, user |-> NewUser(req[r])]])
      BY <1>4 DEF RegisterInsert
    <2> DEFINE q == [req[r] EXCEPT !.pc = "refresh",
                                   !.copy = [id |-> i, user |-> NewUser(req[r])]]
    <2>3. i <= born + 1 /\ i \in Nat /\ \A j \in Used : j < i
      BY NewIdsGrow DEF ElectInv
    <2>4. i \in Ids /\ NewUser(req[r]) # NoUser
      <3>1. i \in Ids
        BY <1>4, <2>3, BoundAssumption DEF RegisterInsert, NewIds, Rowids, Ids, TypeOK
      <3>2. NewUser(req[r]) \in User
        BY <1>4, <2>1, BoundAssumption
        DEF RegisterInsert, NewUser, User, Register, Versions, Ids, TypeOK
      <3> QED
        BY <3>1, <3>2, NullAssumption
    <2>5. Used' = Used \cup {i} /\ \A j \in Used : users'[j] = users[j]
      BY <2>2, <2>3, <2>4 DEF Used, TypeOK
    <2>6. \A j \in Used' : j <= born'
      BY <1>4, <2>3, <2>5, BoundAssumption DEF RegisterInsert, ElectInv, Used, Ids, TypeOK
    <2>7. q # NoReq /\ q.pc = "refresh" /\ q.op = "register" /\ q.copy.id = i
          /\ q.admin = req[r].admin
      <3>1. q \in [op: {"register"}, email: Emails, admin: BOOLEAN, admins: SUBSET Ids,
                   pc: {"refresh"}, copy: {[id |-> i, user |-> NewUser(req[r])]}]
        BY <2>1 DEF Register
      <3>2. q # NoReq
        <4>1. NewUser(req[r]) \in User
          BY <1>4, <2>1, BoundAssumption
          DEF RegisterInsert, NewUser, User, Register, Versions, Ids, TypeOK
        <4>2. q \in Request
          BY <2>4, <3>1, <4>1 DEF Request, Register, Copy
        <4> QED
          BY <4>2, NullAssumption
      <3> QED
        BY <2>1, <3>1, <3>2 DEF Register
    <2>8. users'[i].admin = req[r].admin
      BY <2>2, <2>4 DEF NewUser, TypeOK
    <2>9. Watching(r, i)' <=> req[r].admin
      BY <2>2, <2>7 DEF Goto, Watching, TypeOK
    <2>10. \A j \in Extra' : (j \in Extra /\ ~ Watching(r, j)) \/ Watching(r, j)'
      <3> SUFFICES ASSUME NEW j \in Extra'
                   PROVE  (j \in Extra /\ ~ Watching(r, j)) \/ Watching(r, j)'
        OBVIOUS
      <3>1. CASE j = i
        BY <2>8, <2>9, <3>1 DEF Extra, Admins
      <3>2. CASE j # i
        <4>1. j \in Used /\ users[j].admin
          BY <2>5, <3>2 DEF Extra, Admins
        <4>2. PICK k \in Admins' : k < j
          BY DEF Extra
        <4>3. k # i
          BY <2>3, <4>1, <4>2 DEF Used, Ids
        <4>4. j \in Extra
          BY <2>5, <4>1, <4>2, <4>3 DEF Extra, Admins
        <4> QED
          BY <2>1, <4>4 DEF Watching
      <3> QED
        BY <3>1, <3>2
    <2>11. Goto(r, q)
      BY <2>2
    <2> HIDE DEF q
    <2> QED
      BY <2>5, <2>6, <2>7, <2>10, <2>11, ElectStep
  <1>5. ASSUME NEW r \in Reqs, RegisterAdmins(r) PROVE ElectInv'
    <2>1. req[r] \in Register /\ req[r].copy.id \in Used
      BY <1>5, RequestTypes DEF RegisterAdmins, At, ElectInv, Holding
    <2> DEFINE q == [req[r] EXCEPT !.admins = Extra,
                                   !.pc = IF Extra = {} THEN "mint" ELSE "demote"]
    <2>2. /\ q.op = "register" /\ q.copy.id \in Used /\ q.admins = Extra
          /\ q.pc = IF Extra = {} THEN "mint" ELSE "demote"
      BY <2>1 DEF Register
    <2>3. q \in Request /\ q # NoReq
      <3>1. Extra \in SUBSET Ids
        BY DEF Extra, Admins, Used
      <3>2. q \in Request
        BY <2>1, <3>1 DEF Request, Register
      <3> QED
        BY <3>2, NullAssumption
    <2>4. Goto(r, q) /\ UNCHANGED <<users, born>>
      BY <1>5 DEF RegisterAdmins
    <2> HIDE DEF q
    <2>5. Used' = Used /\ Extra' = Extra /\ Extra \subseteq Used
      BY <2>4 DEF Used, Extra, Admins
    <2>6. req'[r] = q
      BY <2>4 DEF Goto, TypeOK
    <2>7. \A i \in Extra' : Watching(r, i)'
      BY <2>2, <2>3, <2>5, <2>6 DEF Watching
    <2>8. \A i \in Used' : i <= born'
      BY <2>4, <2>5 DEF ElectInv
    <2> QED
      BY <2>2, <2>4, <2>5, <2>7, <2>8, ElectStep
  <1>6. ASSUME NEW r \in Reqs, RegisterDemote(r) PROVE ElectInv'
    <2>1. req[r] \in Register /\ req[r].copy.id \in Used /\ req[r].admins \subseteq Used
      BY <1>6, RequestTypes DEF RegisterDemote, At, ElectInv, Holding
    <2> DEFINE q == [req[r] EXCEPT !.pc = "refresh", !.admin = FALSE, !.admins = {}]
    <2>2. q.pc = "refresh" /\ q.copy.id \in Used
      BY <2>1 DEF Register
    <2>3. /\ users' = [i \in Ids |-> IF i \in req[r].admins
                                     THEN [users[i] EXCEPT !.admin = FALSE] ELSE users[i]]
          /\ Goto(r, q) /\ born' = born
      BY <1>6, <2>1 DEF RegisterDemote
    <2> HIDE DEF q
    <2>4. \A i \in req[r].admins : /\ [users[i] EXCEPT !.admin = FALSE] # NoUser
                                   /\ [users[i] EXCEPT !.admin = FALSE].admin = FALSE
      <3> SUFFICES ASSUME NEW i \in req[r].admins
                   PROVE  /\ [users[i] EXCEPT !.admin = FALSE] # NoUser
                          /\ [users[i] EXCEPT !.admin = FALSE].admin = FALSE
        OBVIOUS
      <3>1. users[i] \in User
        BY <2>1, Loads
      <3>2. [users[i] EXCEPT !.admin = FALSE] \in User
            /\ [users[i] EXCEPT !.admin = FALSE].admin = FALSE
        BY <3>1 DEF User
      <3> QED
        BY <3>2, NullAssumption
    <2>5. Used' = Used
      BY <2>1, <2>3, <2>4 DEF Used
    <2>6. \A i \in Admins' : i \in Admins /\ i \notin req[r].admins
      BY <2>3, <2>4, <2>5 DEF Admins, Used
    <2>7. \A i \in Extra' : i \in Extra /\ i \notin req[r].admins
      BY <2>6 DEF Extra
    <2>8. \A i \in Extra' : i \in Extra /\ ~ Watching(r, i)
      BY <1>6, <2>7 DEF Watching, RegisterDemote, At
    <2>9. \A i \in Used' : i <= born'
      BY <2>3, <2>5 DEF ElectInv
    <2> QED
      BY <2>2, <2>3, <2>5, <2>8, <2>9, ElectStep
  <1>7. ASSUME NEW r \in Reqs, Refresh(r) PROVE ElectInv'
    <2>1. req[r] \in Request /\ req[r].pc = "refresh" /\ req[r].copy.id \in Used
      BY <1>7, RequestTypes DEF Refresh, At, ElectInv, Holding
    <2> DEFINE t == IF req[r].op = "register" /\ req[r].admin THEN "admins" ELSE "mint"
               q == [req[r] EXCEPT !.copy = Load(req[r].copy.id), !.pc = t]
    <2>2. q.pc = t /\ q.copy.id \in Used /\ q.op = req[r].op
      BY <2>1 DEF Request, Register, Login, Load
    <2>3. Goto(r, q) /\ UNCHANGED <<users, born>>
      BY <1>7, <2>1 DEF Refresh
    <2>4. q # NoReq
      <3>1. Load(req[r].copy.id) \in Copy
        BY <2>1, Loads
      <3>2. req[r] \in Register \/ (req[r] \in Login /\ t = "mint")
        BY <2>1 DEF Request, Login
      <3>3. q \in Request
        BY <3>1, <3>2 DEF Request, Register, Login
      <3> QED
        BY <3>3, NullAssumption
    <2>5. Used' = Used /\ Extra' = Extra
      BY <2>3 DEF Used, Extra, Admins
    <2> HIDE DEF q
    <2>6. req'[r] = q
      BY <2>3 DEF Goto, TypeOK
    <2>7. \A i \in Extra : Watching(r, i) => Watching(r, i)'
      BY <2>1, <2>2, <2>4, <2>6 DEF Watching
    <2>8. \A i \in Used' : i <= born'
      BY <2>3, <2>5 DEF ElectInv
    <2> QED
      BY <2>2, <2>3, <2>5, <2>7, <2>8, ElectStep
  <1>8. ASSUME NEW r \in Reqs, Mint(r) \/ CommitFails(r) PROVE ElectInv'
    <2>1. At(r, "mint") \/ At(r, "insert")
      <3>1. Failing \subseteq {"insert", "write"}
        BY FlagAssumption
      <3>2. ~ At(r, "write")
        BY DEF ElectInv
      <3> QED
        BY <1>8, <3>1, <3>2 DEF Mint, CommitFails
    <2>2. Reply(r) /\ UNCHANGED <<users, born>>
      BY <1>8 DEF Mint, CommitFails
    <2>3. \A i \in Extra : ~ Watching(r, i)
      BY <2>1 DEF At, Watching
    <2> QED
      BY <2>2, <2>3, ElectRead DEF Reply
  <1>9. ASSUME NEW r \in Reqs PROVE ~ (Bump(r) \/ BumpNoOne(r) \/ Erase(r))
    BY DEF ElectInv, Bump, BumpNoOne, Erase
  <1>10. CASE UNCHANGED vars
    BY <1>10 DEF vars, ElectInv, Used, Extra, Admins, At, Holding, Watching
  <1> QED
    BY <1>1, <1>2, <1>3, <1>4, <1>5, <1>6, <1>7, <1>8, <1>9, <1>10
    DEF Registers, RegisterStep, AccountStep

\* As long as no demotion fails to commit, the registrations that race for the
\* first account leave at most one admin when they have answered (register).
THEOREM OneAdmin == ASSUME "demote" \notin Failing PROVE RegisteringSpec => []AtMostOneAdmin
  <1>1. Init => ElectInv
    BY TypeInvInit DEF Init, ElectInv, Used, Extra, Admins, At, Holding
  <1>2. ElectInv => AtMostOneAdmin
    <2> SUFFICES ASSUME ElectInv, \A r \in Reqs : ~ Registering(r)
                 PROVE  Cardinality(Admins) <= 1
      BY DEF AtMostOneAdmin
    <2>1. Extra = {}
      BY DEF ElectInv, Watching, Registering, At
    <2>2. \A i, j \in Admins : i = j
      BY <2>1 DEF Extra, Admins, Used, Ids
    <2>3. CASE Admins = {}
      BY <2>3, FS_EmptySet
    <2>4. CASE Admins # {}
      <3>1. PICK i \in Admins : TRUE
        BY <2>4
      <3>2. Admins = {i}
        BY <2>2, <3>1
      <3>3. Cardinality({i}) = 1
        BY FS_Singleton
      <3> QED
        BY <3>2, <3>3
    <2> QED
      BY <2>3, <2>4
  <1>3. ElectInv /\ [Registers \/ \E r \in Reqs, i \in Ids : BeginLogin(r, i)]_vars
          => ElectInv'
    BY ElectNext
  <1> QED
    BY <1>1, <1>2, <1>3, PTL DEF RegisteringSpec
=============================================================================
