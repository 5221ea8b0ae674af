------------------------------- MODULE Accounts -------------------------------
(***************************************************************************)
(* Accounts and their tokens (app/auth.py and the /auth endpoints of        *)
(* app/main.py).  There is no store of tokens: a token names the id of the  *)
(* account and the version it was minted with, and is accepted as long as   *)
(* the account still has that version.                                      *)
(*                                                                         *)
(* Each request has a session of its own: it loads the row of the account,  *)
(* checks the password against what it loaded (a wrong one is refused       *)
(* without effect and left out here), hashes, and writes by id later.       *)
(***************************************************************************)
EXTENDS Naturals, FiniteSets

CONSTANTS
    Emails,
    Reqs,            \* request slots: how many requests may be in flight
    MaxUsers,        \* BOUND: registrations
    MaxVersion,      \* BOUND: revocations of one account
    IdReuse,         \* TRUE: SQLite rowids; FALSE: a Postgres sequence
    Bootstrap,       \* BOOTSTRAP_ADMIN: the first user becomes admin
    Failing,         \* the commits that may fail (database locked, server stopped)
    NoUser, NoReq

Ids      == 1 .. MaxUsers
Versions == 0 .. MaxVersion
\* acct, the number of the registration, is not a column: it tells apart two
\* accounts that get the same id.
User     == [email: Emails, ver: Versions, admin: BOOLEAN, acct: Ids]
Token    == [id: Ids, ver: Versions, acct: Ids]
Copy     == [id: Ids, user: User]           \* a row loaded into a session
Register == [op: {"register"}, email: Emails, admin: BOOLEAN, admins: SUBSET Ids,
             pc: {"check", "first", "insert", "refresh", "admins", "demote", "mint"},
             copy: Copy \cup {NoUser}]
Login    == [op: {"login", "change", "logout", "delete"},
             pc: {"write", "refresh", "mint"}, copy: Copy]
Request  == Register \cup Login

ASSUME BoundAssumption == MaxUsers \in Nat /\ MaxVersion \in Nat
ASSUME FlagAssumption  == /\ {IdReuse, Bootstrap} \subseteq BOOLEAN
                          /\ Failing \subseteq {"insert", "demote", "write"}
ASSUME NullAssumption  == NoUser \notin User \cup Copy /\ NoReq \notin Request

VARIABLES
    users,      \* [Ids -> User or NoUser]: table `users` by primary key
    born,       \* how many accounts were registered: the sequence of ids
    tokens,     \* the tokens that were handed out and have not expired
    req         \* [Reqs -> Request or NoReq]

vars == <<users, born, tokens, req>>

TypeOK ==
    /\ users \in [Ids -> User \cup {NoUser}]
    /\ born \in 0 .. MaxUsers
    /\ tokens \subseteq Token
    /\ req \in [Reqs -> Request \cup {NoReq}]

Init ==
    /\ users = [i \in Ids |-> NoUser]
    /\ born = 0
    /\ tokens = {}
    /\ req = [r \in Reqs |-> NoReq]

-----------------------------------------------------------------------------
At(r, pc)    == req[r] # NoReq /\ req[r].pc = pc
Goto(r, q)   == req' = [req EXCEPT ![r] = q]
Reply(r)     == Goto(r, NoReq)
Used         == {i \in Ids : users[i] # NoUser}
Load(i)      == [id |-> i, user |-> users[i]]

\* current_user
Accepted(tok) == tok.id \in Used /\ users[tok.id].ver = tok.ver

EmailFree(email) == \A i \in Used : users[i].email # email
\* Also a mutant of NewIds: the id of an erased account is given again.
Rowids == {i \in Ids : i - 1 \in Used \cup {0} /\ \A j \in Used : j < i}
NewIds == IF IdReuse THEN Rowids ELSE {born + 1}

(* POST /auth/register                                                     *)
BeginRegister(r, email) ==
    /\ req[r] = NoReq
    /\ Goto(r, [op |-> "register", pc |-> "check", email |-> email, admin |-> FALSE,
                admins |-> {}, copy |-> NoUser])
    /\ UNCHANGED <<users, born, tokens>>

RegisterCheck(r) ==
    /\ At(r, "check")
    /\ IF \E i \in Used : users[i].email = req[r].email
       THEN Reply(r)                                        \* 409
       ELSE Goto(r, [req[r] EXCEPT !.pc = "first"])
    /\ UNCHANGED <<users, born, tokens>>

RegisterFirst(r) ==
    /\ At(r, "first")
    /\ Goto(r, [req[r] EXCEPT !.pc = "insert", !.admin = Bootstrap /\ Used = {}])
    /\ UNCHANGED <<users, born, tokens>>

NewUser(q) == [email |-> q.email, ver |-> 0, admin |-> q.admin, acct |-> born + 1]
RegisterInsert(r) ==
    /\ At(r, "insert")
    /\ EmailFree(req[r].email)
    /\ born < MaxUsers                       \* BOUND
    /\ \E i \in NewIds :
         /\ users' = [users EXCEPT ![i] = NewUser(req[r])]
         /\ Goto(r, [req[r] EXCEPT !.pc = "refresh",
                                   !.copy = [id |-> i, user |-> NewUser(req[r])]])
    /\ born' = born + 1
    /\ UNCHANGED tokens

RegisterConflict(r) ==
    /\ At(r, "insert")
    /\ ~ EmailFree(req[r].email)
    /\ Reply(r)                                             \* 409
    /\ UNCHANGED <<users, born, tokens>>

\* session.refresh after a commit; the row may be gone (500).
Refresh(r) ==
    /\ At(r, "refresh")
    /\ LET q == req[r]
       IN  IF q.copy.id \notin Used
           THEN Reply(r)
           ELSE Goto(r, [q EXCEPT !.copy = Load(q.copy.id),
                                  !.pc = IF q.op = "register" /\ q.admin THEN "admins"
                                         ELSE "mint"])
    /\ UNCHANGED <<users, born, tokens>>

Admins == {i \in Used : users[i].admin}
\* Mutant: no one is demoted.
ExtraNone == {}
Extra == {i \in Admins : \E j \in Admins : j < i}
RegisterAdmins(r) ==
    /\ At(r, "admins")
    /\ Goto(r, [req[r] EXCEPT !.admins = Extra, !.pc = IF Extra = {} THEN "mint" ELSE "demote"])
    /\ UNCHANGED <<users, born, tokens>>

\* One flush: a row that is gone fails all of it (500).
RegisterDemote(r) ==
    /\ At(r, "demote")
    /\ IF req[r].admins \subseteq Used
       THEN /\ users' = [i \in Ids |-> IF i \in req[r].admins
                                       THEN [users[i] EXCEPT !.admin = FALSE] ELSE users[i]]
            /\ Goto(r, [req[r] EXCEPT !.pc = "refresh", !.admin = FALSE, !.admins = {}])
       ELSE Reply(r) /\ UNCHANGED users
    /\ UNCHANGED <<born, tokens>>

\* Mutant: the token names the account registered last.
MintedNewest(c) == [id |-> born, ver |-> c.user.ver, acct |-> c.user.acct]
\* make_token, from what the session loaded last.
Minted(c) == [id |-> c.id, ver |-> c.user.ver, acct |-> c.user.acct]

Mint(r) ==
    /\ At(r, "mint")
    /\ tokens' = tokens \cup {Minted(req[r].copy)}
    /\ Reply(r)
    /\ UNCHANGED <<users, born>>

(* POST /auth/login: selects the account and verifies the password.        *)
BeginLogin(r, i) ==
    /\ req[r] = NoReq
    /\ i \in Used
    /\ Goto(r, [op |-> "login", pc |-> "mint", copy |-> Load(i)])
    /\ UNCHANGED <<users, born, tokens>>

(* POST /auth/change-password, /auth/logout(-all) and /auth/delete-account: *)
(* current_user loads the account of the token.                            *)
BeginAuthorized(r, op, tok) ==
    /\ req[r] = NoReq
    /\ Accepted(tok)
    /\ op = "delete" \/ tok.ver < MaxVersion                \* BOUND
    /\ Goto(r, [op |-> op, pc |-> "write", copy |-> Load(tok.id)])
    /\ UNCHANGED <<users, born, tokens>>

\* Mutants: the version is not bumped, or is a flag.
BumpedNever(db, c) == db
BumpedFlag(db, c)  == [db EXCEPT ![c.id].ver = (c.user.ver + 1) % 2]
\* user.token_version += 1, on the version that was loaded.
Bumped(db, c) == [db EXCEPT ![c.id].ver = c.user.ver + 1]

Bump(r) ==
    /\ At(r, "write")
    /\ req[r].op \in {"change", "logout"}
    /\ req[r].copy.id \in Used
    /\ users' = Bumped(users, req[r].copy)
    /\ IF req[r].op = "change" THEN Goto(r, [req[r] EXCEPT !.pc = "refresh"]) ELSE Reply(r)
    /\ UNCHANGED <<born, tokens>>

\* The account was erased meanwhile (500).
BumpNoOne(r) ==
    /\ At(r, "write")
    /\ req[r].op \in {"change", "logout"}
    /\ req[r].copy.id \notin Used
    /\ Reply(r)
    /\ UNCHANGED <<users, born, tokens>>

Erase(r) ==
    /\ At(r, "write")
    /\ req[r].op = "delete"
    /\ users' = [users EXCEPT ![req[r].copy.id] = NoUser]
    /\ Reply(r)
    /\ UNCHANGED <<born, tokens>>

\* The commit fails: rolled back, and no answer but an error.
CommitFails(r) ==
    /\ \/ \E pc \in Failing : At(r, pc)
       \/ At(r, "insert") /\ born = MaxUsers                \* BOUND
    /\ Reply(r)
    /\ UNCHANGED <<users, born, tokens>>

\* TOKEN_TTL_MINUTES pass.
Expire(tok) ==
    /\ tok \in tokens
    /\ tokens' = tokens \ {tok}
    /\ UNCHANGED <<users, born, req>>

-----------------------------------------------------------------------------
RegisterStep(r) == \/ RegisterCheck(r)    \/ RegisterFirst(r)  \/ RegisterInsert(r)
                   \/ RegisterConflict(r) \/ RegisterAdmins(r) \/ RegisterDemote(r)
AccountStep(r)  == Refresh(r) \/ Mint(r) \/ Bump(r) \/ BumpNoOne(r) \/ Erase(r) \/ CommitFails(r)

Registers == \E r \in Reqs : RegisterStep(r) \/ AccountStep(r)
                             \/ \E email \in Emails : BeginRegister(r, email)
Sessions  == \E r \in Reqs : \/ \E i \in Ids : BeginLogin(r, i)
                             \/ \E op \in {"change", "logout", "delete"}, tok \in tokens :
                                  BeginAuthorized(r, op, tok)
Next == Registers \/ Sessions \/ \E tok \in tokens : Expire(tok)

Spec == Init /\ [][Next]_vars

\* Accounts are registered and logged into, and none is erased.
RegisteringSpec == Init /\ [][Registers \/ \E r \in Reqs, i \in Ids : BeginLogin(r, i)]_vars

-----------------------------------------------------------------------------
(* Properties.                                                             *)

\* Two registrations that overlap never both get the email (register).
OneUserPerEmail ==
    \A i, j \in Used : users[i].email = users[j].email => i = j

\* A token opens the account it was minted for and no other: "token must die on
\* deletion" (tests/test_account_gdpr.py).
TokenOpensOwn == \A tok \in tokens : Accepted(tok) => users[tok.id].acct = tok.acct

\* What a request writes or erases is the account it loaded (change_password,
\* logout, delete_account).
WritesOwn ==
    [][\A r \in Reqs, i \in Ids :
         At(r, "write") /\ req'[r] # req[r] /\ users'[i] # users[i]
           => i = req[r].copy.id /\ users[i].acct = req[r].copy.user.acct]_vars

\* Once no registration is between its insert and its answer, at most one
\* account is admin ("two concurrent registrations cannot both win admin").
Registering(r) == \E pc \in {"refresh", "admins", "demote"} : At(r, pc) /\ req[r].op = "register"
AtMostOneAdmin == (\A r \in Reqs : ~ Registering(r)) => Cardinality(Admins) <= 1

\* A logout or a change of password leaves no token of the account that is
\* accepted (User: "to invalidate all of a user's outstanding tokens at once").
RevokesAll ==
    [][\A r \in Reqs : Bump(r) =>
         \A tok \in tokens : tok.id = req[r].copy.id => ~ Accepted(tok)']_vars

\* A token that was revoked never comes to life again (current_user).
RevokedForGood == [][\A tok \in tokens : ~ Accepted(tok) => ~ Accepted(tok)']_vars
=============================================================================
