----------------------------- MODULE MCAccounts ------------------------------
(* Small instances of Accounts for TLC.                                     *)
EXTENDS Accounts, TLC

CONSTANTS e1, e2, e3, r1, r2, r3

Symmetry == Permutations(Reqs) \cup Permutations(Emails)

\* A history variable: no two revocations of one account have been under way at
\* the same time.
VARIABLE calm
mcvars == <<vars, calm>>

Revoking(r, i) == At(r, "write") /\ req[r].op # "delete" /\ req[r].copy.id = i
Calm == \A r, s \in Reqs, i \in Ids : Revoking(r, i) /\ Revoking(s, i) => r = s
CalmInit == Init /\ calm = TRUE
CalmNext == Next /\ calm' = (calm /\ Calm')
CalmSpec == CalmInit /\ [][CalmNext]_mcvars

\* As long as the revocations of an account do not overlap each other, whatever
\* else does, a logout or a change of password leaves no token of the account
\* that is accepted (User: "to invalidate all of a user's outstanding tokens at
\* once").
RevokesAllIfCalm ==
    [][calm => \A r \in Reqs : Bump(r) =>
         \A tok \in tokens : tok.id = req[r].copy.id => ~ Accepted(tok)']_mcvars

\* Under the same condition a token that was revoked never comes to life again,
\* over erasures and new registrations (current_user).
RevokedForGoodIfCalm ==
    [][calm => \A tok \in tokens : ~ Accepted(tok) => ~ Accepted(tok)']_mcvars
=============================================================================
