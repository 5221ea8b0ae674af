------------------------------- MODULE Browser -------------------------------
(* The scripts of the pages (app/static/auth.js, login.js, library.js,         *)
(* library-add.js) in tabs that share one stored token. A request              *)
(* is served, and its answer heard, at any time after it was sent; either may  *)
(* be lost; a tab that goes to another page hears no answer of the old one.    *)
(* The server's handlers are those of Library and Accounts, each in one step.  *)
EXTENDS Naturals, FiniteSets

CONSTANTS Tabs, People, Apps, MaxSent  \* BOUND: requests sent

ASSUME SentAssumption == MaxSent \in Nat

NoToken == [who |-> "", ver |-> 0]
Pages   == {"home", "login", "app", "library"}

VARIABLES
    token,      \* localStorage: spritz_token
    version,    \* server: token_version of the accounts there are
    lib,        \* server: the apps in each account's library
    tabs,       \* each tab: its page, the app of the page, what it shows, if its
                \* button waits, and if nothing has come between (calm)
    flights,    \* requests whose answers are due: which tab's (heard: and if its page
                \* is still there), what of, by which token, and the answer
    xhrs        \* requests sent so far

browser_vars == <<token, version, lib, tabs, flights, xhrs>>

Blank(page, app) == [page |-> page, app |-> app, view |-> "", items |-> {},
                     disabled |-> FALSE, calm |-> TRUE]

BrowserInit ==
    /\ token \in [who : People, ver : {0}] \cup {NoToken}
    /\ version = [p \in People |-> 0] /\ lib \in [People -> SUBSET Apps]
    /\ tabs = [t \in Tabs |-> Blank("home", "")] /\ flights = {} /\ xhrs = 0

-----------------------------------------------------------------------------
Of(t) == {f \in flights : f.tab = t /\ f.heard}

New(t, op, tok, app, heard) ==
    [no |-> xhrs + 1, tab |-> t, op |-> op, token |-> tok, app |-> app, heard |-> heard,
     status |-> "sent", items |-> {}]

Fires(fs, f) == xhrs < MaxSent /\ xhrs' = xhrs + 1 /\ flights' = fs \cup {f}

\* The old page's handlers go; its requests may still arrive.
Deaf(t) == {IF f.tab = t THEN [f EXCEPT !.heard = FALSE] ELSE f :
               f \in {g \in flights : g.tab # t \/ g.status = "sent"}}
\* What is stored changed under the lists of the other tabs.
Unsettled(t) == [u \in Tabs |-> IF u = t THEN tabs[u] ELSE [tabs[u] EXCEPT !.calm = FALSE]]
Opened(t, page, app) == [tabs EXCEPT ![t] = Blank(page, app)]

Visits(t, page, app) ==
    /\ (page = "app") = (app # "") /\ page # "library"
    /\ tabs' = Opened(t, page, app) /\ flights' = Deaf(t)
    /\ UNCHANGED <<token, version, lib, xhrs>>

\* library.js: load() when the page opens.
Loads(t, tok, fs, all) ==
    IF tok = NoToken
    THEN /\ tabs' = [all EXCEPT ![t].view = "need_login"]
         /\ flights' = fs /\ UNCHANGED xhrs
    ELSE /\ tabs' = all
         /\ Fires(fs, New(t, "load", tok, "", TRUE))

OpensLibrary(t) ==
    /\ Loads(t, token, Deaf(t), Opened(t, "library", ""))
    /\ UNCHANGED <<token, version, lib>>

\* A click while answers are due ends the calm of the page.
Clicked(t, fields) == [tabs EXCEPT ![t] = [fields EXCEPT !.calm = @ /\ Of(t) = {}]]

ClicksLogin(t, p) ==
    /\ tabs[t].page = "login"
    /\ Fires(flights, New(t, "login", [who |-> p, ver |-> 0], "", TRUE))
    /\ tabs' = Clicked(t, tabs[t])
    /\ UNCHANGED <<token, version, lib>>

\* auth.js: the answer is not waited for.
ClicksLogout(t) ==
    /\ token # NoToken
    /\ Fires(Deaf(t), New(t, "logout", token, "", FALSE))
    /\ token' = NoToken /\ tabs' = [Unsettled(t) EXCEPT ![t] = Blank("home", "")]
    /\ UNCHANGED <<version, lib>>

ClicksAdd(t) ==
    /\ tabs[t].page = "app" /\ ~ tabs[t].disabled
    /\ IF token = NoToken
       THEN tabs' = Opened(t, "login", "") /\ flights' = Deaf(t) /\ UNCHANGED xhrs
       ELSE /\ Fires(flights, New(t, "add", token, tabs[t].app, TRUE))
            /\ tabs' = Clicked(t, [tabs[t] EXCEPT !.disabled = TRUE])
    /\ UNCHANGED <<token, version, lib>>

ClicksRemove(t, a) ==
    /\ tabs[t].page = "library" /\ tabs[t].view = "list" /\ a \in tabs[t].items
    /\ token # NoToken
    /\ Fires(flights, New(t, "remove", token, a, TRUE))
    /\ tabs' = Clicked(t, tabs[t])
    /\ UNCHANGED <<token, version, lib>>

(* The server                                                              *)
Accepts(tok) == tok # NoToken /\ version[tok.who] = tok.ver

Answered(f, status, items, tok) ==
    flights' = (flights \ {f}) \cup
        IF f.heard THEN {[f EXCEPT !.status = status, !.items = items, !.token = tok]} ELSE {}
\* The lists in other tabs, and that of a page opened since, may be older than this.
Disturbs(f) == [t \in Tabs |-> IF t = f.tab /\ f.heard THEN tabs[t]
                               ELSE [tabs[t] EXCEPT !.calm = FALSE]]

ServesLogin(f) ==
    /\ f.op = "login" /\ f.status = "sent"
    /\ Answered(f, "200", {}, [f.token EXCEPT !.ver = version[f.token.who]])
    /\ UNCHANGED <<token, version, lib, tabs, xhrs>>

Serves(f) ==
    /\ f.op # "login" /\ f.status = "sent" /\ Accepts(f.token)
    /\ Answered(f, "200", IF f.op = "load" THEN lib[f.token.who] ELSE {}, f.token)
    /\ lib' = [lib EXCEPT ![f.token.who] = CASE f.op = "add"    -> @ \cup {f.app}
                                       [] f.op = "remove" -> @ \ {f.app}
                                       [] OTHER           -> @]
    /\ version' = [version EXCEPT ![f.token.who] = IF f.op = "logout" THEN @ + 1 ELSE @]
    /\ tabs' = IF f.op = "load" THEN tabs ELSE Disturbs(f)
    /\ UNCHANGED <<token, xhrs>>

Denies(f) ==
    /\ f.op # "login" /\ f.status = "sent" /\ ~ Accepts(f.token)
    /\ Answered(f, "401", {}, f.token)
    /\ UNCHANGED <<token, version, lib, tabs, xhrs>>

\* The request, or the answer to what was done, does not arrive.
Loses(f) ==
    /\ f.status # "lost" /\ Answered(f, "lost", {}, f.token)
    /\ UNCHANGED <<token, version, lib, tabs, xhrs>>

(* The handlers: onreadystatechange                                        *)
Rest(f) == flights \ {f}

Ready(f, op) == f.heard /\ f.op = op /\ f.status # "sent"

HearsLogin(f) ==
    /\ Ready(f, "login")
    /\ IF f.status = "200"
       THEN /\ token' = f.token
            /\ Loads(f.tab, f.token, Deaf(f.tab),
                     [Unsettled(f.tab) EXCEPT ![f.tab] = Blank("library", "")])
       ELSE flights' = Rest(f) /\ UNCHANGED <<token, tabs, xhrs>>
    /\ UNCHANGED <<version, lib>>

HearsLoad(f) ==
    /\ Ready(f, "load")
    /\ flights' = Rest(f)
    /\ tabs' = [tabs EXCEPT ![f.tab] =
                  CASE f.status = "200"  -> [@ EXCEPT !.view = "list", !.items = f.items]
                    [] f.status = "401"  -> [@ EXCEPT !.view = "need_login"]
                    [] f.status = "lost" -> [@ EXCEPT !.calm = FALSE]]
    /\ UNCHANGED <<token, version, lib, xhrs>>

\* Mutant: the list is not loaded again.
ReloadNever(f) == flights' = Rest(f) /\ UNCHANGED <<tabs, xhrs>>
Reload(f) == Loads(f.tab, token, Rest(f), tabs)

\* A remove that was done reloads the list.
HearsRemove(f) ==
    /\ Ready(f, "remove")
    /\ IF f.status = "200"
       THEN Reload(f)
       ELSE /\ flights' = Rest(f) /\ tabs' = [tabs EXCEPT ![f.tab].calm = FALSE]
            /\ UNCHANGED xhrs
    /\ UNCHANGED <<token, version, lib>>

HearsAdd(f) ==
    /\ Ready(f, "add")
    /\ IF f.status = "401"
       THEN tabs' = Opened(f.tab, "login", "") /\ flights' = Deaf(f.tab)
       ELSE tabs' = [tabs EXCEPT ![f.tab].disabled = (f.status = "200")] /\ flights' = Rest(f)
    /\ UNCHANGED <<token, version, lib, xhrs>>

BrowserNext ==
    \/ \E t \in Tabs :
          \/ \E page \in Pages, app \in Apps \cup {""} : Visits(t, page, app)
          \/ OpensLibrary(t) \/ ClicksLogout(t) \/ ClicksAdd(t)
          \/ \E p \in People : ClicksLogin(t, p)
          \/ \E a \in Apps : ClicksRemove(t, a)
    \/ \E f \in flights :
          \/ ServesLogin(f) \/ Serves(f) \/ Denies(f) \/ Loses(f)
          \/ HearsLogin(f) \/ HearsLoad(f) \/ HearsRemove(f) \/ HearsAdd(f)

BrowserSpec == BrowserInit /\ [][BrowserNext]_browser_vars

-----------------------------------------------------------------------------

Listing(t) == tabs[t].page = "library" /\ tabs[t].view = "list"

\* A list whose answers are all in is the library of the one who is logged in, if
\* on this page each click waited for the answer to the one before, no answer was
\* lost, and nobody else wrote to the browser's token or the server (library.js:
\* load() when the page opens and after each remove).
ListSettles ==
    \A t \in Tabs : Listing(t) /\ tabs[t].calm /\ Of(t) = {} =>
        token # NoToken /\ tabs[t].items = lib[token.who]

\* Not kept: without the condition that clicks wait (two removes, and the answers
\* to their reloads are heard in the other order).
ListSettlesAnyClicks ==
    \A t \in Tabs : Listing(t) /\ flights = {} /\ token # NoToken =>
        tabs[t].items \subseteq lib[token.who]

=============================================================================
