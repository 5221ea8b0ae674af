------------------------------ MODULE MCCrawls ------------------------------
(* Overlapping crawls, with the history that tells which of them were          *)
(* overtaken.                                                                  *)
EXTENDS MCCatalog

VARIABLES
    newest,   \* [Taps -> Revs]: the newest revision a crawl of the tap took over
    ahead     \* [Reqs -> BOOLEAN]: no other crawl of its tap has committed since
              \* this one cloned

crawl_vars == <<vars, newest, ahead>>

Commits(r) == WriteAll(r) \/ PruneStale(r)

HistInit == newest = [t \in Taps |-> 0] /\ ahead = [r \in Reqs |-> FALSE]

HistNext ==
    /\ newest' = [t \in Taps |-> IF last'[t].rev > newest[t] THEN last'[t].rev ELSE newest[t]]
    /\ ahead' = [r \in Reqs |->
                   IF At(r, "clone")
                   THEN At(r, "lock")'
                   ELSE /\ ahead[r] /\ req'[r] # NoReq
                        /\ \A q \in Reqs \ {r} : req[q] # NoReq /\ req[q].tap = req[r].tap
                                                   => ~ Commits(q)]

\* No admin drops a tap.
CrawlsInit == Init /\ HistInit
CrawlsNext == (Crawls \/ Pushes) /\ HistNext
CrawlsSpec == CrawlsInit /\ [][CrawlsNext]_crawl_vars /\ Fairness

-----------------------------------------------------------------------------

\* Every app that a tap shows after a crawl is of the revision that crawl cloned,
\* and a crawl that no other of its tap overtook catches up: however many older
\* clones were applied after newer ones before, the tap is then at no older a
\* revision than it ever was (ingest_directory).
CrawlsCatchUp ==
    [][\A r \in Reqs : Commits(r) =>
         LET t == req[r].tap
         IN  /\ \A a \in RowsOf(t, rows') : rows'[a].raw.rev = req[r].clone.rev
             /\ ahead[r] => last'[t].rev >= newest[t]]_crawl_vars
=============================================================================
