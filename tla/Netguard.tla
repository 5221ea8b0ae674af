------------------------------ MODULE Netguard ------------------------------
(* One outbound fetch of src/app/netguard.py. The URL, and the Location of     *)
(* every redirect, is resolved and checked, and the request goes to the        *)
(* address that was checked; the name server may answer each lookup anew.      *)
EXTENDS Naturals, Sequences

CONSTANTS
    Names,          \* host names
    Addrs,          \* addresses; a URL may carry one in place of a name
    Urls,           \* the URLs that authors, admins and redirects name
    Answers,        \* what a name server may answer: sequences of addresses
    Loopback,       \* the addresses of this machine
    Internal,       \* private, link-local, multicast, reserved, unspecified
    MAX_REDIRECTS,
    None            \* no host in a URL, no Location in a redirect, no address

Schemes == {"http", "https", "ftp"}

ASSUME NetguardConstants ==
    /\ Urls \subseteq [scheme : Schemes, host : Names \cup Addrs \cup {None}]
    /\ Answers \subseteq Seq(Addrs)
    /\ MAX_REDIRECTS \in Nat
    /\ None \notin Addrs

\* A Location is a URL, relative to the page, or missing.
Locations == [to : {"url"}, url : Urls] \cup [to : {"here", "nowhere"}]
Responses == [is_redirect : {TRUE}, location : Locations]
                 \cup [is_redirect : {FALSE}, location : [to : {"nowhere"}]]

VARIABLES
    IS_PROD,    \* SPRITZ_ENV = prod; read once
    fetch,      \* where the loop is, or how it ended
    current,    \* the URL of this hop
    hops,       \* the redirects followed
    safe_ip,    \* what guard_url returned for this hop
    resp,       \* the response to this hop
    open,       \* how many responses are open
    asked,      \* the answer the guard judged by at this hop
    sent        \* every request so far: its URL, the address dialled, `asked`

gvars == <<IS_PROD, fetch, current, hops, safe_ip, resp, open, asked, sent>>

NoUrl  == [scheme |-> "https", host |-> None]
NoResp == [is_redirect |-> FALSE, location |-> [to |-> "nowhere"]]

GuardInit ==
    /\ IS_PROD \in BOOLEAN
    /\ fetch = "idle" /\ current = NoUrl /\ hops = 0 /\ safe_ip = None
    /\ resp = NoResp /\ open = 0 /\ asked = <<>> /\ sent = <<>>

-----------------------------------------------------------------------------

Forbidden(ip) == ip \in Internal \/ (ip \in Loopback /\ IS_PROD)

\* A literal address is its own answer; a lookup that fails has none.
Resolved(url, answer) == IF url.host \in Addrs THEN <<url.host>> ELSE answer

\* Mutant: only the first address of the answer is looked at.
RefusedFirst(url, answer) ==
    \/ url.host = None
    \/ url.scheme \notin (IF IS_PROD THEN {"https"} ELSE {"http", "https"})
    \/ Resolved(url, answer) = <<>>
    \/ \E i \in DOMAIN Resolved(url, answer) \cap {1} : Forbidden(Resolved(url, answer)[i])
Refused(url, answer) ==
    \/ url.host = None
    \/ url.scheme \notin (IF IS_PROD THEN {"https"} ELSE {"http", "https"})
    \/ Resolved(url, answer) = <<>>
    \/ \E i \in DOMAIN Resolved(url, answer) : Forbidden(Resolved(url, answer)[i])

Begin(url) ==
    /\ fetch = "idle"
    /\ fetch' = "guard" /\ current' = url /\ hops' = 0
    /\ UNCHANGED <<IS_PROD, safe_ip, resp, open, asked, sent>>

GuardRefuses(answer) ==
    /\ fetch = "guard" /\ Refused(current, answer)
    /\ fetch' = "refused"
    /\ UNCHANGED <<IS_PROD, current, hops, safe_ip, resp, open, asked, sent>>

GuardPasses(answer) ==
    /\ fetch = "guard" /\ ~ Refused(current, answer)
    /\ fetch' = "dial"
    /\ safe_ip' = Head(Resolved(current, answer))
    /\ asked' = Resolved(current, answer)
    /\ UNCHANGED <<IS_PROD, current, hops, resp, open, sent>>

\* _pinned_request: the address is the checked one, the Host header and the
\* name of the certificate are those of the URL.
Dialled == safe_ip

Send(r) ==
    /\ fetch = "dial"
    /\ fetch' = "answered" /\ resp' = r /\ open' = open + 1
    /\ sent' = Append(sent, [url |-> current, addr |-> Dialled, asked |-> asked, reply |-> r])
    /\ UNCHANGED <<IS_PROD, current, hops, safe_ip, asked>>

\* No connection, or one that breaks: the client's context closes what it has.
SendFails ==
    /\ fetch = "dial"
    /\ fetch' = "failed" /\ open' = 0
    /\ UNCHANGED <<IS_PROD, current, hops, safe_ip, resp, asked, sent>>

\* A relative Location is resolved against the URL of the page, not against
\* the address that was dialled for it.
Join(base, location) == IF location.to = "url" THEN location.url ELSE base

\* Mutant: the response to a redirect is left open.
FollowOpen ==
    /\ fetch = "answered" /\ resp.is_redirect
    /\ hops < MAX_REDIRECTS /\ resp.location.to # "nowhere"
    /\ fetch' = "guard" /\ hops' = hops + 1
    /\ current' = Join(current, resp.location)
    /\ UNCHANGED <<IS_PROD, safe_ip, resp, open, asked, sent>>
Follow ==
    /\ fetch = "answered" /\ resp.is_redirect
    /\ hops < MAX_REDIRECTS /\ resp.location.to # "nowhere"
    /\ fetch' = "guard" /\ open' = open - 1 /\ hops' = hops + 1
    /\ current' = Join(current, resp.location)
    /\ UNCHANGED <<IS_PROD, safe_ip, resp, asked, sent>>

NoLocation ==
    /\ fetch = "answered" /\ resp.is_redirect
    /\ hops < MAX_REDIRECTS /\ resp.location.to = "nowhere"
    /\ fetch' = "refused" /\ open' = open - 1
    /\ UNCHANGED <<IS_PROD, current, hops, safe_ip, resp, asked, sent>>

TooMany ==
    /\ fetch = "answered" /\ resp.is_redirect /\ ~ (hops < MAX_REDIRECTS)
    /\ fetch' = "refused" /\ open' = open - 1
    /\ UNCHANGED <<IS_PROD, current, hops, safe_ip, resp, asked, sent>>

HandOver ==
    /\ fetch = "answered" /\ ~ resp.is_redirect
    /\ fetch' = "handed"
    /\ UNCHANGED <<IS_PROD, current, hops, safe_ip, resp, open, asked, sent>>

\* The caller has read the body, or raised; stream_guarded closes in `finally`.
Finish ==
    /\ fetch = "handed"
    /\ fetch' = "done" /\ open' = open - 1
    /\ UNCHANGED <<IS_PROD, current, hops, safe_ip, resp, asked, sent>>

GuardNext ==
    \/ \E url \in Urls : Begin(url)
    \/ \E answer \in Answers : GuardRefuses(answer) \/ GuardPasses(answer)
    \/ \E r \in Responses : Send(r)
    \/ SendFails \/ Follow \/ NoLocation \/ TooMany \/ HandOver \/ Finish

GuardSpec == GuardInit /\ [][GuardNext]_gvars

-----------------------------------------------------------------------------

Request == [url : Urls, addr : Addrs, asked : Seq(Addrs), reply : Responses]

GuardTypeOK ==
    /\ IS_PROD \in BOOLEAN
    /\ fetch \in {"idle", "guard", "dial", "answered", "handed", "done", "refused", "failed"}
    /\ current \in Urls \cup {NoUrl} /\ (fetch # "idle" => current \in Urls)
    /\ hops \in 0 .. MAX_REDIRECTS /\ open \in 0 .. 1
    /\ safe_ip \in Addrs \cup {None} /\ resp \in Responses
    /\ asked \in Seq(Addrs) /\ sent \in Seq(Request)

\* Whatever the name server answers next, and wherever redirects lead, every
\* request went to an address that the guard of that very hop was given and
\* allowed, together with all others of that answer (guard_url: "the address
\* that was checked is the address that is dialed").
DialsChecked ==
    \A i \in DOMAIN sent :
        /\ \E j \in DOMAIN sent[i].asked : sent[i].asked[j] = sent[i].addr
        /\ \A j \in DOMAIN sent[i].asked : ~ Forbidden(sent[i].asked[j])
        /\ sent[i].url.host \in Addrs => sent[i].addr = sent[i].url.host
        /\ IS_PROD => sent[i].url.scheme = "https"

\* The caller never gets a redirect; each request but the first is for the
\* Location of the one before; there are at most MAX_REDIRECTS + 1; and of their
\* responses only the one handed over is still open, and none in the end
\* (_guarded_redirects, fetch_guarded, stream_guarded).
FollowsTheChain ==
    /\ fetch = "handed" => ~ resp.is_redirect /\ open = 1
    /\ fetch \in {"guard", "refused", "failed", "done"} => open = 0
    /\ Len(sent) <= MAX_REDIRECTS + 1
    /\ \A i \in 1 .. Len(sent) - 1 :
          /\ sent[i].reply.is_redirect
          /\ sent[i + 1].url = Join(sent[i].url, sent[i].reply.location)

=============================================================================
