------------------------------- MODULE MCParts -------------------------------
(* Newest, Heap, Hpkr, Netguard, Pages, Publish, Browser and Imports share     *)
(* nothing: one run has a behaviour of one of them, the others rest.           *)
EXTENDS Newest, Heap, Hpkr, Netguard, Pages, Publish, Browser, Imports

CONSTANTS t1, t2, p1, p2, a1, i1, i2

VARIABLE turn

-----------------------------------------------------------------------------
ma == Text(97)
mb == Text(98)
MCStrings == {
    <<Digits(1)>>, <<Padded(1)>>, <<Digits(2)>>, <<ma>>, <<Digits(1), ma>>, <<Digits(1), mb>>,
    <<ma, Digits(1)>>, <<Digits(1), Dot>>, <<Dot, Digits(1)>>,
    <<Digits(1), Dot, Digits(2)>>, <<Digits(1), Dot, ma>>,
    <<Digits(1), Dot, Digits(2), Dot, Digits(0)>>,
    <<Digits(1), Dot, Digits(0), Dot, Digits(2), Dot, Digits(1)>>,
    <<Digits(1), Dash, Digits(2)>>, <<Padded(1), Dash, Digits(1)>>,
    <<Digits(1), Tilde>>, <<Digits(1), Tilde, ma>>,
    <<Digits(1), Tilde, Digits(1)>>, <<Digits(1), Tilde, Padded(1)>>,
    <<Digits(1), Tilde, Digits(1), Dash, Digits(2)>>,
    <<Digits(1), Tilde, Padded(1), Dash, Digits(1)>>,
    <<Tilde, ma>>, <<Dash, Digits(1)>>}

Attr(id, kids, void) == [id |-> id, kids |-> kids, void |-> void]
MCLexemes == {Attr("package", TRUE, FALSE), Attr("package", FALSE, FALSE),
              Attr("name", FALSE, FALSE), Attr("name", FALSE, TRUE),
              Attr("major", TRUE, FALSE), Attr("minor", FALSE, FALSE),
              Attr("provides", TRUE, FALSE)}

\* A name whose addresses the name server chooses, and URLs that carry one.
Url(s, h) == [scheme |-> s, host |-> h]
MCUrls == {Url("https", "depot"), Url("http", "depot"), Url("ftp", "depot"), Url("https", "none")}
          \cup {Url("https", h) : h \in {"public", "loop", "lan"}}
MCAnswers == {<<>>, <<"public">>, <<"loop">>, <<"lan">>, <<"public", "public2">>,
              <<"public", "lan">>}

\* An author's tap, another repository and the mirror; app a is in all three.
App(id, name, key, b, ends) ==
    [id |-> id, name |-> name, key |-> key, bacaro |-> b, words |-> {"w"},
     categories |-> IF id % 2 = 0 THEN {"c"} ELSE {}, ends |-> ends]
MCRows == {App(1, 2, "a", "vepro", "else"), App(2, 1, "a", "lote", "else"),
           App(3, 2, "a", "ports", "else"), App(4, 3, "b", "vepro", "else"),
           App(5, 3, "b", "lote", "else"), App(6, 0, "c", "vepro", "dev"),
           App(7, 5, "d", "vepro", "else"), App(8, 6, "e", "vepro", "else"),
           App(9, 7, "f", "lote", "else"), App(10, 8, "g", "lote", "else")}
MCRank == [b \in {"vepro", "lote", "ports"} |->
              CASE b = "vepro" -> 0 [] b = "lote" -> 1 [] b = "ports" -> 2]
MCStocks == {MCRows, {r \in MCRows : r.bacaro # "ports"}, {r \in MCRows : r.bacaro = "lote"},
             {r \in MCRows : r.id < 5}}
MCFeatured == <<3, 7>>

\* A package with two architectures, two versions, one that is for all of them, a
\* name with a capital, packages that come and go.
Pkg(n, arch, v) == [name |-> n, architecture |-> arch, version |-> v]
MCListings == {
    <<>>,
    <<Pkg("n", "x86_64", 1)>>, <<Pkg("n", "x86_64", 1), Pkg("m", "x86_64", 1)>>,
    <<Pkg("m", "x86_64", 1), Pkg("n", "x86_64", 1), Pkg("n", "x86_64", 2)>>,
    <<Pkg("n", "x86_64", 2), Pkg("n", "arm64", 1)>>,
    <<Pkg("n", "any", 2), Pkg("m", "x86_64", 2), Pkg("M", "x86_64", 1)>>,
    <<Pkg("M", "x86_64", 1)>>}

Symmetry == Permutations(Importers) \cup Permutations(Tabs) \cup Permutations(People)
-----------------------------------------------------------------------------
NewestRests == copies = <<>> /\ NoLoop
HeapRests   == /\ size = 0 /\ lens = <<>> /\ codec = "none" /\ declared = 0 /\ raw = <<>>
               /\ comp_sizes = <<>> /\ at = 0 /\ pos = 0 /\ out = <<>> /\ outcome = "runs"
HpkrRests   == HpkrInit
GuardRests ==
    /\ IS_PROD = TRUE /\ fetch = "idle" /\ current = NoUrl /\ hops = 0 /\ safe_ip = None
    /\ resp = NoResp /\ open = 0 /\ asked = <<>> /\ sent = <<>>
PagesRest ==
    /\ catalog = {} /\ unkeyed = {} /\ crawls = 0 /\ ties = "up" /\ filter = Browse
    /\ pc = "idle" /\ total = 0 /\ groups = <<>> /\ fid = 1 /\ featured = <<>> /\ ranked = <<>>
    /\ top = <<>> /\ random_apps = <<>> /\ walk = <<>> /\ stood = TRUE
PublishRests == form = Bare /\ stage = "form" /\ doc = <<>> /\ file = <<>>
BrowserRests ==
    /\ token = NoToken /\ version = [p \in People |-> 0] /\ lib = [p \in People |-> {}]
    /\ tabs = [t \in Tabs |-> Blank("home", "")] /\ flights = {} /\ xhrs = 0
ImportsRest ==
    /\ listing = <<>> /\ listings = 0 /\ imported = <<>> /\ source = <<>>
    /\ importing = [i \in Importers |-> <<>>] /\ resolving = NoAnswer /\ steady = {} /\ once = {}

\* Who is not at work rests from the beginning.
RestExcept(t) ==
    /\ t # "newest" => NewestRests
    /\ t # "heap" => HeapRests
    /\ t # "hpkr" => HpkrRests
    /\ t # "guard" => GuardRests
    /\ t # "pages" => PagesRest
    /\ t # "publish" => PublishRests
    /\ t # "browser" => BrowserRests
    /\ t # "imports" => ImportsRest

Init ==
    \/ turn = "newest" /\ NewestInit /\ RestExcept("newest")
    \/ turn = "heap" /\ HeapInit /\ RestExcept("heap")
    \/ turn = "hpkr" /\ HpkrInit /\ RestExcept("hpkr")
    \/ turn = "guard" /\ GuardInit /\ RestExcept("guard")
    \/ turn = "pages" /\ PagesInit /\ RestExcept("pages")
    \/ turn = "publish" /\ PublishInit /\ RestExcept("publish")
    \/ turn = "browser" /\ BrowserInit /\ RestExcept("browser")
    \/ turn = "imports" /\ ImportsInit /\ RestExcept("imports")

Next ==
    /\ UNCHANGED turn
    /\ \/ turn = "newest" /\ NewestNext
          /\ UNCHANGED <<hvars, pvars, gvars, page_vars, publish_vars, browser_vars, imports_vars>>
       \/ turn = "heap" /\ HeapNext
          /\ UNCHANGED <<nvars, pvars, gvars, page_vars, publish_vars, browser_vars, imports_vars>>
       \/ turn = "hpkr" /\ HpkrNext
          /\ UNCHANGED <<nvars, hvars, gvars, page_vars, publish_vars, browser_vars, imports_vars>>
       \/ turn = "guard" /\ GuardNext
          /\ UNCHANGED <<nvars, hvars, pvars, page_vars, publish_vars, browser_vars, imports_vars>>
       \/ turn = "pages" /\ PagesNext
          /\ UNCHANGED <<nvars, hvars, pvars, gvars, publish_vars, browser_vars, imports_vars>>
       \/ turn = "publish" /\ PublishNext
          /\ UNCHANGED <<nvars, hvars, pvars, gvars, page_vars, browser_vars, imports_vars>>
       \/ turn = "browser" /\ BrowserNext
          /\ UNCHANGED <<nvars, hvars, pvars, gvars, page_vars, publish_vars, imports_vars>>
       \/ turn = "imports" /\ ImportsNext
          /\ UNCHANGED <<nvars, hvars, pvars, gvars, page_vars, publish_vars, browser_vars>>

Spec ==
    Init /\ [][Next]_<<turn, nvars, hvars, pvars, gvars, page_vars, publish_vars, browser_vars,
                      imports_vars>>
=============================================================================
