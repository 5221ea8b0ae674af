-------------------------------- MODULE Pages --------------------------------
(* The home page, the search and the copies of an app (app/main.py): a visitor *)
(* goes from page to page, each page is several statements, and a crawl may    *)
(* commit before any of them.                                                  *)
EXTENDS Naturals, FiniteSets, SequencesExt

CONSTANTS
    Rows,               \* the rows that taps may publish
    Stocks,             \* BOUND: the catalogs to begin with
    Rank,               \* bacaro -> _bacaro_rank; 2 is hidden from browsing
    Words, Categories,  \* what visitors ask for
    FEATURED_CICHETI,   \* configured ids
    PAGE_SIZE,
    Top, Sample, Shelf, \* limits of the shelves: 8, 24 and 8 in the code
    MaxCrawls           \* BOUND: commits of crawls

Bacari == DOMAIN Rank
Ids    == {r.id : r \in Rows}
\* The place of a name in the order of names, and what its spelling folds to.
Row == [id : Nat, name : Nat, key : STRING, bacaro : Bacari, words : SUBSET Words,
        categories : SUBSET Categories, ends : {"_dev", "dev", "else"}]
Filters == [by : {"browse"}, value : {""}] \cup [by : {"q"}, value : Words]
           \cup [by : {"category"}, value : Categories] \cup [by : {"bacaro"}, value : Bacari]

ASSUME PagesConstants ==
    /\ Rows \subseteq Row /\ IsFiniteSet(Rows)
    /\ \A r, s \in Rows : r.id = s.id => r = s
    /\ \A r, s \in Rows : r.name = s.name => r.key = s.key \* dedup_key_for_name
    /\ Stocks \subseteq SUBSET Rows
    /\ Rank \in [Bacari -> 0 .. 2]
    /\ {PAGE_SIZE, Top, Sample, Shelf} \subseteq Nat \ {0}
    /\ FEATURED_CICHETI \in Seq(Nat)
    /\ Len(FEATURED_CICHETI) + Top + Shelf < PAGE_SIZE \* 4 + 8 + 8 < 24 by default

VARIABLES
    catalog,        \* the rows of table `cicheti`
    unkeyed,        \* the ids whose column dedup_key is the '' of its migration
    crawls,         \* commits so far
    ties,           \* how the database orders equal names; "any": not the same twice
    filter, pc,     \* the request: what it asks for, the statement it is at
    total, groups, fid, featured, ranked, top, random_apps,  \* its locals
    walk,           \* the pages the visitor has been shown, from the first
    stood           \* no crawl has committed since the first of them began

page_vars == <<catalog, unkeyed, crawls, ties, filter, pc, total, groups, fid,
               featured, ranked, top, random_apps, walk, stood>>
locals == <<total, groups, fid, featured, ranked, top, random_apps>>

Browse == [by |-> "browse", value |-> ""]

PagesInit ==
    /\ catalog \in Stocks
    /\ unkeyed \in {{}, {r.id : r \in catalog}}
    /\ crawls = 0 /\ ties \in {"up", "down", "any"}
    /\ filter = Browse /\ pc = "idle" /\ total = 0 /\ groups = <<>> /\ fid = 1
    /\ featured = <<>> /\ ranked = <<>> /\ top = <<>> /\ random_apps = <<>> /\ walk = <<>> /\ stood = TRUE

-----------------------------------------------------------------------------
\* Browsing leaves the mirror out, and ids and names that end like the parts of
\* a port; `_` in the pattern of LIKE stands for any character.
Hidden(row) == Rank[row.bacaro] = 2 \/ row.ends \in {"_dev", "dev"}

Matches(row, f) ==
    CASE f.by = "browse"   -> ~ Hidden(row)
      [] f.by = "q"        -> f.value \in row.words
      [] f.by = "category" -> f.value \in row.categories
      [] f.by = "bacaro"   -> row.bacaro = f.value
Matching == {r \in catalog : Matches(r, filter)}

\* ORDER BY name says nothing of rows of one name.
Before(r, s, dir) ==
    \/ r.name < s.name
    \/ r.name = s.name /\ (IF dir = "up" THEN r.id < s.id ELSE s.id < r.id)
ByName(rows, dir) ==
    [k \in 1 .. Cardinality(rows) |->
        CHOOSE r \in rows : Cardinality({s \in rows : Before(s, r, dir)}) = k - 1]
Tie == IF ties = "any" THEN {"up", "down"} ELSE {ties}

Card(row, others) == [row |-> row, also_in |-> others]
\* Mutant: the first copy stands for the group.
BetterNever(row, card) == FALSE
Better(row, card) == Rank[row.bacaro] < Rank[card.row.bacaro]

\* A copy joins the card of its key, in front if its source ranks better.
Joins(cards, row) ==
    LET mine == {i \in DOMAIN cards : cards[i].row.key = row.key}
    IN  IF mine = {}
        THEN Append(cards, Card(row, {}))
        ELSE LET i == CHOOSE j \in mine : TRUE
             IN  [cards EXCEPT ![i] = IF Better(row, @)
                                      THEN Card(row, @.also_in \cup {@.row.id})
                                      ELSE Card(@.row, @.also_in \cup {row.id})]
DedupGroups(rows) ==
    LET cards[k \in 0 .. Len(rows)] ==
            IF k = 0 THEN <<>> ELSE Joins(cards[k - 1], rows[k])
    IN  cards[Len(rows)]

Least(m, n) == IF m < n THEN m ELSE n
Cut(seq, from, to) == SubSeq(seq, from + 1, Least(to, Len(seq)))
PageOf(seq, page)   == Cut(seq, (page - 1) * PAGE_SIZE, page * PAGE_SIZE)
\* Mutant: the rows are paged, and the copies of a page grouped.
PagedFirst(rows, page) ==
    IF filter = Browse
    THEN DedupGroups(PageOf(rows, page))
    ELSE PageOf([i \in DOMAIN rows |-> Card(rows[i], {})], page)
\* Without a filter the copies are grouped first, and the groups are paged.
Paged(rows, page) ==
    IF filter = Browse
    THEN PageOf(DedupGroups(rows), page)
    ELSE PageOf([i \in DOMAIN rows |-> Card(rows[i], {})], page)
PageCount(n) == (n + PAGE_SIZE - 1) \div PAGE_SIZE
PageNo == Len(walk) + 1

\* The visitor asks for the first page of anything, or follows the link to the next.
Opens ==
    /\ pc = "idle" /\ walk = <<>>
    /\ filter' \in Filters /\ stood' = TRUE /\ pc' = "count"
    /\ UNCHANGED <<catalog, unkeyed, crawls, ties, locals, walk>>
Turns ==
    /\ pc = "idle" /\ walk # <<>> /\ Last(walk).next
    /\ pc' = "count"
    /\ UNCHANGED <<catalog, unkeyed, crawls, ties, filter, locals, walk, stood>>

Counts ==
    /\ pc = "count" /\ pc' = "rows"
    /\ total' = Cardinality(Matching)
    /\ UNCHANGED <<catalog, unkeyed, crawls, ties, filter, groups, fid, featured, ranked,
                   top, random_apps, walk, stood>>

ReadsRows ==
    /\ pc = "rows"
    /\ \E dir \in Tie :
          LET rows == ByName(Matching, dir)
          IN  /\ groups' = Paged(rows, PageNo)
              /\ total' = IF filter = Browse THEN Len(DedupGroups(rows)) ELSE total
    /\ pc' = IF filter = Browse /\ PageNo = 1 THEN "featured" ELSE "render"
    /\ UNCHANGED <<catalog, unkeyed, crawls, ties, filter, fid, featured, ranked, top,
                   random_apps, walk, stood>>

\* The rows that ids lead to, in the order of the ids; those that are gone are skipped.
RowsByIds(ids) ==
    LET Led(id) == {r \in catalog : r.id = id}
        found[k \in 0 .. Len(ids)] ==
            IF k = 0 THEN <<>>
            ELSE IF Led(ids[k]) = {} THEN found[k - 1]
            ELSE Append(found[k - 1], CHOOSE r \in Led(ids[k]) : TRUE)
    IN  found[Len(ids)]

\* A statement for each configured id.
GetsFeatured ==
    /\ pc = "featured" /\ fid <= Len(FEATURED_CICHETI)
    /\ featured' = featured \o RowsByIds(<<FEATURED_CICHETI[fid]>>)
    /\ fid' = fid + 1
    /\ UNCHANGED <<catalog, unkeyed, crawls, ties, filter, pc, total, groups, ranked, top,
                   random_apps, walk, stood>>

\* The log of downloads keeps the ids of apps that are gone, in any order.
Ranks ==
    /\ pc = "featured" /\ fid > Len(FEATURED_CICHETI) /\ pc' = "top"
    /\ \E n \in 0 .. Top : ranked' \in {s \in [1 .. n -> Ids] : IsInjective(s)}
    /\ UNCHANGED <<catalog, unkeyed, crawls, ties, filter, total, groups, fid, featured,
                   top, random_apps, walk, stood>>
GetsTop ==
    /\ pc = "top" /\ pc' = "random"
    /\ top' = RowsByIds(ranked)
    /\ UNCHANGED <<catalog, unkeyed, crawls, ties, filter, total, groups, fid, featured,
                   ranked, random_apps, walk, stood>>

IdsOf(rows) == {rows[i].id : i \in DOMAIN rows}
Surfaced    == IdsOf(featured) \cup IdsOf(top)

Samples ==
    /\ pc = "random" /\ pc' = "render"
    /\ LET pool == {r \in catalog : ~ Hidden(r) /\ r.id \notin Surfaced}
           most == Least(Sample, Cardinality(pool))
       IN  \E picked \in {s \in [1 .. most -> pool] : IsInjective(s)} :
              LET cards == DedupGroups(picked)
              IN  random_apps' = Cut(cards, 0, Shelf)
    /\ UNCHANGED <<catalog, unkeyed, crawls, ties, filter, total, groups, fid, featured,
                   ranked, top, walk, stood>>

Shelved == Surfaced \cup {random_apps[i].row.id : i \in DOMAIN random_apps}
NotOf(cards, ids) ==
    LET kept[k \in 0 .. Len(cards)] ==
            IF k = 0 THEN <<>>
            ELSE IF cards[k].row.id \in ids THEN kept[k - 1]
            ELSE Append(kept[k - 1], cards[k])
    IN  kept[Len(cards)]
Grid == IF PageNo = 1 THEN NotOf(groups, Shelved) ELSE groups

\* home.html: the links to other pages stand below the cards of a grid that has some.
Renders ==
    /\ pc = "render" /\ pc' = "idle"
    /\ walk' = Append(walk, [grid |-> Grid, shelves |-> IF PageNo = 1 THEN Shelved ELSE {},
                             total |-> total,
                             next |-> Grid # <<>> /\ PageNo < PageCount(total)])
    /\ total' = 0 /\ groups' = <<>> /\ fid' = 1 /\ featured' = <<>> /\ ranked' = <<>>
    /\ top' = <<>> /\ random_apps' = <<>>
    /\ UNCHANGED <<catalog, unkeyed, crawls, ties, filter, stood>>

\* A crawl of a tap commits: its rows are others, and all of them are written anew.
Crawls(b) ==
    /\ crawls < MaxCrawls
    /\ \E kept \in SUBSET {r \in Rows : r.bacaro = b} :
          catalog' = {r \in catalog : r.bacaro # b} \cup kept
    /\ unkeyed' = unkeyed \ {r.id : r \in {s \in Rows : s.bacaro = b}}
    /\ crawls' = crawls + 1 /\ stood' = FALSE
    /\ UNCHANGED <<ties, filter, pc, locals, walk>>

PagesNext ==
    \/ Opens \/ Turns \/ Counts \/ ReadsRows \/ GetsFeatured \/ Ranks \/ GetsTop
    \/ Samples \/ Renders
    \/ \E b \in Bacari : Crawls(b)

PagesSpec == PagesInit /\ [][PagesNext]_page_vars

\* _also_in_sources and _icon_from_twin: the copies of an app, by the column.
KeyColumn(row)     == IF row.id \in unkeyed THEN "" ELSE row.key
Twins(row, rows)   == {r \in rows : KeyColumn(r) = row.key /\ r.id # row.id}

-----------------------------------------------------------------------------
\* The places of the cards of all pages that were shown, and what each holds.
CardPlaces == UNION {{<<i, j>> : j \in DOMAIN walk[i].grid} : i \in DOMAIN walk}
RowAt(p) == walk[p[1]].grid[p[2]].row
Shown   == {RowAt(p).id : p \in CardPlaces} \cup UNION {walk[i].shelves : i \in DOMAIN walk}

\* A visitor who follows the link to the next page to its end has seen every app
\* that the filter matches, if no crawl came between: browsing, some copy of each;
\* searching, each copy, if the database keeps the order of equal names. No app
\* (no copy) has two cards in the pages' grids (home: "Dedup must happen before
\* paging or the counts break", "so nothing is unreachable").
EachAppOnce ==
    pc = "idle" /\ walk # <<>> /\ ~ Last(walk).next /\ stood =>
        IF filter = Browse
        THEN /\ \A r \in Matching : \E i \in Shown : \E s \in catalog : s.id = i /\ s.key = r.key
             /\ \A p, q \in CardPlaces : RowAt(p).key = RowAt(q).key => p = q
             /\ Last(walk).total = Cardinality({r.key : r \in Matching})
        ELSE ties # "any" =>
                /\ {RowAt(p) : p \in CardPlaces} = Matching
                /\ \A p, q \in CardPlaces : RowAt(p) = RowAt(q) => p = q
                /\ Last(walk).total = Cardinality(Matching)

\* A card stands for the copy whose source is closest to the author, and with a
\* catalog that stands and has all its keys, the other copies it names are those
\* the app's own page names, but for the hidden ones (_dedup_groups and
\* _also_in_sources: a grouping in Python and one by a column).
CardsStandForCopies ==
    \A i \in DOMAIN groups : filter = Browse /\ stood =>
        LET card == groups[i]
            twins == {t \in Twins(card.row, catalog) : ~ Hidden(t)}
        IN  unkeyed = {} =>
                /\ card.also_in = {t.id : t \in twins}
                /\ \A t \in twins : Rank[card.row.bacaro] <= Rank[t.bacaro]

\* Not kept: the same of rows that a migration left without a key (_fill_dedup_key):
\* the card finds their copies by name, the app's own page none.
CardsStandUnkeyed ==
    \A i \in DOMAIN groups : filter = Browse /\ stood =>
        groups[i].also_in = {t.id : t \in {u \in Twins(groups[i].row, catalog) : ~ Hidden(u)}}

\* Not kept: "the catalog is still empty" is said of a catalog whose apps are all
\* on the shelves of the first page (home.html).
EmptyIfEmpty ==
    walk # <<>> /\ filter = Browse /\ stood /\ walk[1].grid = <<>> => Matching = {}

\* Not kept: "so nothing shows twice" on the first page: the shelves are left out
\* of the grid by id, and another copy of the app may stand for it there (home).
NothingTwice ==
    walk # <<>> /\ stood =>
        \A i \in DOMAIN walk[1].grid : \A r \in catalog :
            r.id \in walk[1].shelves => r.key # walk[1].grid[i].row.key

\* Not kept: browsing hides what "ends in one of these" suffixes, and no other
\* app of a tap that is shown (config.BROWSE_HIDDEN_SUFFIXES).
OnlyPartsHidden ==
    \A r \in catalog : Hidden(r) => Rank[r.bacaro] = 2 \/ r.ends = "_dev"

\* Not kept: pages of a search without a standing order of equal names (_search_rows).
SearchOnceAnyOrder ==
    pc = "idle" /\ walk # <<>> /\ ~ Last(walk).next /\ stood /\ filter # Browse =>
        {RowAt(p) : p \in CardPlaces} = Matching

=============================================================================
