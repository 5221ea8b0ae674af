SPECIFICATION Spec
CONSTANTS
    Strings <- MCStrings
    MaxCopies = 3
    ChunkSize = 4
    Base = 2
    Trailer = 1
    MaxUncompressed = 11
    MaxHeap = 12
    MaxCut = 4
    Wanted = {"name", "major", "minor"}
    Others = {"provides"}
    Lexemes <- MCLexemes
    MaxDepth = 2
    MaxStream = 6
    Names = {"depot"}
    Addrs = {"public", "public2", "loop", "lan"}
    Urls <- MCUrls
    Answers <- MCAnswers
    Loopback = {"loop"}
    Internal = {"lan"}
    MAX_REDIRECTS = 2
    None = "none"
    Rows <- MCRows
    Stocks <- MCStocks
    Rank <- MCRank
    Words = {"w"}
    Categories = {"c"}
    FEATURED_CICHETI <- MCFeatured
    PAGE_SIZE = 5
    Top = 1
    Sample = 2
    Shelf = 1
    MaxCrawls = 1
    MaxDiffer = 2
    t1 = t1
    t2 = t2
    p1 = p1
    p2 = p2
    a1 = a1
    Tabs = {t1, t2}
    People = {p1, p2}
    Apps = {a1}
    MaxSent = 3
    Importers = {i1, i2}
    i1 = i1
    i2 = i2
    Listings <- MCListings
    Legal = {"n", "m"}
    MaxListings = 2
INVARIANTS PicksTheLatest Ordered ReadsBack ListsPackages DialsChecked FollowsTheChain EachAppOnce CardsStandForCopies PassesIngest ListSettles ImportedResolves
SYMMETRY Symmetry
CHECK_DEADLOCK FALSE
