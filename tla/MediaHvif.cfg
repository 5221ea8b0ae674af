SPECIFICATION Spec
CONSTANTS
    r1 = r1
    r2 = r2
    Apps <- MCApps
    Codes = {"shot"}
    Images = {"upload"}
    Dirs = {"icons", "hvif"}
    Group <- MCGroup
    Rank <- MCRank
    HasArt = {"genio", "mirror"}
    Size <- MCSize
    Budget = 2
    Asked <- MCAskedHvif
    Outages = TRUE
    MaxStops = 1
    Reqs = {r1}
    NoReq = NoReq
    None = None
INVARIANTS CeilingOfAll
CONSTRAINT Apart
