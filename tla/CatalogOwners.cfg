SPECIFICATION Spec
CONSTANTS
    t1 = t1
    t2 = t2
    a1 = a1
    a2 = a2
    r1 = r1
    r2 = r2
    Taps = {t1, t2}
    Apps = {a1}
    May <- Shared
    Reqs = {r1, r2}
    MaxRev = 1
    NoRow = NoRow
    NoReq = NoReq
PROPERTIES OwnerKeepsId
