SPECIFICATION CalmSpec
CONSTANTS
    e1 = e1
    e2 = e2
    e3 = e3
    r1 = r1
    r2 = r2
    r3 = r3
    Emails = {e1, e2}
    Reqs = {r1}
    MaxUsers = 2
    MaxVersion = 1
    IdReuse = TRUE
    Bootstrap = TRUE
    Failing = {}
    NoUser = NoUser
    NoReq = NoReq
INVARIANTS TokenOpensOwn
