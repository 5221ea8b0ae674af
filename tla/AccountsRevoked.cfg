SPECIFICATION CalmSpec
CONSTANTS
    e1 = e1
    e2 = e2
    e3 = e3
    r1 = r1
    r2 = r2
    r3 = r3
    Emails = {e1}
    Reqs = {r1, r2}
    MaxUsers = 1
    MaxVersion = 3
    IdReuse = FALSE
    Bootstrap = FALSE
    Failing = {}
    NoUser = NoUser
    NoReq = NoReq
PROPERTIES RevokedForGood
