SPECIFICATION PollingSpec
CONSTANTS
    u1 = u1
    u2 = u2
    r1 = r1
    r2 = r2
    Users = {u1}
    Apps = {"genio", "yab"}
    Channels = {"ombra"}
    Arches = {"x86_64"}
    LiveChannels = {"ombra"}
    Reqs = {r1, r2}
    MaxId = 2
    IdReuse = FALSE
    LegacyDaemon = FALSE
    NoRow = NoRow
    NoChannel = NoChannel
    Idle = Idle
PROPERTY PrunedRequestsSettle
