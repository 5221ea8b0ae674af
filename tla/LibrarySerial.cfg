SPECIFICATION FairSpec
CONSTANTS
    u1 = u1
    u2 = u2
    r1 = r1
    r2 = r2
    Users = {u1, u2}
    Apps = {"genio"}
    Channels = {"stable", "ombra"}
    Arches = {"x86_64"}
    LiveChannels = {"ombra"}
    Reqs = {r1}
    MaxId = 3
    IdReuse = TRUE
    LegacyDaemon = FALSE
    NoRow = NoRow
    NoChannel = NoChannel
    Idle = Idle
INVARIANT DownloadsAreReal
PROPERTIES ImplementsQueue PrunedRequestsSettle
