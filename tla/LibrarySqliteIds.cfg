SPECIFICATION Spec
CONSTANTS
    u1 = u1
    u2 = u2
    r1 = r1
    r2 = r2
    Users = {u1, u2}
    Apps = {"genio"}
    Channels = {"stable"}
    Arches = {"x86_64"}
    LiveChannels = {}
    Reqs = {r1, r2}
    MaxId = 3
    IdReuse = TRUE
    LegacyDaemon = FALSE
    NoRow = NoRow
    NoChannel = NoChannel
    Idle = Idle
PROPERTY OwnRowsOnly
