SPECIFICATION Spec
CONSTANTS
    u1 = u1
    u2 = u2
    r1 = r1
    r2 = r2
    Users = {u1, u2}
    Apps = {"genio"}
    Channels = {"ombra"}
    Arches = {"x86_64"}
    LiveChannels = {"ombra"}
    Reqs = {r1, r2}
    MaxId = 3
    IdReuse = FALSE
    LegacyDaemon = TRUE
    NoRow = NoRow
    NoChannel = NoChannel
    Idle = Idle
INVARIANTS TypeOK OneRowPerApp NoOrphanRows InstalledWasHanded
PROPERTY OwnRowsOnly
SYMMETRY Symmetry
