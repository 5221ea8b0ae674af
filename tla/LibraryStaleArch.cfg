SPECIFICATION Spec
CONSTANTS
    u1 = u1
    u2 = u2
    r1 = r1
    r2 = r2
    Users = {u1}
    Apps = {"genio"}
    Channels = {"stable"}
    Arches = {"x86_64", "x86_gcc2"}
    LiveChannels = {}
    Reqs = {r1}
    MaxId = 2
    IdReuse = FALSE
    LegacyDaemon = FALSE
    NoRow = NoRow
    NoChannel = NoChannel
    Idle = Idle
PROPERTY ConfirmKeepsNewerArch
