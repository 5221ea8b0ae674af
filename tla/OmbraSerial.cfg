SPECIFICATION Spec
CONSTANTS
    a1 = a1
    a2 = a2
    r1 = r1
    r2 = r2
    Apps = {a1, a2}
    Arches = {"x86_64"}
    Configs = {"old", "new"}
    Listed <- ListedOne
    MaxVersion = 2
    Ships <- ShipsSome
    Outages = TRUE
    Reqs = {r1}
    NoReq = NoReq
    None = None
INVARIANTS ServedForConfig VersionOfArtifacts
SYMMETRY AppSymmetry
