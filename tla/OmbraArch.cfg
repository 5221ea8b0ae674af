SPECIFICATION Spec
CONSTANTS
    a1 = a1
    a2 = a2
    r1 = r1
    r2 = r2
    Apps = {a1}
    Arches = {"x86_64", "x86_gcc2"}
    Configs = {"old"}
    Listed <- ListedOne
    MaxVersion = 1
    Ships <- ShipsSome
    Outages = FALSE
    Reqs = {r1}
    NoReq = NoReq
    None = None
INVARIANTS RefusedRightly
