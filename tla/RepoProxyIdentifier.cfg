SPECIFICATION Spec
CONSTANTS
    s1 = s1
    s2 = s2
    h1 = h1
    h2 = h2
    h3 = h3
    j = j
    x = x
    g1 = g1
    g2 = g2
    f1 = f1
    f2 = f2
    b1 = b1
    b2 = b2
    u1 = u1
    u2 = u2
    Uuids = {u1, u2}
    Slots = {s1}
    Hpkgs = {h1, h2}
    Junk = {}
    Bare = {}
    Groups = {g1}
    Files = {f1, f2}
    Group <- GroupDef
    File <- FileDef
    Builds = {b1, b2}
    ToolFails = FALSE
    Crashes = FALSE
    Torn = Torn
    None = None
    Idle = Idle
PROPERTIES IdentifierKept
SYMMETRY Symmetry
