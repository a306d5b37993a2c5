SPECIFICATION Spec
CONSTANTS
    a = a
    builtin = builtin
    custom = custom
    h1 = h1
    h2 = h2
    d1 = d1
    d2 = d2
    None = None
    Skills = {a}
    Profiles = {builtin, custom}
    Builtin = {builtin}
    Homes = {h1, h2}
    RootAt <- MCRootAt
    Dirs = {d1, d2}
    MaxTime = 2
INVARIANTS CatalogTypeOK RowsUnderRoot RevokedStaysUndeployed
PROPERTIES ExpiredIsRevoked
