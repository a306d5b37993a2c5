CONSTANTS
    None = None
    LocalIds = {k1}
    ServerIds = {s1}
    Hashes = {h1}
    SlugOf <- OwnSlugs
    ClaimLimit = 50
    MaxMutations = 2
    MaxRest = 0
    MaxRev = 9
    MaxSeq = 9
    RestOps = {}
    Threads = {"worker"}
    UserOps = {"edit", "keep_local"}
    MaxFailures = 0
    Faults = {}
SPECIFICATION SyncSpec
INVARIANTS SoleWriterAccepted
