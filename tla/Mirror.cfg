CONSTANTS
    None = None
    LocalIds = {}
    ServerIds = {s1}
    Hashes = {h1, h2}
    SlugOf <- OwnSlugs
    ClaimLimit = 50
    MaxMutations = 2
    MaxRest = 4
    MaxRev = 9
    MaxSeq = 9
    RestOps = {"create", "update", "delete", "restore", "touch"}
    Threads = {"worker"}
    UserOps = {"edit", "keep_local", "hydrate", "evict"}
    MaxFailures = 1
    Faults = {"upload", "pull"}
SYMMETRY HashSymmetry
SPECIFICATION SyncSpec
INVARIANTS MirrorCoversCursor TombstonesClear Converged
