CONSTANTS
    None = None
    LocalIds = {k1}
    ServerIds = {s1, s2}
    Hashes = {h1}
    SlugOf <- SameSlug
    ClaimLimit = 50
    MaxMutations = 2
    MaxRest = 3
    MaxRev = 9
    MaxSeq = 9
    RestOps = {"create", "update", "delete", "purge"}
    Threads = {"worker"}
    UserOps = {"edit", "delete", "keep_local", "keep_remote"}
    MaxFailures = 2
    Faults = {"timeout", "session", "crash"}
SYMMETRY IdSymmetry
SPECIFICATION SyncSpec
INVARIANTS StoreTypeOK ChainOrder NoStaleWedge OneRowPerRemote ExactlyOnce AckedIsReceipted
PROPERTIES UnackedWorkSurvives NeverOverwritesUnseen
