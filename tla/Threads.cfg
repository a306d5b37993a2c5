CONSTANTS
    None = None
    LocalIds = {}
    ServerIds = {s1}
    Hashes = {h1}
    SlugOf <- OwnSlugs
    ClaimLimit = 50
    MaxMutations = 2
    MaxRest = 2
    MaxRev = 9
    MaxSeq = 9
    RestOps = {"create", "update"}
    Threads = {"worker", "ui"}
    UserOps = {"edit", "keep_local", "keep_remote"}
    MaxFailures = 1
    Faults = {"timeout", "crash"}
SPECIFICATION FairSpec
INVARIANTS ClaimExclusive
PROPERTIES StoreSpec EventuallySettles FeedDrains
