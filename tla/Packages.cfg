SPECIFICATION FairSpec
CONSTANTS
    Captured = {2}
    Synthesized = {3}
    Files <- SharedFiles
    Skills = {k}
    Devices = {d}
    Browsers = {b}
    BatchSize = 3
    NoObject = NoObject
    MaxFailures = 1
INVARIANTS PackageTypeOK CompleteUnlessRaced UploadsSuffice
PROPERTIES FreshIsKept GarbageCollected
