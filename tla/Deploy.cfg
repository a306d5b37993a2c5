CONSTANTS
    None = None
    Mixed = Mixed
    Skills = {k1}
    Hashes = {h1, h2}
    Txs = {t1, t2}
    Faults = {"crash", "recovery_crash", "io", "tamper", "tombstone"}
    MaxFaults = 3
SPECIFICATION Spec
SYMMETRY TxSymmetry
INVARIANTS DeployTypeOK RecoveredClean CatalogHonest SetAsideIsJournaled
PROPERTIES RemovalNeedsCatalog
