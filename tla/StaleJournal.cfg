CONSTANTS
    None = None
    Mixed = Mixed
    Skills = {k1}
    Hashes = {h1, h2, h3}
    Txs = {t1, t2}
    Faults = {"crash", "io"}
    MaxFaults = 2
SPECIFICATION Spec
SYMMETRY TxSymmetry
INVARIANTS DeployTransactional
