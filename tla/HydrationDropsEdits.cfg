SPECIFICATION Spec
CONSTANTS
    t1 = t1
    t2 = t2
    f1 = f1
    f2 = f2
    Skills = {a, b}
    Trees = {t1, t2}
    Files = {f1, f2}
    FilesOf <- FilesOfTree
    Budgets = {2}
    None = None
    Partial = Partial
    MaxVersions = 2
    MaxPublished = 3
    MaxEdits = 1
    MaxCommands = 2
    MaxFaults = 1
INVARIANTS LocalWorkSurvives
SYMMETRY SkillSymmetry
CHECK_DEADLOCK FALSE
