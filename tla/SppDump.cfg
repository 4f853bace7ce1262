SPECIFICATION FairSpec
CONSTANTS
    Cpus = {c1, c2}
    HookCpus = {c1, c2}
    WorkCpus = {c1, c2}
    Limit = 3
    Width = 3
    HZ = 200
    Gaps = {0, 9}
    Toses = {0, 1}
    KeepsUp = TRUE
INVARIANTS
    TypeOK
    Accounted
    BelowLimit
    NeverSelfLocked
PROPERTIES
    CopiesGoOut
