SPECIFICATION Spec
CONSTANTS
    p1 = p1
    p2 = p2
    s1 = s1
    s2 = s2
    n1 = n1
    None = None
    l1 = l1
    Processes = {p1, p2}
    Settings <- MCSettings
    Spellings = {s1, s2}
    Names = {n1}
    Strip <- MCStrip
    Limits = {l1}
    MaxIds = 2
    MaxLate = 1
SYMMETRY ProcessSymmetry
INVARIANTS
    TypeOK
    NoProcessDuplicates
    HeldTokenIsLive
    LimitsAreApplied
    ShutOffHolds
