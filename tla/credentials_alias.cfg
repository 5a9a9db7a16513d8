SPECIFICATION Spec
CONSTANTS
    p1 = p1
    s1 = s1
    s2 = s2
    n1 = n1
    None = None
    l1 = l1
    l2 = l2
    Processes = {p1}
    Settings <- MCUpdate
    Spellings = {s1, s2}
    Names = {n1}
    Strip <- MCStrip
    Limits = {l1, l2}
    MaxIds = 2
    MaxLate = 1
INVARIANT LimitsAreApplied
