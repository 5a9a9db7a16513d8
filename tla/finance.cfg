SPECIFICATION Spec
CONSTANTS
    c1 = c1
    c2 = c2
    d1 = d1
    v1 = v1
    w1 = w1
    Unlimited = Unlimited
    Callers = {c1, c2}
    Deposits = {d1}
    Vouchers = {v1}
    Withdrawals = {w1}
    Keyed = {w1}
    Limits = {0, 2}
    Faults = {"lost", "late"}
    MaxDraws = 2
    MaxSpent = 3
    MaxLate = 1
SYMMETRY CallerSymmetry
INVARIANTS
    TypeOK
    KeyedNeedsMoveOnce
    DepositsCreditOnce
    ReturnsAreBooked
    LimitCapsSpending
