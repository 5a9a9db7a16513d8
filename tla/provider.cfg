SPECIFICATION Spec
CONSTANTS
    p1 = p1
    p2 = p2
    n1 = n1
    symbols = symbols
    i1 = i1
    Odd = Odd
    None = None
    Blank = Blank
    Prices = {0, 1}
    Programs = {p1, p2}
    Names = {n1, symbols}
    Ids = {i1}
    Slug <- MCSlug
    Offers <- MCOffers
    Patches = {"token_metered"}
    Faults = {"lost", "late", "unreadable"}
    MaxRecords = 2
    MaxDraws = 2
    MaxLate = 1
SYMMETRY ProgramSymmetry
INVARIANTS
    TypeOK
    NamesPublishedOnce
    OnboardingSeesItsService
    DeletedStaysGone
    FreeMeansAskedFree
