SPECIFICATION FairSpec
CONSTANTS
    echo = echo
    s2 = s2
    None = None
    Odd = Odd
    Prices = {0, 1, 2}
    Services = {echo, s2}
    Echo = echo
    Llm = s2
    Offers <- MCOffers
    Settings <- MCSettings
    MaxCost = 1
    MaxRuns = 2
INVARIANTS
    TypeOK
    FreeFlowsStayFree
    PassingE2eIsGood
    RerunsReportOneCall
PROPERTY RunsEnd
