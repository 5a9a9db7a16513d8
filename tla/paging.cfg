SPECIFICATION FairSpec
CONSTANTS
    Limits <- MCLimits
    MaxRows = 14
INVARIANT NothingIsSkipped
PROPERTIES
    CallsBringNewRows
    AllIsRead
