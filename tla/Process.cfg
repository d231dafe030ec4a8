SPECIFICATION Spec
CONSTANTS
    Calls = {c1, c2}
    Clients = {f1, f2}
    Resolvers = {f1, f2}
    None = None
    Configs <- MCConfigs
    Milli = 3
    MaxInt = 31
    Infinite = Infinite
    Default = 5
    Lookups = {l1, l2}
    TXTNames = {n1, n2}
    Servers = 2
    Living = {1}
    Attempts = 2
    Limit = 1
    Lifetime = 1
    MaxQuery = 1
INVARIANTS
    ProcessInv
    NoClientLeaks
PROPERTIES
    LiveAnswersStay
SYMMETRY MCSymmetry
