CONSTANTS
    Procs = {p1, p2}
    Endpoints = {e1}
    Scopes = {s1, s2}
    Lifetimes = {1, 3}
    DefaultLife = 4
    Margin = 1
    Timeout = 1
    MaxTime = 3
    NoKey = NoKey
    NoToken = NoToken
    NoEntry = NoEntry
SYMMETRY MCSymmetry
SPECIFICATION Spec
INVARIANTS TokenOfItsKey
PROPERTIES CacheHitsAreHonoured
