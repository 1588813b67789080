CONSTANTS
    Procs = {p1, p2}
    Service <- MCService
    Histories <- MCHistories
    Sources <- MCSources
    Ttl = 2
    Timeout = 1
    MaxTime = 5
SPECIFICATION Spec
SYMMETRY MCSymmetry
INVARIANTS
    SpecsAreFresh
    CommandsAreVouchedFor
    GeneratedManifestsAreSound
CHECK_DEADLOCK FALSE
