CONSTANTS
    Procs = {p1, p2}
    Tags = {"v1", "v2"}
    Dev = "dev"
    Flags <- MCFlags
    MaxBuilds = 2
    Noise = Noise
    None = None
SPECIFICATION Spec
SYMMETRY MCSymmetry
INVARIANTS
    InstalledBinaryIsVerified
    OnlySuccessLeavesATrace
CHECK_DEADLOCK FALSE
