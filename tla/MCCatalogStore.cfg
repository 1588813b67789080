CONSTANTS
    Procs = {p1, p2}
    Names = {n1}
    Sources = {s1}
    MaxRev = 2
    f1 = f1
    f2 = f2
    s1 = s1
    Files = {f1, f2}
    Members <- MCMembers
    Portable <- MCPortable
    Dirs = {d1, d2, d3}
    Meta = Meta
    NoDir = NoDir
    NoBundle = NoBundle
    NoName = NoName
    NoSource = NoSource
SYMMETRY MCSymmetry
SPECIFICATION Spec
INVARIANTS OneBundlePerCatalog
PROPERTIES StagingIsPrivate ImplementsLifecycle WholeOnArrival PlainAddNeverReplaces OnlyItsOpenerEmptiesACatalog
