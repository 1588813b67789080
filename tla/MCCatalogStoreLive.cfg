CONSTANTS
    Procs = {p1, p2}
    Names = {n1, n2}
    Sources = {s1}
    MaxRev = 1
    f1 = f1
    f2 = f1
    s1 = s1
    Files = {f1}
    Members <- MCMembers
    Portable <- MCPortable
    Dirs = {d1, d2}
    Meta = Meta
    NoDir = NoDir
    NoBundle = NoBundle
    NoName = NoName
    NoSource = NoSource
SPECIFICATION FairSpec
PROPERTIES CommandsEnd
