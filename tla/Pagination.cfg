CONSTANTS
    MaxPages = 4
    MaxPageLen = 3
    MaxLimit = 5
    MaxItems = 14
    Cursors = {c1, c2, c3, c4, c5}
    AnyService = AnyService
    NoCursor = NoCursor
CHECK_DEADLOCK FALSE
SPECIFICATION FairPageSpec
INVARIANTS NoItemIsDropped NoPageTwice CompleteResult
PROPERTIES EndsWithinTheCap
