CONSTANTS
    Calls <- MCCalls
    MaxPages = 2
    MaxInbox = 2
SPECIFICATION Spec
INVARIANT DryRunResolvesNothing
CHECK_DEADLOCK FALSE
