CONSTANTS
    Calls <- MCCalls
    MaxPages = 2
    MaxInbox = 2
SPECIFICATION Spec
INVARIANTS
    SecretsAreFetchedOnce
    NothingLeavesUnresolved
    ExitClassTellsWhatHappened
    DryRunStaysHome
    LintedServicesDoNotMisfire
    LoginThenAnswer
PROPERTIES
    InvocationEnds
CHECK_DEADLOCK FALSE
