CONSTANTS
    v1 = v1
    v2 = v2
    Vars = {v1, v2}
    NoVar = NoVar
    Programs <- MCPrograms
CHECK_DEADLOCK FALSE
SPECIFICATION Spec
INVARIANTS RequestsFollowTheSteps ConfirmGatesTheLoop NoFailureIsSilent GuardedStepsFollowTheirSource
