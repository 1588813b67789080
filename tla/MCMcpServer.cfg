CONSTANTS
    Setups <- MCSetups
    Inputs <- MCInputs
    Clients = {c1, c2}
SYMMETRY MCSymmetry
SPECIFICATION Spec
INVARIANTS
    ReadOnlyToolsOnlyRead
    AnsweredWritesAreAudited
    NothingRunsUnguarded
CHECK_DEADLOCK FALSE
