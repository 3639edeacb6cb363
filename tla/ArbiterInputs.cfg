SPECIFICATION Spec

CONSTANTS
    c1 = c1
    c2 = c2
    Content <- MCContent
    Missing = Missing
    MaxKills = 2
    MaxEdits = 2

SYMMETRY Symmetry

INVARIANTS
    NoFalseDrift
    ResultOfBoundInputs

PROPERTIES
    BindingIsKept
    LifecycleSpec

CHECK_DEADLOCK FALSE
