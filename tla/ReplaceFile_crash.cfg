SPECIFICATION Spec
CONSTANTS
    Call = {c1, c2}
    Inherited = Inherited
    MaxCrashes = 2
INVARIANTS
    TargetNeverTorn
    FailureLeavesNothing
    CancelledNeverPublished
    IInv
PROPERTIES
    ReplacesAtomically
CHECK_DEADLOCK FALSE
