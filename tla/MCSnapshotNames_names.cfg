SPECIFICATION Spec
CONSTANTS
    Setups <- SmallSetups
    TokenOrder <- SmallOrder
    Rounds = 2
INVARIANTS
    IdsAreRead
    RestoresOwnSchedule
CHECK_DEADLOCK FALSE
