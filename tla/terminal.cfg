SPECIFICATION Spec

CONSTANTS
    Staff <- People
    Roles <- TheirRoles
    AreaOf <- TwoAreas
    Shifts <- SmallShifts

INVARIANTS
    PageFits
    OwnTable
    FreshBoardNeverCrowds

PROPERTIES
    SessionKept
    LockComes
    FloorCatchesUp
    KitchenCatchesUp

\* A shift ends: its sign-ins are used and nobody is signed in.
CHECK_DEADLOCK FALSE
