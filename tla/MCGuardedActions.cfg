SPECIFICATION Spec
CONSTANTS
    Request = {r1, r2}
    User = {alice}
    Idle = idle
    MaxEvents = 3
SYMMETRY RequestSymmetry
INVARIANTS
    TypeOK
    OneHolder
    OneEventPending
    DeletionAuthorised
