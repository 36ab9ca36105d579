CONSTANTS
    Admin = {a1, a2}
    Root = a1
    Request = {r1, r2}
    Idle = Idle
    Free = Free
    Limit = 2
    MaxRows = 2
SPECIFICATION Spec
SYMMETRY Symmetry
INVARIANTS TypeOK LockFlips
PROPERTIES LockJustified ActsInSession
