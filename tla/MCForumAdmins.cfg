CONSTANTS
    Request = {r1, r2}
    User = {u1, u2, u3}
    Forum = {f1, f2}
    Name = {n1}
    Idle = Idle
    NoForum = NoForum
SPECIFICATION Spec
SYMMETRY Symmetry
INVARIANTS TypeOK OneOwner OneName
PROPERTY ChangeEntitled
