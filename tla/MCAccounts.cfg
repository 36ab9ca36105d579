CONSTANTS
    User = {u1, u2}
    Name = {n1, n2}
    Password = {p1, p2}
    Request = {r1, r2}
    Idle = Idle
    None = None
    MaxTokens = 2
SPECIFICATION Spec
SYMMETRY Symmetry
INVARIANTS TypeOK LoginTrue
PROPERTY ResetByOwnToken
