CONSTANTS
    Kid = {k1, k2, k3}
    MaxValidKeys = 2
    Worker = {w1, w2}
    Free = Free
    None = None
    Raised = Raised
    MaxVersions = 3
SPECIFICATION Spec
SYMMETRY Symmetry
INVARIANTS TypeOK OneVersion
