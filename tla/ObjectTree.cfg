SPECIFICATION Spec
CONSTANTS
    Object = {root, o1, o2, o3}
    Root = root
    Ref = {r1}
    Null = Null
    MaxClaims = 2
    MaxCwds = 1
SYMMETRY Symmetry
INVARIANTS
    TypeOK
    NothingDangles
PROPERTIES
    OnlyReleasedDie
    CwdStaysValid
CHECK_DEADLOCK FALSE
