SPECIFICATION Spec
CONSTANTS
    Entity = {e1, e2, e3}
    Guid = {g1}
    Null = Null
    NewGuid = NewGuid
    NumProps = 2
    MaxDepth = 4
INVARIANT
    GuidUnique
