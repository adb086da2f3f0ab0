CONSTANTS
    w1 = w1
    w2 = w2
    a = a
    b = b
    food = food
    lunch = lunch
    Writers <- TwoWriters
    Boards = {"income", "expense"}
    Names <- TwoNames
    Templates <- TwoTemplates
    Shipped <- OnlyFood
    MaxDepth = 2
    MaxRows = 3
    None = None
SPECIFICATION Spec
SYMMETRY Symmetry
INVARIANTS
    CatalogueSound
    OnlySwapsDeadlock
PROPERTIES
    MemorySpec
