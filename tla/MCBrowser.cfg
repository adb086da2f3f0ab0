CONSTANTS
    t1 = t1
    t2 = t2
    s1 = s1
    s2 = s2
    u1 = u1
    u2 = u2
    x = x
    y = y
    None = None
    Tabs <- TwoTabs
    Users <- TwoUsers
    Sessions <- TwoSessions
    Things <- TwoThings
    Casts <- TabsAndPage
SPECIFICATION Spec
SYMMETRY Alike
CONSTRAINT Scene
CHECK_DEADLOCK FALSE
INVARIANTS NoFalseAlarm OwnScreen AsAsked WaitsEnd
