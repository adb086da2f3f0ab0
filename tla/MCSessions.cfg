\* Two sessions, two requests at a time, three tokens in use; a closing lapses
\* within the clock. Tokens run out: the system may then rest.
CONSTANTS
    s1 = s1
    s2 = s2
    t1 = t1
    t2 = t2
    t3 = t3
    r1 = r1
    r2 = r2
    Sessions <- TwoSessions
    Tokens <- ThreeTokens
    Requests <- TwoRequests
    AccessTTL = 1
    RefreshTTL = 3
    Patience = 1
    MaxClock = 4
    None = None
SPECIFICATION Spec
CHECK_DEADLOCK FALSE
SYMMETRY Symmetry
CONSTRAINT Scene
INVARIANTS TokensSound ClosingHolds SomebodyMoves
