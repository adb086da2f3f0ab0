\* Three jobs, two workers, a queue of one: submissions are rejected.
CONSTANTS
    w1 = w1
    w2 = w2
    JobCount = 3
    Workers <- TwoWorkers
    Capacity = 1
    Leased <- OnlyFirst
SPECIFICATION FairSpec
CHECK_DEADLOCK FALSE
INVARIANTS JobsSound StopsQuiet
PROPERTIES ProcessEnds JobsGoOn
