SPECIFICATION Spec
CONSTANTS
    Accounts = {1, 2}
    Postings = {1, 2}
    Currencies = {eur, usd}
    Sessions = {s, t}
    Ops <- LockingOps
SYMMETRY Symmetry
CONSTRAINT Scene
INVARIANTS PostingsSound CacheExact ReadsRecent
PROPERTIES MemorySpec
