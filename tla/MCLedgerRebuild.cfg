SPECIFICATION Spec
CONSTANTS
    Accounts = {1, 2}
    Postings = {1, 2}
    Currencies = {eur}
    Sessions = {s, t}
    Ops <- RebuildOps
INVARIANTS CacheExact
