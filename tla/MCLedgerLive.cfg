SPECIFICATION FairSpec
CONSTANTS
    Accounts = {1, 2}
    Postings = {1}
    Currencies = {eur}
    Sessions = {s, t}
    Ops <- WaitingOps
PROPERTIES RequestsEnd
CHECK_DEADLOCK FALSE
