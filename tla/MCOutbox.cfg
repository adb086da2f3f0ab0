SPECIFICATION FairSpec
CONSTANTS
    Messages = {1, 2}
    Publishers = {a, b}
    Handlers = {1}
    Subscribed <- MCSubscribed
    MaxRetry = 2
    BatchSize = 2
    AuditBatch = 1
    RetryKeys = {k1}
    MaxFaults = 1
INVARIANTS ClaimsSound DeliveredExactlyOnce DeadLetterIffExhausted
PROPERTIES SettledByHolder DeliverySpec Resolves
