\* Two events to one subscription that is disabled, re-enabled and deleted; three attempts.
CONSTANTS
    Event = {e1, e2}
    Subscription = {s1}
    MaxAttempts = 3
SPECIFICATION FairSpec
INVARIANTS TypeOK LoggedSuccessIsFinal FailuresAreOnRecord
PROPERTIES OnlyExhaustionFails DeliveryEnds KeepsPromise
