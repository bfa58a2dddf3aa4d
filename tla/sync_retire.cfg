\* An OAuth mailbox whose grant may be revoked, two overlapping ticks.
CONSTANTS
    Worker = {w1, w2}
    OAuth = TRUE
    MaxMail = 1
    MaxNumberings = 1
    PageSize = 1
    MaxPagesPerTick = 1
    MaxSyncFailures = 2
SPECIFICATION Spec
INVARIANTS
    RetirementIsAudited
SYMMETRY WorkerSymmetry
