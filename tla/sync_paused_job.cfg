\* A mailbox paused for longer than the stall window.
CONSTANTS
    Worker = {w1}
    OAuth = FALSE
    MaxMail = 1
    MaxNumberings = 1
    PageSize = 1
    MaxPagesPerTick = 1
    MaxSyncFailures = 1
SPECIFICATION Spec
PROPERTIES
    PausedJobStaysOpen
