\* A backfill that needs two ticks, of a mailbox renumbered once and retried after a failure, under fairness.
CONSTANTS
    Worker = {w1}
    OAuth = FALSE
    MaxMail = 2
    MaxNumberings = 2
    PageSize = 1
    MaxPagesPerTick = 1
    MaxSyncFailures = 2
SPECIFICATION FairSpec
INVARIANTS
    NoMailSkipped
PROPERTIES
    MailIsRead
    JobsEnd
