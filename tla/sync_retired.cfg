\* A send finds the credential dead while a tick's page is in flight.
CONSTANTS
    Worker = {w1}
    OAuth = TRUE
    MaxMail = 1
    MaxNumberings = 1
    PageSize = 1
    MaxPagesPerTick = 1
    MaxSyncFailures = 2
SPECIFICATION Spec
PROPERTIES
    RetiredWaitsForOwner
