\* Two overlapping ticks, a backfill of two pages, pauses, crashes.
CONSTANTS
    Worker = {w1, w2}
    OAuth = FALSE
    MaxMail = 2
    MaxNumberings = 1
    PageSize = 1
    MaxPagesPerTick = 2
    MaxSyncFailures = 1
SPECIFICATION Spec
INVARIANTS
    TypeOK
    NoMailSkipped
    CompletedJobReadItAll
    PauseStopsReading
PROPERTIES
    KeepsPromise
SYMMETRY WorkerSymmetry
