\* One enrollment that the ticks of two processes work on, over two steps that
\* may be added, moved and deleted under it.
CONSTANTS
    Process = {p1, p2}
    Step = {s1, s2}
    NoStep = NoStep
    Enrollment = {e1}
    Contact = {c1}
    ContactOf <- MCContactOf
    MaxOrder = 2
    MaxEdits = 1
SPECIFICATION FairSpec
INVARIANTS TypeOK NeverStranded StepsFireOnce FireOncePerArrival OneLateStepEach
PROPERTIES EnrollmentsEnd KeepsPromise
CHECK_DEADLOCK FALSE
