\* One flag, two ticks and two administrators with three edits; stages at two times.
CONSTANTS
    Flag = {f1}
    Tick = {t1, t2}
    Request = {r1, r2}
    Percent = {10, 50}
    Null = Null
    Nobody = Nobody
    MaxTime = 2
    MaxEdits = 3
SPECIFICATION FairSpec
INVARIANTS TypeOK
PROPERTIES ChangesAreAudited PlanIsCarriedOut DueStagesAdvance
