\* Two composes of one user at a ceiling of one.
CONSTANTS
    r1 = r1  r2 = r2  r3 = r3  r4 = r4
    k1 = k1  k2 = k2  alice = alice  box = box
    Request = {r1, r3}
    Key = {k1, k2}
    User = {alice}
    Account = {box}
    KeyOf <- MCKeyOf
    UserOf <- MCUserOf
    AcctOf <- MCAcctOf
    BodyOf <- MCBodyOf
    NoRequest = NoRequest
    SyncPage = SyncPage
    Rewritten = {r1}
    EnforceLimit = TRUE
    MaxPerHour = 1
    Disconnectable = {}
SPECIFICATION Spec
INVARIANTS CeilingHolds
PROPERTIES OnlyRefusalsUncounted NoIntentDeletedUnaudited
CHECK_DEADLOCK FALSE
