\* A compose and its repeat under one key, with crashes, the sweep, the purge and a disconnect.
CONSTANTS
    r1 = r1  r2 = r2  r3 = r3  r4 = r4
    k1 = k1  k2 = k2  alice = alice  box = box
    Request = {r1, r2}
    Key = {k1}
    User = {alice}
    Account = {box}
    KeyOf <- MCKeyOf
    UserOf <- MCUserOf
    AcctOf <- MCAcctOf
    BodyOf <- MCBodyOf
    NoRequest = NoRequest
    SyncPage = SyncPage
    Rewritten = {r1}
    EnforceLimit = TRUE
    MaxPerHour = 2
    Disconnectable = {box}
SPECIFICATION FairSpec
INVARIANTS TypeOK RefusalSentNothing FiledOnce EvidenceIsTrue AtMostOneMail
PROPERTIES KeepsPromise EverySendSettles EveryMailAudited
CHECK_DEADLOCK FALSE
