\* Two requests and two questions at once; the time to live is two units of three.
CONSTANTS
    Request = {r1, r2}
    Asker = {a1, a2}
    Nobody = Nobody
    Ttl = 2
    MaxTime = 3
    MaxEdits = 4
SPECIFICATION Spec
SYMMETRY Interchangeable
INVARIANTS TypeOK ShutMeansNo
PROPERTIES MembershipIsAudited
