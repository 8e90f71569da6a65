SPECIFICATION Spec
CONSTANTS
    Emails = {e1}
    Challenges = {c1, c2}
    Requests = {r1, r2}
    MaxAttempts = 2
    Ttl = 1
    Cooldown = 0
    MaxTime = 1
    Absent = Absent
    None = None
INVARIANTS
    IInv
    LoginsAreWhole
    AnsweredIsStoredAndSent
PROPERTIES
    WrongCodesAreCounted
    ImplementsAtomicOtp
    CooldownWithoutOverlap
    EveryRequestEnds
