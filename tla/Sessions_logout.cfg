SPECIFICATION Spec
CONSTANTS
    Tokens = {t1}
    Requests = {r1, r2, r3}
    PoolSize = 2
    Unknown = Unknown
    None = None
INVARIANTS
    IInv
    LogoutIsFinal
PROPERTIES
    PoolRecovers
    EveryRequestEnds
