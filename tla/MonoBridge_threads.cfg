SPECIFICATION FairSpec
CONSTANTS
    Threads = {t1, t2}
    Objects = {o}
    UnoObjects = {u}
    TheBridge = TheBridge
    Nobody = Nobody
    MaxHeld = 2
INVARIANTS
    Counts
    FailsOnlyAfterFree
    FailsOnlyWithTwoBridges
PROPERTY
    LockIsReturned
