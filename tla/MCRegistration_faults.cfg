SPECIFICATION FairSpec
CONSTANTS
    Users = {u1, u2}
    Calls = {r1, r2, r3}
    Strings = {2, Empty}
    Empty = Empty
    MaxFaults = 1
    Nobody = Nobody
INVARIANTS
    WalletIsOwn
    WalletlessIsExplained
PROPERTIES
    WalletsArrive
CHECK_DEADLOCK FALSE
