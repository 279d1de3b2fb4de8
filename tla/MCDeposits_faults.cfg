SPECIFICATION FairSpec
CONSTANTS
    alice = alice
    bob = bob
    alices = alices
    t1 = t1
    Customers <- MCCustomers
    Txs = {t1, t2}
    Own <- MCOwn
    To <- MCTo
    Addresses = {alices}
    Other = Other
    Nobody = Nobody
    Amount <- MCAmount
    InitialBalance <- MCInitialBalance
    Burst = 1
    MaxMaster = 2
    MaxEdits = 1
    MaxFaults = 1
INVARIANTS
    TypeOK
    CreditedOnce
    IndexedUpToSeqno
    BalanceIsDeposits
PROPERTIES
    EveryDepositCredited
