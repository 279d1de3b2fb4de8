SPECIFICATION Spec
CONSTANTS
    advertiser = advertiser
    manager = manager
    Customers <- MCCustomers
    Calls = {w1, w2}
    Amounts = {1, 3}
    Fee = 1
    Deals = {d1, d2}
    Advertiser <- MCAdvertiser
    Manager <- MCManager
    Price <- MCPrice
    InitialBalance <- MCInitialBalance
    MaxMoved = 9
    MaxFaults = 1
    Nobody = Nobody
SYMMETRY MCSymmetry
CHECK_DEADLOCK FALSE
INVARIANTS
    Solvent
