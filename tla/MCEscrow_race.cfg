SPECIFICATION Spec
CONSTANTS
    advertiser = advertiser
    manager = manager
    channel = channel
    Customers <- MCCustomers
    Channels <- MCChannels
    Deals = {d1}
    Requests = {r1, r2}
    Advertiser <- MCAdvertiser
    Manager <- MCManager
    ChannelOf <- MCChannelOf
    Price <- MCPrice
    InitialBalance <- MCAmpleBalance
    Lifetime = 1
    Lead = 1
    Horizon = 1
    TopHours = 1
    CommonHours = 1
    AutoPostCap = 1
    MaxTime = 2
    MaxFaults = 0
    MaxWatchers = 0
    NoDeal = NoDeal
SYMMETRY MCSymmetry
INVARIANTS
    TypeOK
    FundedBeforePaid
    DisplayedAsAgreed
PROPERTIES
    KeepsContract
