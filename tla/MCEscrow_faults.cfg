SPECIFICATION FairSpec
CONSTANTS
    advertiser = advertiser
    manager = manager
    channel = channel
    Customers <- MCCustomers
    Channels <- MCChannels
    Deals = {d1}
    Requests = {r1}
    Advertiser <- MCAdvertiser
    Manager <- MCManager
    ChannelOf <- MCChannelOf
    Price <- MCPrice
    InitialBalance <- MCScarceBalance
    Lifetime = 2
    Lead = 1
    Horizon = 1
    TopHours = 1
    CommonHours = 2
    AutoPostCap = 1
    MaxTime = 3
    MaxFaults = 1
    MaxWatchers = 2
    NoDeal = NoDeal
INVARIANTS
    BalanceNonNegative
    RefundsBounded
    BooksBalance
    SettledExactly
    PostedOnce
PROPERTIES
    RefundsHappen
    ExpiryHappens
    CompletionHappens
