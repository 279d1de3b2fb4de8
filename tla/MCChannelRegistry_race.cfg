SPECIFICATION Spec
CONSTANTS
    owner = owner
    admin = admin
    advertiser = advertiser
    channel = channel
    Customers <- MCCustomers
    Chats <- MCChats
    Admins <- MCAdmins
    Requests = {r1, r2, r3, r4}
    Deals = {d1}
    MaxFaults = 1
    MaxRemovals = 2
    Nobody = Nobody
SYMMETRY MCSymmetry
INVARIANTS
    TypeOK
    ChannelsHaveOneManager
    DealsAreWithTheManager
    OpenChannelsHaveTheBot
PROPERTIES
    StrandedByItsManager
CHECK_DEADLOCK FALSE
