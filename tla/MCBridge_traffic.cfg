SPECIFICATION FairSpec
CONSTANTS
    u1 = u1
    u2 = u2
    Users = {u1}
    AdminConfigs <- MCAdminConfigs
    Senders = {s1, s2}
    Kinds = {"SendDealData", "DealMessage", "NotifyBoth"}
    Texts = {}
    Cap = 1
    MaxRestarts = 0
    NoUser = NoUser
PROPERTIES
    SendersGetThrough
    ChannelsAreServed
CHECK_DEADLOCK FALSE
