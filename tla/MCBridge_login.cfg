SPECIFICATION Spec
CONSTANTS
    u1 = u1
    u2 = u2
    Users = {u1, u2}
    AdminConfigs <- MCAdminConfigs
    Senders = {s1}
    Kinds = {"DealMessage"}
    Texts = {x1}
    Cap = 1
    MaxRestarts = 1
    NoUser = NoUser
INVARIANTS
    TypeOK
    PromptIsAnswerable
    CodesAreFresh
    ConsumerNeverBlocks
CHECK_DEADLOCK FALSE
