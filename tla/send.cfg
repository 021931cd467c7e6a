SPECIFICATION FairSpec
CONSTANTS
    Calls = {c1, c2}
    Payments = {p1}
    Inquiry = Inquiry
    Elsewhere = Elsewhere
    ChainIds = {mainnet, testnet}
    Mainnet = mainnet
    Endpoints = 2
    Honest <- SecondaryOnly
    Serves <- ServesMainnet
    MaxLag = 1
    MaxNonce = 3
    MaxU128 = 7
    PriorityFee = 1
    Ceiling = 5
    BaseFees = {2, 3, 4, 7}
INVARIANTS
    TypeOK
    AnswersAreCurrent
    FeesFit
    OnlyTheChainAskedFor
    RetryWhilePendingPaysOnce
PROPERTIES
    CallsReturn
CHECK_DEADLOCK FALSE
