SPECIFICATION CeremonySpec
CONSTANTS
    P = 5
    MaxParties = 3
    XCoord <- MCXCoord
    YOdd <- MCYOdd
INVARIANTS
    CeremonyTypeOK
    QuorumsAndOnlyQuorumsReconstruct
    ForgeriesAreNoticed
    BelowThresholdRevealsNothing
    SenderIsTheWallet
    SelfCheckNeverFails
CHECK_DEADLOCK FALSE
