\* 16-bit integers and 32-bit words in the place of 128 and 256 bits; an input of
\* one header and its longest calldata is allowed.
SPECIFICATION Spec
CONSTANTS
    U64 = 2
    U128 = 2
    AddressLen = 2
    Word = 4
    MaxInputLen = 10
    Passphrases = {weak, strong, other}
    Strong = {strong, other}
    SaltLen = 1
    NonceLen = 2
    TagLen = 1
    Order <- MCOrder
    Samples <- MCSamples
    Symbols <- MCSymbols
INVARIANTS
    RoundTrip
    OnlyEncodingsAreAccepted
    SignedBytesTellTransactionsApart
    SealedIsAuthentic
    OnlyWideCharactersPanic
    TextMeansItsBytes
    BalanceIsTheWholeWord
CHECK_DEADLOCK FALSE
