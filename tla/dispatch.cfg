SPECIFICATION MCSpec
CONSTANTS
    Threads = {t1, t2}
    Names = {home, inner, alias}
    HomeName = home
    InnerName = inner
    Home = Home
    Inner = Inner
    Aside = Aside
    Bases <- MCBases
    Places <- MCPlaces
    Under <- MCUnder
    Unset = Unset
INVARIANTS
    TypeOK
    WalletsStayInTheSandbox
PROPERTIES
    EveryRequestIsAnswered
CHECK_DEADLOCK FALSE
