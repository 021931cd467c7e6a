SPECIFICATION Spec
CONSTANTS
    Keys = {k1, k2}
    Passphrases = {p1, p2}
    Splits <- TwoOfThree
    Callers = {c1, c2}
    Absent = Absent
    Torn = Torn
    Imports = TRUE
    IoFailures = TRUE
    Kills = FALSE
SYMMETRY Symmetry
INVARIANTS
    TypeOK
    AddressIsRecoverable
CHECK_DEADLOCK FALSE
