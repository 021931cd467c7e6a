SPECIFICATION Spec
CONSTANTS
    Keys = {k1, k2, k3}
    Passphrases = {p1}
    Splits <- TwoOfTwoOrThree
    Callers = {c1}
    Absent = Absent
    Torn = Torn
    Imports = TRUE
    IoFailures = TRUE
    Kills = TRUE
SYMMETRY Symmetry
INVARIANTS
    LocalShareBeforeAddress
CHECK_DEADLOCK FALSE
