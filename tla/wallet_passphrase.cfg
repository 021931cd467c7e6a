SPECIFICATION Spec
CONSTANTS
    Keys = {k1, k2}
    Passphrases = {p1, p2}
    Splits <- TwoOfThree
    Callers = {c1}
    Absent = Absent
    Torn = Torn
    Imports = TRUE
    IoFailures = FALSE
    Kills = FALSE
PROPERTIES
    WrongPassphraseIsCaught
CHECK_DEADLOCK FALSE
