SPECIFICATION LiveSpec
CONSTANTS
    p1 = p1
    p2 = p2
    p3 = p3
    c1 = c1
    c2 = c2
    x = x
    NoKey = NoKey
    Passwords = {p1, p2, x}
    Strangers = {x}
    Confirms = {c1, c2}
    Failing = {p2, c1}
INVARIANTS
    TypeOK
    CertifiedKeysAreStored
    KeyGapsAreRotations
    NoKeyIsStranded
PROPERTIES
    RegistrySpec
    EveryLoginAnswered
    KeyComesBack
CHECK_DEADLOCK FALSE
