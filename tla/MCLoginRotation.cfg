SPECIFICATION LiveSpec
CONSTANTS
    p1 = p1
    p2 = p2
    p3 = p3
    c1 = c1
    c2 = c2
    x = x
    NoKey = NoKey
    Passwords = {p1, p2, p3}
    Strangers = {}
    Confirms = {}
    Failing = {}
PROPERTIES
    PreviousKeyMadeInactive
CHECK_DEADLOCK FALSE
