SPECIFICATION Spec
CONSTANTS
    a1 = a1
    a2 = a2
    r1 = r1
    r2 = r2
    ann = ann
    bob = bob
    Self = Self
    Unknown = Unknown
    NoEmail = NoEmail
    Open = Open
    Adds = {a1, a2}
    Removes = {r1, r2}
    Elsewhere = {a2}
    Failing = {a2, r1}
    Accounts = {ann, bob}
    Plus = {bob}
INVARIANTS
    TypeOK
    DuplicatesOverlapped
    RemovedIsGone
    AddedStays
    ScreenIsCurrent
CHECK_DEADLOCK FALSE
