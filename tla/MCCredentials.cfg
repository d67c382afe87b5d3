SPECIFICATION Spec
CONSTANTS
    g1 = g1
    g2 = g2
    n1 = n1
    v1 = v1
    v2 = v2
    q1 = q1
    t1 = t1
    t2 = t2
    h1 = h1
    e1 = e1
    e2 = e2
    f1 = f1
    f2 = f2
    d1 = d1
    l1 = l1
    w1 = w1
    w2 = w2
    None = None
    Registers = {g1, g2}
    Resends = {n1}
    Verifies = {v1, v2}
    Recovers = {q1}
    Resets = {t1, t2}
    Changes = {h1}
    Enables = {e1, e2}
    Confirms = {f1, f2}
    Disables = {d1}
    Logouts = {l1}
    Passwords = {w1, w2}
    Failing = {g1, n1, v1, t1, e1, f1}
    Mixes <- InstanceMixes
INVARIANTS
    TypeOK
    CreatedIsRegistered
    LiveCodeIsMailed
    EnabledSecretIsConfirmed
PROPERTIES
    SpentCodesStaySpent
CHECK_DEADLOCK FALSE
