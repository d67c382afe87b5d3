SPECIFICATION Spec
CONSTANTS
    s1 = s1
    s2 = s2
    c1 = c1
    c2 = c2
    Payer = Payer
    Payee = Payee
    PhoneKey = PhoneKey
    OtherKey = OtherKey
    PayeeKey = PayeeKey
    NoKey = NoKey
    ServerKey = ServerKey
    TicksPerSecond = 2
    Taps = {s1, s2}
    Scans = {c1, c2}
    DigitKeys = {0, 5}
    Budgets <- InstanceBudgets
    Balances = {8, 60}
INVARIANT CertificateIsSigned
CHECK_DEADLOCK FALSE
