SPECIFICATION Spec
CONSTANTS
    pay1 = pay1
    pay2 = pay2
    get1 = get1
    get2 = get2
    s1 = s1
    s2 = s2
    Tams = {pay1, get1}
    Mine = {pay1}
    Look <- MCApart
    Refused = {}
    Silent = {pay1}
    Cut = {get1}
    Syncs = {s1, s2}
    MaxWrites = 3
    Peers = {get1}
    Outages = 0
    Restarts = 1
    Faulty = FALSE
SYMMETRY SyncSymmetry
INVARIANTS
    TypeOK
    ShownIsSettled
    BalanceCoveredByHistory
PROPERTIES
    OnlyStaleAnswersForget
