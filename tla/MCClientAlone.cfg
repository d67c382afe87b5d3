SPECIFICATION FairSpec
CONSTANTS
    pay1 = pay1
    pay2 = pay2
    get1 = get1
    get2 = get2
    s1 = s1
    s2 = s2
    Tams = {pay1, get1, get2}
    Mine = {pay1}
    Look <- MCTwins
    Refused = {get1}
    Silent = {pay1}
    Cut = {get1}
    Syncs = {s1}
    MaxWrites = 3
    Peers = {}
    Outages = 1
    Restarts = 0
    Faulty = TRUE
INVARIANTS
    ListedIsCertified
PROPERTIES
    PendingDrains
    ServedSpec
