SPECIFICATION Spec
CONSTANTS
    pay1 = pay1
    pay2 = pay2
    get1 = get1
    get2 = get2
    s1 = s1
    Tams = {pay1, get1}
    Mine = {pay1}
    Look <- MCApart
    Refused = {}
    Silent = {}
    Cut = {}
    Syncs = {s1}
    MaxWrites = 3
    Peers = {get1}
    Outages = 0
    Restarts = 1
    Faulty = FALSE
PROPERTY RestartKeepsPending
