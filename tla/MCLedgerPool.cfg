SPECIFICATION LiveSpec
CONSTANTS
    ann = ann
    bob = bob
    cat = cat
    ab = ab
    ba = ba
    aa = aa
    xx = xx
    r1 = r1
    r2 = r2
    r3 = r3
    NoUser = NoUser
    Users = {ann, bob, cat}
    Tams = {ab, ba}
    Sender <- MCSenderOf
    Receiver <- MCReceiverOf
    Amount <- MCAmountOf
    Opening <- MCOpening
    Requests = {r1, r2, r3}
    Caller <- MCCallerOf
    Batches <- OppositeBatches
    Malformed = {}
    PoolSize = 2
    Failing = {r1}
    Rotating = {}
    Ageing = {}
    Watched = {ab}
    Own = {r1}
PROPERTIES
    EveryRequestAnswered
CHECK_DEADLOCK FALSE
