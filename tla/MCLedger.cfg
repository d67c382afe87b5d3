SPECIFICATION Spec
CONSTANTS
    ann = ann
    bob = bob
    cat = cat
    ab = ab
    ba = ba
    aa = aa
    xx = xx
    r1 = r1
    r2 = r2
    r3 = r3
    NoUser = NoUser
    Users = {ann, bob}
    Tams = {ab, ba, aa, xx}
    Sender <- MCSenderOf
    Receiver <- MCReceiverOf
    Amount <- MCAmountOf
    Opening <- MCOpening
    Requests = {r1, r2}
    Caller <- MCCallerOf
    Batches <- RetryBatches
    Malformed = {xx}
    PoolSize = 2
    Failing = {r1, r2}
    Rotating = {ann}
    Ageing = {ab}
    Watched = {ab, ba}
    Own = {r1}
INVARIANTS
    TypeOK
    TransactionsIsolated
    PoolAccounted
    BalancesReplayLedger
    SettledOnce
    HonestReport
    SyncReturnsItsOwnWrites
PROPERTIES
    CommitsCertifyBalances
    SettlementSpec
    ServiceSpec
CHECK_DEADLOCK FALSE
