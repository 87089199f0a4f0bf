CONSTANTS
    t1 = t1
    t2 = t2
    t3 = t3
    alice = alice
    bob = bob
    Users = {alice}
    Tasks = {t1, t2}
    Workers = {w1, w2}
    Owner <- PairOwner
    Charge <- PairCharge
    MayOwe = {}
    Transfers = {1}
    Deployments <- StrictOnly
    Nobody = Nobody
    MaxTransfers = 2
    MaxApiFaults = 1
    MaxWorkerFaults = 1
    MaxConnLosses = 1
SPECIFICATION FairSpec
INVARIANTS
    PendingHasMessage
PROPERTIES
    ReachedIsCompleted
    RequestsEnd
