CONSTANTS
    t1 = t1
    t2 = t2
    t3 = t3
    alice = alice
    bob = bob
    Users = {alice}
    Tasks = {t1, t2}
    Workers = {w1, w2}
    Owner <- PairOwner
    Charge <- PairCharge
    MayOwe = {}
    Transfers = {1}
    Deployments <- StrictOnly
    Nobody = Nobody
    MaxTransfers = 2
    MaxApiFaults = 0
    MaxWorkerFaults = 0
    MaxConnLosses = 1
SPECIFICATION Spec
INVARIANT
    ChargedExactlyOnce
