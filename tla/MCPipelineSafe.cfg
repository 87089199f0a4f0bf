CONSTANTS
    t1 = t1
    t2 = t2
    t3 = t3
    alice = alice
    bob = bob
    Users = {alice, bob}
    Tasks = {t1, t2, t3}
    Workers = {w1, w2}
    Owner <- ThreeOwner
    Charge <- ThreeCharge
    MayOwe = {bob}
    Transfers = {1}
    Deployments <- AllDeployments
    Nobody = Nobody
    MaxTransfers = 2
    MaxApiFaults = 1
    MaxWorkerFaults = 1
    MaxConnLosses = 0
SPECIFICATION Spec
INVARIANTS
    ChargedExactlyOnce
    HistoryFollowsTask
    NoOrphanMessage
    OverdraftNeedsOverlap
PROPERTIES
    ImplementsLifecycle
    ImplementsLedger
