CONSTANTS
    t1 = t1
    t2 = t2
    t3 = t3
    mA = mA
    Tasks <- MCTasks
    Modules <- MCModules
    PoolMaxEnv = {2}
    MaxStoreInst = 2
    InstanceLimit = 3
    NStores = 3
    MaxGen = 2

SPECIFICATION Spec
SYMMETRY TaskSymmetry
VIEW LiveView

INVARIANT TypeOK
INVARIANT PermitsConserved
INVARIANT StoreOwnership
INVARIANT StoreCounterSound
INVARIANT ModuleNotOlderThanTag
