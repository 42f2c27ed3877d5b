CONSTANTS
    t1 = t1
    t2 = t2
    t3 = t3
    mA = mA
    Tasks <- LiveTasks
    Modules <- MCModules
    PoolMaxEnv = {0}
    MaxStoreInst = 2
    InstanceLimit = 3
    NStores = 2
    MaxGen = 1

SPECIFICATION Spec

PROPERTY RequestCompletes
PROPERTY ImplementsPoolService
