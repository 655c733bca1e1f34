\* A supervised worker and one started by hand, with a signal, a kill or a dead
\* service, and calls that may outlast the supervisor's patience.
SPECIFICATION LifecycleSpec
CHECK_DEADLOCK FALSE
CONSTANTS
    Run <- OneRun
    Key <- OneKey
    DependsOn <- OneChain
    Worker = {w1, w2}
    Pool = {w1}
    Watched = 1
    Nobody = Nobody
    MaxAttempts = 2
    MaxTroubles = 1
    Endless = FALSE
    MaxSignals = 1
INVARIANTS
    LifecycleTypeOK
    AdmitsAtMostOne
    DrainSettles
PROPERTIES
    StopEnds
    PoolFinishesRuns
