\* The API and two workers start at once on any database; the system may stop
\* and be started again.
SPECIFICATION StartupSpec
CONSTANTS
    api = api
    w1 = w1
    w2 = w2
    r1 = r1
    r2 = r2
    Process = {api, w1, w2}
    Api = api
    Run = {r1, r2}
    OldRun = {r1}
    Found = {"none", "preDagEmpty", "preDag", "v3", "misaimed", "leaseMisaimed", "v4"}
    MaxDeaths = 1
CHECK_DEADLOCK FALSE
INVARIANTS
    StartupTypeOK
    AcceptedRunsAreKept
    ReadyMeansCurrent
PROPERTY EveryStartSucceeds
