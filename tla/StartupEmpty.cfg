\* The API and one worker start at once on an empty pre-DAG database.
SPECIFICATION StartupSpec
CONSTANTS
    api = api
    w1 = w1
    w2 = w2
    r1 = r1
    r2 = r2
    Process = {api, w1}
    Api = api
    Run = {r1, r2}
    OldRun = {r1}
    Found = {"preDagEmpty"}
    MaxDeaths = 0
CHECK_DEADLOCK FALSE
INVARIANT AnsweredRunsAreKept
