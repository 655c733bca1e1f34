\* Reads, audits and rebuilds of a run with live workers, none of which commits
\* to it during a rebuild.
SPECIFICATION OperatorSpec
CONSTANTS
    r1 = r1
    r2 = r2
    k1 = k1
    k2 = k2
    k3 = k3
    t1 = t1
    w1 = w1
    w2 = w2
    p1 = p1
    NoWorker = NoWorker
    NoKey = NoKey
    NoRun = NoRun
    Payload = {p1}
    Run = {r1}
    Key <- Chain
    RunOf <- OneRunOf
    DependsOn <- AfterFirst
    Position <- MCPosition
    ToolName = {t1}
    ToolOf <- MCToolOf
    Request <- MCRequest
    Worker = {w1, w2}
    LeaseTtl = 1
    MaxLag = 1
    MaxTime = 2
    AttemptCap = 2
    MaxAttempts = 2
    BaseBackoff = 1
    MaxBackoff = 4
    Backoff <- MCBackoff
    RetryAfters = {1}
    MaxLate = 0
    Answers = {}
    MaxRequests = 0
    Quiet = TRUE
    MaxRebuilds = 1
SYMMETRY WorkerSymmetry
CHECK_DEADLOCK FALSE
INVARIANTS
    OwnerIsCurrent
    ProjectionMatchesHistory
    EndedRunIsWhole
    SummaryAddsUp
    TimesFit
