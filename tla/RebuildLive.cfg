\* A projection is rebuilt while a worker completes a step.
SPECIFICATION OperatorSpec
CONSTANTS
    r1 = r1
    r2 = r2
    k1 = k1
    k2 = k2
    k3 = k3
    t1 = t1
    w1 = w1
    w2 = w2
    p1 = p1
    NoWorker = NoWorker
    NoKey = NoKey
    NoRun = NoRun
    Payload = {p1}
    Run = {r1}
    Key <- Chain
    RunOf <- OneRunOf
    DependsOn <- AfterFirst
    Position <- MCPosition
    ToolName = {t1}
    ToolOf <- MCToolOf
    Request <- MCRequest
    Worker = {w1, w2}
    LeaseTtl = 1
    MaxLag = 0
    MaxTime = 3
    AttemptCap = 2
    MaxAttempts = 2
    BaseBackoff = 1
    MaxBackoff = 4
    Backoff <- MCBackoff
    RetryAfters = {1}
    MaxLate = 0
    Answers = {}
    MaxRequests = 0
    Quiet = FALSE
    MaxRebuilds = 1
SYMMETRY WorkerSymmetry
CHECK_DEADLOCK FALSE
INVARIANT NoAttemptAfterCompletion
