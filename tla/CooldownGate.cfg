\* A claimed step is sent although another run has met a 429.
SPECIFICATION Spec
CONSTANTS
    r1 = r1
    r2 = r2
    k1 = k1
    k2 = k2
    k3 = k3
    t1 = t1
    w1 = w1
    w2 = w2
    p1 = p1
    NoWorker = NoWorker
    NoKey = NoKey
    NoRun = NoRun
    Payload = {p1}
    Run = {r1, r2}
    Key <- Chain
    RunOf <- TwoRunsOf
    DependsOn <- NoDependencies
    Position <- MCPosition
    ToolName = {t1}
    ToolOf <- MCToolOf
    Request <- MCRequest
    Worker = {w1, w2}
    LeaseTtl = 2
    MaxLag = 0
    MaxTime = 3
    AttemptCap = 1
    MaxAttempts = 2
    BaseBackoff = 1
    MaxBackoff = 4
    Backoff <- MCBackoff
    RetryAfters = {2}
    MaxLate = 0
    Answers = {}
    MaxRequests = 0
CHECK_DEADLOCK FALSE
PROPERTIES
    NoCallDuringCooldown
