\* Two workers, one run of three steps: takeover, crashes, rejections, refinement.
SPECIFICATION Spec
CONSTANTS
    r1 = r1
    r2 = r2
    k1 = k1
    k2 = k2
    k3 = k3
    t1 = t1
    w1 = w1
    w2 = w2
    p1 = p1
    NoWorker = NoWorker
    NoKey = NoKey
    NoRun = NoRun
    Payload = {p1}
    Run = {r1}
    Key <- Fork
    RunOf <- OneRunOf
    DependsOn <- AfterFirst
    Position <- MCPosition
    ToolName = {t1}
    ToolOf <- MCToolOf
    Request <- MCRequest
    Worker = {w1, w2}
    LeaseTtl = 1
    MaxLag = 0
    MaxTime = 3
    AttemptCap = 2
    MaxAttempts = 2
    BaseBackoff = 1
    MaxBackoff = 4
    Backoff <- MCBackoff
    RetryAfters = {1}
    MaxLate = 0
    Answers = {"rejected"}
    MaxRequests = 0
SYMMETRY WorkerSymmetry
CHECK_DEADLOCK FALSE
INVARIANTS
    TypeOK
    AtMostOneEffect
    IntentPrecedesEffect
    EffectsFollowDependencies
    CompletedHasEffect
    FenceTokensIncrease
PROPERTY
    ImplementsDurableWorkflow
