\* engine.db under clients that call any operation at any time.
SPECIFICATION ClientSpec
CONSTANTS
    r1 = r1
    k1 = k1
    k2 = k2
    k3 = k3
    t1 = t1
    w1 = w1
    w2 = w2
    NoWorker = NoWorker
    Payload = {}
    Run = {r1}
    Key <- Chain
    RunOf <- MCRunOf
    DependsOn <- NoDependencies
    Position <- MCPosition
    ToolName = {t1}
    ToolOf <- MCToolOf
    Worker = {w1, w2}
    LeaseTtl = 1
    MaxLag = 0
    MaxTime = 3
    AttemptCap = 2
    ClaimCap = 3
CHECK_DEADLOCK FALSE
INVARIANTS
    ClientTypeOK
    ProjectionMatchesHistory
    TokensFollowHistory
    CooldownRemembered
PROPERTIES
    TerminalIsFinal
    TakeoverRaisesToken
