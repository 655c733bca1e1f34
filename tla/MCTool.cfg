\* Requests of two keys with two payloads, kills anywhere, files renamed.
SPECIFICATION LedgerSpec
CONSTANTS
    k1 = k1
    k2 = k2
    p1 = p1
    p2 = p2
    Key <- MCKey
    Payload <- MCPayload
    Answers <- MCAnswers
    MaxRequests = 2
INVARIANTS
    ToolTypeOK
    EffectsAreKnown
    AnswersMatchLedger
PROPERTIES
    AnswersOwnRequest
    ResultsAreKept
