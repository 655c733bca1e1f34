\* The renaming with kills in it, against what the README says of it.
SPECIFICATION LedgerSpec
CONSTANTS
    k1 = k1
    k2 = k2
    p1 = p1
    p2 = p2
    Key <- MCKey
    Payload <- MCPayload
    Answers <- MCAnswers
    MaxRequests = 1
PROPERTY ContentsAreKept
