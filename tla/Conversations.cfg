\* Two turns with one prompt, and two troubles.
CONSTANTS
    MaxRequests = 2
    hello = hello
    Inputs = {hello}
    Messages <- Both
    MaxTroubles = 2
SPECIFICATION FairSpec
INVARIANTS
    ConvTypeOK
    ToolTurnsSeeTheirCalls
    TurnsShareAConversation
    BilledOnce
PROPERTY EveryAnswerIsBilled
CHECK_DEADLOCK FALSE
