SPECIFICATION Spec
CONSTANTS
    MaxTokens = 5
    MaxAsks = 3
    LengthCap = 6
    Openings <- MCOpenings
    Modes <- MCModes
    Bodies <- MCBodies
    Refusals <- MCRefusals
    Breaks <- MCBreaks
    Length <- MCLength
    Normal <- MCNormal
INVARIANTS
    ResultsFindTheirCalls
    NothingSaidIsLost
    TheBestCandidateWins
    CandidatesAreBilled
CHECK_DEADLOCK FALSE
