SPECIFICATION ModelSpec
CONSTANTS
    TokenCap = 60
    NodeCap = 40
    UintMax = 65535
    EscapeWords = {"n"}
    PolicyCaps <- MCPolicyCaps
    NameBufCap = 5
    Configs <- MCConfigs
    Requests <- MCRequests
    Vocab <- MCVocab
    FreePieces <- MCFreePieces
    NumberPieces <- MCNumberPieces
    Eos <- MCEos
    ReasonTexts <- MCReasonTexts
    FakeScript <- MCFakeScript
    RemoteReplies <- MCRemoteReplies
    AddBos = TRUE
    ChoiceSteps = 3
    StringSteps = 1
    NumberSteps = 2
    GdCtx = 12
    MaxCalls = 1
    MaxFaults = 0
INVARIANT
    ValidByConstruction
CHECK_DEADLOCK FALSE
