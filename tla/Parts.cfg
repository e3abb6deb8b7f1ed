SPECIFICATION PartsSpec
CONSTANTS
    UserLine = {"u", "v"}
    Blocks <- SmallBlocks
    MaxLines = 4
    Label = {"a", "ba", "b_a", "constructor"}
    Chars <- MCChars
    OddLabel = {"b_a"}
    PrototypeKey <- Inherited
    HostName <- SmallNames
    MaxRules = 2
    Asker = {a1, a2}
    Responses <- SmallResponses
    AnswerCacheTTL = 5
    Second = 2
    Uint32 = 256
    MaxPause = 2
    MaxClock = 6
    Caller = {c1, c2}
    Answers <- SmallAnswers
    ResolverConfigs <- SmallConfigs
    ServerCount = 2
    CacheTTL = 2
    Timeout = 1
    MaxTime = 4
    Transforms <- SmallTransforms
    Customs <- SmallCustoms
    OnErrors = {"pass_through", "fail_closed"}
    Files <- SmallFiles
    Flags <- SmallFlags
INVARIANTS
    UserLinesKept
    RoundTrip
    MatchesCovered
    PacAgrees
    NeverOutlives
    ResultFollowsPolicy
    HonoursTTL
    ResponseWhole
    FlagsOverFile
    SoundConfig
SYMMETRY Symmetry
CHECK_DEADLOCK FALSE
