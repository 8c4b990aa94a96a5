SPECIFICATION PartsSpec
CHECK_DEADLOCK FALSE
CONSTANTS
    serve = serve
    backfill = backfill
    revision = revision
    m1 = m1
    m2 = m2
    f1 = f1
    f2 = f2
    coffee = coffee
    tea = tea
    Processes <- MCProcesses
    Latest = 2
    StaleAfter = 1
    Buffer = 3
    LinkFaults = {"write", "break"}
    Posts <- MCPosts
    Files <- MCFiles
    Messages <- MCMessages
    Terms <- MCTerms
    MaxRowid = 4
INVARIANTS
    PartsTypeOK
    ReturnsClosed
    WorksEquipped
    ChecksFirst
    RecordMatchesTables
    WorksMigrated
    OnlyMovesLeaveBytes
    IndexFollows
    SearchAgrees
    OrderKept
    WithinMicrosecond
PROPERTIES
    EachWorks
    FlagFollows
    EndsUnready
    AnswersHonestly
