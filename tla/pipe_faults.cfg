CONSTANTS
    plain = plain
    bot = bot
    other = other
    general = general
    secret = secret
    ann = ann
    app = app
    NoUser = NoUser
    EventTS = EventTS
    Consumer = serve
    Processes = {serve}
    Messages <- MCMessages
    Channels <- MCChannels
    Users <- MCUsers
    ChannelOf <- OneChannelOf
    AuthorOf <- MCAuthorOf
    SubtypeOf <- JoinSubtypeOf
    ParentOf <- MCParentOf
    Allow = {}
    Deny = {}
    Persist = {}
    SkipTypes <- Joins
    Past = {}
    MaxVersion = 2
    MaxEvents = 3
    MaxResent = 1
    Faults = {"api", "db", "crash", "sigterm"}
SPECIFICATION Spec
INVARIANTS TypeOK ChannelBeforeMessage SeenIsWritten DivergesOnlyByLossOrRetry
PROPERTIES ImplementsMirror CachedRowsStay
