CONSTANTS
    general = general
    secret = secret
    ann = ann
    NoUser = NoUser
    EventTS = EventTS
    Consumer = serve
    Backfiller = backfill
    Processes = {serve, backfill}
    Messages <- MCMessages
    Channels = {general, secret}
    Users = {ann}
    ChannelOf <- SameChannel
    AuthorOf <- MCAuthorOf
    SubtypeOf <- MCSubtypeOf
    ParentOf <- MCParentOf
    Allow = {general}
    Deny = {}
    Persist = {}
    SkipTypes = {"channel_join"}
    Past = {1, 2, 3, 4}
    Oldest = 1
    PageSize = 1
    MaxVersion = 2
    MaxEvents = 2
    MaxResent = 0
    Faults = {}
    BackfillFaults = {"api", "db", "crash"}
SPECIFICATION BothFairSpec
INVARIANTS BothTypeOK MissesNothing DivergesOnlyIfOvertaken
PROPERTIES BackfillEnds
