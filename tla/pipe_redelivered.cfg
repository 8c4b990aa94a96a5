CONSTANTS
    plain = plain
    bot = bot
    other = other
    general = general
    secret = secret
    ann = ann
    app = app
    NoUser = NoUser
    EventTS = EventTS
    Consumer = serve
    Processes = {serve}
    Messages <- MCMessages
    Channels <- MCChannels
    Users <- MCUsers
    ChannelOf <- MCChannelOf
    AuthorOf <- MCAuthorOf
    SubtypeOf <- MCSubtypeOf
    ParentOf <- MCParentOf
    Allow = {}
    Deny <- MCDeny
    Persist = {}
    SkipTypes = {}
    Past = {}
    MaxVersion = 2
    MaxEvents = 3
    MaxResent = 1
    Faults = {}
SPECIFICATION Spec
INVARIANTS InSync
CHECK_DEADLOCK FALSE
