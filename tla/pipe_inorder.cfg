CONSTANTS
    first = first
    second = second
    hidden = hidden
    general = general
    secret = secret
    ann = ann
    plan = plan
    sketch = sketch
    NoUser = NoUser
    EventTS = EventTS
    None = None
    Consumer = serve
    Processes = {serve}
    Messages <- Three
    Channels = {general, secret}
    Users = {ann}
    Files = {plan, sketch}
    ChannelOf <- MCChannelOf
    AuthorOf <- MCAuthorOf
    SubtypeOf <- MCSubtypeOf
    ParentOf <- MCParentOf
    Allow = {}
    Deny <- Denied
    Persist <- Bots
    SkipTypes = {}
    Past = {}
    MaxVersion = 2
    MaxResent = 0
    MaxEvents = 5
    AttachOf <- Dropping
    LocalBlobs = TRUE
    Faults = {"api"}
    FileFaults = {"fetch"}
SPECIFICATION ServiceFairSpec
INVARIANTS InSync FilesInSync
PROPERTIES NeverOlder FilesConverge
CHECK_DEADLOCK FALSE
