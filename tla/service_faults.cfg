CONSTANTS
    first = first
    second = second
    hidden = hidden
    general = general
    secret = secret
    ann = ann
    plan = plan
    sketch = sketch
    NoUser = NoUser
    EventTS = EventTS
    None = None
    Consumer = serve
    Processes = {serve}
    Messages <- Two
    Channels = {general}
    Users = {ann}
    Files = {plan, sketch}
    ChannelOf <- MCChannelOf
    AuthorOf <- MCAuthorOf
    SubtypeOf <- MCSubtypeOf
    ParentOf <- MCParentOf
    Allow = {}
    Deny = {}
    Persist <- Bots
    SkipTypes = {}
    Past = {}
    MaxVersion = 2
    MaxResent = 1
    MaxEvents = 3
    AttachOf <- Swapping
    LocalBlobs = FALSE
    Faults = {"db", "crash", "sigterm"}
    FileFaults = {"db", "fetch", "copy", "gc", "crash"}
SPECIFICATION ServiceSpec
INVARIANTS AttachmentsFollowRow
PROPERTIES FilesAreMirrored
