CONSTANTS
    serve = serve
    backfill = backfill
    m1 = m1
    m2 = m2
    f1 = f1
    f2 = f2
    None = None
    Workers <- TwoWorkers
    Messages <- TwoMessages
    Files <- OneFile
    Faults = {}
    LocalBlobs = FALSE
SPECIFICATION Spec
INVARIANTS UriHasBlob
