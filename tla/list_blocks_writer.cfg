\* A Store has to grow the file after a listing.
SPECIFICATION FairSpec
CONSTANTS
    Streams <- TwoStreams
    Modes = {"standalone_app"}
    Clients = {c1}
    Queries <- OneQuery
    Backups = {}
    DefaultPageSize = 2
    MaxInt = 7
    ShortSlice = 2
    Faults = {"grow"}
PROPERTIES
    StoreReturns
\* The requests of the instance run out; a Store may wait for ever.
CHECK_DEADLOCK FALSE
