\* A client walks through the listing, or asks for a page, while streams are
\* stored, end, or wait for the file to grow.
SPECIFICATION FairSpec
CONSTANTS
    Streams <- ThreeStreams
    Modes = {"docker_container", "standalone_app"}
    Clients = {c1}
    Queries <- SomeQueries
    Backups = {b1}
    DefaultPageSize = 2
    MaxInt = 7
    ShortSlice = 2
    Faults = {"grow", "begin", "decode"}
INVARIANTS
    TypeOK
    PageIsRight
    WalkMissesNobody
    WalkRepeatsOnlyPushed
    WalkIsExact
PROPERTIES
    GrowthIsDelayedOnly
\* The requests of the instance run out.
CHECK_DEADLOCK FALSE
