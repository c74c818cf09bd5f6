\* Two clients create, join, patch and finish a stream while the server is stopped.
SPECIFICATION FairServerSpec
CONSTANTS
    Streams = {s1}
    Finishers = {"signal", "f1"}
    Patchers = {p1}
    Modes = {"standalone_app"}
    RetryCount = 1
    Faults = {"store", "decode", "crash"}
    Clients <- TwoClients
    Guests = {"bob"}
    Subject <- TwoSubjects
    Secured = TRUE
INVARIANTS
    ServerTypeOK
    OnlyHostActs
    StopFinishesStreams
    ClosedAfterRequests
    SuccessorFindsPorts
PROPERTIES
    StopEnds
\* The program ends.
CHECK_DEADLOCK FALSE
