\* The stream fails after the launch and before it is registered.
SPECIFICATION FairSpec
CONSTANTS
    Streams = {s1}
    Finishers = {}
    Patchers = {}
    Modes = {"standalone_app"}
    RetryCount = 1
    Faults = {}
PROPERTIES
    FailureIsReaped
\* The requests of the instance run out.
CHECK_DEADLOCK FALSE
