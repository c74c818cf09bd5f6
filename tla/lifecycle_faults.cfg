\* The same requests with every failure of the environment.
SPECIFICATION Spec
CONSTANTS
    Streams = {s1}
    Finishers = {f1, f2}
    Patchers = {p1}
    Modes = {"standalone_app", "docker_container"}
    RetryCount = 2
    Faults = {"store", "decode", "stop", "wait", "crash"}
INVARIANTS
    RegisteredHasRow
    FinishUnregisters
PROPERTIES
    ImplementsContract
\* The requests of the instance run out.
CHECK_DEADLOCK FALSE
