\* Two FinishStream requests and the listener race for one stream; nothing fails
\* except the stream program.
SPECIFICATION FairSpec
CONSTANTS
    Streams = {s1}
    Finishers = {f1, f2}
    Patchers = {}
    Modes = {"standalone_app", "docker_container"}
    RetryCount = 3
    Faults = {}
INVARIANTS
    TypeOK
    FinishStopsProcess
    ProcessHasOwner
    FinishRecorded
    UnregisteredIsFinished
PROPERTIES
    CrashIsReaped
    LaunchWatchedOrUndone
    FinishTakesEffect
    EndIsRecorded
\* The requests of the instance run out.
CHECK_DEADLOCK FALSE
