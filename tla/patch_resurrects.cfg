\* PatchStream overlaps FinishStream.
SPECIFICATION Spec
CONSTANTS
    Streams = {s1}
    Finishers = {f1}
    Patchers = {p1}
    Modes = {"standalone_app"}
    RetryCount = 1
    Faults = {}
PROPERTIES
    FinishIsFinal
\* The requests of the instance run out.
CHECK_DEADLOCK FALSE
