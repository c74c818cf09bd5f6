\* Two standalone streams with free or preferred ports, out of two.
SPECIFICATION FairAddressesSpec
CONSTANTS
    Streams = {s1, s2}
    Finishers = {}
    Patchers = {}
    Modes = {"standalone_app"}
    RetryCount = 1
    Faults = {"crash", "store"}
    Ports = {1, 2}
    Preferences = {0, 1}
INVARIANTS
    AddressesTypeOK
    OwnProgramAnswers
PROPERTIES
    MixupEnds
\* The requests of the instance run out.
CHECK_DEADLOCK FALSE
