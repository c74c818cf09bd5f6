\* Two participants join at once.
SPECIFICATION Spec
CONSTANTS
    Joiners = {j1, j2}
    Deciders = {}
    Listers = {}
    Renamers = {}
    Codes = {"123456"}
    Faults = {}
INVARIANTS
    JoinedIsRecorded
\* The requests of the instance run out; a decision may wait for ever.
CHECK_DEADLOCK FALSE
