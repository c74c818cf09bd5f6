\* Two patches, a join, a decision and the end of the stream, over bodies of every kind.
SPECIFICATION FairSettingsSpec
CONSTANTS
    Joiners = {j1}
    Deciders = {d1}
    Listers = {}
    Renamers = {}
    Codes = {"123456"}
    Faults = {"store", "decode"}
    Patchers = {p1, p2}
    CreateRequests <- MCCreateRequests
    PatchRequests <- MCPatchRequests
INVARIANTS
    SettingsTypeOK
    CodeIsSet
    LastWriteCounts
PROPERTIES
    ImplementsParticipants
    JoinSettles
\* The requests of the instance run out; a decision may wait for ever.
CHECK_DEADLOCK FALSE
