\* The host decides about a participant the join code has let in.
SPECIFICATION FairSpec
CONSTANTS
    Joiners = {j1}
    Deciders = {d1}
    Listers = {}
    Renamers = {}
    Codes = {"123456"}
    Faults = {}
PROPERTIES
    DecisionReturns
\* The requests of the instance run out; a decision may wait for ever.
CHECK_DEADLOCK FALSE
