\* Two joins, two decisions, a listing and a rename under every policy.
SPECIFICATION Spec
CONSTANTS
    Joiners = {j1, j2}
    Deciders = {d1, d2}
    Listers = {l1}
    Renamers = {r1}
    Codes = {"123456"}
    Faults = {"store", "decode"}
SYMMETRY Symmetry
INVARIANTS
    TypeOK
    AdmissionJustified
    DecisionCounts
    ListingComplete
\* The requests of the instance run out; a decision may wait for ever.
CHECK_DEADLOCK FALSE
