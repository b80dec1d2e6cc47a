\* Ann owns the organization, Ben is an admin, Cid is one too, is a plain member or
\* may be invited.
CONSTANTS
    ann = ann
    ben = ben
    cid = cid
    p1 = p1
    p2 = p2
    Members = {ann, ben, cid}
    Calls = {p1, p2}
    Foundings <- FoundedByAnn
    MaxTargets = 2
    Lanes = 2
    MaxCalls = 2
SPECIFICATION Spec
SYMMETRY CallSymmetry
CHECK_DEADLOCK FALSE
INVARIANTS
    TypeOK
PROPERTIES
    UniqueOwner
    OwnerIsUntouchable
    NobodyDemotesThemselves
    OthersStayBelow
    AdminFromOwner
