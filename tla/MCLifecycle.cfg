CONSTANTS
    Ids = {id1, id2}
    NoId = noid
    MaxPlans = 3
    MaxMeddlings = 1
SPECIFICATION Spec
SYMMETRY IdSymmetry
INVARIANTS
    TypeOK
    GateMeansAccounted
    ConfirmedMeansGone
    ExecutesApprovedUnlessReplanned
PROPERTIES
    DeletesOnlyRecorded
    SessionEventsTrue
