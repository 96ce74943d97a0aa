CONSTANTS
    Ids = {id1}
    NoId = noid
    MaxPlans = 3
    MaxMeddlings = 0
SPECIFICATION LiveSpec
PROPERTIES
    TeardownIsConfirmed
