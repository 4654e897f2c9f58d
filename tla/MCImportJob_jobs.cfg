SPECIFICATION FairSpec
CONSTANTS
    i1 = i1
    i2 = i2
    a = a
    Jobs = {i1, i2}
    Notes = {1, 2}
    SlugOf <- SameSlug
    Policy <- Both
    CheckpointEvery = 1
    MaxRetries = 1
    MaxCrashes = 1
    MaxUserDocs = 1
INVARIANTS
    DoneMeansImported
    RepeatsAreBounded
PROPERTIES
    CheckpointIsFinal
    RunningJobsEnd
CHECK_DEADLOCK FALSE
