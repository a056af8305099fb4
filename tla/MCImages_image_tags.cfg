\* An app and its copy in another environment, whose images have the same names.
SPECIFICATION ImageSpec
CONSTANTS
    AppIds = {1, 2}
    RepoOf <- SharedRepo
    MaxTags = 1
    Keep = 1
    History = 50
    Reproducible = FALSE
    MaxSweeps = 0
INVARIANTS
    ServesItsBuild
CHECK_DEADLOCK FALSE
