SPECIFICATION FairSpec
CONSTANTS
    StartSize = 4
    MaxGrow = 64
    Scopes <- EmptyScopes
    MaxResumes = 2
PROPERTIES UpdatesFlow
CHECK_DEADLOCK FALSE
