SPECIFICATION Spec
CONSTANTS
    StartSize = 4
    MaxGrow = 64
    Scopes <- ClipboardScopes
    MaxResumes = 2
INVARIANTS InSync
CHECK_DEADLOCK FALSE
