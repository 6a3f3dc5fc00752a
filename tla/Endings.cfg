\* Starts and deletions asked of one desktop, a guest that powers off, and a restart of the engine at any moment.
SPECIFICATION FairSpec
CONSTANTS
    Desktops = {d1}
    Hyps = {h1}
    Clients = {c1}
    NoHyp = NoHyp
    Blank = Blank
    Scopes <- EndingScopes
PROPERTIES ForceDeletedForGood DiskDeletionEnds UnknownResolves OrphansAreDestroyed
