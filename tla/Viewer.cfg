SPECIFICATION FairSpec
CONSTANTS
    StartSize = 4
    MaxGrow = 64
    Scopes <- ViewerScopes
    MaxResumes = 2
INVARIANTS TypeOK BufferFits InSyncUntilToggled DrawnInOrder OneFrameWaits
PROPERTIES StaysDisconnected UpdatesKeepFlowing HandshakeEnds DisconnectEnds
CHECK_DEADLOCK FALSE
