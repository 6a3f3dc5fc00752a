SPECIFICATION FairSpec
CONSTANTS
    Channels = {"main", "display", "inputs", "cursor"}
    None = None
    Scopes <- SessionScopes
    Tokens = 2
    Window = 2
INVARIANTS TypeOK MessagesIntact AcksAgree TokensAgree NoErrorOfItsOwn
PROPERTIES StaysDisconnected EverythingArrives
CHECK_DEADLOCK FALSE
