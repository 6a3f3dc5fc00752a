\* A forced deletion right after a stop.
SPECIFICATION Spec
CONSTANTS
    Desktops = {d1}
    Hyps = {h1}
    Clients = {c1, c2}
    NoHyp = NoHyp
    Blank = Blank
    Scopes <- ForceScopes
INVARIANTS ForceDeletingIsUnderWay
