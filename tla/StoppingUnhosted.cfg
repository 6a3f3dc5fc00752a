\* A status is read, a VM stops, the status is written.
SPECIFICATION Spec
CONSTANTS
    Desktops = {d1}
    Hyps = {h1}
    Clients = {c1}
    NoHyp = NoHyp
    Blank = Blank
    Scopes <- StopScopes
INVARIANTS StoppingHasHypervisor
