\* Requests that overlap, shutdowns and deletions among them; and a restart with
\* a fault or with a guest that acts alone between two requests.
SPECIFICATION Spec
CONSTANTS
    Desktops = {d1}
    Hyps = {h1}
    Clients = {c1, c2}
    NoHyp = NoHyp
    Blank = Blank
    Scopes <- RequestScopes
INVARIANTS TypeOK RemovedWithItsDisk NothingDeletedUnasked NothingWaitsUnasked
PROPERTIES StoppedOnRequest KeepsPromise
