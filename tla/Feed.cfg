SPECIFICATION Spec
CONSTANTS
    d1 = d1
    d2 = d2
    p1 = p1
    None = None
    Desktops = {d1, d2}
    Deployments = {p1}
    Tag <- OneTagged
    Scopes <- OneDeployment
INVARIANTS TypeOK ListsAgree
CHECK_DEADLOCK FALSE
