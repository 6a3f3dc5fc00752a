---------------------------- MODULE MCDesktopFeed ----------------------------
(* Small instances of DesktopFeed for TLC. *)
EXTENDS DesktopFeed

CONSTANTS d1, d2, p1

\* A desktop of a deployment and one of the user's own.
OneTagged == [d \in {d1, d2} |-> IF d = d1 THEN p1 ELSE None]

Row(status, flag) == [status |-> status, visible |-> flag]
NoDeployment == [state |-> "unborn", visible |-> FALSE, request |-> "none", flags |-> {}]
Live(flag) == [state |-> "live", visible |-> flag, request |-> "none", flags |-> {flag}]
Scope(rows, deps, changed, opened, lost) ==
    [row |-> rows, dep |-> deps, left |-> [changes |-> changed, fetches |-> opened, faults |-> lost]]

\* Nothing yet, or a deployment, shown or hidden, with a desktop that runs or is stopped.
Nothing(changed, lost) ==
    Scope([d \in Desktops |-> Unborn], [p \in Deployments |-> NoDeployment], changed, 1, lost)
Holding(status, flag, other, changed, lost) ==
    Scope([d \in Desktops |-> IF d = d1 THEN Row(status, flag) ELSE other],
          [p \in Deployments |-> Live(flag)], changed, 1, lost)
OneDeployment ==
    {Nothing(2, 1), Holding("Started", TRUE, Gone, 2, 0), Holding("Stopped", FALSE, Unborn, 1, 1),
     Holding("Stopped", TRUE, Gone, 2, 0), Holding("Stopped", TRUE, Unborn, 1, 1)}
=============================================================================
