------------------------- MODULE MCDesktopLifecycle -------------------------
(* Small instances of DesktopLifecycle for TLC. *)
EXTENDS DesktopLifecycle

\* One client asks twice, a guest acts alone once, and nothing fails.
Quiet == [requests |-> 2, faults |-> 0, guest |-> 1, restarts |-> 0,
          ops |-> {"start", "stop", "delete", "force_delete"},
          clients |-> {CHOOSE c \in Clients : TRUE}]

\* Requests of two clients, of every kind, overlap.
Overlapping == [Quiet EXCEPT !.ops = AllOps, !.clients = Clients]

\* A call that fails and a restart between two requests; a guest that acts and a restart.
Failing == [Quiet EXCEPT !.faults = 1, !.restarts = 1, !.guest = 0]
Restarting == [Quiet EXCEPT !.restarts = 1]

RequestScopes == {Overlapping, Failing, Restarting}

\* Starts and deletions of one desktop, and a restart of the engine at any moment.
EndingScopes == {[Restarting EXCEPT !.ops = @ \ {"stop"}]}

\* A status is read, a VM stops, the status is written.
StopScopes == {[Quiet EXCEPT !.ops = {"start", "stop"}]}

\* A forced deletion right after a stop.
ForceScopes == {[Quiet EXCEPT !.ops = {"start", "stop", "force_delete"},
                              !.requests = 4, !.guest = 0, !.clients = Clients]}
=============================================================================
