--------------------------- MODULE DesktopPromise ---------------------------
(***************************************************************************)
(* What the owner of a desktop is promised, whatever the API, the engine   *)
(* and libvirt do between a request and its effect: a VM boots at most     *)
(* once for each start that was asked for and only on an intact disk, and  *)
(* a disk or a row disappears only once a deletion was asked for. A VM may *)
(* power off at any time (its guest may).                                  *)
(***************************************************************************)
EXTENDS Integers

CONSTANTS Desktops, Hyps

VARIABLES
    exists,     \* desktops with a row
    intact,     \* desktops with a disk
    running,    \* <<h, d>>: h runs a VM of d
    owed,       \* owed[d]: starts asked for that no boot has used
    doomed      \* desktops whose deletion was asked for

vars == <<exists, intact, running, owed, doomed>>

Init ==
    /\ exists = Desktops /\ intact = Desktops
    /\ running = {} /\ doomed = {}
    /\ owed = [d \in Desktops |-> 0]

AskStart(d) ==
    /\ owed' = [owed EXCEPT ![d] = @ + 1]
    /\ UNCHANGED <<exists, intact, running, doomed>>

AskDeletion(d) ==
    /\ doomed' = doomed \cup {d}
    /\ UNCHANGED <<exists, intact, running, owed>>

Boot(h, d) ==
    /\ owed[d] > 0 /\ d \in intact /\ <<h, d>> \notin running
    /\ owed' = [owed EXCEPT ![d] = @ - 1]
    /\ running' = running \cup {<<h, d>>}
    /\ UNCHANGED <<exists, intact, doomed>>

PowerOff ==
    /\ running' \in SUBSET running
    /\ UNCHANGED <<exists, intact, owed, doomed>>

DeleteDisk(d) ==
    /\ d \in doomed
    /\ intact' = intact \ {d}
    /\ UNCHANGED <<exists, running, owed, doomed>>

RemoveRow(d) ==
    /\ d \in doomed
    /\ exists' = exists \ {d}
    /\ UNCHANGED <<intact, running, owed, doomed>>

Next == \/ PowerOff
        \/ \E d \in Desktops : \/ AskStart(d) \/ AskDeletion(d) \/ DeleteDisk(d) \/ RemoveRow(d)
                               \/ \E h \in Hyps : Boot(h, d)

Spec == Init /\ [][Next]_vars
=============================================================================
