-------------------------- MODULE DesktopLifecycle --------------------------
(***************************************************************************)
(* The life of a desktop: the rows of the "domains" table that the API,    *)
(* the engine's threads and libvirt's events all write, without a lock.    *)
(*                                                                         *)
(*   api/libv2/api_desktop_events.py     requests: read a status, write it *)
(*   engine/models/engine.py             DomainsChangesThread, start-up    *)
(*   engine/controllers/ui_actions.py    what a change of status starts    *)
(*   engine/services/threads/hyp_worker_thread.py   one worker per hyp     *)
(*   engine/controllers/events_recolector.py        libvirt's callbacks    *)
(*   engine/controllers/broom.py         the thread that repairs           *)
(*                                                                         *)
(* Every write of a status is a step of its own: what a thread has read or *)
(* done before it may be stale when it writes.                             *)
(***************************************************************************)
EXTENDS Integers, Sequences, FiniteSets

CONSTANTS
    Desktops,       \* ids of rows of "domains" (kind desktop, one disk each)
    Hyps,           \* hypervisors, all enabled, all in pool "default"
    Clients,        \* concurrent requests the API can be serving
    NoHyp, Blank,   \* hyp_started is False (set by every clearing update); it is ""
    Scopes          \* the bounds, a set of Bounds: a behaviour keeps within one of them

AllOps == {"start", "shutdown", "stop", "delete",
           "bulk_shutdown", "bulk_stop", "bulk_delete", "force_delete"}

\* API requests served, libvirt or ssh calls that fail, guests that power off, pause or
\* resume alone, restarts of the engine; the operations asked for, and who asks.
Bounds == [requests : Nat, faults : Nat, guest : Nat, restarts : Nat,
           ops : SUBSET AllOps, clients : SUBSET Clients]

ASSUME ConstantsAssumption ==
    /\ {NoHyp, Blank} \cap Hyps = {}
    /\ {"changes", "events", "broom", "orchestrator"} \cap Hyps = {}
    /\ IsFiniteSet(Hyps)
    /\ Scopes \subseteq Bounds

VARIABLES
    status,         \* domains[d].status, or Gone when there is no row
    hyp_started,    \* domains[d].hyp_started
    disk,           \* does the disk file of d exist?
    vm,             \* what libvirt runs: vm[h][d] \in {"off", "running", "paused"}
    engine,         \* "cleaning" until the changefeed is open, then "up"
    feed,           \* changes of the changefeed not handled yet
    worker,         \* worker[h] \in {"none", "launched", "online", "ended"}
    unchecked,      \* desktops whose coherence a launched worker has yet to check
    queue,          \* the worker's priority queue
    dom_id,         \* the local of that name of the worker's run: a desktop, or unbound
    listening,      \* hypervisors whose libvirt events the engine receives
    events,         \* lifecycle events of h not delivered yet
    job,            \* the write each engine thread is about to do
    broom,          \* the broom's snapshot of the database and of libvirt
    request,        \* the write each API request is about to do
    budget,         \* what is left of the bounds, and which of them were drawn on
    ledger          \* history: what the API was asked of d, and how often d was booted

rows    == <<status, hyp_started, feed>>
libvirt == <<vm, events, disk>>
threads == <<worker, unchecked, queue, dom_id, listening, job>>
users   == <<request, budget, ledger>>
vars    == <<status, hyp_started, disk, vm, engine, feed, worker, unchecked, queue, dom_id,
            listening, events, job, broom, request, budget, ledger>>

Gone == "Gone"
Statuses == {"Stopped", "Starting", "Started", "Paused", "Resumed", "Shutting-down",
             "Stopping", "Failed", "Unknown", "Deleting", "DeletingDomainDisk",
             "DiskDeleted", "ForceDeleting"}
Transitional == {"Starting", "Stopping", "Deleting", "Shutdown", "Shutting-down"}
Threads == Hyps \cup {"changes", "events", "broom", "orchestrator"}

-----------------------------------------------------------------------------
(* Queues, jobs and writes of rows                                         *)

\* A slip: no action reports, as if every row were deleted by force.
ActionSilent(type, d, keep) == [type |-> type, id |-> d, keep |-> TRUE]

\* What a start, a stop, a shutdown or a deletion of d asks of a worker.
\* keep: not_change_status, set when the row is deleted by force.
Action(type, d, keep) == [type |-> type, id |-> d, keep |-> keep]
Priority == [stop_domain |-> 40, start_domain |-> 50,
             shutdown_domain |-> 80, delete_disk |-> 150]

\* A slip: an action waits already for the desktop, so this one is dropped.
PutOnce(q, a) == IF \E i \in 1..Len(q) : q[i].id = a.id THEN q ELSE Append(q, a)

\* PriorityQueueIsard: by priority, and in order of arrival within one.
Put(q, a) ==
    LET ahead == Cardinality({i \in 1..Len(q) : Priority[q[i].type] <= Priority[a.type]})
    IN  [i \in 1..(Len(q) + 1) |-> IF i <= ahead THEN q[i]
                                   ELSE IF i = ahead + 1 THEN a ELSE q[i - 1]]

\* The two writes of update_domain_status that a thread can be about to do.
Idle == [step |-> "idle"]
Write(d, s, h) == [step |-> "write", id |-> d, to |-> s, hyp |-> h]
Clear(d) == [step |-> "clear", id |-> d]
Dead == [step |-> "dead"]   \* an exception has ended the thread

Do(t, j) == job' = [job EXCEPT ![t] = j]
Free(t) == job[t] = Idle

\* rtable.get(id).update(...): nothing happens when the row is gone, and the
\* changefeed, once open, reports a status that differs.
SetRow(d, new, h, pending) ==
    IF status[d] = Gone
    THEN UNCHANGED <<status, hyp_started>> /\ feed' = pending
    ELSE /\ status' = [status EXCEPT ![d] = new]
         /\ hyp_started' = [hyp_started EXCEPT ![d] = h]
         /\ feed' = IF engine = "up" /\ status[d] # new
                    THEN Append(pending, [id |-> d, old |-> status[d], new |-> new])
                    ELSE pending

RemoveRow(d) ==
    /\ status' = [status EXCEPT ![d] = Gone]
    /\ hyp_started' = [hyp_started EXCEPT ![d] = NoHyp]

\* remove_fieds_when_stopped follows a write of Stopped or Failed.
AfterWrite(d, new) ==
    IF new \in {"Stopped", "Failed"} /\ status[d] # Gone THEN Clear(d) ELSE Idle

\* The broom between two passes.
Unlisted == [status |-> "Unlisted", hyp |-> NoHyp]
BroomIdle == [seen |-> [d \in Desktops |-> Unlisted], left |-> {}, todo |-> {}]

\* update_domain_status. When it has to read a row that is gone (to note the hypervisor
\* of what stops, or to keep it), its except clause ends in a NameError (domain_id): the
\* broom's pass, the orchestrator, or a worker that checks coherence end with it.
UpdateDomainStatus(t) ==
    /\ job[t].step = "write"
    /\ LET j == job[t]
           raises == /\ status[j.id] = Gone
                     /\ \/ j.to = "Stopped"
                        \/ <<t, j.to>> \in {<<"broom", "Stopping">>, <<"orchestrator", "Started">>}
       IN
       /\ SetRow(j.id, j.to, j.hyp, feed)
       /\ Do(t, IF raises /\ t = "orchestrator" THEN Dead ELSE AfterWrite(j.id, j.to))
       /\ broom' = IF raises /\ t = "broom" THEN BroomIdle ELSE broom
       /\ worker' = IF raises /\ t \in Hyps /\ worker[t] = "launched"
                    THEN [worker EXCEPT ![t] = "ended"] ELSE worker
    /\ UNCHANGED <<engine, libvirt, unchecked, queue, dom_id, listening, users>>

\* The second update: hyp_started becomes False, whatever it is by then.
RemoveFieldsWhenStopped(t) ==
    /\ job[t].step = "clear"
    /\ hyp_started' = [hyp_started EXCEPT ![job[t].id] = NoHyp]
    /\ Do(t, Idle)
    /\ UNCHANGED <<status, feed, engine, libvirt, worker, unchecked, queue, dom_id, listening,
                   broom, users>>

Spend(what) ==
    /\ budget[what] > 0
    /\ budget' = [budget EXCEPT ![what] = @ - 1, !.spent = @ \cup {what}]

-----------------------------------------------------------------------------
(* The API                                                                 *)

\* A slip: a deletion asks for a status that the engine has no handler for.
DecisionsUnhandled ==
    {<<"start", "Stopped", "Starting">>, <<"delete", "Stopped", "StoppingAndDeleting">>}

\* desktop_start, desktop_stop without and with force, desktop_delete: the status
\* read decides the status that will be written.
Decisions ==
    {<<"start", "Stopped", "Starting">>, <<"start", "Failed", "Starting">>,
     <<"shutdown", "Started", "Shutting-down">>, <<"shutdown", "Shutting-down", "Stopping">>,
     <<"shutdown", "Paused", "Stopped">>,
     <<"stop", "Started", "Stopping">>, <<"stop", "Shutting-down", "Stopping">>,
     <<"stop", "Paused", "Stopped">>,
     <<"delete", "Stopped", "Deleting">>, <<"delete", "Failed", "Deleting">>}

\* desktops_stop and desktops_delete: one update with a filter, atomic for a row.
BulkDecisions ==
    {<<"bulk_shutdown", "Shutting-down", "Stopping">>,
     <<"bulk_shutdown", "Started", "Shutting-down">>,
     <<"bulk_stop", "Shutting-down", "Stopping">>, <<"bulk_stop", "Started", "Stopping">>,
     <<"bulk_delete", "Stopped", "Deleting">>, <<"bulk_delete", "Failed", "Deleting">>}
    \cup {<<"force_delete", s, "ForceDeleting">> : s \in Statuses}

NoRequest == [to |-> "none"]

Record(d, new) ==
    ledger' = CASE new = "Starting" -> [ledger EXCEPT ![d].starts = @ + 1]
                [] new \in {"Shutting-down", "Stopping"} -> [ledger EXCEPT ![d].stop = TRUE]
                [] new \in {"Deleting", "ForceDeleting"} -> [ledger EXCEPT ![d].deletion = TRUE]
                [] OTHER -> ledger

\* get_desktop_status, and the checks that follow it.
ApiReads(c, d) ==
    /\ request[c] = NoRequest /\ c \in budget.clients
    /\ \E x \in Decisions :
          /\ x[1] \in budget.ops /\ x[2] = status[d]
          /\ request' = [request EXCEPT ![c] = [id |-> d, to |-> x[3]]]
    /\ Spend("requests")
    /\ UNCHANGED <<rows, engine, libvirt, threads, broom, ledger>>

\* The update of the row, whatever its status is by then. hyp_started is left alone.
ApiWrites(c) ==
    /\ request[c] # NoRequest
    /\ LET r == request[c] IN
       /\ SetRow(r.id, r.to, hyp_started[r.id], feed)
       /\ Record(r.id, r.to)
    /\ request' = [request EXCEPT ![c] = NoRequest]
    /\ UNCHANGED <<engine, libvirt, threads, broom, budget>>

ApiBulk(d) ==
    /\ \E x \in BulkDecisions :
          /\ x[1] \in budget.ops /\ x[2] = status[d]
          /\ SetRow(d, x[3], hyp_started[d], feed)
          /\ Record(d, x[3])
    /\ Spend("requests")
    /\ UNCHANGED <<engine, libvirt, threads, broom, request>>

-----------------------------------------------------------------------------
(* libvirt: what runs on each hypervisor, and the events the engine is sent *)

\* kinds: the lifecycle events a change of d on h emits, in order.
SetVm(h, d, s, kinds) ==
    /\ vm' = [vm EXCEPT ![h][d] = s]
    /\ events' = IF h \in listening
                 THEN [events EXCEPT ![h] = @ \o [i \in 1..Len(kinds) |-> [id |-> d, kind |-> kinds[i]]]]
                 ELSE events

\* The guest powers off (asked by ACPI, by its user, or by a crash), is suspended
\* or is resumed from outside the engine.
GuestChanges(h, d) ==
    /\ \/ vm[h][d] # "off"     /\ SetVm(h, d, "off", <<"Stopped">>)
       \/ vm[h][d] = "running" /\ SetVm(h, d, "paused", <<"Suspended">>)
       \/ vm[h][d] = "paused"  /\ SetVm(h, d, "running", <<"Resumed">>)
    /\ Spend("guest")
    /\ UNCHANGED <<rows, engine, disk, threads, broom, request, ledger>>

-----------------------------------------------------------------------------
(* DomainsChangesThread: one change of the feed at a time                   *)

Online == {h \in Hyps : worker[h] = "online"}
ActionsEnabled == engine = "up" /\ \E h \in Hyps : worker[h] # "none"

\* The change at the head of the feed, when the thread can take it and act on it:
\* update_domain_history_from_id_domain refuses a row that is gone.
Takes(c) ==
    /\ feed # <<>> /\ c = Head(feed)
    /\ Free("changes")
Acts(c) == Takes(c) /\ ActionsEnabled /\ status[c.id] # Gone

ChangesRest == <<engine, libvirt, worker, unchecked, dom_id, listening, broom, users>>

\* A slip: whatever leaves Started is stopped.
IsStopAny(c)  == c.old \in {"Started", "Shutting-down"} /\ c.new \in {"Stopping", "Stopped"}

IsStart(c)    == c.old \in {"Stopped", "Failed"} /\ c.new = "Starting"
IsShutdown(c) == c.old = "Started" /\ c.new = "Shutting-down"
IsStop(c)     == c.old \in {"Started", "Shutting-down"} /\ c.new = "Stopping"
IsDelete(c)   == c.old \notin {"Started", "Shutting-down"} /\ c.new = "Deleting"
IsRemove(c)   == c.old = "DeletingDomainDisk" /\ c.new = "DiskDeleted"
IsForce(c)    == c.new = "ForceDeleting"

\* No worker yet: a status that ends in "ing" goes back to the one before it.
RevertChange(c) ==
    /\ Takes(c) /\ ~ActionsEnabled
    /\ IF c.new \in {"Starting", "Stopping", "Deleting", "ForceDeleting"}
       THEN /\ SetRow(c.id, c.old, NoHyp, Tail(feed))
            /\ Do("changes", AfterWrite(c.id, c.old))
       ELSE feed' = Tail(feed) /\ UNCHANGED <<status, hyp_started, job>>
    /\ UNCHANGED <<queue, ChangesRest>>

\* start_domain_from_id: recreate_xml_to_start clears hyp_started, then the pool picks an
\* online hypervisor. The desktop fails when there is none, or when its XML cannot be
\* built.
HandleStart(c) ==
    /\ Acts(c) /\ IsStart(c)
    /\ \/ /\ \E h \in Online :
                queue' = [queue EXCEPT ![h] = Put(@, Action("start_domain", c.id, FALSE))]
          /\ hyp_started' = [hyp_started EXCEPT ![c.id] = NoHyp]
          /\ feed' = Tail(feed)
          /\ UNCHANGED <<status, job, budget>>
       \/ /\ \/ Online = {} /\ UNCHANGED budget
             \/ Spend("faults")
          /\ SetRow(c.id, "Failed", NoHyp, Tail(feed))
          /\ Do("changes", AfterWrite(c.id, "Failed"))
          /\ UNCHANGED queue
    /\ UNCHANGED <<engine, libvirt, worker, unchecked, dom_id, listening, broom, request, ledger>>

\* get_domain_hyp_started is read now; without a hypervisor, or with one that has no
\* queue (a KeyError the thread catches), nothing happens.
HandleStopping(c) ==
    /\ Acts(c) /\ (IsShutdown(c) \/ IsStop(c))
    /\ LET h == hyp_started[c.id]
           type == IF IsStop(c) THEN "stop_domain" ELSE "shutdown_domain"
       IN queue' = IF h \in Hyps /\ worker[h] # "none"
                   THEN [queue EXCEPT ![h] = Put(@, Action(type, c.id, FALSE))]
                   ELSE queue
    /\ feed' = Tail(feed)
    /\ UNCHANGED <<status, hyp_started, job, ChangesRest>>

\* deleting_disks_from_domain: any online hypervisor will do; with none the row
\* stays in Deleting.
HandleDelete(c) ==
    /\ Acts(c) /\ IsDelete(c)
    /\ \/ \E h \in Online :
             /\ SetRow(c.id, "DeletingDomainDisk", h, Tail(feed))
             /\ queue' = [queue EXCEPT ![h] = Put(@, Action("delete_disk", c.id, FALSE))]
       \/ /\ Online = {}
          /\ feed' = Tail(feed)
          /\ UNCHANGED <<status, hyp_started, queue>>
    /\ UNCHANGED <<job, ChangesRest>>

HandleDiskDeleted(c) ==
    /\ Acts(c) /\ IsRemove(c)
    /\ RemoveRow(c.id)
    /\ feed' = Tail(feed)
    /\ UNCHANGED <<queue, job, ChangesRest>>

\* force_deleting: stop it where it runs, delete its disk, remove the row, waiting for
\* nothing. A hypervisor without a queue ends it in a KeyError before the deletions.
HandleForceDeleting(c) ==
    /\ Acts(c) /\ IsForce(c)
    /\ feed' = Tail(feed)
    /\ LET h == hyp_started[c.id]
           stops == c.old \in {"Started", "Shutting-down", "Stopping", "Paused"} /\ h # NoHyp
           stopped == IF stops THEN [queue EXCEPT ![h] = Put(@, Action("stop_domain", c.id, TRUE))]
                      ELSE queue
       IN IF stops /\ (h = Blank \/ worker[h] = "none")
          THEN UNCHANGED <<status, hyp_started, queue>>
          ELSE /\ RemoveRow(c.id)
               /\ \/ \E g \in Online :
                        queue' = [stopped EXCEPT ![g] = Put(@, Action("delete_disk", c.id, TRUE))]
                  \/ Online = {} /\ queue' = stopped
    /\ UNCHANGED <<job, ChangesRest>>

SkipChange(c) ==
    /\ Takes(c) /\ ActionsEnabled
    /\ \/ status[c.id] = Gone
       \/ ~(IsStart(c) \/ IsShutdown(c) \/ IsStop(c) \/ IsDelete(c) \/ IsRemove(c) \/ IsForce(c))
    /\ feed' = Tail(feed)
    /\ UNCHANGED <<status, hyp_started, queue, job, ChangesRest>>

-----------------------------------------------------------------------------
(* HypWorkerThread: one action of its queue at a time                       *)

Runs(h, type) ==
    /\ worker[h] = "online" /\ Free(h)
    /\ queue[h] # <<>> /\ Head(queue[h]).type = type

\* A slip: the action is looked at and left in the queue.
Peek(h) == UNCHANGED queue

Pop(h) == queue' = [queue EXCEPT ![h] = Tail(@)]
WorkerRest == <<rows, engine, worker, unchecked, listening, broom, request>>

\* createXML, then the status. The memory check or libvirt may refuse (always when its
\* disk is gone); reading the new VM back may fail after it runs. When d is already
\* active here the worker reports dom_id, the desktop it started last, as Started; its
\* thread dies if it has started none (an UnboundLocalError that nothing catches).
WorkerStartsDomain(h) ==
    /\ Runs(h, "start_domain") /\ Pop(h)
    /\ LET d == Head(queue[h]).id
           boots == vm[h][d] = "off" /\ disk[d]
       IN \/ /\ boots
             /\ SetVm(h, d, "running", <<"Resumed", "Started">>)
             /\ ledger' = [ledger EXCEPT ![d].boots = @ + 1]
             /\ \/ /\ Do(h, Write(d, "Started", h))
                   /\ dom_id' = [dom_id EXCEPT ![h] = {d}]
                   /\ UNCHANGED budget
                \/ Do(h, Write(d, "Failed", h)) /\ Spend("faults") /\ UNCHANGED dom_id
          \/ /\ vm[h][d] # "off"
             /\ \/ dom_id[h] = {} /\ Do(h, Dead)
                \/ \E e \in dom_id[h] : Do(h, Write(e, "Started", h))
             /\ UNCHANGED <<vm, events, dom_id, budget, ledger>>
          \/ /\ Do(h, Write(d, "Failed", h))
             /\ \/ Spend("faults")
                \/ vm[h][d] = "off" /\ ~disk[d] /\ UNCHANGED budget
             /\ UNCHANGED <<vm, events, dom_id, ledger>>
    /\ UNCHANGED <<disk, WorkerRest>>

\* shutdownFlags: the guest is asked; looking up a VM that is not there only logs.
WorkerShutsDown(h) ==
    /\ Runs(h, "shutdown_domain") /\ Pop(h)
    /\ LET d == Head(queue[h]).id
       IN Do(h, IF vm[h][d] = "off" THEN Idle ELSE Write(d, "Shutting-down", h))
    /\ UNCHANGED <<libvirt, ledger, budget, dom_id, WorkerRest>>

\* destroy; a VM that is not there, or a destroy that fails, fails the desktop.
WorkerStopsDomain(h) ==
    /\ Runs(h, "stop_domain") /\ Pop(h)
    /\ LET a == Head(queue[h])
           runs == vm[h][a.id] # "off"
       IN \/ /\ runs
             /\ SetVm(h, a.id, "off", <<"Stopped">>)
             /\ Do(h, IF a.keep THEN Idle ELSE Write(a.id, "Stopped", Blank))
             /\ UNCHANGED budget
          \/ /\ IF runs THEN Spend("faults") ELSE UNCHANGED budget
             /\ Do(h, IF a.keep THEN Idle ELSE Write(a.id, "Failed", h))
             /\ UNCHANGED <<vm, events>>
    /\ UNCHANGED <<disk, ledger, dom_id, WorkerRest>>

\* launch_action_disk: whatever the commands return, the status is DiskDeleted.
WorkerDeletesDisk(h) ==
    /\ Runs(h, "delete_disk") /\ Pop(h)
    /\ LET a == Head(queue[h])
       IN /\ \/ disk' = [disk EXCEPT ![a.id] = FALSE] /\ UNCHANGED budget
             \/ UNCHANGED disk /\ Spend("faults")
          /\ Do(h, IF a.keep THEN Idle ELSE Write(a.id, "DiskDeleted", NoHyp))
    /\ UNCHANGED <<vm, events, ledger, dom_id, WorkerRest>>

-----------------------------------------------------------------------------
(* myDomainEventCallbackRethink: libvirt delivers in order per hypervisor   *)

\* What an event makes of the status the callback has just read.
EventDecision(e, h) ==
    LET s == status[e.id] IN
    CASE s = Gone -> Idle
      [] e.kind = "Resumed" /\ s \in {"Stopped", "Started", "Starting"} -> Idle
      [] e.kind = "Resumed" /\ s = "Paused" -> Write(e.id, "Started", h)
      [] e.kind = "Suspended" -> Write(e.id, "Paused", h)
      [] e.kind = "Stopped" /\ s \in {"Stopped", "ForceDeleting"} -> Idle
      [] e.kind = "Stopped" -> Write(e.id, "Stopped", NoHyp)
      [] OTHER -> Write(e.id, e.kind, h)

EventCallback(h) ==
    /\ events[h] # <<>> /\ Free("events")
    /\ events' = [events EXCEPT ![h] = Tail(@)]
    /\ Do("events", EventDecision(Head(events[h]), h))
    /\ UNCHANGED <<rows, engine, vm, disk, worker, unchecked, queue, dom_id, listening, broom, users>>

-----------------------------------------------------------------------------
(* ThreadBroom: a pass lists the rows, polls libvirt, then repairs          *)

\* What get_domains_with_transitional_status(also_started=True) says of a row.
Listing(d) ==
    CASE status[d] \in {"Starting", "Stopping", "Shutting-down"} /\ hyp_started[d] \in Hyps
            -> [status |-> status[d], hyp |-> hyp_started[d]]
      [] status[d] \in Transitional \cup {"Started", "Paused"} -> [Unlisted EXCEPT !.status = "Listed"]
      [] OTHER -> Unlisted

BroomLists ==
    /\ ActionsEnabled /\ broom = BroomIdle /\ Free("broom")
    /\ Online # {}
    /\ broom' = [broom EXCEPT !.seen = [d \in Desktops |-> Listing(d)], !.left = Online]
    /\ UNCHANGED <<rows, engine, libvirt, threads, users>>

\* Two slips: nothing is destroyed; whatever is not listed is destroyed.
OrphansIgnored(h) == {}
OrphansUnlisted(h) == {d \in Desktops : vm[h][d] # "off" /\ broom.seen[d] = Unlisted}

\* What runs without a row is destroyed (its event will find no row either).
Orphans(h) == {d \in Desktops : /\ vm[h][d] # "off" /\ status[d] = Gone
                                /\ broom.seen[d] = Unlisted}

\* The repairs h calls for. A listed Starting found running calls for none: the thread
\* calls the dictionary dict_domain_libvirt_state_to_isard_state, and its pass ends.
EndsPass(d) == [step |-> "raise", id |-> d]
Repairs(h) ==
    LET on == {d \in Desktops \ Orphans(h) : vm[h][d] # "off"}
        saw(s) == {d \in Desktops : broom.seen[d] = [status |-> s, hyp |-> h]}
    IN  {Write(d, IF vm[h][d] = "running" THEN "Started" ELSE "Paused", h) :
             d \in {e \in on : broom.seen[e] = Unlisted}}
        \cup {EndsPass(d) : d \in saw("Starting") \cap on}
        \cup {Write(d, "Stopped", NoHyp) : d \in saw("Stopping") \ on}
        \cup {Write(d, "Stopping", h) : d \in saw("Shutting-down")}
Adopts(r) == r.step = "write" /\ r.to \in {"Started", "Paused"}

BroomPolls(h) ==
    /\ Free("broom") /\ h \in broom.left
    /\ vm' = [vm EXCEPT ![h] = [d \in Desktops |-> IF d \in Orphans(h) THEN "off" ELSE @[d]]]
    /\ LET left == broom.left \ {h}
           todo == broom.todo \cup Repairs(h)
       IN broom' = [seen |-> IF left = {} THEN BroomIdle.seen ELSE broom.seen,
                    left |-> left, todo |-> todo]
    /\ UNCHANGED <<rows, engine, disk, events, threads, users>>

\* One repair: first the rows that were not listed, read again, then those that were.
\* A Shutting-down is made Stopping only after five minutes.
BroomRepairs(r) ==
    /\ Free("broom") /\ broom.left = {} /\ r \in broom.todo
    /\ Adopts(r) \/ \A o \in broom.todo : ~Adopts(o)
    /\ \/ /\ r.step = "raise"
          /\ broom' = BroomIdle /\ UNCHANGED job
       \/ /\ r.step = "write" /\ broom' = [broom EXCEPT !.todo = @ \ {r}]
          /\ \/ /\ Adopts(r) => status[r.id] \notin {Gone, "ForceDeleting"}
                /\ Do("broom", IF r.to = "Stopping" THEN [r EXCEPT !.hyp = hyp_started[r.id]] ELSE r)
             \/ /\ \/ Adopts(r) /\ status[r.id] \in {Gone, "ForceDeleting"}
                   \/ r.to = "Stopping"
                /\ UNCHANGED job
    /\ UNCHANGED <<rows, engine, libvirt, worker, unchecked, queue, dom_id, listening, users>>

-----------------------------------------------------------------------------
(* Restarts of the engine, and hypervisors coming online                    *)

\* The process ends: its queues, its feed and what its threads were about to do are
\* lost. The database and the VMs remain.
EngineRestarts ==
    /\ Spend("restarts")
    /\ engine' = "cleaning"
    /\ feed' = <<>>
    /\ worker' = [h \in Hyps |-> "none"]
    /\ unchecked' = [h \in Hyps |-> {}]
    /\ queue' = [h \in Hyps |-> <<>>]
    /\ dom_id' = [h \in Hyps |-> {}]
    /\ listening' = {}
    /\ events' = [h \in Hyps |-> <<>>]
    /\ job' = [t \in Threads |-> Idle]
    /\ broom' = BroomIdle
    /\ UNCHANGED <<status, hyp_started, vm, disk, request, ledger>>

\* A slip: a desktop that was starting is cleaned like one that was being created.
CleanedAway(s, h) == IF s = "Starting" THEN <<Gone, NoHyp>> ELSE <<s, h>>

\* clean_intermediate_status, clean_started_without_hyp and
\* domain_status_from_started_to_unknown, on one row.
Cleaned(s, h) ==
    CASE s \in {"Deleting", "DiskDeleted", "DeletingDomainDisk"} -> <<"Failed", NoHyp>>
      [] s = "Starting" -> <<"Stopped", NoHyp>>
      [] s \in {"Stopping", "Shutting-down", "Started"} /\ h \notin Hyps -> <<"Failed", NoHyp>>
      [] s \in {"Stopping", "Shutting-down", "Started"} -> <<"Unknown", h>>
      [] OTHER -> <<s, h>>

EngineCleans ==
    /\ engine = "cleaning"
    /\ engine' = "cleaned"
    /\ status' = [d \in Desktops |-> Cleaned(status[d], hyp_started[d])[1]]
    /\ hyp_started' = [d \in Desktops |-> Cleaned(status[d], hyp_started[d])[2]]
    /\ UNCHANGED <<feed, libvirt, threads, broom, users>>

\* DomainsChangesThread opens the changefeed: writes before this are never seen.
EngineSubscribes ==
    /\ engine = "cleaned"
    /\ engine' = "up"
    /\ UNCHANGED <<rows, libvirt, threads, broom, users>>

\* The orchestrator launches the worker of h: from now on h has a queue.
LaunchesWorker(h) ==
    /\ engine = "up" /\ worker[h] = "none" /\ Free("orchestrator")
    /\ worker' = [worker EXCEPT ![h] = "launched"]
    /\ unchecked' = [unchecked EXCEPT ![h] = Desktops]
    /\ UNCHANGED <<rows, engine, libvirt, queue, dom_id, listening, job, broom, users>>

\* A slip: only what runs is looked at.
CoherenceOfRunning(h, d) == IF vm[h][d] = "running" THEN Write(d, "Started", h) ELSE Idle

Coherence(h, d) ==
    CASE vm[h][d] = "running" -> Write(d, "Started", h)
      [] vm[h][d] = "paused" -> Write(d, "Paused", h)
      [] vm[h][d] = "off" /\ hyp_started[d] = h -> Write(d, "Stopped", NoHyp)
      [] OTHER -> Idle

\* update_domain_coherence_in_db, one desktop at a time.
WorkerChecksCoherence(h, d) ==
    /\ worker[h] = "launched" /\ Free(h) /\ d \in unchecked[h]
    /\ unchecked' = [unchecked EXCEPT ![h] = @ \ {d}]
    /\ Do(h, Coherence(h, d))
    /\ UNCHANGED <<rows, engine, libvirt, worker, queue, dom_id, listening, broom, users>>

WorkerGoesOnline(h) ==
    /\ worker[h] = "launched" /\ Free(h) /\ unchecked[h] = {}
    /\ worker' = [worker EXCEPT ![h] = "online"]
    /\ UNCHANGED <<rows, engine, libvirt, unchecked, queue, dom_id, listening, job, broom, users>>

\* clean_intermediate_status of one desktop.
CleanedAlone(d) ==
    CASE status[d] \in {"Deleting", "DiskDeleted", "DeletingDomainDisk"} -> Write(d, "Failed", NoHyp)
      [] status[d] = "Starting" -> Write(d, "Stopped", NoHyp)
      [] status[d] \in {"Stopping", "Shutting-down"} -> Write(d, "Started", hyp_started[d])
      [] OTHER -> Idle

\* thread_hyp_worker_dead: move_actions_to_others_hypers drops what the queue of a worker
\* that ended holds and cleans the desktop of each action; then h may be launched again.
OrchestratorBuries(h) ==
    /\ worker[h] = "ended" /\ Free("orchestrator")
    /\ \/ /\ queue[h] # <<>> /\ queue' = [queue EXCEPT ![h] = Tail(@)]
          /\ Do("orchestrator", CleanedAlone(Head(queue[h]).id))
          /\ UNCHANGED worker
       \/ /\ queue[h] = <<>> /\ worker' = [worker EXCEPT ![h] = "none"]
          /\ UNCHANGED <<queue, job>>
    /\ UNCHANGED <<rows, engine, libvirt, unchecked, dom_id, listening, broom, users>>

\* add_hyp_to_receive_events, asked by the worker after its coherence check.
EventsListen(h) ==
    /\ worker[h] = "online" /\ h \notin listening
    /\ listening' = listening \cup {h}
    /\ UNCHANGED <<rows, engine, libvirt, worker, unchecked, queue, dom_id, job, broom, users>>

-----------------------------------------------------------------------------
\* The engine is up, every hypervisor online, every desktop stopped.
Init ==
    /\ status = [d \in Desktops |-> "Stopped"]
    /\ hyp_started = [d \in Desktops |-> NoHyp]
    /\ disk = [d \in Desktops |-> TRUE]
    /\ vm = [h \in Hyps |-> [d \in Desktops |-> "off"]]
    /\ engine = "up"
    /\ feed = <<>>
    /\ worker = [h \in Hyps |-> "online"]
    /\ unchecked = [h \in Hyps |-> {}]
    /\ queue = [h \in Hyps |-> <<>>]
    /\ dom_id = [h \in Hyps |-> {}]
    /\ listening = Hyps
    /\ events = [h \in Hyps |-> <<>>]
    /\ job = [t \in Threads |-> Idle]
    /\ broom = BroomIdle
    /\ request = [c \in Clients |-> NoRequest]
    /\ \E s \in Scopes :
          budget = [requests |-> s.requests, faults |-> s.faults, guest |-> s.guest,
                    restarts |-> s.restarts, ops |-> s.ops, clients |-> s.clients, spent |-> {}]
    /\ ledger = [d \in Desktops |-> [starts |-> 0, boots |-> 0, stop |-> FALSE, deletion |-> FALSE]]

Api == \/ \E c \in Clients : ApiWrites(c) \/ \E d \in Desktops : ApiReads(c, d)
       \/ \E d \in Desktops : ApiBulk(d)

Changes(c) == \/ RevertChange(c) \/ HandleStart(c) \/ HandleStopping(c)
              \/ HandleDelete(c) \/ HandleDiskDeleted(c) \/ HandleForceDeleting(c)
              \/ SkipChange(c)

Worker(h) == \/ WorkerStartsDomain(h) \/ WorkerShutsDown(h)
             \/ WorkerStopsDomain(h) \/ WorkerDeletesDisk(h)

Writes(t) == UpdateDomainStatus(t) \/ RemoveFieldsWhenStopped(t)

Broom == \/ BroomLists
         \/ \E h \in Hyps : BroomPolls(h)
         \/ \E r \in broom.todo : BroomRepairs(r)

Boots == \/ EngineCleans \/ EngineSubscribes
         \/ \E h \in Hyps : \/ LaunchesWorker(h) \/ WorkerGoesOnline(h) \/ EventsListen(h)
                            \/ OrchestratorBuries(h)
                            \/ \E d \in Desktops : WorkerChecksCoherence(h, d)

Next == \/ Api
        \/ \E h \in Hyps, d \in Desktops : GuestChanges(h, d)
        \/ feed # <<>> /\ Changes(Head(feed))
        \/ \E h \in Hyps : Worker(h) \/ EventCallback(h)
        \/ \E t \in Threads : Writes(t)
        \/ Broom
        \/ EngineRestarts
        \/ Boots

Spec == Init /\ [][Next]_vars

\* The engine's threads run as long as the process does, and libvirt delivers. Nothing
\* is assumed of users, guests, faults and restarts.
Fairness ==
    /\ WF_vars(feed # <<>> /\ Changes(Head(feed)))
    /\ \A h \in Hyps : WF_vars(Worker(h)) /\ WF_vars(EventCallback(h))
    /\ \A t \in Threads : WF_vars(Writes(t))
    /\ WF_vars(Broom)
    /\ WF_vars(Boots)

FairSpec == Spec /\ Fairness

-----------------------------------------------------------------------------
(* Types                                                                    *)

HypsStarted == Hyps \cup {NoHyp, Blank}
Jobs == [step : {"idle", "dead"}] \cup [step : {"clear"}, id : Desktops]
        \cup [step : {"write"}, id : Desktops, to : Statuses, hyp : HypsStarted]
ActionsOfWorkers == [type : DOMAIN Priority, id : Desktops, keep : BOOLEAN]
ChangesOfRows == [id : Desktops, old : Statuses, new : Statuses]
EventsOfVms == [id : Desktops, kind : {"Started", "Stopped", "Suspended", "Resumed"}]
Requests == [to : {"none"}]
            \cup [id : Desktops, to : {"Starting", "Shutting-down", "Stopping", "Stopped", "Deleting"}]
Listings == [status : {"Unlisted", "Listed", "Starting", "Stopping", "Shutting-down"},
             hyp : Hyps \cup {NoHyp}]
RepairsOfRows ==
    [step : {"raise"}, id : Desktops]
    \cup [step : {"write"}, id : Desktops,
          to : {"Started", "Paused", "Stopped", "Stopping"}, hyp : HypsStarted]
Budgets == [requests : Nat, faults : Nat, guest : Nat, restarts : Nat,
            ops : SUBSET AllOps, clients : SUBSET Clients,
            spent : SUBSET {"requests", "faults", "guest", "restarts"}]

\* Every variable keeps its type; what may wait to be written by each actor is part
\* of it (the API never writes Started, the broom never deletes).
TypeOK ==
    /\ status \in [Desktops -> Statuses \cup {Gone}]
    /\ hyp_started \in [Desktops -> HypsStarted]
    /\ disk \in [Desktops -> BOOLEAN]
    /\ vm \in [Hyps -> [Desktops -> {"off", "running", "paused"}]]
    /\ engine \in {"cleaning", "cleaned", "up"}
    /\ feed \in Seq(ChangesOfRows)
    /\ worker \in [Hyps -> {"none", "launched", "online", "ended"}]
    /\ unchecked \in [Hyps -> SUBSET Desktops]
    /\ queue \in [Hyps -> Seq(ActionsOfWorkers)]
    /\ dom_id \in [Hyps -> SUBSET Desktops]
    /\ listening \in SUBSET Hyps
    /\ events \in [Hyps -> Seq(EventsOfVms)]
    /\ job \in [Threads -> Jobs]
    /\ broom \in [seen : [Desktops -> Listings], left : SUBSET Hyps, todo : SUBSET RepairsOfRows]
    /\ request \in [Clients -> Requests]
    /\ budget \in Budgets
    /\ ledger \in [Desktops -> [starts : Nat, boots : Nat, stop : BOOLEAN, deletion : BOOLEAN]]

-----------------------------------------------------------------------------
(* What holds                                                               *)

\* No row is removed and no disk deleted of a desktop whose deletion nobody asked for,
\* whatever stale statuses the feed, the queues and the threads carry (deleting_disks_
\* from_domain, force_deleting, remove_domain, launch_action_disk, the start-up clean).
NothingDeletedUnasked ==
    \A d \in Desktops : status[d] = Gone \/ ~disk[d] => ledger[d].deletion

\* Neither a call has failed nor the engine restarted.
Calm == budget.spent \cap {"faults", "restarts"} = {}

\* The disk of a row that is gone is gone too, or its deletion is in a worker's queue.
DisksFollow ==
    \A d \in Desktops : status[d] = Gone /\ disk[d] =>
        \E h \in Hyps : \E i \in 1..Len(queue[h]) :
            queue[h][i].id = d /\ queue[h][i].type = "delete_disk"

\* A row is not removed while its disk stays behind: the disk is gone, or a worker has
\* its deletion in its queue (remove_domain after DiskDeleted and after force_deleting).
\* As long as nothing has failed and the engine has not restarted: the queues live in
\* memory, and launch_action_disk reports DiskDeleted whatever the commands returned.
RemovedWithItsDisk == Calm => DisksFollow

\* The engine powers a VM off only when somebody has asked to stop or to delete the
\* desktop: no stale change, late repair or start-up clean leads to a destroy
\* (hyp_worker_thread's stop_domain, the broom's destroy of what has no row).
StoppedOnRequest ==
    [][\A h \in Hyps, d \in Desktops :
          /\ vm[h][d] # "off" /\ vm'[h][d] = "off"
          /\ budget'.guest = budget.guest
          => ledger[d].stop \/ ledger[d].deletion]_vars

\* A forced deletion is final, whatever else was under way (a start in a queue, a late
\* event, another request): in the end no row, no disk and no VM, for good.  A restart
\* of the engine reverts it, or finds no hypervisor on line to delete the disk.
ForceDeletedForGood ==
    \A d \in Desktops : status[d] = "ForceDeleting" ~>
        \/ "restarts" \in budget.spent
        \/ [](status[d] = Gone /\ ~disk[d] /\ \A h \in Hyps : vm[h][d] = "off")

\* A desktop whose disk is being deleted does not stay so: the worker reports, another
\* writer overtakes it, or a restart fails it (DeletingDomainDisk in engine.py).
DiskDeletionEnds ==
    \A d \in Desktops : status[d] = "DeletingDomainDisk" ~> status[d] # "DeletingDomainDisk"

\* What a restart makes Unknown on a hypervisor is known again once that hypervisor is
\* online, unless the row loses its hypervisor meanwhile (domain_status_from_started_to_
\* unknown, update_domain_coherence_in_db).
UnknownResolves ==
    \A d \in Desktops, h \in Hyps :
        status[d] = "Unknown" /\ hyp_started[d] = h ~> status[d] # "Unknown" \/ hyp_started[d] # h

\* A VM whose row is gone does not run for ever, across restarts of the engine that
\* lose the stop in the queue (the broom's destroy).
OrphansAreDestroyed ==
    \A d \in Desktops, h \in Hyps :
        status[d] = Gone /\ vm[h][d] # "off" ~> vm[h][d] = "off"

-----------------------------------------------------------------------------
(* Why the first and the third hold: wherever a status waits (in a row, the *)
(* feed, a queue, a thread, the broom's snapshot), it was asked for          *)

DeletionStatuses == {"Deleting", "DeletingDomainDisk", "DiskDeleted", "ForceDeleting", Gone}
StopStatuses == {"Shutting-down", "Stopping"}

\* The API was asked for what status s of d stands for.
Asked(d, s) ==
    /\ s \in DeletionStatuses => ledger[d].deletion
    /\ s \in StopStatuses => ledger[d].stop

ActionAsked(a) ==
    /\ a.type = "delete_disk" => ledger[a.id].deletion
    /\ a.type = "stop_domain" => ledger[a.id].stop \/ ledger[a.id].deletion
    /\ a.type = "shutdown_domain" => ledger[a.id].stop

RowsAsked == \A d \in Desktops : Asked(d, status[d]) /\ (~disk[d] => ledger[d].deletion)
FeedAsked == \A i \in 1..Len(feed) : Asked(feed[i].id, feed[i].old) /\ Asked(feed[i].id, feed[i].new)
QueuesAsked == \A h \in Hyps : \A i \in 1..Len(queue[h]) : ActionAsked(queue[h][i])
JobsAsked == \A t \in Threads : job[t].step = "write" => Asked(job[t].id, job[t].to)
BroomAsked ==
    /\ \A d \in Desktops : Asked(d, broom.seen[d].status)
    /\ \A r \in broom.todo : r.step = "write" => Asked(r.id, r.to)

\* No stale copy of a status, wherever it is kept and however old it is, tells of a stop
\* or a deletion that the API was not asked for: so none can be written back, turned into
\* an action or repaired into one (the reverted changes, the broom, the start-up clean).
NothingWaitsUnasked == RowsAsked /\ FeedAsked /\ QueuesAsked /\ JobsAsked /\ BroomAsked

-----------------------------------------------------------------------------
(* What the code says of itself, and does not keep                          *)

\* "if domains have no hyp_started if status if Started, Stopping... must be Failed":
\* a status of a running desktop comes with a hypervisor (clean_started_without_hyp).
StoppingHasHypervisor ==
    \A d \in Desktops :
        status[d] \in {"Started", "Stopping", "Shutting-down"} => hyp_started[d] \in Hyps

\* "force deleting, launched force destroy domain if started and delete disks in
\* threads": a row in ForceDeleting has its deletion ahead (force_deleting).
ForceDeletingIsUnderWay ==
    \A d \in Desktops : status[d] = "ForceDeleting" =>
        \E i \in 1..Len(feed) : feed[i].id = d /\ feed[i].new = "ForceDeleting"

-----------------------------------------------------------------------------
(* What is promised to the owner of a desktop                               *)

Rows == {d \in Desktops : status[d] # Gone}
Disks == {d \in Desktops : disk[d]}
Vms == {x \in Hyps \X Desktops : vm[x[1]][x[2]] # "off"}
StartsOwed == [d \in Desktops |-> ledger[d].starts - ledger[d].boots]
Doomed == {d \in Desktops : ledger[d].deletion}

Promise == INSTANCE DesktopPromise WITH
    exists <- Rows, intact <- Disks, running <- Vms, owed <- StartsOwed, doomed <- Doomed

\* The threads together keep the promise: no step of theirs but those it allows.
KeepsPromise == Promise!Spec
=============================================================================
