----------------------------- MODULE DesktopFeed -----------------------------
(***************************************************************************)
(* How a browser's lists follow the tables: the API threads that turn the  *)
(* changes of the domains and deployments tables into socket.io events     *)
(* (libv2/api_socketio_domains.py, api_socketio_deployments.py), the       *)
(* deployment requests that change many rows (api_deployments.py), and the *)
(* Vuex stores that apply events and fetched lists (frontend/src/store).   *)
(* One user: it owns the deployments and has a desktop in each.            *)
(***************************************************************************)
EXTENDS Naturals, SequencesExt

CONSTANTS Desktops, Deployments,
          None,        (* no deployment, no page                           *)
          Tag,         (* the deployment of each desktop, or None          *)
          Scopes       (* the tables at the start, and the bounds: changes *)
                       (* of the tables, pages opened, connections lost    *)

ASSUME TagAssumption ==
    /\ IsFiniteSet(Desktops) /\ IsFiniteSet(Deployments)
    /\ None \notin Deployments
    /\ Tag \in [Desktops -> Deployments \cup {None}]

VARIABLES row,         (* the domains table                                *)
          dep,         (* the deployments table                            *)
          changes,     (* changes DomainsThread has not taken              *)
          depChanges,  (* changes DeploymentsThread has not taken          *)
          removed,     (* removals the administrators' thread has not seen *)
          domains,     (* DomainsThread: listening?, and what it holds     *)
          deployments, (* DeploymentsThread likewise                       *)
          wire,        (* events on their way to the browser               *)
          online,      (* is the browser's socket connected?               *)
          page,        (* the page that is open                            *)
          store,       (* the three lists the browser keeps                *)
          asked,       (* for each list, its fetch: sent, read or none     *)
          left,        (* bounds not used up                               *)
          trust        (* history: which lists were fetched and since then *)
                       (* told of every change                             *)

tables == <<row, dep, changes, depChanges, removed>>
feeds == <<domains, deployments, wire, online>>
browser == <<page, store, asked, trust>>
vars == <<tables, feeds, browser, left>>

Views == {"desktops", "deployment", "deployments"}
Statuses == {"Creating", "CreatingDiskFromScratch", "Stopped", "Started", "ForceDeleting"}
Unborn == [status |-> "unborn", visible |-> FALSE]
Gone == [status |-> "gone", visible |-> FALSE]
Rows == [status : Statuses, visible : BOOLEAN] \cup {Unborn, Gone}
DepRows == [state : {"unborn", "live", "deleting", "gone"}, visible : BOOLEAN,
            request : {"none", "hide", "show", "count", "mark"}, flags : SUBSET BOOLEAN]

\* At the start no request is under way, and what is not inserted yet has nothing.
ASSUME ScopesAssumption ==
    \A scope \in Scopes :
        /\ scope.row \in [Desktops -> Rows]
        /\ scope.dep \in [Deployments -> DepRows]
        /\ \A p \in Deployments :
              /\ scope.dep[p].request = "none"
              /\ scope.dep[p].state = "unborn" =>
                    /\ scope.dep[p].flags = {}
                    /\ \A d \in Desktops : Tag[d] = p => scope.row[d] = Unborn

\* _is_frontend_desktop_status.
IsFrontend(status) == status \notin {"CreatingDiskFromScratch", "ForceDeleting"}
\* A slip: the status is given as it is.
ParsedNot(status) == status
\* parse_frontend_desktop_status.
Parsed(status) == IF status = "CreatingDiskFromScratch" THEN "Creating" ELSE status

NoFetch == [step |-> "none", of |-> None, list |-> None, crossed |-> FALSE]
NoPage == [id |-> None, visible |-> FALSE, desktops |-> <<>>]
Listening == [up |-> TRUE, dead |-> FALSE, held |-> <<>>]

Init ==
    /\ \E scope \in Scopes : row = scope.row /\ dep = scope.dep /\ left = scope.left
    /\ changes = <<>> /\ depChanges = <<>> /\ removed = {}
    /\ domains = Listening /\ deployments = Listening
    /\ wire = <<>> /\ online = TRUE
    /\ page = None
    /\ store = [desktops |-> <<>>, deployment |-> NoPage, deployments |-> <<>>]
    /\ asked = [v \in Views |-> NoFetch]
    /\ trust = [v \in Views |-> "due"]

-----------------------------------------------------------------------------
(* What the tables say. *)

InTable(r) == r.status \in Statuses
Tagged(p) == {d \in Desktops : Tag[d] = p /\ InTable(row[d])}
Exists(p) == dep[p].state \in {"live", "deleting"}
Seen(d, r) == InTable(r) /\ (Tag[d] = None \/ r.visible)
Card(d, r) == [id |-> d, state |-> Parsed(r.status)]
CardsOf(ds) == {Card(d, row[d]) : d \in ds}

\* get(p, False): the deployment with its counts.
Get(p) == [id |-> p, visible |-> dep[p].visible, total |-> Cardinality(Tagged(p)),
           started |-> Cardinality({d \in Tagged(p) : row[d].status = "Started"})]

DesktopsOf == CardsOf({d \in Desktops : Seen(d, row[d])})
ListOfDeployments == {Get(p) : p \in {q \in Deployments : Exists(q)}}

\* The lists vs missed something.  A fetch read before is stale, and so is a later one if
\* events older than the loss still come after it.
Spoil(vs) ==
    /\ trust' = [v \in Views |-> IF v \in vs THEN "missed" ELSE trust[v]]
    /\ asked' = [v \in Views |->
                    IF v \in vs /\ asked[v].step = "read" THEN [asked[v] EXCEPT !.crossed = TRUE]
                    ELSE asked[v]]

\* The lists that no event will tell of the change of these rows: the feed is not
\* listening, or it drops the change for the status the row has then.
Untold(new) ==
    LET changed == {d \in Desktops : new[d] # row[d]}
        dropped == {d \in changed : InTable(new[d]) /\ ~IsFrontend(new[d].status)}
        born == \E d \in dropped : row[d] = Unborn
    IN IF ~domains.up THEN IF changed = {} THEN {} ELSE Views
       ELSE (IF \E d \in dropped : Seen(d, new[d]) # Seen(d, row[d]) THEN {"desktops"} ELSE {})
            \cup (IF born THEN {"deployment"} ELSE {})
            \cup (IF born \/ \E d \in dropped : row[d].status = "Started"
                  THEN {"deployments"} ELSE {})

UpdateRows(new) ==
    LET changed == SetToSeq({d \in Desktops : new[d] # row[d]})
    IN /\ row' = new
       /\ changes' = IF domains.up
                     THEN changes \o [i \in DOMAIN changed |->
                            [id |-> changed[i], old |-> row[changed[i]], new |-> new[changed[i]]]]
                     ELSE changes
       /\ Spoil(Untold(new))

UpdateDep(p, new, event) ==
    /\ dep' = [dep EXCEPT ![p] = new]
    /\ depChanges' = IF deployments.up /\ event # "none"
                     THEN Append(depChanges, [id |-> p, event |-> event]) ELSE depChanges
    /\ Spoil(IF deployments.up \/ event = "none" THEN {} ELSE {"deployment", "deployments"})

Spend == left.changes > 0 /\ left' = [left EXCEPT !.changes = @ - 1]

-----------------------------------------------------------------------------
(* Requests and the engine. *)

\* A desktop is inserted: alone, from a template or with a new disk, or for a deployment
\* that is created or recreated, with the visibility the request had or read.
Insert(d) ==
    /\ row[d] = Unborn /\ Spend
    /\ \/ /\ Tag[d] = None
          /\ \E s \in {"Creating", "CreatingDiskFromScratch"} :
                UpdateRows([row EXCEPT ![d] = [status |-> s, visible |-> FALSE]])
       \/ /\ Tag[d] # None
          /\ \E flag \in dep[Tag[d]].flags :
                UpdateRows([row EXCEPT ![d] = [status |-> "Creating", visible |-> flag]])
    /\ UNCHANGED <<dep, depChanges, removed, feeds, page, store>>

\* The engine moves a desktop on, or a request deletes one.
Follows(s) ==
    CASE s \in {"Creating", "CreatingDiskFromScratch"} -> {"Stopped"}
      [] s = "Stopped" -> {"Started", "ForceDeleting"}
      [] s = "Started" -> {"Stopped", "ForceDeleting"}
      [] OTHER -> {}
Advance(d) ==
    /\ InTable(row[d]) /\ Spend
    /\ \E s \in Follows(row[d].status) : UpdateRows([row EXCEPT ![d].status = s])
    /\ UNCHANGED <<dep, depChanges, removed, feeds, page, store>>

RemoveRow(d) ==
    /\ row[d].status = "ForceDeleting"
    /\ UpdateRows([row EXCEPT ![d] = Gone])
    /\ removed' = IF Tag[d] = None THEN removed ELSE removed \cup {d}
    /\ UNCHANGED <<dep, depChanges, feeds, page, store, left>>

\* new: the row of the deployment; its desktops are inserted after it.
NewDeployment(p) ==
    /\ dep[p].state = "unborn" /\ Spend
    /\ \E flag \in BOOLEAN :
          UpdateDep(p, [state |-> "live", visible |-> flag, request |-> "none", flags |-> {flag}],
                    "add")
    /\ UNCHANGED <<row, changes, removed, feeds, page, store>>

\* recreate reads the visibility that its desktops will have.
Recreate(p) ==
    /\ Exists(p) /\ dep[p].visible \notin dep[p].flags /\ Spend
    /\ UpdateDep(p, [dep[p] EXCEPT !.flags = @ \cup {dep[p].visible}], "none")
    /\ UNCHANGED <<row, changes, removed, feeds, page, store>>

\* visible: the rows of the desktops, then the row of the deployment.
VisibleOnDesktops(p) ==
    /\ Exists(p) /\ dep[p].request = "none" /\ Spend
    /\ UpdateRows([d \in Desktops |-> IF d \in Tagged(p)
                    THEN [row[d] EXCEPT !.visible = ~dep[p].visible] ELSE row[d]])
    /\ dep' = [dep EXCEPT ![p].request = IF dep[p].visible THEN "hide" ELSE "show"]
    /\ UNCHANGED <<depChanges, removed, feeds, page, store>>
VisibleOnDeployment(p) ==
    /\ dep[p].request \in {"hide", "show"}
    /\ LET new == [dep[p] EXCEPT !.visible = (dep[p].request = "show"), !.request = "none"]
       IN UpdateDep(p, new, IF Exists(p) /\ new.visible # dep[p].visible THEN "update" ELSE "none")
    /\ UNCHANGED <<row, changes, removed, feeds, page, store, left>>

\* delete: the desktops must be stopped; their rows are marked, then counted, and the
\* row of the deployment is deleted if none is left and marked otherwise.
DeleteDesktops(p) ==
    /\ dep[p].state = "live" /\ dep[p].request = "none" /\ Spend
    /\ \A d \in Tagged(p) : row[d].status = "Stopped"
    /\ UpdateRows([d \in Desktops |-> IF d \in Tagged(p)
                    THEN [row[d] EXCEPT !.status = "ForceDeleting"] ELSE row[d]])
    /\ dep' = [dep EXCEPT ![p].request = "count"]
    /\ UNCHANGED <<depChanges, removed, feeds, page, store>>
CountDesktops(p) ==
    /\ dep[p].request = "count"
    /\ IF Tagged(p) = {}
       THEN UpdateDep(p, [dep[p] EXCEPT !.state = "gone", !.request = "none"], "delete")
       ELSE UpdateDep(p, [dep[p] EXCEPT !.request = "mark"], "none")
    /\ UNCHANGED <<row, changes, removed, feeds, page, store, left>>
MarkDeployment(p) ==
    /\ dep[p].request = "mark"
    /\ UpdateDep(p, [dep[p] EXCEPT !.state = "deleting", !.request = "none"], "update")
    /\ UNCHANGED <<row, changes, removed, feeds, page, store, left>>

\* The administrators' thread sees a removal; after the last one the deployment goes.
AdminSees(d) ==
    /\ d \in removed
    /\ removed' = removed \ {d}
    /\ LET p == Tag[d] IN
       IF Tagged(p) = {} /\ dep[p].state = "deleting"
       THEN UpdateDep(p, [dep[p] EXCEPT !.state = "gone"], "delete")
       ELSE UNCHANGED <<dep, depChanges, asked, trust>>
    /\ UNCHANGED <<row, changes, feeds, page, store, left>>

-----------------------------------------------------------------------------
(* The feeds. *)

\* socketio.emit to the room of the user: nobody is in it while the socket is down.
Emit(events, spoilt) ==
    /\ wire' = IF online THEN wire \o events ELSE wire
    /\ Spoil(IF online \/ events = <<>> THEN spoilt ELSE Views)

\* A slip: a desktop that becomes visible is only updated.
EventOfUpdates(c) ==
    CASE c.new = Gone -> "delete"
      [] c.new # Gone /\ ~IsFrontend(c.new.status) -> "none"
      [] OTHER -> IF c.old = Unborn THEN "add" ELSE "update"
\* The event of a change of a row, if there is one.
EventOf(c) ==
    CASE c.new = Gone -> "delete"
      [] c.new # Gone /\ ~IsFrontend(c.new.status) -> "none"
      [] OTHER -> IF c.old = Unborn \/ (~c.old.visible /\ c.new.visible) THEN "add" ELSE "update"
\* The row an event is about.
RowOf(c) == IF c.new = Gone THEN c.old ELSE c.new

\* The event <subject>_<what>, as "desktop_add".
Event(subject, what, data) == [subject |-> subject, what |-> what, data |-> data]

\* Those for the user of the desktop: hiding it takes it from the list.
Hides(c) == /\ Tag[c.id] # None /\ ~RowOf(c).visible
            /\ c.old = Unborn \/ c.old.visible
UserEvents(c) ==
    LET card == Card(c.id, RowOf(c)) IN
    <<Event("desktop", EventOf(c), card)>>
    \o (IF Hides(c) THEN <<Event("desktop", "delete", card)>> ELSE <<>>)

\* DomainsThread takes a change: the user's events, then the deployment is read, which
\* ends the handling when it is gone.
TakeChange ==
    /\ domains.up /\ domains.held = <<>> /\ changes # <<>>
    /\ LET c == Head(changes)  p == Tag[c.id] IN
       /\ changes' = Tail(changes)
       /\ IF EventOf(c) = "none" THEN UNCHANGED <<domains, wire, asked, trust>>
          ELSE /\ Emit(UserEvents(c), {})
               /\ domains' = IF p = None \/ ~(p \in Deployments /\ Exists(p)) THEN domains
                             ELSE [domains EXCEPT !.held =
                                    <<[id |-> p, event |-> EventOf(c), summary |-> Get(p),
                                       late |-> FALSE, card |-> Card(c.id, RowOf(c))]>>]
    /\ UNCHANGED <<row, dep, depChanges, removed, deployments, online, page, store, left>>

\* What the other thread holds has been overtaken by a different summary.
Overtaken(thread, summary) ==
    IF thread.held # <<>> /\ thread.held[1].id = summary.id /\ thread.held[1].summary # summary
    THEN [thread EXCEPT !.held[1].late = TRUE] ELSE thread

TellDeployment ==
    /\ domains.held # <<>>
    /\ LET h == domains.held[1] IN
       /\ Emit(<<Event("deploymentdesktop", h.event, h.card),
                 Event("deployments", "update", h.summary)>>,
               IF h.late THEN {"deployments"} ELSE {})
       /\ deployments' = Overtaken(deployments, h.summary)
    /\ domains' = [domains EXCEPT !.held = <<>>]
    /\ UNCHANGED <<tables, online, page, store, left>>

\* DeploymentsThread takes a change and reads the deployment.  A deployment that is gone
\* by then raises, and the thread ends.
TakeDepChange ==
    /\ deployments.up /\ deployments.held = <<>> /\ depChanges # <<>>
    /\ LET c == Head(depChanges) IN
       /\ depChanges' = Tail(depChanges)
       /\ \/ /\ c.event = "delete"
             /\ Emit(<<Event("deployments", "delete", [id |-> c.id])>>, {})
             /\ UNCHANGED deployments
          \/ /\ c.event # "delete" /\ Exists(c.id)
             /\ deployments' = [deployments EXCEPT !.held =
                                   <<[id |-> c.id, event |-> c.event, summary |-> Get(c.id),
                                      late |-> FALSE]>>]
             /\ UNCHANGED <<wire, asked, trust>>
          \/ /\ c.event # "delete" /\ ~Exists(c.id)
             /\ deployments' = [Listening EXCEPT !.up = FALSE, !.dead = TRUE]
             /\ Spoil({"deployment", "deployments"})
             /\ UNCHANGED wire
    /\ UNCHANGED <<row, dep, changes, removed, domains, online, page, store, left>>

TellDeployments ==
    /\ deployments.held # <<>>
    /\ LET h == deployments.held[1] IN
       /\ Emit((IF h.event = "update" THEN <<Event("deployment", "update", h.summary)>> ELSE <<>>)
               \o <<Event("deployments", h.event, h.summary)>>,
               IF h.late THEN {"deployments"} ELSE {})
       /\ domains' = Overtaken(domains, h.summary)
    /\ deployments' = [deployments EXCEPT !.held = <<>>]
    /\ UNCHANGED <<tables, online, page, store, left>>

\* The database drops a changefeed: what it had not given is lost.  It is opened again.
Fault == left.faults > 0 /\ left' = [left EXCEPT !.faults = @ - 1]
DomainsFeedLost ==
    /\ domains.up /\ Fault
    /\ Spoil(IF changes = <<>> /\ domains.held = <<>> THEN {} ELSE Views)
    /\ domains' = [Listening EXCEPT !.up = FALSE] /\ changes' = <<>>
    /\ UNCHANGED <<row, dep, depChanges, removed, deployments, wire, online, page, store>>
DeploymentsFeedLost ==
    /\ deployments.up /\ Fault
    /\ Spoil(IF depChanges = <<>> /\ deployments.held = <<>> THEN {} ELSE {"deployment", "deployments"})
    /\ deployments' = [Listening EXCEPT !.up = FALSE] /\ depChanges' = <<>>
    /\ UNCHANGED <<row, dep, changes, removed, domains, wire, online, page, store>>
DomainsFeedReopened ==
    /\ ~domains.up
    /\ domains' = Listening
    /\ UNCHANGED <<tables, deployments, wire, online, browser, left>>
DeploymentsFeedReopened ==
    /\ ~deployments.up /\ ~deployments.dead
    /\ deployments' = Listening
    /\ UNCHANGED <<tables, domains, wire, online, browser, left>>

-----------------------------------------------------------------------------
(* The browser. *)

\* The socket is lost, and opens again by itself; nothing is fetched then.
SocketLost ==
    /\ online /\ Fault
    /\ online' = FALSE /\ wire' = <<>>
    /\ Spoil(IF wire = <<>> THEN {} ELSE Views)
    /\ UNCHANGED <<tables, domains, deployments, page, store>>
SocketReopened ==
    /\ ~online
    /\ online' = TRUE
    /\ UNCHANGED <<tables, domains, deployments, wire, browser, left>>

\* The lists that are emptied when a page is left.
Emptied == CASE page = "desktops" -> {"desktops"}
             [] page = "deployment" -> {"deployment", "deployments"}
             [] page = "deployments" -> {"deployments"}
             [] OTHER -> {}

\* No change is queued, held or on its way.
Drained ==
    /\ domains.held = <<>> /\ changes = <<>>
    /\ deployments.held = <<>> /\ depChanges = <<>>
    /\ wire = <<>>

\* Another page is opened, which fetches its list.
Open(v) ==
    /\ page # v /\ asked[v].step = "none"
    /\ left.fetches > 0 /\ left' = [left EXCEPT !.fetches = @ - 1]
    /\ \E p \in IF v = "deployment" THEN Deployments ELSE {None} :
          asked' = [asked EXCEPT ![v] = [NoFetch EXCEPT !.step = "sent", !.of = p]]
    /\ page' = v
    /\ store' = [w \in Views |-> IF w \notin Emptied THEN store[w]
                                 ELSE IF w = "deployment" THEN NoPage ELSE <<>>]
    /\ trust' = [w \in Views |->
                    IF trust[w] = "kept" /\ w \in Emptied \cup {v} THEN "due" ELSE trust[w]]
    /\ UNCHANGED <<tables, feeds>>

\* The server answers a fetch from the tables; there is no answer for what is gone.
Read(v) ==
    /\ asked[v].step = "sent"
    /\ LET p == asked[v].of
           list == CASE v = "desktops" -> SetToSeq(DesktopsOf)
                     [] v = "deployments" -> SetToSeq(ListOfDeployments)
                     [] OTHER -> [id |-> p, visible |-> dep[p].visible,
                                  desktops |-> SetToSeq(CardsOf(Tagged(p)))]
       IN asked' = [asked EXCEPT ![v] =
                      IF v = "deployment" /\ ~Exists(p) THEN NoFetch
                      ELSE [@ EXCEPT !.step = "read", !.list = list]]
    /\ trust' = [trust EXCEPT ![v] = IF Drained THEN "due" ELSE @]
    /\ UNCHANGED <<tables, feeds, page, store, left>>

\* The answer replaces the list.
Answer(v) ==
    /\ asked[v].step = "read"
    /\ store' = [store EXCEPT ![v] = asked[v].list]
    /\ trust' = [trust EXCEPT ![v] = IF @ = "missed" THEN @
                                      ELSE IF asked[v].crossed THEN "due" ELSE "kept"]
    /\ asked' = [asked EXCEPT ![v] = NoFetch]
    /\ UNCHANGED <<tables, feeds, page, left>>

Has(list, id) == \E i \in DOMAIN list : list[i].id = id
First(list, id) == SelectInSeq(list, LAMBDA e : e.id = id)
Updated(list, e) == IF Has(list, e.id) THEN [list EXCEPT ![First(list, e.id)] = e] ELSE list
Removed(list, id) == IF Has(list, id) THEN RemoveAt(list, First(list, id)) ELSE list

Edited(list, what, data) ==
    CASE what = "add" -> Append(list, data)
      [] what = "update" -> Updated(list, data)
      [] what = "delete" -> Removed(list, data.id)

\* The mutation an event commits.  Only the page's own list looks for a twin.
Applied(e) ==
    CASE e.subject = "desktop" -> [store EXCEPT !.desktops = Edited(@, e.what, e.data)]
      [] e.subject = "deployments" -> [store EXCEPT !.deployments = Edited(@, e.what, e.data)]
      [] e.subject = "deployment" ->
            [store EXCEPT !.deployment = [@ EXCEPT !.id = e.data.id, !.visible = e.data.visible]]
      [] e.subject = "deploymentdesktop" ->
            [store EXCEPT !.deployment.desktops =
                IF e.what = "add" /\ Has(@, e.data.id) THEN @ ELSE Edited(@, e.what, e.data)]

ViewOf(e) ==
    CASE e.subject = "desktop" -> "desktops"
      [] e.subject = "deployments" -> "deployments"
      [] e.subject \in {"deployment", "deploymentdesktop"} -> "deployment"

\* An event comes.  One that comes between the reading and the answer of a fetch is undone
\* by the answer, and what is added to a list that has it is there twice.
Deliver ==
    /\ online /\ wire # <<>>
    /\ LET e == Head(wire)  v == ViewOf(e)
           twin == /\ e.what = "add" /\ e.subject \in {"desktop", "deployments"}
                   /\ Has(store[v], e.data.id)
       IN /\ store' = Applied(e)
          /\ trust' = [trust EXCEPT ![v] = IF twin /\ @ = "kept" THEN "due" ELSE @]
          /\ asked' = [asked EXCEPT ![v].crossed = @ \/ asked[v].step = "read"]
    /\ wire' = Tail(wire)
    /\ UNCHANGED <<tables, domains, deployments, online, page, left>>

-----------------------------------------------------------------------------

Requests ==
    \/ \E d \in Desktops : Insert(d) \/ Advance(d) \/ RemoveRow(d) \/ AdminSees(d)
    \/ \E p \in Deployments :
          \/ NewDeployment(p) \/ Recreate(p)
          \/ VisibleOnDesktops(p) \/ VisibleOnDeployment(p)
          \/ DeleteDesktops(p) \/ CountDesktops(p) \/ MarkDeployment(p)
DomainsThread == TakeChange \/ TellDeployment
DeploymentsThread == TakeDepChange \/ TellDeployments
Faults ==
    \/ DomainsFeedLost \/ DomainsFeedReopened
    \/ DeploymentsFeedLost \/ DeploymentsFeedReopened
    \/ SocketLost \/ SocketReopened
Browser == Deliver \/ \E v \in Views : Open(v) \/ Read(v) \/ Answer(v)

Next == Requests \/ DomainsThread \/ DeploymentsThread \/ Faults \/ Browser

Spec == Init /\ [][Next]_vars

-----------------------------------------------------------------------------

Cards == [id : Desktops, state : {"Creating", "Stopped", "Started", "ForceDeleting"}]
Summaries == [id : Deployments, visible : BOOLEAN, total : 0 .. Cardinality(Desktops),
              started : 0 .. Cardinality(Desktops)]
Pages == [id : Deployments \cup {None}, visible : BOOLEAN, desktops : Seq(Cards)]

\* What the threads take, hold and emit.
Changes == {c \in [id : Desktops, old : Rows, new : Rows] :
              c.old # Gone /\ c.new # Unborn /\ (c.old # Unborn \/ c.new # Gone)}
DepChanges == [id : Deployments, event : {"add", "update", "delete"}]
HeldChanges == [id : Deployments, event : {"add", "update", "delete"}, summary : Summaries,
                late : BOOLEAN, card : Cards]
HeldDepChanges == [id : Deployments, event : {"add", "update"}, summary : Summaries, late : BOOLEAN]
Events == [subject : {"desktop", "deploymentdesktop"}, what : {"add", "update", "delete"}, data : Cards]
          \cup [subject : {"deployments"}, what : {"add", "update"}, data : Summaries]
          \cup [subject : {"deployments"}, what : {"delete"}, data : [id : Deployments]]
          \cup [subject : {"deployment"}, what : {"update"}, data : Summaries]
Threads(Held) == {t \in [up : BOOLEAN, dead : BOOLEAN, held : Seq(Held)] : Len(t.held) <= 1}
ListsOf(v) == CASE v = "desktops" -> Seq(Cards)
                [] v = "deployments" -> Seq(Summaries)
                [] v = "deployment" -> Pages
Fetches(v) == [step : {"none", "sent", "read"}, of : Deployments \cup {None},
               list : {None} \cup ListsOf(v), crossed : BOOLEAN]
\* What is kept for each list.
Each(Kinds(_)) == [desktops : Kinds("desktops"), deployment : Kinds("deployment"),
                   deployments : Kinds("deployments")]

\* The types of the tables, the feeds and the lists: an event that reaches the browser is
\* one its store has a mutation for.
TypeOK ==
    /\ row \in [Desktops -> Rows] /\ dep \in [Deployments -> DepRows]
    /\ changes \in Seq(Changes) /\ depChanges \in Seq(DepChanges)
    /\ removed \subseteq {d \in Desktops : Tag[d] # None}
    /\ domains \in Threads(HeldChanges) /\ deployments \in Threads(HeldDepChanges)
    /\ wire \in Seq(Events)
    /\ online \in BOOLEAN
    /\ page \in Views \cup {None}
    /\ store \in Each(ListsOf) /\ asked \in Each(Fetches)
    /\ \A v \in Views : asked[v].step = "read" => asked[v].list \in ListsOf(v)
    /\ asked["deployment"].step # "none" => asked["deployment"].of \in Deployments
    /\ trust \in [Views -> {"due", "kept", "missed"}]

Kept(v) == trust[v] = "kept"

\* Once each is listed, with the state of its row unless that is one the feed drops.
Matches(list, ds) ==
    /\ Len(list) = Cardinality(ds)
    /\ {list[i].id : i \in DOMAIN list} = ds
    /\ \A i \in DOMAIN list :
          IsFrontend(row[list[i].id].status) => list[i].state = row[list[i].id].status

\* The user's list of desktops.
DesktopsAgree ==
    Kept("desktops") => Matches(store.desktops, {d \in Desktops : Seen(d, row[d])})

\* The user's list of deployments, with their summaries.
DeploymentsAgree ==
    Kept("deployments") =>
        /\ Len(store.deployments) = Cardinality(ListOfDeployments)
        /\ Range(store.deployments) = ListOfDeployments

\* The page of a deployment, while there is that deployment.
DeploymentAgrees ==
    Kept("deployment") =>
        LET p == store.deployment.id IN
        Exists(p) => /\ store.deployment.visible = dep[p].visible
                     /\ Matches(store.deployment.desktops, Tagged(p))

\* A list that was fetched, that no answer and no loss made miss a change, shows what a new
\* fetch would: hidden desktops leave it, those made visible come, and so on, whatever was
\* changed while the threads handled earlier changes.
ListsAgree == Drained => DesktopsAgree /\ DeploymentsAgree /\ DeploymentAgrees
=============================================================================
