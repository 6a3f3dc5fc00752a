---------------------------- MODULE DesktopProofs ----------------------------
(***************************************************************************)
(* Theorems about DesktopLifecycle, for any desktops, hypervisors and      *)
(* bounds. Type correctness comes first: one lemma per group of actions,   *)
(* each with a step per action and under it a step per variable that the   *)
(* action changes. Nothing is stopped or deleted that the API was not      *)
(* asked to: the invariant NothingWaitsUnasked is inductive with TypeOK,   *)
(* and gives NothingDeletedUnasked and StoppedOnRequest. Then the threads  *)
(* together implement DesktopPromise.                                      *)
(***************************************************************************)
EXTENDS DesktopLifecycle, SequenceLemmas

-----------------------------------------------------------------------------
(* What the helpers return                                                  *)

\* Put returns a queue one longer that holds what was there, and the action.
LEMMA PutOf ==
    ASSUME NEW q \in Seq(ActionsOfWorkers), NEW a \in ActionsOfWorkers
    PROVE  /\ Put(q, a) \in Seq(ActionsOfWorkers)
           /\ \A i \in 1..Len(Put(q, a)) :
                 Put(q, a)[i] = a \/ \E k \in 1..Len(q) : Put(q, a)[i] = q[k]
<1> DEFINE before == {i \in 1..Len(q) : Priority[q[i].type] <= Priority[a.type]}
           ahead == Cardinality(before)
<1>1. Len(q) \in Nat
    OBVIOUS
<1>2. IsFiniteSet(1..Len(q)) /\ Cardinality(1..Len(q)) = Len(q)
    BY SMTT(30), <1>1, FS_Interval
<1>3. IsFiniteSet(before) /\ ahead <= Len(q)
    BY <1>2, FS_Subset
<1>4. ahead \in Nat
    BY <1>3, FS_CardinalityType
<1> DEFINE at(i) == IF i <= ahead THEN q[i] ELSE IF i = ahead + 1 THEN a ELSE q[i - 1]
<1>5. Put(q, a) = [i \in 1..(Len(q) + 1) |-> at(i)]
    BY DEF Put
<1> HIDE DEF before
<1>6. \A i \in 1..(Len(q) + 1) : at(i) = a \/ \E k \in 1..Len(q) : at(i) = q[k]
  <2> SUFFICES ASSUME NEW i \in 1..(Len(q) + 1)
               PROVE  at(i) = a \/ \E k \in 1..Len(q) : at(i) = q[k]
      OBVIOUS
  <2>1. CASE i <= ahead
      BY <1>1, <1>3, <1>4, <2>1
  <2>2. CASE i > ahead
    <3>1. i - 1 \in 1..Len(q) \/ i = ahead + 1
        BY <1>1, <1>3, <1>4, <2>2
    <3>2. QED
        BY <1>1, <1>4, <2>2, <3>1
  <2>3. QED
      BY <1>1, <1>4, <2>1, <2>2
<1> HIDE DEF ahead, at
<1>7. \A i \in 1..(Len(q) + 1) : at(i) \in ActionsOfWorkers
    BY <1>6
<1>8. Put(q, a) \in [1..(Len(q) + 1) -> ActionsOfWorkers]
    BY <1>5, <1>7
<1>9. Put(q, a) \in Seq(ActionsOfWorkers) /\ Len(Put(q, a)) = Len(q) + 1
    BY <1>1, <1>8
<1>10. QED
    BY <1>5, <1>6, <1>9

\* Put puts the action in at one place and moves what is behind it.
LEMMA PutInserts ==
    ASSUME NEW q \in Seq(ActionsOfWorkers), NEW a \in ActionsOfWorkers
    PROVE  \E k \in 1 .. Len(q) + 1 :
             /\ Put(q, a) \in Seq(ActionsOfWorkers) /\ Len(Put(q, a)) = Len(q) + 1
             /\ Put(q, a)[k] = a
             /\ \A i \in 1 .. Len(q) + 1 : i < k => Put(q, a)[i] = q[i]
             /\ \A i \in 1 .. Len(q) + 1 : i > k => Put(q, a)[i] = q[i - 1]
<1> DEFINE before == {i \in 1..Len(q) : Priority[q[i].type] <= Priority[a.type]}
           ahead == Cardinality(before)
<1>1. Len(q) \in Nat
  OBVIOUS
<1>2. IsFiniteSet(1..Len(q)) /\ Cardinality(1..Len(q)) = Len(q)
  BY SMTT(30), <1>1, FS_Interval
<1>3. IsFiniteSet(before) /\ ahead <= Len(q)
  BY <1>2, FS_Subset
<1>4. ahead \in Nat
  BY <1>3, FS_CardinalityType
<1> DEFINE at(i) == IF i <= ahead THEN q[i] ELSE IF i = ahead + 1 THEN a ELSE q[i - 1]
<1>5. Put(q, a) = [i \in 1..(Len(q) + 1) |-> at(i)]
  BY DEF Put
<1>6. Put(q, a) \in Seq(ActionsOfWorkers)
  BY PutOf
<1> HIDE DEF ahead
<1>7. ahead + 1 \in 1 .. Len(q) + 1
  BY <1>1, <1>3, <1>4
<1>8. \A i \in 1 .. Len(q) + 1 : /\ i < ahead + 1 => at(i) = q[i]
                                 /\ i > ahead + 1 => at(i) = q[i - 1]
                                 /\ i = ahead + 1 => at(i) = a
  BY <1>1, <1>4
<1>9. Len(Put(q, a)) = Len(q) + 1 /\ \A i \in 1 .. Len(q) + 1 : Put(q, a)[i] = at(i)
  BY <1>1, <1>5
<1> HIDE DEF at
<1> QED
  BY <1>6, <1>7, <1>8, <1>9

\* A write of a row keeps the types of what it changes.
LEMMA SetRowTyped ==
    ASSUME TypeOK, NEW d \in Desktops, NEW new \in Statuses, NEW h \in HypsStarted,
           NEW pending \in Seq(ChangesOfRows), SetRow(d, new, h, pending)
    PROVE  /\ status' \in [Desktops -> Statuses \cup {Gone}]
           /\ hyp_started' \in [Desktops -> HypsStarted]
           /\ feed' \in Seq(ChangesOfRows)
<1>1. CASE status[d] = Gone
    BY <1>1 DEF TypeOK, SetRow
<1>2. CASE status[d] # Gone
  <2>1. status[d] \in Statuses
      BY <1>2 DEF TypeOK
  <2>2. [id |-> d, old |-> status[d], new |-> new] \in ChangesOfRows
      BY <2>1 DEF ChangesOfRows
  <2>3. feed' \in Seq(ChangesOfRows)
      BY <1>2, <2>2 DEF SetRow
  <2>4. /\ status' = [status EXCEPT ![d] = new]
        /\ hyp_started' = [hyp_started EXCEPT ![d] = h]
      BY <1>2 DEF SetRow
  <2>5. /\ status \in [Desktops -> Statuses \cup {Gone}]
        /\ hyp_started \in [Desktops -> HypsStarted]
      BY DEF TypeOK
  <2>6. QED
      BY <2>3, <2>4, <2>5
<1>3. QED
    BY <1>1, <1>2

\* The removal of a row keeps the types of what it changes.
LEMMA RemoveRowTyped ==
    ASSUME TypeOK, NEW d \in Desktops, RemoveRow(d)
    PROVE  /\ status' \in [Desktops -> Statuses \cup {Gone}]
           /\ hyp_started' \in [Desktops -> HypsStarted]
    BY DEF TypeOK, RemoveRow, HypsStarted

\* What a thread can be given to do is a job.
LEMMA JobsAre ==
    /\ Idle \in Jobs /\ Dead \in Jobs
    /\ \A d \in Desktops : Clear(d) \in Jobs
    /\ \A d \in Desktops, s \in Statuses, h \in HypsStarted : Write(d, s, h) \in Jobs
    /\ \A d \in Desktops, s \in Statuses : AfterWrite(d, s) \in Jobs
    BY DEF Jobs, Idle, Dead, Clear, Write, AfterWrite

\* A thread that is given a job keeps the type of job.
LEMMA DoTyped ==
    ASSUME TypeOK, NEW t \in Threads, NEW j \in Jobs, Do(t, j)
    PROVE  job' \in [Threads -> Jobs]
    BY DEF TypeOK, Do

\* A write that waits names a desktop, a status and a hypervisor.
LEMMA WaitingWrite ==
    ASSUME TypeOK, NEW t \in Threads
    PROVE  /\ job[t].step = "write" => /\ job[t].id \in Desktops
                                       /\ job[t].to \in Statuses
                                       /\ job[t].hyp \in HypsStarted
           /\ job[t].step = "clear" => job[t].id \in Desktops
    BY DEF TypeOK, Jobs

\* The head of a queue is an action of a desktop, and the tail is a queue.
LEMMA HeadOfQueue ==
    ASSUME TypeOK, NEW h \in Hyps, queue[h] # <<>>
    PROVE  /\ Head(queue[h]).id \in Desktops
           /\ Head(queue[h]).keep \in BOOLEAN
           /\ Head(queue[h]).type \in DOMAIN Priority
           /\ [queue EXCEPT ![h] = Tail(@)] \in [Hyps -> Seq(ActionsOfWorkers)]
<1>1. queue[h] \in Seq(ActionsOfWorkers) /\ queue[h] # <<>>
    BY DEF TypeOK
<1>2. Head(queue[h]) \in ActionsOfWorkers /\ Tail(queue[h]) \in Seq(ActionsOfWorkers)
    BY <1>1
<1>3. QED
    BY <1>2 DEF TypeOK, ActionsOfWorkers

\* The head of the feed is a change of a row, and the tail is a feed.
LEMMA HeadOfFeed ==
    ASSUME TypeOK, feed # <<>>
    PROVE  /\ Head(feed).id \in Desktops
           /\ Head(feed).old \in Statuses
           /\ Head(feed).new \in Statuses
           /\ Tail(feed) \in Seq(ChangesOfRows)
<1>1. feed \in Seq(ChangesOfRows)
    BY DEF TypeOK
<1>2. Head(feed) \in ChangesOfRows /\ Tail(feed) \in Seq(ChangesOfRows)
    BY <1>1
<1>3. QED
    BY <1>2 DEF ChangesOfRows

\* An action asked of a worker is one its queue can hold.
LEMMA ActionTyped ==
    ASSUME NEW d \in Desktops, NEW keep \in BOOLEAN,
           NEW type \in {"stop_domain", "start_domain", "shutdown_domain", "delete_disk"}
    PROVE  Action(type, d, keep) \in ActionsOfWorkers
    BY DEF Action, ActionsOfWorkers, Priority

\* An action put in a queue leaves every queue one of actions.
LEMMA QueueTyped ==
    ASSUME NEW q \in [Hyps -> Seq(ActionsOfWorkers)], NEW h \in Hyps, NEW a \in ActionsOfWorkers
    PROVE  [q EXCEPT ![h] = Put(@, a)] \in [Hyps -> Seq(ActionsOfWorkers)]
<1>1. Put(q[h], a) \in Seq(ActionsOfWorkers)
    BY PutOf
<1>2. QED
    BY <1>1

\* A bound is never overspent.
LEMMA BudgetTyped ==
    ASSUME TypeOK, NEW what \in {"requests", "faults", "guest", "restarts"}, Spend(what)
    PROVE  budget' \in Budgets
<1>1. budget \in Budgets
    BY DEF TypeOK
<1>2. budget[what] > 0 /\ budget' = [budget EXCEPT ![what] = @ - 1, !.spent = @ \cup {what}]
    BY DEF Spend
<1>3. budget[what] - 1 \in Nat
  <2>1. /\ budget.requests \in Nat /\ budget.faults \in Nat
        /\ budget.guest \in Nat /\ budget.restarts \in Nat
      BY <1>1 DEF Budgets
  <2>2. budget[what] \in Nat
      BY <2>1
  <2>3. budget[what] > 0
      BY <1>2
  <2>4. QED
      BY <2>2, <2>3
<1>4. budget.spent \cup {what} \in SUBSET {"requests", "faults", "guest", "restarts"}
    BY <1>1 DEF Budgets
<1>5. QED
    BY <1>1, <1>2, <1>3, <1>4 DEF Budgets

\* What the API records of a request keeps the type of the ledger.
LEMMA LedgerTyped ==
    ASSUME TypeOK, NEW d \in Desktops, NEW new, Record(d, new)
    PROVE  ledger' \in [Desktops -> [starts : Nat, boots : Nat, stop : BOOLEAN, deletion : BOOLEAN]]
<1>1. ledger \in [Desktops -> [starts : Nat, boots : Nat, stop : BOOLEAN, deletion : BOOLEAN]]
    BY DEF TypeOK
<1>2. ledger[d] \in [starts : Nat, boots : Nat, stop : BOOLEAN, deletion : BOOLEAN]
    BY <1>1
<1>3. \/ ledger' = ledger
      \/ ledger' = [ledger EXCEPT ![d].starts = @ + 1]
      \/ ledger' = [ledger EXCEPT ![d].stop = TRUE]
      \/ ledger' = [ledger EXCEPT ![d].deletion = TRUE]
    BY DEF Record
<1>4. ledger[d].starts + 1 \in Nat
    BY <1>2
<1>5. QED
    BY ZenonT(60), <1>1, <1>3, <1>4

\* A change of a VM and the events that it emits keep libvirt's types.
LEMMA SetVmTyped ==
    ASSUME TypeOK, NEW h \in Hyps, NEW d \in Desktops, NEW s \in {"off", "running", "paused"},
           NEW kinds \in Seq({"Started", "Stopped", "Suspended", "Resumed"}), SetVm(h, d, s, kinds)
    PROVE  /\ vm' \in [Hyps -> [Desktops -> {"off", "running", "paused"}]]
           /\ events' \in [Hyps -> Seq(EventsOfVms)]
<1> DEFINE emitted == [i \in 1..Len(kinds) |-> [id |-> d, kind |-> kinds[i]]]
<1>1. emitted \in Seq(EventsOfVms)
  <2>1. \A i \in 1..Len(kinds) : kinds[i] \in {"Started", "Stopped", "Suspended", "Resumed"}
      OBVIOUS
  <2>2. emitted \in [1..Len(kinds) -> EventsOfVms]
      BY <2>1 DEF EventsOfVms
  <2>3. QED
      BY <2>2
<1> HIDE DEF emitted
<1>2. events \in [Hyps -> Seq(EventsOfVms)]
    BY DEF TypeOK
<1>3. events[h] \o emitted \in Seq(EventsOfVms)
    BY <1>1, <1>2
<1>4. events' = events \/ events' = [events EXCEPT ![h] = @ \o emitted]
    BY DEF SetVm, emitted
<1>5. events' \in [Hyps -> Seq(EventsOfVms)]
    BY <1>2, <1>3, <1>4
<1>6. vm \in [Hyps -> [Desktops -> {"off", "running", "paused"}]]
    BY DEF TypeOK
<1>7. vm' = [vm EXCEPT ![h][d] = s]
    BY DEF SetVm
<1>8. QED
    BY <1>5, <1>6, <1>7

-----------------------------------------------------------------------------
(* Every step keeps the types                                               *)

USE DEF rows, libvirt, threads, users, ChangesRest, WorkerRest

\* Init has the types.
LEMMA InitTyped == Init => TypeOK
<1> SUFFICES ASSUME Init PROVE TypeOK
    OBVIOUS
<1>1. BroomIdle \in [seen : [Desktops -> Listings], left : SUBSET Hyps, todo : SUBSET RepairsOfRows]
    BY DEF BroomIdle, Unlisted, Listings
<1>2. budget \in Budgets
  <2>1. PICK s \in Scopes :
           budget = [requests |-> s.requests, faults |-> s.faults, guest |-> s.guest,
                     restarts |-> s.restarts, ops |-> s.ops, clients |-> s.clients, spent |-> {}]
      BY DEF Init
  <2>2. s \in Bounds
      BY ConstantsAssumption
  <2>3. QED
      BY <2>1, <2>2 DEF Bounds, Budgets
<1>3. \A S : <<>> \in Seq(S)
    OBVIOUS
<1>4. request \in [Clients -> Requests]
    BY DEF Init, Requests, NoRequest
<1>5. QED
    BY <1>1, <1>2, <1>3, <1>4, JobsAre DEF Init, TypeOK, Statuses, HypsStarted

\* The API's requests keep the types.
LEMMA ApiTyped ==
    ASSUME TypeOK, Api
    PROVE  TypeOK'
<1>1. ASSUME NEW c \in Clients, ApiWrites(c)
      PROVE  TypeOK'
  <2>1. /\ request[c] \in Requests /\ request[c] # NoRequest
        /\ NoRequest \in Requests
      BY <1>1 DEF TypeOK, ApiWrites, Requests, NoRequest
  <2>2. request[c].id \in Desktops /\ request[c].to \in Statuses
      BY <2>1 DEF Requests, NoRequest, Statuses
  <2>3. /\ feed \in Seq(ChangesOfRows)
        /\ hyp_started[request[c].id] \in HypsStarted
        /\ request \in [Clients -> Requests]
      BY <2>2 DEF TypeOK
  <2>4. /\ status' \in [Desktops -> Statuses \cup {Gone}]
        /\ hyp_started' \in [Desktops -> HypsStarted]
        /\ feed' \in Seq(ChangesOfRows)
      BY <1>1, <2>2, <2>3, SetRowTyped DEF ApiWrites
  <2>5. ledger' \in [Desktops -> [starts : Nat, boots : Nat, stop : BOOLEAN, deletion : BOOLEAN]]
      BY <1>1, <2>2, LedgerTyped DEF ApiWrites
  <2>6. request' \in [Clients -> Requests]
      BY <1>1, <2>1, <2>3 DEF ApiWrites
  <2>7. QED
      BY <1>1, <2>4, <2>5, <2>6 DEF TypeOK, ApiWrites
<1>2. ASSUME NEW c \in Clients, NEW d \in Desktops, ApiReads(c, d)
      PROVE  TypeOK'
  <2>1. request \in [Clients -> Requests]
      BY DEF TypeOK
  <2>2. request' \in [Clients -> Requests]
      BY <1>2, <2>1 DEF ApiReads, Decisions, Requests
  <2>3. budget' \in Budgets
      BY <1>2, BudgetTyped DEF ApiReads
  <2>4. QED
      BY <1>2, <2>2, <2>3 DEF TypeOK, ApiReads
<1>3. ASSUME NEW d \in Desktops, ApiBulk(d)
      PROVE  TypeOK'
  <2>1. PICK x \in BulkDecisions : SetRow(d, x[3], hyp_started[d], feed) /\ Record(d, x[3])
      BY <1>3 DEF ApiBulk
  <2>2. x[3] \in Statuses
      BY DEF BulkDecisions, Statuses
  <2>3. /\ feed \in Seq(ChangesOfRows)
        /\ hyp_started[d] \in HypsStarted
      BY DEF TypeOK
  <2>4. /\ status' \in [Desktops -> Statuses \cup {Gone}]
        /\ hyp_started' \in [Desktops -> HypsStarted]
        /\ feed' \in Seq(ChangesOfRows)
      BY <2>1, <2>2, <2>3, SetRowTyped
  <2>5. ledger' \in [Desktops -> [starts : Nat, boots : Nat, stop : BOOLEAN, deletion : BOOLEAN]]
      BY <2>1, LedgerTyped
  <2>6. budget' \in Budgets
      BY <1>3, BudgetTyped DEF ApiBulk
  <2>7. QED
      BY <1>3, <2>4, <2>5, <2>6 DEF TypeOK, ApiBulk
<1>4. QED
    BY <1>1, <1>2, <1>3 DEF Api

\* A guest that acts alone keeps the types.
LEMMA GuestTyped ==
    ASSUME TypeOK, NEW h \in Hyps, NEW d \in Desktops, GuestChanges(h, d)
    PROVE  TypeOK'
<1> DEFINE Kinds == Seq({"Started", "Stopped", "Suspended", "Resumed"})
<1>1. <<"Stopped">> \in Kinds /\ <<"Suspended">> \in Kinds /\ <<"Resumed">> \in Kinds
    OBVIOUS
<1>2. /\ vm' \in [Hyps -> [Desktops -> {"off", "running", "paused"}]]
      /\ events' \in [Hyps -> Seq(EventsOfVms)]
    BY <1>1, SetVmTyped DEF GuestChanges
<1>3. budget' \in Budgets
    BY BudgetTyped DEF GuestChanges
<1>4. QED
    BY <1>2, <1>3 DEF TypeOK, GuestChanges

\* The handler of any change keeps the types.
LEMMA ChangesTyped ==
    ASSUME TypeOK, feed # <<>>, Changes(Head(feed))
    PROVE  TypeOK'
<1> DEFINE c == Head(feed)
<1>1. /\ c.id \in Desktops /\ c.old \in Statuses /\ c.new \in Statuses
      /\ Tail(feed) \in Seq(ChangesOfRows)
    BY HeadOfFeed
<1>2. "changes" \in Threads
    BY DEF Threads
<1>3. /\ NoHyp \in HypsStarted /\ Hyps \subseteq HypsStarted
      /\ {"Failed", "DeletingDomainDisk"} \subseteq Statuses
    BY DEF HypsStarted, Statuses
<1>4. /\ queue \in [Hyps -> Seq(ActionsOfWorkers)]
      /\ hyp_started \in [Desktops -> HypsStarted]
    BY DEF TypeOK
<1> HIDE DEF c
<1>5. ASSUME RevertChange(c)
      PROVE  TypeOK'
  <2>1. CASE UNCHANGED <<status, hyp_started, job>>
      BY <1>1, <1>5, <2>1 DEF TypeOK, RevertChange, SetRow
  <2>2. CASE SetRow(c.id, c.old, NoHyp, Tail(feed)) /\ Do("changes", AfterWrite(c.id, c.old))
    <3>1. /\ status' \in [Desktops -> Statuses \cup {Gone}]
          /\ hyp_started' \in [Desktops -> HypsStarted]
          /\ feed' \in Seq(ChangesOfRows)
        BY <1>1, <1>3, <2>2, SetRowTyped
    <3>2. job' \in [Threads -> Jobs]
        BY <1>1, <1>2, <2>2, JobsAre, DoTyped
    <3>3. QED
        BY <1>5, <3>1, <3>2 DEF TypeOK, RevertChange
  <2>3. QED
      BY <1>5, <2>1, <2>2 DEF RevertChange
<1>6. ASSUME HandleStart(c)
      PROVE  TypeOK'
  <2>1. ASSUME NEW h \in Hyps,
               queue' = [queue EXCEPT ![h] = Put(@, Action("start_domain", c.id, FALSE))],
               hyp_started' = [hyp_started EXCEPT ![c.id] = NoHyp],
               feed' = Tail(feed), UNCHANGED <<status, job, budget>>
        PROVE  TypeOK'
    <3>1. queue' \in [Hyps -> Seq(ActionsOfWorkers)]
        BY <1>1, <1>4, <2>1, ActionTyped, QueueTyped
    <3>2. hyp_started' \in [Desktops -> HypsStarted]
        BY <1>3, <1>4, <2>1
    <3>3. QED
        BY <1>1, <1>6, <2>1, <3>1, <3>2 DEF TypeOK, HandleStart
  <2>2. ASSUME SetRow(c.id, "Failed", NoHyp, Tail(feed)), Do("changes", AfterWrite(c.id, "Failed")),
               UNCHANGED queue, UNCHANGED budget \/ Spend("faults")
        PROVE  TypeOK'
    <3>1. /\ status' \in [Desktops -> Statuses \cup {Gone}]
          /\ hyp_started' \in [Desktops -> HypsStarted]
          /\ feed' \in Seq(ChangesOfRows)
        BY <1>1, <1>3, <2>2, SetRowTyped
    <3>2. job' \in [Threads -> Jobs]
        BY <1>1, <1>2, <1>3, <2>2, JobsAre, DoTyped
    <3>3. budget' \in Budgets
        BY <2>2, BudgetTyped DEF TypeOK
    <3>4. QED
        BY <1>6, <2>2, <3>1, <3>2, <3>3 DEF TypeOK, HandleStart
  <2>3. QED
      BY <1>6, <2>1, <2>2 DEF HandleStart, Online
<1>7. ASSUME HandleStopping(c)
      PROVE  TypeOK'
  <2>1. queue' \in [Hyps -> Seq(ActionsOfWorkers)]
      BY <1>1, <1>4, <1>7, ActionTyped, QueueTyped DEF HandleStopping
  <2>2. QED
      BY <1>1, <1>7, <2>1 DEF TypeOK, HandleStopping
<1>8. ASSUME HandleDelete(c)
      PROVE  TypeOK'
  <2>1. ASSUME NEW h \in Hyps, SetRow(c.id, "DeletingDomainDisk", h, Tail(feed)),
               queue' = [queue EXCEPT ![h] = Put(@, Action("delete_disk", c.id, FALSE))]
        PROVE  TypeOK'
    <3>1. queue' \in [Hyps -> Seq(ActionsOfWorkers)]
        BY <1>1, <1>4, <2>1, ActionTyped, QueueTyped
    <3>2. /\ status' \in [Desktops -> Statuses \cup {Gone}]
          /\ hyp_started' \in [Desktops -> HypsStarted]
          /\ feed' \in Seq(ChangesOfRows)
        BY <1>1, <1>3, <2>1, SetRowTyped
    <3>3. QED
        BY <1>8, <3>1, <3>2 DEF TypeOK, HandleDelete
  <2>2. CASE feed' = Tail(feed) /\ UNCHANGED <<status, hyp_started, queue>>
      BY <1>1, <1>8, <2>2 DEF TypeOK, HandleDelete
  <2>3. QED
      BY <1>8, <2>1, <2>2 DEF HandleDelete, Online
<1>9. ASSUME HandleDiskDeleted(c)
      PROVE  TypeOK'
  <2>1. /\ status' \in [Desktops -> Statuses \cup {Gone}]
        /\ hyp_started' \in [Desktops -> HypsStarted]
      BY <1>1, <1>9, RemoveRowTyped DEF HandleDiskDeleted
  <2>2. QED
      BY <1>1, <1>9, <2>1 DEF TypeOK, HandleDiskDeleted
<1>10. ASSUME HandleForceDeleting(c)
       PROVE  TypeOK'
  <2>1. CASE UNCHANGED <<status, hyp_started, queue>>
      BY <1>1, <1>10, <2>1 DEF TypeOK, HandleForceDeleting
  <2>2. ASSUME RemoveRow(c.id),
               NEW stopped,
               \/ stopped = queue
               \/ \E h \in Hyps :
                     stopped = [queue EXCEPT ![h] = Put(@, Action("stop_domain", c.id, TRUE))],
               \/ \E g \in Hyps :
                     queue' = [stopped EXCEPT ![g] = Put(@, Action("delete_disk", c.id, TRUE))]
               \/ queue' = stopped
        PROVE  TypeOK'
    <3>0. Action("stop_domain", c.id, TRUE) \in ActionsOfWorkers
        BY <1>1, ActionTyped
    <3>1. stopped \in [Hyps -> Seq(ActionsOfWorkers)]
      <4>1. ASSUME NEW h \in Hyps,
                   stopped = [queue EXCEPT ![h] = Put(@, Action("stop_domain", c.id, TRUE))]
            PROVE  stopped \in [Hyps -> Seq(ActionsOfWorkers)]
          BY <1>4, <3>0, <4>1, QueueTyped
      <4>2. QED
          BY <1>4, <2>2, <4>1
    <3>2. queue' \in [Hyps -> Seq(ActionsOfWorkers)]
      <4>1. ASSUME NEW g \in Hyps,
                   queue' = [stopped EXCEPT ![g] = Put(@, Action("delete_disk", c.id, TRUE))]
            PROVE  queue' \in [Hyps -> Seq(ActionsOfWorkers)]
          BY <1>1, <3>1, <4>1, ActionTyped, QueueTyped
      <4>2. QED
          BY <2>2, <3>1, <4>1
    <3>3. /\ status' \in [Desktops -> Statuses \cup {Gone}]
          /\ hyp_started' \in [Desktops -> HypsStarted]
        BY <1>1, <2>2, RemoveRowTyped
    <3>4. QED
        BY <1>1, <1>10, <3>2, <3>3 DEF TypeOK, HandleForceDeleting
  <2>3. hyp_started[c.id] \in Hyps \cup {NoHyp, Blank}
      BY <1>1, <1>4 DEF HypsStarted
  <2>4. QED
      BY <1>10, <2>1, <2>2, <2>3 DEF HandleForceDeleting, Online
<1>11. ASSUME SkipChange(c)
       PROVE  TypeOK'
    BY <1>1, <1>11 DEF TypeOK, SkipChange
<1>12. QED
    BY <1>5, <1>6, <1>7, <1>8, <1>9, <1>10, <1>11 DEF Changes, c

\* A worker's action keeps the types.
LEMMA WorkerTyped ==
    ASSUME TypeOK, NEW h \in Hyps, Worker(h)
    PROVE  TypeOK'
<1> DEFINE a == Head(queue[h])
<1>1. queue[h] # <<>>
    BY DEF Worker, WorkerStartsDomain, WorkerShutsDown, WorkerStopsDomain, WorkerDeletesDisk, Runs
<1>2. /\ a.id \in Desktops /\ a.keep \in BOOLEAN
      /\ [queue EXCEPT ![h] = Tail(@)] \in [Hyps -> Seq(ActionsOfWorkers)]
    BY <1>1, HeadOfQueue
<1>3. queue' \in [Hyps -> Seq(ActionsOfWorkers)]
    BY <1>2 DEF Worker, WorkerStartsDomain, WorkerShutsDown, WorkerStopsDomain,
                WorkerDeletesDisk, Pop
<1>4. h \in Threads
    BY DEF Threads
<1>5. /\ {h, NoHyp, Blank} \subseteq HypsStarted
      /\ {"Started", "Failed", "Shutting-down", "Stopped", "DiskDeleted"} \subseteq Statuses
    BY DEF HypsStarted, Statuses
<1>6. /\ dom_id \in [Hyps -> SUBSET Desktops]
      /\ ledger \in [Desktops -> [starts : Nat, boots : Nat, stop : BOOLEAN, deletion : BOOLEAN]]
      /\ budget \in Budgets
      /\ disk \in [Desktops -> BOOLEAN]
    BY DEF TypeOK
<1> HIDE DEF a
<1>7. ASSUME WorkerStartsDomain(h)
      PROVE  TypeOK'
  <2>1. job' \in [Threads -> Jobs]
    <3>1. \/ Do(h, Write(a.id, "Started", h))
          \/ Do(h, Write(a.id, "Failed", h))
          \/ Do(h, Dead)
          \/ \E e \in dom_id[h] : Do(h, Write(e, "Started", h))
        BY <1>7 DEF WorkerStartsDomain, a
    <3>2. dom_id[h] \subseteq Desktops
        BY <1>6
    <3>3. /\ Write(a.id, "Started", h) \in Jobs
          /\ Write(a.id, "Failed", h) \in Jobs
          /\ Dead \in Jobs
          /\ \A e \in dom_id[h] : Write(e, "Started", h) \in Jobs
        BY <1>2, <1>5, <3>2, JobsAre
    <3>4. QED
        BY <1>4, <3>1, <3>3, DoTyped
  <2>2. dom_id' \in [Hyps -> SUBSET Desktops]
      BY <1>2, <1>6, <1>7 DEF WorkerStartsDomain, a
  <2>3. /\ vm' \in [Hyps -> [Desktops -> {"off", "running", "paused"}]]
        /\ events' \in [Hyps -> Seq(EventsOfVms)]
    <3>1. <<"Resumed", "Started">> \in Seq({"Started", "Stopped", "Suspended", "Resumed"})
        OBVIOUS
    <3>2. SetVm(h, a.id, "running", <<"Resumed", "Started">>) \/ UNCHANGED <<vm, events>>
        BY <1>7 DEF WorkerStartsDomain, a
    <3>3. QED
        BY <1>2, <3>1, <3>2, SetVmTyped DEF TypeOK
  <2>4. ledger' \in [Desktops -> [starts : Nat, boots : Nat, stop : BOOLEAN, deletion : BOOLEAN]]
    <3>1. ledger' = ledger \/ ledger' = [ledger EXCEPT ![a.id].boots = @ + 1]
        BY <1>7 DEF WorkerStartsDomain, a
    <3>2. ledger[a.id] \in [starts : Nat, boots : Nat, stop : BOOLEAN, deletion : BOOLEAN]
        BY <1>2, <1>6
    <3>3. ledger[a.id].boots + 1 \in Nat
        BY <3>2
    <3>4. QED
        BY <1>6, <3>1, <3>2, <3>3
  <2>5. budget' \in Budgets
    <3>1. UNCHANGED budget \/ Spend("faults")
        BY <1>7 DEF WorkerStartsDomain
    <3>2. QED
        BY <1>6, <3>1, BudgetTyped
  <2>6. QED
      BY <1>3, <1>7, <2>1, <2>2, <2>3, <2>4, <2>5 DEF TypeOK, WorkerStartsDomain
<1>8. ASSUME WorkerShutsDown(h)
      PROVE  TypeOK'
  <2>1. Do(h, Idle) \/ Do(h, Write(a.id, "Shutting-down", h))
      BY <1>8 DEF WorkerShutsDown, a
  <2>2. job' \in [Threads -> Jobs]
      BY <1>2, <1>4, <1>5, <2>1, JobsAre, DoTyped
  <2>3. QED
      BY <1>3, <1>8, <2>2 DEF TypeOK, WorkerShutsDown
<1>9. ASSUME WorkerStopsDomain(h)
      PROVE  TypeOK'
  <2>1. \/ Do(h, Idle)
        \/ Do(h, Write(a.id, "Stopped", Blank))
        \/ Do(h, Write(a.id, "Failed", h))
      BY <1>9 DEF WorkerStopsDomain, a
  <2>2. job' \in [Threads -> Jobs]
      BY <1>2, <1>4, <1>5, <2>1, JobsAre, DoTyped
  <2>3. /\ vm' \in [Hyps -> [Desktops -> {"off", "running", "paused"}]]
        /\ events' \in [Hyps -> Seq(EventsOfVms)]
    <3>1. <<"Stopped">> \in Seq({"Started", "Stopped", "Suspended", "Resumed"})
        OBVIOUS
    <3>2. SetVm(h, a.id, "off", <<"Stopped">>) \/ UNCHANGED <<vm, events>>
        BY <1>9 DEF WorkerStopsDomain, a
    <3>3. QED
        BY <1>2, <3>1, <3>2, SetVmTyped DEF TypeOK
  <2>4. budget' \in Budgets
    <3>1. UNCHANGED budget \/ Spend("faults")
        BY <1>9 DEF WorkerStopsDomain
    <3>2. QED
        BY <1>6, <3>1, BudgetTyped
  <2>5. QED
      BY <1>3, <1>9, <2>2, <2>3, <2>4 DEF TypeOK, WorkerStopsDomain
<1>10. ASSUME WorkerDeletesDisk(h)
       PROVE  TypeOK'
  <2>1. Do(h, Idle) \/ Do(h, Write(a.id, "DiskDeleted", NoHyp))
      BY <1>10 DEF WorkerDeletesDisk, a
  <2>2. job' \in [Threads -> Jobs]
      BY <1>2, <1>4, <1>5, <2>1, JobsAre, DoTyped
  <2>3. disk' \in [Desktops -> BOOLEAN]
      BY <1>6, <1>10 DEF WorkerDeletesDisk
  <2>4. budget' \in Budgets
      BY <1>6, <1>10, BudgetTyped DEF WorkerDeletesDisk
  <2>5. QED
      BY <1>3, <1>10, <2>2, <2>3, <2>4 DEF TypeOK, WorkerDeletesDisk
<1>11. QED
    BY <1>7, <1>8, <1>9, <1>10 DEF Worker

\* libvirt's callback keeps the types.
LEMMA EventTyped ==
    ASSUME TypeOK, NEW h \in Hyps, EventCallback(h)
    PROVE  TypeOK'
<1> DEFINE e == Head(events[h])
<1>1. events[h] \in Seq(EventsOfVms) /\ events[h] # <<>> /\ events \in [Hyps -> Seq(EventsOfVms)]
    BY DEF TypeOK, EventCallback
<1>2. e \in EventsOfVms /\ Tail(events[h]) \in Seq(EventsOfVms)
    BY <1>1
<1>3. e.id \in Desktops /\ e.kind \in {"Started", "Stopped", "Suspended", "Resumed"}
    BY <1>2 DEF EventsOfVms
<1>4. /\ "events" \in Threads /\ h \in HypsStarted /\ NoHyp \in HypsStarted
      /\ {"Started", "Stopped", "Paused", "Resumed"} \subseteq Statuses
    BY DEF Threads, HypsStarted, Statuses
<1> HIDE DEF e
<1>5. EventDecision(e, h) \in Jobs
  <2>1. \/ EventDecision(e, h) = Idle
        \/ EventDecision(e, h) = Write(e.id, "Stopped", NoHyp)
        \/ \E s \in {"Started", "Paused", "Resumed"} : EventDecision(e, h) = Write(e.id, s, h)
      BY <1>3 DEF EventDecision
  <2>2. QED
      BY <1>3, <1>4, <2>1, JobsAre
<1>6. job' \in [Threads -> Jobs]
    BY <1>4, <1>5, DoTyped DEF EventCallback, e
<1>7. events' \in [Hyps -> Seq(EventsOfVms)]
    BY <1>1, <1>2 DEF EventCallback
<1>8. QED
    BY <1>6, <1>7 DEF TypeOK, EventCallback

\* What a pass of the broom finds to repair, on one hypervisor.
LEMMA RepairsTyped ==
    ASSUME NEW h \in Hyps
    PROVE  Repairs(h) \subseteq RepairsOfRows
<1>1. \A d \in Desktops : EndsPass(d) \in RepairsOfRows
    BY DEF EndsPass, RepairsOfRows
<1>2. \A d \in Desktops, s \in {"Started", "Paused", "Stopped", "Stopping"}, g \in {h, NoHyp} :
         Write(d, s, g) \in RepairsOfRows
    BY DEF Write, RepairsOfRows, HypsStarted
<1>3. QED
    BY <1>1, <1>2 DEF Repairs

\* The broom keeps the types.
LEMMA BroomTyped ==
    ASSUME TypeOK, Broom
    PROVE  TypeOK'
<1> DEFINE Brooms == [seen : [Desktops -> Listings], left : SUBSET Hyps, todo : SUBSET RepairsOfRows]
<1>1. broom \in Brooms /\ hyp_started \in [Desktops -> HypsStarted]
    BY DEF TypeOK
<1>2. BroomIdle \in Brooms
    BY DEF BroomIdle, Unlisted, Listings
<1>3. ASSUME BroomLists
      PROVE  TypeOK'
  <2>1. \A d \in Desktops : Listing(d) \in Listings
      BY DEF Listing, Listings, Unlisted
  <2>2. [d \in Desktops |-> Listing(d)] \in [Desktops -> Listings]
      BY <2>1
  <2>3. Online \subseteq Hyps
      BY DEF Online
  <2>4. broom' \in Brooms
      BY <1>1, <1>3, <2>2, <2>3 DEF BroomLists
  <2>5. QED
      BY <1>3, <2>4 DEF TypeOK, BroomLists
<1>4. ASSUME NEW h \in Hyps, BroomPolls(h)
      PROVE  TypeOK'
  <2>1. broom.left \ {h} \subseteq Hyps /\ broom.todo \cup Repairs(h) \subseteq RepairsOfRows
      BY <1>1, RepairsTyped
  <2>2. BroomIdle.seen \in [Desktops -> Listings] /\ broom.seen \in [Desktops -> Listings]
      BY <1>1, <1>2
  <2>3. broom' \in Brooms
      BY <1>4, <2>1, <2>2 DEF BroomPolls
  <2>4. vm \in [Hyps -> [Desktops -> {"off", "running", "paused"}]]
      BY DEF TypeOK
  <2>5. vm' \in [Hyps -> [Desktops -> {"off", "running", "paused"}]]
      BY <1>4, <2>4 DEF BroomPolls
  <2>6. QED
      BY <1>4, <2>3, <2>5 DEF TypeOK, BroomPolls
<1>5. ASSUME NEW r \in broom.todo, BroomRepairs(r)
      PROVE  TypeOK'
  <2>1. r \in RepairsOfRows
      BY <1>1
  <2>2. broom' \in Brooms
    <3>1. [broom EXCEPT !.todo = @ \ {r}] \in Brooms
        BY <1>1
    <3>2. broom' = BroomIdle \/ broom' = [broom EXCEPT !.todo = @ \ {r}]
        BY <1>5 DEF BroomRepairs
    <3>3. QED
        BY <1>2, <3>1, <3>2
  <2>3. job' \in [Threads -> Jobs]
    <3>1. "broom" \in Threads
        BY DEF Threads
    <3>2. CASE UNCHANGED job
        BY <3>2 DEF TypeOK
    <3>3. CASE r.step = "write" /\ Do("broom", IF r.to = "Stopping"
                                               THEN [r EXCEPT !.hyp = hyp_started[r.id]] ELSE r)
      <4>1. r \in [step : {"write"}, id : Desktops,
                   to : {"Started", "Paused", "Stopped", "Stopping"}, hyp : HypsStarted]
          BY <2>1, <3>3 DEF RepairsOfRows
      <4>2. r \in Jobs
          BY <4>1 DEF Jobs, Statuses
      <4>3. hyp_started[r.id] \in HypsStarted
          BY <1>1, <4>1
      <4>4. [r EXCEPT !.hyp = hyp_started[r.id]] \in Jobs
          BY <4>1, <4>3 DEF Jobs, Statuses
      <4>5. QED
          BY <3>1, <3>3, <4>2, <4>4, DoTyped
    <3>4. QED
        BY <1>5, <3>2, <3>3 DEF BroomRepairs
  <2>4. QED
      BY <1>5, <2>2, <2>3 DEF TypeOK, BroomRepairs
<1>6. QED
    BY <1>3, <1>4, <1>5 DEF Broom

\* update_domain_status and what follows it keep the types.
LEMMA WritesTyped ==
    ASSUME TypeOK, NEW t \in Threads, Writes(t)
    PROVE  TypeOK'
<1>1. ASSUME UpdateDomainStatus(t)
      PROVE  TypeOK'
  <2> DEFINE j == job[t]
  <2>1. j.id \in Desktops /\ j.to \in Statuses /\ j.hyp \in HypsStarted
      BY <1>1, WaitingWrite DEF UpdateDomainStatus
  <2>2. feed \in Seq(ChangesOfRows)
      BY DEF TypeOK
  <2>3. /\ status' \in [Desktops -> Statuses \cup {Gone}]
        /\ hyp_started' \in [Desktops -> HypsStarted]
        /\ feed' \in Seq(ChangesOfRows)
      BY <1>1, <2>1, <2>2, SetRowTyped DEF UpdateDomainStatus
  <2>4. Do(t, Dead) \/ Do(t, AfterWrite(j.id, j.to))
      BY <1>1 DEF UpdateDomainStatus
  <2>5. job' \in [Threads -> Jobs]
      BY <2>1, <2>4, JobsAre, DoTyped
  <2>6. broom' = BroomIdle \/ broom' = broom
      BY <1>1 DEF UpdateDomainStatus
  <2>7. broom' \in [seen : [Desktops -> Listings], left : SUBSET Hyps, todo : SUBSET RepairsOfRows]
      BY <2>6 DEF TypeOK, BroomIdle, Unlisted, Listings
  <2>8. worker' = worker \/ worker' = [worker EXCEPT ![t] = "ended"]
      BY <1>1 DEF UpdateDomainStatus
  <2>9. worker' \in [Hyps -> {"none", "launched", "online", "ended"}]
      BY <2>8 DEF TypeOK
  <2>10. QED
      BY <1>1, <2>3, <2>5, <2>7, <2>9 DEF TypeOK, UpdateDomainStatus
<1>2. ASSUME RemoveFieldsWhenStopped(t)
      PROVE  TypeOK'
  <2>1. job' \in [Threads -> Jobs]
      BY <1>2, JobsAre, DoTyped DEF RemoveFieldsWhenStopped
  <2>2. hyp_started' \in [Desktops -> HypsStarted]
      BY <1>2 DEF TypeOK, RemoveFieldsWhenStopped, HypsStarted
  <2>3. QED
      BY <1>2, <2>1, <2>2 DEF TypeOK, RemoveFieldsWhenStopped
<1>3. QED
    BY <1>1, <1>2 DEF Writes

\* A restart keeps the types.
LEMMA RestartTyped ==
    ASSUME TypeOK, EngineRestarts
    PROVE  TypeOK'
<1>1. budget' \in Budgets
    BY BudgetTyped DEF EngineRestarts
<1>2. \A S : <<>> \in Seq(S)
    OBVIOUS
<1>3. job' \in [Threads -> Jobs]
    BY JobsAre DEF EngineRestarts
<1>4. broom' \in [seen : [Desktops -> Listings], left : SUBSET Hyps, todo : SUBSET RepairsOfRows]
    BY DEF EngineRestarts, BroomIdle, Unlisted, Listings
<1>5. QED
    BY <1>1, <1>2, <1>3, <1>4 DEF TypeOK, EngineRestarts

\* The start-up clean, the workers that come online and the orchestrator keep the types.
LEMMA BootsTyped ==
    ASSUME TypeOK, Boots
    PROVE  TypeOK'
<1>1. ASSUME EngineCleans
      PROVE  TypeOK'
  <2>1. \A d \in Desktops : /\ Cleaned(status[d], hyp_started[d])[1] \in Statuses \cup {Gone}
                            /\ Cleaned(status[d], hyp_started[d])[2] \in HypsStarted
    <3>1. SUFFICES ASSUME NEW d \in Desktops
                   PROVE  /\ Cleaned(status[d], hyp_started[d])[1] \in Statuses \cup {Gone}
                          /\ Cleaned(status[d], hyp_started[d])[2] \in HypsStarted
        OBVIOUS
    <3>2. status[d] \in Statuses \cup {Gone} /\ hyp_started[d] \in HypsStarted
        BY DEF TypeOK
    <3>3. \/ Cleaned(status[d], hyp_started[d]) \in {<<"Failed", NoHyp>>, <<"Stopped", NoHyp>>}
          \/ Cleaned(status[d], hyp_started[d]) = <<"Unknown", hyp_started[d]>>
          \/ Cleaned(status[d], hyp_started[d]) = <<status[d], hyp_started[d]>>
        BY DEF Cleaned
    <3>4. QED
        BY <3>2, <3>3 DEF Statuses, HypsStarted
  <2>2. /\ status' \in [Desktops -> Statuses \cup {Gone}]
        /\ hyp_started' \in [Desktops -> HypsStarted]
      BY <1>1, <2>1 DEF EngineCleans
  <2>3. QED
      BY <1>1, <2>2 DEF TypeOK, EngineCleans
<1>2. ASSUME EngineSubscribes
      PROVE  TypeOK'
    BY <1>2 DEF TypeOK, EngineSubscribes
<1>3. ASSUME NEW h \in Hyps, LaunchesWorker(h)
      PROVE  TypeOK'
    BY <1>3 DEF TypeOK, LaunchesWorker
<1>4. ASSUME NEW h \in Hyps, WorkerGoesOnline(h)
      PROVE  TypeOK'
    BY <1>4 DEF TypeOK, WorkerGoesOnline
<1>5. ASSUME NEW h \in Hyps, EventsListen(h)
      PROVE  TypeOK'
    BY <1>5 DEF TypeOK, EventsListen
<1>6. ASSUME NEW h \in Hyps, OrchestratorBuries(h)
      PROVE  TypeOK'
  <2>1. CASE queue[h] # <<>> /\ UNCHANGED worker
    <3>1. /\ Head(queue[h]).id \in Desktops
          /\ [queue EXCEPT ![h] = Tail(@)] \in [Hyps -> Seq(ActionsOfWorkers)]
        BY <2>1, HeadOfQueue
    <3>2. \A d \in Desktops : CleanedAlone(d) \in Jobs
        BY JobsAre DEF TypeOK, CleanedAlone, Statuses, HypsStarted
    <3>3. "orchestrator" \in Threads
        BY DEF Threads
    <3>4. queue' \in [Hyps -> Seq(ActionsOfWorkers)] /\ job' \in [Threads -> Jobs]
        BY <1>6, <2>1, <3>1, <3>2, <3>3, DoTyped DEF OrchestratorBuries
    <3>5. QED
        BY <1>6, <2>1, <3>4 DEF TypeOK, OrchestratorBuries
  <2>2. CASE worker' = [worker EXCEPT ![h] = "none"] /\ UNCHANGED <<queue, job>>
      BY <1>6, <2>2 DEF TypeOK, OrchestratorBuries
  <2>3. QED
      BY <1>6, <2>1, <2>2 DEF OrchestratorBuries
<1>7. ASSUME NEW h \in Hyps, NEW d \in Desktops, WorkerChecksCoherence(h, d)
      PROVE  TypeOK'
  <2>1. h \in Threads /\ {h, NoHyp} \subseteq HypsStarted
      BY DEF Threads, HypsStarted
  <2>2. Coherence(h, d) \in Jobs
      BY <2>1, JobsAre DEF Coherence, Statuses
  <2>3. job' \in [Threads -> Jobs]
      BY <1>7, <2>1, <2>2, DoTyped DEF WorkerChecksCoherence
  <2>4. unchecked' \in [Hyps -> SUBSET Desktops]
      BY <1>7 DEF TypeOK, WorkerChecksCoherence
  <2>5. QED
      BY <1>7, <2>3, <2>4 DEF TypeOK, WorkerChecksCoherence
<1>8. QED
    BY <1>1, <1>2, <1>3, <1>4, <1>5, <1>6, <1>7 DEF Boots

\* So does every step.
LEMMA NextTyped == TypeOK /\ [Next]_vars => TypeOK'
<1> SUFFICES ASSUME TypeOK, [Next]_vars
             PROVE  TypeOK'
    OBVIOUS
<1>1. CASE UNCHANGED vars
    BY <1>1 DEF TypeOK, vars
<1>2. QED
    BY <1>1, ApiTyped, GuestTyped, ChangesTyped, WorkerTyped, EventTyped, BroomTyped,
       WritesTyped, RestartTyped, BootsTyped DEF Next

\* Every variable keeps its type, for any desktops, hypervisors and bounds: whatever the
\* API, the engine's threads and libvirt do, nothing waits to be written, run or reported
\* that the code which takes it has no case for.
THEOREM TypeCorrect == Spec => []TypeOK
<1>1. QED
    BY InitTyped, NextTyped, PTL DEF Spec

USE DEF rows, libvirt, threads, users, ChangesRest, WorkerRest

-----------------------------------------------------------------------------
(* What was asked for stays asked for                                       *)

\* Asked and ActionAsked of what a step leads to, for values of the present state.
AskedNext(d, s) ==
    /\ s \in DeletionStatuses => ledger'[d].deletion
    /\ s \in StopStatuses => ledger'[d].stop

ActionAskedNext(a) ==
    /\ a.type = "delete_disk" => ledger'[a.id].deletion
    /\ a.type = "stop_domain" => ledger'[a.id].stop \/ ledger'[a.id].deletion
    /\ a.type = "shutdown_domain" => ledger'[a.id].stop

\* No step forgets a request.
Later == \A d \in Desktops : /\ ledger[d].deletion => ledger'[d].deletion
                             /\ ledger[d].stop => ledger'[d].stop

\* What was asked for before a step was asked for after it.
LEMMA AskedLater ==
    ASSUME Later
    PROVE  /\ \A d \in Desktops : \A s : Asked(d, s) => AskedNext(d, s)
           /\ \A a \in ActionsOfWorkers : ActionAsked(a) => ActionAskedNext(a)
    BY DEF Later, Asked, AskedNext, ActionAsked, ActionAskedNext, ActionsOfWorkers

\* The API records what it writes, and forgets nothing.
LEMMA RecordLater ==
    ASSUME TypeOK, NEW d \in Desktops, NEW new \in Statuses \ {"DeletingDomainDisk", "DiskDeleted"},
           Record(d, new)
    PROVE  Later /\ AskedNext(d, new)
<1>1. ledger \in [Desktops -> [starts : Nat, boots : Nat, stop : BOOLEAN, deletion : BOOLEAN]]
    BY DEF TypeOK
<1>2. ledger[d] \in [starts : Nat, boots : Nat, stop : BOOLEAN, deletion : BOOLEAN]
    BY <1>1
<1>3. CASE new = "Starting"
  <2>1. ledger' = [ledger EXCEPT ![d].starts = @ + 1]
      BY <1>3 DEF Record
  <2>2. QED
      BY <1>1, <1>2, <1>3, <2>1 DEF Later, AskedNext, DeletionStatuses, StopStatuses, Gone
<1>4. CASE new \in {"Shutting-down", "Stopping"}
  <2>1. ledger' = [ledger EXCEPT ![d].stop = TRUE]
      BY <1>4 DEF Record
  <2>2. QED
      BY <1>1, <1>2, <1>4, <2>1 DEF Later, AskedNext, DeletionStatuses, StopStatuses, Gone
<1>5. CASE new \in {"Deleting", "ForceDeleting"}
  <2>1. ledger' = [ledger EXCEPT ![d].deletion = TRUE]
      BY <1>5 DEF Record
  <2>2. QED
      BY <1>1, <1>2, <1>5, <2>1 DEF Later, AskedNext, DeletionStatuses, StopStatuses, Gone
<1>6. CASE new \notin {"Starting", "Shutting-down", "Stopping", "Deleting", "ForceDeleting"}
  <2>1. ledger' = ledger
      BY <1>6 DEF Record
  <2>2. QED
      BY <1>6, <2>1 DEF Later, AskedNext, DeletionStatuses, StopStatuses, Gone, Statuses
<1>7. QED
    BY <1>3, <1>4, <1>5, <1>6

\* A step that leaves the ledger alone forgets nothing.
LEMMA UnchangedLater == UNCHANGED ledger => Later
    BY DEF Later

-----------------------------------------------------------------------------
(* Each part of the invariant, under the steps that touch it                *)

\* A step that writes no row and no disk.
LEMMA RowsKept ==
    ASSUME Later, RowsAsked, UNCHANGED <<status, disk>>
    PROVE  RowsAsked'
    BY AskedLater DEF RowsAsked, Later, Asked, AskedNext

\* What is left of the feed after the head was taken.
LEMMA FeedKept ==
    ASSUME TypeOK, Later, FeedAsked, NEW pending,
           pending = feed \/ (feed # <<>> /\ pending = Tail(feed))
    PROVE  /\ pending \in Seq(ChangesOfRows)
           /\ \A i \in 1..Len(pending) : /\ AskedNext(pending[i].id, pending[i].old)
                                         /\ AskedNext(pending[i].id, pending[i].new)
<1>1. feed \in Seq(ChangesOfRows)
    BY DEF TypeOK
<1>2. \A i \in 1..Len(feed) : /\ feed[i].id \in Desktops
                              /\ AskedNext(feed[i].id, feed[i].old)
                              /\ AskedNext(feed[i].id, feed[i].new)
  <2>1. \A i \in 1..Len(feed) : feed[i] \in ChangesOfRows
      BY <1>1
  <2>2. \A i \in 1..Len(feed) : feed[i].id \in Desktops
      BY <2>1 DEF ChangesOfRows
  <2>3. QED
      BY <2>2, AskedLater DEF FeedAsked
<1>3. CASE pending = feed
    BY <1>1, <1>2, <1>3
<1>4. CASE feed # <<>> /\ pending = Tail(feed)
  <2>1. /\ pending \in Seq(ChangesOfRows)
        /\ Len(pending) = Len(feed) - 1 /\ Len(feed) \in Nat \ {0}
        /\ \A i \in 1..Len(pending) : pending[i] = feed[i + 1] /\ i + 1 \in 1..Len(feed)
      BY <1>1, <1>4
  <2>2. QED
      BY <1>2, <2>1
<1>5. QED
    BY <1>3, <1>4

\* A step that adds nothing to the feed.
LEMMA FeedStays ==
    ASSUME TypeOK, Later, FeedAsked, feed' = feed \/ (feed # <<>> /\ feed' = Tail(feed))
    PROVE  FeedAsked'
    BY FeedKept DEF FeedAsked, Asked, AskedNext

\* A write of a status that was asked for.
LEMMA SetRowAsked ==
    ASSUME TypeOK, Later, RowsAsked, FeedAsked, UNCHANGED disk,
           NEW d \in Desktops, NEW new \in Statuses, NEW h, NEW pending,
           pending = feed \/ (feed # <<>> /\ pending = Tail(feed)),
           SetRow(d, new, h, pending), AskedNext(d, new)
    PROVE  RowsAsked' /\ FeedAsked'
<1>1. status \in [Desktops -> Statuses \cup {Gone}] /\ disk \in [Desktops -> BOOLEAN]
    BY DEF TypeOK
<1>2. \A e \in Desktops : AskedNext(e, status[e]) /\ (~disk[e] => ledger'[e].deletion)
    BY AskedLater DEF RowsAsked, Later
<1>3. /\ pending \in Seq(ChangesOfRows)
      /\ \A i \in 1..Len(pending) : /\ AskedNext(pending[i].id, pending[i].old)
                                    /\ AskedNext(pending[i].id, pending[i].new)
    BY FeedKept
<1>4. status' = status \/ status' = [status EXCEPT ![d] = new]
    BY DEF SetRow
<1>5. RowsAsked'
  <2>1. \A e \in Desktops : AskedNext(e, status'[e])
      BY <1>1, <1>2, <1>4
  <2>2. QED
      BY <1>2, <2>1 DEF RowsAsked, Asked, AskedNext
<1>6. \A i \in 1..Len(feed') : AskedNext(feed'[i].id, feed'[i].old) /\ AskedNext(feed'[i].id, feed'[i].new)
  <2> DEFINE c == [id |-> d, old |-> status[d], new |-> new]
  <2>1. CASE feed' = pending
      BY <1>3, <2>1
  <2>2. CASE feed' = Append(pending, c)
    <3>1. AskedNext(c.id, c.old) /\ AskedNext(c.id, c.new)
        BY <1>2
    <3> HIDE DEF c
    <3>2. /\ Len(feed') = Len(pending) + 1 /\ Len(pending) \in Nat
          /\ feed'[Len(pending) + 1] = c
          /\ \A i \in 1..Len(pending) : feed'[i] = pending[i]
        BY <1>3, <2>2
    <3>3. QED
        BY <1>3, <3>1, <3>2
  <2>3. QED
      BY <2>1, <2>2 DEF SetRow
<1>7. QED
    BY <1>5, <1>6 DEF FeedAsked, Asked, AskedNext

\* A row is removed after its deletion was asked for.
LEMMA RemoveRowAsked ==
    ASSUME TypeOK, Later, RowsAsked, UNCHANGED disk,
           NEW d \in Desktops, RemoveRow(d), ledger'[d].deletion
    PROVE  RowsAsked'
<1>1. status \in [Desktops -> Statuses \cup {Gone}]
    BY DEF TypeOK
<1>2. \A e \in Desktops : AskedNext(e, status[e]) /\ (~disk[e] => ledger'[e].deletion)
    BY AskedLater DEF RowsAsked, Later
<1>3. status' = [status EXCEPT ![d] = Gone]
    BY DEF RemoveRow
<1>4. AskedNext(d, Gone)
    BY DEF AskedNext, StopStatuses, Gone
<1>5. \A e \in Desktops : AskedNext(e, status'[e])
    BY <1>1, <1>2, <1>3, <1>4
<1>6. QED
    BY <1>2, <1>5 DEF RowsAsked, Asked, AskedNext

\* What the queues hold.
LEMMA QueueKept ==
    ASSUME TypeOK, Later, QueuesAsked
    PROVE  \A h \in Hyps : \A i \in 1..Len(queue[h]) : ActionAskedNext(queue[h][i])
<1>1. \A h \in Hyps : queue[h] \in Seq(ActionsOfWorkers)
    BY DEF TypeOK
<1>2. \A h \in Hyps : \A i \in 1..Len(queue[h]) : queue[h][i] \in ActionsOfWorkers
    BY <1>1
<1>3. QED
    BY <1>2, AskedLater DEF QueuesAsked

\* A step that leaves the queues alone.
LEMMA QueuesStay ==
    ASSUME TypeOK, Later, QueuesAsked, UNCHANGED queue
    PROVE  QueuesAsked'
    BY QueueKept DEF QueuesAsked, ActionAsked, ActionAskedNext

\* An action that was asked for joins a queue of such actions.
LEMMA PutAsked ==
    ASSUME NEW q \in [Hyps -> Seq(ActionsOfWorkers)], NEW h \in Hyps, NEW a \in ActionsOfWorkers,
           \A g \in Hyps : \A i \in 1..Len(q[g]) : ActionAskedNext(q[g][i]),
           ActionAskedNext(a)
    PROVE  \A g \in Hyps : \A i \in 1..Len([q EXCEPT ![h] = Put(@, a)][g]) :
               ActionAskedNext([q EXCEPT ![h] = Put(@, a)][g][i])
<1> DEFINE r == [q EXCEPT ![h] = Put(@, a)]
<1>1. r[h] = Put(q[h], a) /\ \A g \in Hyps \ {h} : r[g] = q[g]
    OBVIOUS
<1> HIDE DEF r
<1>2. \A i \in 1..Len(Put(q[h], a)) : ActionAskedNext(Put(q[h], a)[i])
  <2>1. q[h] \in Seq(ActionsOfWorkers)
      OBVIOUS
  <2>2. \A i \in 1..Len(Put(q[h], a)) :
           Put(q[h], a)[i] = a \/ \E k \in 1..Len(q[h]) : Put(q[h], a)[i] = q[h][k]
      BY <2>1, PutOf
  <2>3. QED
      BY <2>2
<1>3. \A g \in Hyps : \A i \in 1..Len(r[g]) : ActionAskedNext(r[g][i])
    BY <1>1, <1>2
<1>4. QED
    BY <1>3 DEF r

\* A worker, or the orchestrator, takes the head of a queue.
LEMMA QueuesPopped ==
    ASSUME TypeOK, Later, QueuesAsked, NEW h \in Hyps, queue[h] # <<>>,
           queue' = [queue EXCEPT ![h] = Tail(@)]
    PROVE  QueuesAsked'
<1>1. queue \in [Hyps -> Seq(ActionsOfWorkers)] /\ queue[h] \in Seq(ActionsOfWorkers)
    BY DEF TypeOK
<1>2. \A g \in Hyps : \A i \in 1..Len(queue[g]) : ActionAskedNext(queue[g][i])
    BY QueueKept
<1>3. /\ Len(Tail(queue[h])) = Len(queue[h]) - 1 /\ Len(queue[h]) \in Nat \ {0}
      /\ \A i \in 1..Len(Tail(queue[h])) : Tail(queue[h])[i] = queue[h][i + 1]
    BY <1>1
<1>4. \A i \in 1..Len(Tail(queue[h])) : ActionAskedNext(Tail(queue[h])[i])
    BY <1>2, <1>3
<1>5. queue'[h] = Tail(queue[h]) /\ \A g \in Hyps \ {h} : queue'[g] = queue[g]
    BY <1>1
<1>6. \A g \in Hyps : \A i \in 1..Len(queue'[g]) : ActionAskedNext(queue'[g][i])
    BY <1>2, <1>4, <1>5
<1>7. QED
    BY <1>6 DEF QueuesAsked, ActionAsked, ActionAskedNext

\* A step that leaves the threads alone.
LEMMA JobsStay ==
    ASSUME TypeOK, Later, JobsAsked, UNCHANGED job
    PROVE  JobsAsked'
    BY WaitingWrite, AskedLater DEF JobsAsked, Asked, AskedNext

\* A thread is given a write that was asked for, or none.
LEMMA DoAsked ==
    ASSUME TypeOK, Later, JobsAsked, NEW t \in Threads, NEW j, Do(t, j),
           j.step = "write" => AskedNext(j.id, j.to)
    PROVE  JobsAsked'
<1>1. job \in [Threads -> Jobs]
    BY DEF TypeOK
<1>2. job'[t] = j /\ \A u \in Threads \ {t} : job'[u] = job[u]
    BY <1>1 DEF Do
<1>3. \A u \in Threads : job[u].step = "write" => AskedNext(job[u].id, job[u].to)
    BY WaitingWrite, AskedLater DEF JobsAsked
<1>4. \A u \in Threads : job'[u].step = "write" => AskedNext(job'[u].id, job'[u].to)
    BY <1>2, <1>3
<1>5. QED
    BY <1>4 DEF JobsAsked, Asked, AskedNext

\* No request is needed for these.
LEMMA FreeToWrite ==
    /\ \A j \in {Idle, Dead} : j.step # "write"
    /\ \A d \in Desktops : Clear(d).step # "write"
    /\ \A d \in Desktops : \A s : AfterWrite(d, s).step # "write"
    /\ \A d, s, h : Write(d, s, h).step = "write" /\ Write(d, s, h).id = d /\ Write(d, s, h).to = s
    /\ \A d \in Desktops, s \in Statuses \ (DeletionStatuses \cup StopStatuses) : AskedNext(d, s)
    BY DEF Idle, Dead, Clear, AfterWrite, Write, AskedNext

\* A step that leaves the broom alone.
LEMMA BroomStays ==
    ASSUME TypeOK, Later, BroomAsked, UNCHANGED broom
    PROVE  BroomAsked'
<1>1. \A r \in broom.todo : r.id \in Desktops
    BY DEF TypeOK, RepairsOfRows
<1>2. QED
    BY <1>1, AskedLater DEF BroomAsked, Asked, AskedNext

\* A pass of the broom that ends.
LEMMA BroomRests ==
    ASSUME broom' = BroomIdle
    PROVE  BroomAsked'
    BY DEF BroomAsked, BroomIdle, Unlisted, Asked, DeletionStatuses, StopStatuses, Gone

-----------------------------------------------------------------------------
(* Every step keeps the invariant                                           *)

\* Nothing waits at first.
LEMMA InitAsked == Init => NothingWaitsUnasked
<1> SUFFICES ASSUME Init PROVE NothingWaitsUnasked
    OBVIOUS
<1>1. RowsAsked
    BY DEF Init, RowsAsked, Asked, DeletionStatuses, StopStatuses, Gone
<1>2. FeedAsked /\ QueuesAsked
    BY DEF Init, FeedAsked, QueuesAsked
<1>3. JobsAsked
    BY DEF Init, JobsAsked, Idle
<1>4. BroomAsked
    BY DEF Init, BroomAsked, BroomIdle, Unlisted, Asked, DeletionStatuses, StopStatuses, Gone
<1>5. QED
    BY <1>1, <1>2, <1>3, <1>4 DEF NothingWaitsUnasked

\* The API's requests: what they write is recorded.
LEMMA ApiAsked ==
    ASSUME TypeOK, NothingWaitsUnasked, Api
    PROVE  NothingWaitsUnasked'
<1> USE DEF NothingWaitsUnasked
<1>1. ASSUME NEW c \in Clients, ApiWrites(c)
      PROVE  NothingWaitsUnasked'
  <2>1. /\ request[c] \in Requests /\ request[c] # NoRequest
        /\ SetRow(request[c].id, request[c].to, hyp_started[request[c].id], feed)
        /\ Record(request[c].id, request[c].to)
      BY <1>1 DEF TypeOK, ApiWrites
  <2>2. /\ request[c].id \in Desktops
        /\ request[c].to \in Statuses \ {"DeletingDomainDisk", "DiskDeleted"}
      BY <2>1 DEF Requests, NoRequest, Statuses
  <2>3. Later /\ AskedNext(request[c].id, request[c].to)
      BY <2>1, <2>2, RecordLater
  <2>4. RowsAsked' /\ FeedAsked'
      BY <1>1, <2>1, <2>2, <2>3, SetRowAsked DEF ApiWrites
  <2>5. QED
      BY <1>1, <2>3, <2>4, QueuesStay, JobsStay, BroomStays DEF ApiWrites
<1>2. ASSUME NEW c \in Clients, NEW d \in Desktops, ApiReads(c, d)
      PROVE  NothingWaitsUnasked'
    BY <1>2, UnchangedLater, RowsKept, FeedStays, QueuesStay, JobsStay, BroomStays DEF ApiReads
<1>3. ASSUME NEW d \in Desktops, ApiBulk(d)
      PROVE  NothingWaitsUnasked'
  <2>1. PICK x \in BulkDecisions : SetRow(d, x[3], hyp_started[d], feed) /\ Record(d, x[3])
      BY <1>3 DEF ApiBulk
  <2>2. x[3] \in Statuses \ {"DeletingDomainDisk", "DiskDeleted"}
      BY DEF BulkDecisions, Statuses
  <2>3. Later /\ AskedNext(d, x[3])
      BY <2>1, <2>2, RecordLater
  <2>4. RowsAsked' /\ FeedAsked'
      BY <1>3, <2>1, <2>2, <2>3, SetRowAsked DEF ApiBulk
  <2>5. QED
      BY <1>3, <2>3, <2>4, QueuesStay, JobsStay, BroomStays DEF ApiBulk
<1>4. QED
    BY <1>1, <1>2, <1>3 DEF Api

\* A guest that acts alone.
LEMMA GuestAsked ==
    ASSUME TypeOK, NothingWaitsUnasked, NEW h \in Hyps, NEW d \in Desktops, GuestChanges(h, d)
    PROVE  NothingWaitsUnasked'
    BY UnchangedLater, RowsKept, FeedStays, QueuesStay, JobsStay, BroomStays
       DEF GuestChanges, NothingWaitsUnasked

\* What the change at the head of the feed tells was asked for.
LEMMA HeadAsked ==
    ASSUME TypeOK, FeedAsked, feed # <<>>
    PROVE  Asked(Head(feed).id, Head(feed).old) /\ Asked(Head(feed).id, Head(feed).new)
<1>1. feed \in Seq(ChangesOfRows)
    BY DEF TypeOK
<1>2. Head(feed) = feed[1] /\ 1 \in 1..Len(feed)
    BY <1>1
<1>3. QED
    BY <1>2 DEF FeedAsked

\* The handler of a change: it writes and asks what the change tells.
LEMMA ChangesAsked ==
    ASSUME TypeOK, NothingWaitsUnasked, feed # <<>>, Changes(Head(feed))
    PROVE  NothingWaitsUnasked'
<1> USE DEF NothingWaitsUnasked
<1> DEFINE c == Head(feed)
<1>1. /\ c.id \in Desktops /\ c.old \in Statuses /\ c.new \in Statuses
      /\ Tail(feed) \in Seq(ChangesOfRows)
    BY HeadOfFeed
<1>2. Asked(c.id, c.old) /\ Asked(c.id, c.new)
    BY HeadAsked
<1> HIDE DEF c
<1>3. UNCHANGED <<ledger, disk, broom>>
    BY DEF Changes, RevertChange, HandleStart, HandleStopping, HandleDelete,
           HandleDiskDeleted, HandleForceDeleting, SkipChange
<1>4. Later /\ BroomAsked'
    BY <1>3, UnchangedLater, BroomStays
<1>5. AskedNext(c.id, c.old) /\ AskedNext(c.id, c.new)
    BY <1>1, <1>2, <1>4, AskedLater
<1>6. /\ queue \in [Hyps -> Seq(ActionsOfWorkers)]
      /\ \A h \in Hyps : \A i \in 1..Len(queue[h]) : ActionAskedNext(queue[h][i])
    BY <1>4, QueueKept DEF TypeOK
<1>7. "changes" \in Threads
    BY DEF Threads
<1>8. ASSUME RevertChange(c)
      PROVE  NothingWaitsUnasked'
  <2>1. QueuesAsked'
      BY <1>4, <1>8, QueuesStay DEF RevertChange
  <2>2. CASE feed' = Tail(feed) /\ UNCHANGED <<status, hyp_started, job>>
      BY <1>3, <1>4, <2>1, <2>2, RowsKept, FeedStays, JobsStay
  <2>3. CASE SetRow(c.id, c.old, NoHyp, Tail(feed)) /\ Do("changes", AfterWrite(c.id, c.old))
    <3>1. RowsAsked' /\ FeedAsked'
        BY <1>1, <1>3, <1>4, <1>5, <2>3, SetRowAsked
    <3>2. JobsAsked'
        BY <1>1, <1>4, <1>7, <2>3, DoAsked, FreeToWrite
    <3>3. QED
        BY <1>4, <2>1, <3>1, <3>2
  <2>4. QED
      BY <1>8, <2>2, <2>3 DEF RevertChange
<1>9. ASSUME HandleStart(c)
      PROVE  NothingWaitsUnasked'
  <2>1. ASSUME NEW h \in Hyps,
               queue' = [queue EXCEPT ![h] = Put(@, Action("start_domain", c.id, FALSE))],
               feed' = Tail(feed), UNCHANGED <<status, job>>
        PROVE  NothingWaitsUnasked'
    <3>1. /\ Action("start_domain", c.id, FALSE) \in ActionsOfWorkers
          /\ ActionAskedNext(Action("start_domain", c.id, FALSE))
        BY <1>1, ActionTyped DEF Action, ActionAskedNext
    <3>2. \A g \in Hyps : \A i \in 1..Len(queue'[g]) : ActionAskedNext(queue'[g][i])
        BY <1>6, <2>1, <3>1, PutAsked
    <3>3. QueuesAsked'
        BY <3>2 DEF QueuesAsked, ActionAsked, ActionAskedNext
    <3>4. QED
        BY <1>3, <1>4, <2>1, <3>3, RowsKept, FeedStays, JobsStay
  <2>2. ASSUME SetRow(c.id, "Failed", NoHyp, Tail(feed)), Do("changes", AfterWrite(c.id, "Failed")),
               UNCHANGED queue
        PROVE  NothingWaitsUnasked'
    <3>1. "Failed" \in Statuses \ (DeletionStatuses \cup StopStatuses)
        BY DEF Statuses, DeletionStatuses, StopStatuses, Gone
    <3>2. RowsAsked' /\ FeedAsked'
        BY <1>1, <1>3, <1>4, <2>2, <3>1, SetRowAsked, FreeToWrite
    <3>3. JobsAsked'
        BY <1>1, <1>4, <1>7, <2>2, DoAsked, FreeToWrite
    <3>4. QED
        BY <1>4, <2>2, <3>2, <3>3, QueuesStay
  <2>3. QED
      BY <1>9, <2>1, <2>2 DEF HandleStart, Online
<1>10. ASSUME HandleStopping(c)
       PROVE  NothingWaitsUnasked'
  <2>1. ledger'[c.id].stop
      BY <1>5, <1>10 DEF HandleStopping, IsShutdown, IsStop, AskedNext, StopStatuses
  <2>2. \A type \in {"stop_domain", "shutdown_domain"} :
           /\ Action(type, c.id, FALSE) \in ActionsOfWorkers
           /\ ActionAskedNext(Action(type, c.id, FALSE))
      BY <1>1, <2>1, ActionTyped DEF Action, ActionAskedNext
  <2>3. \/ queue' = queue
        \/ \E type \in {"stop_domain", "shutdown_domain"}, h \in Hyps :
              queue' = [queue EXCEPT ![h] = Put(@, Action(type, c.id, FALSE))]
      BY <1>1, <1>10 DEF HandleStopping, TypeOK, HypsStarted
  <2>4. ASSUME NEW type \in {"stop_domain", "shutdown_domain"}, NEW h \in Hyps,
               queue' = [queue EXCEPT ![h] = Put(@, Action(type, c.id, FALSE))]
        PROVE  \A g \in Hyps : \A i \in 1..Len(queue'[g]) : ActionAskedNext(queue'[g][i])
      BY <1>6, <2>2, <2>4, PutAsked
  <2>5. QueuesAsked'
      BY <1>6, <2>3, <2>4 DEF QueuesAsked, ActionAsked, ActionAskedNext
  <2>6. QED
      BY <1>3, <1>4, <1>10, <2>5, RowsKept, FeedStays, JobsStay DEF HandleStopping, c
<1>11. ASSUME HandleDelete(c)
       PROVE  NothingWaitsUnasked'
  <2>1. ledger'[c.id].deletion
      BY <1>5, <1>11 DEF HandleDelete, IsDelete, AskedNext, DeletionStatuses
  <2>2. /\ Action("delete_disk", c.id, FALSE) \in ActionsOfWorkers
        /\ ActionAskedNext(Action("delete_disk", c.id, FALSE))
      BY <1>1, <2>1, ActionTyped DEF Action, ActionAskedNext
  <2>3. JobsAsked'
      BY <1>4, <1>11, JobsStay DEF HandleDelete
  <2>4. ASSUME NEW h \in Hyps, SetRow(c.id, "DeletingDomainDisk", h, Tail(feed)),
               queue' = [queue EXCEPT ![h] = Put(@, Action("delete_disk", c.id, FALSE))]
        PROVE  NothingWaitsUnasked'
    <3>1. \A g \in Hyps : \A i \in 1..Len(queue'[g]) : ActionAskedNext(queue'[g][i])
        BY <1>6, <2>2, <2>4, PutAsked
    <3>2. QueuesAsked'
        BY <3>1 DEF QueuesAsked, ActionAsked, ActionAskedNext
    <3>3. AskedNext(c.id, "DeletingDomainDisk") /\ "DeletingDomainDisk" \in Statuses
        BY <2>1 DEF AskedNext, StopStatuses, Statuses
    <3>4. RowsAsked' /\ FeedAsked'
        BY <1>1, <1>3, <1>4, <1>11, <2>4, <3>3, SetRowAsked DEF HandleDelete, Acts, Takes
    <3>5. QED
        BY <1>4, <2>3, <3>2, <3>4
  <2>5. CASE feed' = Tail(feed) /\ UNCHANGED <<status, hyp_started, queue>>
      BY <1>3, <1>4, <2>3, <2>5, RowsKept, FeedStays, QueuesStay
  <2>6. QED
      BY <1>11, <2>4, <2>5 DEF HandleDelete, Online
<1>12. ASSUME HandleDiskDeleted(c)
       PROVE  NothingWaitsUnasked'
  <2>1. ledger'[c.id].deletion
      BY <1>5, <1>12 DEF HandleDiskDeleted, IsRemove, AskedNext, DeletionStatuses
  <2>2. RowsAsked'
      BY <1>1, <1>3, <1>4, <1>12, <2>1, RemoveRowAsked DEF HandleDiskDeleted
  <2>3. QED
      BY <1>4, <1>12, <2>2, FeedStays, QueuesStay, JobsStay DEF HandleDiskDeleted
<1>13. ASSUME HandleForceDeleting(c)
       PROVE  NothingWaitsUnasked'
  <2>1. ledger'[c.id].deletion
      BY <1>5, <1>13 DEF HandleForceDeleting, IsForce, AskedNext, DeletionStatuses
  <2>2. FeedAsked' /\ JobsAsked'
      BY <1>4, <1>13, FeedStays, JobsStay DEF HandleForceDeleting
  <2>3. CASE UNCHANGED <<status, hyp_started, queue>>
      BY <1>3, <1>4, <2>2, <2>3, RowsKept, QueuesStay
  <2>4. ASSUME RemoveRow(c.id),
               NEW stopped,
               \/ stopped = queue
               \/ \E h \in Hyps :
                     stopped = [queue EXCEPT ![h] = Put(@, Action("stop_domain", c.id, TRUE))],
               \/ \E g \in Hyps :
                     queue' = [stopped EXCEPT ![g] = Put(@, Action("delete_disk", c.id, TRUE))]
               \/ queue' = stopped
        PROVE  NothingWaitsUnasked'
    <3>1. \A type \in {"stop_domain", "delete_disk"} :
             /\ Action(type, c.id, TRUE) \in ActionsOfWorkers
             /\ ActionAskedNext(Action(type, c.id, TRUE))
        BY <1>1, <2>1, ActionTyped DEF Action, ActionAskedNext
    <3>2. /\ stopped \in [Hyps -> Seq(ActionsOfWorkers)]
          /\ \A g \in Hyps : \A i \in 1..Len(stopped[g]) : ActionAskedNext(stopped[g][i])
      <4>1. ASSUME NEW h \in Hyps,
                   stopped = [queue EXCEPT ![h] = Put(@, Action("stop_domain", c.id, TRUE))]
            PROVE  /\ stopped \in [Hyps -> Seq(ActionsOfWorkers)]
                   /\ \A g \in Hyps : \A i \in 1..Len(stopped[g]) : ActionAskedNext(stopped[g][i])
          BY <1>6, <3>1, <4>1, QueueTyped, PutAsked
      <4>2. QED
          BY <1>6, <2>4, <4>1
    <3>3. \A g \in Hyps : \A i \in 1..Len(queue'[g]) : ActionAskedNext(queue'[g][i])
      <4>1. ASSUME NEW h \in Hyps,
                   queue' = [stopped EXCEPT ![h] = Put(@, Action("delete_disk", c.id, TRUE))]
            PROVE  \A g \in Hyps : \A i \in 1..Len(queue'[g]) : ActionAskedNext(queue'[g][i])
          BY <3>1, <3>2, <4>1, PutAsked
      <4>2. QED
          BY <2>4, <3>2, <4>1
    <3>4. QueuesAsked'
        BY <3>3 DEF QueuesAsked, ActionAsked, ActionAskedNext
    <3>5. RowsAsked'
        BY <1>1, <1>3, <1>4, <2>1, <2>4, RemoveRowAsked
    <3>6. QED
        BY <1>4, <2>2, <3>4, <3>5
  <2>5. hyp_started[c.id] \in Hyps \cup {NoHyp, Blank}
      BY <1>1 DEF TypeOK, HypsStarted
  <2>6. QED
      BY <1>13, <2>3, <2>4, <2>5 DEF HandleForceDeleting, Online
<1>14. ASSUME SkipChange(c)
       PROVE  NothingWaitsUnasked'
    BY <1>3, <1>4, <1>14, RowsKept, FeedStays, QueuesStay, JobsStay DEF SkipChange
<1>15. QED
    BY <1>8, <1>9, <1>10, <1>11, <1>12, <1>13, <1>14 DEF Changes, c

\* The action a worker takes was asked for.
LEMMA HeadActionAsked ==
    ASSUME TypeOK, QueuesAsked, NEW h \in Hyps, queue[h] # <<>>
    PROVE  ActionAsked(Head(queue[h]))
<1>1. queue[h] \in Seq(ActionsOfWorkers)
    BY DEF TypeOK
<1>2. Head(queue[h]) = queue[h][1] /\ 1 \in 1..Len(queue[h])
    BY <1>1
<1>3. QED
    BY <1>2 DEF QueuesAsked

\* A worker's action: it reports what it was asked to do, or less.
LEMMA WorkerAsked ==
    ASSUME TypeOK, NothingWaitsUnasked, NEW h \in Hyps, Worker(h)
    PROVE  NothingWaitsUnasked'
<1> USE DEF NothingWaitsUnasked
<1> DEFINE a == Head(queue[h])
<1>1. queue[h] # <<>>
    BY DEF Worker, WorkerStartsDomain, WorkerShutsDown, WorkerStopsDomain, WorkerDeletesDisk, Runs
<1>2. a.id \in Desktops /\ ActionAsked(a)
    BY <1>1, HeadOfQueue, HeadActionAsked
<1>3. Later
  <2>1. ledger \in [Desktops -> [starts : Nat, boots : Nat, stop : BOOLEAN, deletion : BOOLEAN]]
      BY DEF TypeOK
  <2>2. ledger' = ledger \/ ledger' = [ledger EXCEPT ![a.id].boots = @ + 1]
      BY DEF Worker, WorkerStartsDomain, WorkerShutsDown, WorkerStopsDomain, WorkerDeletesDisk
  <2>3. ledger[a.id] \in [starts : Nat, boots : Nat, stop : BOOLEAN, deletion : BOOLEAN]
      BY <1>2, <2>1
  <2>4. QED
      BY <1>2, <2>1, <2>2, <2>3 DEF Later
<1>4. QueuesAsked'
  <2>1. queue' = [queue EXCEPT ![h] = Tail(@)]
      BY DEF Worker, WorkerStartsDomain, WorkerShutsDown, WorkerStopsDomain, WorkerDeletesDisk, Pop
  <2>2. QED
      BY <1>1, <1>3, <2>1, QueuesPopped
<1>5. FeedAsked' /\ BroomAsked'
  <2>1. UNCHANGED <<feed, broom>>
      BY DEF Worker, WorkerStartsDomain, WorkerShutsDown, WorkerStopsDomain, WorkerDeletesDisk
  <2>2. QED
      BY <1>3, <2>1, FeedStays, BroomStays
<1>6. h \in Threads
    BY DEF Threads
<1>7. {"Started", "Stopped", "Failed"} \subseteq Statuses \ (DeletionStatuses \cup StopStatuses)
    BY DEF Statuses, DeletionStatuses, StopStatuses, Gone
<1> HIDE DEF a
<1>8. ASSUME WorkerStartsDomain(h)
      PROVE  NothingWaitsUnasked'
  <2>1. RowsAsked'
      BY <1>3, <1>8, RowsKept DEF WorkerStartsDomain
  <2>2. PICK j : /\ Do(h, j)
                 /\ \/ j = Write(a.id, "Started", h)
                    \/ j = Write(a.id, "Failed", h)
                    \/ j = Dead
                    \/ \E e \in dom_id[h] : j = Write(e, "Started", h)
      BY <1>8 DEF WorkerStartsDomain, a
  <2>3. dom_id[h] \subseteq Desktops
      BY DEF TypeOK
  <2>4. j.step = "write" => AskedNext(j.id, j.to)
      BY <1>2, <1>7, <2>2, <2>3, FreeToWrite
  <2>5. JobsAsked'
      BY <1>3, <1>6, <2>2, <2>4, DoAsked
  <2>6. QED
      BY <1>4, <1>5, <2>1, <2>5
<1>9. ASSUME WorkerShutsDown(h)
      PROVE  NothingWaitsUnasked'
  <2>1. RowsAsked'
      BY <1>3, <1>9, RowsKept DEF WorkerShutsDown
  <2>2. a.type = "shutdown_domain" /\ Later
      BY <1>3, <1>9 DEF WorkerShutsDown, Runs, a
  <2>3. AskedNext(a.id, "Shutting-down")
      BY <1>2, <2>2 DEF ActionAsked, Later, AskedNext, DeletionStatuses, Gone
  <2>4. PICK j : Do(h, j) /\ j \in {Idle, Write(a.id, "Shutting-down", h)}
      BY <1>9 DEF WorkerShutsDown, a
  <2>5. j.step = "write" => AskedNext(j.id, j.to)
      BY <2>3, <2>4, FreeToWrite
  <2>6. JobsAsked'
      BY <1>3, <1>6, <2>4, <2>5, DoAsked
  <2>7. QED
      BY <1>4, <1>5, <2>1, <2>6
<1>10. ASSUME WorkerStopsDomain(h)
       PROVE  NothingWaitsUnasked'
  <2>1. RowsAsked'
      BY <1>3, <1>10, RowsKept DEF WorkerStopsDomain
  <2>2. PICK j : Do(h, j) /\ j \in {Idle, Write(a.id, "Stopped", Blank), Write(a.id, "Failed", h)}
      BY <1>10 DEF WorkerStopsDomain, a
  <2>3. j.step = "write" => AskedNext(j.id, j.to)
      BY <1>2, <1>7, <2>2, FreeToWrite
  <2>4. JobsAsked'
      BY <1>3, <1>6, <2>2, <2>3, DoAsked
  <2>5. QED
      BY <1>4, <1>5, <2>1, <2>4
<1>11. ASSUME WorkerDeletesDisk(h)
       PROVE  NothingWaitsUnasked'
  <2>1. a.type = "delete_disk"
      BY <1>11 DEF WorkerDeletesDisk, Runs, a
  <2>2. ledger'[a.id].deletion
      BY <1>2, <1>3, <2>1 DEF ActionAsked, Later
  <2>3. RowsAsked'
    <3>1. disk \in [Desktops -> BOOLEAN]
        BY DEF TypeOK
    <3>2. disk' = disk \/ disk' = [disk EXCEPT ![a.id] = FALSE]
        BY <1>11 DEF WorkerDeletesDisk, a
    <3>3. status' = status
        BY <1>11 DEF WorkerDeletesDisk
    <3>4. \A d \in Desktops : AskedNext(d, status[d]) /\ (~disk[d] => ledger'[d].deletion)
        BY <1>3, AskedLater DEF RowsAsked, Later
    <3>5. \A d \in Desktops : ~disk'[d] => ledger'[d].deletion
        BY <1>2, <2>2, <3>1, <3>2, <3>4
    <3>6. QED
        BY <3>3, <3>4, <3>5 DEF RowsAsked, Asked, AskedNext
  <2>4. AskedNext(a.id, "DiskDeleted")
      BY <2>2 DEF AskedNext, StopStatuses
  <2>5. PICK j : Do(h, j) /\ j \in {Idle, Write(a.id, "DiskDeleted", NoHyp)}
      BY <1>11 DEF WorkerDeletesDisk, a
  <2>6. j.step = "write" => AskedNext(j.id, j.to)
      BY <2>4, <2>5, FreeToWrite
  <2>7. JobsAsked'
      BY <1>3, <1>6, <2>5, <2>6, DoAsked
  <2>8. QED
      BY <1>4, <1>5, <2>3, <2>7
<1>12. QED
    BY <1>8, <1>9, <1>10, <1>11 DEF Worker

\* libvirt's callback writes no status of a stop or a deletion.
LEMMA EventAsked ==
    ASSUME TypeOK, NothingWaitsUnasked, NEW h \in Hyps, EventCallback(h)
    PROVE  NothingWaitsUnasked'
<1> USE DEF NothingWaitsUnasked
<1> DEFINE e == Head(events[h])
<1>1. Later
    BY UnchangedLater DEF EventCallback
<1>2. e \in EventsOfVms
    BY DEF TypeOK, EventCallback
<1>3. e.id \in Desktops /\ e.kind \in {"Started", "Stopped", "Suspended", "Resumed"}
    BY <1>2 DEF EventsOfVms
<1> HIDE DEF e
<1>4. \/ EventDecision(e, h) = Idle
      \/ EventDecision(e, h) = Write(e.id, "Stopped", NoHyp)
      \/ \E s \in {"Started", "Paused", "Resumed"} : EventDecision(e, h) = Write(e.id, s, h)
    BY <1>3 DEF EventDecision
<1>5. {"Started", "Stopped", "Paused", "Resumed"} \subseteq Statuses \ (DeletionStatuses \cup StopStatuses)
    BY DEF Statuses, DeletionStatuses, StopStatuses, Gone
<1>6. PICK j : j = EventDecision(e, h)
    OBVIOUS
<1>7. j.step = "write" => AskedNext(j.id, j.to)
    BY <1>3, <1>4, <1>5, <1>6, FreeToWrite
<1>8. "events" \in Threads /\ Do("events", j)
    BY <1>6 DEF Threads, EventCallback, e
<1>9. JobsAsked'
    BY <1>1, <1>7, <1>8, DoAsked
<1>10. QED
    BY <1>1, <1>9, RowsKept, FeedStays, QueuesStay, BroomStays DEF EventCallback

\* The broom: a Stopping comes from a Shutting-down it has seen.
LEMMA BroomAsksNothing ==
    ASSUME TypeOK, NothingWaitsUnasked, Broom
    PROVE  NothingWaitsUnasked'
<1> USE DEF NothingWaitsUnasked
<1>1. ledger' = ledger
    BY DEF Broom, BroomLists, BroomPolls, BroomRepairs
<1>2. Later
    BY <1>1, UnchangedLater
<1>3. RowsAsked' /\ FeedAsked' /\ QueuesAsked'
  <2>1. UNCHANGED <<rows, disk, queue>>
      BY DEF Broom, BroomLists, BroomPolls, BroomRepairs
  <2>2. QED
      BY <1>2, <2>1, RowsKept, FeedStays, QueuesStay
<1>4. ASSUME BroomLists
      PROVE  NothingWaitsUnasked'
  <2>1. JobsAsked'
      BY <1>2, <1>4, JobsStay DEF BroomLists
  <2>2. \A d \in Desktops : Asked(d, Listing(d).status)
      BY DEF RowsAsked, Asked, Listing, Unlisted, DeletionStatuses, StopStatuses, Gone
  <2>3. broom \in [seen : [Desktops -> Listings], left : SUBSET Hyps, todo : SUBSET RepairsOfRows]
      BY DEF TypeOK
  <2>4. /\ broom'.seen = [d \in Desktops |-> Listing(d)]
        /\ broom'.todo = broom.todo
      BY <1>4, <2>3 DEF BroomLists
  <2>5. BroomAsked'
      BY <1>1, <2>2, <2>4 DEF BroomAsked, Asked
  <2>6. QED
      BY <1>3, <2>1, <2>5
<1>5. ASSUME NEW h \in Hyps, BroomPolls(h)
      PROVE  NothingWaitsUnasked'
  <2>1. JobsAsked'
      BY <1>2, <1>5, JobsStay DEF BroomPolls
  <2>2. \A r \in Repairs(h) : r.step = "write" => Asked(r.id, r.to)
    <3>1. \A d \in Desktops, s \in {"Started", "Paused", "Stopped"} : Asked(d, s)
        BY DEF Asked, DeletionStatuses, StopStatuses, Gone
    <3>2. \A d \in Desktops : broom.seen[d].status = "Shutting-down" => Asked(d, "Stopping")
        BY DEF BroomAsked, Asked, DeletionStatuses, StopStatuses, Gone
    <3>3. \A d \in Desktops : EndsPass(d).step # "write"
        BY DEF EndsPass
    <3>4. \A d \in Desktops : broom.seen[d] = [status |-> "Shutting-down", hyp |-> h]
                                => Asked(d, "Stopping")
        BY <3>2
    <3>5. QED
        BY <3>1, <3>3, <3>4, FreeToWrite DEF Repairs
  <2>3. /\ broom'.seen = broom.seen \/ broom'.seen = BroomIdle.seen
        /\ broom'.todo = broom.todo \cup Repairs(h)
      BY <1>5 DEF BroomPolls
  <2>4. \A d \in Desktops : Asked(d, BroomIdle.seen[d].status)
      BY DEF BroomIdle, Unlisted, Asked, DeletionStatuses, StopStatuses, Gone
  <2>5. BroomAsked'
    <3>1. \A r \in broom'.todo : r.step = "write" => Asked(r.id, r.to)
        BY <2>2, <2>3 DEF BroomAsked
    <3>2. \A d \in Desktops : Asked(d, broom'.seen[d].status)
        BY <2>3, <2>4 DEF BroomAsked
    <3>3. QED
        BY <1>1, <3>1, <3>2 DEF BroomAsked, Asked
  <2>6. QED
      BY <1>3, <2>1, <2>5
<1>6. ASSUME NEW r \in broom.todo, BroomRepairs(r)
      PROVE  NothingWaitsUnasked'
  <2>1. r \in RepairsOfRows /\ "broom" \in Threads
      BY DEF TypeOK, Threads
  <2>2. JobsAsked'
    <3>1. CASE UNCHANGED job
        BY <1>2, <3>1, JobsStay
    <3>2. CASE r.step = "write" /\ Do("broom", IF r.to = "Stopping"
                                               THEN [r EXCEPT !.hyp = hyp_started[r.id]] ELSE r)
      <4>1. PICK j : /\ Do("broom", j)
                     /\ j = r \/ j = [r EXCEPT !.hyp = hyp_started[r.id]]
          BY <3>2
      <4>2. r \in [step : {"write"}, id : Desktops,
                   to : {"Started", "Paused", "Stopped", "Stopping"}, hyp : HypsStarted]
          BY <2>1, <3>2 DEF RepairsOfRows
      <4>3. j.id = r.id /\ j.to = r.to
          BY <4>1, <4>2
      <4>4. AskedNext(r.id, r.to)
          BY <1>2, <3>2, <4>2, AskedLater DEF BroomAsked
      <4>5. QED
          BY <1>2, <2>1, <4>1, <4>3, <4>4, DoAsked
    <3>3. QED
        BY <1>6, <3>1, <3>2 DEF BroomRepairs
  <2>3. BroomAsked'
    <3>1. CASE broom' = BroomIdle
        BY <3>1, BroomRests
    <3>2. CASE broom' = [broom EXCEPT !.todo = @ \ {r}]
      <4>1. broom \in [seen : [Desktops -> Listings], left : SUBSET Hyps, todo : SUBSET RepairsOfRows]
          BY DEF TypeOK
      <4>2. broom'.seen = broom.seen /\ broom'.todo \subseteq broom.todo
          BY <3>2, <4>1
      <4>3. QED
          BY <1>1, <4>2 DEF BroomAsked, Asked
    <3>3. QED
        BY <1>6, <3>1, <3>2 DEF BroomRepairs
  <2>4. QED
      BY <1>3, <2>2, <2>3
<1>7. QED
    BY <1>4, <1>5, <1>6 DEF Broom

\* A pending write becomes the status of a row.
LEMMA WritesAsked ==
    ASSUME TypeOK, NothingWaitsUnasked, NEW t \in Threads, Writes(t)
    PROVE  NothingWaitsUnasked'
<1> USE DEF NothingWaitsUnasked
<1>1. Later
    BY UnchangedLater DEF Writes, UpdateDomainStatus, RemoveFieldsWhenStopped
<1>2. QueuesAsked'
    BY <1>1, QueuesStay DEF Writes, UpdateDomainStatus, RemoveFieldsWhenStopped
<1>3. ASSUME UpdateDomainStatus(t)
      PROVE  NothingWaitsUnasked'
  <2> DEFINE j == job[t]
  <2>1. j.id \in Desktops /\ j.to \in Statuses /\ AskedNext(j.id, j.to)
      BY <1>1, <1>3, WaitingWrite, AskedLater DEF UpdateDomainStatus, JobsAsked
  <2>2. RowsAsked' /\ FeedAsked'
      BY <1>1, <1>3, <2>1, SetRowAsked DEF UpdateDomainStatus
  <2>3. PICK k : Do(t, k) /\ k \in {Dead, AfterWrite(j.id, j.to)}
      BY <1>3 DEF UpdateDomainStatus
  <2>4. k.step # "write"
      BY <2>1, <2>3, FreeToWrite
  <2>5. JobsAsked'
      BY <1>1, <2>3, <2>4, DoAsked
  <2>6. broom' = BroomIdle \/ broom' = broom
      BY <1>3 DEF UpdateDomainStatus
  <2>7. BroomAsked'
      BY <1>1, <2>6, BroomRests, BroomStays
  <2>8. QED
      BY <1>2, <2>2, <2>5, <2>7
<1>4. ASSUME RemoveFieldsWhenStopped(t)
      PROVE  NothingWaitsUnasked'
  <2>1. JobsAsked'
      BY <1>1, <1>4, DoAsked, FreeToWrite DEF RemoveFieldsWhenStopped
  <2>2. QED
      BY <1>1, <1>2, <1>4, <2>1, RowsKept, FeedStays, BroomStays DEF RemoveFieldsWhenStopped
<1>5. QED
    BY <1>3, <1>4 DEF Writes

\* A restart forgets what waits.
LEMMA RestartAsked ==
    ASSUME TypeOK, NothingWaitsUnasked, EngineRestarts
    PROVE  NothingWaitsUnasked'
<1> USE DEF NothingWaitsUnasked
<1>1. RowsAsked'
    BY UnchangedLater, RowsKept DEF EngineRestarts
<1>2. FeedAsked' /\ QueuesAsked'
    BY DEF EngineRestarts, FeedAsked, QueuesAsked
<1>3. JobsAsked'
    BY DEF EngineRestarts, JobsAsked, Idle
<1>4. BroomAsked'
    BY BroomRests DEF EngineRestarts
<1>5. QED
    BY <1>1, <1>2, <1>3, <1>4

\* The start-up clean, the coherence check and the orchestrator.
LEMMA BootsAsked ==
    ASSUME TypeOK, NothingWaitsUnasked, Boots
    PROVE  NothingWaitsUnasked'
<1> USE DEF NothingWaitsUnasked
<1>1. ledger' = ledger
    BY DEF Boots, EngineCleans, EngineSubscribes, LaunchesWorker, WorkerGoesOnline, EventsListen,
           OrchestratorBuries, WorkerChecksCoherence
<1>2. Later
    BY <1>1, UnchangedLater
<1>3. FeedAsked' /\ BroomAsked'
  <2>1. UNCHANGED <<feed, broom>>
      BY DEF Boots, EngineCleans, EngineSubscribes, LaunchesWorker, WorkerGoesOnline, EventsListen,
             OrchestratorBuries, WorkerChecksCoherence
  <2>2. QED
      BY <1>2, <2>1, FeedStays, BroomStays
<1>4. ASSUME EngineCleans
      PROVE  NothingWaitsUnasked'
  <2>1. \A d \in Desktops : \/ Cleaned(status[d], hyp_started[d])[1] = status[d]
                            \/ Cleaned(status[d], hyp_started[d])[1] \in {"Failed", "Stopped", "Unknown"}
      BY DEF Cleaned
  <2>2. \A d \in Desktops : status'[d] = Cleaned(status[d], hyp_started[d])[1]
      BY <1>4 DEF EngineCleans
  <2>3. \A d \in Desktops : Asked(d, status'[d]) /\ (~disk'[d] => ledger[d].deletion)
      BY <1>4, <2>1, <2>2 DEF EngineCleans, RowsAsked, Asked, DeletionStatuses, StopStatuses, Gone
  <2>4. RowsAsked'
      BY <1>1, <2>3 DEF RowsAsked, Asked
  <2>5. QED
      BY <1>2, <1>3, <1>4, <2>4, QueuesStay, JobsStay DEF EngineCleans
<1>5. ASSUME UNCHANGED <<status, disk, queue, job>>
      PROVE  NothingWaitsUnasked'
    BY <1>2, <1>3, <1>5, RowsKept, QueuesStay, JobsStay
<1>6. ASSUME NEW h \in Hyps, OrchestratorBuries(h)
      PROVE  NothingWaitsUnasked'
  <2>1. CASE UNCHANGED <<queue, job>>
      BY <1>5, <1>6, <2>1 DEF OrchestratorBuries
  <2>2. ASSUME queue[h] # <<>>, queue' = [queue EXCEPT ![h] = Tail(@)],
               Do("orchestrator", CleanedAlone(Head(queue[h]).id))
        PROVE  NothingWaitsUnasked'
    <3> DEFINE d == Head(queue[h]).id
    <3>1. d \in Desktops
        BY <2>2, HeadOfQueue
    <3> HIDE DEF d
    <3>2. \/ CleanedAlone(d) = Idle
          \/ \E s \in {"Failed", "Stopped", "Started"}, g \in {NoHyp, hyp_started[d]} :
                CleanedAlone(d) = Write(d, s, g)
        BY DEF CleanedAlone
    <3>3. {"Failed", "Stopped", "Started"} \subseteq Statuses \ (DeletionStatuses \cup StopStatuses)
        BY DEF Statuses, DeletionStatuses, StopStatuses, Gone
    <3>4. PICK j : j = CleanedAlone(d)
        OBVIOUS
    <3>5. j.step = "write" => AskedNext(j.id, j.to)
        BY <3>1, <3>2, <3>3, <3>4, FreeToWrite
    <3>6. JobsAsked'
        BY <1>2, <2>2, <3>4, <3>5, DoAsked DEF Threads, d
    <3>7. RowsAsked' /\ QueuesAsked'
        BY <1>2, <1>6, <2>2, RowsKept, QueuesPopped DEF OrchestratorBuries
    <3>8. QED
        BY <1>3, <3>6, <3>7
  <2>3. QED
      BY <1>6, <2>1, <2>2 DEF OrchestratorBuries
<1>7. ASSUME NEW h \in Hyps, NEW d \in Desktops, WorkerChecksCoherence(h, d)
      PROVE  NothingWaitsUnasked'
  <2>1. \/ Coherence(h, d) = Idle
        \/ \E s \in {"Started", "Paused", "Stopped"}, g \in {NoHyp, h} :
              Coherence(h, d) = Write(d, s, g)
      BY DEF Coherence
  <2>2. {"Started", "Paused", "Stopped"} \subseteq Statuses \ (DeletionStatuses \cup StopStatuses)
      BY DEF Statuses, DeletionStatuses, StopStatuses, Gone
  <2>3. PICK j : j = Coherence(h, d)
      OBVIOUS
  <2>4. j.step = "write" => AskedNext(j.id, j.to)
      BY <2>1, <2>2, <2>3, FreeToWrite
  <2>5. JobsAsked'
      BY <1>2, <1>7, <2>3, <2>4, DoAsked DEF WorkerChecksCoherence, Threads
  <2>6. QED
      BY <1>2, <1>3, <1>7, <2>5, RowsKept, QueuesStay DEF WorkerChecksCoherence
<1>8. QED
    BY <1>4, <1>5, <1>6, <1>7
       DEF Boots, EngineSubscribes, LaunchesWorker, WorkerGoesOnline, EventsListen

\* So does every step.
LEMMA NextAsked == TypeOK /\ NothingWaitsUnasked /\ [Next]_vars => NothingWaitsUnasked'
<1> SUFFICES ASSUME TypeOK, NothingWaitsUnasked, [Next]_vars
             PROVE  NothingWaitsUnasked'
    OBVIOUS
<1>1. CASE UNCHANGED vars
    BY <1>1, UnchangedLater, RowsKept, FeedStays, QueuesStay, JobsStay, BroomStays
       DEF NothingWaitsUnasked, vars
<1>2. QED
    BY <1>1, ApiAsked, GuestAsked, ChangesAsked, WorkerAsked, EventAsked, BroomAsksNothing,
       WritesAsked, RestartAsked, BootsAsked DEF Next

-----------------------------------------------------------------------------
(* The theorems                                                             *)

\* Wherever a status, an action or a repair waits, and however stale it is, what it tells
\* of a stop or a deletion was asked of the API: the changefeed, the workers' queues, the
\* threads' pending writes and the broom's snapshot, through any restarts.
THEOREM StaleCopiesWereAsked == Spec => []NothingWaitsUnasked
<1>1. QED
    BY InitTyped, NextTyped, InitAsked, NextAsked, PTL DEF Spec

\* No row is removed and no disk deleted of a desktop whose deletion nobody asked for.
THEOREM DeletedOnlyOnRequest == Spec => []NothingDeletedUnasked
<1>1. NothingWaitsUnasked => NothingDeletedUnasked
    BY DEF NothingWaitsUnasked, RowsAsked, Asked, DeletionStatuses, NothingDeletedUnasked
<1>2. QED
    BY <1>1, StaleCopiesWereAsked, PTL

\* Which VMs a step can power off.
LEMMA PowerOffAsked ==
    ASSUME TypeOK, NothingWaitsUnasked, [Next]_vars,
           NEW h \in Hyps, NEW d \in Desktops,
           vm[h][d] # "off", vm'[h][d] = "off", budget'.guest = budget.guest
    PROVE  ledger[d].stop \/ ledger[d].deletion
<1> USE DEF NothingWaitsUnasked
<1>1. vm \in [Hyps -> [Desktops -> {"off", "running", "paused"}]]
    BY DEF TypeOK
<1>2. vm' # vm
    OBVIOUS
<1>3. ASSUME NEW g \in Hyps, NEW e \in Desktops, GuestChanges(g, e)
      PROVE  FALSE
  <2>1. budget \in Budgets
      BY DEF TypeOK
  <2>2. budget.guest \in Nat /\ budget'.guest = budget.guest - 1
      BY <1>3, <2>1 DEF GuestChanges, Spend, Budgets
  <2>3. QED
      BY <2>2
<1>4. ASSUME NEW g \in Hyps, WorkerStartsDomain(g)
      PROVE  FALSE
  <2>1. vm' = [vm EXCEPT ![g][Head(queue[g]).id] = "running"] \/ vm' = vm
      BY <1>4 DEF WorkerStartsDomain, SetVm
  <2>2. QED
      BY <1>1, <2>1
<1>5. ASSUME NEW g \in Hyps, WorkerStopsDomain(g)
      PROVE  ledger[d].stop \/ ledger[d].deletion
  <2>1. queue[g] # <<>> /\ Head(queue[g]).type = "stop_domain"
      BY <1>5 DEF WorkerStopsDomain, Runs
  <2>2. vm' = [vm EXCEPT ![g][Head(queue[g]).id] = "off"]
      BY <1>2, <1>5 DEF WorkerStopsDomain, SetVm
  <2>3. d = Head(queue[g]).id
      BY <1>1, <2>2
  <2>4. ActionAsked(Head(queue[g]))
      BY <2>1, HeadActionAsked
  <2>5. QED
      BY <2>1, <2>3, <2>4 DEF ActionAsked
<1>6. ASSUME NEW g \in Hyps, BroomPolls(g)
      PROVE  ledger[d].stop \/ ledger[d].deletion
  <2>1. vm' = [vm EXCEPT ![g] = [e \in Desktops |-> IF e \in Orphans(g) THEN "off" ELSE @[e]]]
      BY <1>6 DEF BroomPolls
  <2>2. d \in Orphans(g)
      BY <1>1, <2>1
  <2>3. status[d] = Gone
      BY <2>2 DEF Orphans
  <2>4. QED
      BY <2>3 DEF RowsAsked, Asked, DeletionStatuses
<1>7. ASSUME Next
      PROVE  \/ UNCHANGED vm
             \/ \E g \in Hyps, e \in Desktops : GuestChanges(g, e)
             \/ \E g \in Hyps : WorkerStartsDomain(g) \/ WorkerStopsDomain(g) \/ BroomPolls(g)
  <2>1. Api => UNCHANGED vm
      BY DEF Api, ApiWrites, ApiReads, ApiBulk
  <2>2. Changes(Head(feed)) => UNCHANGED vm
      BY DEF Changes, RevertChange, HandleStart, HandleStopping, HandleDelete,
             HandleDiskDeleted, HandleForceDeleting, SkipChange
  <2>3. \A g \in Hyps : Worker(g) => \/ UNCHANGED vm
                                     \/ WorkerStartsDomain(g) \/ WorkerStopsDomain(g)
      BY DEF Worker, WorkerShutsDown, WorkerDeletesDisk
  <2>4. \A g \in Hyps : EventCallback(g) => UNCHANGED vm
      BY DEF EventCallback
  <2>5. \A t \in Threads : Writes(t) => UNCHANGED vm
      BY DEF Writes, UpdateDomainStatus, RemoveFieldsWhenStopped
  <2>6. Broom => UNCHANGED vm \/ \E g \in Hyps : BroomPolls(g)
      BY DEF Broom, BroomLists, BroomRepairs
  <2>7. EngineRestarts \/ Boots => UNCHANGED vm
      BY DEF EngineRestarts, Boots, EngineCleans, EngineSubscribes, LaunchesWorker,
             WorkerGoesOnline, EventsListen, OrchestratorBuries, WorkerChecksCoherence
  <2>8. QED
      BY <1>7, <2>1, <2>2, <2>3, <2>4, <2>5, <2>6, <2>7 DEF Next
<1>8. QED
    BY <1>2, <1>3, <1>4, <1>5, <1>6, <1>7 DEF vars

\* The engine powers a VM off only when a stop or the deletion of its desktop was asked
\* for: by a worker's destroy, or by the broom's destroy of a VM that has no row.
THEOREM PoweredOffOnlyOnRequest == Spec => StoppedOnRequest
<1>1. TypeOK /\ NothingWaitsUnasked /\ [Next]_vars
        => [\A h \in Hyps, d \in Desktops :
               /\ vm[h][d] # "off" /\ vm'[h][d] = "off"
               /\ budget'.guest = budget.guest
               => ledger[d].stop \/ ledger[d].deletion]_vars
    BY PowerOffAsked
<1>2. QED
    BY <1>1, TypeCorrect, StaleCopiesWereAsked, PTL DEF Spec, StoppedOnRequest

-----------------------------------------------------------------------------
(* Until a fault or a restart no row leaves its disk behind                 *)

\* The engine stays up, and every worker online.
Undisturbed ==
    /\ engine = "up" /\ \A h \in Hyps : worker[h] = "online"

\* What tells that the disk of d was deleted tells the truth, wherever it waits.
Tells(d, s) == s = "DiskDeleted" => ~ disk[d]
TellsNext(d, s) == s = "DiskDeleted" => ~ disk'[d]

RowsTell == \A d \in Desktops : Tells(d, status[d])
FeedTells == \A i \in 1 .. Len(feed) : Tells(feed[i].id, feed[i].old) /\ Tells(feed[i].id, feed[i].new)
JobsTell == \A t \in Threads : job[t].step = "write" => Tells(job[t].id, job[t].to)

RemovedInv == Undisturbed /\ RowsTell /\ FeedTells /\ JobsTell /\ DisksFollow

\* No disk comes back.
DisksGo == \A d \in Desktops : disk'[d] => disk[d]

\* A worker has the deletion of d's disk in its queue.
HoldsDelete(q, d) ==
    \E h \in Hyps : \E i \in 1 .. Len(q[h]) : q[h][i].id = d /\ q[h][i].type = "delete_disk"

LEMMA TellsLater == ASSUME DisksGo, NEW d \in Desktops, NEW s, Tells(d, s) PROVE TellsNext(d, s)
  BY DEF DisksGo, Tells, TellsNext

\* A write of a row of what is true.
LEMMA SetRowTells ==
    ASSUME TypeOK, DisksGo, RowsTell, FeedTells,
           NEW e \in Desktops, NEW new \in Statuses, NEW h, NEW pending,
           pending = feed \/ (feed # <<>> /\ pending = Tail(feed)),
           SetRow(e, new, h, pending), TellsNext(e, new)
    PROVE  /\ RowsTell' /\ FeedTells'
           /\ \A d \in Desktops : status'[d] = Gone => status[d] = Gone
<1>1. status \in [Desktops -> Statuses \cup {Gone}] /\ feed \in Seq(ChangesOfRows)
  BY DEF TypeOK
<1>2. \A d \in Desktops : TellsNext(d, status[d])
  BY TellsLater DEF RowsTell
<1>3. \A i \in 1 .. Len(feed) : TellsNext(feed[i].id, feed[i].old) /\ TellsNext(feed[i].id, feed[i].new)
  <2>1. \A i \in 1 .. Len(feed) : feed[i] \in ChangesOfRows
    BY <1>1
  <2>2. \A i \in 1 .. Len(feed) : feed[i].id \in Desktops
    BY <2>1 DEF ChangesOfRows
  <2> QED
    BY <2>2, TellsLater DEF FeedTells
<1>4. /\ pending \in Seq(ChangesOfRows)
      /\ \A i \in 1 .. Len(pending) : TellsNext(pending[i].id, pending[i].old) /\ TellsNext(pending[i].id, pending[i].new)
  <2>1. CASE pending = feed
    BY <1>1, <1>3, <2>1
  <2>2. CASE feed # <<>> /\ pending = Tail(feed)
    <3>1. /\ pending \in Seq(ChangesOfRows) /\ Len(feed) \in Nat /\ Len(feed) = Len(pending) + 1
          /\ \A i \in 1 .. Len(pending) : pending[i] = feed[i + 1] /\ i + 1 \in 1 .. Len(feed)
      BY <1>1, <2>2
    <3> QED
      BY <1>3, <3>1
  <2> QED
    BY <2>1, <2>2
<1>5. new # Gone
  BY DEF Statuses, Gone
<1>6. status' = status \/ (status' = [status EXCEPT ![e] = new] /\ status[e] # Gone)
  BY DEF SetRow
<1>7. RowsTell' /\ \A d \in Desktops : status'[d] = Gone => status[d] = Gone
  <2>1. \A d \in Desktops : TellsNext(d, status'[d])
    BY <1>1, <1>2, <1>6
  <2> QED
    BY <1>1, <1>5, <1>6, <2>1 DEF RowsTell, Tells, TellsNext
<1>8. \A i \in 1 .. Len(feed') : TellsNext(feed'[i].id, feed'[i].old) /\ TellsNext(feed'[i].id, feed'[i].new)
  <2> DEFINE c == [id |-> e, old |-> status[e], new |-> new]
  <2>1. CASE feed' = pending
    BY <1>4, <2>1
  <2>2. CASE feed' = Append(pending, c)
    <3>1. TellsNext(c.id, c.old) /\ TellsNext(c.id, c.new)
      BY <1>2
    <3> HIDE DEF c
    <3>2. /\ Len(feed') = Len(pending) + 1 /\ Len(pending) \in Nat
          /\ feed'[Len(pending) + 1] = c
          /\ \A i \in 1 .. Len(pending) : feed'[i] = pending[i]
      BY <1>4, <2>2
    <3> QED
      BY <1>4, <3>1, <3>2
  <2> QED
    BY <2>1, <2>2 DEF SetRow
<1> QED
  BY <1>7, <1>8 DEF FeedTells, Tells, TellsNext

\* A step that writes no row, and adds nothing to the feed.
LEMMA NothingTold ==
    ASSUME TypeOK, DisksGo, RowsTell, FeedTells, feed' = feed \/ (feed # <<>> /\ feed' = Tail(feed)),
           NEW e \in Desktops, status' = status \/ status' = [status EXCEPT ![e] = Gone]
    PROVE  RowsTell' /\ FeedTells'
<1>1. status \in [Desktops -> Statuses \cup {Gone}] /\ feed \in Seq(ChangesOfRows)
  BY DEF TypeOK
<1>2. \A d \in Desktops : TellsNext(d, status[d])
  BY TellsLater DEF RowsTell
<1>3. \A i \in 1 .. Len(feed) : TellsNext(feed[i].id, feed[i].old) /\ TellsNext(feed[i].id, feed[i].new)
  <2>1. \A i \in 1 .. Len(feed) : feed[i] \in ChangesOfRows
    BY <1>1
  <2>2. \A i \in 1 .. Len(feed) : feed[i].id \in Desktops
    BY <2>1 DEF ChangesOfRows
  <2> QED
    BY <2>2, TellsLater DEF FeedTells
<1>4. RowsTell'
  BY <1>1, <1>2 DEF RowsTell, Tells, TellsNext, Gone
<1>5. CASE feed' = feed
  BY <1>3, <1>4, <1>5 DEF FeedTells, Tells, TellsNext
<1>6. CASE feed # <<>> /\ feed' = Tail(feed)
  <2>1. /\ Len(feed) \in Nat /\ Len(feed) = Len(feed') + 1
        /\ \A i \in 1 .. Len(feed') : feed'[i] = feed[i + 1] /\ i + 1 \in 1 .. Len(feed)
    BY <1>1, <1>6
  <2> QED
    BY <1>3, <1>4, <2>1 DEF FeedTells, Tells, TellsNext
<1> QED
  BY <1>5, <1>6

LEMMA DoTells ==
    ASSUME TypeOK, DisksGo, JobsTell, NEW t \in Threads, NEW j, Do(t, j) \/ UNCHANGED job,
           j.step = "write" => TellsNext(j.id, j.to)
    PROVE  JobsTell'
<1>1. job \in [Threads -> Jobs]
  BY DEF TypeOK
<1>2. \A u \in Threads : job[u].step = "write" => TellsNext(job[u].id, job[u].to)
  BY WaitingWrite, TellsLater DEF JobsTell
<1>3. \A u \in Threads : job'[u] = job[u] \/ job'[u] = j
  BY <1>1 DEF Do
<1>4. \A u \in Threads : job'[u].step = "write" => TellsNext(job'[u].id, job'[u].to)
  BY <1>2, <1>3
<1> QED
  BY <1>4 DEF JobsTell, Tells, TellsNext

\* What a queue holds it holds when another action joins it.
LEMMA HoldsPut ==
    ASSUME NEW q \in [Hyps -> Seq(ActionsOfWorkers)], NEW h \in Hyps, NEW a \in ActionsOfWorkers, NEW d,
           HoldsDelete(q, d) \/ (a.type = "delete_disk" /\ a.id = d)
    PROVE  HoldsDelete([q EXCEPT ![h] = Put(@, a)], d)
<1> DEFINE r == [q EXCEPT ![h] = Put(@, a)]
<1>1. q[h] \in Seq(ActionsOfWorkers) /\ Len(q[h]) \in Nat
  OBVIOUS
<1>2. PICK k \in 1 .. Len(q[h]) + 1 :
             /\ Put(q[h], a) \in Seq(ActionsOfWorkers) /\ Len(Put(q[h], a)) = Len(q[h]) + 1
             /\ Put(q[h], a)[k] = a
             /\ \A i \in 1 .. Len(q[h]) + 1 : i < k => Put(q[h], a)[i] = q[h][i]
             /\ \A i \in 1 .. Len(q[h]) + 1 : i > k => Put(q[h], a)[i] = q[h][i - 1]
  BY <1>1, PutInserts
<1>3. r[h] = Put(q[h], a) /\ \A g \in Hyps : g # h => r[g] = q[g]
  OBVIOUS
<1> HIDE DEF r
<1>4. CASE a.type = "delete_disk" /\ a.id = d
  BY <1>2, <1>3, <1>4 DEF HoldsDelete, r
<1>5. ASSUME NEW g \in Hyps, NEW i \in 1 .. Len(q[g]), q[g][i].id = d, q[g][i].type = "delete_disk"
      PROVE  HoldsDelete(r, d)
  <2>1. CASE g # h
    BY <1>3, <1>5, <2>1 DEF HoldsDelete
  <2>2. CASE g = h /\ i < k
    <3>1. i \in 1 .. Len(r[h]) /\ r[h][i] = q[h][i]
      BY <1>1, <1>2, <1>3, <2>2
    <3> QED
      BY <1>5, <2>2, <3>1 DEF HoldsDelete
  <2>3. CASE g = h /\ ~ (i < k)
    <3>1. i + 1 \in 1 .. Len(q[h]) + 1 /\ i + 1 > k /\ (i + 1) - 1 = i
      BY <1>1, <2>3
    <3>2. i + 1 \in 1 .. Len(r[h]) /\ r[h][i + 1] = q[h][i]
      BY <1>2, <1>3, <3>1
    <3> QED
      BY <1>5, <2>3, <3>2 DEF HoldsDelete
  <2> QED
    BY <2>1, <2>2, <2>3
<1> QED
  BY <1>4, <1>5 DEF HoldsDelete, r

\* A worker takes the head of its queue: the deletion of d's disk, or what is held stays.
LEMMA HoldsPopped ==
    ASSUME NEW q \in [Hyps -> Seq(ActionsOfWorkers)], NEW h \in Hyps, q[h] # <<>>, NEW d, HoldsDelete(q, d)
    PROVE  \/ HoldsDelete([q EXCEPT ![h] = Tail(@)], d)
           \/ Head(q[h]).id = d /\ Head(q[h]).type = "delete_disk"
<1> DEFINE r == [q EXCEPT ![h] = Tail(@)]
<1>1. /\ q[h] \in Seq(ActionsOfWorkers) /\ Len(q[h]) \in Nat /\ Len(q[h]) = Len(Tail(q[h])) + 1
      /\ Head(q[h]) = q[h][1]
      /\ \A i \in 1 .. Len(Tail(q[h])) : Tail(q[h])[i] = q[h][i + 1]
  OBVIOUS
<1>2. r[h] = Tail(q[h]) /\ \A g \in Hyps : g # h => r[g] = q[g]
  OBVIOUS
<1> HIDE DEF r
<1>3. PICK g \in Hyps : \E i \in 1 .. Len(q[g]) : q[g][i].id = d /\ q[g][i].type = "delete_disk"
  BY DEF HoldsDelete
<1> PICK i \in 1 .. Len(q[g]) : q[g][i].id = d /\ q[g][i].type = "delete_disk"
  BY <1>3
<1>4. CASE g # h
  BY <1>2, <1>3, <1>4 DEF HoldsDelete, r
<1>5. CASE g = h /\ i = 1
  BY <1>1, <1>3, <1>5
<1>6. CASE g = h /\ i # 1
  <2>1. i - 1 \in 1 .. Len(r[h]) /\ (i - 1) + 1 = i /\ i - 1 \in 1 .. Len(Tail(q[h]))
    BY <1>1, <1>2, <1>6
  <2>2. r[h][i - 1] = q[h][i]
    BY <1>1, <1>2, <2>1
  <2> QED
    BY <1>3, <1>6, <2>1, <2>2 DEF HoldsDelete, r
<1> QED
  BY <1>4, <1>5, <1>6

\* No row is removed, and what the queues hold they still hold.
LEMMA RemovedStays ==
    ASSUME DisksFollow, DisksGo,
           \A d \in Desktops : status'[d] = Gone /\ disk'[d] => status[d] = Gone,
           \A d \in Desktops : disk'[d] /\ HoldsDelete(queue, d) => HoldsDelete(queue', d)
    PROVE  DisksFollow'
  BY DEF DisksFollow, DisksGo, HoldsDelete

LEMMA InitRemoved == Init => RemovedInv
  BY DEF Init, RemovedInv, Undisturbed, RowsTell, FeedTells, JobsTell, Tells,
         DisksFollow, Idle, Gone

\* Every step that draws on a bound notes it.
LEMMA StepSpends ==
    ASSUME [Next]_vars
    PROVE  UNCHANGED budget \/ \E what \in {"requests", "faults", "guest", "restarts"} : Spend(what)
<1>1. Api \/ EngineRestarts \/ (\E h \in Hyps, d \in Desktops : GuestChanges(h, d))
        => \E what \in {"requests", "guest", "restarts"} : UNCHANGED budget \/ Spend(what)
  BY DEF Api, ApiWrites, ApiReads, ApiBulk, EngineRestarts, GuestChanges
<1>2. Changes(Head(feed)) => UNCHANGED budget \/ Spend("faults")
  BY DEF Changes, RevertChange, HandleStart, HandleStopping, HandleDelete, HandleDiskDeleted,
         HandleForceDeleting, SkipChange, ChangesRest, users
<1>3. \A h \in Hyps : Worker(h) => UNCHANGED budget \/ Spend("faults")
  BY DEF Worker, WorkerStartsDomain, WorkerShutsDown, WorkerStopsDomain, WorkerDeletesDisk
<1>4. \A h \in Hyps : EventCallback(h) => UNCHANGED budget
  BY DEF EventCallback, users
<1>5. (\E t \in Threads : Writes(t)) \/ Broom => UNCHANGED budget
  BY DEF Writes, UpdateDomainStatus, RemoveFieldsWhenStopped, Broom, BroomLists, BroomPolls,
         BroomRepairs, users
<1>6. Boots => UNCHANGED budget
  BY DEF Boots, EngineCleans, EngineSubscribes, LaunchesWorker, WorkerGoesOnline, EventsListen,
         OrchestratorBuries, WorkerChecksCoherence, users
<1> QED
  BY <1>1, <1>2, <1>3, <1>4, <1>5, <1>6 DEF Next, vars

\* In a step after which it is calm, nothing fails or restarts, and it was calm before.
LEMMA CalmBefore ==
    ASSUME TypeOK, [Next]_vars, Calm'
    PROVE  Calm /\ ~ Spend("faults") /\ ~ Spend("restarts")
<1>1. budget \in Budgets
  BY DEF TypeOK
<1>2. ASSUME NEW what \in {"requests", "faults", "guest", "restarts"}, Spend(what)
      PROVE  budget'.spent = budget.spent \cup {what}
  BY <1>1, <1>2 DEF Spend, Budgets
<1> QED
  BY <1>2, StepSpends DEF Calm

LEMMA ApiRemoved ==
    ASSUME TypeOK, RemovedInv, Api
    PROVE  RemovedInv'
<1> USE DEF RemovedInv
<1>1. UNCHANGED <<disk, engine, worker, queue, job>>
  BY DEF Api, ApiWrites, ApiReads, ApiBulk, libvirt, threads
<1>2. DisksGo /\ JobsTell'
  BY <1>1 DEF DisksGo, JobsTell, Tells
<1>4. Undisturbed'
  BY <1>1 DEF Undisturbed
<1>5. \/ UNCHANGED <<status, feed>>
      \/ \E e \in Desktops : \E new \in Statuses \ {"DiskDeleted"} : \E h : SetRow(e, new, h, feed)
  <2>1. ASSUME NEW c \in Clients, ApiWrites(c)
        PROVE  \E e \in Desktops : \E new \in Statuses \ {"DiskDeleted"} : \E h : SetRow(e, new, h, feed)
    <3>1. request[c].id \in Desktops /\ request[c].to \in Statuses \ {"DiskDeleted"}
      <4>1. request[c] \in Requests /\ request[c] # NoRequest
        BY <2>1 DEF TypeOK, ApiWrites
      <4> QED
        BY <4>1 DEF Requests, NoRequest, Statuses
    <3> QED
      BY <2>1, <3>1 DEF ApiWrites
  <2>2. ASSUME NEW d \in Desktops, ApiBulk(d)
        PROVE  \E e \in Desktops : \E new \in Statuses \ {"DiskDeleted"} : \E h : SetRow(e, new, h, feed)
    <3>1. PICK x \in BulkDecisions : SetRow(d, x[3], hyp_started[d], feed)
      BY <2>2 DEF ApiBulk
    <3>2. x[3] \in Statuses \ {"DiskDeleted"}
      BY DEF BulkDecisions, Statuses
    <3> QED
      BY <3>1, <3>2
  <2>3. ASSUME NEW c \in Clients, NEW d \in Desktops, ApiReads(c, d)
        PROVE  UNCHANGED <<status, feed>>
    BY <2>3 DEF ApiReads, rows
  <2> QED
    BY <2>1, <2>2, <2>3 DEF Api
<1>6. CASE UNCHANGED <<status, feed>>
  BY <1>1, <1>2, <1>4, <1>6, RemovedStays DEF RowsTell, FeedTells, Tells, HoldsDelete
<1>7. ASSUME NEW e \in Desktops, NEW new \in Statuses \ {"DiskDeleted"}, NEW h, SetRow(e, new, h, feed)
      PROVE  RemovedInv'
  <2>1. /\ RowsTell' /\ FeedTells'
        /\ \A d \in Desktops : status'[d] = Gone => status[d] = Gone
    BY <1>2, <1>7, SetRowTells DEF TellsNext
  <2>2. DisksFollow'
    BY <1>1, <1>2, <2>1, RemovedStays
  <2> QED
    BY <1>2, <1>4, <2>1, <2>2
<1> QED
  BY <1>5, <1>6, <1>7

LEMMA ChangesRemoved ==
    ASSUME TypeOK, RemovedInv, feed # <<>>, Changes(Head(feed)), ~ Spend("faults")
    PROVE  RemovedInv'
<1> USE DEF RemovedInv
<1> DEFINE c == Head(feed)
<1>1. c.id \in Desktops /\ c.old \in Statuses /\ c.new \in Statuses /\ "changes" \in Threads
  BY HeadOfFeed DEF Threads
<1>2. Tells(c.id, c.old) /\ Tells(c.id, c.new)
  <2>1. feed \in Seq(ChangesOfRows)
    BY DEF TypeOK
  <2>2. 1 \in 1 .. Len(feed) /\ c = feed[1]
    BY <2>1
  <2> QED
    BY <2>2 DEF FeedTells
<1> HIDE DEF c
<1>3. UNCHANGED <<disk, engine, worker>>
  BY DEF Changes, RevertChange, HandleStart, HandleStopping, HandleDelete, HandleDiskDeleted,
         HandleForceDeleting, SkipChange, ChangesRest, libvirt
<1>4. DisksGo /\ \A d \in Desktops : disk'[d] = disk[d]
  BY <1>3 DEF DisksGo
<1>6. UNCHANGED job => JobsTell'
  BY <1>3 DEF JobsTell, Tells
<1>7. Undisturbed'
  BY <1>3 DEF Undisturbed
<1>8. TellsNext(c.id, c.old) /\ TellsNext(c.id, c.new)
  BY <1>1, <1>2, <1>4, TellsLater
<1>9. queue \in [Hyps -> Seq(ActionsOfWorkers)]
  BY DEF TypeOK
<1>10. \A type \in {"stop_domain", "start_domain", "shutdown_domain", "delete_disk"}, keep \in BOOLEAN :
          Action(type, c.id, keep) \in ActionsOfWorkers
  BY <1>1, ActionTyped
<1>11. feed' = Tail(feed) /\ (UNCHANGED status \/ status' = [status EXCEPT ![c.id] = Gone])
         => RowsTell' /\ FeedTells'
  BY <1>1, <1>4, NothingTold
\* The queues only grow, and no row is removed.
<1>12. ASSUME \/ queue' = queue
              \/ \E h \in Hyps, a \in ActionsOfWorkers : queue' = [queue EXCEPT ![h] = Put(@, a)],
              \A d \in Desktops : status'[d] = Gone => status[d] = Gone
       PROVE  DisksFollow'
  <2>1. ASSUME NEW h \in Hyps, NEW a \in ActionsOfWorkers, queue' = [queue EXCEPT ![h] = Put(@, a)]
        PROVE  \A d \in Desktops : HoldsDelete(queue, d) => HoldsDelete(queue', d)
    BY <1>9, <2>1, HoldsPut
  <2>2. \A d \in Desktops : HoldsDelete(queue, d) => HoldsDelete(queue', d)
    BY <1>12, <2>1
  <2> QED
    BY <1>4, <1>12, <2>2, RemovedStays
<1>13. ASSUME RevertChange(c) PROVE RemovedInv'
  <2>1. UNCHANGED queue
    BY <1>13 DEF RevertChange
  <2>2. CASE feed' = Tail(feed) /\ UNCHANGED <<status, hyp_started, job>>
    BY <1>1, <1>4, <1>7, <1>12, <2>1, <2>2, <1>6, <1>11
  <2>3. CASE SetRow(c.id, c.old, NoHyp, Tail(feed)) /\ Do("changes", AfterWrite(c.id, c.old))
    <3>1. RowsTell' /\ FeedTells' /\ \A d \in Desktops : status'[d] = Gone => status[d] = Gone
      BY <1>1, <1>4, <1>8, <2>3, SetRowTells
    <3>2. JobsTell'
      BY <1>1, <1>4, <2>3, DoTells, FreeToWrite
    <3> QED
      BY <1>7, <1>12, <2>1, <3>1, <3>2
  <2> QED
    BY <1>13, <2>2, <2>3 DEF RevertChange
<1>14. ASSUME HandleStart(c) PROVE RemovedInv'
  <2>1. CASE UNCHANGED <<status, job>> /\ feed' = Tail(feed)
             /\ \E h \in Online : queue' = [queue EXCEPT ![h] = Put(@, Action("start_domain", c.id, FALSE))]
    BY <1>1, <1>4, <1>7, <1>10, <1>12, <2>1, <1>6, <1>11 DEF Online
  <2>2. CASE SetRow(c.id, "Failed", NoHyp, Tail(feed)) /\ Do("changes", AfterWrite(c.id, "Failed"))
             /\ UNCHANGED queue
    <3>1. TellsNext(c.id, "Failed") /\ "Failed" \in Statuses
      BY DEF TellsNext, Statuses
    <3>2. RowsTell' /\ FeedTells' /\ \A d \in Desktops : status'[d] = Gone => status[d] = Gone
      BY <1>1, <1>4, <2>2, <3>1, SetRowTells
    <3>3. JobsTell'
      BY <1>1, <1>4, <2>2, DoTells, FreeToWrite
    <3> QED
      BY <1>7, <1>12, <2>2, <3>2, <3>3
  <2> QED
    BY <1>14, <2>1, <2>2 DEF HandleStart
<1>15. ASSUME HandleStopping(c) PROVE RemovedInv'
  <2>1. UNCHANGED <<status, job>> /\ feed' = Tail(feed)
    BY <1>15 DEF HandleStopping, c
  <2>2. \/ queue' = queue
        \/ \E h \in Hyps, type \in {"stop_domain", "shutdown_domain"} :
              queue' = [queue EXCEPT ![h] = Put(@, Action(type, c.id, FALSE))]
    BY <1>1, <1>15 DEF HandleStopping, TypeOK, HypsStarted
  <2> QED
    BY <1>1, <1>4, <1>7, <1>10, <1>12, <2>1, <2>2, <1>6, <1>11
<1>16. ASSUME HandleDelete(c) PROVE RemovedInv'
  <2>1. UNCHANGED job
    BY <1>16 DEF HandleDelete
  <2>2. ASSUME NEW h \in Hyps, SetRow(c.id, "DeletingDomainDisk", h, Tail(feed)),
               queue' = [queue EXCEPT ![h] = Put(@, Action("delete_disk", c.id, FALSE))]
        PROVE  RemovedInv'
    <3>1. TellsNext(c.id, "DeletingDomainDisk") /\ "DeletingDomainDisk" \in Statuses
      BY DEF TellsNext, Statuses
    <3>2. RowsTell' /\ FeedTells' /\ \A d \in Desktops : status'[d] = Gone => status[d] = Gone
      BY <1>1, <1>4, <2>2, <3>1, SetRowTells
    <3> QED
      BY <1>4, <1>7, <1>10, <1>12, <2>1, <2>2, <3>2, <1>6
  <2>3. CASE feed' = Tail(feed) /\ UNCHANGED <<status, queue>>
    BY <1>1, <1>4, <1>7, <1>12, <2>1, <2>3, <1>6, <1>11
  <2> QED
    BY <1>16, <2>2, <2>3 DEF HandleDelete, Online
<1>17. ASSUME HandleDiskDeleted(c) PROVE RemovedInv'
  <2>1. UNCHANGED <<job, queue>> /\ feed' = Tail(feed) /\ status' = [status EXCEPT ![c.id] = Gone]
    BY <1>17 DEF HandleDiskDeleted, RemoveRow, c
  <2>2. ~ disk[c.id]
    BY <1>2, <1>17 DEF HandleDiskDeleted, IsRemove, Tells
  <2>3. \A d \in Desktops : status'[d] = Gone /\ disk'[d] => status[d] = Gone
    BY <1>3, <2>1, <2>2 DEF TypeOK
  <2>4. DisksFollow'
    BY <1>4, <2>1, <2>3, RemovedStays
  <2> QED
    BY <1>1, <1>4, <1>7, <2>1, <2>4, <1>6, <1>11
<1>18. ASSUME HandleForceDeleting(c) PROVE RemovedInv'
  <2>1. UNCHANGED job /\ feed' = Tail(feed) /\ Online # {}
    BY <1>18 DEF HandleForceDeleting, c, Acts, ActionsEnabled, Online, Undisturbed
  <2>2. CASE UNCHANGED <<status, queue>>
    BY <1>1, <1>4, <1>7, <1>12, <2>1, <2>2, <1>6, <1>11
  <2>3. ASSUME NEW stopped, NEW g \in Hyps,
               \/ stopped = queue
               \/ \E h \in Hyps : stopped = [queue EXCEPT ![h] = Put(@, Action("stop_domain", c.id, TRUE))],
               queue' = [stopped EXCEPT ![g] = Put(@, Action("delete_disk", c.id, TRUE))],
               RemoveRow(c.id)
        PROVE  RemovedInv'
    <3>1. /\ stopped \in [Hyps -> Seq(ActionsOfWorkers)]
          /\ \A d \in Desktops : HoldsDelete(queue, d) => HoldsDelete(stopped, d)
      <4>1. ASSUME NEW h \in Hyps, stopped = [queue EXCEPT ![h] = Put(@, Action("stop_domain", c.id, TRUE))]
            PROVE  /\ stopped \in [Hyps -> Seq(ActionsOfWorkers)]
                   /\ \A d \in Desktops : HoldsDelete(queue, d) => HoldsDelete(stopped, d)
        BY <1>9, <1>10, <4>1, QueueTyped, HoldsPut
      <4> QED
        BY <1>9, <2>3, <4>1
    <3>2. Action("delete_disk", c.id, TRUE).type = "delete_disk" /\ Action("delete_disk", c.id, TRUE).id = c.id
      BY DEF Action
    <3>3. \A d \in Desktops : HoldsDelete(queue, d) \/ d = c.id => HoldsDelete(queue', d)
      <4> DEFINE a == Action("delete_disk", c.id, TRUE)
      <4>1. a \in ActionsOfWorkers
        BY <1>10
      <4>2. a.type = "delete_disk" /\ a.id = c.id /\ queue' = [stopped EXCEPT ![g] = Put(@, a)]
        BY <2>3, <3>2
      <4> HIDE DEF a
      <4> QED
        BY <3>1, <4>1, <4>2, HoldsPut
    <3>4. status' = [status EXCEPT ![c.id] = Gone]
      BY <2>3 DEF RemoveRow
    <3>5. DisksFollow'
      <4>1. \A d \in Desktops : status'[d] = Gone => status[d] = Gone \/ d = c.id
        BY <3>4 DEF TypeOK
      <4>2. \A d \in Desktops : status'[d] = Gone /\ disk'[d] => HoldsDelete(queue', d)
        BY <1>4, <3>3, <4>1 DEF DisksFollow, HoldsDelete
      <4> QED
        BY <4>2 DEF DisksFollow, HoldsDelete
    <3> QED
      BY <1>1, <1>4, <1>7, <2>1, <3>4, <3>5, <1>6, <1>11
  <2>4. hyp_started[c.id] \in Hyps \cup {NoHyp, Blank}
    BY <1>1 DEF TypeOK, HypsStarted
  <2> QED
    BY <1>18, <2>1, <2>2, <2>3, <2>4 DEF HandleForceDeleting, Online
<1>19. ASSUME SkipChange(c) PROVE RemovedInv'
  <2>1. UNCHANGED <<status, queue, job>> /\ feed' = Tail(feed)
    BY <1>19 DEF SkipChange, c
  <2> QED
    BY <1>1, <1>4, <1>7, <1>12, <2>1, <1>6, <1>11
<1> QED
  BY <1>13, <1>14, <1>15, <1>16, <1>17, <1>18, <1>19 DEF Changes, c

LEMMA WorkerRemoved ==
    ASSUME TypeOK, RemovedInv, NEW h \in Hyps, Worker(h), ~ Spend("faults")
    PROVE  RemovedInv'
<1> USE DEF RemovedInv
<1> DEFINE a == Head(queue[h])
<1>1. /\ queue[h] # <<>> /\ queue' = [queue EXCEPT ![h] = Tail(@)]
      /\ UNCHANGED <<status, feed, engine, worker>>
  BY DEF Worker, WorkerStartsDomain, WorkerShutsDown, WorkerStopsDomain, WorkerDeletesDisk, Runs, Pop,
         WorkerRest, rows
<1>2. /\ queue \in [Hyps -> Seq(ActionsOfWorkers)] /\ a.id \in Desktops /\ dom_id[h] \subseteq Desktops
      /\ h \in Threads /\ disk \in [Desktops -> BOOLEAN]
  BY <1>1, HeadOfQueue DEF TypeOK, Threads
<1>5. Undisturbed'
  BY <1>1 DEF Undisturbed
<1>6. \/ UNCHANGED disk /\ a.type # "delete_disk"
      \/ a.type = "delete_disk" /\ disk' = [disk EXCEPT ![a.id] = FALSE]
  BY DEF Worker, WorkerStartsDomain, WorkerShutsDown, WorkerStopsDomain, WorkerDeletesDisk, Runs, libvirt
<1>7. \/ Do(h, Idle) \/ Do(h, Dead)
      \/ \E e \in Desktops, s \in {"Started", "Failed", "Shutting-down", "Stopped"} :
            \E g : Do(h, Write(e, s, g))
      \/ a.type = "delete_disk" /\ Do(h, Write(a.id, "DiskDeleted", NoHyp))
  <2>1. WorkerStartsDomain(h) => \/ Do(h, Dead)
                                 \/ \E e \in Desktops, s \in {"Started", "Failed"} : Do(h, Write(e, s, h))
    BY <1>2 DEF WorkerStartsDomain
  <2>2. WorkerShutsDown(h) => Do(h, Idle) \/ Do(h, Write(a.id, "Shutting-down", h))
    BY DEF WorkerShutsDown
  <2>3. WorkerStopsDomain(h) => Do(h, Idle) \/ Do(h, Write(a.id, "Stopped", Blank)) \/ Do(h, Write(a.id, "Failed", h))
    BY DEF WorkerStopsDomain
  <2>4. WorkerDeletesDisk(h) => a.type = "delete_disk" /\ (Do(h, Idle) \/ Do(h, Write(a.id, "DiskDeleted", NoHyp)))
    BY DEF WorkerDeletesDisk, Runs
  <2> HIDE DEF a
  <2> QED
    BY <1>2, <2>1, <2>2, <2>3, <2>4 DEF Worker
<1>8. \A d \in Desktops : HoldsDelete(queue, d) =>
           HoldsDelete(queue', d) \/ (a.id = d /\ a.type = "delete_disk")
  BY <1>1, <1>2, HoldsPopped
<1> HIDE DEF a
<1>9. DisksGo
  BY <1>2, <1>6 DEF DisksGo
<1>10. RowsTell' /\ FeedTells'
  BY <1>1, <1>2, <1>9, NothingTold
<1>11. JobsTell'
  <2>1. CASE Do(h, Idle) \/ Do(h, Dead)
    BY <1>2, <1>9, <2>1, DoTells, FreeToWrite
  <2>2. ASSUME NEW e \in Desktops, NEW s \in {"Started", "Failed", "Shutting-down", "Stopped"}, NEW g,
               Do(h, Write(e, s, g))
        PROVE  JobsTell'
    <3>1. TellsNext(e, s)
      BY DEF TellsNext
    <3> QED
      BY <1>2, <1>9, <2>2, <3>1, DoTells, FreeToWrite
  <2>3. CASE a.type = "delete_disk" /\ Do(h, Write(a.id, "DiskDeleted", NoHyp))
    <3>1. TellsNext(a.id, "DiskDeleted")
      BY <1>2, <1>6, <2>3 DEF TellsNext
    <3> QED
      BY <1>2, <1>9, <2>3, <3>1, DoTells, FreeToWrite
  <2> QED
    BY <1>7, <2>1, <2>2, <2>3
<1>12. DisksFollow'
  <2>1. \A d \in Desktops : disk'[d] /\ HoldsDelete(queue, d) => HoldsDelete(queue', d)
    BY <1>2, <1>6, <1>8
  <2> QED
    BY <1>1, <1>9, <2>1, RemovedStays
<1> QED
  BY <1>5, <1>10, <1>11, <1>12

\* A step that changes neither rows nor queues nor disks.
LEMMA QuietRemoved ==
    ASSUME TypeOK, RemovedInv, UNCHANGED <<status, feed, disk, engine, worker, queue>>,
           NEW t \in Threads, NEW j, Do(t, j) \/ UNCHANGED job,
           j.step = "write" => j.to # "DiskDeleted"
    PROVE  RemovedInv'
<1> USE DEF RemovedInv
<1>1. DisksGo
  BY DEF DisksGo
<1>2. Undisturbed'
  BY DEF Undisturbed
<1>3. JobsTell'
  BY <1>1, DoTells DEF TellsNext
<1>4. RowsTell' /\ FeedTells'
  BY DEF RowsTell, FeedTells, Tells
<1>5. DisksFollow'
  BY <1>1, RemovedStays
<1> QED
  BY <1>2, <1>3, <1>4, <1>5

LEMMA WritesRemoved ==
    ASSUME TypeOK, RemovedInv, NEW t \in Threads, Writes(t)
    PROVE  RemovedInv'
<1> USE DEF RemovedInv
<1>1. CASE UpdateDomainStatus(t)
  <2>1. /\ UNCHANGED <<disk, engine, queue>> /\ job[t].step = "write"
        /\ SetRow(job[t].id, job[t].to, job[t].hyp, feed)
        /\ Do(t, Dead) \/ Do(t, AfterWrite(job[t].id, job[t].to))
        /\ worker' = worker \/ (t \in Hyps /\ worker[t] = "launched")
    BY <1>1 DEF UpdateDomainStatus, libvirt, users
  <2>2. job[t].id \in Desktops /\ job[t].to \in Statuses
    BY <2>1, WaitingWrite
  <2>3. DisksGo /\ TellsNext(job[t].id, job[t].to)
    BY <2>1 DEF DisksGo, JobsTell, Tells, TellsNext
  <2>4. RowsTell' /\ FeedTells' /\ \A d \in Desktops : status'[d] = Gone => status[d] = Gone
    BY <2>1, <2>2, <2>3, SetRowTells
  <2>5. JobsTell'
    BY <2>1, <2>2, <2>3, DoTells, FreeToWrite
  <2>6. Undisturbed'
    BY <2>1 DEF Undisturbed
  <2>7. DisksFollow'
    BY <2>1, <2>3, <2>4, RemovedStays
  <2> QED
    BY <2>4, <2>5, <2>6, <2>7
<1>2. CASE RemoveFieldsWhenStopped(t)
  <2>1. UNCHANGED <<status, feed, disk, engine, worker, queue>> /\ Do(t, Idle)
    BY <1>2 DEF RemoveFieldsWhenStopped, libvirt, users
  <2> QED
    BY <2>1, QuietRemoved, FreeToWrite
<1> QED
  BY <1>1, <1>2 DEF Writes

LEMMA BroomRemoved ==
    ASSUME TypeOK, RemovedInv, Broom
    PROVE  RemovedInv'
<1>1. UNCHANGED <<status, feed, disk, engine, worker, queue>>
  BY DEF Broom, BroomLists, BroomPolls, BroomRepairs, rows, libvirt, threads, users
<1>2. \/ UNCHANGED job
      \/ \E r \in broom.todo : r.step = "write" /\ (Do("broom", r) \/ Do("broom", [r EXCEPT !.hyp = hyp_started[r.id]]))
  BY DEF Broom, BroomLists, BroomPolls, BroomRepairs, threads
<1>3. \A r \in broom.todo : r.step = "write" => r.to # "DiskDeleted" /\ [r EXCEPT !.hyp = hyp_started[r.id]].to = r.to
  BY ZenonT(60) DEF TypeOK, RepairsOfRows
<1>4. "broom" \in Threads /\ Idle.step # "write"
  BY DEF Threads, Idle
<1>5. CASE UNCHANGED job
  BY <1>1, <1>4, <1>5, QuietRemoved
<1>6. ASSUME NEW r \in broom.todo, r.step = "write",
             Do("broom", r) \/ Do("broom", [r EXCEPT !.hyp = hyp_started[r.id]])
      PROVE  RemovedInv'
  BY <1>1, <1>3, <1>4, <1>6, QuietRemoved
<1> QED
  BY <1>2, <1>5, <1>6

LEMMA EventRemoved ==
    ASSUME TypeOK, RemovedInv, NEW h \in Hyps, EventCallback(h)
    PROVE  RemovedInv'
<1>1. /\ UNCHANGED <<status, feed, disk, engine, worker, queue>> /\ events[h] # <<>>
      /\ Do("events", EventDecision(Head(events[h]), h))
  BY DEF EventCallback, rows, users
<1>2. Head(events[h]).kind # "DiskDeleted"
  <2>1. events[h] \in Seq(EventsOfVms)
    BY DEF TypeOK
  <2>2. Head(events[h]) \in EventsOfVms
    BY <1>1, <2>1
  <2> QED
    BY <2>2 DEF EventsOfVms
<1>3. EventDecision(Head(events[h]), h).step = "write" => EventDecision(Head(events[h]), h).to # "DiskDeleted"
  BY <1>2 DEF EventDecision, Write, Idle
<1>4. "events" \in Threads
  BY DEF Threads
<1> QED
  BY <1>1, <1>3, <1>4, QuietRemoved

LEMMA BootsRemoved ==
    ASSUME TypeOK, RemovedInv, Boots
    PROVE  RemovedInv'
<1>1. \E h \in Hyps : EventsListen(h)
  <2>1. ~ EngineCleans /\ ~ EngineSubscribes
    BY DEF RemovedInv, Undisturbed, EngineCleans, EngineSubscribes
  <2>2. \A h \in Hyps : /\ ~ LaunchesWorker(h) /\ ~ WorkerGoesOnline(h) /\ ~ OrchestratorBuries(h)
                        /\ \A d \in Desktops : ~ WorkerChecksCoherence(h, d)
    BY DEF RemovedInv, Undisturbed, LaunchesWorker, WorkerGoesOnline, OrchestratorBuries, WorkerChecksCoherence
  <2> QED
    BY <2>1, <2>2 DEF Boots
<1>2. UNCHANGED <<status, feed, disk, engine, worker, queue, job>>
  BY <1>1 DEF EventsListen, rows, libvirt, users
<1>3. "events" \in Threads /\ Idle.step # "write"
  BY DEF Threads, Idle
<1> QED
  BY <1>2, <1>3, QuietRemoved

LEMMA NextRemoved == TypeOK /\ (Calm => RemovedInv) /\ [Next]_vars => (Calm => RemovedInv)'
<1> SUFFICES ASSUME TypeOK, Calm => RemovedInv, [Next]_vars, Calm' PROVE RemovedInv'
  OBVIOUS
<1> RemovedInv /\ ~ Spend("faults") /\ ~ Spend("restarts")
  BY CalmBefore
<1>1. "events" \in Threads /\ Idle.step # "write"
  BY DEF Threads, Idle
<1>2. CASE UNCHANGED vars
  <2>1. UNCHANGED <<status, feed, disk, engine, worker, queue, job>>
    BY <1>2 DEF vars
  <2> QED
    BY <1>1, <2>1, QuietRemoved
<1>3. ASSUME NEW h \in Hyps, NEW d \in Desktops, GuestChanges(h, d) PROVE RemovedInv'
  <2>1. UNCHANGED <<status, feed, disk, engine, worker, queue, job>>
    BY <1>3 DEF GuestChanges, rows, threads
  <2> QED
    BY <1>1, <2>1, QuietRemoved
<1>4. ~ EngineRestarts
  BY DEF EngineRestarts
<1> QED
  BY <1>2, <1>3, <1>4, ApiRemoved, ChangesRemoved, WorkerRemoved, EventRemoved, BroomRemoved,
     WritesRemoved, BootsRemoved DEF Next

\* As long as no command of libvirt or ssh fails and the engine is not restarted, no row
\* is removed while its disk stays behind: the disk is gone or a worker has its deletion
\* in its queue, for any number of desktops, workers and requests that overlap.
THEOREM NoDiskIsLeftBehind == Spec => []RemovedWithItsDisk
<1>1. Init => (Calm => RemovedInv)
  BY InitRemoved
<1>2. (Calm => RemovedInv) => RemovedWithItsDisk
  BY DEF RemovedInv, RemovedWithItsDisk
<1> QED
  BY <1>1, <1>2, InitTyped, NextTyped, NextRemoved, PTL DEF Spec

-----------------------------------------------------------------------------
(* The promise is kept                                                      *)

(***************************************************************************)
(* The threads together implement DesktopPromise. What has to be found out *)
(* is that a VM boots only for a start that was asked for and not used: a  *)
(* start is counted wherever it waits, in the feed or in a queue, and      *)
(* while no worker has been online yet, and changes are reverted, so is    *)
(* each time the desktop came to be Starting.                              *)
(***************************************************************************)

StartActions(d) == [type : {"start_domain"}, id : {d}, keep : BOOLEAN]
StartChanges(d) == [id : {d}, old : {"Stopped", "Failed"}, new : {"Starting"}]
ToStarting(d) == [id : {d}, old : Statuses, new : {"Starting"}]

\* The status of d before change i of the feed F, which ends with d in status s, is x.
Was(F, s, d, i, x) ==
    \/ \E k \in i .. Len(F) : /\ F[k].id = d /\ F[k].old = x
                              /\ \A j \in i .. k - 1 : F[j].id # d
    \/ s = x /\ \A j \in i .. Len(F) : F[j].id # d

\* Each change of d begins where the one before it ended, unless the row is gone.
Joined(F, s, d) ==
    \A i \in 1 .. Len(F) : F[i].id = d =>
        \A x \in Statuses : Was(F, s, d, i + 1, x) => x = F[i].new

\* How often the feed tells that d came to be Starting, or finds it so at its beginning.
Visits(F, s, d) ==
    Count(F, ToStarting(d)) + (IF Was(F, s, d, 1, "Starting") THEN 1 ELSE 0)

\* Where the starts of d wait in the workers' queues.
QueuedStarts(q, d) == UNION {{h} \X Places(q[h], StartActions(d)) : h \in Hyps}

Owed(d) == ledger[d].starts - ledger[d].boots

\* An engine that is not up has forgotten everything.
NothingLeft == engine # "up" => feed = <<>> /\ \A h \in Hyps : worker[h] = "none"

\* A start waits only where a worker serves the queue.
StartsServed ==
    \A h \in Hyps : \A i \in 1 .. Len(queue[h]) :
        queue[h][i].type = "start_domain" => worker[h] = "online"

\* No write that a thread is about to do is of Starting.
NoStartWritten == \A t \in Threads : job[t].step = "write" => job[t].to # "Starting"

FeedJoined == \A d \in Desktops : Joined(feed, status[d], d)

\* Every start that can still come of what waits is owed.
Covered(d) ==
    /\ Owed(d) >= 0
    /\ engine # "cleaning" /\ Online = {} => Visits(feed, status[d], d) <= Owed(d)
    /\ Online # {} =>
         Count(feed, StartChanges(d)) + Cardinality(QueuedStarts(queue, d)) <= Owed(d)

PromiseInv ==
    /\ NothingLeft /\ StartsServed /\ NoStartWritten /\ FeedJoined
    /\ \A d \in Desktops : Covered(d)

-----------------------------------------------------------------------------
(* The feed as a list of changes                                            *)

LEMMA WasTail ==
    ASSUME NEW F \in Seq(ChangesOfRows), F # <<>>, NEW s, NEW d, NEW i \in Nat \ {0}, NEW x
    PROVE  Was(Tail(F), s, d, i, x) <=> Was(F, s, d, i + 1, x)
<1> DEFINE G == Tail(F)
<1>1. /\ Len(F) \in Nat /\ Len(F) = Len(G) + 1 /\ Len(G) \in Nat
      /\ \A j \in 1 .. Len(G) : G[j] = F[j + 1]
  OBVIOUS
<1> HIDE DEF G
<1>2. (\A j \in i .. Len(G) : G[j].id # d) <=> (\A j \in i + 1 .. Len(F) : F[j].id # d)
  <2>1. ASSUME \A j \in i .. Len(G) : G[j].id # d, NEW j \in i + 1 .. Len(F)
        PROVE  F[j].id # d
    <3>1. j - 1 \in i .. Len(G) /\ j - 1 \in 1 .. Len(G) /\ (j - 1) + 1 = j
      BY <1>1
    <3> QED
      BY <1>1, <2>1, <3>1
  <2>2. ASSUME \A j \in i + 1 .. Len(F) : F[j].id # d, NEW j \in i .. Len(G)
        PROVE  G[j].id # d
    <3>1. j + 1 \in i + 1 .. Len(F) /\ j \in 1 .. Len(G)
      BY <1>1
    <3> QED
      BY <1>1, <2>2, <3>1
  <2> QED
    BY <2>1, <2>2
<1>3. ASSUME NEW k \in i .. Len(G), G[k].id = d, G[k].old = x, \A j \in i .. k - 1 : G[j].id # d
      PROVE  Was(F, s, d, i + 1, x)
  <2>1. k + 1 \in i + 1 .. Len(F) /\ F[k + 1] = G[k]
    BY <1>1
  <2>2. ASSUME NEW j \in i + 1 .. (k + 1) - 1 PROVE F[j].id # d
    <3>1. j - 1 \in i .. k - 1 /\ j - 1 \in 1 .. Len(G) /\ (j - 1) + 1 = j
      BY <1>1
    <3> QED
      BY <1>1, <1>3, <3>1
  <2> QED
    BY <1>3, <2>1, <2>2 DEF Was
<1>4. ASSUME NEW k \in i + 1 .. Len(F), F[k].id = d, F[k].old = x,
             \A j \in i + 1 .. k - 1 : F[j].id # d
      PROVE  Was(G, s, d, i, x)
  <2>1. k - 1 \in i .. Len(G) /\ k - 1 \in 1 .. Len(G) /\ (k - 1) + 1 = k
    BY <1>1
  <2>2. G[k - 1] = F[k]
    BY <1>1, <2>1
  <2>3. ASSUME NEW j \in i .. (k - 1) - 1 PROVE G[j].id # d
    <3>1. j + 1 \in i + 1 .. k - 1 /\ j \in 1 .. Len(G)
      BY <1>1
    <3> QED
      BY <1>1, <1>4, <3>1
  <2> QED
    BY <1>4, <2>1, <2>2, <2>3 DEF Was
<1>5. Was(G, s, d, i, x) => Was(F, s, d, i + 1, x)
  BY <1>2, <1>3 DEF Was
<1>6. Was(F, s, d, i + 1, x) => Was(G, s, d, i, x)
  BY <1>2, <1>4 DEF Was
<1> QED
  BY <1>5, <1>6 DEF G

LEMMA WasHead ==
    ASSUME NEW F \in Seq(ChangesOfRows), F # <<>>, NEW s, NEW d, NEW x
    PROVE  /\ F[1].id = d => (Was(F, s, d, 1, x) <=> x = F[1].old)
           /\ F[1].id # d => (Was(F, s, d, 1, x) <=> Was(F, s, d, 2, x))
<1>1. Len(F) \in Nat /\ 1 \in 1 .. Len(F)
  OBVIOUS
<1>2. ASSUME F[1].id = d PROVE Was(F, s, d, 1, x) <=> x = F[1].old
  <2>1. ASSUME NEW k \in 1 .. Len(F), \A j \in 1 .. k - 1 : F[j].id # d
        PROVE  k = 1
    <3>1. k # 1 => 1 \in 1 .. k - 1
      BY <1>1
    <3> QED
      BY <1>2, <2>1, <3>1
  <2>2. x = F[1].old => Was(F, s, d, 1, x)
    <3>1. \A j \in 1 .. 1 - 1 : F[j].id # d
      OBVIOUS
    <3> QED
      BY <1>1, <1>2, <3>1 DEF Was
  <2>3. Was(F, s, d, 1, x) => x = F[1].old
    BY <1>1, <1>2, <2>1 DEF Was
  <2> QED
    BY <2>2, <2>3
<1>3. ASSUME F[1].id # d PROVE Was(F, s, d, 1, x) <=> Was(F, s, d, 2, x)
  <2>1. \A m \in Nat : (\A j \in 1 .. m : F[j].id # d) <=> (\A j \in 2 .. m : F[j].id # d)
    <3>1. \A m \in Nat : \A j \in 1 .. m : j = 1 \/ j \in 2 .. m
      OBVIOUS
    <3>2. \A m \in Nat : \A j \in 2 .. m : j \in 1 .. m
      OBVIOUS
    <3> QED
      BY <1>3, <3>1, <3>2
  <2>2. \A k \in 1 .. Len(F) : F[k].id = d => k \in 2 .. Len(F) /\ k - 1 \in Nat
    BY <1>1, <1>3
  <2>3. \A k \in 2 .. Len(F) : k \in 1 .. Len(F) /\ k - 1 \in Nat
    BY <1>1
  <2>4. Was(F, s, d, 1, x) => Was(F, s, d, 2, x)
    BY <1>1, <2>1, <2>2 DEF Was
  <2>5. Was(F, s, d, 2, x) => Was(F, s, d, 1, x)
    BY <1>1, <2>1, <2>3 DEF Was
  <2> QED
    BY <2>4, <2>5
<1> QED
  BY <1>2, <1>3

\* A change is reported: of d, from the status it had, or of another desktop.
LEMMA WasAppend ==
    ASSUME NEW F \in Seq(ChangesOfRows), NEW c \in ChangesOfRows, NEW s, NEW n, NEW d, NEW x,
           c.id = d => c.old = s /\ n = c.new,
           c.id # d => n = s
    PROVE  \A i \in 1 .. Len(F) + 1 : Was(Append(F, c), n, d, i, x) <=> Was(F, s, d, i, x)
<1> DEFINE G == Append(F, c)
           m == Len(F) + 1
<1>1. /\ Len(F) \in Nat /\ Len(G) = m /\ m \in Nat \ {0} /\ m = Len(F) + 1
      /\ G[m] = c /\ \A j \in 1 .. Len(F) : G[j] = F[j]
  OBVIOUS
<1> HIDE DEF G, m
<1>2. ASSUME NEW i \in 1 .. m
      PROVE  Was(G, n, d, i, x) <=> Was(F, s, d, i, x)
  <2>1. \A k \in i .. Len(F) : k \in i .. Len(G) /\ G[k] = F[k] /\ \A j \in i .. k - 1 : G[j] = F[j]
    BY <1>1
  <2>2. \A k \in i .. Len(G) : k \in i .. Len(F) \/ k = m
    BY <1>1
  <2>3. m \in i .. Len(G) /\ \A j \in i .. m - 1 : G[j] = F[j] /\ j \in i .. Len(F)
    BY <1>1
  <2>4. \A j \in i .. Len(F) : j \in i .. m - 1
    BY <1>1
  <2>5. CASE c.id = d
    <3>1. Was(F, s, d, i, x) => Was(G, n, d, i, x)
      <4>1. ASSUME NEW k \in i .. Len(F), F[k].id = d, F[k].old = x, \A j \in i .. k - 1 : F[j].id # d
            PROVE  Was(G, n, d, i, x)
        BY <2>1, <4>1 DEF Was
      <4>2. ASSUME s = x, \A j \in i .. Len(F) : F[j].id # d
            PROVE  Was(G, n, d, i, x)
        <5>1. G[m].id = d /\ G[m].old = x /\ \A j \in i .. m - 1 : G[j].id # d
          BY <1>1, <2>3, <2>5, <4>2
        <5> QED
          BY <2>3, <5>1 DEF Was
      <4> QED
        BY <4>1, <4>2 DEF Was
    <3>2. Was(G, n, d, i, x) => Was(F, s, d, i, x)
      <4>1. ASSUME NEW k \in i .. Len(G), G[k].id = d, G[k].old = x, \A j \in i .. k - 1 : G[j].id # d
            PROVE  Was(F, s, d, i, x)
        <5>1. CASE k \in i .. Len(F)
          BY <2>1, <4>1, <5>1 DEF Was
        <5>2. CASE k = m
          <6>1. s = x
            BY <1>1, <2>5, <4>1, <5>2
          <6>2. \A j \in i .. Len(F) : F[j].id # d
            BY <2>3, <2>4, <4>1, <5>2
          <6> QED
            BY <6>1, <6>2 DEF Was
        <5> QED
          BY <2>2, <5>1, <5>2
      <4>2. ~ \A j \in i .. Len(G) : G[j].id # d
        BY <1>1, <2>3, <2>5
      <4> QED
        BY <4>1, <4>2 DEF Was
    <3> QED
      BY <3>1, <3>2
  <2>6. CASE c.id # d
    <3>1. (\A j \in i .. Len(F) : F[j].id # d) <=> (\A j \in i .. Len(G) : G[j].id # d)
      BY <1>1, <2>1, <2>2, <2>6
    <3>2. Was(F, s, d, i, x) => Was(G, n, d, i, x)
      <4>1. ASSUME NEW k \in i .. Len(F), F[k].id = d, F[k].old = x, \A j \in i .. k - 1 : F[j].id # d
            PROVE  Was(G, n, d, i, x)
        BY <2>1, <4>1 DEF Was
      <4> QED
        BY <2>6, <3>1, <4>1 DEF Was
    <3>3. Was(G, n, d, i, x) => Was(F, s, d, i, x)
      <4>1. ASSUME NEW k \in i .. Len(G), G[k].id = d, G[k].old = x, \A j \in i .. k - 1 : G[j].id # d
            PROVE  Was(F, s, d, i, x)
        <5>1. k \in i .. Len(F)
          BY <1>1, <2>2, <2>6, <4>1
        <5> QED
          BY <2>1, <4>1, <5>1 DEF Was
      <4> QED
        BY <2>6, <3>1, <4>1 DEF Was
    <3> QED
      BY <3>2, <3>3
  <2> QED
    BY <2>5, <2>6
<1> QED
  BY <1>1, <1>2 DEF G

\* After the last change comes what the row has now.
LEMMA WasLast ==
    ASSUME NEW F \in Seq(ChangesOfRows), NEW c \in ChangesOfRows, NEW n, NEW d, NEW x
    PROVE  Was(Append(F, c), n, d, Len(F) + 2, x) <=> x = n
<1> DEFINE G == Append(F, c)
<1>1. Len(F) \in Nat /\ Len(G) = Len(F) + 1
  OBVIOUS
<1> HIDE DEF G
<1>2. \A j \in Len(F) + 2 .. Len(G) : FALSE
  BY <1>1
<1>3. Was(G, n, d, Len(F) + 2, x) <=> x = n
  BY <1>2 DEF Was
<1> QED
  BY <1>3 DEF G

-----------------------------------------------------------------------------
(* How the feed is counted after a step                                     *)

LEMMA VisitsIs ==
    ASSUME NEW F \in Seq(ChangesOfRows), NEW s, NEW d
    PROVE  /\ Visits(F, s, d) \in Nat
           /\ Count(F, StartChanges(d)) \in Nat
           /\ Count(F, StartChanges(d)) <= Visits(F, s, d)
<1>1. Len(F) \in Nat
  OBVIOUS
<1>2. Count(F, ToStarting(d)) \in Nat /\ Count(F, StartChanges(d)) \in Nat
  <2>1. Count(F, ToStarting(d)) \in 0 .. Len(F) /\ Count(F, StartChanges(d)) \in 0 .. Len(F)
    BY CountIs
  <2> QED
    BY <1>1, <2>1
<1>3. StartChanges(d) \subseteq ToStarting(d)
  BY DEF StartChanges, ToStarting, Statuses
<1>4. Count(F, StartChanges(d)) <= Count(F, ToStarting(d))
  BY <1>3, CountSubset
<1> QED
  BY <1>2, <1>4 DEF Visits

\* The change at the head is taken: its desktop is found as the change left it.
LEMMA FeedTaken ==
    ASSUME NEW F \in Seq(ChangesOfRows), F # <<>>, NEW s \in Statuses \cup {Gone}, NEW d, Joined(F, s, d)
    PROVE  /\ Tail(F) \in Seq(ChangesOfRows) /\ Joined(Tail(F), s, d)
           /\ Visits(Tail(F), s, d) + (IF F[1].id = d /\ F[1].old = "Starting" THEN 1 ELSE 0)
                <= Visits(F, s, d)
<1> DEFINE G == Tail(F)
           one == IF Head(F) \in ToStarting(d) THEN 1 ELSE 0
<1>1. /\ G \in Seq(ChangesOfRows) /\ Len(F) \in Nat /\ Len(F) = Len(G) + 1 /\ Len(G) \in Nat
      /\ F[1] = Head(F) /\ 1 \in 1 .. Len(F) /\ F[1] \in ChangesOfRows
      /\ \A j \in 1 .. Len(G) : G[j] = F[j + 1] /\ j + 1 \in 1 .. Len(F)
  OBVIOUS
<1>2. Count(F, ToStarting(d)) = Count(G, ToStarting(d)) + one
  BY CountTail
<1>3. Count(G, ToStarting(d)) \in Nat
  <2>1. Count(G, ToStarting(d)) \in 0 .. Len(G)
    BY <1>1, CountIs
  <2> QED
    BY <1>1, <2>1
<1>4. \A x : Was(G, s, d, 1, x) <=> Was(F, s, d, 2, x)
  <2>1. \A x : Was(G, s, d, 1, x) <=> Was(F, s, d, 1 + 1, x)
    BY WasTail
  <2> QED
    BY <2>1
<1>5. Joined(G, s, d)
  <2>1. ASSUME NEW i \in 1 .. Len(G), G[i].id = d, NEW x \in Statuses, Was(G, s, d, i + 1, x)
        PROVE  x = G[i].new
    <3>1. i + 1 \in 1 .. Len(F) /\ G[i] = F[i + 1] /\ i + 1 \in Nat \ {0}
      BY <1>1
    <3>2. Was(F, s, d, (i + 1) + 1, x)
      BY <2>1, <3>1, WasTail
    <3> QED
      BY <2>1, <3>1, <3>2 DEF Joined
  <2> QED
    BY <2>1 DEF Joined
<1>6. one \in {0, 1}
  OBVIOUS
<1> HIDE DEF G, one
<1>7. CASE F[1].id # d
  <2>1. Was(G, s, d, 1, "Starting") <=> Was(F, s, d, 1, "Starting")
    BY <1>4, <1>7, WasHead
  <2>2. one = 0
    BY <1>1, <1>7 DEF one, ToStarting
  <2> QED
    BY <1>1, <1>2, <1>3, <1>5, <1>7, <2>1, <2>2 DEF Visits, G
<1>8. CASE F[1].id = d
  <2>1. Was(F, s, d, 1, "Starting") <=> F[1].old = "Starting"
    BY <1>8, WasHead
  <2>2. Was(G, s, d, 1, "Starting") => F[1].new = "Starting"
    <3>1. "Starting" \in Statuses /\ 1 + 1 = 2
      BY DEF Statuses
    <3>2. Was(F, s, d, 1 + 1, "Starting") => "Starting" = F[1].new
      BY <1>1, <1>8, <3>1 DEF Joined
    <3> QED
      BY <1>4, <3>1, <3>2
  <2>3. F[1].new = "Starting" => one = 1
    BY <1>1, <1>8 DEF one, ToStarting, ChangesOfRows
  <2>4. Visits(F, s, d) = Count(G, ToStarting(d)) + one + (IF F[1].old = "Starting" THEN 1 ELSE 0)
    BY <1>2, <1>3, <1>6, <2>1 DEF Visits
  <2>5. Visits(G, s, d) <= Count(G, ToStarting(d)) + one
    BY <1>3, <1>6, <2>2, <2>3 DEF Visits
  <2>6. Visits(G, s, d) \in Nat
    BY <1>1, VisitsIs
  <2> QED
    BY <1>1, <1>3, <1>5, <1>6, <1>8, <2>4, <2>5, <2>6 DEF G
<1> QED
  BY <1>7, <1>8

\* A change is reported: one visit more if it is to Starting.
LEMMA FeedReported ==
    ASSUME NEW F \in Seq(ChangesOfRows), NEW c \in ChangesOfRows, NEW s, NEW n, NEW d,
           c.id = d => c.old = s /\ n = c.new,
           c.id # d => n = s,
           Joined(F, s, d)
    PROVE  /\ Append(F, c) \in Seq(ChangesOfRows) /\ Joined(Append(F, c), n, d)
           /\ Visits(Append(F, c), n, d) =
                Visits(F, s, d) + (IF c.id = d /\ c.new = "Starting" THEN 1 ELSE 0)
           /\ Count(Append(F, c), StartChanges(d)) <=
                Count(F, StartChanges(d)) + (IF c.id = d /\ c.new = "Starting" THEN 1 ELSE 0)
<1> DEFINE G == Append(F, c)
           one == IF c.id = d /\ c.new = "Starting" THEN 1 ELSE 0
<1>1. /\ Len(F) \in Nat /\ G \in Seq(ChangesOfRows) /\ Len(G) = Len(F) + 1 /\ G[Len(F) + 1] = c
      /\ \A j \in 1 .. Len(F) : G[j] = F[j]
      /\ 1 \in 1 .. Len(F) + 1
  OBVIOUS
<1>2. \A x : /\ \A i \in 1 .. Len(F) + 1 : Was(G, n, d, i, x) <=> Was(F, s, d, i, x)
             /\ c.id = d => (Was(G, n, d, Len(F) + 2, x) <=> x = n)
  <2> TAKE x
  <2>1. \A i \in 1 .. Len(F) + 1 : Was(G, n, d, i, x) <=> Was(F, s, d, i, x)
    BY WasAppend
  <2>2. Was(G, n, d, Len(F) + 2, x) <=> x = n
    BY WasLast
  <2> QED
    BY <2>1, <2>2
<1>3. Joined(G, n, d)
  <2>1. ASSUME NEW i \in 1 .. Len(G), G[i].id = d, NEW x \in Statuses, Was(G, n, d, i + 1, x)
        PROVE  x = G[i].new
    <3>1. CASE i \in 1 .. Len(F)
      <4>1. i + 1 \in 1 .. Len(F) + 1
        BY <1>1, <3>1
      <4> QED
        BY <1>1, <1>2, <2>1, <3>1, <4>1 DEF Joined
    <3>2. CASE i = Len(F) + 1
      <4>1. i + 1 = Len(F) + 2
        BY <1>1, <3>2
      <4> QED
        BY <1>1, <1>2, <2>1, <3>2, <4>1
    <3> QED
      BY <1>1, <3>1, <3>2
  <2> QED
    BY <2>1 DEF Joined
<1>4. Count(G, ToStarting(d)) = Count(F, ToStarting(d)) + one
  <2>1. c \in ToStarting(d) <=> c.id = d /\ c.new = "Starting"
    BY DEF ToStarting, ChangesOfRows
  <2>2. Count(G, ToStarting(d)) = Count(F, ToStarting(d)) + (IF c \in ToStarting(d) THEN 1 ELSE 0)
    BY CountAppend
  <2> QED
    BY <2>1, <2>2
<1>5. Count(G, StartChanges(d)) <= Count(F, StartChanges(d)) + one
  <2>1. c \in StartChanges(d) => c.id = d /\ c.new = "Starting"
    BY DEF StartChanges, ChangesOfRows
  <2>2. Count(G, StartChanges(d)) = Count(F, StartChanges(d)) + (IF c \in StartChanges(d) THEN 1 ELSE 0)
    BY CountAppend
  <2>3. Count(F, StartChanges(d)) \in Nat
    BY VisitsIs
  <2> QED
    BY <2>1, <2>2, <2>3
<1>6. Was(G, n, d, 1, "Starting") <=> Was(F, s, d, 1, "Starting")
  BY <1>1, <1>2
<1>7. Count(F, ToStarting(d)) \in Nat
  <2>1. Count(F, ToStarting(d)) \in 0 .. Len(F)
    BY CountIs
  <2> QED
    BY <1>1, <2>1
<1>8. one \in {0, 1}
  OBVIOUS
<1> HIDE DEF G, one
<1>9. Visits(G, n, d) = Visits(F, s, d) + one
  BY <1>4, <1>6, <1>7, <1>8 DEF Visits
<1> QED
  BY <1>1, <1>3, <1>5, <1>9 DEF G, one

\* The row is removed.
LEMMA FeedLeft ==
    ASSUME NEW F \in Seq(ChangesOfRows), NEW s, NEW d, Joined(F, s, d)
    PROVE  Joined(F, Gone, d) /\ Visits(F, Gone, d) <= Visits(F, s, d)
<1>1. \A i, x : x \in Statuses /\ Was(F, Gone, d, i, x) => Was(F, s, d, i, x)
  BY DEF Was, Gone, Statuses
<1>2. "Starting" \in Statuses
  BY DEF Statuses
<1>3. Count(F, ToStarting(d)) \in Nat
  <2>1. Count(F, ToStarting(d)) \in 0 .. Len(F) /\ Len(F) \in Nat
    BY CountIs
  <2> QED
    BY <2>1
<1>4. Joined(F, Gone, d)
  BY <1>1 DEF Joined
<1> QED
  BY <1>1, <1>2, <1>3, <1>4 DEF Visits

\* The feed of an engine that is not up: only the status counts.
LEMMA FeedEmpty ==
    ASSUME NEW s, NEW d
    PROVE  /\ Joined(<<>>, s, d)
           /\ Visits(<<>>, s, d) = IF s = "Starting" THEN 1 ELSE 0
           /\ Count(<<>>, StartChanges(d)) = 0
<1>1. Len(<<>>) = 0 /\ \A i : i \notin 1 .. 0
  OBVIOUS
<1>2. Was(<<>>, s, d, 1, "Starting") <=> s = "Starting"
  BY <1>1 DEF Was
<1> QED
  BY <1>1, <1>2, CountEmpty DEF Joined, Visits

\* A write of a row, after the head was taken or not: what is counted grows only if d
\* becomes Starting.
LEMMA RowWritten ==
    ASSUME TypeOK, engine # "up" => feed = <<>>,
           NEW e \in Desktops, NEW new \in Statuses, NEW h, NEW pending \in Seq(ChangesOfRows),
           pending = feed \/ (feed # <<>> /\ pending = Tail(feed)),
           SetRow(e, new, h, pending), NEW d \in Desktops, Joined(pending, status[d], d)
    PROVE  /\ feed' \in Seq(ChangesOfRows) /\ Joined(feed', status'[d], d)
           /\ Visits(feed', status'[d], d) <=
                Visits(pending, status[d], d) + (IF e = d /\ new = "Starting" THEN 1 ELSE 0)
           /\ Count(feed', StartChanges(d)) <=
                Count(pending, StartChanges(d)) + (IF e = d /\ new = "Starting" THEN 1 ELSE 0)
<1> DEFINE one == IF e = d /\ new = "Starting" THEN 1 ELSE 0
           c == [id |-> e, old |-> status[e], new |-> new]
<1>1. status \in [Desktops -> Statuses \cup {Gone}]
  BY DEF TypeOK
<1>2. one \in {0, 1}
  OBVIOUS
<1>3. Visits(pending, status[d], d) \in Nat /\ Count(pending, StartChanges(d)) \in Nat
  BY VisitsIs
<1>4. CASE feed' = pending /\ status'[d] = status[d]
  BY <1>2, <1>3, <1>4
<1>5. CASE engine = "up" /\ status[e] # Gone /\ status[e] # new
  <2>1. status' = [status EXCEPT ![e] = new] /\ feed' = Append(pending, c)
    BY <1>5 DEF SetRow
  <2>2. c \in ChangesOfRows /\ c.id = e /\ c.old = status[e] /\ c.new = new
    BY <1>1, <1>5 DEF ChangesOfRows
  <2>3. /\ c.id = d => c.old = status[d] /\ status'[d] = c.new
        /\ c.id # d => status'[d] = status[d]
    BY <1>1, <2>1, <2>2
  <2> DEFINE s == status[d]
             n == status'[d]
  <2>31. Joined(pending, s, d)
    OBVIOUS
  <2>32. (c.id = d => c.old = s /\ n = c.new) /\ (c.id # d => n = s)
    BY <2>3
  <2> HIDE DEF c, s, n
  <2>4. /\ Append(pending, c) \in Seq(ChangesOfRows)
        /\ Joined(Append(pending, c), n, d)
        /\ Visits(Append(pending, c), n, d) = Visits(pending, s, d)
             + (IF c.id = d /\ c.new = "Starting" THEN 1 ELSE 0)
        /\ Count(Append(pending, c), StartChanges(d)) <= Count(pending, StartChanges(d))
             + (IF c.id = d /\ c.new = "Starting" THEN 1 ELSE 0)
    BY <2>2, <2>31, <2>32, FeedReported
  <2> USE DEF s, n
  <2>5. (IF c.id = d /\ c.new = "Starting" THEN 1 ELSE 0) = one
    BY <2>2
  <2> HIDE DEF one
  <2> QED
    BY <1>2, <1>3, <2>1, <2>4, <2>5 DEF one
<1>6. CASE engine # "up" /\ status[e] # Gone
  <2>1. pending = <<>> /\ feed' = <<>> /\ status' = [status EXCEPT ![e] = new]
    BY <1>6 DEF SetRow
  <2>2. status'[d] = IF e = d THEN new ELSE status[d]
    BY <1>1, <2>1
  <2>3. /\ Joined(<<>>, status'[d], d)
        /\ Visits(<<>>, status'[d], d) = IF status'[d] = "Starting" THEN 1 ELSE 0
        /\ Visits(<<>>, status[d], d) = IF status[d] = "Starting" THEN 1 ELSE 0
        /\ Count(<<>>, StartChanges(d)) = 0
    BY FeedEmpty
  <2> QED
    BY <2>1, <2>2, <2>3
<1>7. engine = "up" /\ status[e] # Gone /\ status[e] = new => feed' = pending /\ status'[d] = status[d]
  BY <1>1 DEF SetRow
<1>8. status[e] = Gone => feed' = pending /\ status'[d] = status[d]
  BY DEF SetRow
<1> QED
  BY <1>4, <1>5, <1>6, <1>7, <1>8

-----------------------------------------------------------------------------
(* How the queues are counted after a step                                  *)

\* The starts of d in one queue.
LEMMA QueuedAtIs ==
    ASSUME NEW q \in [Hyps -> Seq(ActionsOfWorkers)], NEW d, NEW h \in Hyps
    PROVE  /\ IsFiniteSet({h} \X Places(q[h], StartActions(d)))
           /\ Cardinality({h} \X Places(q[h], StartActions(d))) = Count(q[h], StartActions(d))
           /\ Count(q[h], StartActions(d)) \in Nat
<1>1. IsFiniteSet(Places(q[h], StartActions(d))) /\ Count(q[h], StartActions(d)) \in 0 .. Len(q[h])
  BY CountIs
<1>2. IsFiniteSet({h}) /\ Cardinality({h}) = 1
  BY FS_Singleton
<1>3. Count(q[h], StartActions(d)) \in Nat
  BY <1>1
<1>4. /\ IsFiniteSet({h} \X Places(q[h], StartActions(d)))
      /\ Cardinality({h} \X Places(q[h], StartActions(d)))
           = Cardinality({h}) * Cardinality(Places(q[h], StartActions(d)))
  BY <1>1, <1>2, FS_Product
<1> QED
  BY <1>2, <1>3, <1>4 DEF Count

\* The starts of d in all the queues.
LEMMA QueuedIs ==
    ASSUME NEW q \in [Hyps -> Seq(ActionsOfWorkers)], NEW d
    PROVE  /\ IsFiniteSet(QueuedStarts(q, d))
           /\ Cardinality(QueuedStarts(q, d)) \in Nat
<1> DEFINE at == [h \in Hyps |-> {h} \X Places(q[h], StartActions(d))]
           Family == {at[h] : h \in Hyps}
<1>1. at \in Surjection(Hyps, Family)
  BY DEF Surjection
<1>2. IsFiniteSet(Family)
  BY <1>1, FS_Surjection, ConstantsAssumption
<1>3. \A T \in Family : IsFiniteSet(T)
  BY QueuedAtIs
<1>4. QueuedStarts(q, d) = UNION Family
  BY DEF QueuedStarts
<1>5. IsFiniteSet(QueuedStarts(q, d))
  BY <1>2, <1>3, <1>4, FS_UNION
<1> QED
  BY <1>5, FS_CardinalityType

\* One queue changes: the others hold what they held.
LEMMA QueueChanged ==
    ASSUME NEW q \in [Hyps -> Seq(ActionsOfWorkers)], NEW h \in Hyps, NEW x \in Seq(ActionsOfWorkers),
           NEW d
    PROVE  Cardinality(QueuedStarts([q EXCEPT ![h] = x], d)) + Count(q[h], StartActions(d))
             = Cardinality(QueuedStarts(q, d)) + Count(x, StartActions(d))
<1> DEFINE r == [q EXCEPT ![h] = x]
           before == {h} \X Places(q[h], StartActions(d))
           after == {h} \X Places(r[h], StartActions(d))
           others == UNION {{g} \X Places(q[g], StartActions(d)) : g \in Hyps \ {h}}
<1>1. r \in [Hyps -> Seq(ActionsOfWorkers)] /\ r[h] = x /\ \A g \in Hyps \ {h} : r[g] = q[g]
  OBVIOUS
<1>2. /\ QueuedStarts(q, d) = others \cup before
      /\ QueuedStarts(r, d) = others \cup after
  <2>1. UNION {{g} \X Places(r[g], StartActions(d)) : g \in Hyps \ {h}} = others
    BY <1>1
  <2> QED
    BY <2>1 DEF QueuedStarts
<1>3. others \cap before = {} /\ others \cap after = {}
  OBVIOUS
<1>4. IsFiniteSet(others)
  <2>1. IsFiniteSet(QueuedStarts(q, d)) /\ others \in SUBSET QueuedStarts(q, d)
    BY <1>2, QueuedIs
  <2> QED
    BY <2>1, FS_Subset
<1>5. /\ IsFiniteSet(before) /\ Cardinality(before) = Count(q[h], StartActions(d))
      /\ IsFiniteSet(after) /\ Cardinality(after) = Count(x, StartActions(d))
      /\ Count(q[h], StartActions(d)) \in Nat /\ Count(x, StartActions(d)) \in Nat
  BY <1>1, QueuedAtIs
<1>6. Cardinality(others) \in Nat /\ Cardinality({}) = 0
  BY <1>4, FS_CardinalityType, FS_EmptySet
<1> HIDE DEF before, after, others, r
<1>7. /\ Cardinality(others \cup before) = Cardinality(others) + Cardinality(before) - Cardinality(others \cap before)
      /\ Cardinality(others \cup after) = Cardinality(others) + Cardinality(after) - Cardinality(others \cap after)
  BY <1>4, <1>5, FS_Union
<1>8. /\ Cardinality(QueuedStarts(q, d)) = Cardinality(others) + Count(q[h], StartActions(d))
      /\ Cardinality(QueuedStarts(r, d)) = Cardinality(others) + Count(x, StartActions(d))
  <2>1. Cardinality(others \cap before) = 0 /\ Cardinality(others \cap after) = 0
    BY <1>3, <1>6, Zenon
  <2>2. /\ Cardinality(QueuedStarts(q, d)) = Cardinality(others \cup before)
        /\ Cardinality(QueuedStarts(r, d)) = Cardinality(others \cup after)
    BY <1>2, Zenon
  <2> QED
    BY <1>5, <1>6, <1>7, <2>1, <2>2
<1> QED
  BY <1>5, <1>6, <1>8 DEF r

\* One more is counted if what is put in counts.
LEMMA PutCounted ==
    ASSUME NEW q \in Seq(ActionsOfWorkers), NEW a \in ActionsOfWorkers, NEW T
    PROVE  Count(Put(q, a), T) = Count(q, T) + (IF a \in T THEN 1 ELSE 0)
<1>1. ASSUME NEW r \in Seq(ActionsOfWorkers), NEW k \in 1 .. Len(q) + 1,
             Len(r) = Len(q) + 1, r[k] = a,
             \A i \in 1 .. Len(q) + 1 : i < k => r[i] = q[i],
             \A i \in 1 .. Len(q) + 1 : i > k => r[i] = q[i - 1]
      PROVE  Count(r, T) = Count(q, T) + (IF a \in T THEN 1 ELSE 0)
  <2>1. Count(r, T) = Count(q, T) + (IF r[k] \in T THEN 1 ELSE 0)
    BY <1>1, CountInsert
  <2> QED
    BY <1>1, <2>1
<1> QED
  BY ZenonT(60), <1>1, PutInserts

PutsAt(q, h, a, r) == r = [q EXCEPT ![h] = Put(@, a)]

\* An action is put into a queue.
LEMMA QueuedPut ==
    ASSUME NEW q \in [Hyps -> Seq(ActionsOfWorkers)], NEW h \in Hyps, NEW a \in ActionsOfWorkers, NEW d,
           NEW r \in [Hyps -> Seq(ActionsOfWorkers)],
           PutsAt(q, h, a, r)
    PROVE  /\ a \in StartActions(d) =>
                Cardinality(QueuedStarts(r, d)) = Cardinality(QueuedStarts(q, d)) + 1
           /\ a \notin StartActions(d) =>
                Cardinality(QueuedStarts(r, d)) = Cardinality(QueuedStarts(q, d))
<1>1. q[h] \in Seq(ActionsOfWorkers)
  OBVIOUS
<1> DEFINE x == Put(q[h], a)
<1>2. x \in Seq(ActionsOfWorkers)
  BY <1>1, PutInserts
<1>3. Count(x, StartActions(d)) = Count(q[h], StartActions(d)) + (IF a \in StartActions(d) THEN 1 ELSE 0)
  BY <1>1, PutCounted
<1> HIDE DEF x
<1>4. Cardinality(QueuedStarts(r, d)) + Count(q[h], StartActions(d))
        = Cardinality(QueuedStarts(q, d)) + Count(x, StartActions(d))
  <2>1. r = [q EXCEPT ![h] = x]
    BY DEF x, PutsAt
  <2>2. Cardinality(QueuedStarts([q EXCEPT ![h] = x], d)) + Count(q[h], StartActions(d))
          = Cardinality(QueuedStarts(q, d)) + Count(x, StartActions(d))
    BY ZenonT(60), <1>2, QueueChanged
  <2> QED
    BY <2>1, <2>2
<1>6. Count(q[h], StartActions(d)) \in Nat
  BY QueuedAtIs
<1>7. Cardinality(QueuedStarts(r, d)) \in Nat /\ Cardinality(QueuedStarts(q, d)) \in Nat
  BY QueuedIs
<1> QED
  BY SMTT(30), <1>3, <1>4, <1>6, <1>7

\* The action at the head of a queue is taken.
LEMMA QueuedPopped ==
    ASSUME NEW q \in [Hyps -> Seq(ActionsOfWorkers)], NEW h \in Hyps, q[h] # <<>>, NEW d
    PROVE  /\ [q EXCEPT ![h] = Tail(@)] \in [Hyps -> Seq(ActionsOfWorkers)]
           /\ Cardinality(QueuedStarts([q EXCEPT ![h] = Tail(@)], d))
                = Cardinality(QueuedStarts(q, d)) - (IF Head(q[h]) \in StartActions(d) THEN 1 ELSE 0)
<1>1. q[h] \in Seq(ActionsOfWorkers)
  OBVIOUS
<1> DEFINE x == Tail(q[h])
<1>2. x \in Seq(ActionsOfWorkers)
  BY <1>1
<1>3. Count(q[h], StartActions(d)) = Count(x, StartActions(d)) + (IF Head(q[h]) \in StartActions(d) THEN 1 ELSE 0)
  BY <1>1, CountTail
<1>4. [q EXCEPT ![h] = Tail(@)] = [q EXCEPT ![h] = x]
  OBVIOUS
<1> HIDE DEF x
<1>5. Cardinality(QueuedStarts([q EXCEPT ![h] = x], d)) + Count(q[h], StartActions(d))
        = Cardinality(QueuedStarts(q, d)) + Count(x, StartActions(d))
  BY <1>2, QueueChanged
<1>6. [q EXCEPT ![h] = x] \in [Hyps -> Seq(ActionsOfWorkers)]
  BY <1>2
<1>7. [q EXCEPT ![h] = x][h] = x
  OBVIOUS
<1>8. Count(q[h], StartActions(d)) \in Nat /\ Count(x, StartActions(d)) \in Nat
  BY <1>6, <1>7, QueuedAtIs
<1>9. Cardinality(QueuedStarts([q EXCEPT ![h] = x], d)) \in Nat /\ Cardinality(QueuedStarts(q, d)) \in Nat
  BY <1>6, QueuedIs
<1> QED
  BY SMTT(30), <1>3, <1>4, <1>5, <1>6, <1>8, <1>9

\* No start waits where every action is of another type.
LEMMA NoneQueued ==
    ASSUME NEW q \in [Hyps -> Seq(ActionsOfWorkers)], NEW d,
           \A h \in Hyps : \A i \in 1 .. Len(q[h]) : q[h][i].type # "start_domain"
    PROVE  Cardinality(QueuedStarts(q, d)) = 0
<1>1. \A h \in Hyps : Places(q[h], StartActions(d)) = {}
  BY DEF Places, StartActions
<1>2. QueuedStarts(q, d) = {}
  BY <1>1 DEF QueuedStarts
<1> QED
  BY <1>2, FS_EmptySet

-----------------------------------------------------------------------------
(* The invariant under the steps                                            *)

\* What is owed is a number, and what the API records adds to it.
LEMMA OwedIs ==
    ASSUME TypeOK, NEW d \in Desktops
    PROVE  /\ Owed(d) \in Int
           /\ \A e \in Desktops : \A new \in Statuses : Record(e, new) =>
                Owed(d)' = Owed(d) + (IF e = d /\ new = "Starting" THEN 1 ELSE 0)
           /\ UNCHANGED ledger => Owed(d)' = Owed(d)
<1>1. ledger \in [Desktops -> [starts : Nat, boots : Nat, stop : BOOLEAN, deletion : BOOLEAN]]
  BY DEF TypeOK
<1>2. ledger[d].starts \in Nat /\ ledger[d].boots \in Nat
  BY <1>1
<1>3. ASSUME NEW e \in Desktops, NEW new \in Statuses, Record(e, new)
      PROVE  Owed(d)' = Owed(d) + (IF e = d /\ new = "Starting" THEN 1 ELSE 0)
  <2>1. CASE new = "Starting"
    <3>1. ledger' = [ledger EXCEPT ![e].starts = @ + 1]
      BY <1>3, <2>1 DEF Record
    <3>2. /\ ledger'[d].starts = ledger[d].starts + (IF e = d THEN 1 ELSE 0)
          /\ ledger'[d].boots = ledger[d].boots
      BY <1>1, <1>2, <3>1
    <3> QED
      BY <1>2, <2>1, <3>2 DEF Owed
  <2>2. CASE new # "Starting"
    <3>1. /\ ledger'[d].starts = ledger[d].starts
          /\ ledger'[d].boots = ledger[d].boots
      BY <1>1, <1>3, <2>2 DEF Record
    <3> QED
      BY <1>2, <2>2, <3>1 DEF Owed
  <2> QED
    BY <2>1, <2>2
<1> QED
  BY <1>2, <1>3 DEF Owed

\* n more starts are owed, and at most n more can come of what waits.
LEMMA CoveredLater ==
    ASSUME TypeOK, PromiseInv, TypeOK', NEW d \in Desktops, NEW n \in Int,
           Online' = Online, engine' # "cleaning" => engine # "cleaning",
           Owed(d)' = Owed(d) + n,
           Online = {} => n >= 0 /\ Visits(feed', status'[d], d) <= Visits(feed, status[d], d) + n,
           Online # {} =>
             Count(feed', StartChanges(d)) + Cardinality(QueuedStarts(queue', d))
               <= Count(feed, StartChanges(d)) + Cardinality(QueuedStarts(queue, d)) + n
    PROVE  Covered(d)'
<1>1. Owed(d) \in Int
  BY OwedIs
<1>2. /\ feed \in Seq(ChangesOfRows) /\ queue \in [Hyps -> Seq(ActionsOfWorkers)]
      /\ feed' \in Seq(ChangesOfRows) /\ queue' \in [Hyps -> Seq(ActionsOfWorkers)]
  BY DEF TypeOK
<1>3. /\ Visits(feed, status[d], d) \in Nat /\ Visits(feed', status'[d], d) \in Nat
      /\ Count(feed, StartChanges(d)) \in Nat /\ Count(feed', StartChanges(d)) \in Nat
  BY <1>2, VisitsIs
<1>4. /\ Cardinality(QueuedStarts(queue, d)) \in Nat
      /\ Cardinality(QueuedStarts(queue', d)) \in Nat
  BY <1>2, QueuedIs
<1>5. Covered(d)
  BY DEF PromiseInv
<1>6. CASE Online = {}
  BY <1>1, <1>3, <1>5, <1>6 DEF Covered
<1>7. CASE Online # {}
  BY <1>1, <1>3, <1>4, <1>5, <1>7 DEF Covered
<1> QED
  BY <1>6, <1>7

\* A row is written and the feed not taken from.
LEMMA WrittenCovered ==
    ASSUME TypeOK, PromiseInv, TypeOK', NEW e \in Desktops, NEW new \in Statuses, NEW h,
           SetRow(e, new, h, feed),
           UNCHANGED <<engine, queue>>, Online' = Online,
           \A d \in Desktops : Owed(d)' = Owed(d) + (IF e = d /\ new = "Starting" THEN 1 ELSE 0)
    PROVE  FeedJoined' /\ \A d \in Desktops : Covered(d)'
<1>1. feed \in Seq(ChangesOfRows) /\ queue \in [Hyps -> Seq(ActionsOfWorkers)]
  BY DEF TypeOK
<1>2. ASSUME NEW d \in Desktops
      PROVE  Joined(feed', status'[d], d) /\ Covered(d)'
  <2> DEFINE n == IF e = d /\ new = "Starting" THEN 1 ELSE 0
  <2>1. Joined(feed, status[d], d) /\ (engine # "up" => feed = <<>>)
    BY DEF PromiseInv, FeedJoined, NothingLeft
  <2>2. /\ Joined(feed', status'[d], d)
        /\ Visits(feed', status'[d], d) <= Visits(feed, status[d], d) + n
        /\ Count(feed', StartChanges(d)) <= Count(feed, StartChanges(d)) + n
    BY <1>1, <2>1, RowWritten
  <2>3. n \in Int /\ n >= 0 /\ Owed(d)' = Owed(d) + n
    OBVIOUS
  <2> HIDE DEF n
  <2>4. Cardinality(QueuedStarts(queue, d)) \in Nat /\ Count(feed, StartChanges(d)) \in Nat
        /\ Count(feed', StartChanges(d)) \in Nat
    <3>1. feed' \in Seq(ChangesOfRows)
      BY DEF TypeOK
    <3> QED
      BY <1>1, <3>1, QueuedIs, VisitsIs
  <2>5. Count(feed', StartChanges(d)) + Cardinality(QueuedStarts(queue', d))
          <= Count(feed, StartChanges(d)) + Cardinality(QueuedStarts(queue, d)) + n
    BY <2>2, <2>3, <2>4
  <2> QED
    BY <2>2, <2>3, <2>5, CoveredLater
<1> QED
  BY <1>2 DEF FeedJoined

\* The rows, the feed, the queues and the workers are left alone.
LEMMA NothingWrittenCovered ==
    ASSUME TypeOK, PromiseInv, TypeOK', UNCHANGED <<status, feed, queue>>, Online' = Online,
           engine' # "cleaning" => engine # "cleaning",
           \A d \in Desktops : Owed(d)' = Owed(d)
    PROVE  FeedJoined' /\ \A d \in Desktops : Covered(d)'
<1>1. FeedJoined'
  BY DEF PromiseInv, FeedJoined
<1>2. ASSUME NEW d \in Desktops
      PROVE  Covered(d)'
  <2>1. Owed(d) \in Int /\ Owed(d)' = Owed(d) + 0
    BY OwedIs
  <2>2. feed \in Seq(ChangesOfRows) /\ queue \in [Hyps -> Seq(ActionsOfWorkers)]
    BY DEF TypeOK
  <2>3. /\ Visits(feed, status[d], d) \in Nat /\ Count(feed, StartChanges(d)) \in Nat
        /\ Cardinality(QueuedStarts(queue, d)) \in Nat
    BY <2>2, VisitsIs, QueuedIs
  <2>4. /\ Visits(feed', status'[d], d) <= Visits(feed, status[d], d) + 0
        /\ Count(feed', StartChanges(d)) + Cardinality(QueuedStarts(queue', d))
             <= Count(feed, StartChanges(d)) + Cardinality(QueuedStarts(queue, d)) + 0
    BY <2>3
  <2> QED
    BY <2>1, <2>4, CoveredLater
<1> QED
  BY <1>1, <1>2

\* A start that waits is still served.
LEMMA ServedLater ==
    ASSUME StartsServed, UNCHANGED queue,
           \A h \in Hyps : worker[h] = "online" => worker'[h] = "online"
    PROVE  StartsServed'
  BY DEF StartsServed

LEMMA ServedPut ==
    ASSUME NEW q \in [Hyps -> Seq(ActionsOfWorkers)], NEW g \in Hyps, NEW a \in ActionsOfWorkers,
           \A h \in Hyps : \A i \in 1 .. Len(q[h]) :
               q[h][i].type = "start_domain" => worker[h] = "online",
           a.type = "start_domain" => worker[g] = "online"
    PROVE  \A h \in Hyps : \A i \in 1 .. Len([q EXCEPT ![g] = Put(@, a)][h]) :
               [q EXCEPT ![g] = Put(@, a)][h][i].type = "start_domain" => worker[h] = "online"
<1> DEFINE r == [q EXCEPT ![g] = Put(@, a)]
<1>1. q[g] \in Seq(ActionsOfWorkers) /\ r[g] = Put(q[g], a) /\ \A h \in Hyps \ {g} : r[h] = q[h]
  OBVIOUS
<1>2. \A i \in 1 .. Len(Put(q[g], a)) :
         Put(q[g], a)[i] = a \/ \E k \in 1 .. Len(q[g]) : Put(q[g], a)[i] = q[g][k]
  BY <1>1, PutOf
<1> HIDE DEF r
<1>3. ASSUME NEW h \in Hyps, NEW i \in 1 .. Len(r[h]), r[h][i].type = "start_domain"
      PROVE  worker[h] = "online"
  <2>1. CASE h = g
    BY <1>1, <1>2, <1>3, <2>1
  <2>2. CASE h # g
    BY <1>1, <1>3, <2>2
  <2> QED
    BY <2>1, <2>2
<1> QED
  BY <1>3 DEF r

LEMMA ServedPopped ==
    ASSUME TypeOK, StartsServed, NEW g \in Hyps, queue[g] # <<>>,
           queue' = [queue EXCEPT ![g] = Tail(@)],
           \A h \in Hyps : worker[h] = "online" => worker'[h] = "online"
    PROVE  StartsServed'
<1>1. queue \in [Hyps -> Seq(ActionsOfWorkers)] /\ queue[g] \in Seq(ActionsOfWorkers)
  BY DEF TypeOK
<1>2. queue'[g] = Tail(queue[g]) /\ \A h \in Hyps \ {g} : queue'[h] = queue[h]
  BY <1>1
<1>3. \A i \in 1 .. Len(Tail(queue[g])) : i + 1 \in 1 .. Len(queue[g]) /\ Tail(queue[g])[i] = queue[g][i + 1]
  BY <1>1
<1>4. ASSUME NEW h \in Hyps, NEW i \in 1 .. Len(queue'[h]), queue'[h][i].type = "start_domain"
      PROVE  worker'[h] = "online"
  <2>1. CASE h = g
    BY <1>2, <1>3, <1>4, <2>1 DEF StartsServed
  <2>2. CASE h # g
    BY <1>2, <1>4, <2>2 DEF StartsServed
  <2> QED
    BY <2>1, <2>2
<1> QED
  BY <1>4 DEF StartsServed

\* A thread is given another write than that of Starting, or none.
LEMMA DoNoStart ==
    ASSUME TypeOK, NoStartWritten, NEW t \in Threads, NEW j, Do(t, j), j.step = "write" => j.to # "Starting"
    PROVE  NoStartWritten'
<1>1. job \in [Threads -> Jobs]
  BY DEF TypeOK
<1>2. job'[t] = j /\ \A u \in Threads \ {t} : job'[u] = job[u]
  BY <1>1 DEF Do
<1> QED
  BY <1>2 DEF NoStartWritten

LEMMA JobsNoStart == ASSUME NoStartWritten, UNCHANGED job PROVE NoStartWritten'
  BY DEF NoStartWritten

\* The head of a queue that no worker serves is not a start.
LEMMA HeadServed ==
    ASSUME TypeOK, StartsServed, NEW h \in Hyps, queue[h] # <<>>, worker[h] # "online"
    PROVE  \A d : Head(queue[h]) \notin StartActions(d)
<1>1. queue[h] \in Seq(ActionsOfWorkers)
  BY DEF TypeOK
<1>2. Head(queue[h]) = queue[h][1] /\ 1 \in 1 .. Len(queue[h])
  BY <1>1
<1> QED
  BY <1>2 DEF StartsServed, StartActions

-----------------------------------------------------------------------------
(* Every step keeps it                                                      *)

USE DEF rows, libvirt, threads, users, ChangesRest, WorkerRest

LEMMA InitKept == Init => PromiseInv
<1> SUFFICES ASSUME Init PROVE PromiseInv
  OBVIOUS
<1>1. NothingLeft /\ StartsServed
  BY DEF Init, NothingLeft, StartsServed
<1>2. NoStartWritten
  BY DEF Init, NoStartWritten, Idle
<1>3. ASSUME NEW d \in Desktops
      PROVE  Joined(feed, status[d], d) /\ Covered(d)
  <2>1. /\ Joined(<<>>, "Stopped", d) /\ Visits(<<>>, "Stopped", d) = 0
        /\ Count(<<>>, StartChanges(d)) = 0
    BY FeedEmpty
  <2>2. feed = <<>> /\ status[d] = "Stopped" /\ Owed(d) = 0
    BY DEF Init, Owed
  <2>3. Cardinality(QueuedStarts(queue, d)) = 0
    <3>1. queue \in [Hyps -> Seq(ActionsOfWorkers)]
      BY InitTyped DEF TypeOK
    <3>2. \A h \in Hyps : \A i \in 1 .. Len(queue[h]) : queue[h][i].type # "start_domain"
      BY DEF Init
    <3> QED
      BY <3>1, <3>2, NoneQueued
  <2> QED
    BY <2>1, <2>2, <2>3 DEF Covered
<1> QED
  BY <1>1, <1>2, <1>3 DEF PromiseInv, FeedJoined

LEMMA ApiKept ==
    ASSUME TypeOK, TypeOK', PromiseInv, Api
    PROVE  PromiseInv'
<1>1. ASSUME UNCHANGED <<engine, threads>>
      PROVE  StartsServed' /\ NoStartWritten' /\ Online' = Online
  BY <1>1, ServedLater, JobsNoStart DEF PromiseInv, Online
<1>2. ASSUME NEW d \in Desktops, NEW new \in Statuses, NEW h, SetRow(d, new, h, feed), UNCHANGED <<engine, threads>>
      PROVE  NothingLeft'
  BY <1>2 DEF PromiseInv, NothingLeft, SetRow
<1>3. ASSUME NEW c \in Clients, ApiWrites(c)
      PROVE  PromiseInv'
  <2>1. request[c].id \in Desktops /\ request[c].to \in Statuses
    <3>1. request[c] \in Requests /\ request[c] # NoRequest
      BY <1>3 DEF TypeOK, ApiWrites
    <3> QED
      BY <3>1 DEF Requests, NoRequest, Statuses
  <2>2. \A d \in Desktops :
          Owed(d)' = Owed(d) + (IF request[c].id = d /\ request[c].to = "Starting" THEN 1 ELSE 0)
    BY <1>3, <2>1, OwedIs DEF ApiWrites
  <2>3. UNCHANGED <<engine, threads>> /\ SetRow(request[c].id, request[c].to, hyp_started[request[c].id], feed)
    BY <1>3 DEF ApiWrites
  <2>4. NothingLeft' /\ StartsServed' /\ NoStartWritten' /\ Online' = Online
    BY <1>1, <1>2, <2>1, <2>3
  <2>5. FeedJoined' /\ \A d \in Desktops : Covered(d)'
    BY <2>1, <2>2, <2>3, <2>4, WrittenCovered
  <2> QED
    BY <2>4, <2>5 DEF PromiseInv
<1>4. ASSUME NEW c \in Clients, NEW d \in Desktops, ApiReads(c, d)
      PROVE  PromiseInv'
  <2>1. UNCHANGED <<rows, engine, threads, ledger>>
    BY <1>4 DEF ApiReads
  <2>2. NothingLeft' /\ StartsServed' /\ NoStartWritten' /\ Online' = Online
    BY <1>1, <2>1 DEF PromiseInv, NothingLeft
  <2>3. FeedJoined' /\ \A e \in Desktops : Covered(e)'
    BY <2>1, <2>2, OwedIs, NothingWrittenCovered
  <2> QED
    BY <2>2, <2>3 DEF PromiseInv
<1>5. ASSUME NEW d \in Desktops, ApiBulk(d)
      PROVE  PromiseInv'
  <2>1. PICK x \in BulkDecisions : SetRow(d, x[3], hyp_started[d], feed) /\ Record(d, x[3])
    BY <1>5 DEF ApiBulk
  <2>2. x[3] \in Statuses
    BY DEF BulkDecisions, Statuses
  <2>3. \A e \in Desktops : Owed(e)' = Owed(e) + (IF d = e /\ x[3] = "Starting" THEN 1 ELSE 0)
    BY <2>1, <2>2, OwedIs
  <2>4. UNCHANGED <<engine, threads>>
    BY <1>5 DEF ApiBulk
  <2>5. NothingLeft' /\ StartsServed' /\ NoStartWritten' /\ Online' = Online
    BY <1>1, <1>2, <2>1, <2>2, <2>4
  <2>6. FeedJoined' /\ \A e \in Desktops : Covered(e)'
    BY <2>1, <2>2, <2>3, <2>4, <2>5, WrittenCovered
  <2> QED
    BY <2>5, <2>6 DEF PromiseInv
<1> QED
  BY <1>3, <1>4, <1>5 DEF Api

\* Steps that write no row, start no worker and take nothing from a queue.
LEMMA QuietKept ==
    ASSUME TypeOK, TypeOK', PromiseInv, UNCHANGED <<status, feed, queue, engine, worker, ledger>>,
           NoStartWritten'
    PROVE  PromiseInv'
<1>1. NothingLeft' /\ StartsServed' /\ Online' = Online
  BY ServedLater DEF PromiseInv, NothingLeft, Online
<1>2. FeedJoined' /\ \A d \in Desktops : Covered(d)'
  BY <1>1, OwedIs, NothingWrittenCovered
<1> QED
  BY <1>1, <1>2 DEF PromiseInv

LEMMA EventKept ==
    ASSUME TypeOK, TypeOK', PromiseInv, NEW h \in Hyps, EventCallback(h)
    PROVE  PromiseInv'
<1> DEFINE e == Head(events[h])
<1>1. e \in EventsOfVms
  BY DEF TypeOK, EventCallback
<1>2. e.kind \in {"Started", "Stopped", "Suspended", "Resumed"}
  BY <1>1 DEF EventsOfVms
<1> HIDE DEF e
<1>3. \/ EventDecision(e, h) = Idle
      \/ EventDecision(e, h) = Write(e.id, "Stopped", NoHyp)
      \/ \E s \in {"Started", "Paused", "Resumed"} : EventDecision(e, h) = Write(e.id, s, h)
  BY <1>2 DEF EventDecision
<1>4. PICK j : j = EventDecision(e, h)
  OBVIOUS
<1>5. j.step = "write" => j.to # "Starting"
  BY <1>3, <1>4, FreeToWrite
<1>6. "events" \in Threads /\ Do("events", j)
  BY <1>4 DEF Threads, EventCallback, e
<1>7. NoStartWritten'
  BY <1>5, <1>6, DoNoStart DEF PromiseInv
<1> QED
  BY <1>7, QuietKept DEF EventCallback

LEMMA BroomKept ==
    ASSUME TypeOK, TypeOK', PromiseInv, Broom
    PROVE  PromiseInv'
<1>1. UNCHANGED <<status, feed, queue, engine, worker, ledger>>
  BY DEF Broom, BroomLists, BroomPolls, BroomRepairs
<1>2. ASSUME UNCHANGED job PROVE NoStartWritten'
  BY <1>2, JobsNoStart DEF PromiseInv
<1>3. ASSUME NEW r \in broom.todo, BroomRepairs(r)
      PROVE  NoStartWritten'
  <2>1. r \in RepairsOfRows /\ "broom" \in Threads
    BY DEF TypeOK, Threads
  <2>2. CASE r.step = "write" /\ Do("broom", IF r.to = "Stopping"
                                             THEN [r EXCEPT !.hyp = hyp_started[r.id]] ELSE r)
    <3>1. PICK j : /\ Do("broom", j)
                   /\ j = r \/ j = [r EXCEPT !.hyp = hyp_started[r.id]]
      BY <2>2
    <3>2. r \in [step : {"write"}, id : Desktops,
                 to : {"Started", "Paused", "Stopped", "Stopping"}, hyp : HypsStarted]
      BY <2>1, <2>2 DEF RepairsOfRows
    <3>3. j.to # "Starting"
      BY <3>1, <3>2
    <3> QED
      BY <2>1, <3>1, <3>3, DoNoStart DEF PromiseInv
  <2> QED
    BY <1>2, <1>3, <2>2 DEF BroomRepairs
<1>4. NoStartWritten'
  BY <1>2, <1>3 DEF Broom, BroomLists, BroomPolls
<1> QED
  BY <1>1, <1>4, QuietKept

LEMMA WritesKept ==
    ASSUME TypeOK, TypeOK', PromiseInv, NEW t \in Threads, Writes(t)
    PROVE  PromiseInv'
<1>1. ASSUME UpdateDomainStatus(t)
      PROVE  PromiseInv'
  <2> DEFINE j == job[t]
  <2>1. j.id \in Desktops /\ j.to \in Statuses /\ j.to # "Starting"
    BY <1>1, WaitingWrite DEF UpdateDomainStatus, PromiseInv, NoStartWritten
  <2>2. PICK k : Do(t, k) /\ k \in {Dead, AfterWrite(j.id, j.to)}
    BY <1>1 DEF UpdateDomainStatus
  <2>3. k.step # "write"
    BY <2>1, <2>2, FreeToWrite
  <2>4. NoStartWritten'
    BY <2>2, <2>3, DoNoStart DEF PromiseInv
  <2>5. /\ SetRow(j.id, j.to, j.hyp, feed) /\ UNCHANGED <<engine, queue, ledger>>
        /\ worker' = worker \/ (worker[t] = "launched" /\ worker' = [worker EXCEPT ![t] = "ended"])
    BY <1>1 DEF UpdateDomainStatus
  <2>6. worker \in [Hyps -> {"none", "launched", "online", "ended"}]
    BY DEF TypeOK
  <2>7. \A h \in Hyps : /\ worker'[h] = "online" <=> worker[h] = "online"
                        /\ worker[h] = "none" => worker'[h] = "none"
    BY <2>5, <2>6
  <2>8. Online' = Online
    BY <2>7 DEF Online
  <2>9. NothingLeft' /\ StartsServed'
    BY <2>5, <2>7, ServedLater DEF PromiseInv, NothingLeft, SetRow
  <2>10. \A d \in Desktops : Owed(d)' = Owed(d) + (IF j.id = d /\ j.to = "Starting" THEN 1 ELSE 0)
    BY <2>1, <2>5, OwedIs
  <2> HIDE DEF j
  <2>11. FeedJoined' /\ \A d \in Desktops : Covered(d)'
    BY <2>1, <2>5, <2>8, <2>10, WrittenCovered
  <2> QED
    BY <2>4, <2>9, <2>11 DEF PromiseInv
<1>2. ASSUME RemoveFieldsWhenStopped(t)
      PROVE  PromiseInv'
  <2>1. NoStartWritten'
    BY <1>2, DoNoStart, FreeToWrite DEF RemoveFieldsWhenStopped, PromiseInv
  <2> QED
    BY <1>2, <2>1, QuietKept DEF RemoveFieldsWhenStopped
<1> QED
  BY <1>1, <1>2 DEF Writes

LEMMA RestartKept ==
    ASSUME TypeOK, TypeOK', PromiseInv, EngineRestarts
    PROVE  PromiseInv'
<1>1. /\ feed' = <<>> /\ engine' = "cleaning" /\ UNCHANGED <<status, ledger>>
      /\ \A h \in Hyps : worker'[h] = "none" /\ queue'[h] = <<>>
      /\ \A t \in Threads : job'[t] = Idle
  BY DEF EngineRestarts
<1>2. Online' = {}
  BY <1>1 DEF Online
<1>3. NothingLeft' /\ StartsServed' /\ NoStartWritten'
  BY <1>1 DEF NothingLeft, StartsServed, NoStartWritten, Idle
<1>4. FeedJoined'
  BY <1>1, FeedEmpty DEF FeedJoined
<1>5. \A d \in Desktops : Covered(d)'
  BY <1>1, <1>2, OwedIs DEF PromiseInv, Covered
<1> QED
  BY <1>3, <1>4, <1>5 DEF PromiseInv

LEMMA CleansKept ==
    ASSUME TypeOK, TypeOK', PromiseInv, EngineCleans
    PROVE  PromiseInv'
<1>1. feed = <<>> /\ UNCHANGED <<feed, queue, worker, job, ledger>> /\ engine' = "cleaned"
      /\ \A h \in Hyps : worker[h] = "none"
  BY DEF EngineCleans, PromiseInv, NothingLeft
<1>2. Online' = {}
  BY <1>1 DEF Online
<1>3. NothingLeft' /\ StartsServed' /\ NoStartWritten'
  BY <1>1, ServedLater, JobsNoStart DEF PromiseInv, NothingLeft
<1>4. \A d \in Desktops : status'[d] # "Starting"
  <2>1. \A d \in Desktops : \/ Cleaned(status[d], hyp_started[d])[1] = status[d] /\ status[d] # "Starting"
                            \/ Cleaned(status[d], hyp_started[d])[1] \in {"Failed", "Stopped", "Unknown"}
    BY DEF Cleaned
  <2> QED
    BY <2>1 DEF EngineCleans
<1>5. ASSUME NEW d \in Desktops
      PROVE  Joined(feed', status'[d], d) /\ Covered(d)'
  <2>1. /\ Joined(<<>>, status'[d], d)
        /\ Visits(<<>>, status'[d], d) = IF status'[d] = "Starting" THEN 1 ELSE 0
    BY FeedEmpty
  <2>2. Owed(d)' = Owed(d) /\ Owed(d) \in Int /\ Owed(d) >= 0
    BY <1>1, OwedIs DEF PromiseInv, Covered
  <2> QED
    BY <1>1, <1>2, <1>4, <2>1, <2>2 DEF Covered
<1> QED
  BY <1>3, <1>5 DEF PromiseInv, FeedJoined

\* The first worker is online: from now on no change is reverted, and what was counted
\* by visits covers what is counted by starts.
LEMMA OnlineKept ==
    ASSUME TypeOK, TypeOK', PromiseInv, NEW g \in Hyps, WorkerGoesOnline(g)
    PROVE  PromiseInv'
<1>1. /\ UNCHANGED <<status, feed, queue, engine, job, ledger>>
      /\ worker[g] = "launched" /\ worker' = [worker EXCEPT ![g] = "online"]
  BY DEF WorkerGoesOnline
<1>2. engine = "up" /\ worker \in [Hyps -> {"none", "launched", "online", "ended"}]
      /\ queue \in [Hyps -> Seq(ActionsOfWorkers)] /\ feed \in Seq(ChangesOfRows)
  BY <1>1 DEF PromiseInv, NothingLeft, TypeOK
<1>3. \A h \in Hyps : worker[h] = "online" => worker'[h] = "online"
  BY <1>1, <1>2
<1>4. NothingLeft' /\ StartsServed' /\ NoStartWritten' /\ FeedJoined'
  BY <1>1, <1>2, <1>3, ServedLater, JobsNoStart DEF PromiseInv, NothingLeft, FeedJoined
<1>5. Online' # {}
  BY <1>1, <1>2 DEF Online
<1>6. ASSUME NEW d \in Desktops
      PROVE  Covered(d)'
  <2>1. Owed(d)' = Owed(d) /\ Covered(d)
    BY <1>1, OwedIs DEF PromiseInv
  <2>2. Count(feed, StartChanges(d)) + Cardinality(QueuedStarts(queue, d)) <= Owed(d)
    <3>1. CASE Online # {}
      BY <2>1, <3>1 DEF Covered
    <3>2. CASE Online = {}
      <4>1. Visits(feed, status[d], d) <= Owed(d)
        BY <1>2, <2>1, <3>2 DEF Covered
      <4>2. \A h \in Hyps : \A i \in 1 .. Len(queue[h]) : queue[h][i].type # "start_domain"
        BY <3>2 DEF PromiseInv, StartsServed, Online
      <4>3. Cardinality(QueuedStarts(queue, d)) = 0
        BY <1>2, <4>2, NoneQueued
      <4>4. /\ Visits(feed, status[d], d) \in Nat /\ Count(feed, StartChanges(d)) \in Nat
            /\ Count(feed, StartChanges(d)) <= Visits(feed, status[d], d)
        BY <1>2, VisitsIs
      <4>5. Owed(d) \in Int
        BY OwedIs
      <4> QED
        BY <4>1, <4>3, <4>4, <4>5
    <3> QED
      BY <3>1, <3>2
  <2> QED
    BY <1>1, <1>5, <2>1, <2>2 DEF Covered
<1> QED
  BY <1>4, <1>6 DEF PromiseInv

LEMMA BootsKept ==
    ASSUME TypeOK, TypeOK', PromiseInv, Boots
    PROVE  PromiseInv'
<1>1. worker \in [Hyps -> {"none", "launched", "online", "ended"}]
      /\ queue \in [Hyps -> Seq(ActionsOfWorkers)] /\ feed \in Seq(ChangesOfRows)
  BY DEF TypeOK
<1>2. ASSUME UNCHANGED <<status, feed, queue, job, ledger>>, engine' = "up",
             \/ engine = "cleaned" /\ worker' = worker
             \/ engine = "up" /\ \A h \in Hyps : worker'[h] = "online" <=> worker[h] = "online"
      PROVE  PromiseInv'
  <2>1. Online' = Online
    BY <1>2 DEF Online
  <2>2. NothingLeft' /\ StartsServed' /\ NoStartWritten'
    BY <1>2, ServedLater, JobsNoStart DEF PromiseInv, NothingLeft
  <2>3. FeedJoined' /\ \A d \in Desktops : Covered(d)'
    BY <1>2, <2>1, OwedIs, NothingWrittenCovered
  <2> QED
    BY <2>2, <2>3 DEF PromiseInv
<1>3. ASSUME EngineSubscribes PROVE PromiseInv'
  BY <1>2, <1>3 DEF EngineSubscribes
<1>4. ASSUME NEW h \in Hyps, LaunchesWorker(h) PROVE PromiseInv'
  BY <1>1, <1>2, <1>4 DEF LaunchesWorker
<1>5. ASSUME NEW h \in Hyps, EventsListen(h) PROVE PromiseInv'
  <2>1. NoStartWritten'
    BY <1>5, JobsNoStart DEF EventsListen, PromiseInv
  <2> QED
    BY <1>5, <2>1, QuietKept DEF EventsListen
<1>6. ASSUME NEW h \in Hyps, NEW d \in Desktops, WorkerChecksCoherence(h, d) PROVE PromiseInv'
  <2>1. \/ Coherence(h, d) = Idle
        \/ \E s \in {"Started", "Paused", "Stopped"}, g \in {NoHyp, h} :
              Coherence(h, d) = Write(d, s, g)
    BY DEF Coherence
  <2>2. PICK j : j = Coherence(h, d)
    OBVIOUS
  <2>3. j.step = "write" => j.to # "Starting"
    BY <2>1, <2>2, FreeToWrite
  <2>4. NoStartWritten'
    BY <1>6, <2>2, <2>3, DoNoStart DEF WorkerChecksCoherence, Threads, PromiseInv
  <2> QED
    BY <1>6, <2>4, QuietKept DEF WorkerChecksCoherence
<1>7. ASSUME NEW h \in Hyps, OrchestratorBuries(h) PROVE PromiseInv'
  <2>1. worker[h] = "ended" /\ engine = "up"
    BY <1>7 DEF OrchestratorBuries, PromiseInv, NothingLeft
  <2>2. CASE queue[h] = <<>> /\ worker' = [worker EXCEPT ![h] = "none"] /\ UNCHANGED <<queue, job>>
    BY <1>1, <1>2, <1>7, <2>1, <2>2 DEF OrchestratorBuries
  <2>3. CASE /\ queue[h] # <<>> /\ queue' = [queue EXCEPT ![h] = Tail(@)]
             /\ Do("orchestrator", CleanedAlone(Head(queue[h]).id)) /\ UNCHANGED worker
    <3> DEFINE e == Head(queue[h]).id
    <3>1. \/ CleanedAlone(e) = Idle
          \/ \E s \in {"Failed", "Stopped", "Started"}, g \in {NoHyp, hyp_started[e]} :
                CleanedAlone(e) = Write(e, s, g)
      BY DEF CleanedAlone
    <3>2. PICK j : j = CleanedAlone(e)
      OBVIOUS
    <3>3. j.step = "write" => j.to # "Starting"
      BY <3>1, <3>2, FreeToWrite
    <3>4. NoStartWritten'
      BY <2>3, <3>2, <3>3, DoNoStart DEF Threads, PromiseInv
    <3>5. UNCHANGED <<status, feed, engine, worker, ledger>>
      BY <1>7, <2>3 DEF OrchestratorBuries
    <3>6. NothingLeft' /\ StartsServed' /\ FeedJoined' /\ Online' = Online
      BY <2>3, <3>5, ServedPopped DEF PromiseInv, NothingLeft, FeedJoined, Online
    <3>7. ASSUME NEW d \in Desktops PROVE Covered(d)'
      <4>1. Cardinality(QueuedStarts(queue', d)) = Cardinality(QueuedStarts(queue, d)) - 0
        BY <1>1, <2>1, <2>3, QueuedPopped, HeadServed DEF PromiseInv
      <4>2. Owed(d) \in Int /\ Owed(d)' = Owed(d) + 0
        BY <3>5, OwedIs
      <4>3. /\ Cardinality(QueuedStarts(queue, d)) \in Nat
            /\ Visits(feed, status[d], d) \in Nat /\ Count(feed, StartChanges(d)) \in Nat
        BY <1>1, QueuedIs, VisitsIs
      <4>4. /\ Visits(feed', status'[d], d) <= Visits(feed, status[d], d) + 0
            /\ Count(feed', StartChanges(d)) + Cardinality(QueuedStarts(queue', d))
                 <= Count(feed, StartChanges(d)) + Cardinality(QueuedStarts(queue, d)) + 0
        BY <3>5, <4>1, <4>3
      <4> QED
        BY <3>5, <3>6, <4>2, <4>4, CoveredLater
    <3> QED
      BY <3>4, <3>6, <3>7 DEF PromiseInv
  <2> QED
    BY <1>7, <2>2, <2>3 DEF OrchestratorBuries
<1> QED
  BY <1>3, <1>4, <1>5, <1>6, <1>7, CleansKept, OnlineKept DEF Boots

\* What the actions of a worker write and take: only a start boots, and it is used up.
LEMMA WorkerKept ==
    ASSUME TypeOK, TypeOK', PromiseInv, NEW h \in Hyps, Worker(h)
    PROVE  PromiseInv'
<1> DEFINE a == Head(queue[h])
<1>1. /\ worker[h] = "online" /\ queue[h] # <<>> /\ queue' = [queue EXCEPT ![h] = Tail(@)]
      /\ UNCHANGED <<status, feed, engine, worker>>
  BY DEF Worker, WorkerStartsDomain, WorkerShutsDown, WorkerStopsDomain, WorkerDeletesDisk, Runs, Pop
<1>2. /\ queue \in [Hyps -> Seq(ActionsOfWorkers)] /\ feed \in Seq(ChangesOfRows)
      /\ a.id \in Desktops /\ dom_id[h] \subseteq Desktops /\ h \in Threads
      /\ queue[h] \in Seq(ActionsOfWorkers) /\ a \in ActionsOfWorkers
  <2>1. queue \in [Hyps -> Seq(ActionsOfWorkers)] /\ feed \in Seq(ChangesOfRows) /\ dom_id[h] \subseteq Desktops
    BY DEF TypeOK
  <2>2. h \in Threads
    BY DEF Threads
  <2>3. queue[h] \in Seq(ActionsOfWorkers)
    BY <2>1
  <2>4. a \in ActionsOfWorkers
    BY <1>1, <2>3
  <2>5. a.id \in Desktops
    BY <1>1, HeadOfQueue
  <2> QED
    BY <2>1, <2>2, <2>3, <2>4, <2>5
<1>3. \/ UNCHANGED ledger
      \/ a.type = "start_domain" /\ ledger' = [ledger EXCEPT ![a.id].boots = @ + 1]
  BY DEF Worker, WorkerStartsDomain, WorkerShutsDown, WorkerStopsDomain, WorkerDeletesDisk, Runs
<1>4. PICK j : /\ Do(h, j)
               /\ \/ j \in {Idle, Dead}
                  \/ \E e \in Desktops, s \in {"Started", "Failed", "Shutting-down", "Stopped", "DiskDeleted"} :
                        \E g \in HypsStarted : j = Write(e, s, g)
  <2>1. h \in HypsStarted /\ NoHyp \in HypsStarted /\ Blank \in HypsStarted
    BY DEF HypsStarted
  <2>2. WorkerStartsDomain(h) => \/ Do(h, Dead)
                                 \/ \E e \in Desktops, s \in {"Started", "Failed"} : Do(h, Write(e, s, h))
    BY <1>2 DEF WorkerStartsDomain
  <2>3. WorkerShutsDown(h) => Do(h, Idle) \/ Do(h, Write(a.id, "Shutting-down", h))
    BY DEF WorkerShutsDown
  <2>4. WorkerStopsDomain(h) => Do(h, Idle) \/ Do(h, Write(a.id, "Stopped", Blank)) \/ Do(h, Write(a.id, "Failed", h))
    BY DEF WorkerStopsDomain
  <2>5. WorkerDeletesDisk(h) => Do(h, Idle) \/ Do(h, Write(a.id, "DiskDeleted", NoHyp))
    BY DEF WorkerDeletesDisk
  <2> HIDE DEF a
  <2> QED
    BY <1>2, <2>1, <2>2, <2>3, <2>4, <2>5 DEF Worker
<1> HIDE DEF a
<1>5. j.step = "write" => j.to # "Starting"
  BY <1>4, FreeToWrite
<1>6. NoStartWritten'
  BY <1>2, <1>4, <1>5, DoNoStart DEF PromiseInv
<1>7. NothingLeft' /\ StartsServed' /\ FeedJoined' /\ Online' = Online
  BY <1>1, ServedPopped DEF PromiseInv, NothingLeft, FeedJoined, Online
<1>8. Online # {}
  BY <1>1 DEF Online
<1>9. ASSUME NEW d \in Desktops PROVE Covered(d)'
  <2> DEFINE one == IF a \in StartActions(d) THEN 1 ELSE 0
  <2>1. Cardinality(QueuedStarts(queue', d)) = Cardinality(QueuedStarts(queue, d)) - one
    BY <1>1, <1>2, QueuedPopped DEF a
  <2>2. a \in StartActions(d) <=> a.id = d /\ a.type = "start_domain"
    BY <1>2 DEF StartActions, ActionsOfWorkers
  <2>3. Owed(d) \in Int
    BY OwedIs
  <2>4. Owed(d)' = Owed(d) \/ (one = 1 /\ Owed(d)' = Owed(d) - 1)
    <3>1. ledger \in [Desktops -> [starts : Nat, boots : Nat, stop : BOOLEAN, deletion : BOOLEAN]]
      BY DEF TypeOK
    <3>2. ledger[d].starts \in Nat /\ ledger[d].boots \in Nat
      BY <3>1
    <3>3. CASE a.type = "start_domain" /\ a.id = d /\ ledger' = [ledger EXCEPT ![a.id].boots = @ + 1]
      <4>1. ledger'[d].starts = ledger[d].starts /\ ledger'[d].boots = ledger[d].boots + 1
        BY <3>1, <3>3
      <4> QED
        BY <2>2, <3>2, <3>3, <4>1 DEF Owed
    <3>4. CASE a.id # d /\ ledger' = [ledger EXCEPT ![a.id].boots = @ + 1]
      <4>1. ledger'[d] = ledger[d]
        BY <3>1, <3>4
      <4> QED
        BY <4>1 DEF Owed
    <3> QED
      BY <1>3, <3>3, <3>4 DEF Owed
  <2>5. /\ Cardinality(QueuedStarts(queue, d)) \in Nat /\ Count(feed, StartChanges(d)) \in Nat
    BY <1>2, QueuedIs, VisitsIs
  <2>6. one \in {0, 1}
    OBVIOUS
  <2> HIDE DEF one
  <2>7. Count(feed', StartChanges(d)) = Count(feed, StartChanges(d))
    BY <1>1
  <2>8. \E n \in Int : /\ Owed(d)' = Owed(d) + n
                       /\ Count(feed', StartChanges(d)) + Cardinality(QueuedStarts(queue', d))
                            <= Count(feed, StartChanges(d)) + Cardinality(QueuedStarts(queue, d)) + n
    <3>1. CASE Owed(d)' = Owed(d)
      <4>1. Owed(d)' = Owed(d) + 0
        BY <2>3, <3>1
      <4> QED
        BY <2>1, <2>5, <2>6, <2>7, <4>1
    <3>2. CASE one = 1 /\ Owed(d)' = Owed(d) - 1
      <4>1. Owed(d)' = Owed(d) + (-1)
        BY <2>3, <3>2
      <4> QED
        BY <2>1, <2>5, <2>7, <3>2, <4>1
    <3> QED
      BY <2>4, <3>1, <3>2
  <2> QED
    BY <1>1, <1>7, <1>8, <2>8, CoveredLater
<1> QED
  BY <1>6, <1>7, <1>9 DEF PromiseInv

\* The change at the head of the feed is taken. A start that is put into a queue is
\* paid with a change that told of it.
LEMMA TakenCovered ==
    ASSUME TypeOK, TypeOK', PromiseInv, feed # <<>>, UNCHANGED <<engine, ledger>>, Online' = Online,
           NEW d \in Desktops,
           Visits(feed', status'[d], d) <= Visits(Tail(feed), status[d], d)
             + (IF feed[1].id = d /\ feed[1].old = "Starting" THEN 1 ELSE 0),
           Online # {} => Count(feed', StartChanges(d)) <= Count(Tail(feed), StartChanges(d)),
           Cardinality(QueuedStarts(queue', d))
             <= Cardinality(QueuedStarts(queue, d)) + (IF Head(feed) \in StartChanges(d) THEN 1 ELSE 0)
    PROVE  Covered(d)'
<1> DEFINE back == IF feed[1].id = d /\ feed[1].old = "Starting" THEN 1 ELSE 0
           told == IF Head(feed) \in StartChanges(d) THEN 1 ELSE 0
<1>1. /\ feed \in Seq(ChangesOfRows) /\ feed' \in Seq(ChangesOfRows) /\ Tail(feed) \in Seq(ChangesOfRows)
      /\ queue \in [Hyps -> Seq(ActionsOfWorkers)] /\ queue' \in [Hyps -> Seq(ActionsOfWorkers)]
      /\ status[d] \in Statuses \cup {Gone}
  BY DEF TypeOK
<1>2. Joined(feed, status[d], d)
  BY DEF PromiseInv, FeedJoined
<1>3. Visits(Tail(feed), status[d], d) + back <= Visits(feed, status[d], d)
  BY <1>1, <1>2, FeedTaken
<1>4. Count(feed, StartChanges(d)) = Count(Tail(feed), StartChanges(d)) + told
  BY <1>1, CountTail
<1>5. /\ Visits(feed, status[d], d) \in Nat /\ Visits(feed', status'[d], d) \in Nat
      /\ Visits(Tail(feed), status[d], d) \in Nat
      /\ Count(feed, StartChanges(d)) \in Nat /\ Count(feed', StartChanges(d)) \in Nat
      /\ Count(Tail(feed), StartChanges(d)) \in Nat
      /\ Cardinality(QueuedStarts(queue, d)) \in Nat /\ Cardinality(QueuedStarts(queue', d)) \in Nat
  BY <1>1, VisitsIs, QueuedIs
<1>6. back \in {0, 1} /\ told \in {0, 1}
  OBVIOUS
<1>7. Visits(feed', status'[d], d) <= Visits(Tail(feed), status[d], d) + back
  OBVIOUS
<1>8. Cardinality(QueuedStarts(queue', d)) <= Cardinality(QueuedStarts(queue, d)) + told
  OBVIOUS
<1> HIDE DEF back, told
<1>9. Visits(feed', status'[d], d) <= Visits(feed, status[d], d) + 0
  BY <1>3, <1>5, <1>6, <1>7
<1>10. Online # {} =>
         Count(feed', StartChanges(d)) + Cardinality(QueuedStarts(queue', d))
           <= Count(feed, StartChanges(d)) + Cardinality(QueuedStarts(queue, d)) + 0
  BY <1>4, <1>5, <1>6, <1>8
<1>11. Owed(d)' = Owed(d) + 0
  BY OwedIs
<1> QED
  BY <1>9, <1>10, <1>11, CoveredLater

\* The change is taken and a row written, or none.
LEMMA TakenWritten ==
    ASSUME TypeOK, PromiseInv, feed # <<>>, NEW e \in Desktops, NEW new \in Statuses, NEW h,
           \/ SetRow(e, new, h, Tail(feed))
           \/ feed' = Tail(feed) /\ (UNCHANGED status \/ RemoveRow(e)),
           new = "Starting" => e = feed[1].id /\ feed[1].old = "Starting" /\ Online = {},
           NEW d \in Desktops
    PROVE  /\ Joined(feed', status'[d], d)
           /\ Visits(feed', status'[d], d) <= Visits(Tail(feed), status[d], d)
                + (IF feed[1].id = d /\ feed[1].old = "Starting" THEN 1 ELSE 0)
           /\ Online # {} => Count(feed', StartChanges(d)) <= Count(Tail(feed), StartChanges(d))
<1> DEFINE back == IF feed[1].id = d /\ feed[1].old = "Starting" THEN 1 ELSE 0
           one == IF e = d /\ new = "Starting" THEN 1 ELSE 0
           rest == Tail(feed)
<1>1. /\ feed \in Seq(ChangesOfRows) /\ rest \in Seq(ChangesOfRows)
      /\ status \in [Desktops -> Statuses \cup {Gone}] /\ status[d] \in Statuses \cup {Gone}
  BY DEF TypeOK
<1>2. Joined(feed, status[d], d) /\ (engine # "up" => feed = <<>>)
  BY DEF PromiseInv, FeedJoined, NothingLeft
<1>3. Joined(rest, status[d], d)
  BY <1>1, <1>2, FeedTaken
<1>4. /\ Visits(rest, status[d], d) \in Nat /\ Count(rest, StartChanges(d)) \in Nat
  BY <1>1, VisitsIs
<1>5. back \in {0, 1} /\ one \in {0, 1} /\ one <= back /\ (Online # {} => one = 0)
  OBVIOUS
<1>6. CASE SetRow(e, new, h, rest)
  <2>1. /\ Joined(feed', status'[d], d) /\ feed' \in Seq(ChangesOfRows)
        /\ Visits(feed', status'[d], d) <= Visits(rest, status[d], d) + one
        /\ Count(feed', StartChanges(d)) <= Count(rest, StartChanges(d)) + one
    BY <1>1, <1>2, <1>3, <1>6, RowWritten
  <2>2. Visits(feed', status'[d], d) \in Nat /\ Count(feed', StartChanges(d)) \in Nat
    BY <2>1, VisitsIs
  <2> HIDE DEF back, one, rest
  <2>3. /\ Visits(feed', status'[d], d) <= Visits(rest, status[d], d) + back
        /\ Online # {} => Count(feed', StartChanges(d)) <= Count(rest, StartChanges(d))
    BY <1>4, <1>5, <2>1, <2>2
  <2> QED
    BY <2>1, <2>3 DEF back, rest
<1>7. CASE feed' = rest /\ status'[d] = status[d]
  <2> HIDE DEF back, rest
  <2>1. /\ Visits(feed', status'[d], d) <= Visits(rest, status[d], d) + back
        /\ Count(feed', StartChanges(d)) <= Count(rest, StartChanges(d))
    BY <1>4, <1>5, <1>7
  <2> QED
    BY <1>3, <1>7, <2>1 DEF back, rest
<1>8. CASE feed' = rest /\ status'[d] = Gone
  <2>1. Joined(rest, Gone, d) /\ Visits(rest, Gone, d) <= Visits(rest, status[d], d)
    BY <1>1, <1>3, FeedLeft
  <2>2. Visits(rest, Gone, d) \in Nat
    BY <1>1, VisitsIs
  <2> HIDE DEF back, rest
  <2>3. /\ Visits(feed', status'[d], d) <= Visits(rest, status[d], d) + back
        /\ Count(feed', StartChanges(d)) <= Count(rest, StartChanges(d))
    BY <1>4, <1>5, <1>8, <2>1, <2>2
  <2> QED
    BY <1>8, <2>1, <2>3 DEF back, rest
<1>9. feed' = rest /\ (UNCHANGED status \/ RemoveRow(e)) => status'[d] = status[d] \/ status'[d] = Gone
  BY <1>1 DEF RemoveRow
<1> QED
  BY <1>6, <1>7, <1>8, <1>9

\* The queues after a change was handled: no start more than the change tells of.
Held(q) ==
    /\ q \in [Hyps -> Seq(ActionsOfWorkers)]
    /\ \A h \in Hyps : \A i \in 1 .. Len(q[h]) : q[h][i].type = "start_domain" => worker[h] = "online"
    /\ \A d \in Desktops : Cardinality(QueuedStarts(q, d)) <= Cardinality(QueuedStarts(queue, d))

LEMMA HeldPut ==
    ASSUME NEW q, Held(q), NEW h \in Hyps, NEW a \in ActionsOfWorkers, a.type # "start_domain"
    PROVE  Held([q EXCEPT ![h] = Put(@, a)])
<1> DEFINE r == [q EXCEPT ![h] = Put(@, a)]
<1>1. q \in [Hyps -> Seq(ActionsOfWorkers)]
  BY DEF Held
<1>2. \A d \in Desktops : a \notin StartActions(d)
  BY DEF StartActions
<1>4. \A g \in Hyps : \A i \in 1 .. Len(r[g]) : r[g][i].type = "start_domain" => worker[g] = "online"
  BY <1>1, ServedPut DEF Held
<1>5. r \in [Hyps -> Seq(ActionsOfWorkers)]
  BY <1>1, PutOf
<1>3. PutsAt(q, h, a, r)
  BY DEF PutsAt
<1> HIDE DEF r
<1>6. \A d \in Desktops : Cardinality(QueuedStarts(r, d)) <= Cardinality(QueuedStarts(queue, d))
  <2>1. ASSUME NEW d \in Desktops
        PROVE  Cardinality(QueuedStarts(r, d)) <= Cardinality(QueuedStarts(queue, d))
    <3>1. Cardinality(QueuedStarts(q, d)) \in Nat
      BY <1>1, QueuedIs
    <3>2. Cardinality(QueuedStarts(r, d)) = Cardinality(QueuedStarts(q, d))
      BY <1>1, <1>2, <1>3, <1>5, QueuedPut
    <3> QED
      BY <3>1, <3>2 DEF Held
  <2> QED
    BY <2>1
<1> QED
  BY <1>4, <1>5, <1>6 DEF Held, r

LEMMA ChangesKept ==
    ASSUME TypeOK, TypeOK', PromiseInv, feed # <<>>, Changes(Head(feed))
    PROVE  PromiseInv'
<1> DEFINE c == Head(feed)
<1>1. /\ c.id \in Desktops /\ c.old \in Statuses /\ c.new \in Statuses /\ c = feed[1]
      /\ Tail(feed) \in Seq(ChangesOfRows) /\ c \in ChangesOfRows
  <2>1. feed \in Seq(ChangesOfRows)
    BY DEF TypeOK
  <2>2. c = feed[1] /\ c \in ChangesOfRows
    BY <2>1
  <2> QED
    BY <2>2, HeadOfFeed
<1>2. /\ UNCHANGED <<engine, worker, ledger>> /\ engine = "up" /\ "changes" \in Threads
      /\ queue \in [Hyps -> Seq(ActionsOfWorkers)]
  <2>1. UNCHANGED <<engine, worker, ledger>>
    BY DEF Changes, RevertChange, HandleStart, HandleStopping, HandleDelete,
           HandleDiskDeleted, HandleForceDeleting, SkipChange
  <2> QED
    BY <2>1 DEF Threads, TypeOK, PromiseInv, NothingLeft
<1>3. Held(queue)
  <2>1. \A d \in Desktops : Cardinality(QueuedStarts(queue, d)) \in Nat
    BY <1>2, QueuedIs
  <2> QED
    BY <1>2, <2>1 DEF Held, PromiseInv, StartsServed
<1>4. Online' = Online /\ NothingLeft'
  BY <1>2 DEF Online, NothingLeft
<1>5. ASSUME UNCHANGED job \/ \E d \in Desktops, s \in Statuses : Do("changes", AfterWrite(d, s))
      PROVE  NoStartWritten'
  <2>1. ASSUME NEW d \in Desktops, NEW s \in Statuses, Do("changes", AfterWrite(d, s))
        PROVE  NoStartWritten'
    BY <1>2, <2>1, DoNoStart, FreeToWrite DEF PromiseInv
  <2> QED
    BY <1>5, <2>1, JobsNoStart DEF PromiseInv
<1>6. ASSUME NEW new \in Statuses, NEW h,
             \/ SetRow(c.id, new, h, Tail(feed))
             \/ feed' = Tail(feed) /\ (UNCHANGED status \/ RemoveRow(c.id)),
             new = "Starting" => c.old = "Starting" /\ Online = {},
             Held(queue'), NoStartWritten'
      PROVE  PromiseInv'
  <2>1. ASSUME NEW d \in Desktops
        PROVE  Joined(feed', status'[d], d) /\ Covered(d)'
    <3>1. /\ Joined(feed', status'[d], d)
          /\ Visits(feed', status'[d], d) <= Visits(Tail(feed), status[d], d)
               + (IF feed[1].id = d /\ feed[1].old = "Starting" THEN 1 ELSE 0)
          /\ Online # {} => Count(feed', StartChanges(d)) <= Count(Tail(feed), StartChanges(d))
      BY <1>1, <1>6, TakenWritten
    <3>2. Cardinality(QueuedStarts(queue', d)) <= Cardinality(QueuedStarts(queue, d))
      BY <1>6 DEF Held
    <3>3. Cardinality(QueuedStarts(queue', d)) \in Nat /\ Cardinality(QueuedStarts(queue, d)) \in Nat
      BY <1>2, <1>6, QueuedIs DEF Held
    <3>4. Cardinality(QueuedStarts(queue', d))
             <= Cardinality(QueuedStarts(queue, d)) + (IF Head(feed) \in StartChanges(d) THEN 1 ELSE 0)
      BY <3>2, <3>3
    <3> QED
      BY <1>2, <1>4, <3>1, <3>4, TakenCovered
  <2>2. StartsServed'
    BY <1>2, <1>6 DEF Held, StartsServed
  <2> QED
    BY <1>4, <1>6, <2>1, <2>2 DEF PromiseInv, FeedJoined
<1>7. \A type \in {"stop_domain", "shutdown_domain", "delete_disk"}, keep \in BOOLEAN :
        /\ Action(type, c.id, keep) \in ActionsOfWorkers
        /\ Action(type, c.id, keep).type # "start_domain"
  BY <1>1, ActionTyped DEF Action
<1>8. {"Failed", "DeletingDomainDisk"} \subseteq Statuses \ {"Starting"}
  BY DEF Statuses
<1> HIDE DEF c
<1>9. ASSUME RevertChange(c)
      PROVE  PromiseInv'
  <2>1. Online = {}
    BY <1>2, <1>9 DEF RevertChange, ActionsEnabled, Online
  <2>2. \/ SetRow(c.id, c.old, NoHyp, Tail(feed)) /\ Do("changes", AfterWrite(c.id, c.old))
        \/ feed' = Tail(feed) /\ UNCHANGED <<status, job>>
    BY <1>9 DEF RevertChange
  <2>3. NoStartWritten' /\ UNCHANGED queue
    BY <1>1, <1>5, <1>9, <2>2 DEF RevertChange
  <2> QED
    BY <1>1, <1>3, <1>6, <2>1, <2>2, <2>3
<1>10. ASSUME HandleStart(c)
       PROVE  PromiseInv'
  <2>1. ASSUME NEW h \in Hyps, h \in Online,
               queue' = [queue EXCEPT ![h] = Put(@, Action("start_domain", c.id, FALSE))],
               feed' = Tail(feed), UNCHANGED <<status, job>>
        PROVE  PromiseInv'
    <3> DEFINE a == Action("start_domain", c.id, FALSE)
    <3>1. a \in ActionsOfWorkers /\ worker[h] = "online"
      BY <1>1, <2>1, ActionTyped DEF Online
    <3>2. \A d \in Desktops : a \in StartActions(d) => c \in StartChanges(d)
      BY <1>1, <1>10 DEF HandleStart, IsStart, Action, StartActions, StartChanges, ChangesOfRows
    <3> HIDE DEF a
    <3>3. StartsServed'
      <4>1. \A g \in Hyps : \A i \in 1 .. Len(queue'[g]) :
               queue'[g][i].type = "start_domain" => worker[g] = "online"
        BY <1>2, <2>1, <3>1, ServedPut DEF PromiseInv, StartsServed, a
      <4> QED
        BY <1>2, <4>1 DEF StartsServed
    <3>4. NoStartWritten'
      BY <1>5, <2>1
    <3>5. ASSUME NEW d \in Desktops
          PROVE  Joined(feed', status'[d], d) /\ Covered(d)'
      <4>1. /\ Joined(feed', status'[d], d)
            /\ Visits(feed', status'[d], d) <= Visits(Tail(feed), status[d], d)
                 + (IF feed[1].id = d /\ feed[1].old = "Starting" THEN 1 ELSE 0)
            /\ Online # {} => Count(feed', StartChanges(d)) <= Count(Tail(feed), StartChanges(d))
        BY <1>1, <1>8, <2>1, TakenWritten
      <4>2. \/ Cardinality(QueuedStarts(queue', d)) = Cardinality(QueuedStarts(queue, d))
            \/ /\ a \in StartActions(d)
               /\ Cardinality(QueuedStarts(queue', d)) = Cardinality(QueuedStarts(queue, d)) + 1
        <5>1. queue' \in [Hyps -> Seq(ActionsOfWorkers)] /\ PutsAt(queue, h, a, queue')
          BY <1>2, <2>1 DEF a, TypeOK, PutsAt
        <5>2. queue \in [Hyps -> Seq(ActionsOfWorkers)] /\ a \in ActionsOfWorkers
          BY <1>2, <3>1
        <5>3. a \in StartActions(d) =>
                 Cardinality(QueuedStarts(queue', d)) = Cardinality(QueuedStarts(queue, d)) + 1
          BY SMTT(30), <5>1, <5>2, QueuedPut
        <5>4. a \notin StartActions(d) =>
                 Cardinality(QueuedStarts(queue', d)) = Cardinality(QueuedStarts(queue, d))
          BY SMTT(30), <5>1, <5>2, QueuedPut
        <5> QED
          BY <5>3, <5>4
      <4>3. Cardinality(QueuedStarts(queue, d)) \in Nat
        BY <1>2, QueuedIs
      <4>4. Cardinality(QueuedStarts(queue', d))
               <= Cardinality(QueuedStarts(queue, d)) + (IF Head(feed) \in StartChanges(d) THEN 1 ELSE 0)
        BY <3>2, <4>2, <4>3 DEF c
      <4> QED
        BY <1>2, <1>4, <4>1, <4>4, TakenCovered
    <3> QED
      BY <1>4, <3>3, <3>4, <3>5 DEF PromiseInv, FeedJoined
  <2>2. ASSUME SetRow(c.id, "Failed", NoHyp, Tail(feed)), Do("changes", AfterWrite(c.id, "Failed")),
               UNCHANGED queue
        PROVE  PromiseInv'
    <3>1. NoStartWritten'
      BY <1>1, <1>5, <1>8, <2>2
    <3> QED
      BY <1>3, <1>6, <1>8, <2>2, <3>1
  <2> QED
    BY <1>10, <2>1, <2>2 DEF HandleStart, Online
<1>11. ASSUME HandleStopping(c)
       PROVE  PromiseInv'
  <2>1. \/ queue' = queue
        \/ \E type \in {"stop_domain", "shutdown_domain"}, h \in Hyps :
              queue' = [queue EXCEPT ![h] = Put(@, Action(type, c.id, FALSE))]
    BY <1>1, <1>11 DEF HandleStopping, TypeOK, HypsStarted
  <2>2. Held(queue')
    <3>1. ASSUME NEW type \in {"stop_domain", "shutdown_domain"}, NEW h \in Hyps
          PROVE  Held([queue EXCEPT ![h] = Put(@, Action(type, c.id, FALSE))])
      BY <1>3, <1>7, HeldPut
    <3> QED
      BY <1>3, <2>1, <3>1
  <2>3. feed' = Tail(feed) /\ UNCHANGED <<status, job>>
    BY <1>11 DEF HandleStopping, c
  <2> QED
    BY <1>5, <1>6, <1>8, <2>2, <2>3
<1>12. ASSUME HandleDelete(c)
       PROVE  PromiseInv'
  <2>1. NoStartWritten'
    BY <1>5, <1>12 DEF HandleDelete
  <2>2. ASSUME NEW h \in Hyps, SetRow(c.id, "DeletingDomainDisk", h, Tail(feed)),
               queue' = [queue EXCEPT ![h] = Put(@, Action("delete_disk", c.id, FALSE))]
        PROVE  PromiseInv'
    <3>1. Held(queue')
      BY <1>3, <1>7, <2>2, HeldPut
    <3> QED
      BY <1>6, <1>8, <2>1, <2>2, <3>1
  <2>3. CASE feed' = Tail(feed) /\ UNCHANGED <<status, queue>>
    BY <1>3, <1>6, <1>8, <2>1, <2>3
  <2> QED
    BY <1>12, <2>2, <2>3 DEF HandleDelete, Online
<1>13. ASSUME HandleDiskDeleted(c)
       PROVE  PromiseInv'
  <2>1. RemoveRow(c.id) /\ feed' = Tail(feed) /\ UNCHANGED <<queue, job>>
    BY <1>13 DEF HandleDiskDeleted
  <2> QED
    BY <1>3, <1>5, <1>6, <1>8, <2>1
<1>14. ASSUME HandleForceDeleting(c)
       PROVE  PromiseInv'
  <2>1. feed' = Tail(feed) /\ UNCHANGED job
    BY <1>14 DEF HandleForceDeleting
  <2>2. CASE UNCHANGED <<status, queue>>
    BY <1>3, <1>5, <1>6, <1>8, <2>1, <2>2
  <2>3. ASSUME RemoveRow(c.id),
               NEW stopped,
               \/ stopped = queue
               \/ \E h \in Hyps :
                     stopped = [queue EXCEPT ![h] = Put(@, Action("stop_domain", c.id, TRUE))],
               \/ \E g \in Hyps :
                     queue' = [stopped EXCEPT ![g] = Put(@, Action("delete_disk", c.id, TRUE))]
               \/ queue' = stopped
        PROVE  PromiseInv'
    <3>1. Held(stopped)
      <4>1. ASSUME NEW h \in Hyps
            PROVE  Held([queue EXCEPT ![h] = Put(@, Action("stop_domain", c.id, TRUE))])
        BY <1>3, <1>7, HeldPut
      <4> QED
        BY <1>3, <2>3, <4>1
    <3>2. Held(queue')
      <4>1. ASSUME NEW g \in Hyps
            PROVE  Held([stopped EXCEPT ![g] = Put(@, Action("delete_disk", c.id, TRUE))])
        BY <1>7, <3>1, HeldPut
      <4> QED
        BY <2>3, <3>1, <4>1
    <3> QED
      BY <1>5, <1>6, <1>8, <2>1, <2>3, <3>2
  <2>4. hyp_started[c.id] \in Hyps \cup {NoHyp, Blank}
    BY <1>1 DEF TypeOK, HypsStarted
  <2> QED
    BY <1>14, <2>2, <2>3, <2>4 DEF HandleForceDeleting, Online
<1>15. ASSUME SkipChange(c)
       PROVE  PromiseInv'
  <2>1. feed' = Tail(feed) /\ UNCHANGED <<status, queue, job>>
    BY <1>15 DEF SkipChange
  <2> QED
    BY <1>3, <1>5, <1>6, <1>8, <2>1
<1> QED
  BY <1>9, <1>10, <1>11, <1>12, <1>13, <1>14, <1>15 DEF Changes, c

LEMMA NextKept == TypeOK /\ PromiseInv /\ [Next]_vars => PromiseInv'
<1> SUFFICES ASSUME TypeOK, PromiseInv, [Next]_vars
             PROVE  PromiseInv'
  OBVIOUS
<1>1. TypeOK'
  BY NextTyped
<1>2. CASE UNCHANGED vars
  BY <1>1, <1>2, JobsNoStart, QuietKept DEF vars, PromiseInv
<1>3. ASSUME NEW h \in Hyps, NEW d \in Desktops, GuestChanges(h, d)
      PROVE  PromiseInv'
  BY <1>1, <1>3, JobsNoStart, QuietKept DEF GuestChanges, PromiseInv
<1> QED
  BY <1>1, <1>2, <1>3, ApiKept, ChangesKept, WorkerKept, EventKept, BroomKept,
     WritesKept, RestartKept, BootsKept DEF Next

-----------------------------------------------------------------------------
(* Every step is one the promise allows                                     *)

USE DEF Rows, Disks, Vms, StartsOwed, Doomed

\* The rows and disks stay and no VM boots: a VM may have been powered off, or nothing.
LEMMA NothingPromised ==
    ASSUME UNCHANGED <<disk, ledger>>, Rows' = Rows, Vms' \subseteq Vms
    PROVE  Promise!Next
<1>1. Promise!PowerOff
  BY DEF Promise!PowerOff
<1> QED
  BY <1>1 DEF Promise!Next

\* A status that is written neither makes nor removes a row.
LEMMA RowsStay ==
    ASSUME TypeOK, NEW e \in Desktops, NEW new \in Statuses, NEW h, NEW pending, SetRow(e, new, h, pending)
    PROVE  Rows' = Rows
<1>1. new # Gone
  BY DEF Statuses, Gone
<1>2. status \in [Desktops -> Statuses \cup {Gone}]
  BY DEF TypeOK
<1>3. status' = status \/ (status[e] # Gone /\ status' = [status EXCEPT ![e] = new])
  BY DEF SetRow
<1> QED
  BY <1>1, <1>2, <1>3

\* What the API records asks for a start, for a deletion, or for nothing promised.
LEMMA RecordPromises ==
    ASSUME TypeOK, NEW e \in Desktops, NEW new \in Statuses, Record(e, new),
           UNCHANGED <<disk, vm>>, Rows' = Rows
    PROVE  Promise!Next
<1>1. ledger \in [Desktops -> [starts : Nat, boots : Nat, stop : BOOLEAN, deletion : BOOLEAN]]
  BY DEF TypeOK
<1>2. \A d \in Desktops : ledger[d].starts \in Nat /\ ledger[d].boots \in Nat
  BY <1>1
<1>3. CASE ledger' = [ledger EXCEPT ![e].starts = @ + 1]
  <2>1. \A d \in Desktops : /\ ledger'[d].starts = IF d = e THEN ledger[d].starts + 1 ELSE ledger[d].starts
                            /\ ledger'[d].boots = ledger[d].boots
                            /\ ledger'[d].deletion = ledger[d].deletion
    BY <1>1, <1>3
  <2>2. \A d \in Desktops : ledger'[d].starts - ledger'[d].boots
                              = IF d = e THEN ledger[d].starts - ledger[d].boots + 1
                                ELSE ledger[d].starts - ledger[d].boots
    BY <1>2, <2>1
  <2>3. StartsOwed' = [StartsOwed EXCEPT ![e] = @ + 1]
    BY <2>2
  <2>4. Doomed' = Doomed /\ Disks' = Disks /\ Vms' = Vms
    BY <2>1
  <2>5. Promise!AskStart(e)
    BY <2>3, <2>4 DEF Promise!AskStart
  <2> QED
    BY <2>5 DEF Promise!Next
<1>4. CASE ledger' = [ledger EXCEPT ![e].deletion = TRUE]
  <2>1. \A d \in Desktops : /\ ledger'[d].starts = ledger[d].starts
                            /\ ledger'[d].boots = ledger[d].boots
                            /\ ledger'[d].deletion <=> d = e \/ ledger[d].deletion
    BY <1>1, <1>4
  <2>2. StartsOwed' = StartsOwed
    BY <2>1
  <2>3. Doomed' = Doomed \cup {e} /\ Disks' = Disks /\ Vms' = Vms
    BY <2>1
  <2>4. Promise!AskDeletion(e)
    BY <2>2, <2>3 DEF Promise!AskDeletion
  <2> QED
    BY <2>4 DEF Promise!Next
<1>5. CASE ledger' = [ledger EXCEPT ![e].stop = TRUE] \/ ledger' = ledger
  <2>1. \A d \in Desktops : /\ ledger'[d].starts = ledger[d].starts
                            /\ ledger'[d].boots = ledger[d].boots
                            /\ ledger'[d].deletion = ledger[d].deletion
    BY <1>1, <1>5
  <2>2. StartsOwed' = StartsOwed /\ Doomed' = Doomed /\ Disks' = Disks /\ Vms' = Vms
    BY <2>1
  <2>3. Promise!PowerOff
    BY <2>2 DEF Promise!PowerOff
  <2> QED
    BY <2>3 DEF Promise!Next
<1> QED
  BY <1>3, <1>4, <1>5 DEF Record

\* A row is removed of a desktop whose deletion was asked for.
LEMMA RemovalPromised ==
    ASSUME TypeOK, NEW e \in Desktops, RemoveRow(e), ledger[e].deletion, UNCHANGED <<disk, vm, ledger>>
    PROVE  Promise!Next
<1>1. status \in [Desktops -> Statuses \cup {Gone}]
  BY DEF TypeOK
<1>2. Rows' = Rows \ {e}
  BY <1>1 DEF RemoveRow
<1>3. Promise!RemoveRow(e)
  BY <1>2 DEF Promise!RemoveRow
<1> QED
  BY <1>3 DEF Promise!Next

LEMMA ApiPromises ==
    ASSUME TypeOK, Api
    PROVE  Promise!Next
<1>1. ASSUME NEW c \in Clients, ApiWrites(c)
      PROVE  Promise!Next
  <2>1. request[c].id \in Desktops /\ request[c].to \in Statuses
    <3>1. request[c] \in Requests /\ request[c] # NoRequest
      BY <1>1 DEF TypeOK, ApiWrites
    <3> QED
      BY <3>1 DEF Requests, NoRequest, Statuses
  <2>2. /\ SetRow(request[c].id, request[c].to, hyp_started[request[c].id], feed)
        /\ Record(request[c].id, request[c].to) /\ UNCHANGED <<disk, vm>>
    BY <1>1 DEF ApiWrites
  <2> QED
    BY <2>1, <2>2, RowsStay, RecordPromises
<1>2. ASSUME NEW c \in Clients, NEW d \in Desktops, ApiReads(c, d)
      PROVE  Promise!Next
  <2>1. UNCHANGED <<disk, ledger, status, vm>>
    BY <1>2 DEF ApiReads
  <2> QED
    BY <2>1, NothingPromised
<1>3. ASSUME NEW d \in Desktops, ApiBulk(d)
      PROVE  Promise!Next
  <2>1. PICK x \in BulkDecisions : SetRow(d, x[3], hyp_started[d], feed) /\ Record(d, x[3])
    BY <1>3 DEF ApiBulk
  <2>2. x[3] \in Statuses
    BY DEF BulkDecisions, Statuses
  <2>3. UNCHANGED <<disk, vm>>
    BY <1>3 DEF ApiBulk
  <2> QED
    BY <2>1, <2>2, <2>3, RowsStay, RecordPromises
<1> QED
  BY <1>1, <1>2, <1>3 DEF Api

LEMMA ChangesPromise ==
    ASSUME TypeOK, NothingWaitsUnasked, feed # <<>>, Changes(Head(feed))
    PROVE  Promise!Next
<1> DEFINE c == Head(feed)
<1>1. /\ c.id \in Desktops /\ c.old \in Statuses /\ c.new \in Statuses
  BY HeadOfFeed
<1>2. Asked(c.id, c.new)
  BY HeadAsked DEF NothingWaitsUnasked
<1>3. UNCHANGED <<disk, vm, ledger>>
  BY DEF Changes, RevertChange, HandleStart, HandleStopping, HandleDelete,
         HandleDiskDeleted, HandleForceDeleting, SkipChange
<1> HIDE DEF c
<1>4. \/ UNCHANGED status
      \/ \E h : SetRow(c.id, c.old, h, Tail(feed))
      \/ \E s \in {"Failed", "DeletingDomainDisk"} : \E h : SetRow(c.id, s, h, Tail(feed))
      \/ RemoveRow(c.id) /\ c.new \in {"DiskDeleted", "ForceDeleting"}
  BY DEF Changes, RevertChange, HandleStart, HandleStopping, HandleDelete,
         HandleDiskDeleted, HandleForceDeleting, SkipChange, IsRemove, IsForce, c
<1>5. {"Failed", "DeletingDomainDisk"} \subseteq Statuses
  BY DEF Statuses
<1>6. CASE RemoveRow(c.id) /\ c.new \in {"DiskDeleted", "ForceDeleting"}
  <2>1. ledger[c.id].deletion
    BY <1>2, <1>6 DEF Asked, DeletionStatuses
  <2> QED
    BY <1>1, <1>3, <1>6, <2>1, RemovalPromised
<1>7. CASE Rows' = Rows
  BY <1>3, <1>7, NothingPromised
<1> QED
  BY <1>1, <1>4, <1>5, <1>6, <1>7, RowsStay

\* A start waits in the queue of an online worker: it is owed.
LEMMA QueuedIsOwed ==
    ASSUME TypeOK, PromiseInv, NEW h \in Hyps, Runs(h, "start_domain")
    PROVE  /\ Head(queue[h]).id \in Desktops
           /\ ledger[Head(queue[h]).id].starts - ledger[Head(queue[h]).id].boots > 0
<1> DEFINE a == Head(queue[h])
           d == a.id
<1>1. /\ queue \in [Hyps -> Seq(ActionsOfWorkers)] /\ queue[h] # <<>> /\ a.type = "start_domain"
      /\ a \in ActionsOfWorkers /\ d \in Desktops /\ feed \in Seq(ChangesOfRows)
  <2>1. queue[h] # <<>> /\ queue \in [Hyps -> Seq(ActionsOfWorkers)] /\ feed \in Seq(ChangesOfRows)
    BY DEF Runs, TypeOK
  <2>2. a \in ActionsOfWorkers
    BY <2>1
  <2> QED
    BY <2>1, <2>2 DEF Runs, ActionsOfWorkers
<1>2. a \in StartActions(d)
  BY <1>1 DEF StartActions, ActionsOfWorkers
<1>3. Online # {}
  BY DEF Runs, Online
<1>4. [queue EXCEPT ![h] = Tail(@)] \in [Hyps -> Seq(ActionsOfWorkers)]
  BY <1>1, QueuedPopped
<1>5. Cardinality(QueuedStarts([queue EXCEPT ![h] = Tail(@)], d)) = Cardinality(QueuedStarts(queue, d)) - 1
  <2> HIDE DEF d
  <2>1. Cardinality(QueuedStarts([queue EXCEPT ![h] = Tail(@)], d))
          = Cardinality(QueuedStarts(queue, d)) - (IF a \in StartActions(d) THEN 1 ELSE 0)
    BY <1>1, QueuedPopped
  <2> QED
    BY <1>2, <2>1
<1> HIDE DEF d, a
<1>6. /\ Cardinality(QueuedStarts(queue, d)) \in Nat
      /\ Cardinality(QueuedStarts([queue EXCEPT ![h] = Tail(@)], d)) \in Nat
  BY <1>1, <1>4, QueuedIs
<1>7. Count(feed, StartChanges(d)) \in Nat /\ Owed(d) \in Int
  BY <1>1, VisitsIs, OwedIs
<1>8. Count(feed, StartChanges(d)) + Cardinality(QueuedStarts(queue, d)) <= Owed(d)
  BY <1>1, <1>3 DEF PromiseInv, Covered
<1>9. Owed(d) > 0
  BY <1>5, <1>6, <1>7, <1>8
<1> QED
  BY <1>1, <1>9 DEF Owed, d, a

LEMMA StartPromised ==
    ASSUME TypeOK, PromiseInv, NEW h \in Hyps, WorkerStartsDomain(h)
    PROVE  Promise!Next
<1>1. PICK d \in Desktops : d = Head(queue[h]).id /\ ledger[d].starts - ledger[d].boots > 0
  BY QueuedIsOwed DEF WorkerStartsDomain
<1>2. UNCHANGED <<disk, status>>
  BY DEF WorkerStartsDomain, WorkerRest, rows
<1>3. \/ UNCHANGED <<vm, ledger>>
      \/ /\ vm[h][d] = "off" /\ disk[d]
         /\ vm' = [vm EXCEPT ![h][d] = "running"]
         /\ ledger' = [ledger EXCEPT ![d].boots = @ + 1]
  BY <1>1 DEF WorkerStartsDomain, SetVm
<1>4. CASE UNCHANGED <<vm, ledger>>
  BY <1>2, <1>4, NothingPromised
<1>5. CASE /\ vm[h][d] = "off" /\ disk[d]
           /\ vm' = [vm EXCEPT ![h][d] = "running"]
           /\ ledger' = [ledger EXCEPT ![d].boots = @ + 1]
  <2>1. /\ ledger \in [Desktops -> [starts : Nat, boots : Nat, stop : BOOLEAN, deletion : BOOLEAN]]
        /\ vm \in [Hyps -> [Desktops -> {"off", "running", "paused"}]]
    BY DEF TypeOK
  <2>2. \A e \in Desktops : /\ ledger'[e].starts = ledger[e].starts
                            /\ ledger'[e].boots = IF e = d THEN ledger[e].boots + 1 ELSE ledger[e].boots
                            /\ ledger'[e].deletion = ledger[e].deletion
    BY <1>1, <1>5, <2>1
  <2>3. \A e \in Desktops : ledger[e].starts \in Nat /\ ledger[e].boots \in Nat
    BY <2>1
  <2>4. \A e \in Desktops : ledger'[e].starts - ledger'[e].boots
                              = IF e = d THEN ledger[e].starts - ledger[e].boots - 1
                                ELSE ledger[e].starts - ledger[e].boots
    BY <2>2, <2>3
  <2>5. StartsOwed' = [StartsOwed EXCEPT ![d] = @ - 1]
    BY <1>1, <2>4
  <2>6. Doomed' = Doomed /\ Disks' = Disks /\ Rows' = Rows
    BY <1>2, <2>2
  <2>7. \A g \in Hyps, e \in Desktops : vm'[g][e] = IF g = h /\ e = d THEN "running" ELSE vm[g][e]
    BY <1>1, <1>5, <2>1
  <2>8. Vms' = Vms \cup {<<h, d>>} /\ <<h, d>> \notin Vms
    BY <1>1, <1>5, <2>7
  <2>9. StartsOwed[d] > 0 /\ d \in Disks
    BY <1>1, <1>5
  <2>10. Promise!Boot(h, d)
    BY <2>5, <2>6, <2>8, <2>9 DEF Promise!Boot
  <2> QED
    BY <1>1, <2>10 DEF Promise!Next
<1> QED
  BY <1>3, <1>4, <1>5

\* A VM is as it was, or off.
LEMMA VmOff ==
    ASSUME TypeOK, NEW h \in Hyps, NEW d \in Desktops, NEW s,
           vm[h][d] # "off" \/ s = "off", vm' = [vm EXCEPT ![h][d] = s]
    PROVE  Vms' \subseteq Vms
<1>1. vm \in [Hyps -> [Desktops -> {"off", "running", "paused"}]]
  BY DEF TypeOK
<1>2. \A g \in Hyps, e \in Desktops : vm'[g][e] # "off" => vm[g][e] # "off"
  BY <1>1
<1> QED
  BY <1>2

LEMMA WorkerPromises ==
    ASSUME TypeOK, NothingWaitsUnasked, PromiseInv, NEW h \in Hyps, Worker(h)
    PROVE  Promise!Next
<1> DEFINE a == Head(queue[h])
<1>1. CASE WorkerStartsDomain(h)
  BY <1>1, StartPromised
<1>2. CASE WorkerShutsDown(h)
  <2>1. UNCHANGED <<disk, ledger, status, vm>>
    BY <1>2 DEF WorkerShutsDown, WorkerRest, rows, libvirt
  <2> QED
    BY <2>1, NothingPromised
<1>3. CASE WorkerStopsDomain(h)
  <2>1. UNCHANGED <<disk, ledger, status>> /\ queue[h] # <<>>
    BY <1>3 DEF WorkerStopsDomain, WorkerRest, rows, Runs
  <2>2. a.id \in Desktops
    BY <2>1, HeadOfQueue
  <2>3. UNCHANGED vm \/ vm' = [vm EXCEPT ![h][a.id] = "off"]
    BY <1>3 DEF WorkerStopsDomain, SetVm
  <2> HIDE DEF a
  <2>4. Vms' \subseteq Vms
    BY <2>2, <2>3, VmOff
  <2>5. Rows' = Rows
    BY <2>1
  <2> QED
    BY <2>1, <2>4, <2>5, NothingPromised
<1>4. CASE WorkerDeletesDisk(h)
  <2>1. UNCHANGED <<ledger, status, vm>> /\ queue[h] # <<>> /\ a.type = "delete_disk"
    BY <1>4 DEF WorkerDeletesDisk, WorkerRest, rows, Runs
  <2>2. a.id \in Desktops
    BY <2>1, HeadOfQueue
  <2>3. ledger[a.id].deletion
    BY <2>1, HeadActionAsked DEF NothingWaitsUnasked, ActionAsked
  <2>4. UNCHANGED disk \/ disk' = [disk EXCEPT ![a.id] = FALSE]
    BY <1>4 DEF WorkerDeletesDisk
  <2> HIDE DEF a
  <2>5. CASE UNCHANGED disk
    <3>1. Rows' = Rows /\ Vms' = Vms
      BY <2>1
    <3> QED
      BY <2>1, <2>5, <3>1, NothingPromised
  <2>6. CASE disk' = [disk EXCEPT ![a.id] = FALSE]
    <3>1. disk \in [Desktops -> BOOLEAN]
      BY DEF TypeOK
    <3>2. PICK d \in Desktops : d = a.id
      BY <2>2
    <3>3. Disks' = Disks \ {d} /\ d \in Doomed
      BY <2>3, <2>6, <3>1, <3>2
    <3>4. Rows' = Rows /\ Vms' = Vms /\ StartsOwed' = StartsOwed /\ Doomed' = Doomed
      BY <2>1
    <3>5. Promise!DeleteDisk(d)
      BY <3>3, <3>4 DEF Promise!DeleteDisk
    <3> QED
      BY <3>5 DEF Promise!Next
  <2> QED
    BY <2>4, <2>5, <2>6
<1> QED
  BY <1>1, <1>2, <1>3, <1>4 DEF Worker

\* No thread's write makes or removes a row.
LEMMA WritesPromise ==
    ASSUME TypeOK, NEW t \in Threads, Writes(t)
    PROVE  Promise!Next
<1>1. CASE UpdateDomainStatus(t)
  <2>1. UNCHANGED <<disk, ledger, vm>>
    BY <1>1 DEF UpdateDomainStatus, libvirt, users
  <2>2. job[t].step = "write" /\ SetRow(job[t].id, job[t].to, job[t].hyp, feed)
    BY <1>1 DEF UpdateDomainStatus
  <2>3. Rows' = Rows
    BY <2>2, WaitingWrite, RowsStay
  <2>4. Vms' = Vms
    BY <2>1
  <2> QED
    BY <2>1, <2>3, <2>4, NothingPromised
<1>2. CASE RemoveFieldsWhenStopped(t)
  <2>1. UNCHANGED <<disk, ledger, status, vm>>
    BY <1>2 DEF RemoveFieldsWhenStopped, libvirt, users
  <2>2. Rows' = Rows /\ Vms' = Vms
    BY <2>1
  <2> QED
    BY <2>1, <2>2, NothingPromised
<1> QED
  BY <1>1, <1>2 DEF Writes

LEMMA BroomPromises ==
    ASSUME TypeOK, Broom
    PROVE  Promise!Next
<1>1. UNCHANGED <<disk, ledger, status>>
  BY DEF Broom, BroomLists, BroomPolls, BroomRepairs, rows, libvirt, users
<1>2. Vms' \subseteq Vms
  <2>1. vm \in [Hyps -> [Desktops -> {"off", "running", "paused"}]]
    BY DEF TypeOK
  <2>2. UNCHANGED vm \/ \E h \in Hyps : vm' = [vm EXCEPT ![h] =
                                           [d \in Desktops |-> IF d \in Orphans(h) THEN "off" ELSE @[d]]]
    BY DEF Broom, BroomLists, BroomPolls, BroomRepairs, libvirt
  <2>3. \A g \in Hyps, e \in Desktops : vm'[g][e] # "off" => vm[g][e] # "off"
    BY <2>1, <2>2
  <2> QED
    BY <2>3
<1>3. Rows' = Rows
  BY <1>1
<1> QED
  BY <1>1, <1>2, <1>3, NothingPromised

LEMMA BootsPromise ==
    ASSUME TypeOK, Boots
    PROVE  Promise!Next
<1>1. UNCHANGED <<disk, ledger, vm>>
  BY DEF Boots, EngineCleans, EngineSubscribes, LaunchesWorker, WorkerGoesOnline, EventsListen,
         OrchestratorBuries, WorkerChecksCoherence, libvirt, users
<1>2. UNCHANGED status \/ EngineCleans
  BY DEF Boots, EngineSubscribes, LaunchesWorker, WorkerGoesOnline, EventsListen,
         OrchestratorBuries, WorkerChecksCoherence, rows
<1>3. ASSUME EngineCleans PROVE Rows' = Rows
  <2>1. \A s \in Statuses : \A h : Cleaned(s, h)[1] # Gone
    BY DEF Cleaned, Statuses, Gone
  <2>2. \A h : Cleaned(Gone, h)[1] = Gone
    BY DEF Cleaned, Gone
  <2>3. status \in [Desktops -> Statuses \cup {Gone}]
    BY DEF TypeOK
  <2>4. \A d \in Desktops : status'[d] = Cleaned(status[d], hyp_started[d])[1]
    BY <1>3 DEF EngineCleans
  <2>5. \A d \in Desktops : status'[d] = Gone <=> status[d] = Gone
    BY <2>1, <2>2, <2>3, <2>4
  <2> QED
    BY <2>5
<1>4. Rows' = Rows /\ Vms' = Vms
  BY <1>1, <1>2, <1>3
<1> QED
  BY <1>1, <1>4, NothingPromised

LEMMA StepPromised ==
    TypeOK /\ NothingWaitsUnasked /\ PromiseInv /\ [Next]_vars => [Promise!Next]_(Promise!vars)
<1> SUFFICES ASSUME TypeOK, NothingWaitsUnasked, PromiseInv, [Next]_vars
             PROVE  Promise!Next
  OBVIOUS
<1>1. CASE UNCHANGED vars
  <2>1. UNCHANGED <<disk, ledger, status, vm>>
    BY <1>1 DEF vars
  <2> QED
    BY <2>1, NothingPromised
<1>2. ASSUME NEW h \in Hyps, NEW d \in Desktops, GuestChanges(h, d)
      PROVE  Promise!Next
  <2>1. UNCHANGED <<disk, ledger, status>>
    BY <1>2 DEF GuestChanges, rows
  <2>2. \E s : (vm[h][d] # "off" \/ s = "off") /\ vm' = [vm EXCEPT ![h][d] = s]
    BY <1>2 DEF GuestChanges, SetVm
  <2>3. Vms' \subseteq Vms
    BY <2>2, VmOff
  <2>4. Rows' = Rows
    BY <2>1
  <2> QED
    BY <2>1, <2>3, <2>4, NothingPromised
<1>3. ASSUME NEW h \in Hyps, EventCallback(h)
      PROVE  Promise!Next
  <2>1. UNCHANGED <<disk, ledger, status, vm>>
    BY <1>3 DEF EventCallback, rows, users
  <2> QED
    BY <2>1, NothingPromised
<1>4. CASE EngineRestarts
  <2>1. UNCHANGED <<disk, ledger, status, vm>>
    BY <1>4 DEF EngineRestarts
  <2> QED
    BY <2>1, NothingPromised
<1> QED
  BY <1>1, <1>2, <1>3, <1>4, ApiPromises, ChangesPromise, WorkerPromises, WritesPromise,
     BroomPromises, BootsPromise DEF Next

LEMMA InitPromised == Init => Promise!Init
<1> SUFFICES ASSUME Init PROVE Promise!Init
  OBVIOUS
<1>1. Rows = Desktops
  BY DEF Init, Gone
<1>2. Disks = Desktops /\ Vms = {}
  BY DEF Init
<1>3. \A d \in Desktops : ledger[d].starts = 0 /\ ledger[d].boots = 0 /\ ~ledger[d].deletion
  BY DEF Init
<1>4. Doomed = {} /\ StartsOwed = [d \in Desktops |-> 0]
  BY <1>3
<1> QED
  BY <1>1, <1>2, <1>4 DEF Promise!Init

-----------------------------------------------------------------------------

\* Every start that waits anywhere (in the feed, in a queue, in a status that a change
\* would be reverted to) is owed, and none waits where no worker serves it: the engine's
\* threads cannot boot a desktop more often than the API was asked to, whatever is
\* reverted, cleaned, lost by a restart or put back by a late write.
THEOREM WaitingStartsAreOwed == Spec => []PromiseInv
BY InitTyped, NextTyped, InitKept, NextKept, PTL DEF Spec

\* The API, the engine's threads and libvirt together implement the abstract promise
\* made to the owner of a desktop (DesktopPromise): each step of the code is a request,
\* a boot that is owed on an intact disk, a power-off, a deletion asked for, or nothing.
THEOREM ThePromiseIsKept == Spec => KeepsPromise
BY InitTyped, NextTyped, InitAsked, NextAsked, InitKept, NextKept, InitPromised, StepPromised,
   PTL DEF Spec, KeepsPromise, Promise!Spec
=============================================================================
