# CloudDesk (IsardVDI): a verification project

CloudDesk is a fork of IsardVDI, a virtual desktop platform: users ask a web API for desktops, an
engine runs them as libvirt VMs on hypervisors, every process shares its state in RethinkDB, and
the user works with a desktop in a browser, through a noVNC or a SPICE viewer. This project models
the parts where concurrency decides what a user gets: whether a desktop is kept or lost (the
engine), whether the lists in the browser are true (the feeds and the stores), and whether the
viewers show what was sent and send what was meant. It holds TLA+ modules, TLC configurations and
TLAPS proofs; `PROJECT.json` maps every definition to the lines it translates.

## 1. Inventory

### Components, state and interactions

| Component | State | Operations | Talks to |
|---|---|---|---|
| API (`src/api`) | none in memory that desktops depend on; rows of RethinkDB | start, stop, shutdown, delete, bulk and forced variants (`api_desktop_events.py`); creation, templates, deployments, bookings, quotas, users, media, storage | writes `domains[d].status`; the engine sees the change |
| Engine main (`engine/models/engine.py`) | `ThreadMainEngine`, `DomainsChangesThread` and its changefeed | start-up clean, subscription, one handler per change of status | `ui_actions.py`, queues of workers |
| Engine actions (`controllers/ui_actions.py`) | none | what a change starts: pick a hypervisor, queue an action, write a status | pool, queues, database |
| Workers (`services/threads/hyp_worker_thread.py`) | a priority queue and a thread per hypervisor, the local `dom_id` | start, stop, shutdown, delete a disk, coherence check | libvirt, ssh, database |
| Events (`controllers/events_recolector.py`) | connections to libvirt | callback per lifecycle event: read a row, write a status | database |
| Broom (`controllers/broom.py`) | a snapshot per pass | list rows, poll hypervisors, repair, destroy VMs without a row | libvirt, database |
| Orchestrator (`models/hypervisor_orchestrator.py`) | lists of hypervisors, threads and queues | launch, bury, enable, disable, delete hypervisors | workers, database |
| Pool and balancers (`models/pool_hypervisors.py`) | round-robin position, cached statistics | pick a hypervisor, a vGPU | database |
| Disk and long operations threads | a queue each | create disks and templates | ssh, database |
| Bookings, quotas, scheduler | rows, scheduled jobs | check capacity then insert; count then create; fire at a date | database, API |
| guac, rdpgw, websockify (Go) | map of tunnels, counted lock | connect, expire, lock a reader | browsers, VMs |
| API feeds (`api_socketio_domains.py`, `api_socketio_deployments.py`, `api_admin_socketio.py`) | a changefeed per thread, what the thread holds between reading and telling | turn changes of rows into events for the rooms of users | database, socket.io |
| Deployments (`api_deployments.py`) | rows of deployments and of their desktops | create, recreate, show, hide, delete: several updates each | database |
| Frontend (`frontend/src/store`) | lists of desktops and deployments, the page that is open | fetch a list, apply an event, open a page | API, socket.io |
| noVNC session (`docker/static/noVNC/src`: `app/ui.js`, `core/rfb.js`, `websock.js`, `display.js`) | connection and handshake states, receive queue, drawing queue, timers | connect, reconnect, authenticate, one handler per server message, draw, flush | VNC server behind websockify, browser |
| noVNC input (`core/input`, `core/rfb.js`) | keys down, AltGr detection, buttons, throttled moves, tracked touches and their timers | key, mouse, wheel, gesture handlers | VNC server, browser |
| SPICE display (`docker/static/spice-web-client`: `process`, `lib`) | messages waiting for workers, messages waiting for the next flush, run queue, canvases, image cache | receive, decode, drop redundant draws, paint | workers, browser |
| SPICE session (`network`, `application`) | a socket, a receive queue and counters per channel, queue of channels to open, agent tokens | open, link, frame, acknowledge, send, disconnect | SPICE server |
| authentication, stats, VPN, webapp | sessions, exports, views | request/response | API |

`PROJECT.json` "components" lists each with its files, its status and, when it is not modelled, why.

The shared state of the engine is the row of a desktop: `status` and `hyp_started`. No lock protects it. These
write it, each with a read, some work and then an unconditional `update`:

* the API, from a status it has just read (`desktop_start`, `desktop_stop`, `desktop_delete`) or in
  one filtered update (`desktops_stop`, `desktops_delete`);
* `DomainsChangesThread`, when it handles a change of the changefeed, possibly much later;
* the worker of a hypervisor, after what libvirt answered;
* the events thread, after what libvirt reported;
* the broom, from a snapshot it took seconds before;
* the coherence check of a worker that comes online, and the start-up clean;
* the orchestrator, for what was queued on a worker that died.

`update_domain_status` is itself two writes when the status is Stopped or Failed: the second one
(`remove_fieds_when_stopped`) clears `hyp_started`.

In the browser nothing runs in parallel, but everything interleaves: a handler runs to its end, and
between two handlers any timer, message, decoded image, worker's answer or user's action may come.
A viewer parses a stream that the network cuts anywhere; each cut may stop a parser half-way.

### What is hard

* Engine: stale reads before unconditional writes; changes handled late and in an order that no
  longer matches the row; two updates that are meant as one; a restart that loses queues and pending
  writes but neither rows nor VMs; a gap between the start-up clean and the opening of the
  changefeed; a handler or a thread that ends half-way in an exception; forced deletions that do not
  wait for the stop and the deletion they start.
* Feeds and stores: a change is described by rows read after it; two threads tell of one deployment;
  a fetched list crosses events; a feed or a socket is lost and opened again.
* noVNC: parsers that wait in the middle of a message and give back what they read; a flush that
  stops the parser; timers that race a close, a message and the user; keys and touches whose end is
  not reported as its beginning was.
* SPICE: decoding in any order and painting in one, frames of streams that wait for nobody; draws removed as redundant; two flow controls
  counted at both ends; channels opened while others fail or the user leaves.

The list, line by line, is in `PROJECT.json` "hazards".

### What makes each component correct

* Life cycle: no VM stopped, disk deleted or row removed without being asked; a boot per start; a
  row never removed with its disk left to nobody; forced deletions final; nothing stuck in a
  transitional status; a restart that loses no desktop.
* Feeds and stores: a list that missed nothing shows what the tables say; a page shows one
  deployment.
* noVNC: the stream stays in step and the buffer in bounds; what is drawn is drawn in order; updates
  keep flowing; connecting and disconnecting end, and leaving is final; nothing stays pressed.
* SPICE: the canvas is what painting in order would give; every message arrives once and whole; both
  ends count alike; all arrives or an error is told. (Of frames and of headers that come alone this is
  not so: section 3.)
* Not modelled: each enabled hypervisor gets a worker; a row outlives its last disk;
  bookings within the planned capacity; quotas within the limit; no tunnel expires under a reader.

## 2. Modules

| Module | What it is |
|---|---|
| `DesktopLifecycle` | the component: rows, changefeed, workers, events, broom, restarts, API |
| `DesktopPromise` | the abstract specification: what the owner of a desktop is promised |
| `MCDesktopLifecycle` | symmetry for TLC; each `.cfg` gives the constants |
| `DesktopProofs` | type correctness, the inductive invariant and the safety theorems; that the threads implement `DesktopPromise` |
| `DesktopFeed` | deployments, the feeds' threads, the browser's pages and stores |
| `DesktopFeedProofs` | what is on its way to the stores, line by line, and that the lists agree with the tables, proved |
| `Websock`, `RenderQueue` | noVNC's receive queue and drawing queue, as operators on records |
| `RfbConnection` | the page, the connection states and the handshake; extends the two queues |
| `RfbSession` | the connected session: every server message, updates, flush, clipboard; extends `RfbConnection` and is the whole viewer |
| `ViewerProofs` | lemmas of the two queues, types, order of drawing, the buffer's bounds; the handshake of viewer and server followed step by step |
| `ViewerFrameProofs` | what waits to be drawn, through every step, and where the handlers stand in the stream |
| `Gestures` | noVNC's gesture detector, as operators on a record |
| `ViewerInput` | keyboard, mouse and fingers of a connected noVNC viewer |
| `SpiceDisplay` | a SPICE display message from its reception to the canvas |
| `SpiceChannel` | the receiving side of a SPICE channel, as operators on a record |
| `SpiceSession` | the channels of a SPICE session, their flow control, the agent and the user |
| `SequenceLemmas` | counting the places of a list that hold something, the least of a set of naturals, induction over lists |
| `ViewerInputProofs` | the inductive invariant of keyboard, pointer and gesture detector, and the input's theorems |
| `SpiceDisplayProofs` | the folds of the SPICE display, their order and the picture they paint, proved |
| `SpiceSessionProofs` | the theorems of the SPICE session |
| `MC...` | instances for TLC |

### `DesktopLifecycle`

| Variable | Code |
|---|---|
| `status`, `hyp_started` | `domains[d].status`, `.hyp_started`; `Gone`: no row; `NoHyp`: False, `Blank`: `""` |
| `disk`, `vm`, `events` | the disk file; what libvirt runs on each hypervisor; its events on their way |
| `engine` | before the start-up clean, between it and the changefeed, after |
| `feed` | changes of the changefeed not handled yet |
| `worker`, `unchecked`, `queue`, `dom_id` | life of a worker thread, its coherence check, its `PriorityQueueIsard`, its local `dom_id` |
| `listening` | hypervisors registered with the events thread |
| `job` | the write each thread is about to do, read and decided already; `Dead`: the thread ended in an exception |
| `broom` | `seen`: the rows listed; `left`: hypervisors to poll; `todo`: repairs |
| `request` | the write each API request is about to do |
| `budget`, `ledger` | what is left of a scope's bounds, with the operations and clients it allows; history of what was asked (used by properties only, as `budget.spent`) |

Actions:

* API: `ApiReads`/`ApiWrites` are the two halves of a single request, `ApiBulk` an atomic one.
* `RevertChange`, `HandleStart`, `HandleStopping`, `HandleDelete`, `HandleDiskDeleted`,
  `HandleForceDeleting`, `SkipChange`: one change of the feed.
* `WorkerStartsDomain`, `WorkerShutsDown`, `WorkerStopsDomain`, `WorkerDeletesDisk`: one action of a
  worker's queue; what it reports is a write of its own.
* `UpdateDomainStatus(t)`, `RemoveFieldsWhenStopped(t)`: the two updates, by any thread.
* `EventCallback`: one libvirt event, decided on the status of that moment, written later.
* `BroomLists`, `BroomPolls`, `BroomRepairs`: the three phases of a pass.
* `EngineRestarts`, `EngineCleans`, `EngineSubscribes`, `LaunchesWorker`, `WorkerChecksCoherence`,
  `WorkerGoesOnline`, `EventsListen`, `OrchestratorBuries`: a restart and what follows.
* `GuestChanges`: a guest powers off, is paused or resumed by itself.

Abstractions:

* A desktop has one disk and is of kind desktop. Hypervisors are enabled and in the pool "default";
  any online one may be picked.
* The XML, hardware, viewers, history and log of a domain are left out, except that a start may
  fail on them and that it clears `hyp_started`.
* A call of libvirt or ssh that may fail does so at the expense of `budget.faults`; the exceptions that
  follow from the state alone (a row or a VM that is gone, a hypervisor without a queue) need none.
* A restart is a crash at any point: queues, feed and pending writes are lost; requests of the API
  go on, since the API is another process. `EngineCleans` is one step for all rows.
* `OrchestratorBuries` handles a queued action per step, with the write of its clean apart.
* A dead worker leaves its row Online: nothing tells the database, so it stays in `Online`.
* The broom turns Shutting-down into Stopping after five minutes: here at any time. Its own destroy
  is taken to succeed.
* The coherence check asks libvirt once for all domains (`hyp.py:1316`); `WorkerChecksCoherence` looks
  at each desktop's VM when it comes to its row. That the listing itself fails (`hyp.py:1305`) is left
  out.

### The noVNC viewer: `Websock`, `RenderQueue`, `RfbConnection`, `RfbSession`

| Variable | Code |
|---|---|
| `ui` | the page (`UI.connect`, `reconnectCallback`, `disconnect`, the dialogs); `left`: the user left for good, `toggled`: view only was changed (both history) |
| `rfb` | the RFB object: `_rfbConnectionState`, `_rfbInitState`, `_FBU`, `_flushing`, timers; `synced` (history): each read began where a message begins |
| `ws` | the raw channel and the handlers bound to it |
| `buf` | `_rQ`, `_rQi`, `_rQlen`, `_rQbufferSize`, as a record of `Websock` |
| `disp` | `_renderQ` and the flush that is awaited, as a record of `RenderQueue`; `drawn` (history): what was drawn, in order |
| `turn` | the handler that runs; one step is one message of its loop, and no event is taken until it is idle |
| `wire`, `up` | units and messages on their way, in each direction |
| `srv`, `scope` | the VNC server; what it may send and the bounds |

Actions: the page (`UIConnect`, `UIReconnect`, `UICancelReconnect`, `UIDisconnect`...), the channel
(`SocketOpens`, `SocketCloses`, `ReceiveMessage` with any number of units), the timers
(`DisconnectTimesOut`, `ResumeAuthentication`, `ArdComputed`, `ImageLoads`), one action per
handshake state and one per server message. `AfterFlush` is the promise that resumes
`_handleMessage` when the previous frame is drawn.

Abstractions: a unit of the stream stands for the bytes between two points where a parser may have
to wait, so every wait is kept and lengths are not; the security types are those that differ in what
they wait for and send (none, VNC, XVP, VeNCrypt, Tight, ARD), and the cryptography is left out; a
dialog asks for missing credentials and the user may answer it or not. A rectangle is a fill, an image the browser decodes, or a
pseudo rectangle; decoders are left out. The name of a target that XVP takes with the credentials
(`rfb.js:1500-1502`) is not one of them: the page's dialog never asks for it. That `Websock` throws when data do
not fit the largest queue (`websock.js:310-315`) is not reached: `Fits` lets the network deliver only what
fits. The server is external, speaks version 3.8 and answers a
handshake message only when the client's own message has come.

### noVNC input: `Gestures`, `ViewerInput`

`user` is what is really down; `kb.server` and `mouse.server` are what the server holds for pressed.
The user's system (`os`) is the environment: a press or release becomes the events that this system
reports for it, those it invents (the Control of AltGr on Windows) and those it leaves out (keys
under Meta on macOS, the second Shift on Windows). `HandleKeyDown` and `HandleKeyUp` are
`keyboard.js`; `HandleMouseButton`, `HandleMouseMove`, `HandleWheel` and `HandleGesture` are
`rfb.js`; `TouchStart`, `TouchMove`, `TouchEnd`, `LongpressTimeout` and `TwoTouchTimeout` are
`gesturehandler.js`.

Abstractions: a place is one of two; geometry is reduced to whether a touch went beyond the
threshold and what two touches look like. `Tick` ages touches by a quarter of a second, which is
what the timeouts (250 ms, 1 s) need. A gesture moves the pointer far enough to drag the viewport, or
not (`far`, any of the two). `odd` (history) marks what is known to upset the server's
view: view only switched on while keys are down, the page left while an AltGr is awaited, dragging
of the viewport switched while a button or a finger is down, and a mouse and fingers at once while
it is on.

### SPICE display: `SpiceDisplay`

A message is known by its number. `queued`, `inProcess`, `working` and `idle` are
`displaypreprocess.js`; `waiting` and `Flush` (every 50 ms) with `WithoutRedundantDraws` are
`displayprocess.js`; `screen` holds the `RunQueue`, the canvases,
the image cache and the video frames that load. `ideal` (history) is what painting each message on
its own, in order, would give, and `failed` the images that did not decode. A canvas is two areas,
each with the numbers of the messages one sees in it; an image is what it costs to get it (nothing,
a worker, the browser's decoder, the cache, another surface). A fill may have a pattern, which is an image too.

A frame of a stream holds up nothing: its task ends when its `Image` has its source
(`handleStreamData`), and `FrameLoads` paints it on the canvas as it is then. An `Image` goes back to
the pool when its task ends, decoded or not, so the next image or frame that starts takes it and
the frame it was loading is lost (`ImageStarts`, `FrameStarts`). `screen.outrun` (history) says that a task
ran while a frame was being decoded, unless it was a frame that hides the first; it counts any other task, also
one that changes no canvas. Streams are of the screen, as `DisplayAssumption` says; what clips them
is left out.

A palette is what one server may send; `ServersConform` says of it that no draw on the other surface
reads the screen and that an image that is kept comes with a copy, a blend or a pattern.
`PaintedAsSent` needs both (section 3), and TLC evaluates them for the palettes of the runs.

### SPICE session: `SpiceChannel`, `SpiceSession`

`sock` is the WebSocket of each channel, `rx` what `FixedQueue`, `SizeDefiner`, `PacketExtractor`
and `PacketReassembler` hold, `ack` the window of `spicechannel.js`, `agent` the tokens of
`agent.js`, `runQ` and `proxy` the queue of channels to open, `server` the other end, `wire`, `up`
and `down` what was sent and what is on its way. `turn` is the channel whose chunk is handled: one
step takes one part of one message. The stream is cut anywhere (`Receives`): in a header, in a body,
between them, or in any number of messages at once; the channels in a scope's `split` are. A header is two units and
a body one or two: enough for each of the cuts. A header is a view of the queue's own array, and
when it was all that the queue held the next chunk is written over it (`SpiceChannel`'s `Overwritten`).
`cut` (history) names the messages whose header was the end of a chunk, and a scope's `cuts` bounds how many there are. A
message read with such a header is handled as number 0; what it is taken for depends on its bytes,
and the model takes it for a type that nobody handles, so what the properties say of the client's counters they
say until then (`Garbled`).

The queue grows when a chunk does not fit (`queue.js:78-84`): the model's is as large as it needs. What the agent
answers to a clipboard message (`agent.js:149-172`) is left out: it goes out by `send`, like the grant of
tokens, and changes nothing that the properties see.

### Feeds and stores: `DesktopFeed`

`row` and `dep` are the tables, `changes`, `depChanges` and `removed` the changes that the threads
have not taken, `domains` and `deployments` the two threads (is the changefeed open, has the thread
ended, what it holds between reading and telling), `wire` the events on their way, `page`, `store`
and `asked` the browser. Requests of a deployment are several steps, one per update of
`api_deployments.py`, so that a change is told with rows of a later moment. Some of their reads go with the update that
follows: `VisibleOnDesktops` reads the visibility and updates the desktops in one step
(`api_deployments.py:457-471`), `DeleteDesktops` checks that all are stopped and marks them (330-355), `CountDesktops` counts and
deletes the deployment if none is left (357-363). One request to show, hide or delete a deployment is under way at a time, and one fetch
of each list. `TakeChange` is one turn
of `DomainsThread`, `TellDeployment` its summary; `Open`, `Read` and `Answer` are a fetch.

`trust` (history) says of each list whether it was fetched and told of everything since: it is `due`
a fetch, `kept`, or `missed` something, when a changefeed or the socket was lost, or when the code
drops a change by design because of the status the row has (`Untold`). One user owns the
deployments; the five statuses are those that the feed treats differently.

## 3. Runs

| Run | Bounds | Checks |
|---|---|---|
| `Requests` | three scopes: 2 clients with 2 requests out of start, stop, shutdown, delete and their bulk and forced variants, and a guest that acts; 1 client with 2 requests out of start, stop, delete and force delete, a restart, and a fault or a guest | `TypeOK`, `RemovedWithItsDisk`, `NothingDeletedUnasked`, `NothingWaitsUnasked`, `StoppedOnRequest`, `KeepsPromise` |
| `Endings` | 2 requests out of start, delete and force delete, a guest, a restart, fairness | `ForceDeletedForGood`, `DiskDeletionEnds`, `UnknownResolves`, `OrphansAreDestroyed` |
| `Viewer` | three situations: two sessions with every security type, a refusal, reconnections and a user who leaves; one session with updates of several shapes and every other message, two of them sent; one with updates that may have no rectangle, three sent | `TypeOK`, `BufferFits`, `InSyncUntilToggled`, `DrawnInOrder`, `OneFrameWaits`, `StaysDisconnected`, `UpdatesKeepFlowing`, `HandshakeEnds`, `DisconnectEnds` |
| `Input` | six mixes: five touch inputs of up to three fingers; six key inputs; mouse and fingers together; four key inputs under each system | `TypeOK`, `NoStuckKeys`, `NoStuckButtons`, `PointerInPlace`, `DetectorResets`, `TapIsLostToTimerOnly` |
| `SpiceDisplay` | four messages out of one of four palettes (caches, covering draws, a second surface, two streams among draws), two consumers | `TypeOK`, `NothingOvertakes`, `NoConsumerIsLost`, `PaintedAsSent`, `StreamGoesForward`, `AllIsPainted` |
| `SpiceSession` | three situations: four channels opened with a failing socket, a key and a user who leaves; a main channel whose agent goes and comes back; a display channel that exceeds its window; the last two cut anywhere, once right after a header | `TypeOK`, `MessagesIntact`, `AcksAgree`, `TokensAgree`, `NoErrorOfItsOwn`, `StaysDisconnected`, `EverythingArrives` |
| `Feed` | five situations: one deployment with its desktop and one desktop of the user's own, up to two changes, a page opened, a connection lost | `TypeOK`, `ListsAgree` |

The bounds are small, but the interesting cases happen inside them.

* Engine: one desktop and one hypervisor, since rows are independent but for the order of a queue;
  two requests are enough for a decision that is stale when it is written, one guest for a VM that
  stops under a pending request, one restart for a queue that is lost. Overlapping requests,
  failures and guests under a restart are scopes of their own, since together they are out of TLC's reach; the theorems remove
  the bounds for safety, and know of no scopes.
* Viewer: the buffer starts with 4 units and may grow to 64, so that it is compacted, grown and read
  to its end; two updates are what a frame and the next one need, and a third what an empty one between
  them does; two sessions what a reconnection needs.
* Input: the gesture detector tells one, two, three and more fingers apart, and three is where its
  states end; six key inputs are a pair of modifiers with a repeated letter inside.
* SPICE display: with two consumers a third message waits, and four messages are a draw, two that
  may cover or copy it, and one that uses the result.
* SPICE session: a window and a grant of 2 instead of 20 and 10 are used up twice. One header that
  ends a chunk garbles one message, after which `AcksAgree`, `TokensAgree`, `NoErrorOfItsOwn` and
  `EverythingArrives` say nothing: `MessagesIntact` says that it is this message and that no other is
  lost or moved.
* Feed: two changes are one told with the other's rows; three take TLC out of reach.

Five properties except what the code does not keep; the exceptions are described below.
`UpdatesKeepFlowing` excepts an update without rectangles that waits for an image (`EmptyUpdateWaits`),
`TapIsLostToTimerOnly` the tap after a two-finger timer that has fired, `MessagesIntact` a message whose
header ended a chunk, `PaintedAsSent` a picture for which a task ran while a frame was being decoded
(`outrun`). `RemovedWithItsDisk` speaks of behaviours in which nothing has failed and the engine has not
restarted so far (`Calm`): a disk whose deletion fails, or whose worker is killed, does stay behind. `DetectorResets` says of a detector without fingers that it has forgotten the touches,
thinks every gesture possible and runs no timer; not that it has forgotten the timer's id.

Deadlock is checked where the system never stops (the engine: the broom's next pass is always
possible); the other runs say `CHECK_DEADLOCK FALSE`, since a session ends and a bounded user has
nothing more to do. Every action is taken by some run. No run uses symmetry.

`KeepsPromise` is the refinement: under the mapping of `DesktopLifecycle` (rows, disks, VMs, starts
not used yet, deletions asked for) each step is a step of `DesktopPromise` or a stutter.

`ForceDeletedForGood` is checked without stops, since with them `AbortedForce` applies, and it does
not count on the last restart allowed: a restart may lose the stop that a forced deletion queued.
`ListsAgree` speaks of lists that were told of everything; an answer that was read before an event
and arrives after it undoes the event, and its list is taken to be `due` a fetch, not to agree; what makes a list miss something is
stated in `trust`, and most of what is seen below comes from there.

### What the code says and does not keep

Each of these runs checks one statement of a comment, a log line or a name, and TLC refutes it; the
finding in `PROJECT.json` quotes the line.

| Run | Statement | What happens |
|---|---|---|
| `StoppingUnhosted` | a Stopping desktop has a hypervisor | a stop decided on Started is written after the guest powered off: Stopping, no hypervisor, until a restart |
| `AbortedForce` | a ForceDeleting desktop is being deleted | `hyp_started` is `""`: `KeyError` before the deletions |
| `ViewOnlyDesync` | the parser consumes the message it was given | view only is switched on between a clipboard request and the answer: the text stays in the stream and is taken for messages |
| `LostTap` | a tap is heard whatever gesture came before it | `_twoTouchTimeout` fires, tells a drag from a pinch and leaves `_twoTouchTimeoutId` (`gesturehandler.js:408-433`): the next tap counts as one that came too early (269-273) and is dropped |
| `EmptyUpdate` | a connected viewer asks for the next update | an update of 0 rectangles comes while images of the last one are decoded: `_framebufferUpdate` returns false for the flush (`rfb.js:2480-2484`), and after it 0 rectangles look like no update at all: `fbUpdateRequest` is never sent |

### Seen while modelling

What follows is in the modules but no run is spent on it: no line of the repository promises
otherwise, or a property above is stated so as to leave it out.

Engine:

* A start of an active domain reaches `dom_id` unbound, or bound to another desktop
  (`hyp_worker_thread.py:400`): the worker's thread ends.
* A Starting desktop that is running: the broom calls a dictionary (`broom.py:359`), and every pass
  ends there.
* A change that is reverted before any worker exists clears `hyp_started` (`engine.py:456`): the
  desktop stays Unknown.
* With two hypervisors and four overlapping requests a late Stopped of the old worker lets a desktop
  run on both. Deleting, Starting and Stopping can each be left stuck by overlapping requests. A
  restart does not touch rows in ForceDeleting.

noVNC:

* Keys that are down when view only is switched on are never released at the server: the setter
  stops the sending before the keyboard lets go of them.

SPICE:

* A chunk of a channel's stream that ends right after a header garbles the message: the header that
  waits for its body is a view of the queue (`queue.js:68`), and the chunk with the body is written over
  it (70-72, 85). `MessagesIntact` names these messages (`cut`); without that disjunct TLC refutes it
  in the run `SpiceSession`.
* The task of a stream's frame ends before the frame has loaded (`rasterEngine.js:68-84`), so a late frame
  is painted over what came after it and stays there, though `displayprocess.js:131-133` says that a
  packet waits "until the previous packets finished processing". `PaintedAsSent` leaves out what was
  `outrun`; without that TLC refutes it in the run `SpiceDisplay`.
* Every tenth message of the agent grants tokens and is not looked at (`agent.js:133`).
* A frame that has not loaded is lost to the next image or frame, which takes the `Image` it was
  loading in: that went back to the pool when the frame's task ended (`GlobalPool`). This too is
  `outrun`.
* The comment of `displayprocess.js:17-19` calls the removal of redundant draws buggy and speaks of
  disabling what collects them; the code collects and removes. Apart from the two cases below the model finds no draw that is missed.
* A key sent before the inputs channel is linked breaks the session; `early` marks it.
* A draw on another surface that reads the screen does not keep the screen's draws from being
  dropped as redundant (`displayprocess.js`, 56-125): the copy then shows what was there before. And
  that an image is to be kept is asked of copies, blends and patterns only (`getImageProperties`): another draw that carries one is dropped with it, and a later draw from the cache finds nothing.
  With a palette that has the one or the other TLC refutes `PaintedAsSent`; no palette of the run
  has one (`ServersConform`).

Feeds and stores:

* `update_deployment` assigns what an event says over the open deployment without comparing their ids,
  and keeps its desktops (`deployment.js:57-61`); the events go to a room per user. With two deployments
  of one user the open page takes the id and name of the other, and TLC refutes `ListsAgree`.
* `add_desktop` and `add_deployments` append without looking: a list fetched after the change, and
  told of it afterwards, shows it twice. An answer read before an event undoes the event.
* A row inserted, shown or hidden while its status is one the feed drops is never told of.
* An exception ends `DeploymentsThread` for good (`api_socketio_deployments.py:80`); until the API
  is restarted nobody is told of deployments.
* The summaries of the two threads may come in the wrong order. A deployment whose desktops cannot
  all be deleted stays "deleting" (`api_deployments.py`, 356-367).

## 4. Fairness

* `DesktopLifecycle`: weak fairness of each engine thread (the change handler, each worker, each
  thread's pending write, the broom, the start-up and orchestrator steps) and of libvirt's delivery
  of events: loops of a process that is running. Nothing is assumed of users, guests, faults or
  restarts.
* `RfbSession`: weak fairness of the handlers (a turn ends), of the arrival of data, of each timer,
  of the browser's decoding, of a socket that is connecting (it opens or closes), and of a server
  that answers the handshake and reads what it is sent. Nothing is assumed of what the server sends
  by itself or of the user.
* `SpiceDisplay`: workers answer, the flush timer fires, an image loads or fails.
* `SpiceSession`: weak fairness of the protocol as a whole (some message moves as long as one can).
* `ViewerInput` and `DesktopFeed` have safety properties only.

Strong fairness is assumed nowhere: what a thread can be kept from for ever, it may never do.

## 5. Proofs

For any values of the constants, from `ConstantsAssumption` (engine), `SizeAssumption` and
`ScopeAssumption` (viewer: the buffer's sizes, and scopes made of known encodings and messages,
whose bounds are naturals),
`DisplayAssumption` (display), `SessionAssumption` (session), `TagAssumption` and
`ScopesAssumption` (feeds: finitely many desktops and deployments, tags that name one or none, and
situations that begin with rows of the tables, no request under way and nothing of what is not
inserted yet); the theorems about input need none of them. Four theorems about the session have a hypothesis of their own, `Orderly`: no channel is opened
twice. The stream may be cut anywhere, right after headers too; what the header cut does is in the
statements, `MessagesIntact` by naming the message that is garbled and the other three by `Garbled`.
`AcksAreCounted` also asks that a server sets a channel's window once (`WindowSetOnce`), and
`TokensAreCounted` that the agent speaks on the main channel only and, when it comes back, has spoken
since the client's last start (`AgentHeard`): of two starts on their way each grants all the tokens,
and `TokensAgree` is false there, as TLC shows for a script that starts twice before the agent speaks.
TLC evaluates the three for the scopes of the run
(`SessionsOrderly`). `HandlersStayInSync` supposes of the servers that they put nothing behind a last
rectangle and send the text of a clipboard only when asked (`Conforms`): a viewer that only watches
leaves the text in the stream (section 3), so a server that sent it unasked would put it out of sync
without anybody changing view only. TLC evaluates it for the scopes of the runs (`ScopesConform`).
`ThePictureIsAsSent` supposes `ServersConform` (section 2), evaluated likewise (`PalettesConform`). And
`TheListsAgree` supposes one deployment, as in the run `Feed`: with two, an event of the one gives
its id to the open page of the other (section 3). `TheUsersListsAgree` is what holds with any
number of them.

| Module | Theorem | Statement |
|---|---|---|
| `DesktopProofs` | `TypeCorrect` | `Spec => []TypeOK` |
| | `StaleCopiesWereAsked` | `Spec => []NothingWaitsUnasked` |
| | `DeletedOnlyOnRequest` | `Spec => []NothingDeletedUnasked` |
| | `PoweredOffOnlyOnRequest` | `Spec => StoppedOnRequest` |
| | `NoDiskIsLeftBehind` | `Spec => []RemovedWithItsDisk` |
| | `ThePromiseIsKept` | `Spec => KeepsPromise` |
| | `WaitingStartsAreOwed` | `Spec => []PromiseInv` |
| `DesktopFeedProofs` | `FeedIsTyped` | `Spec => []TypeOK` |
| | `TheUsersListsAgree` | `Spec => [](Drained => DesktopsAgree /\ DeploymentsAgree)` |
| | `TheListsAgree` | `(\A p, q \in Deployments : p = q) => (Spec => []ListsAgree)` |
| `ViewerProofs` | `LeavingIsFinal` | `Spec => StaysDisconnected` |
| | `DrawingIsInOrder` | `Spec => []DrawnInOrder` |
| | `BufferIsSafe` | `Spec => []BufferFits` |
| | `ViewerIsTyped` | `Spec => []TypeOK` |
| `ViewerFrameProofs` | `OneFrameAtATime` | `Spec => []OneFrameWaits` |
| | `HandlersStayInSync` | `(\A s \in Scopes : Conforms(s)) => (Spec => []InSyncUntilToggled)` |
| `ViewerInputProofs` | `DetectorForgets` | `Spec => []DetectorResets` |
| | `NextTapIsHeard` | `Spec => []TapIsLostToTimerOnly` |
| | `NoKeyStaysDown` | `Spec => []NoStuckKeys` |
| | `NoButtonStaysDown` | `Spec => []NoStuckButtons` |
| | `PointerArrives` | `Spec => []PointerInPlace` |
| | `InputIsTyped` | `Spec => []TypeOK` |
| `SpiceDisplayProofs` | `ConsumersAreKept` | `Spec => []NoConsumerIsLost` |
| | `DisplayIsTyped` | `Spec => []TypeOK` |
| | `NothingIsOvertaken` | `Spec => []NothingOvertakes` |
| | `FramesGoForward` | `Spec => StreamGoesForward` |
| | `ThePictureIsAsSent` | `ServersConform => (Spec => []PaintedAsSent)` |
| `SpiceSessionProofs` | `DisconnectedForGood` | `Spec => StaysDisconnected` |
| | `MessagesStayIntact` | `Orderly => (Spec => []MessagesIntact)` |
| | `HandlersBreakNothing` | `Orderly => (Spec => []NoErrorOfItsOwn)` |
| | `AcksAreCounted` | `Orderly` and `WindowSetOnce` imply `Spec => []AcksAgree` |
| | `TokensAreCounted` | `Orderly` and `AgentHeard` imply `Spec => []TokensAgree` |
| | `SessionIsTyped` | `Spec => []TypeOK` |

`NothingDeletedUnasked` is not inductive: a handler removes a row because of a change in the feed,
a worker deletes a disk because of an action in its queue, a reverted change writes a status that
the row had before. `NothingWaitsUnasked` says it of every place where a status or an action can
wait: rows, both ends of each change of the feed, queues, pending writes, the broom's snapshot and
its repairs. With `TypeOK` it is inductive. Its proof has a lemma per part (what a step that only
drops, keeps or adds to the part does to it) and a lemma per group of actions; the ledger only
grows (`Later`), so what was asked before a step was asked after it. `PoweredOffOnlyOnRequest`
follows because only a guest, a worker's stop and the broom's destroy of a VM without a row power
a VM off (`PowerOffAsked`). `PutOf` is the lemma about the priority queue: the new queue is one
longer and holds the old actions and the new one.

`NoDiskIsLeftBehind` rests on `Calm => RemovedInv`: what was drawn on stays in `budget.spent`, so a
step that ends calm began so (`CalmBefore`). Until a fault or a restart the engine that `Init` starts
stays up and its workers online (`Undisturbed`). A row is removed only on a report of `DiskDeleted`,
and such a report tells the truth wherever it waits: in the row, in the feed at either end of a
change (`DomainsChangesThread` reverts to the old one), in what a thread is about to write
(`RowsTell`, `FeedTells`, `JobsTell`). The truth is that the disk is gone or that a worker has its
deletion in the queue, and a queue loses a deletion only when its worker carries it out.

`ThePromiseIsKept` maps every step to a step of `DesktopPromise` or to a stutter. Removals and
deletions follow from `NothingWaitsUnasked`. What is hard is the boot: that a worker which takes a
start from its queue finds one owed (`ledger.starts - ledger.boots > 0`), although a status of
Starting can be written by the API, reverted by `DomainsChangesThread`, forgotten by a restart or
cleaned at start-up. `PromiseInv` counts the starts that can still come of what waits. With a worker
online these are the changes to Starting in the feed and the start actions in all queues
(`QueuedStarts`). With no worker online a change out of Starting is reverted, which may make the
desktop Starting once more, so every visit of the feed to Starting counts (`Visits`); that these two
counts agree when the first worker comes online, and that a revert adds no visit it has not taken,
needs `FeedJoined`: each change of a desktop begins where the one before it ended. Only an online
worker's queue holds a start (`StartsServed`), no thread is about to write Starting
(`NoStartWritten`), and an engine that is not up has forgotten everything (`NothingLeft`). The
counts are cardinalities of sets of places; `SequenceLemmas` says what inserting, appending and
taking the head do to them.

`ListsAgree` speaks only of the moments when nothing is queued, and of lists that missed nothing.
Between these moments the invariant speaks of a *line*: what is on the wire, what the thread holds,
what it has not taken, one behind the other. Of all in the line that is of one kind (what adds
desktop d to the list or takes it out, what gives its state, what gives a deployment's visibility,
its summary) the last one tells what the tables say now (`Right`, `Settled`), and a list that is
trusted, whether in the store or in the answer of a fetch, is right about each kind of which nothing
more is to come (`Clear`). So `LinesRight`, `DepLinesRight` and `SumsRight` are shown of every change of
a row, each of which puts the change behind all others, and of the threads, which only move what is in
front; then `DesktopsRight`, `DeploymentsRight` and `PageRight` of every answer and event. A
line needs not be right any more once something was missed (`Untold`, a lost feed or
socket), and it is right again because a fetch that ends such a state is read when nothing is queued
(`Drained`); a fetch that events cross makes its list `due`. Two lines meet in a
deployment's summary: both threads read it after the change they tell of, so what one holds may be
older than what the other has told. `late` marks that, and a list that is told it has missed
something; `SumRight` says that, when no change is left to be read, a thread that holds a summary
which is not late holds what `Get` would give. A deployment's page is followed only while there is
the deployment (`Covered`); that one which is inserted finds nothing about it on its way follows from
`UnbornRows` and `UnbornDeps`. `Named`, `GoneDeps` and `WireTagged` say that what is held names its
own deployment, that a deletion is told only of what is gone, and that what is told of a page has a
tag. `Once`, that nothing is listed twice, is kept because an event that adds what a list has makes
that list `due`.

`LeavingIsFinal` rests on `Connection(ui, rfb)`: a reconnection is armed only when the connection is
over, and once the user has left it is over or ending and nothing is left that could arm one.

`DrawingIsInOrder` rests on `Ordered(disp)`: the numbers drawn are 1 to some n, those waiting go on
from n+1 without a gap, and `next` is the one after. It is shown of each operation
of the drawing queue (a push that is drawn at once, a push that waits, a scan that draws a prefix),
and that every action changes the display only by those operations.

`BufferIsSafe` rests on `Streams(buf, wire, srv)`: the read index is within what is stored, the
stored within the allocation, and the types of what is on its way. Each handler is shown to read, or
to look and give back, no more than it has checked to be there (`Consumes`).

`ViewerIsTyped` rests on `Typed(ui, rfb, ws, turn)`; that each step of a flush and of a reconnection
counts within `MaxResumes` and within the scope's sessions comes with it.

`OneFrameAtATime` is about one moment, the end of an update, and needs the whole session. Drawings of
two updates could meet only if an update begins while the drawing of another waits. `Late` says that
they do not: what waits is of the update that is being read, or, while the client waits for the drawing
to end, of the one before. For `Late` to be inductive no handler of the
handshake may run again after the connection stands, and no message may be read before; so `Hand`
follows both sides through the handshake. Once the client has asked, what is ahead in the stream, received and not read
or on its way, is the beginning of what the server says at that point (`Begun`: an
offer, a challenge, a refusal with its reason), or nothing is ahead and one question is on its way
up (`Asked`), or a dialog waits for the user (`Waiting`); `Fresh` says that nothing has been drawn by then,
`Resuming` which answer a handler that waits will resume with, `Linked` that a socket which is not open yet has
carried nothing. Per state of the handshake there is a lemma; a session that ended keeps what it
had until the page opens another (`Over`).

`HandlersStayInSync` adds `InStep`, which says of everything ahead where the client stands in it, or
only of what it has received when the session has ended and a handler still reads. A connected client
stands (`Stands`) in front of the rectangles that are still to come, of which the first may have lost
its header, and of whole messages behind them (`InFrame`, `Flow`); one that is about to be connected
has the desktop's description ahead, as many units as it will read (`Greeted`). Reading a message, a header or a
rectangle leaves the client where the next one begins (`NextMessage`, `FrameHead`, `FrameBody`), giving back
leaves it where it was, and what the server adds comes behind. The text of a clipboard is
the one message that is not always read to its end, by a viewer that only watches. `Heeds` says that
such a viewer has not asked for it: no request of its is on the way up, and the server has none to
answer. A change of view only breaks just that.

`DetectorForgets` and `NextTapIsHeard` rest on `Detector(g, user.touches)`, which holds for any number of fingers: the
fingers down are the active tracked touches and the ignored ones; which gestures are still possible
follows from how many touches are tracked and have ended; a timer runs only while nothing is
decided. A lone tap, when no two-finger timer has left its id, goes through `TouchEnd` to its two
events. There is a lemma per handler and per timer, and the keyboard and mouse leave the detector
alone.

`NoKeyStaysDown` rests on `KeyboardInv`. What the server holds the `Keyboard` holds (`Sound`), and
each key that the `Keyboard` holds is accounted for (`Accounted`): it is really down, or the event of
its release is on its way, or it is the Control of an AltGr that is down, or one of two Shifts of which
Windows reports the last one released. For this to be inductive it must say what each system leaves
out: on macOS a key pressed under Meta, whose release is swallowed, is never in `_keyDownList`
(`MutedIsNotHeld`), nor are its CapsLock and the Zenkaku of Windows (`NothingIsLost`); a press on its way is of a key that
is down (`PressesAreReal`). That the set of keys is arbitrary matters: the attempt showed that the right
Meta, the right Control and the left Alt have to be modifiers of the user's system as well, which no
instance had as a key, and the model says so since.

`NoButtonStaysDown` and `PointerArrives` rest on `PointerInv`: the server knows the mask and, unless a
move is held back, the place that the RFB knows (`Faithful`); the mask has nothing but the buttons of
the mouse and the button that the gesture in progress holds (`Holding`); the viewport is dragged only
while one of them is down. Mouse and gestures meet in `HandleMouseButton`, which drags the viewport,
ends a drag, or sends: a lemma for each way. What a step of the detector pushes is one of five things
(`Tells`): nothing, a move, a start, an end, or a tap that starts and ends; so a gesture that holds a
button starts when none is in progress and ends before the next. The detector that waits for the last
fingers of a tap holds none (`Calm`). Where nothing is odd a viewport that can be dragged is
dragged by the mouse or by fingers, never by both (`Apart`).

`ConsumersAreKept` rests on `Inv`: what is queued was received, once, and is with no worker; each
worker is idle or has one message, never both; nothing is queued while one is idle. Where a
consumer stops in its list is the first place that needs a worker (`BeforeInRange`, by `Least`).

The RunQueue runs its tasks and `removeRedundantDraws` searches its list by a fold, which the
community modules define by a choice of a function that solves a recursive equation. The equation is
shown to have a solution, one element at a time (`FoldExists`, `FoldBackExists`), so the choice is
one; from it come the states between (`RunTrace`, `ScanTrace`) and what one element more does
(`RunAppend`, `ScanCons`). The library's induction theorems cannot be used, since they take an
operator as a parameter. `AppendInduction` and `ConsInduction` say instead of a set of lists that
has the empty one, and with a list each that is longer by one, that it has all of them: the least
length of a list left out (`Least`) would contradict that.

`NothingIsOvertaken` and `FramesGoForward` rest on `InOrder`: from the last frame shown over the
frames that load, the image that is decoded and the tasks behind it, to the three lists of
`DisplayPreProcess`, numbers only rise. What `DisplayPreProcess` does moves messages from one list to
the next and leaves them in their row (`HandOnInOrder`, `ExecuteInOrder`); the search leaves a part of
its list in its order (`ScanInOrder`); a task is held behind what is held, or starts when nothing is
(`RunTaskIs`). That at most one frame loads at a time is part of the invariant, and why no frame is
shown after a later one.

`ThePictureIsAsSent` rests on `Faithful`: unless an image failed or a frame was outrun, the frame that
loads (`Due`), what is held and what is behind it, painted one after the other on the canvases as they
are, leads to the picture that was sent (`Leads`), and nothing they need is missing. A frame that is
lost to the next one makes no difference if the next hides it (`FrameHidesFrame`), and any other task
that runs before it has loaded sets `outrun`. The RunQueue only delays (`RunDelays`): what it holds once it has
taken some tasks leads to what those tasks led to. That the search drops nothing that one would miss is
`ScanKeepsPicture`, by induction from the last draw: two pictures that are `Alike` but for areas which
the draws kept so far cover (`Covered`), before any of them reads the screen, lead to the same; a draw
inside these areas makes no other difference (`CoveredDraw`), and one that is kept makes them
more alike by what it covers (`PaintAlike`).

`DisconnectedForGood` rests on `Over`: once the application has left, no handler runs and every
channel is closed, so that no action which opens, sends or handles is enabled.

`MessagesStayIntact` rests on `Inv`. For each channel, what has been received and not taken,
followed by what is on its way, is the rest of what the server has sent from the place where the
receiver stands (`Streaming`): the phase, the parts taken so far and the number of messages handled
fix that place. A header that is kept in the queue's array is its message's own or overwritten, and
overwritten only if its message is in `cut`. `Served` says that the server sent what its state and its script tell. A channel
is opened from the start, or it would begin again in the middle of a stream: `ToOpen` says that
what waits to be opened was never opened, and that nothing was before the list came. The lemmas
about sequences of units (`DropFlows`, `AppendFlows`, `ShiftStreams`) come first, then one lemma per
part taken, then one per action.

`HandlersBreakNothing` adds `Linkings`. Until a message is garbled, as long as the user sent nothing too early, on its way to a
server that awaits the link is the link and nothing else, and likewise the ticket; a linked channel
is past its link, and is open unless something went wrong. So the server refuses only by a fault,
and no handler sends on a socket that is closed.

`AcksAreCounted` adds `Agreed`. While the client does not know the window, no ACK is on its way and
the server has counted all that it sent since `SET_ACK`; from there on the equation of `AcksAgree`
holds. The ACKs on their way are counted as the places they hold in `up[c]`: a packet sent adds one
or none (`OneAdded`, `NoneAdded`), the server takes the first (`FirstTaken`), and what the client
handles is what the server sent at that place (`HandledWasSent`), so that a window is handled only
where it was set.

`TokensAreCounted` adds `Talking`, which says of every place where a start, a grant or an agent's
message can be what it means for the count: the agent's messages that the client has still to handle,
the starts that the server has still to read, those that the client has still to answer (`Talk`). A
start that is read makes the server's count what the client's was when it sent the start; from there
on, until the next, each message of the agent moves one token and each grant brings `Tokens` more
(`Balanced`). That no second start is on its way while one is unread is what `AgentHeard` gives: the
server lets the agent speak only after it has read the start, and the client handles in order.

`SessionIsTyped` rests on `Typed`: besides `TypeOK` what is on its way are units, a receiver never
has more unread than was written into its queue and knows what it needs next (`Shaped`), and a
channel whose turn it is has all of that part (`Ready`).

Every safety property that a passing run checks is stated by one of these theorems. Model-checked
only: liveness, which needs fairness and `ENABLED`, out of the prover's reach.

## 6. What is left

In the order of their weight:

1. `HypervisorThreads`: the orchestrator; disk and long-operations threads; enabling, disabling,
   losing and deleting a hypervisor; the queue that is replaced while a worker drains it. Abstract
   specification: each queued action is done, or its desktop is cleaned.
2. `TemplateDisks`: creation of desktops and templates, several disks, `DiskDeleted` per disk.
   Abstract specification: a row exists as long as one of its disks.
3. `HypervisorPool`: forced and favourite hypervisors, GPU profiles, the release of a vGPU's uid.
4. `BookingPlanner`: capacity of plans over intervals against a reference definition, and the check
   then insert of two clients. `Quotas`: count then create. `Scheduler`: jobs around a booking.
5. `TunnelMap`: tunnels of guac, their expiry, and the counted lock of a tunnel's reader.
6. Proofs: `PutOf` strengthened to priority order.
7. Liveness of the feeds: that a desktop hidden from a user leaves the list in the end.

### Not modelled

* Vendored libraries and codecs (jQuery, Pixastic, big integers and RSA, the QUIC, GLZ and LZ
  decoders, zlib, the generated SPICE marshalling code in `spiceobjects.js` and `WorkerProcess.js`):
  third-party or generated code without state of its own between calls. They are a large share of
  the repository's JavaScript; the models keep only when they finish and whether they fail.
* The administration pages of the webapp (`domains.js` and its siblings): tables filled from
  requests and events, with forms; they decide nothing that the API does not decide again.
* Parsing and statistics of hypervisors, XML, storage, VPN, stats collectors, build scripts,
  authentication: I/O, request and response, or pure transformations.
* The parts under 1 to 5 above have state and concurrency worth modelling; the hazards without a
  property in `PROJECT.json` are theirs.
