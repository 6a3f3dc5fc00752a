---------------------------- MODULE SpiceDisplay -----------------------------
(***************************************************************************)
(* The display channel of the SPICE web client: from a message received to *)
(* the canvas.  DisplayPreProcess gives the compressed images to workers   *)
(* that finish in any order and passes the messages on in the order they   *)
(* came; DisplayProcess collects them for 50 ms, drops the draws that a    *)
(* later one covers, and puts the rest in a RunQueue, where an image that  *)
(* the browser decodes holds up those behind it.  Only a frame of a stream *)
(* holds up nothing: it is painted when it has loaded, on whatever was     *)
(* painted meanwhile.                                                      *)
(*                                                                         *)
(* A message is known by its number, its place in `sent`.                  *)
(***************************************************************************)
EXTENDS Integers, FiniteSets, SequencesExt

CONSTANTS Palettes,      (* the sets of messages of which a server uses one *)
          Consumers,     (* numConsumers, 4 in the code                     *)
          MaxSent        (* bound: messages of a behaviour                  *)

VARIABLES palette,       (* the messages this server sends                  *)
          sent,          (* every message received so far                   *)
          queued,        (* DisplayPreProcess.queued                        *)
          inProcess,     (* DisplayPreProcess.inProcess                     *)
          working,       (* those of inProcess whose state is still 0       *)
          idle,          (* how many consumers are in idleConsumers         *)
          waiting,       (* DisplayProcess.waitingMessages                  *)
          screen,        (* the RunQueue, the canvases and the image cache  *)
          ideal,         (* what painting each message on its own gives     *)
          failed         (* the images that did not decode                  *)

vars == <<palette, sent, queued, inProcess, working, idle, waiting, screen, ideal, failed>>
preVars == <<queued, inProcess, working, idle>>

Areas == {1, 2}
Ids == {1, 2}
Ops == {"copy", "blend", "rop3", "fill", "copybits", "inval", "create", "destroy", "frame"}
Images == {"none", "bitmap", "lz", "jpeg", "cached", "surface"}
(* over: a ROP of PUT and no clip; keep: CACHE_ME; id: the image's, if any *)
Messages == [op : Ops, surface : {0, 1}, box : SUBSET Areas, image : Images,
             id : Ids \cup {0}, keep : BOOLEAN, over : BOOLEAN]

ASSUME DisplayAssumption ==
    /\ Consumers \in Nat \ {0} /\ MaxSent \in Nat
    /\ \A p \in Palettes : p \subseteq Messages
    \* Streams are of the screen.
    /\ \A p \in Palettes : \A m \in p :
         m.op = "frame" => m.surface = 0 /\ m.image = "none" /\ ~ m.keep

-----------------------------------------------------------------------------
\* Painting.  An area shows the images that were put or mixed there, named by
\* the message that brought them; the second surface exists while `offscreen`.

Blank == [canvas |-> [s \in {0, 1} |-> [a \in Areas |-> <<>>]],
          offscreen |-> FALSE, cache |-> [i \in Ids |-> 0]]

\* What changes a canvas.
Draws(m) == m.op \in {"copy", "blend", "rop3", "fill", "copybits", "frame"}
Exists(p, s) == s = 0 \/ p.offscreen

\* getImageFrom throws when the image is not cached, getContext when the
\* surface is gone: RunQueue catches it and the message paints nothing.
Paintable(p, m) ==
    /\ Draws(m) => Exists(p, m.surface)
    /\ m.image = "surface" => Exists(p, 1 - m.surface)
    /\ m.image = "cached" => p.cache[m.id] # 0

Picture(p, m, n, a) ==
    IF m.op = "copybits" THEN p.canvas[m.surface][CHOOSE b \in Areas : b \notin m.box]
    ELSE CASE m.image = "cached" -> <<p.cache[m.id]>>
           [] m.image = "surface" -> p.canvas[1 - m.surface][a]
           [] OTHER -> <<n>>

Overwrites(m) == m.op \in {"copybits", "frame"} \/ (m.op \in {"copy", "fill"} /\ m.over)

DrawOn(p, m, n) ==
    [p EXCEPT !.canvas[m.surface] =
                  [a \in Areas |-> IF a \notin m.box THEN @[a]
                                   ELSE IF Overwrites(m) THEN Picture(p, m, n, a)
                                   ELSE @[a] \o Picture(p, m, n, a)],
              !.cache = IF m.keep THEN [@ EXCEPT ![m.id] = n] ELSE @]

Paint(p, m, n) ==
    IF ~ Paintable(p, m) THEN p
    ELSE CASE Draws(m) -> DrawOn(p, m, n)
           [] m.op = "inval" -> [p EXCEPT !.cache[m.id] = 0]
           [] m.op = "create" -> [p EXCEPT !.offscreen = TRUE, !.canvas[1] = Blank.canvas[1]]
           [] m.op = "destroy" -> [p EXCEPT !.offscreen = FALSE, !.canvas[1] = Blank.canvas[1]]
           [] OTHER -> p

\* What a server may send, given what it has sent before.
Legal(m) ==
    /\ Paintable(ideal, m)
    /\ m.keep => ideal.cache[m.id] = 0
    /\ m.op = "inval" => ideal.cache[m.id] # 0
    /\ m.op = "create" => ~ ideal.offscreen
    /\ m.op = "destroy" => ideal.offscreen
-----------------------------------------------------------------------------
\* The RunQueue.  `current` is the task whose image is being decoded, 0 if none;
\* `video` the frames of a stream being decoded, which hold up nothing;
\* `shown` the last frame shown.  `outrun` only says what happened: a task ran
\* while a frame was being decoded.

InitScreen == [paint |-> Blank, tasks |-> <<>>, current |-> 0, video |-> {}, shown |-> 0,
               outrun |-> FALSE]

\* A slip: each frame is given an Image of its own.
FrameStartsApart(s, n) == [s EXCEPT !.video = @ \cup {n}]

\* The Image of a frame goes back to the pool when its task ends, decoded or
\* not, and is the next one taken: what it was loading is lost.
FrameStarts(s, n) == [s EXCEPT !.video = {n}]
ImageStarts(s, n) == [s EXCEPT !.current = n, !.video = {}]

StartTask(s, n) ==
    CASE sent[n].op = "frame" -> FrameStarts(s, n)
      [] sent[n].op # "frame" /\ sent[n].image = "jpeg" -> ImageStarts(s, n)
      [] OTHER -> [s EXCEPT !.paint = Paint(@, sent[n], n)]

\* It matters that a frame is lost or comes late, unless the next hides it.
Outruns(s, n) == \E v \in s.video : ~ (sent[n].op = "frame" /\ sent[v].box \subseteq sent[n].box)

RunTask(s, n) ==
    IF s.current # 0 THEN [s EXCEPT !.tasks = Append(@, n)]
    ELSE [StartTask(s, n) EXCEPT !.outrun = @ \/ Outruns(s, n)]

\* process: the tasks run one after the other, up to one that has to wait.
Run(s, tasks) == FoldLeft(RunTask, s, tasks)

\* proxy.end: the task is over, and those behind it run.
End(s) == Run([s EXCEPT !.current = 0, !.tasks = <<>>], s.tasks)
-----------------------------------------------------------------------------
\* removeRedundantDraws: backwards, with the boxes that later draws overwrite.

\* A fill has an image when its brush is a pattern.
HasImageProperties(m) == m.op \in {"copy", "blend"} \/ (m.op = "fill" /\ m.image # "none")
\* Not the frames of a stream: they have no box of their own.
MayBeRemoved(m) ==
    Draws(m) /\ m.op # "frame" /\ m.surface = 0 /\ ~ (HasImageProperties(m) /\ m.keep)

\* A slip: a copy of the screen on itself does not end the search.
ScanDrawPast(n, acc) ==
    LET m == sent[n]
        redundant == MayBeRemoved(m) /\ \E b \in acc.boxes : m.box \subseteq b
    IN  IF redundant THEN acc
        ELSE [acc EXCEPT
                !.kept = <<n>> \o @,
                !.boxes = IF m.op \in {"copy", "fill"} /\ m.surface = 0 /\ m.over
                          THEN @ \cup {m.box} ELSE @]

ScanDraw(n, acc) ==
    LET m == sent[n]
        redundant == MayBeRemoved(m) /\ \E b \in acc.boxes : m.box \subseteq b
    IN  IF redundant /\ ~ acc.ended THEN acc
        ELSE [acc EXCEPT
                !.kept = <<n>> \o @,
                !.ended = @ \/ m.op = "copybits",
                !.boxes = IF m.op \in {"copy", "fill"} /\ m.surface = 0 /\ m.over
                          THEN @ \cup {m.box} ELSE @]

WithoutRedundantDraws(ns) ==
    FoldRight(ScanDraw, ns, [kept |-> <<>>, boxes |-> {}, ended |-> FALSE]).kept
-----------------------------------------------------------------------------
\* DisplayPreProcess, as a record of its lists.

Pre == [queued |-> queued, inProcess |-> inProcess, working |-> working,
        idle |-> idle, waiting |-> waiting]

Becomes(next) ==
    \E p \in {next} :
        /\ queued' = p.queued /\ inProcess' = p.inProcess /\ working' = p.working
        /\ idle' = p.idle /\ waiting' = p.waiting

\* shouldUseWorker and getImageProperties: only LZ and QUIC images.
NeedsWorker(m) == HasImageProperties(m) /\ m.image = "lz"
ForWorkers(msgs) == {n \in DOMAIN msgs : NeedsWorker(msgs[n])}

Smaller(m, n) == IF m < n THEN m ELSE n

\* How many of a list come before the first of T.
Before(ns, T) ==
    CHOOSE k \in 0 .. Len(ns) :
        /\ \A i \in 1 .. k : ns[i] \notin T
        /\ k < Len(ns) => ns[k + 1] \in T

\* A slip: what is done goes on, whatever is before it.
HandOnDone(p) ==
    [p EXCEPT !.waiting = @ \o SelectSeq(p.inProcess, LAMBDA n : n \notin p.working),
              !.inProcess = SelectSeq(@, LAMBDA n : n \in p.working)]

\* The tasks at the head of inProcess that are done go to DisplayProcess.
HandOn(p) ==
    LET k == Before(p.inProcess, p.working)
    IN  [p EXCEPT !.waiting = @ \o SubSeq(p.inProcess, 1, k),
                  !.inProcess = SubSeq(@, k + 1, Len(@))]

\* A slip: a consumer that is done at once is put back twice.
ExecuteConsumerTwice(p, msgs) ==
    LET k == Before(p.queued, ForWorkers(msgs))
        taken == Smaller(k + 1, Len(p.queued))
    IN  IF p.idle = 0 THEN p
        ELSE HandOn([p EXCEPT
                !.queued = SubSeq(@, taken + 1, Len(@)),
                !.inProcess = @ \o SubSeq(p.queued, 1, taken),
                !.working = @ \cup {p.queued[i] : i \in k + 1 .. taken},
                !.idle = IF k = Len(p.queued) /\ k > 0 THEN @ + 1 ELSE @ - 1])

\* executeConsumer: a consumer that is idle takes the next task.  If that needs
\* no worker it is done at once, and the consumer takes another.
ExecuteConsumer(p, msgs) ==
    LET k == Before(p.queued, ForWorkers(msgs))
        taken == Smaller(k + 1, Len(p.queued))
    IN  IF p.idle = 0 THEN p
        ELSE HandOn([p EXCEPT
                !.queued = SubSeq(@, taken + 1, Len(@)),
                !.inProcess = @ \o SubSeq(p.queued, 1, taken),
                !.working = @ \cup {p.queued[i] : i \in k + 1 .. taken},
                !.idle = IF k = Len(p.queued) /\ k > 0 THEN @ ELSE @ - 1])

\* A slip: the consumer looks for another task without asking if there is one.
ConsumerDoneBlindly(p, n) ==
    LET q == HandOn([p EXCEPT !.working = @ \ {n}])
    IN  ExecuteConsumer([q EXCEPT !.idle = @ + 1], sent)

\* onConsumerDone.
ConsumerDone(p, n) ==
    LET q == HandOn([p EXCEPT !.working = @ \ {n}])
        free == [q EXCEPT !.idle = @ + 1]
    IN  IF free.queued # <<>> THEN ExecuteConsumer(free, sent) ELSE free
-----------------------------------------------------------------------------
Init ==
    /\ palette \in Palettes
    /\ sent = <<>> /\ queued = <<>> /\ inProcess = <<>> /\ waiting = <<>>
    /\ working = {} /\ failed = {}
    /\ idle = Consumers
    /\ screen = InitScreen
    /\ ideal = Blank

\* process: a message arrives on the display channel.
Receive(m) ==
    /\ Len(sent) < MaxSent
    /\ Legal(m)
    /\ sent' = Append(sent, m)
    /\ Becomes(ExecuteConsumer([Pre EXCEPT !.queued = Append(@, Len(sent) + 1)], sent'))
    /\ ideal' = Paint(ideal, m, Len(sent) + 1)
    /\ UNCHANGED <<palette, screen, failed>>

\* A worker answers, with an image or with nothing.
WorkerDone(n) ==
    /\ n \in working
    /\ Becomes(ConsumerDone(Pre, n))
    /\ UNCHANGED <<palette, sent, screen, ideal, failed>>

\* flush, every 50 ms.
Flush ==
    /\ waiting # <<>>
    /\ waiting' = <<>>
    /\ \E tasks \in {WithoutRedundantDraws(waiting)} : screen' = Run(screen, tasks)
    /\ UNCHANGED <<palette, sent, preVars, ideal, failed>>

\* The browser answers once for an image, with onload or onerror.
Decoding == screen.current \notin failed \cup {0}

\* onload of drawBrowserImage: keep the image, draw it, go on.
ImageLoads ==
    /\ Decoding
    /\ screen' = End([screen EXCEPT !.paint = Paint(@, sent[screen.current], screen.current)])
    /\ UNCHANGED <<palette, sent, preVars, waiting, ideal, failed>>

\* A slip: an image that does not decode ends nothing.
ImageFailsSilently ==
    /\ Decoding
    /\ failed' = failed \cup {screen.current}
    /\ UNCHANGED <<palette, sent, preVars, waiting, screen, ideal>>

\* onerror.
ImageFails ==
    /\ Decoding
    /\ failed' = failed \cup {screen.current}
    /\ screen' = End(screen)
    /\ UNCHANGED <<palette, sent, preVars, waiting, ideal>>

\* onload of handleStreamData: the frame is painted on the canvas as it is now.
FrameLoads(n) ==
    /\ n \in screen.video
    /\ screen' = [screen EXCEPT !.video = @ \ {n}, !.shown = n, !.paint = Paint(@, sent[n], n)]
    /\ UNCHANGED <<palette, sent, preVars, waiting, ideal, failed>>

FrameFails(n) ==
    /\ n \in screen.video
    /\ screen' = [screen EXCEPT !.video = @ \ {n}]
    /\ failed' = failed \cup {n}
    /\ UNCHANGED <<palette, sent, preVars, waiting, ideal>>

Next ==
    \/ \E m \in palette : Receive(m)
    \/ \E n \in working : WorkerDone(n)
    \/ Flush
    \/ ImageLoads \/ ImageFails
    \/ \E n \in screen.video : FrameLoads(n) \/ FrameFails(n)

Spec == Init /\ [][Next]_vars

\* Workers answer, timers fire and the browser decodes or gives up.
Fairness ==
    /\ WF_vars(\E n \in working : WorkerDone(n))
    /\ WF_vars(Flush)
    /\ WF_vars(ImageLoads \/ ImageFails)

FairSpec == Spec /\ Fairness
-----------------------------------------------------------------------------
Numbers == 1 .. Len(sent)

Increasing(ns) == \A i, j \in 1 .. Len(ns) : i < j => ns[i] < ns[j]

\* What has been received and not painted, oldest first.
Pipeline ==
    (IF screen.current = 0 THEN <<>> ELSE <<screen.current>>)
        \o screen.tasks \o waiting \o inProcess \o queued

AtRest == Pipeline = <<>>

(* The lists hold messages received, and the counts are of consumers that  *)
(* exist.                                                                  *)
TypeOK ==
    /\ palette \in Palettes
    /\ sent \in Seq(Messages)
    /\ queued \in Seq(Numbers) /\ inProcess \in Seq(Numbers) /\ waiting \in Seq(Numbers)
    /\ working \subseteq Numbers /\ failed \subseteq Numbers
    /\ idle \in 0 .. Consumers
    /\ screen.tasks \in Seq(Numbers)
    /\ screen.current \in Numbers \cup {0}
    /\ screen.video \subseteq Numbers
    /\ screen.outrun \in BOOLEAN

(* Whatever the order in which workers finish, nothing overtakes: from the *)
(* RunQueue to the last list, messages stand in the order they came.       *)
NothingOvertakes == Increasing(Pipeline)

(* A consumer is idle or has a task at its worker, none is lost, and no    *)
(* message waits for one while one is idle.                                *)
NoConsumerIsLost ==
    /\ idle + Cardinality(working) = Consumers
    /\ queued # <<>> => idle = 0

(* What a server keeps to when draws may be dropped: no draw elsewhere     *)
(* reads the screen, and only an image that is copied or blended is kept.  *)
ScreenIsNoSource(p) == \A m \in p : m.surface = 1 => m.image # "surface"
OnlyImagesAreKept(p) == \A m \in p : m.keep => HasImageProperties(m)
ServersConform == \A p \in Palettes : ScreenIsNoSource(p) /\ OnlyImagesAreKept(p)

Rests == AtRest /\ screen.video = {} /\ failed = {}

(* When all has been painted the canvases and the image cache are what     *)
(* painting the messages one by one would have given, unless an image did  *)
(* not decode or a task ran while a frame was being decoded:               *)
(* removeRedundantDraws removes only what nobody would see, and a frame    *)
(* may be lost only to one that hides it.  (A frame decoded late is        *)
(* painted over what came after it, though displayprocess.js:131-133 lets  *)
(* no packet run "until the previous packets finished processing".)        *)
PaintedAsSent == Rests /\ ~ screen.outrun => screen.paint = ideal

(* A stream goes forward: no frame is shown after a later one, though      *)
(* frames are decoded without holding each other up.                       *)
StreamGoesForward == [][screen'.shown >= screen.shown]_vars

(* All that has been received is painted or given up in the end.           *)
AllIsPainted == []<>AtRest
=============================================================================
