----------------------------- MODULE RfbSession -----------------------------
(***************************************************************************)
(* The rest of a noVNC session: the messages of a connected desktop, the   *)
(* loop that asks for framebuffer updates, the drawing queue they fill and *)
(* the clipboard.                                                          *)
(***************************************************************************)
EXTENDS RfbConnection

Pseudo == {"size", "last", "name"}     \* rectangles that draw nothing
Encodings == {"fill", "jpeg"} \cup Pseudo

\* The units of a message after its type, as the waits of its handler cut it.
Body == [bell |-> 0, endcu |-> 0, colourmap |-> 0, other |-> 0, xvp |-> 1, fence |-> 2, cut |-> 2, caps |-> 3,
         notify |-> 2, request |-> 2, peek |-> 2, provide |-> 3]

ASSUME ScopeAssumption ==
    /\ \A s \in Scopes : /\ s.updates \subseteq Seq(Encodings) /\ s.chatter \subseteq DOMAIN Body
                       /\ s.sessions \in Nat /\ s.ops \in Nat
    /\ MaxResumes \in Nat

\* Nothing follows a "last" in an update, and the clipboard is not sent unasked.
Conforms(s) ==
    /\ \A list \in s.updates : \A i \in 1 .. Len(list) - 1 : list[i] # "last"
    /\ "provide" \notin s.chatter

NormalTurn == turn \in {"normal", "flushed"} /\ ~ rfb.flushing /\ RQlen(buf) > 0

Stops == turn' = IF turn = "flushed" THEN "idle" ELSE "end"

\* The loop of _handleMessage ends: a flush is awaited, or all is read.
NormalTurnEnds ==
    /\ turn \in {"normal", "flushed"}
    /\ rfb.flushing \/ RQlen(buf) = 0
    /\ Stops
    /\ UNCHANGED <<ui, rfb, ws, buf, disp, wire, up, srv>>

\* A slip: the flush is over, and what waits to be read is left for later.
AfterFlushIdle(d, r) ==
    /\ rfb' = IF disp.flushing /\ ~ d.flushing THEN [r EXCEPT !.flushing = FALSE] ELSE r
    /\ UNCHANGED turn

\* _onFlush, when the display has drawn all that waited: reading resumes.
AfterFlush(d, r) ==
    IF disp.flushing /\ ~ d.flushing
    THEN /\ rfb' = [r EXCEPT !.flushing = FALSE]
         /\ turn' = IF RQlen(buf) > 0 /\ r.conn = "connected" THEN "flushed" ELSE turn
    ELSE rfb' = r /\ UNCHANGED turn

\* An image has been decoded; its load event resumes the queue.
ImageLoads ==
    /\ turn = "idle"
    /\ \E i \in 1 .. Len(disp.q) :
        /\ ~ Ready(disp.q[i])
        /\ disp' = Loaded(disp, i)
        /\ AfterFlush(Loaded(disp, i), rfb)
    /\ UNCHANGED <<ui, ws, buf, wire, up, srv>>
-----------------------------------------------------------------------------
(* Framebuffer updates.                                                    *)

\* _normalMsg asks for the next update when one is complete.
AskUpdate(r) == IF r.continuous = "enabled" THEN <<>> ELSE <<"request">>

UpdateHeader ==
    /\ NormalTurn /\ rfb.rects = 0 /\ Peek(1).k = "update" /\ Peek(1).i = 1
    /\ \/ /\ RQlen(buf) < 2
          /\ buf' = Goback(Shift(buf, 1), 1)
          /\ Stops
          /\ UNCHANGED <<rfb, disp, up>>
       \/ /\ Reads(2)
          /\ LET r == [At("update") EXCEPT !.rects = Len(Peek(2).x), !.update = @ + 1] IN
                \/ /\ Pending(disp)
                   /\ rfb' = [r EXCEPT !.flushing = TRUE]
                   /\ disp' = Flush(disp)
                   /\ Stops
                   /\ UNCHANGED up
                \/ /\ ~ Pending(disp) /\ r.rects > 0
                   /\ rfb' = r
                   /\ UNCHANGED <<disp, turn, up>>
                \/ /\ ~ Pending(disp) /\ r.rects = 0
                   /\ rfb' = r
                   /\ disp' = Draw(disp, "flip", r.update)
                   /\ Send(AskUpdate(r))
                   /\ UNCHANGED turn
    /\ UNCHANGED <<ui, ws, wire, srv>>

\* The units of a rectangle after its header.
RectUnits(enc) == IF enc = "last" THEN 0 ELSE 1

\* What a rectangle does to the display.  A new size is set at once.
DrawRect(d, enc) ==
    CASE enc = "jpeg" -> ImageRect(d, rfb.update)
      [] enc = "fill" -> Draw(d, "fill", rfb.update)
      [] enc = "size" -> Draw(d, "flip", rfb.update)
      [] OTHER -> d

\* _handleRect and the count that follows it; the last one shows the frame.
RectDone(r, enc) ==
    LET left == IF enc = "last" THEN 0 ELSE r.rects - 1
        sized == [r EXCEPT !.rects = left, !.encoding = "", !.resizable = @ \/ enc = "size"]
        drawn == DrawRect(disp, enc)
        setup == IF enc # "size" THEN <<>>
                 ELSE (IF r.resizable \/ r.viewOnly THEN <<>> ELSE <<"resize">>)
                      \o (IF r.continuous = "enabled" THEN <<"enable">> ELSE <<>>)
    IN  /\ rfb' = sized
        /\ disp' = IF left = 0 THEN Draw(drawn, "flip", r.update) ELSE drawn
        /\ Send(setup \o (IF left = 0 THEN AskUpdate(r) ELSE <<>>))

UpdateRect ==
    /\ NormalTurn /\ rfb.rects > 0
    /\ LET head == IF rfb.encoding = "" THEN 1 ELSE 0
           enc == IF head = 1 THEN Peek(1).x[1] ELSE rfb.encoding
           r == IF head = 1 THEN At("rect") ELSE rfb
       IN  IF RQlen(buf) < head + RectUnits(enc)
           THEN /\ buf' = Shift(buf, head)
                /\ rfb' = [r EXCEPT !.encoding = enc]
                /\ Stops
                /\ UNCHANGED <<disp, up>>
           ELSE /\ Reads(head + RectUnits(enc))
                /\ RectDone(r, enc)
                /\ UNCHANGED turn
    /\ UNCHANGED <<ui, ws, wire, srv>>
-----------------------------------------------------------------------------
(* The other messages.                                                     *)

Message(k) == NormalTurn /\ rfb.rects = 0 /\ Peek(1).k = k /\ Peek(1).i = 1

\* Any rQwait of a handler that fails gives back the whole message.
MessageIncomplete ==
    /\ NormalTurn /\ rfb.rects = 0 /\ Peek(1).i = 1 /\ Peek(1).k \in DOMAIN Body
    /\ LET body == Body[Peek(1).k]
           read == IF RQlen(buf) = 1 THEN 1 ELSE 2
       IN  /\ RQlen(buf) < 1 + body
           /\ buf' = Goback(Shift(buf, read), read)
    /\ Stops
    /\ UNCHANGED <<ui, rfb, ws, disp, wire, up, srv>>

Handled(k, units, r, msgs) ==
    /\ RQlen(buf) >= 1 + Body[k]
    /\ Reads(units)
    /\ rfb' = r
    /\ Send(msgs)
    /\ UNCHANGED <<ui, ws, disp, turn, wire, srv>>

Bell == Message("bell") /\ Handled("bell", 1, rfb, <<>>)

Xvp == Message("xvp") /\ Handled("xvp", 2, rfb, <<>>)

ServerFence == Message("fence") /\ Handled("fence", 3, rfb, <<"fence">>)

EndOfContinuousUpdates ==
    /\ Message("endcu")
    /\ LET first == rfb.continuous = "unknown"
       IN  Handled("endcu", 1,
                   [rfb EXCEPT !.continuous = IF first THEN "enabled" ELSE "disabled"],
                   IF first THEN <<"enable">> ELSE <<>>)

\* Plain text, and the extended clipboard's announcements of what it can do.
ServerCutText ==
    \/ Message("cut") /\ Handled("cut", 3, rfb, <<>>)
    \/ Message("caps") /\ Handled("caps", 4, [rfb EXCEPT !.clipCaps = TRUE], <<"caps">>)

\* The extended clipboard's actions.  In view-only mode they return early,
\* after the flags: what a provide carries is left in the queue.
ExtendedClipboard ==
    \/ /\ Message("notify")
       /\ Handled("notify", 3, rfb, IF rfb.viewOnly \/ ~ rfb.clipCaps THEN <<>> ELSE <<"clip request">>)
    \/ /\ Message("request")
       /\ Handled("request", 3, rfb,
                  IF rfb.viewOnly \/ ~ rfb.clipText \/ ~ rfb.clipCaps THEN <<>> ELSE <<"clip provide">>)
    \/ /\ Message("peek")
       /\ Handled("peek", 3, rfb, IF rfb.viewOnly \/ ~ rfb.clipCaps THEN <<>> ELSE <<"clip notify">>)
    \/ /\ Message("provide") /\ rfb.viewOnly
       /\ Handled("provide", 3, rfb, <<>>)
    \/ /\ Message("provide") /\ ~ rfb.viewOnly
       /\ Handled("provide", 4, [rfb EXCEPT !.clipText = FALSE], <<>>)

SetColourMap ==
    /\ Message("colourmap")
    /\ Reads(1) /\ Stops
    /\ Becomes(Failed(Conn))
    /\ UNCHANGED <<disp, wire, up, srv>>

\* An unknown type fails the session too, and here the loop goes on.
UnexpectedMessage ==
    /\ NormalTurn /\ rfb.rects = 0
    /\ Peek(1).i # 1 \/ Peek(1).k \notin (DOMAIN Body \ {"other"}) \cup {"update"}
    /\ Reads(1)
    /\ Becomes(Failed([Conn EXCEPT !.rfb = At("other")]))
    /\ UNCHANGED <<disp, turn, wire, up, srv>>

NormalMsg ==
    \/ NormalTurnEnds \/ UpdateHeader \/ UpdateRect \/ MessageIncomplete
    \/ Bell \/ Xvp \/ ServerFence \/ EndOfContinuousUpdates
    \/ ServerCutText \/ ExtendedClipboard
    \/ SetColourMap \/ UnexpectedMessage
-----------------------------------------------------------------------------
(* The user of a connected desktop.                                        *)

UserOp == turn = "idle" /\ ui.rfb /\ ui.ops < scope.ops /\ ui' = [ui EXCEPT !.ops = @ + 1]

\* UI.clipboardSend: the text itself, or the news that there is one.
ClipboardPasteFrom ==
    /\ UserOp /\ rfb.conn = "connected" /\ ~ rfb.viewOnly
    /\ rfb' = [rfb EXCEPT !.clipText = @ \/ rfb.clipCaps]
    /\ Send(IF rfb.clipCaps THEN <<"clip notify">> ELSE <<"cut text">>)
    /\ UNCHANGED <<ws, buf, disp, turn, wire, srv>>

UpdateViewOnly ==
    /\ turn = "idle" /\ ui.rfb /\ ui.ops < scope.ops
    /\ ui' = [ui EXCEPT !.ops = @ + 1, !.toggled = TRUE]
    /\ rfb' = [rfb EXCEPT !.viewOnly = ~ @]
    /\ UNCHANGED <<ws, buf, disp, turn, wire, up, srv>>
-----------------------------------------------------------------------------
(* A server that shows a desktop (external).                               *)

Sends(units, s) ==
    /\ ws.ready = "open" /\ srv.stage \in {"shown", "normal"} /\ srv.sent < scope.sent
    /\ wire' = wire \o units
    /\ srv' = [s EXCEPT !.sent = @ + 1]
    /\ UNCHANGED <<ui, rfb, ws, buf, disp, turn, up>>

Units(k) == [i \in 1 .. 1 + Body[k] |-> U(k, i, <<>>)]

\* A header and a body for each rectangle.  Nothing follows a "last".
Rects(list) ==
    LET cut == IF list # <<>> /\ list[Len(list)] = "last" THEN 1 ELSE 0
    IN  [n \in 1 .. 2 * Len(list) - cut |-> U("rect", 1 + ((n + 1) % 2), <<list[(n + 1) \div 2]>>)]

ServerUpdates ==
    /\ srv.asked \/ srv.continuous = "on"
    /\ \E list \in scope.updates :
        Sends(<<U("update", 1, <<>>), U("update", 2, list)>> \o Rects(list),
              [srv EXCEPT !.asked = FALSE])

ServerChatters ==
    \/ \E k \in scope.chatter \ {"endcu"} :
        /\ srv.stage = "normal" \/ k \in {"bell", "cut"}
        /\ Sends(Units(k), srv)
    \/ \E k \in srv.wants :
        /\ ws.ready = "open"
        /\ wire' = wire \o Units(k)
        /\ srv' = [srv EXCEPT !.wants = @ \ {k}]
        /\ UNCHANGED <<ui, rfb, ws, buf, disp, turn, up>>
    \/ /\ "endcu" \in scope.chatter /\ srv.stage = "normal" /\ srv.continuous = "off"
       /\ Sends(Units("endcu"), [srv EXCEPT !.continuous = "offered"])

ServerReads ==
    /\ Reached
    /\ up' = Tail(up)
    /\ CASE Head(up) = "request" -> srv' = [srv EXCEPT !.asked = TRUE]
         [] Head(up) = "enable" -> srv' = [srv EXCEPT !.continuous = "on"]
         [] Head(up) = "clip request" -> srv' = [srv EXCEPT !.wants = @ \cup {"provide"}]
         [] Head(up) = "clip notify" -> srv' = [srv EXCEPT !.wants = @ \cup {"request"}]
         [] Head(up) = "encodings" -> srv' = [srv EXCEPT !.stage = "normal"]
         [] Head(up) \in {"resize", "fence", "caps", "clip provide", "cut text"} ->
                UNCHANGED srv
         [] OTHER -> FALSE
    /\ UNCHANGED <<ui, rfb, ws, buf, disp, turn, wire>>
-----------------------------------------------------------------------------
Page == UIConnect \/ UIReconnect \/ UICancelReconnect \/ UIDisconnect \/ UISetCredentials
        \/ ClipboardPasteFrom \/ UpdateViewOnly
Client == ReceiveEnds \/ Handshake \/ NormalMsg
Channel == SocketOpens \/ SocketCloses \/ ReceiveMessage
Timers == DisconnectTimesOut \/ ResumeAuthentication \/ ArdComputed \/ ImageLoads
Server == ServerHandshake \/ ServerReads \/ ServerUpdates \/ ServerChatters

Next == (Page \/ Client \/ Channel \/ Timers \/ Server) /\ UNCHANGED scope

Spec == Init /\ [][Next]_vars

\* Handlers end, timers fire, the network delivers and the server answers.
\* Nothing makes the user act, the channel break or the server chatter.
Keep(A) == A /\ UNCHANGED scope

Fairness ==
    /\ WF_vars(Keep(Client)) /\ WF_vars(Keep(ReceiveMessage))
    /\ WF_vars(Keep(DisconnectTimesOut)) /\ WF_vars(Keep(ResumeAuthentication)) /\ WF_vars(Keep(ArdComputed))
    /\ WF_vars(Keep(ImageLoads))
    /\ WF_vars(Keep(SocketOpens \/ (ws.ready = "connecting" /\ SocketCloses)))
    /\ WF_vars(Keep(ServerHandshake)) /\ WF_vars(Keep(ServerReads))

FairSpec == Spec /\ Fairness
-----------------------------------------------------------------------------
(* Properties.                                                             *)

UnitKinds ==
    {"version", "types", "reason", "challenge", "vencrypt", "ack", "count", "subtypes", "tunnels",
     "subauths", "dh", "result", "serverinit", "update", "rect"} \cup DOMAIN Body
Details == Schemes \cup Encodings \cup {"other", "ok", "bad"}
Units0 == [k : UnitKinds, i : Nat, x : Seq(Details)]

TypeOK ==
    /\ ui \in [rfb : BOOLEAN, connected : BOOLEAN, inhibit : BOOLEAN, reconnect : BOOLEAN,
               dialog : BOOLEAN, password : BOOLEAN, sessions : 0 .. scope.sessions,
               ops : 0 .. scope.ops, left : BOOLEAN, toggled : BOOLEAN]
    /\ rfb.conn \in {"connecting", "connected", "disconnecting", "disconnected"}
    /\ rfb.resumes \in 0 .. MaxResumes /\ rfb.rects \in Nat
    /\ ws.ready \in {"connecting", "open", "closing", "closed"}
    /\ buf \in Buffers(Units0)
    /\ disp \in Displays
    /\ turn \in {"idle", "init", "once", "normal", "flushed", "end"}

\* Nothing is read that has not been received, nothing is received beyond what
\* is allocated, and no more is ever allocated than allowed: the early reads
\* and their gobacks, and compacting while a parser waits, stay within bounds.
BufferFits == buf.rQi <= Len(buf.q) /\ Len(buf.q) <= buf.size /\ buf.size <= MaxGrow

\* What a handler takes for the start of a message or of a rectangle is one,
\* however the network cuts the stream and whatever a wait gave back.
InSync == rfb.synced

\* The same, as far as it is true: as long as view only is not changed.
InSyncUntilToggled == rfb.synced \/ ui.toggled

\* Images are decoded in any order and everything is drawn in the order the
\* server sent it, nothing twice and nothing left out.
DrawnInOrder == InOrder(disp)

\* "Make sure the previous frame is fully rendered first": what waits to be
\* drawn is of one update, so a resize, which is done at once, never meets
\* drawing of an earlier update.
OneFrameWaits ==
    \A i, j \in 1 .. Len(disp.q) : disp.q[i].update = disp.q[j].update

\* A user who disconnected or cancelled is not connected again by a timer.
StaysDisconnected == [][ui.left /\ ui'.left => ui'.sessions = ui.sessions]_vars

\* A connected viewer always gets to a state in which the server owes it an
\* update: no request is lost on the way through waits and flushes.  So say
\* the viewer's tests (test.rfb.js, 'should send an update request if there
\* is sufficient data').
RequestUnderWay == \E i \in 1 .. Len(up) : up[i] \in {"request", "enable"}
UpdatesFlow ==
    []<>(rfb.conn = "connected" => srv.asked \/ srv.continuous = "on" \/ RequestUnderWay)

\* The same, as far as it is true: an update without rectangles that comes
\* while an image of the previous one is being decoded is never completed.
EmptyUpdateWaits == rfb.flushing /\ rfb.rects = 0
UpdatesKeepFlowing == [](~ EmptyUpdateWaits) => UpdatesFlow

\* An attempt to connect comes to an end or to a dialog.
HandshakeEnds == []<>(rfb.conn = "connecting" => ui.dialog)

\* A disconnection ends, whether or not the channel reports its end, and the
\* page is told of it.
DisconnectEnds == []<>(rfb.conn # "disconnecting" /\ (rfb.conn = "disconnected" => ~ ui.rfb))
=============================================================================
