--------------------------- MODULE RfbConnection ----------------------------
(***************************************************************************)
(* A noVNC viewer until the desktop is shown: the page (app/ui.js), the    *)
(* RFB object with its connection states and the security handshake        *)
(* (core/rfb.js), the WebSocket under it and a VNC server as the client    *)
(* expects one (version 3.8).                                              *)
(*                                                                         *)
(* JavaScript runs a handler to its end: turn says which handler runs, one *)
(* step is one message of its loop, and no event is taken until the turn   *)
(* is idle again.                                                          *)
(***************************************************************************)
EXTENDS Websock, RenderQueue

CONSTANTS Scopes,       (* the situations to explore, see scope            *)
          MaxResumes    (* bound: resume timers waiting at once            *)

VARIABLES ui,     (* the page: UI.*                                        *)
          rfb,    (* the RFB object                                        *)
          ws,     (* the raw channel and the handlers bound to it          *)
          buf,    (* the receive queue                                     *)
          disp,   (* the display's drawing queue                           *)
          turn,   (* the handler that runs                                 *)
          wire,   (* units under way from the server                       *)
          up,     (* messages under way to the server                      *)
          srv,    (* the server                                            *)
          scope   (* what the server may do, and the bounds: never changes *)

vars == <<ui, rfb, ws, buf, disp, turn, wire, up, srv, scope>>

(* A scope is a record of                                                  *)
(*    offers     the lists of security types the server may offer,         *)
(*    refusals   how often it refuses credentials,                         *)
(*    updates    the framebuffer updates it may send, each the encodings   *)
(*               of its rectangles,                                        *)
(*    chatter    the other messages it may send unasked,                   *)
(*    sent       how many updates and unasked messages it sends,           *)
(*    sessions   how many RFB objects the page makes,                      *)
(*    ops        what the user does besides connecting.                    *)

Schemes == {"none", "vnc", "plain", "vencrypt", "tight", "xvp", "ard"}

ASSUME OfferAssumption == \A s \in Scopes : s.offers \subseteq Seq(Schemes \cup {"other"})

\* A unit of the stream: the i-th of a message of some kind, with a detail.
U(k, i, x) == [k |-> k, i |-> i, x |-> x]

NewRfb(creds, viewOnly) ==
    [conn |-> "connecting", init |-> "", scheme |-> "", creds |-> creds, vencrypt |-> 0,
     tight |-> FALSE, ard |-> "idle", resumes |-> 0, timer |-> FALSE, viewOnly |-> viewOnly,
     rects |-> 0, encoding |-> "", update |-> 0, flushing |-> FALSE, continuous |-> "unknown",
     clipCaps |-> FALSE, clipText |-> FALSE, resizable |-> FALSE, synced |-> TRUE]

NewServer == [stage |-> "greeting", offer |-> <<>>, refusals |-> 0, asked |-> FALSE,
              continuous |-> "off", wants |-> {}, sent |-> 0]

Init ==
    /\ ui = [rfb |-> FALSE, connected |-> FALSE, inhibit |-> TRUE, reconnect |-> FALSE,
             dialog |-> FALSE, password |-> FALSE, sessions |-> 0, ops |-> 0,
             left |-> FALSE, toggled |-> FALSE]
    /\ \E viewOnly \in BOOLEAN :
        rfb = [NewRfb(FALSE, viewOnly) EXCEPT !.conn = "disconnected"]
    /\ ws = [ready |-> "closed", close |-> FALSE, message |-> FALSE]
    /\ buf = Empty /\ disp = Blank /\ turn = "idle"
    /\ wire = <<>> /\ up = <<>> /\ srv = NewServer /\ scope \in Scopes
-----------------------------------------------------------------------------
(* Connection states.  A change of state is computed on a record of the    *)
(* parts it touches, so that a handler may make several.                   *)

Conn == [ui |-> ui, rfb |-> rfb, ws |-> ws]
Becomes(c) == ui' = c.ui /\ rfb' = c.rfb /\ ws' = c.ws

\* Websock.close, called by RFB._disconnect with the listeners' removal.
CloseSocket(w) ==
    [w EXCEPT !.ready = IF @ \in {"connecting", "open"} THEN "closing" ELSE @, !.message = FALSE]

\* UI.disconnectFinished, the listener of the disconnect event.
DisconnectFinished(u) ==
    [u EXCEPT !.connected = FALSE, !.rfb = FALSE, !.dialog = FALSE, !.reconnect = ~ u.inhibit]

\* A slip: no timer, the channel is trusted to report its end.
ToDisconnectingUntimed(c) ==
    IF c.rfb.conn \in {"connecting", "connected"}
    THEN [c EXCEPT !.rfb.conn = "disconnecting", !.ws = CloseSocket(@)]
    ELSE c

ToDisconnecting(c) ==
    IF c.rfb.conn \in {"connecting", "connected"}
    THEN [c EXCEPT !.rfb.conn = "disconnecting", !.rfb.timer = TRUE, !.ws = CloseSocket(@)]
    ELSE c

ToDisconnected(c) ==
    IF c.rfb.conn = "disconnecting"
    THEN [ui |-> DisconnectFinished(c.ui),
          rfb |-> [c.rfb EXCEPT !.conn = "disconnected", !.timer = FALSE],
          ws |-> [c.ws EXCEPT !.close = FALSE]]
    ELSE c

\* UI.connectFinished, the listener of the connect event.
ConnectFinished(u) == [u EXCEPT !.connected = TRUE, !.inhibit = FALSE, !.dialog = FALSE]

ToConnected(c) ==
    IF c.rfb.conn = "connecting"
    THEN [c EXCEPT !.rfb.conn = "connected", !.ui = ConnectFinished(@)]
    ELSE c

Failed(c) == ToDisconnected(ToDisconnecting(c))

\* The websocket drops what is sent when it is not open.
Send(msgs) == up' = IF ws.ready = "open" THEN up \o msgs ELSE up
-----------------------------------------------------------------------------
(* The page.                                                               *)

\* UI.connect: a new RFB object, its socket opening.
Open(u, creds) ==
    /\ ui.sessions < scope.sessions
    /\ ui' = [u EXCEPT !.rfb = TRUE, !.sessions = @ + 1]
    /\ rfb' = NewRfb(creds, rfb.viewOnly)
    /\ ws' = [ready |-> "connecting", close |-> TRUE, message |-> TRUE]
    /\ buf' = Empty /\ disp' = Blank
    /\ wire' = <<>> /\ up' = <<>> /\ srv' = NewServer
    /\ UNCHANGED turn

UIConnect ==
    /\ turn = "idle" /\ ~ ui.rfb /\ ~ ui.reconnect
    /\ Open([ui EXCEPT !.left = FALSE, !.password = FALSE], FALSE)

\* The timer's early return (inhibitReconnect set, or an rfb again) is not
\* reached: while the timer runs the page only offers to cancel it.
UIReconnect ==
    /\ turn = "idle" /\ ui.reconnect /\ ~ ui.inhibit /\ ~ ui.rfb
    /\ Open([ui EXCEPT !.reconnect = FALSE], ui.password)

UICancelReconnect ==
    /\ turn = "idle" /\ ui.reconnect /\ ui.ops < scope.ops
    /\ ui' = [ui EXCEPT !.reconnect = FALSE, !.ops = @ + 1, !.left = TRUE]
    /\ UNCHANGED <<rfb, ws, buf, disp, turn, wire, up, srv>>

\* A slip: only the flag of the connection is cleared.
UIDisconnectOnly ==
    /\ turn = "idle" /\ ui.rfb /\ rfb.conn \in {"connecting", "connected"}
    /\ ui.ops < scope.ops
    /\ LET c == ToDisconnecting(Conn)
       IN  Becomes([c EXCEPT !.ui.connected = FALSE, !.ui.dialog = FALSE,
                             !.ui.ops = @ + 1, !.ui.left = TRUE])
    /\ UNCHANGED <<buf, disp, turn, wire, up, srv>>

\* UI.disconnect calls RFB.disconnect, which also stops listening to data.
UIDisconnect ==
    /\ turn = "idle" /\ ui.rfb /\ rfb.conn \in {"connecting", "connected"}
    /\ ui.ops < scope.ops
    /\ LET c == ToDisconnecting(Conn)
       IN  Becomes([c EXCEPT !.ui.connected = FALSE, !.ui.inhibit = TRUE, !.ui.dialog = FALSE,
                             !.ui.ops = @ + 1, !.ui.left = TRUE])
    /\ UNCHANGED <<buf, disp, turn, wire, up, srv>>

UISetCredentials ==
    /\ turn = "idle" /\ ui.dialog /\ rfb.resumes < MaxResumes
    /\ ui' = [ui EXCEPT !.dialog = FALSE, !.password = TRUE]
    /\ rfb' = [rfb EXCEPT !.creds = TRUE, !.resumes = @ + 1]
    /\ UNCHANGED <<ws, buf, disp, turn, wire, up, srv>>
-----------------------------------------------------------------------------
(* The socket and the timers.                                              *)

SocketOpens ==
    /\ turn = "idle" /\ ws.ready = "connecting"
    /\ ws' = [ws EXCEPT !.ready = "open"]
    /\ rfb' = [rfb EXCEPT !.init = "ProtocolVersion"]
    /\ wire' = <<U("version", 1, <<>>)>>
    /\ UNCHANGED <<ui, buf, disp, turn, up, srv>>

\* The channel is closed by either side or lost.  Data under way is lost too.
SocketCloses ==
    /\ turn = "idle" /\ ws.ready # "closed"
    /\ LET c == [Conn EXCEPT !.ws.ready = "closed"]
           after == CASE rfb.conn = "disconnecting" -> ToDisconnected(c)
                      [] rfb.conn \in {"connecting", "connected"} -> Failed(c)
                      [] OTHER -> c
       IN  Becomes(IF ws.close THEN [after EXCEPT !.ws.close = FALSE] ELSE c)
    /\ wire' = <<>> /\ up' = <<>>
    /\ UNCHANGED <<buf, disp, turn, srv>>

DisconnectTimesOut ==
    /\ turn = "idle" /\ rfb.timer
    /\ Becomes(ToDisconnected(Conn))
    /\ UNCHANGED <<buf, disp, turn, wire, up, srv>>

\* Websock._recvMessage: some of the data that is under way arrives.
ReceiveMessage ==
    /\ turn = "idle" /\ ws.ready \in {"open", "closing"}
    /\ \E n \in 1 .. Len(wire) :
        LET data == SubSeq(wire, 1, n)
        IN  /\ wire' = SubSeq(wire, n + 1, Len(wire))
            /\ IF ws.message
               THEN /\ Fits(buf, data)
                    /\ buf' = Receive(buf, data)
                    /\ turn' = CASE rfb.conn = "connecting" -> "init"
                                 [] rfb.conn = "connected" -> "normal"
                                 [] OTHER -> "end"
               ELSE UNCHANGED <<buf, turn>>
    /\ UNCHANGED <<ui, rfb, ws, disp, up, srv>>

\* Back in _recvMessage: a queue that has been read starts again.
ReceiveEnds ==
    /\ turn = "end"
    /\ turn' = "idle" /\ buf' = ResetIfRead(buf)
    /\ UNCHANGED <<ui, rfb, ws, disp, wire, up, srv>>

\* setTimeout(_initMsg, 0): one message, whatever the state is by now.
ResumeAuthentication ==
    /\ turn = "idle" /\ rfb.resumes > 0
    /\ rfb' = [rfb EXCEPT !.resumes = @ - 1]
    /\ turn' = "once"
    /\ UNCHANGED <<ui, ws, buf, disp, wire, up, srv>>

\* The keys of ARD are computed asynchronously.
ArdComputed ==
    /\ turn = "idle" /\ rfb.ard = "computing" /\ rfb.resumes < MaxResumes
    /\ rfb' = [rfb EXCEPT !.ard = "ready", !.resumes = @ + 1]
    /\ UNCHANGED <<ui, ws, buf, disp, turn, wire, up, srv>>
-----------------------------------------------------------------------------
(* The handshake: the loop of _handleMessage over _initMsg.                *)

InitTurn(state) ==
    /\ turn \in {"init", "once"}
    /\ turn = "init" => rfb.conn = "connecting"
    /\ rfb.init = state

\* A slip: one message per event, as when a timer resumes.
GoesOnOnce == turn' = IF turn = "once" THEN "idle" ELSE "end"

\* A handler returned false: the turn ends.  True: the loop goes on.
Ends == turn' = IF turn = "once" THEN "idle" ELSE "end"
GoesOn == turn' = IF turn = "once" THEN "idle" ELSE turn

\* The next n units are there and are taken off the queue.
Reads(n) == RQlen(buf) >= n /\ buf' = Shift(buf, n)

\* An rQwait fails: read units were taken, it wants num more, goback returns.
WaitsFor(read, num, goback) ==
    /\ read <= RQlen(buf) /\ RQlen(buf) - read < num
    /\ buf' = Goback(Shift(buf, read), goback)
    /\ Ends
    /\ UNCHANGED <<ui, rfb, ws, disp, wire, up, srv>>

Peek(i) == buf.q[buf.rQi + i]

\* Frames are read where they begin (history: synced).
At(k) == [rfb EXCEPT !.synced = @ /\ Peek(1).k = k /\ Peek(1).i = 1]

NegotiateProtocolVersion ==
    /\ InitTurn("ProtocolVersion")
    /\ \/ WaitsFor(0, 1, 0)
       \/ /\ Reads(1) /\ Ends
          /\ rfb' = [At("version") EXCEPT !.init = "Security"]
          /\ Send(<<"version">>)
          /\ UNCHANGED <<ui, ws, disp, wire, srv>>

Supported(list) == {i \in 1 .. Len(list) : list[i] \in Schemes}

NegotiateSecurity ==
    /\ InitTurn("Security")
    /\ \/ WaitsFor(1, IF Peek(1).x = <<>> THEN 0 ELSE 1, 1)
       \/ /\ Peek(1).x = <<>>
          /\ Reads(1) /\ GoesOn
          /\ rfb' = [At("types") EXCEPT !.init = "SecurityReason"]
          /\ UNCHANGED <<ui, ws, disp, wire, up, srv>>
       \/ /\ Peek(1).x # <<>>
          /\ Reads(2)
          /\ LET list == Peek(1).x IN
                \/ /\ Supported(list) = {}
                   /\ Ends /\ Becomes(Failed([Conn EXCEPT !.rfb = At("types")]))
                   /\ UNCHANGED up
                \/ \E i \in Supported(list) :
                    /\ \A j \in Supported(list) : i <= j
                    /\ GoesOn
                    /\ rfb' = [At("types") EXCEPT !.scheme = list[i], !.init = "Authentication"]
                    /\ Send(<<list[i]>>)
                    /\ UNCHANGED <<ui, ws>>
          /\ UNCHANGED <<disp, wire, srv>>
-----------------------------------------------------------------------------
(* Authentication, one action per scheme.                                  *)

Scheme(s) == InitTurn("Authentication") /\ rfb.scheme = s

\* credentialsrequired: the page opens its dialog.
AskCredentials ==
    /\ ui' = IF ui.rfb THEN [ui EXCEPT !.dialog = TRUE] ELSE ui
    /\ Ends
    /\ UNCHANGED <<rfb, ws, buf, disp, wire, up, srv>>

Authenticated(r, msg) ==
    /\ rfb' = [r EXCEPT !.init = "SecurityResult"]
    /\ Send(msg)
    /\ GoesOn

NoAuth ==
    /\ Scheme("none")
    /\ Authenticated(rfb, <<>>)
    /\ UNCHANGED <<ui, ws, buf, disp, wire, srv>>

NegotiateStdVNCAuth ==
    /\ Scheme("vnc")
    /\ \/ WaitsFor(0, 1, 0)
       \/ RQlen(buf) >= 1 /\ ~ rfb.creds /\ AskCredentials
       \/ /\ rfb.creds /\ Reads(1)
          /\ Authenticated(At("challenge"), <<"response">>)
          /\ UNCHANGED <<ui, ws, disp, wire, srv>>

NegotiatePlainAuth ==
    /\ Scheme("plain")
    /\ \/ ~ rfb.creds /\ AskCredentials
       \/ /\ rfb.creds
          /\ Authenticated(rfb, <<"response">>)
          /\ UNCHANGED <<ui, ws, buf, disp, wire, srv>>

\* XVP is followed by VNC authentication in the same call.
NegotiateXvpAuth ==
    /\ Scheme("xvp")
    /\ \/ ~ rfb.creds /\ AskCredentials
       \/ /\ rfb.creds
          /\ rfb' = [rfb EXCEPT !.scheme = "vnc"]
          /\ Send(<<"target">>)
          /\ UNCHANGED <<ui, ws, buf, disp, turn, wire, srv>>

\* The four states of VeNCrypt: version, acknowledgement, count and list.
VeNCryptUnit == <<"vencrypt", "ack", "count", "subtypes">>

NegotiateVeNCryptAuth ==
    /\ Scheme("vencrypt")
    /\ \/ WaitsFor(0, 1, 0)
       \/ /\ Reads(1)
          /\ LET r == At(VeNCryptUnit[rfb.vencrypt + 1]) IN
                IF rfb.vencrypt < 3
                THEN /\ rfb' = [r EXCEPT !.vencrypt = @ + 1]
                     /\ Send(IF rfb.vencrypt = 0 THEN <<"vencrypt">> ELSE <<>>)
                     /\ UNCHANGED turn
                ELSE /\ rfb' = [r EXCEPT !.scheme = "plain"]
                     /\ Send(<<"plain">>)
                     /\ GoesOn
          /\ UNCHANGED <<ui, ws, disp, wire, srv>>

\* The list of tunnels, then the list of authentication types.
NegotiateTightAuth ==
    /\ Scheme("tight")
    /\ \/ WaitsFor(0, 1, 0)
       \/ WaitsFor(1, 1, 1)
       \/ /\ Reads(2)
          /\ IF rfb.tight
             THEN /\ rfb' = [At("subauths") EXCEPT !.scheme = "vnc"]
                  /\ Send(<<"subauth">>) /\ GoesOn
             ELSE /\ rfb' = [At("tunnels") EXCEPT !.tight = TRUE]
                  /\ Send(<<"tunnel">>) /\ Ends
          /\ UNCHANGED <<ui, ws, disp, wire, srv>>

NegotiateARDAuth ==
    /\ Scheme("ard")
    /\ \/ ~ rfb.creds /\ AskCredentials
       \/ /\ rfb.creds /\ rfb.ard = "ready"
          /\ Authenticated([rfb EXCEPT !.ard = "idle"], <<"response">>)
          /\ UNCHANGED <<ui, ws, buf, disp, wire, srv>>
       \/ /\ rfb.creds /\ rfb.ard # "ready"
          /\ WaitsFor(0, 1, 0) \/ WaitsFor(1, 1, 1)
       \/ /\ rfb.creds /\ rfb.ard # "ready"
          /\ Reads(2) /\ Ends
          /\ rfb' = [At("dh") EXCEPT !.ard = "computing"]
          /\ UNCHANGED <<ui, ws, disp, wire, up, srv>>
-----------------------------------------------------------------------------
HandleSecurityResult ==
    /\ InitTurn("SecurityResult")
    /\ \/ WaitsFor(0, 1, 0)
       \/ /\ Reads(1) /\ GoesOn
          /\ rfb' = [At("result") EXCEPT
                        !.init = IF Peek(1).x = <<"ok">> THEN "ClientInitialisation" ELSE "SecurityReason"]
          /\ UNCHANGED <<ui, ws, disp, wire, up, srv>>

HandleSecurityReason ==
    /\ InitTurn("SecurityReason")
    /\ \/ WaitsFor(0, 1, 0)
       \/ WaitsFor(1, 1, 1)
       \/ /\ Reads(2) /\ Ends
          /\ Becomes(Failed([Conn EXCEPT !.rfb = At("reason")]))
          /\ UNCHANGED <<disp, wire, up, srv>>

ClientInitialisation ==
    /\ InitTurn("ClientInitialisation")
    /\ rfb' = [rfb EXCEPT !.init = "ServerInitialisation"]
    /\ Send(<<"init">>) /\ GoesOn
    /\ UNCHANGED <<ui, ws, buf, disp, wire, srv>>

\* The header and the name, and in TightVNC mode two more lists.
ServerInitUnits == IF rfb.tight THEN 4 ELSE 2

NegotiateServerInit ==
    /\ InitTurn("ServerInitialisation")
    /\ \/ \E read \in 0 .. ServerInitUnits - 1 : WaitsFor(read, 1, read)
       \/ /\ Reads(ServerInitUnits) /\ Ends
          /\ Becomes(ToConnected([Conn EXCEPT !.rfb = At("serverinit")]))
          /\ disp' = Draw(disp, "flip", 0)
          /\ Send(<<"encodings", "request">>)
          /\ UNCHANGED <<wire, srv>>

Handshake ==
    \/ NegotiateProtocolVersion \/ NegotiateSecurity
    \/ NoAuth \/ NegotiateStdVNCAuth \/ NegotiatePlainAuth \/ NegotiateXvpAuth
    \/ NegotiateVeNCryptAuth \/ NegotiateTightAuth \/ NegotiateARDAuth
    \/ HandleSecurityResult \/ HandleSecurityReason
    \/ ClientInitialisation \/ NegotiateServerInit
-----------------------------------------------------------------------------
(* The server's side of the handshake (external: any VNC server).          *)

Answers(units, stage) ==
    /\ wire' = wire \o units
    /\ srv' = [srv EXCEPT !.stage = stage]

Result ==
    \/ Answers(<<U("result", 1, <<"ok">>)>>, "client")
    \/ /\ srv.refusals < scope.refusals
       /\ wire' = wire \o <<U("result", 1, <<"bad">>), U("reason", 1, <<>>), U("reason", 2, <<>>)>>
       /\ srv' = [srv EXCEPT !.stage = "refused", !.refusals = @ + 1]

\* A message takes longer to the server and back than a timer of 0 ms.
Reached == up # <<>> /\ ws.ready = "open" /\ rfb.resumes = 0

ServerHandshake ==
    /\ Reached
    /\ up' = Tail(up)
    /\ CASE Head(up) = "version" ->
                \E offer \in scope.offers :
                    Answers(IF offer = <<>>
                            THEN <<U("types", 1, offer), U("reason", 1, <<>>), U("reason", 2, <<>>)>>
                            ELSE <<U("types", 1, offer), U("types", 2, offer)>>, "security")
         [] Head(up) = "none" -> Result
         [] Head(up) \in {"vnc", "target", "subauth"} ->
                Answers(<<U("challenge", 1, <<>>)>>, "security")
         [] Head(up) = "vencrypt" ->
                Answers(IF srv.stage = "vencrypt"
                        THEN <<U("ack", 1, <<>>), U("count", 1, <<>>), U("subtypes", 1, <<>>)>>
                        ELSE <<U("vencrypt", 1, <<>>)>>, "vencrypt")
         [] Head(up) = "tight" ->
                Answers(<<U("tunnels", 1, <<>>), U("tunnels", 2, <<>>)>>, "security")
         [] Head(up) = "tunnel" ->
                Answers(<<U("subauths", 1, <<>>), U("subauths", 2, <<>>)>>, "security")
         [] Head(up) = "ard" -> Answers(<<U("dh", 1, <<>>), U("dh", 2, <<>>)>>, "security")
         [] Head(up) = "response" -> Result
         [] Head(up) = "init" ->
                Answers([i \in 1 .. ServerInitUnits |-> U("serverinit", i, <<>>)], "shown")
         [] Head(up) \in {"xvp", "plain"} -> UNCHANGED <<wire, srv>>
         [] OTHER -> FALSE
    /\ UNCHANGED <<ui, rfb, ws, buf, disp, turn>>
=============================================================================
