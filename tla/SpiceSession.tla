---------------------------- MODULE SpiceSession -----------------------------
(***************************************************************************)
(* A session of the SPICE web client: SpiceConnection and its channels,    *)
(* each a WebSocket of its own that is linked and then carries messages,   *)
(* the RunQueue that opens them one after the other, the flow control of   *)
(* the channels and of the agent, and what the user does at any moment.    *)
(*                                                                         *)
(* JavaScript runs to completion: while a chunk is being handled `turn` is *)
(* its channel, and nothing else happens.  The server is external.         *)
(***************************************************************************)
EXTENDS SpiceChannel, FiniteSets

CONSTANTS Channels,      (* the names of the channels, "main" among them     *)
          None,          (* no channel                                       *)
          Scopes,        (* what may happen in a behaviour, one is chosen    *)
          Tokens,        (* agent tokens granted at a time, 10 in the code   *)
          Window         (* messages between two ACKs, set by the server     *)

VARIABLES scope,         (* the one chosen                                   *)
          sock,          (* the WebSocket of each channel                    *)
          rx,            (* its receiving side                               *)
          ack,           (* its counter and ackWindow                        *)
          linked,        (* the channels that fired channelConnected         *)
          runQ,          (* the channels that wait to be connected           *)
          proxy,         (* the one whose end() the RunQueue waits for       *)
          agent,         (* Agent.serverTokens                               *)
          told,          (* the application has been told of an error        *)
          gone,          (* the application has disconnected                 *)
          turn,          (* the channel whose chunk is being handled         *)
          up, down,      (* what is on its way, in each direction            *)
          server,        (* the server's side of each channel                *)
          wire,          (* every message the server has sent (history)      *)
          handled,       (* the messages handled, 0 for a garbled one        *)
          ops, faults,   (* how much of the scope's bounds is used           *)
          cut,           (* the messages whose header ended a chunk (history)*)
          early          (* something was sent on a channel not linked yet   *)

client == <<sock, rx, ack, linked, runQ, proxy, agent, told, gone, turn, handled, cut, early>>
vars == <<scope, client, up, down, server, wire, ops, faults>>

Kinds == {"reply", "ok", "denied", "init", "initAlone", "agentUp", "agent", "list",
          "setAck", "ping", "create", "data", "mark"}

\* What a server sends on a channel once it is linked.
Messages == Kinds \ {"reply", "ok", "denied"}

(* listed   the channels CHANNELS_LIST announces, in the order of their ids  *)
(* scripts  what the server has to send on each channel                      *)
(* split    the channels whose messages the network may cut anywhere         *)
(* cuts     how often it may cut right after a header                        *)
(* ops      how often the user types or resizes the window                   *)
(* faults   how many sockets fail or links are refused                       *)
(* leaves   the application may disconnect                                   *)
ScopeSet == [listed : Seq(Channels), scripts : [Channels -> Seq(Messages)],
             split : SUBSET Channels, cuts : Nat, ops : Nat, faults : Nat,
             leaves : BOOLEAN]

ASSUME SessionAssumption ==
    /\ {"main", "display", "inputs"} \subseteq Channels /\ None \notin Channels
    /\ Tokens \in Nat \ {0} /\ Window \in Nat \ {0}
    /\ \A s \in Scopes : s \in ScopeSet

\* No channel is opened twice: there is one list, which names no channel twice
\* and not the main one.
OrderlyScope(s) ==
    /\ \A i, j \in 1 .. Len(s.listed) :
          s.listed[i] # "main" /\ (s.listed[i] = s.listed[j] => i = j)
    /\ \A c \in Channels : \A i, j \in 1 .. Len(s.scripts[c]) :
          s.scripts[c][i] = "list" => c = "main" /\ (s.scripts[c][j] = "list" => i = j)

Orderly == \A s \in Scopes : OrderlyScope(s)

\* A server sets the window of a channel once.
WindowSetOnce(s) ==
    \A c \in Channels : \A i, j \in 1 .. Len(s.scripts[c]) :
        s.scripts[c][i] = "setAck" /\ s.scripts[c][j] = "setAck" => i = j

\* The messages that make the client start the agent.
Starts == {"init", "agentUp"}

\* The agent speaks on the main channel, and one that comes back has been heard.
AgentHeard(s) ==
    /\ \A c \in Channels \ {"main"} : \A i \in 1 .. Len(s.scripts[c]) :
          s.scripts[c][i] \notin Starts \cup {"agent"}
    /\ LET script == s.scripts["main"]
       IN  \A i, j \in 1 .. Len(script) :
              i < j /\ script[i] \in Starts /\ script[j] \in Starts =>
                  script[j] = "agentUp" /\ \E k \in i + 1 .. j - 1 : script[k] = "agent"

BodySize(kind) ==
    CASE kind \in {"ok", "denied", "mark"} -> 0
      [] kind \in {"reply", "data"} -> 2
      [] OTHER -> 1

\* A link's answer is one unit and has no header.
UnitsSent(n, kind) ==
    IF kind \in {"ok", "denied"} THEN <<[n |-> n, part |-> 1]>> ELSE UnitsOf(n, BodySize(kind))

Packet(kind) == [kind |-> kind, n |-> 0]
Granted(kind, n) == [kind |-> kind, n |-> n]

Init ==
    /\ scope \in Scopes
    /\ sock = [c \in Channels |-> IF c = "main" THEN "connecting" ELSE "none"]
    /\ rx = [c \in Channels |-> NewReceiver]
    /\ ack = [c \in Channels |-> [counter |-> 0, window |-> 0]]
    /\ linked = {}
    /\ runQ = <<>> /\ proxy = None
    /\ agent = Tokens
    /\ told = FALSE /\ gone = FALSE /\ early = FALSE /\ cut = {}
    /\ turn = None
    /\ up = [c \in Channels |-> <<>>] /\ down = [c \in Channels |-> <<>>]
    /\ server = [c \in Channels |->
                    [state |-> "link", script |-> scope.scripts[c], tokens |-> 0,
                     started |-> FALSE, attached |-> FALSE, window |-> 0, unacked |-> 0]]
    /\ wire = [c \in Channels |-> <<>>]
    /\ handled = [c \in Channels |-> <<>>]
    /\ ops = 0 /\ faults = 0
-----------------------------------------------------------------------------
\* What a handler does to the sockets.

\* send: on a socket that is not open it throws; the error goes to the
\* application and the channel disconnects.
SendAll(c, packets) ==
    LET sent == packets = <<>> \/ sock[c] = "open"
    IN  /\ up' = IF sent THEN [up EXCEPT ![c] = @ \o packets] ELSE up
        /\ sock' = IF sent \/ sock[c] = "none" THEN sock ELSE [sock EXCEPT ![c] = "closed"]
        /\ told' = (told \/ ~ sent)

\* RunQueue: the head of a queue is connected and ends its task when it opens.
RunNext(socks, q) ==
    IF q = <<>>
    THEN /\ sock' = socks /\ runQ' = <<>> /\ proxy' = None
    ELSE /\ sock' = [socks EXCEPT ![Head(q)] = "connecting"]
         /\ runQ' = Tail(q)
         /\ proxy' = Head(q)

\* A slip: the next channel is connected once this one is linked, not open.
SocketOpensAlone(c) ==
    /\ turn = None /\ sock[c] = "connecting"
    /\ up' = [up EXCEPT ![c] = <<Packet("link")>>]
    /\ sock' = [sock EXCEPT ![c] = "open"]
    /\ UNCHANGED <<scope, rx, ack, linked, runQ, proxy, agent, told, gone, turn, handled, cut, early,
                   down, server, wire, ops, faults>>

\* The socket is open: the link message, then the next task of the RunQueue.
SocketOpens(c) ==
    /\ turn = None /\ sock[c] = "connecting"
    /\ up' = [up EXCEPT ![c] = <<Packet("link")>>]
    /\ LET opened == [sock EXCEPT ![c] = "open"]
       IN  IF proxy = c THEN RunNext(opened, runQ)
           ELSE sock' = opened /\ UNCHANGED <<runQ, proxy>>
    /\ UNCHANGED <<scope, rx, ack, linked, agent, told, gone, turn, handled, cut, early,
                   down, server, wire, ops, faults>>

\* onclose or onerror: disconnect, and tell the application.
SocketLost(c) ==
    /\ turn = None
    /\ sock' = [sock EXCEPT ![c] = "closed"]
    /\ told' = TRUE
    /\ down' = [down EXCEPT ![c] = <<>>] /\ up' = [up EXCEPT ![c] = <<>>]
    /\ UNCHANGED <<scope, rx, ack, linked, runQ, proxy, agent, gone, turn, handled, cut, early,
                   server, wire, ops>>

SocketFails(c) ==
    /\ sock[c] \in {"connecting", "open"}
    /\ faults < scope.faults
    /\ faults' = faults + 1
    /\ SocketLost(c)

SocketCloses(c) ==
    /\ sock[c] = "open" /\ server[c].state = "closed" /\ down[c] = <<>>
    /\ UNCHANGED faults
    /\ SocketLost(c)
-----------------------------------------------------------------------------
\* Receiving.

Whole(c, k) ==
    /\ \A i \in 1 .. k : down[c][i].n = down[c][1].n
    /\ k < Len(down[c]) => down[c][k + 1].n # down[c][1].n

KindOf(c, n) == wire[c][n]

\* The chunk ends with a header whose body is still to come.
EndsAtHeader(c, k) ==
    LET u == down[c][k]
    IN  u.part = HeaderSize /\ BodySize(KindOf(c, u.n)) > 0

\* A chunk arrives and goes to the queue, which lies over the header of a
\* message when that was all there was in it.
Receives(c, k) ==
    /\ turn = None /\ sock[c] = "open"
    /\ c \in scope.split \/ Whole(c, k)
    /\ IF EndsAtHeader(c, k)
       THEN Cardinality(cut) < scope.cuts /\ cut' = cut \cup {<<c, down[c][k].n>>}
       ELSE UNCHANGED cut
    /\ down' = [down EXCEPT ![c] = SubSeq(@, k + 1, Len(@))]
    /\ LET r == Push(rx[c], SubSeq(down[c], 1, k))
       IN  /\ rx' = [rx EXCEPT ![c] = r]
           /\ turn' = IF Ready(r) THEN c ELSE None
    /\ UNCHANGED <<scope, sock, ack, linked, runQ, proxy, agent, told, gone, handled, early,
                   up, server, wire, ops, faults>>

\* The part that is there is taken; the loop ends when the next is not there.
Takes(c, size) ==
    LET r == TakeNext(rx[c], size)
    IN  /\ turn = c
        /\ rx' = [rx EXCEPT ![c] = r]
        /\ turn' = IF Ready(r) THEN c ELSE None
        /\ UNCHANGED <<scope, gone, cut, early, down, server, wire, ops, faults>>

HeaderTaken(c) ==
    /\ rx[c].phase \in {"reply", "header"}
    /\ Takes(c, BodySize(KindOf(c, Taken(rx[c])[1].n)))
    /\ UNCHANGED <<sock, ack, linked, runQ, proxy, agent, told, handled, up>>

\* A slip: the channel counts as connected before its ticket is sent.
ReplyTakenConnected(c) ==
    /\ rx[c].phase = "replyBody"
    /\ Takes(c, 0)
    /\ SendAll(c, (IF c = "inputs" THEN <<Packet("key")>> ELSE <<>>) \o <<Packet("ticket")>>)
    /\ UNCHANGED <<ack, linked, runQ, proxy, agent, handled>>

\* getRedLinkReplyBytes: the ticket.
ReplyTaken(c) ==
    /\ rx[c].phase = "replyBody"
    /\ Takes(c, 0)
    /\ SendAll(c, <<Packet("ticket")>>)
    /\ UNCHANGED <<ack, linked, runQ, proxy, agent, handled>>

\* What is sent once a channel is linked: of the inputs, all keys are released.
AfterLink(c) ==
    CASE c = "display" -> <<Packet("displayInit")>>
      [] c = "main" -> <<Packet("attachChannels")>>
      [] c = "inputs" -> <<Packet("key")>>
      [] OTHER -> <<>>

\* getErrorCodeBytes throws when the client is refused; execute catches it.
ErrorCodeTaken(c) ==
    /\ rx[c].phase = "errorCode"
    /\ Takes(c, 0)
    /\ IF KindOf(c, Taken(rx[c])[1].n) = "ok"
       THEN SendAll(c, AfterLink(c)) /\ linked' = linked \cup {c}
       ELSE UNCHANGED <<sock, up, told, linked>>
    /\ UNCHANGED <<ack, runQ, proxy, agent, handled>>
-----------------------------------------------------------------------------
\* Messages.

Acks(c) == ack[c].window # 0 /\ ack[c].counter + 1 = ack[c].window

AckPackets(c) == IF Acks(c) THEN <<Packet("ack")>> ELSE <<>>

\* A slip: the count goes on from before.
SetAckKeepsCount(c) == [counter |-> IF Acks(c) THEN 0 ELSE ack[c].counter + 1, window |-> Window]

SetAck(c) == [counter |-> 0, window |-> Window]

Counted(c) == [ack[c] EXCEPT !.counter = IF Acks(c) THEN 0 ELSE @ + 1]

\* sendInitMessage, and the resolution that the `ready` callback sets.
AgentStart == <<Granted("agentStart", agent), Packet("agentData"), Packet("agentData")>>

\* A slip: the tokens granted are added to a count that was not 0.
AgentDataMore ==
    IF agent = 1 THEN <<Tokens + 1, <<Granted("tokens", Tokens)>>>> ELSE <<agent - 1, <<>>>>

\* onAgentData: the tokens left, and what is sent.  When tokens are granted
\* `packet` becomes the grant and the message itself is not looked at.
AgentData ==
    IF agent = 1 THEN <<Tokens, <<Granted("tokens", Tokens)>>>> ELSE <<agent - 1, <<>>>>

\* What a message makes the client send on its channel.
Answer(c, kind) ==
    CASE kind = "setAck" -> <<Packet("ackSync")>>
      [] kind = "ping" -> <<Packet("pong")>>
      [] kind \in Starts -> AgentStart \o <<Packet("mouseMode")>>
      [] kind = "initAlone" -> <<Packet("mouseMode")>>
      [] kind = "agent" -> AgentData[2]
      [] OTHER -> <<>>

\* getRawSpiceMessage and the handler of the message, which changes more than
\* the channel only for a channel list.  What a garbled header says is taken
\* for a type that nobody handles.
MessageTaken(c) ==
    LET n == Complete(rx[c])
        kind == IF n = 0 THEN "garbled" ELSE KindOf(c, n)
    IN  /\ rx[c].phase = "body"
        /\ Takes(c, 0)
        /\ handled' = [handled EXCEPT ![c] = Append(@, n)]
        /\ ack' = [ack EXCEPT ![c] = IF kind = "setAck" THEN SetAck(c) ELSE Counted(c)]
        /\ agent' = IF kind = "agent" THEN AgentData[1] ELSE agent
        /\ IF kind = "list" /\ proxy = None
           THEN /\ RunNext(sock, runQ \o scope.listed)
                /\ up' = [up EXCEPT ![c] = @ \o AckPackets(c)]
                /\ UNCHANGED told
           ELSE /\ SendAll(c, AckPackets(c) \o Answer(c, kind))
                /\ runQ' = IF kind = "list" THEN runQ \o scope.listed ELSE runQ
                /\ UNCHANGED proxy
        /\ UNCHANGED linked

Handles(c) ==
    HeaderTaken(c) \/ ReplyTaken(c) \/ ErrorCodeTaken(c) \/ MessageTaken(c)
-----------------------------------------------------------------------------
\* The user and the application.

\* send of SpiceConnection, whatever the state of the channel.
UserSends(c, kind) ==
    /\ turn = None /\ ~ gone
    /\ ops < scope.ops
    /\ ops' = ops + 1
    /\ SendAll(c, <<Packet(kind)>>)
    /\ early' = (early \/ c \notin linked)
    /\ UNCHANGED <<scope, rx, ack, linked, runQ, proxy, agent, gone, turn, handled, cut,
                   down, server, wire, faults>>

\* The keyboard listens from the first canvas on.
Shown == \E i \in 1 .. Len(handled["display"]) :
            handled["display"][i] # 0 /\ KindOf("display", handled["display"][i]) = "create"

Types == Shown /\ UserSends("inputs", "key")

\* The window is resized: setResolution, on the main channel.
Resizes == UserSends("main", "agentData")

\* A slip: a channel that is still connecting is left to connect.
DisconnectOpen ==
    /\ turn = None /\ ~ gone /\ scope.leaves
    /\ gone' = TRUE
    /\ sock' = [c \in Channels |-> IF sock[c] = "open" THEN "closed" ELSE sock[c]]
    /\ UNCHANGED <<scope, rx, ack, linked, runQ, proxy, agent, told, turn, handled, cut, early,
                   up, down, server, wire, ops, faults>>

\* disconnect: all sockets are closed, their listeners dropped.
Disconnect ==
    /\ turn = None /\ ~ gone /\ scope.leaves
    /\ gone' = TRUE
    /\ sock' = [c \in Channels |-> "closed"]
    /\ UNCHANGED <<scope, rx, ack, linked, runQ, proxy, agent, told, turn, handled, cut, early,
                   up, down, server, wire, ops, faults>>
-----------------------------------------------------------------------------
\* The server.

Sent(c, kinds) ==
    LET first == Len(wire[c])
    IN  /\ wire' = [wire EXCEPT ![c] = @ \o kinds]
        /\ down' = [down EXCEPT ![c] =
                IF kinds = <<>> THEN @ ELSE @ \o UnitsSent(first + 1, kinds[1])]

\* It reads a packet.  A link is accepted, or refused and closed: always when
\* something else comes in the place of the ticket.
ServerReads(c) ==
    LET p == Head(up[c])
        s == server[c]
        becomes(t) == server' = [server EXCEPT ![c] = t]
        answered(t, kinds) == becomes(t) /\ Sent(c, kinds) /\ UNCHANGED faults
    IN  /\ turn = None /\ sock[c] = "open" /\ up[c] # <<>>
        /\ up' = [up EXCEPT ![c] = Tail(@)]
        /\ \/ s.state = "link" /\ answered([s EXCEPT !.state = "ticket"], <<"reply">>)
           \/ s.state = "ticket" /\ p.kind = "ticket" /\ answered([s EXCEPT !.state = "up"], <<"ok">>)
           \/ s.state = "ticket" /\ p.kind = "ticket" /\ faults < scope.faults
                /\ becomes([s EXCEPT !.state = "closed"])
                /\ Sent(c, <<"denied">>)
                /\ faults' = faults + 1
           \/ s.state = "ticket" /\ p.kind # "ticket"
                /\ answered([s EXCEPT !.state = "closed"], <<"denied">>)
           \/ s.state = "up" /\ p.kind = "attachChannels" /\ answered([s EXCEPT !.attached = TRUE], <<>>)
           \/ s.state = "up" /\ p.kind = "agentStart"
                /\ answered([s EXCEPT !.tokens = p.n, !.started = TRUE], <<>>)
           \/ s.state = "up" /\ p.kind = "tokens" /\ answered([s EXCEPT !.tokens = @ + p.n], <<>>)
           \/ s.state = "up" /\ p.kind = "ack"
                /\ answered([s EXCEPT !.unacked = @ - s.window], <<>>)
           \/ s.state = "up"
                /\ p.kind \notin {"attachChannels", "agentStart", "tokens", "ack"}
                /\ answered(s, <<>>)
           \/ s.state = "closed" /\ answered(s, <<>>)
        /\ UNCHANGED <<scope, client, ops>>

\* It sends the next message, when its flow control allows it: at most twice the
\* window without an ACK, agent data for as many tokens as it has.
ServerSends(c) ==
    LET s == server[c]
        kind == Head(s.script)
        counted == [s EXCEPT !.script = Tail(@),
                             !.unacked = IF s.window = 0 THEN @ ELSE @ + 1]
    IN  /\ turn = None /\ sock[c] = "open" /\ s.state = "up" /\ s.script # <<>>
        /\ s.window # 0 => s.unacked < 2 * s.window
        /\ kind = "list" => s.attached
        /\ kind = "agent" => s.started /\ s.tokens > 0
        /\ server' = [server EXCEPT ![c] =
                CASE kind = "setAck" -> [counted EXCEPT !.window = Window, !.unacked = 0]
                  [] kind = "agent" -> [counted EXCEPT !.tokens = @ - 1]
                  [] kind = "agentUp" -> [counted EXCEPT !.started = FALSE]
                  [] OTHER -> counted]
        /\ Sent(c, <<kind>>)
        /\ UNCHANGED <<scope, client, up, ops, faults>>

Protocol ==
    \E c \in Channels :
        \/ SocketOpens(c) \/ SocketCloses(c)
        \/ \E k \in 1 .. Len(down[c]) : Receives(c, k)
        \/ Handles(c)
        \/ ServerReads(c) \/ ServerSends(c)

Next ==
    \/ Protocol
    \/ \E c \in Channels : SocketFails(c)
    \/ Types \/ Resizes \/ Disconnect

Spec == Init /\ [][Next]_vars

\* Sockets open or fail, data arrives, and the server answers.
FairSpec == Spec /\ WF_vars(Protocol)
-----------------------------------------------------------------------------
TypeOK ==
    /\ scope \in Scopes
    /\ sock \in [Channels -> {"none", "connecting", "open", "closed"}]
    /\ rx \in [Channels -> Receivers]
    /\ ack \in [Channels -> [counter : Nat, window : {0, Window}]]
    /\ linked \subseteq Channels
    /\ runQ \in Seq(Channels)
    /\ proxy \in Channels \cup {None} /\ turn \in Channels \cup {None}
    /\ agent \in 1 .. Tokens
    /\ {told, gone, early} \subseteq BOOLEAN
    /\ wire \in [Channels -> Seq(Kinds)]
    /\ handled \in [Channels -> Seq(Nat)]
    /\ cut \subseteq Channels \X Nat

\* reply and error code, which come before the first message
LinkAnswers == 2

(* However the network cuts what the server sends, every message is handled *)
(* once and in its turn, and its header and its body belong together: only  *)
(* one whose header was the end of a chunk may be garbled.                  *)
MessagesIntact ==
    \A c \in Channels : \A i \in 1 .. Len(handled[c]) :
        \/ handled[c][i] = i + LinkAnswers
        \/ handled[c][i] = 0 /\ <<c, i + LinkAnswers>> \in cut

\* A message was handled with a header that the next chunk had overwritten: as
\* what it was taken then is not known, and nothing is said of what follows.
Garbled == \E c \in Channels : \E i \in 1 .. Len(handled[c]) : handled[c][i] = 0

Count(kind, c) == Cardinality({i \in 1 .. Len(up[c]) : up[c][i].kind = kind})

\* The numbers of the messages sent on c and not handled.
OnTheWay(c) == Len(handled[c]) + LinkAnswers + 1 .. Len(wire[c])

(* What the server counts as not acknowledged is what the client has        *)
(* counted, what is on its way and what the ACKs on their way acknowledge:  *)
(* no miscount can ever leave the server waiting.                           *)
AcksAgree ==
    ~ Garbled => \A c \in Channels :
        ack[c].window # 0 /\ sock[c] = "open" =>
            server[c].unacked = ack[c].counter + Cardinality(OnTheWay(c))
                                    + Window * Count("ack", c)

(* The tokens the server has, those granted on their way and the agent      *)
(* messages on their way are the tokens the client counts.                  *)
TokensAgree ==
    LET s == server["main"]
        coming == {n \in OnTheWay("main") : KindOf("main", n) = "agent"}
    IN  ~ Garbled /\ sock["main"] = "open" /\ s.started /\ Count("agentStart", "main") = 0 =>
            s.tokens + Tokens * Count("tokens", "main") + Cardinality(coming) = agent

(* The application is told of an error only when a socket failed, a link    *)
(* was refused, something was sent on a channel that was not linked or a    *)
(* message garbled: what the handlers send by themselves breaks no channel. *)
NoErrorOfItsOwn == told => faults > 0 \/ early \/ Garbled

(* Once the application has disconnected no channel opens, nothing is sent  *)
(* and nothing is handled.                                                  *)
StaysDisconnected ==
    [][gone => sock' = sock /\ up' = up /\ handled' = handled]_vars

Expected == {"main"} \cup {scope.listed[i] : i \in 1 .. Len(scope.listed)}
Delivered(c) == server[c].script = <<>> /\ OnTheWay(c) = {} /\ c \in linked

(* Every channel of the list is opened and linked and all that the server   *)
(* has to say arrives, unless an error is told, the application leaves or a *)
(* message is garbled.                                                      *)
EverythingArrives ==
    <>(told \/ gone \/ Garbled \/ \A c \in Expected : Delivered(c))
=============================================================================
