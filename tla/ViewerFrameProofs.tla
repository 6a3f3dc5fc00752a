------------------------- MODULE ViewerFrameProofs -------------------------
(***************************************************************************)
(* What waits to be drawn in a noVNC viewer is of one update, and its      *)
(* handlers read messages where they begin, for every instance. The        *)
(* drawing queue is filled by messages and emptied between them, so the    *)
(* first invariant says which sessions read messages at all: it follows    *)
(* the handshake of client and server, with what is still ahead in the     *)
(* stream, the dialogs, the timers and the handlers that resume it. The    *)
(* second says of what is ahead where the client stands in it.             *)
(***************************************************************************)
EXTENDS ViewerProofs

-----------------------------------------------------------------------------
(* A session that goes down.                                               *)

\* A failure ends the session and leaves the other fields.
LEMMA FailsDown ==
    ASSUME Base, Linked, NEW r, Parts \subseteq DOMAIN r, r.conn = rfb.conn,
           Becomes(Failed([ui |-> ui, rfb |-> r, ws |-> ws]))
    PROVE  /\ rfb'.conn = "disconnected" /\ ~ Live(rfb)' /\ Linked' /\ (ui'.dialog => ui.dialog)
           /\ \A p \in Parts \ {"conn", "timer"} : rfb'[p] = r[p]
<1>0. ui \in Pages /\ ws \in Channels /\ rfb.conn \in States
  BY BaseIs
<1>1. {"conn", "timer"} \subseteq DOMAIN r
  BY DEF Parts
<1> DEFINE c == [ui |-> ui, rfb |-> r, ws |-> ws]
<1>2. CASE rfb.conn \in {"connecting", "connected"}
  <2> DEFINE r1 == [[r EXCEPT !.conn = "disconnecting"] EXCEPT !.timer = TRUE]
             w1 == CloseSocket(ws)
             r2 == [r1 EXCEPT !.conn = "disconnected", !.timer = FALSE]
             w2 == [w1 EXCEPT !.close = FALSE]
  <2>1. ToDisconnecting(c) = [ui |-> ui, rfb |-> r1, ws |-> w1]
    BY <1>2 DEF ToDisconnecting
  <2>2. r1.conn = "disconnecting"
    BY <1>1
  <2>3. Failed(c) = [ui |-> DisconnectFinished(ui), rfb |-> r2, ws |-> w2]
    <3> HIDE DEF r1, w1
    <3>1. ToDisconnected([ui |-> ui, rfb |-> r1, ws |-> w1]) = [ui |-> DisconnectFinished(ui), rfb |-> r2, ws |-> w2]
      BY <2>2 DEF ToDisconnected
    <3> QED
      BY <2>1, <3>1 DEF Failed
  <2>4. ui' = DisconnectFinished(ui) /\ rfb' = r2 /\ ws' = w2
    <3> HIDE DEF r2, w2
    <3> QED
      BY <2>3 DEF Becomes
  <2>5. rfb'.conn = "disconnected" /\ \A p \in Parts \ {"conn", "timer"} : rfb'[p] = r[p]
    BY <1>1, <2>4 DEF Parts
  <2>6. ui'.rfb = FALSE /\ ui'.dialog = FALSE
    BY <1>0, <2>4 DEF DisconnectFinished, Pages
  <2>7. /\ ws'.message = FALSE /\ ws'.close = FALSE
        /\ ws'.ready = IF ws.ready \in {"connecting", "open"} THEN "closing" ELSE ws.ready
    BY <1>0, <2>4 DEF CloseSocket, Channels
  <2>8. ws'.ready \in {"closing", "closed"}
    BY <1>2, <2>7 DEF Linked, Live
  <2>9. ~ Live(rfb')
    BY <2>5 DEF Live
  <2>10. Linked'
    BY <2>5, <2>6, <2>7, <2>8, <2>9 DEF Linked
  <2> QED
    BY <2>5, <2>6, <2>9, <2>10
<1>3. CASE rfb.conn = "disconnecting"
  <2> DEFINE r2 == [r EXCEPT !.conn = "disconnected", !.timer = FALSE]
             w2 == [ws EXCEPT !.close = FALSE]
  <2>1. ToDisconnecting(c) = c
    BY <1>3 DEF ToDisconnecting
  <2>3. Failed(c) = [ui |-> DisconnectFinished(ui), rfb |-> r2, ws |-> w2]
    <3>1. ToDisconnected(c) = [ui |-> DisconnectFinished(ui), rfb |-> r2, ws |-> w2]
      BY <1>3 DEF ToDisconnected
    <3> QED
      BY <2>1, <3>1 DEF Failed
  <2>4. ui' = DisconnectFinished(ui) /\ rfb' = r2 /\ ws' = w2
    <3> HIDE DEF r2, w2
    <3> QED
      BY <2>3 DEF Becomes
  <2>5. rfb'.conn = "disconnected" /\ \A p \in Parts \ {"conn", "timer"} : rfb'[p] = r[p]
    BY <1>1, <2>4 DEF Parts
  <2>6. ui'.rfb = FALSE /\ ui'.dialog = FALSE
    BY <1>0, <2>4 DEF DisconnectFinished, Pages
  <2>7. ws'.message = ws.message /\ ws'.close = FALSE /\ ws'.ready = ws.ready
    BY <1>0, <2>4 DEF Channels
  <2>8. ws'.ready \in {"closing", "closed"} /\ ~ ws'.message
    BY <1>3, <2>7 DEF Linked, Live
  <2>9. ~ Live(rfb')
    BY <2>5 DEF Live
  <2>10. Linked'
    BY <2>5, <2>6, <2>7, <2>8, <2>9 DEF Linked
  <2> QED
    BY <2>5, <2>6, <2>9, <2>10
<1>4. CASE rfb.conn = "disconnected"
  <2>1. ToDisconnecting(c) = c
    BY <1>4 DEF ToDisconnecting
  <2>2. Failed(c) = c
    BY <1>4, <2>1 DEF Failed, ToDisconnected
  <2>3. ui' = ui /\ rfb' = r /\ ws' = ws
    BY <2>2 DEF Becomes
  <2>4. ~ Live(rfb') /\ ~ Live(rfb)
    BY <1>4, <2>3 DEF Live
  <2>5. Linked'
    BY <1>4, <2>3, <2>4 DEF Linked
  <2> QED
    BY <1>4, <2>3, <2>4, <2>5
<1> QED
  BY <1>0, <1>2, <1>3, <1>4 DEF States

\* A handler of the handshake that fails the session.
LEMMA HandFails ==
    ASSUME Runs, Base', NEW k, NEW n \in Nat \ {0}, Reads(n), turn' \in {"idle", "end"}, disp' = disp,
           ~ Asking(rfb), rfb.init # "Authentication", RQlen(buf) > 0, At(k).synced,
           Becomes(Failed([Conn EXCEPT !.rfb = At(k)]))
    PROVE  Hand'
<1>1. /\ turn = "init" /\ rfb.conn = "connecting" /\ rfb.resumes = 0 /\ ~ ui.dialog /\ rfb.ard = "idle" /\ Fresh
      /\ Parts \subseteq DOMAIN rfb
      /\ rfb.init \in {"", "ProtocolVersion", "Security"} => rfb.vencrypt = 0 /\ ~ rfb.tight
  BY Settled
<1>2. [Conn EXCEPT !.rfb = At(k)] = [ui |-> ui, rfb |-> At(k), ws |-> ws]
  BY DEF Conn
<1>3. Parts \subseteq DOMAIN At(k) /\ At(k).conn = rfb.conn /\ \A p \in Parts \ {"synced"} : At(k)[p] = rfb[p]
  BY <1>1, AtIs DEF Parts
<1>4. /\ rfb'.conn = "disconnected" /\ ~ Live(rfb)' /\ Linked' /\ (ui'.dialog => ui.dialog)
      /\ \A p \in Parts \ {"conn", "timer"} : rfb'[p] = At(k)[p]
  BY <1>2, <1>3, FailsDown DEF Runs, Hand
<1>5. /\ rfb'.init = rfb.init /\ rfb'.resumes = 0 /\ rfb'.ard = "idle" /\ rfb'.vencrypt = rfb.vencrypt
      /\ rfb'.tight = rfb.tight /\ rfb'.rects = rfb.rects /\ rfb'.encoding = rfb.encoding
      /\ rfb'.update = rfb.update /\ rfb'.flushing = rfb.flushing /\ rfb'.synced = At(k).synced
  BY <1>1, <1>3, <1>4 DEF Parts
<1>6. Fresh'
  BY <1>1, <1>5 DEF Fresh
<1>7. Resuming'
  <2>1. ~ (rfb'.resumes > 0)
    BY <1>5, NoneMore, Zenon
  <2> QED
    BY <1>1, <1>4, <1>5, <2>1 DEF Resuming
<1>8. Begun(rfb, Ahead)'
  BY <1>5 DEF Begun, Auth
<1> QED
  BY <1>4, <1>6, <1>7, <1>8 DEF Hand

\* The choice of a security type, also when there is none that is known.
LEMMA SecurityFails ==
    ASSUME Runs, Base', NegotiateSecurity
    PROVE  Hand'
<1>1. CASE ~ Becomes(Failed([Conn EXCEPT !.rfb = At("types")]))
  BY <1>1, SecurityHand
<1>2. CASE Becomes(Failed([Conn EXCEPT !.rfb = At("types")]))
  <2>0. rfb.init = "Security" /\ ~ Asking(rfb)
    BY DEF NegotiateSecurity, InitTurn, Asking
  <2>1. /\ turn = "init" /\ rfb.conn = "connecting" /\ Fresh /\ Parts \subseteq DOMAIN rfb
    BY <2>0, Settled
  <2>2. rfb'.conn = "disconnected"
    <3>1. [Conn EXCEPT !.rfb = At("types")] = [ui |-> ui, rfb |-> At("types"), ws |-> ws]
      BY DEF Conn
    <3>2. Parts \subseteq DOMAIN At("types") /\ At("types").conn = rfb.conn
      BY <2>1, AtIs DEF Parts
    <3> QED
      BY <1>2, <3>1, <3>2, FailsDown DEF Runs, Hand
  <2>3. (Reads(2) /\ Ends /\ disp' = disp) \/ rfb'.conn = rfb.conn
    <3>1. ASSUME NEW m, WaitsFor(1, m, 1) PROVE rfb'.conn = rfb.conn
      BY <3>1 DEF WaitsFor
    <3>2. ASSUME rfb' = [At("types") EXCEPT !.init = "SecurityReason"] PROVE rfb'.conn = rfb.conn
      BY <2>1, <3>2, AtIs DEF Parts
    <3>3. ASSUME NEW s, rfb' = [At("types") EXCEPT !.scheme = s, !.init = "Authentication"]
          PROVE  rfb'.conn = rfb.conn
      BY <2>1, <3>3, AtIs DEF Parts
    <3> QED
      BY <3>1, <3>2, <3>3 DEF NegotiateSecurity
  <2>4. Reads(2) /\ Ends /\ disp' = disp
    BY <2>1, <2>2, <2>3
  <2>5. RQlen(buf) > 0 /\ 1 \in 1 .. RQlen(buf)
    <3>1. RQlen(buf) \in Nat
      BY BaseIs DEF Runs
    <3> QED
      BY <2>4, <3>1 DEF Reads
  <2>6. At("types").synced
    <3>1. /\ Ahead \in Seq(Units0) /\ Ahead[1] = Peek(1) /\ Len(Ahead) > 0
      <4>1. Sound(buf) /\ wire \in Seq(Units0)
        BY BaseIs DEF Runs
      <4> QED
        BY <2>5, <4>1, AheadIs
    <3>2. Quiet
      <4>1. Ahead # <<>>
        BY <3>1, EmptySeq
      <4> QED
        BY <2>1, <4>1, Turned DEF Talk, Waiting
    <3>3. PICK list \in Seq(Schemes \cup {"other"}) : Ahead = Offer(list)
      BY <2>0, <3>2 DEF Quiet, Says
    <3>4. Peek(1) = U("types", 1, list)
      BY <3>1, <3>3, OfferIs
    <3> QED
      BY <2>1, <3>4, Begins
  <2>7. turn' \in {"idle", "end"}
    BY <2>4 DEF Ends
  <2> QED
    BY <1>2, <2>0, <2>4, <2>5, <2>6, <2>7, HandFails
<1> QED
  BY <1>1, <1>2

\* The reason of a refusal.
LEMMA ReasonHand ==
    ASSUME Runs, Base', HandleSecurityReason
    PROVE  Hand'
<1>0. rfb.init = "SecurityReason" /\ ~ Asking(rfb)
  BY DEF HandleSecurityReason, InitTurn, Asking
<1>1. /\ turn = "init" /\ rfb.conn = "connecting" /\ Fresh /\ Parts \subseteq DOMAIN rfb
  BY <1>0, Settled
<1>2. CASE WaitsFor(0, 1, 0) \/ WaitsFor(1, 1, 1)
  BY <1>2, WaitsHand
<1>3. CASE Reads(2) /\ Ends /\ Becomes(Failed([Conn EXCEPT !.rfb = At("reason")])) /\ disp' = disp
  <2>1. RQlen(buf) > 0 /\ 1 \in 1 .. RQlen(buf)
    <3>1. RQlen(buf) \in Nat
      BY BaseIs DEF Runs
    <3> QED
      BY <1>3, <3>1 DEF Reads
  <2>2. At("reason").synced
    <3>1. /\ Ahead \in Seq(Units0) /\ Ahead[1] = Peek(1) /\ Len(Ahead) > 0
      <4>1. Sound(buf) /\ wire \in Seq(Units0)
        BY BaseIs DEF Runs
      <4> QED
        BY <2>1, <4>1, AheadIs
    <3>2. Quiet
      <4>1. Ahead # <<>>
        BY <3>1, EmptySeq
      <4> QED
        BY <1>1, <4>1, Turned DEF Talk, Waiting
    <3>3. Peek(1) = U("reason", 1, <<>>)
      BY <1>0, <3>1, <3>2 DEF Quiet, Says, Reasons
    <3> QED
      BY <1>1, <3>3, Begins
  <2>3. turn' \in {"idle", "end"}
    BY <1>3 DEF Ends
  <2> QED
    BY <1>0, <1>3, <2>1, <2>2, <2>3, HandFails
<1> QED
  BY <1>2, <1>3 DEF HandleSecurityReason

-----------------------------------------------------------------------------
(* The connection is made.                                                 *)

\* What completes the connection.
LEMMA ConnectedIs ==
    ASSUME NEW u \in Pages, NEW r, Parts \subseteq DOMAIN r, r.conn = "connecting", NEW w,
           Becomes(ToConnected([ui |-> u, rfb |-> r, ws |-> w]))
    PROVE  /\ rfb'.conn = "connected" /\ ui'.rfb = u.rfb /\ ui'.dialog = FALSE /\ ws' = w
           /\ \A p \in Parts \ {"conn"} : rfb'[p] = r[p]
<1> DEFINE r2 == [r EXCEPT !.conn = "connected"]
           u2 == ConnectFinished(u)
<1>1. ToConnected([ui |-> u, rfb |-> r, ws |-> w]) = [ui |-> u2, rfb |-> r2, ws |-> w]
  BY DEF ToConnected
<1>2. rfb' = r2 /\ ui' = u2 /\ ws' = w
  <2> HIDE DEF r2, u2
  <2> QED
    BY <1>1 DEF Becomes
<1>3. ui'.rfb = u.rfb /\ ui'.dialog = FALSE
  BY <1>2 DEF ConnectFinished, Pages
<1> QED
  BY <1>2, <1>3 DEF Parts

\* The server's initialisation, after which the client reads messages.
LEMMA ServerInitHand ==
    ASSUME Runs, Base', NegotiateServerInit
    PROVE  Hand'
<1>0. rfb.init = "ServerInitialisation" /\ ~ Asking(rfb)
  BY DEF NegotiateServerInit, InitTurn, Asking
<1>1. /\ turn = "init" /\ rfb.conn = "connecting" /\ ws.ready = "open" /\ Live(rfb)
      /\ rfb.resumes = 0 /\ ~ ui.dialog /\ rfb.ard = "idle" /\ Fresh /\ Parts \subseteq DOMAIN rfb
  BY <1>0, Settled
<1>2. ASSUME NEW read \in 0 .. ServerInitUnits - 1, WaitsFor(read, 1, read) PROVE Hand'
  <2>1. read \in Nat
    BY DEF ServerInitUnits
  <2> QED
    BY <1>2, <2>1, WaitsHand
<1>3. CASE /\ Ends /\ Becomes(ToConnected([Conn EXCEPT !.rfb = At("serverinit")]))
           /\ disp' = Draw(disp, "flip", 0)
  <2>1. [Conn EXCEPT !.rfb = At("serverinit")] = [ui |-> ui, rfb |-> At("serverinit"), ws |-> ws]
    BY DEF Conn
  <2>2. /\ Parts \subseteq DOMAIN At("serverinit") /\ At("serverinit").conn = rfb.conn
        /\ \A p \in Parts \ {"synced"} : At("serverinit")[p] = rfb[p]
    BY <1>1, AtIs DEF Parts
  <2>3. /\ rfb'.conn = "connected" /\ ui'.rfb = ui.rfb /\ ui'.dialog = FALSE /\ ws' = ws
        /\ \A p \in Parts \ {"conn"} : rfb'[p] = At("serverinit")[p]
    <3>1. ui \in Pages
      BY BaseIs DEF Runs
    <3> DEFINE r == At("serverinit")
    <3>2. Becomes(ToConnected([ui |-> ui, rfb |-> r, ws |-> ws])) /\ Parts \subseteq DOMAIN r /\ r.conn = "connecting"
      BY <1>1, <1>3, <2>1, <2>2
    <3> HIDE DEF r
    <3>3. /\ rfb'.conn = "connected" /\ ui'.rfb = ui.rfb /\ ui'.dialog = FALSE /\ ws' = ws
          /\ \A p \in Parts \ {"conn"} : rfb'[p] = r[p]
      BY <3>1, <3>2, ConnectedIs
    <3> QED
      BY <3>3 DEF r
  <2>4. /\ rfb'.init = "ServerInitialisation" /\ rfb'.resumes = 0 /\ rfb'.ard = "idle"
        /\ rfb'.flushing = rfb.flushing
    BY <1>0, <1>1, <2>2, <2>3 DEF Parts
  <2>5. disp'.q = <<>>
    <3>1. disp.q = <<>> /\ disp \in Displays
      BY <1>1 DEF Fresh, Runs, Base, Ordered
    <3> QED
      BY <1>3, <3>1 DEF Draw, Pending, Displays
  <2>6. Drawing' = {}
    <3>1. Drawing' = {disp'.q[i].update : i \in 1 .. Len(disp'.q)}
      BY DEF Drawing
    <3>2. 1 .. Len(disp'.q) = {}
      BY <2>5
    <3> QED
      BY <3>1, <3>2
  <2>7. Late'
    <3>1. ~ rfb'.flushing
      BY <1>1, <2>4 DEF Fresh
    <3>2. turn' \notin {"once", "init"}
      BY <1>3, <1>1 DEF Ends
    <3> QED
      BY <2>3, <2>4, <2>6, <3>1, <3>2 DEF Late
  <2>8. Live(rfb)' /\ Linked'
    <3>1. Live(rfb)'
      BY <2>3 DEF Live
    <3> QED
      BY <1>1, <2>3, <3>1 DEF Linked, Runs, Hand
  <2> QED
    BY <2>3, <2>7, <2>8 DEF Hand
<1> QED
  BY <1>2, <1>3 DEF NegotiateServerInit

\* The handlers of the handshake keep the invariant.
LEMMA HandshakeHand ==
    ASSUME Base, Base', Hand, Handshake
    PROVE  Hand'
<1>1. Runs
  BY DEF Runs, Handshake, InitTurn, Scheme, NegotiateProtocolVersion, NegotiateSecurity, NoAuth,
     NegotiateStdVNCAuth, NegotiatePlainAuth, NegotiateXvpAuth, NegotiateVeNCryptAuth, NegotiateTightAuth,
     NegotiateARDAuth, HandleSecurityResult, HandleSecurityReason, ClientInitialisation, NegotiateServerInit
<1> QED
  BY <1>1, VersionHand, SecurityFails, NoAuthHand, VncHand, PlainHand, XvpHand, VencryptHand, TightHand,
     ArdHand, ResultHand, ReasonHand, ClientInitHand, ServerInitHand DEF Handshake

-----------------------------------------------------------------------------
(* The updates that what waits to be drawn belongs to.                     *)

\* The updates of the actions of a drawing queue.
UpdatesOf(d) == {d.q[i].update : i \in 1 .. Len(d.q)}

\* The scan draws, and adds nothing.
LEMMA ScanUpdates ==
    ASSUME NEW d, Ordered(d)
    PROVE  /\ UpdatesOf(Scan(d)) \subseteq UpdatesOf(d)
           /\ Scan(d).flushing => d.flushing
           /\ d.flushing => Scan(d).flushing \/ Scan(d).q = <<>>
           /\ d.q = <<>> => Scan(d).q = <<>>
<1> DEFINE k == Drawable(d.q)
           rest == SubSeq(d.q, k + 1, Len(d.q))
<1>1. d.q \in Seq(Actions) /\ Len(d.q) \in Nat /\ d.flushing \in BOOLEAN
      /\ d \in [q : Seq(Actions), flushing : BOOLEAN, next : Nat, drawn : Seq(Nat)]
  BY OrderedParts
<1>2. k \in 0 .. Len(d.q)
  BY <1>1, DrawableInRange
<1>3. Scan(d).q = rest /\ Scan(d).flushing = (d.flushing /\ k < Len(d.q))
  BY <1>1 DEF Scan
<1> HIDE DEF k
<1>4. /\ rest \in Seq(Actions) /\ Len(rest) = Len(d.q) - k
      /\ \A i \in 1 .. Len(d.q) - k : rest[i] = d.q[k + i]
  BY <1>1, <1>2
<1> HIDE DEF rest
<1>5. ASSUME NEW i \in 1 .. Len(rest) PROVE rest[i].update \in UpdatesOf(d)
  <2>1. i \in 1 .. Len(d.q) - k /\ k + i \in 1 .. Len(d.q)
    BY <1>1, <1>2, <1>4
  <2>2. rest[i] = d.q[k + i]
    BY <1>4, <2>1
  <2> QED
    BY <2>1, <2>2 DEF UpdatesOf
<1>6. UpdatesOf(Scan(d)) \subseteq UpdatesOf(d)
  BY <1>3, <1>5 DEF UpdatesOf
<1>7. ~ (k < Len(d.q)) => rest = <<>>
  <2>1. ~ (k < Len(d.q)) => Len(rest) = 0
    BY <1>1, <1>2, <1>4
  <2> QED
    BY <1>4, <2>1, EmptySeq
<1>8. d.q = <<>> => rest = <<>>
  <2>1. d.q = <<>> => ~ (k < Len(d.q))
    BY <1>2
  <2> QED
    BY <1>7, <2>1
<1> QED
  BY <1>3, <1>6, <1>7, <1>8

\* An action adds its update only,
LEMMA PushUpdates ==
    ASSUME NEW d, Ordered(d), NEW a \in Actions, a.n = d.next
    PROVE  UpdatesOf(Push(d, a)) \subseteq UpdatesOf(d) \cup {a.update}
<1> DEFINE e == [d EXCEPT !.q = Append(@, a), !.next = @ + 1]
<1>1. d.q \in Seq(Actions) /\ Len(d.q) \in Nat
      /\ d \in [q : Seq(Actions), flushing : BOOLEAN, next : Nat, drawn : Seq(Nat)]
  BY OrderedParts
<1>2. e.q = Append(d.q, a)
  BY <1>1
<1>3. Push(d, a) = IF Len(e.q) = 1 THEN Scan(e) ELSE e
  BY DEF Push
<1> HIDE DEF e
<1>4. /\ Len(e.q) = Len(d.q) + 1 /\ e.q[Len(d.q) + 1] = a
      /\ \A i \in 1 .. Len(d.q) : e.q[i] = d.q[i]
  BY <1>1, <1>2
<1>5. UpdatesOf(e) \subseteq UpdatesOf(d) \cup {a.update}
  <2>1. ASSUME NEW i \in 1 .. Len(e.q) PROVE e.q[i].update \in UpdatesOf(d) \cup {a.update}
    <3>1. CASE i = Len(d.q) + 1
      BY <1>4, <3>1
    <3>2. CASE i # Len(d.q) + 1
      <4>1. i \in 1 .. Len(d.q)
        BY <1>1, <1>4, <3>2
      <4> QED
        BY <1>4, <4>1 DEF UpdatesOf
    <3> QED
      BY <3>1, <3>2
  <2> QED
    BY <2>1 DEF UpdatesOf
<1>6. Len(e.q) = 1 => UpdatesOf(Scan(e)) \subseteq UpdatesOf(e)
  <2>1. Ordered(e)
    <3>1. e = Added(d, a)
      BY DEF e, Added
    <3> QED
      BY <3>1, AddedOrdered
  <2> QED
    BY <2>1, ScanUpdates
<1> QED
  BY <1>3, <1>5, <1>6

\* also through the methods that draw
LEMMA DrawUpdates ==
    ASSUME NEW d, Ordered(d), NEW kind \in Kinds, NEW u \in Nat
    PROVE  /\ UpdatesOf(Draw(d, kind, u)) \subseteq UpdatesOf(d) \cup {u}
           /\ d.q = <<>> => Draw(d, kind, u).q = <<>>
<1>0. d \in [q : Seq(Actions), flushing : BOOLEAN, next : Nat, drawn : Seq(Nat)] /\ d.next \in Nat
  BY OrderedParts
<1>1. CASE Pending(d)
  <2>1. /\ NewAction(d, kind, u) \in Actions /\ NewAction(d, kind, u).n = d.next
        /\ NewAction(d, kind, u).update = u
    BY <1>0 DEF NewAction, Actions
  <2>2. Draw(d, kind, u) = Push(d, NewAction(d, kind, u)) /\ d.q # <<>>
    BY <1>1 DEF Draw, Pending
  <2>3. UpdatesOf(Push(d, NewAction(d, kind, u))) \subseteq UpdatesOf(d) \cup {NewAction(d, kind, u).update}
    BY <2>1, PushUpdates
  <2> QED
    BY <2>1, <2>2, <2>3
<1>2. CASE ~ Pending(d)
  <2>1. Draw(d, kind, u).q = d.q
    BY <1>0, <1>2 DEF Draw
  <2> QED
    BY <2>1 DEF UpdatesOf
<1> QED
  BY <1>1, <1>2

\* and those that draw an image.
LEMMA ImageUpdates ==
    ASSUME NEW d, Ordered(d), NEW u \in Nat
    PROVE  UpdatesOf(ImageRect(d, u)) \subseteq UpdatesOf(d) \cup {u}
<1>1. /\ NewAction(d, "img", u) \in Actions /\ NewAction(d, "img", u).n = d.next
      /\ NewAction(d, "img", u).update = u
  BY OrderedParts DEF NewAction, Actions, Kinds
<1>2. UpdatesOf(Push(d, NewAction(d, "img", u))) \subseteq UpdatesOf(d) \cup {NewAction(d, "img", u).update}
  BY <1>1, PushUpdates
<1> QED
  BY <1>1, <1>2 DEF ImageRect

\* An image that has loaded adds nothing.
LEMMA LoadedUpdates ==
    ASSUME NEW d, Ordered(d), NEW i \in 1 .. Len(d.q)
    PROVE  /\ UpdatesOf(Loaded(d, i)) \subseteq UpdatesOf(d)
           /\ d.flushing => Loaded(d, i).flushing \/ Loaded(d, i).q = <<>>
           /\ Loaded(d, i).flushing => d.flushing
<1> DEFINE e == [d EXCEPT !.q[i].complete = TRUE]
           a == [d.q[i] EXCEPT !.complete = TRUE]
<1>1. d.q[i] \in Actions /\ a \in Actions /\ a.n = d.q[i].n /\ a.update = d.q[i].update
  <2>1. d.q[i] \in Actions
    BY OrderedParts
  <2> QED
    BY <2>1 DEF Actions
<1> HIDE DEF a
<1>2. e.q = [d.q EXCEPT ![i] = a] /\ e.next = d.next /\ e.drawn = d.drawn /\ e.flushing = d.flushing
  BY OrderedParts DEF a
<1>3. /\ e.q \in Seq(Actions) /\ Len(e.q) = Len(d.q)
      /\ \A j \in 1 .. Len(d.q) : e.q[j].n = d.q[j].n /\ e.q[j].update = d.q[j].update
  <2> DEFINE f == [d.q EXCEPT ![i] = a]
  <2>1. f \in Seq(Actions) /\ Len(f) = Len(d.q)
    BY <1>1, OrderedParts
  <2>2. ASSUME NEW j \in 1 .. Len(d.q) PROVE f[j].n = d.q[j].n /\ f[j].update = d.q[j].update
    <3>1. f[j] = IF j = i THEN a ELSE d.q[j]
      BY OrderedParts
    <3> QED
      BY <1>1, <3>1
  <2> QED
    BY <1>2, <2>1, <2>2
<1>4. e \in Displays
  <2>1. e = [d EXCEPT !.q = [d.q EXCEPT ![i] = a]]
    BY OrderedParts DEF a
  <2>2. [d.q EXCEPT ![i] = a] \in Seq(Actions)
    BY <1>2, <1>3
  <2> QED
    BY <2>1, <2>2, OrderedParts DEF Displays
<1>5. Loaded(d, i) = IF i = 1 THEN Scan(e) ELSE e
  BY DEF Loaded
<1> HIDE DEF e
<1>6. Ordered(e)
  BY <1>2, <1>3, <1>4 DEF Ordered
<1>7. UpdatesOf(e) = UpdatesOf(d)
  BY <1>3 DEF UpdatesOf
<1>8. /\ UpdatesOf(Scan(e)) \subseteq UpdatesOf(e)
      /\ Scan(e).flushing => e.flushing
      /\ e.flushing => Scan(e).flushing \/ Scan(e).q = <<>>
  BY <1>6, ScanUpdates
<1>9. CASE i = 1
  <2>1. Loaded(d, i) = Scan(e)
    BY <1>5, <1>9
  <2> QED
    BY <1>2, <1>7, <1>8, <2>1
<1>10. CASE i # 1
  <2>1. Loaded(d, i) = e
    BY <1>5, <1>10
  <2> QED
    BY <1>2, <1>7, <2>1
<1> QED
  BY <1>9, <1>10

-----------------------------------------------------------------------------
(* The messages of a connected desktop.                                    *)

\* What is drawn is still of one update.
OneUpdate(d, r) ==
    /\ ~ r.flushing => UpdatesOf(d) \subseteq {r.update}
    /\ \A a, b \in UpdatesOf(d) : a = b
    /\ r.flushing => d.flushing

\* Late, with the drawing in one predicate.
LEMMA LateIs ==
    Late <=> /\ rfb.init = "ServerInitialisation" /\ rfb.resumes = 0 /\ turn \notin {"once", "init"}
             /\ ~ ui.dialog /\ rfb.ard = "idle" /\ OneUpdate(disp, rfb)
BY DEF Late, OneUpdate, Drawing, UpdatesOf

\* Late after a step.
LEMMA LateNext ==
    ASSUME rfb'.init = "ServerInitialisation", rfb'.resumes = 0, turn' \notin {"once", "init"},
           ~ ui'.dialog, rfb'.ard = "idle", OneUpdate(disp', rfb')
    PROVE  Late'
BY DEF Late, OneUpdate, Drawing, UpdatesOf

\* A step in a session whose handshake is over keeps the invariant,
LEMMA LateStays ==
    ASSUME Hand, Late, rfb.conn # "connecting",
           \A p \in {"conn", "init", "resumes", "ard"} : rfb'[p] = rfb[p],
           ui'.rfb = ui.rfb, ui'.dialog => ui.dialog, ws' = ws, turn' \notin {"once", "init"},
           OneUpdate(disp', rfb')
    PROVE  Hand'
<1>1. rfb'.conn = rfb.conn /\ rfb'.init = rfb.init /\ rfb'.resumes = rfb.resumes /\ rfb'.ard = rfb.ard
  OBVIOUS
<1>2. Late'
  BY <1>1, LateIs, LateNext
<1>3. ws.ready # "connecting"
  BY DEF Hand, Linked, Late
<1>4. Live(rfb)' <=> Live(rfb)
  BY <1>1 DEF Live
<1>5. Linked'
  BY <1>1, <1>3, <1>4 DEF Hand, Linked
<1> QED
  BY <1>1, <1>2, <1>5 DEF Hand

\* What fails a connected session.
LEMMA LateFails ==
    ASSUME Base, Hand, Late, rfb.conn # "connecting", NEW k, disp' = disp, turn' \notin {"once", "init"},
           Becomes(Failed([ui |-> ui, rfb |-> At(k), ws |-> ws])) \/ Becomes(Failed(Conn))
    PROVE  Hand'
<1>1. Parts \subseteq DOMAIN rfb
  BY BaseIs
<1>2. ASSUME NEW r, Parts \subseteq DOMAIN r, \A p \in Parts \ {"synced"} : r[p] = rfb[p],
             Becomes(Failed([ui |-> ui, rfb |-> r, ws |-> ws]))
      PROVE  Hand'
  <2>0. r.conn = rfb.conn
    BY <1>2 DEF Parts
  <2>1. /\ rfb'.conn = "disconnected" /\ ~ Live(rfb)' /\ Linked' /\ (ui'.dialog => ui.dialog)
        /\ \A p \in Parts \ {"conn", "timer"} : rfb'[p] = r[p]
    BY <1>2, <2>0, FailsDown DEF Hand
  <2>2. /\ rfb'.init = rfb.init /\ rfb'.resumes = rfb.resumes /\ rfb'.ard = rfb.ard
        /\ rfb'.update = rfb.update /\ rfb'.flushing = rfb.flushing
    BY <1>2, <2>1 DEF Parts
  <2>3. OneUpdate(disp', rfb')
    BY <2>2, LateIs DEF OneUpdate
  <2>4. Late'
    BY <2>1, <2>2, <2>3, LateIs, LateNext
  <2> QED
    BY <2>1, <2>4 DEF Hand
<1>3. CASE Becomes(Failed([ui |-> ui, rfb |-> At(k), ws |-> ws]))
  BY <1>1, <1>2, <1>3, AtIs
<1>4. CASE Becomes(Failed(Conn))
  BY <1>1, <1>2, <1>4 DEF Conn
<1> QED
  BY <1>3, <1>4

\* Messages are read after the handshake.
LEMMA Reading ==
    ASSUME Hand, turn \in {"normal", "flushed"}
    PROVE  Late /\ rfb.conn # "connecting"
BY DEF Hand, Fresh, Live

\* A message that draws nothing.
LEMMA DrawsNothing ==
    ASSUME Hand, Late, rfb.conn # "connecting", disp' = disp, ui'.rfb = ui.rfb, ui'.dialog => ui.dialog, ws' = ws,
           turn' \notin {"once", "init"},
           \A p \in {"conn", "init", "resumes", "ard", "update", "flushing"} : rfb'[p] = rfb[p]
    PROVE  Hand'
<1>1. rfb'.update = rfb.update /\ rfb'.flushing = rfb.flushing
  OBVIOUS
<1>2. OneUpdate(disp', rfb')
  BY <1>1, LateIs DEF OneUpdate
<1> QED
  BY <1>2, LateStays

\* The header of an update: the drawing of the last one has ended.
LEMMA HeaderHand ==
    ASSUME Base, Hand, UpdateHeader
    PROVE  Hand'
<1>1. Late /\ rfb.conn # "connecting" /\ turn \in {"normal", "flushed"} /\ ~ rfb.flushing
      /\ Parts \subseteq DOMAIN rfb /\ rfb.update \in Nat /\ ui' = ui /\ ws' = ws
  BY Reading, BaseIs DEF UpdateHeader, NormalTurn
<1>2. turn' \notin {"once", "init"}
  BY <1>1 DEF UpdateHeader, Stops
<1> DEFINE n == Len(Peek(2).x)
           r == [At("update") EXCEPT !.rects = n, !.update = @ + 1]
<1>3. /\ Parts \subseteq DOMAIN r /\ r.update = rfb.update + 1 /\ r.flushing = rfb.flushing
      /\ \A p \in {"conn", "init", "resumes", "ard"} : r[p] = rfb[p]
  <2> HIDE DEF n
  <2> QED
    BY <1>1, AtIs DEF Parts
<1>4. CASE rfb' = rfb /\ disp' = disp
  BY <1>1, <1>2, <1>4, DrawsNothing
<1>5. CASE Pending(disp) /\ rfb' = [r EXCEPT !.flushing = TRUE] /\ disp' = Flush(disp)
  <2> HIDE DEF r
  <2>1. rfb'.flushing = TRUE /\ \A p \in {"conn", "init", "resumes", "ard"} : rfb'[p] = rfb[p]
    BY <1>3, <1>5 DEF Parts
  <2>2. disp'.q = disp.q /\ disp'.flushing = TRUE
    <3>1. disp \in Displays
      BY DEF Base, Ordered
    <3> QED
      BY <1>5, <3>1 DEF Flush, Displays, Pending
  <2>3. UpdatesOf(disp') = UpdatesOf(disp)
    BY <2>2 DEF UpdatesOf
  <2>4. OneUpdate(disp', rfb')
    BY <1>1, <2>1, <2>2, <2>3, LateIs DEF OneUpdate
  <2> QED
    BY <1>1, <1>2, <2>1, <2>4, LateStays
<1>6. CASE ~ Pending(disp) /\ rfb' = r /\ (disp' = disp \/ disp' = Draw(disp, "flip", r.update))
  <2> HIDE DEF r
  <2>1. disp.q = <<>>
    BY <1>6 DEF Pending
  <2>2. disp'.q = <<>>
    <3>1. r.update \in Nat /\ "flip" \in Kinds /\ Ordered(disp)
      BY <1>1, <1>3 DEF Kinds, Base
    <3> QED
      BY <1>6, <2>1, <3>1, DrawUpdates
  <2>3. UpdatesOf(disp') = {}
    BY <2>2 DEF UpdatesOf
  <2>4. OneUpdate(disp', rfb')
    BY <1>1, <1>3, <1>6, <2>3 DEF OneUpdate
  <2> QED
    BY <1>1, <1>2, <1>3, <1>6, <2>4, LateStays
<1> QED
  BY <1>4, <1>5, <1>6 DEF UpdateHeader

\* A rectangle of an update.
LEMMA RectHand ==
    ASSUME Base, Hand, UpdateRect
    PROVE  Hand'
<1>1. Late /\ rfb.conn # "connecting" /\ turn \in {"normal", "flushed"} /\ ~ rfb.flushing
      /\ Parts \subseteq DOMAIN rfb /\ rfb.update \in Nat /\ ui' = ui /\ ws' = ws /\ Ordered(disp)
  BY Reading, BaseIs DEF UpdateRect, NormalTurn, Base
<1>2. turn' \notin {"once", "init"}
  BY <1>1 DEF UpdateRect, Stops
<1> DEFINE head == IF rfb.encoding = "" THEN 1 ELSE 0
           enc == IF head = 1 THEN Peek(1).x[1] ELSE rfb.encoding
           s == IF head = 1 THEN At("rect") ELSE rfb
<1>3. (rfb' = [s EXCEPT !.encoding = enc] /\ disp' = disp) \/ RectDone(s, enc)
  BY DEF UpdateRect
<1>4. Parts \subseteq DOMAIN s /\ \A p \in Parts \ {"synced"} : s[p] = rfb[p]
  BY <1>1, AtIs
<1> HIDE DEF s, enc
<1>5. s.update = rfb.update /\ s.flushing = rfb.flushing
      /\ \A p \in {"conn", "init", "resumes", "ard"} : s[p] = rfb[p]
  BY <1>4 DEF Parts
<1>6. CASE rfb' = [s EXCEPT !.encoding = enc] /\ disp' = disp
  <2>1. \A p \in {"conn", "init", "resumes", "ard", "update", "flushing"} : rfb'[p] = rfb[p]
    BY <1>4, <1>5, <1>6 DEF Parts
  <2> QED
    BY <1>1, <1>2, <1>6, <2>1, DrawsNothing
<1>7. CASE RectDone(s, enc)
  <2> DEFINE left == IF enc = "last" THEN 0 ELSE s.rects - 1
  <2>1. \E b : rfb' = [s EXCEPT !.rects = left, !.encoding = "", !.resizable = b]
    BY <1>7 DEF RectDone
  <2>2. disp' = DrawRect(disp, enc) \/ disp' = Draw(DrawRect(disp, enc), "flip", s.update)
    BY <1>7 DEF RectDone
  <2> HIDE DEF left
  <2>3. /\ \A p \in {"conn", "init", "resumes", "ard"} : rfb'[p] = rfb[p]
        /\ rfb'.update = rfb.update /\ rfb'.flushing = rfb.flushing
    BY <1>4, <1>5, <2>1 DEF Parts
  <2>4. "flip" \in Kinds /\ "fill" \in Kinds
    BY DEF Kinds
  <2>5. /\ UpdatesOf(DrawRect(disp, enc)) \subseteq UpdatesOf(disp) \cup {rfb.update}
        /\ Ordered(DrawRect(disp, enc))
    <3>1. CASE enc = "jpeg"
      BY <1>1, <3>1, ImageUpdates, ImageRectOrdered DEF DrawRect
    <3>2. CASE enc = "fill"
      BY <1>1, <2>4, <3>2, DrawUpdates, DrawOrdered DEF DrawRect
    <3>3. CASE enc = "size"
      BY <1>1, <2>4, <3>3, DrawUpdates, DrawOrdered DEF DrawRect
    <3>4. CASE enc \notin {"jpeg", "fill", "size"}
      BY <1>1, <3>4 DEF DrawRect
    <3> QED
      BY <3>1, <3>2, <3>3, <3>4
  <2>6. UpdatesOf(disp') \subseteq UpdatesOf(disp) \cup {rfb.update}
    <3> DEFINE d == DrawRect(disp, enc)
    <3>1. UpdatesOf(d) \subseteq UpdatesOf(disp) \cup {rfb.update} /\ Ordered(d)
      BY <2>5
    <3>2. disp' = d \/ disp' = Draw(d, "flip", rfb.update)
      BY <1>5, <2>2
    <3> HIDE DEF d
    <3>3. UpdatesOf(Draw(d, "flip", rfb.update)) \subseteq UpdatesOf(d) \cup {rfb.update}
      BY <1>1, <2>4, <3>1, DrawUpdates
    <3> QED
      BY <3>1, <3>2, <3>3
  <2>7. UpdatesOf(disp') \subseteq {rfb.update}
    BY <1>1, <2>6, LateIs DEF OneUpdate
  <2>8. OneUpdate(disp', rfb')
    BY <1>1, <2>3, <2>7 DEF OneUpdate
  <2> QED
    BY <1>1, <1>2, <2>3, <2>8, LateStays
<1> QED
  BY <1>3, <1>6, <1>7

\* A message that is not an update.
LEMMA HandledHand ==
    ASSUME Hand, Late, rfb.conn # "connecting", turn \notin {"once", "init"}, NEW k, NEW n, NEW msgs, NEW r,
           Handled(k, n, r, msgs),
           \A p \in {"conn", "init", "resumes", "ard", "update", "flushing"} : r[p] = rfb[p]
    PROVE  Hand'
BY DrawsNothing DEF Handled

\* The handlers of the messages keep the invariant.
LEMMA NormalHand ==
    ASSUME Base, Hand, NormalMsg
    PROVE  Hand'
<1>1. /\ turn \in {"normal", "flushed"} /\ Late /\ rfb.conn # "connecting" /\ turn \notin {"once", "init"}
      /\ Parts \subseteq DOMAIN rfb
  <2>1. turn \in {"normal", "flushed"}
    BY DEF NormalMsg, NormalTurnEnds, UpdateHeader, UpdateRect, MessageIncomplete, Bell, Xvp, ServerFence,
       EndOfContinuousUpdates, ServerCutText, ExtendedClipboard, SetColourMap, UnexpectedMessage, Message, NormalTurn
  <2> QED
    BY <2>1, Reading, BaseIs
<1> DEFINE Core == {"conn", "init", "resumes", "ard", "update", "flushing"}
<1>2. CASE NormalTurnEnds \/ MessageIncomplete
  BY <1>1, <1>2, DrawsNothing DEF NormalTurnEnds, MessageIncomplete, Stops
<1>3. ASSUME NEW k, NEW n, NEW msgs, NEW r, Handled(k, n, r, msgs), \A p \in Core : r[p] = rfb[p]
      PROVE  Hand'
  BY <1>1, <1>3, HandledHand
<1>4. CASE Bell \/ Xvp \/ ServerFence
  BY <1>3, <1>4 DEF Bell, Xvp, ServerFence
<1>5. CASE EndOfContinuousUpdates
  <2> DEFINE r == [rfb EXCEPT !.continuous = IF rfb.continuous = "unknown" THEN "enabled" ELSE "disabled"]
  <2>1. \A p \in Core : r[p] = rfb[p]
    BY <1>1 DEF Parts
  <2>2. \E msgs : Handled("endcu", 1, r, msgs)
    BY <1>5 DEF EndOfContinuousUpdates
  <2> HIDE DEF r
  <2> QED
    BY <1>3, <2>1, <2>2
<1>6. CASE ServerCutText
  <2> DEFINE r == [rfb EXCEPT !.clipCaps = TRUE]
  <2>1. \A p \in Core : r[p] = rfb[p]
    BY <1>1 DEF Parts
  <2>2. Handled("cut", 3, rfb, <<>>) \/ Handled("caps", 4, r, <<"caps">>)
    BY <1>6 DEF ServerCutText
  <2> HIDE DEF r
  <2> QED
    BY <1>3, <2>1, <2>2
<1>7. CASE ExtendedClipboard
  <2> DEFINE r == [rfb EXCEPT !.clipText = FALSE]
  <2>1. \A p \in Core : r[p] = rfb[p]
    BY <1>1 DEF Parts
  <2>2. (\E k, n, msgs : Handled(k, n, rfb, msgs)) \/ Handled("provide", 4, r, <<>>)
    BY <1>7 DEF ExtendedClipboard
  <2> HIDE DEF r
  <2> QED
    BY <1>3, <2>1, <2>2
<1>8. CASE SetColourMap
  BY <1>1, <1>8, LateFails DEF SetColourMap, Stops
<1>9. CASE UnexpectedMessage
  <2>1. [Conn EXCEPT !.rfb = At("other")] = [ui |-> ui, rfb |-> At("other"), ws |-> ws]
    BY DEF Conn
  <2> QED
    BY <1>1, <1>9, <2>1, LateFails DEF UnexpectedMessage
<1> QED
  BY <1>2, <1>4, <1>5, <1>6, <1>7, <1>8, <1>9, HeaderHand, RectHand DEF NormalMsg

\* An image that loads keeps the invariant.
LEMMA ImageLoadsHand ==
    ASSUME Base, Hand, ImageLoads
    PROVE  Hand'
<1>1. PICK i \in 1 .. Len(disp.q) : disp' = Loaded(disp, i) /\ AfterFlush(Loaded(disp, i), rfb)
  BY DEF ImageLoads
<1>2. disp.q # <<>> /\ turn = "idle" /\ ui' = ui /\ ws' = ws /\ Ordered(disp) /\ Parts \subseteq DOMAIN rfb
      /\ disp.flushing \in BOOLEAN
  <2>1. Ordered(disp)
    BY DEF Base
  <2> QED
    BY <1>1, <2>1, OrderedParts, BaseIs DEF ImageLoads
<1>3. Late /\ rfb.conn # "connecting"
  BY <1>2 DEF Hand, Fresh, Live
<1>4. /\ UpdatesOf(disp') \subseteq UpdatesOf(disp)
      /\ disp.flushing => disp'.flushing \/ disp'.q = <<>>
  BY <1>1, <1>2, LoadedUpdates
<1>5. turn' \notin {"once", "init"}
  BY <1>1, <1>2 DEF AfterFlush
<1>6. CASE disp.flushing /\ ~ disp'.flushing
  <2>1. rfb' = [rfb EXCEPT !.flushing = FALSE]
    BY <1>1, <1>6 DEF AfterFlush
  <2>2. rfb'.flushing = FALSE /\ \A p \in {"conn", "init", "resumes", "ard"} : rfb'[p] = rfb[p]
    BY <1>2, <2>1 DEF Parts
  <2>3. UpdatesOf(disp') = {}
    <3>1. disp'.q = <<>>
      BY <1>4, <1>6
    <3> QED
      BY <3>1 DEF UpdatesOf
  <2>4. OneUpdate(disp', rfb')
    BY <2>2, <2>3 DEF OneUpdate
  <2> QED
    BY <1>2, <1>3, <1>5, <2>2, <2>4, LateStays
<1>7. CASE ~ (disp.flushing /\ ~ disp'.flushing)
  <2>1. rfb' = rfb
    BY <1>1, <1>7 DEF AfterFlush
  <2>2. OneUpdate(disp', rfb')
    BY <1>3, <1>4, <1>7, <2>1, LateIs DEF OneUpdate
  <2> QED
    BY <1>2, <1>3, <1>5, <2>1, <2>2, LateStays
<1> QED
  BY <1>6, <1>7

-----------------------------------------------------------------------------
(* Steps outside the handlers.                                             *)

\* Where a session is in its handshake.
Course == {"init", "scheme", "vencrypt", "tight"}

\* What is said depends on where the session is,
LEMMA SaysSame ==
    ASSUME NEW r, NEW s, NEW T, Says(r, T), s.init = r.init, s.scheme = r.scheme, s.vencrypt = r.vencrypt,
           s.tight = r.tight, (s.ard = "idle") <=> (r.ard = "idle")
    PROVE  Says(s, T)
<1>1. \A q : Auth(s, q) <=> Auth(r, q)
  BY DEF Auth
<1>2. (Auth(s, "tight") => Auth(r, "tight")) /\ (Auth(s, "ard") => Auth(r, "ard"))
      /\ (Auth(s, "vnc") => Auth(r, "vnc")) /\ (Auth(s, "none") => Auth(r, "none"))
      /\ (Auth(s, "plain") => Auth(r, "plain")) /\ (Auth(s, "xvp") => Auth(r, "xvp"))
      /\ (Auth(s, "vencrypt") => Auth(r, "vencrypt"))
  BY <1>1
<1>3. /\ s.init \in {"", "ClientInitialisation"} => T = <<>>
      /\ s.init = "ProtocolVersion" => T = <<U("version", 1, <<>>)>>
      /\ s.init = "Security" => \E list \in Seq(Schemes \cup {"other"}) : T = Offer(list)
      /\ s.init = "SecurityReason" => T = Reasons
  BY DEF Says
<1>4. /\ Auth(s, "none") \/ s.init = "SecurityResult" => T = <<U("result", 1, <<"ok">>)>> \/ T = Refusal
      /\ Auth(s, "vnc") => T = <<U("challenge", 1, <<>>)>>
      /\ Auth(s, "plain") \/ Auth(s, "xvp") => T = <<>>
  BY <1>2 DEF Says
<1>5. Auth(s, "vencrypt") =>
          \/ s.vencrypt = 0 /\ T = <<U("vencrypt", 1, <<>>)>>
          \/ s.vencrypt = 1 /\ T = <<U("ack", 1, <<>>), U("count", 1, <<>>), U("subtypes", 1, <<>>)>>
          \/ s.vencrypt = 2 /\ T = <<U("count", 1, <<>>), U("subtypes", 1, <<>>)>>
          \/ s.vencrypt = 3 /\ T = <<U("subtypes", 1, <<>>)>>
  BY <1>2 DEF Says
<1>6. /\ Auth(s, "tight") /\ ~ s.tight => T = <<U("tunnels", 1, <<>>), U("tunnels", 2, <<>>)>>
      /\ Auth(s, "tight") /\ s.tight => T = <<U("subauths", 1, <<>>), U("subauths", 2, <<>>)>>
  BY <1>2 DEF Says
<1>7. /\ Auth(s, "ard") /\ s.ard = "idle" => T = <<U("dh", 1, <<>>), U("dh", 2, <<>>)>>
      /\ Auth(s, "ard") /\ s.ard # "idle" => T = <<>>
  BY <1>2 DEF Says
<1> QED
  BY <1>3, <1>4, <1>5, <1>6, <1>7 DEF Says

\* and so do how the sides stand to each other
LEMMA TalkSame ==
    ASSUME Talk, \A p \in Course : rfb'[p] = rfb[p], (rfb'.ard = "idle") <=> (rfb.ard = "idle"),
           Ahead' = Ahead, up' = up, srv' = srv
    PROVE  Talk'
<1>1. /\ rfb'.init = rfb.init /\ rfb'.scheme = rfb.scheme /\ rfb'.vencrypt = rfb.vencrypt
      /\ rfb'.tight = rfb.tight
  BY DEF Course
<1>2. \A s : Auth(rfb', s) <=> Auth(rfb, s)
  BY <1>1 DEF Auth
<1>3. Says(rfb, Ahead) => Says(rfb', Ahead')
  BY <1>1, SaysSame
<1>4. \A m, stage : Asks(rfb, m, stage) <=> Asks(rfb', m, stage)
  BY <1>1, <1>2 DEF Asks
<1>5. Quiet => Quiet'
  BY <1>1, <1>2, <1>3 DEF Quiet
<1>6. Waiting => Waiting'
  BY <1>4 DEF Waiting
<1> QED
  BY <1>5, <1>6 DEF Talk

\* and what is left to read.
LEMMA BegunSame ==
    ASSUME NEW r, NEW s, NEW T, Begun(r, T), \A p \in Course : s[p] = r[p], (s.ard = "idle") <=> (r.ard = "idle")
    PROVE  Begun(s, T)
BY DEF Begun, Auth, Course

\* What has been said is the beginning of what will have been said.
LEMMA TalkBegins ==
    ASSUME Base, Talk
    PROVE  Begun(rfb, Unread(buf))
<1>1. /\ Ahead \in Seq(Units0) /\ Unread(buf) \in Seq(Units0) /\ Len(Unread(buf)) \in Nat
      /\ Beginning(Unread(buf), Ahead)
  <2>1. Sound(buf) /\ wire \in Seq(Units0)
    BY BaseIs
  <2> QED
    BY <2>1, AheadIs, UnreadIs
<1> DEFINE A == Ahead
           S == Unread(buf)
<1>2. A \in Seq(Units0) /\ S \in Seq(Units0) /\ Beginning(S, A)
  BY <1>1
<1>3. Quiet => Says(rfb, A)
  BY DEF Quiet
<1>4. Waiting => A = <<>>
  BY DEF Waiting
<1> HIDE DEF A, S
<1>5. A = <<>> => S = <<>>
  <2>1. A = <<>> => Len(S) = 0
    BY <1>2 DEF Beginning
  <2> QED
    BY <1>2, <2>1, EmptySeq
<1>6. \A T : S = <<>> => Beginning(S, T) \/ Len(T) \notin Nat
  BY DEF Beginning
<1>7. CASE A = <<>>
  <2>1. /\ Beginning(S, <<U("challenge", 1, <<>>)>>)
        /\ Beginning(S, <<U("dh", 1, <<>>), U("dh", 2, <<>>)>>)
    BY <1>5, <1>7 DEF Beginning
  <2> QED
    BY <1>5, <1>7, <2>1 DEF Begun, S
<1>8. CASE Says(rfb, A)
  <2>1. Auth(rfb, "vnc") => Beginning(S, <<U("challenge", 1, <<>>)>>)
    BY <1>2, <1>8 DEF Says
  <2>2. Auth(rfb, "plain") \/ Auth(rfb, "xvp") => S = <<>>
    BY <1>5, <1>8 DEF Says
  <2>3. Auth(rfb, "ard") /\ rfb.ard = "idle" => Beginning(S, <<U("dh", 1, <<>>), U("dh", 2, <<>>)>>)
    BY <1>2, <1>8 DEF Says
  <2>4. Auth(rfb, "ard") /\ rfb.ard # "idle" => S = <<>>
    BY <1>5, <1>8 DEF Says
  <2> QED
    BY <2>1, <2>2, <2>3, <2>4 DEF Begun, S
<1> QED
  BY <1>3, <1>4, <1>7, <1>8 DEF Talk

\* No update is begun,
LEMMA FreshSame ==
    ASSUME Fresh, \A p \in {"rects", "encoding", "update", "flushing", "synced"} : rfb'[p] = rfb[p],
           disp' = disp, turn' \notin {"normal", "flushed"}
    PROVE  Fresh'
<1>1. /\ rfb'.rects = rfb.rects /\ rfb'.encoding = rfb.encoding /\ rfb'.update = rfb.update
      /\ rfb'.flushing = rfb.flushing /\ rfb'.synced = rfb.synced
  OBVIOUS
<1> QED
  BY <1>1 DEF Fresh

\* and none is mixed with another, by a step that leaves them alone.
LEMMA LateSame ==
    ASSUME Late, \A p \in {"init", "update", "flushing", "ard"} : rfb'[p] = rfb[p], rfb'.resumes = 0,
           disp' = disp, turn' \notin {"once", "init"}, ~ ui'.dialog
    PROVE  Late'
<1>1. rfb'.init = rfb.init /\ rfb'.update = rfb.update /\ rfb'.flushing = rfb.flushing /\ rfb'.ard = rfb.ard
  OBVIOUS
<1>2. OneUpdate(disp', rfb')
  BY <1>1, LateIs DEF OneUpdate
<1> QED
  BY <1>1, <1>2, LateIs, LateNext

\* A step that leaves the connection and what is ahead as they are.
Still == Course \cup {"conn", "rects", "encoding", "update", "flushing", "synced"}

\* Such a step keeps the invariant if it does not disturb the dialogs and timers.
LEMMA HandKept ==
    ASSUME Base, Hand, ui'.rfb = ui.rfb, ws' = ws, disp' = disp, up' = up, srv' = srv, Ahead' = Ahead,
           \A p \in Still : rfb'[p] = rfb[p],
           Fresh /\ Resuming /\ rfb.conn # "connected" =>
               Resuming' /\ turn' \notin {"normal", "flushed"} /\ ((rfb'.ard = "idle") <=> (rfb.ard = "idle")),
           Late /\ rfb.conn # "connecting" =>
               turn' \notin {"once", "init"} /\ ~ ui'.dialog /\ rfb'.resumes = 0 /\ rfb'.ard = rfb.ard,
           ws.ready = "connecting" => turn' = "idle"
    PROVE  Hand'
<1>1. /\ rfb'.conn = rfb.conn /\ rfb'.init = rfb.init /\ rfb'.update = rfb.update /\ rfb'.flushing = rfb.flushing
      /\ \A p \in Course : rfb'[p] = rfb[p]
      /\ \A p \in {"rects", "encoding", "update", "flushing", "synced"} : rfb'[p] = rfb[p]
  BY DEF Still, Course
<1>2. Live(rfb') <=> Live(rfb)
  BY <1>1 DEF Live
<1>3. Linked'
  BY <1>1, <1>2 DEF Hand, Linked
<1>4. ASSUME Fresh, Resuming, rfb.conn # "connected" PROVE Fresh' /\ Resuming'
  BY <1>1, <1>4, FreshSame
<1>5. ASSUME Late, rfb.conn # "connecting" PROVE Late'
  BY <1>1, <1>5, LateSame
<1>6. CASE rfb.conn = "connecting"
  <2>1. Fresh /\ Resuming /\ Talk /\ rfb.conn # "connected"
    BY <1>6 DEF Hand
  <2>2. Talk'
    BY <1>1, <2>1, TalkSame
  <2>3. rfb'.conn = "connecting" /\ Live(rfb)'
    BY <1>1, <1>6 DEF Live
  <2> QED
    BY <1>3, <1>4, <2>1, <2>2, <2>3 DEF Hand
<1>7. CASE rfb.conn = "connected"
  <2>1. Late /\ rfb.conn # "connecting"
    BY <1>7 DEF Hand
  <2>2. rfb'.conn = "connected" /\ Live(rfb)'
    BY <1>1, <1>7 DEF Live
  <2> QED
    BY <1>3, <1>5, <2>1, <2>2 DEF Hand
<1>8. CASE ~ Live(rfb)
  <2>1. rfb.conn # "connecting" /\ rfb.conn # "connected" /\ rfb'.conn # "connecting" /\ rfb'.conn # "connected"
    BY <1>1, <1>8 DEF Live
  <2>2. CASE Fresh /\ Resuming /\ Begun(rfb, Ahead)
    <3>1. Begun(rfb, Ahead)'
      BY <1>1, <2>1, <2>2, BegunSame
    <3> QED
      BY <1>3, <1>4, <2>1, <2>2, <3>1 DEF Hand
  <2>3. CASE Late
    BY <1>3, <1>5, <2>1, <2>3 DEF Hand
  <2> QED
    BY <1>8, <2>2, <2>3 DEF Hand
<1> QED
  BY <1>6, <1>7, <1>8 DEF Live

\* A session that ends between two turns.
LEMMA GoesDown ==
    ASSUME Base, Hand, turn = "idle", turn' = turn, buf' = buf, disp' = disp, Linked', ~ Live(rfb'),
           \A p \in Parts \ {"conn", "timer"} : rfb'[p] = rfb[p], ui'.dialog => ui.dialog
    PROVE  Hand'
<1>1. /\ rfb'.init = rfb.init /\ rfb'.ard = rfb.ard /\ rfb'.resumes = rfb.resumes
      /\ rfb'.vencrypt = rfb.vencrypt /\ rfb'.tight = rfb.tight /\ rfb'.scheme = rfb.scheme /\ rfb'.creds = rfb.creds
      /\ \A p \in Course : rfb'[p] = rfb[p]
      /\ \A p \in {"rects", "encoding", "update", "flushing", "synced"} : rfb'[p] = rfb[p]
      /\ \A p \in {"init", "update", "flushing", "ard"} : rfb'[p] = rfb[p]
  BY DEF Parts, Course
<1>2. Sound(buf) /\ wire \in Seq(Units0)
  BY BaseIs
<1>3. Ahead' = Unread(buf) /\ Unread(buf) \in Seq(Units0)
  <2>1. Unread(buf) \in Seq(Units0)
    BY <1>2, UnreadIs
  <2>2. Ahead' = Unread(buf) \o <<>>
    BY DEF Ahead
  <2> QED
    BY <2>1, <2>2, ConcatEmptySeq
<1>4. Ahead = <<>> => Ahead' = <<>>
  <2>1. Beginning(Unread(buf), Ahead)
    BY <1>2, AheadIs
  <2>2. Ahead = <<>> => Len(Unread(buf)) = 0
    BY <1>3, <2>1 DEF Beginning
  <2> QED
    BY <1>3, <2>2, EmptySeq
<1>5. ASSUME Late PROVE Hand'
  <2>1. rfb.resumes = 0 /\ ~ ui'.dialog
    BY <1>5 DEF Late
  <2>2. Late'
    BY <1>1, <1>5, <2>1, LateSame
  <2> QED
    BY <2>2 DEF Hand, Live
<1>6. ASSUME Fresh, Resuming, Begun(rfb, Unread(buf)) PROVE Hand'
  <2>1. Fresh'
    BY <1>1, <1>6, FreshSame
  <2>2. Asking(rfb') <=> Asking(rfb)
    BY <1>1 DEF Asking
  <2>3. Auth(rfb', "ard") <=> Auth(rfb, "ard")
    BY <1>1 DEF Auth
  <2>4. Resuming'
    BY <1>1, <1>4, <1>6, <2>2, <2>3 DEF Resuming
  <2>5. Begun(rfb, Ahead)'
    BY <1>1, <1>3, <1>6, BegunSame
  <2> QED
    BY <2>1, <2>4, <2>5 DEF Hand, Live
<1>7. CASE rfb.conn = "connecting"
  BY <1>6, <1>7, TalkBegins DEF Hand
<1>8. CASE rfb.conn = "connected"
  BY <1>5, <1>8 DEF Hand
<1>9. CASE ~ Live(rfb)
  <2>1. Ahead = Unread(buf)
    BY <1>2, <1>9, AheadIs
  <2> QED
    BY <1>5, <1>6, <1>9, <2>1 DEF Hand
<1> QED
  BY <1>7, <1>8, <1>9 DEF Live

-----------------------------------------------------------------------------
(* The page.                                                               *)

\* What Base says of the next state.
LEMMA BaseNext ==
    ASSUME Base'
    PROVE  wire' \in Seq(Units0) /\ Sound(buf') /\ Parts \subseteq DOMAIN rfb' /\ rfb'.conn \in States
BY DEF Base, Streams, Typed, Session

\* A new session starts afresh.
LEMMA OpenHand ==
    ASSUME Base', NEW u \in Pages, NEW c, Open(u, c), turn = "idle", ~ u.dialog
    PROVE  Hand'
<1>1. /\ ui' = [u EXCEPT !.rfb = TRUE, !.sessions = @ + 1] /\ rfb' = NewRfb(c, rfb.viewOnly)
      /\ ws' = [ready |-> "connecting", close |-> TRUE, message |-> TRUE]
      /\ buf' = Empty /\ disp' = Blank /\ wire' = <<>> /\ up' = <<>> /\ srv' = NewServer /\ turn' = "idle"
  BY DEF Open
<1>2. /\ rfb'.conn = "connecting" /\ rfb'.init = "" /\ rfb'.vencrypt = 0 /\ ~ rfb'.tight /\ rfb'.ard = "idle"
      /\ rfb'.resumes = 0 /\ rfb'.rects = 0 /\ rfb'.encoding = "" /\ rfb'.update = 0 /\ ~ rfb'.flushing /\ rfb'.synced
  BY <1>1 DEF NewRfb
<1>3. Ahead' = <<>>
  <2>1. Unread(Empty) \in Seq(Units0) /\ Len(Unread(Empty)) = 0
    <3>1. RQlen(Empty) = 0
      BY DEF RQlen, Empty
    <3> QED
      BY <3>1, EmptySound, UnreadIs
  <2>2. Unread(Empty) = <<>>
    BY <2>1, EmptySeq
  <2>3. Ahead' = Unread(Empty) \o <<>>
    BY <1>1 DEF Ahead
  <2> QED
    BY <2>1, <2>2, <2>3, ConcatEmptySeq
<1>4. ui'.rfb = TRUE /\ ~ ui'.dialog
  BY <1>1 DEF Pages
<1>5. Live(rfb)'
  BY <1>2 DEF Live
<1>6. Linked'
  BY <1>1, <1>2, <1>3, <1>4, <1>5 DEF Linked
<1>7. Fresh'
  <2>1. disp'.q = <<>>
    BY <1>1 DEF Blank
  <2> QED
    BY <1>1, <1>2, <2>1 DEF Fresh
<1>8. Resuming'
  <2>1. ~ (rfb'.resumes > 0)
    BY <1>2, NoneMore, Zenon
  <2> QED
    BY <1>1, <1>2, <1>4, <2>1 DEF Resuming
<1>9. Talk'
  <2>1. srv'.wants = {} /\ srv'.stage = "greeting"
    BY <1>1 DEF NewServer
  <2>2. Says(rfb', Ahead')
    BY <1>2, <1>3 DEF Says, Auth
  <2>3. up' \in Seq(Silent)
    BY <1>1, EmptySeq
  <2>4. Quiet'
    BY <1>2, <2>1, <2>2, <2>3 DEF Quiet, Auth
  <2> QED
    BY <2>1, <2>4 DEF Talk
<1> QED
  BY <1>2, <1>5, <1>6, <1>7, <1>8, <1>9 DEF Hand

\* The user leaves.
LEMMA LeaveIs ==
    ASSUME Base, UIDisconnect
    PROVE  /\ rfb'.conn = "disconnecting" /\ \A p \in Parts \ {"conn", "timer"} : rfb'[p] = rfb[p]
           /\ ui'.rfb = ui.rfb /\ ui'.dialog = FALSE /\ ws' = CloseSocket(ws)
<1>0. ui \in Pages /\ Parts \subseteq DOMAIN rfb
  BY BaseIs
<1> DEFINE r2 == [[rfb EXCEPT !.conn = "disconnecting"] EXCEPT !.timer = TRUE]
           w2 == CloseSocket(ws)
<1>1. ToDisconnecting(Conn) = [ui |-> ui, rfb |-> r2, ws |-> w2]
  BY DEF ToDisconnecting, Conn, UIDisconnect
<1>2. rfb'= r2 /\ ws' = w2
      /\ ui' = [ui EXCEPT !.connected = FALSE, !.inhibit = TRUE, !.dialog = FALSE, !.ops = @ + 1, !.left = TRUE]
  <2> HIDE DEF r2, w2
  <2> QED
    BY <1>1 DEF UIDisconnect, Becomes
<1>3. ui'.rfb = ui.rfb /\ ui'.dialog = FALSE
  BY <1>0, <1>2 DEF Pages
<1> QED
  BY <1>0, <1>2, <1>3 DEF Parts

\* The page's operations keep the invariant.
LEMMA PageHand ==
    ASSUME Base, Base', Hand, Page
    PROVE  Hand'
<1>0. /\ ui \in Pages /\ ws \in Channels /\ Parts \subseteq DOMAIN rfb /\ rfb.resumes \in Nat /\ Shown(ui)
      /\ RQlen(buf) \in Nat
  BY BaseIs DEF Base
<1>1. turn = "idle"
  BY DEF Page, UIConnect, UIReconnect, UICancelReconnect, UIDisconnect, UISetCredentials, ClipboardPasteFrom,
     UpdateViewOnly, UserOp
<1>2. CASE UIConnect
  <2> DEFINE u == [ui EXCEPT !.left = FALSE, !.password = FALSE]
  <2>1. u \in Pages /\ ~ u.dialog /\ Open(u, FALSE)
    BY <1>0, <1>2 DEF UIConnect, Pages, Shown
  <2> HIDE DEF u
  <2> QED
    BY <1>1, <2>1, OpenHand
<1>3. CASE UIReconnect
  <2> DEFINE u == [ui EXCEPT !.reconnect = FALSE]
  <2>1. u \in Pages /\ ~ u.dialog /\ Open(u, ui.password)
    BY <1>0, <1>3 DEF UIReconnect, Pages, Shown
  <2> HIDE DEF u
  <2> QED
    BY <1>1, <2>1, OpenHand
<1>4. CASE UICancelReconnect
  <2>1. /\ ui'.rfb = ui.rfb /\ ui'.dialog = ui.dialog /\ rfb' = rfb /\ ws' = ws /\ buf' = buf /\ disp' = disp
        /\ turn' = turn /\ wire' = wire /\ up' = up /\ srv' = srv
    BY <1>0, <1>4 DEF UICancelReconnect, Pages
  <2>2. Ahead' = Ahead /\ RQlen(buf)' = RQlen(buf)
    BY <2>1 DEF Ahead, RQlen
  <2>3. Resuming => Resuming'
    BY <2>1, <2>2 DEF Resuming
  <2> QED
    BY <1>1, <2>1, <2>2, <2>3, HandKept DEF Late
<1>5. CASE UIDisconnect
  <2>1. /\ rfb'.conn = "disconnecting" /\ \A p \in Parts \ {"conn", "timer"} : rfb'[p] = rfb[p]
        /\ ui'.rfb = ui.rfb /\ ui'.dialog = FALSE /\ ws' = CloseSocket(ws)
    BY <1>5, LeaveIs
  <2>2. rfb.conn \in {"connecting", "connected"} /\ ui.rfb /\ turn' = turn /\ buf' = buf /\ disp' = disp
    BY <1>5 DEF UIDisconnect
  <2>3. /\ ws'.message = FALSE /\ ws'.close = ws.close
        /\ ws'.ready = IF ws.ready \in {"connecting", "open"} THEN "closing" ELSE ws.ready
    BY <1>0, <2>1 DEF CloseSocket, Channels
  <2>4. ~ Live(rfb') /\ Live(rfb)
    BY <2>1, <2>2 DEF Live
  <2>5. Linked'
    <3>1. ws.ready \in {"connecting", "open"} /\ ws.close
      BY <2>2, <2>4 DEF Hand, Linked
    <3> QED
      BY <2>1, <2>2, <2>3, <2>4, <3>1 DEF Linked
  <2> QED
    BY <1>1, <2>1, <2>2, <2>4, <2>5, GoesDown
<1>6. CASE UISetCredentials
  <2>1. /\ ui'.rfb = ui.rfb /\ ~ ui'.dialog /\ ui.dialog /\ ws' = ws /\ buf' = buf /\ disp' = disp
        /\ turn' = turn /\ wire' = wire /\ up' = up /\ srv' = srv
    BY <1>0, <1>6 DEF UISetCredentials, Pages
  <2>2. /\ rfb'.conn = rfb.conn /\ rfb'.init = rfb.init /\ rfb'.ard = rfb.ard
        /\ rfb'.vencrypt = rfb.vencrypt /\ rfb'.tight = rfb.tight /\ rfb'.scheme = rfb.scheme
        /\ \A p \in Still : rfb'[p] = rfb[p]
    BY <1>0, <1>6 DEF UISetCredentials, Parts, Still, Course
  <2>3. Ahead' = Ahead /\ RQlen(buf)' = RQlen(buf)
    BY <2>1, <2>2 DEF Ahead, RQlen, Live
  <2>4. Resuming => Resuming'
    <3>1. Resuming => Asking(rfb)
      BY <2>1 DEF Resuming
    <3>2. (Asking(rfb') <=> Asking(rfb)) /\ (Auth(rfb', "ard") <=> Auth(rfb, "ard"))
      BY <2>2 DEF Asking, Auth
    <3> QED
      BY <2>1, <2>2, <2>3, <3>1, <3>2 DEF Resuming
  <2>5. ~ Late
    BY <2>1 DEF Late
  <2> QED
    BY <1>1, <2>1, <2>2, <2>3, <2>4, <2>5, HandKept
<1>7. CASE ClipboardPasteFrom
  <2>1. ui'.rfb = ui.rfb /\ ui'.dialog = ui.dialog /\ ws' = ws /\ disp' = disp /\ turn' = turn /\ rfb.conn = "connected"
    BY <1>0, <1>7 DEF ClipboardPasteFrom, UserOp, Pages
  <2>2. \A p \in {"conn", "init", "resumes", "ard", "update", "flushing"} : rfb'[p] = rfb[p]
    BY <1>0, <1>7 DEF ClipboardPasteFrom, Parts
  <2>3. Late /\ rfb.conn # "connecting"
    BY <2>1 DEF Hand
  <2> QED
    BY <1>1, <2>1, <2>2, <2>3, DrawsNothing
<1>8. CASE UpdateViewOnly
  <2>1. /\ ui'.rfb = ui.rfb /\ ui'.dialog = ui.dialog /\ ws' = ws /\ buf' = buf /\ disp' = disp
        /\ turn' = turn /\ wire' = wire /\ up' = up /\ srv' = srv
    BY <1>0, <1>8 DEF UpdateViewOnly, Pages
  <2>2. /\ rfb'.conn = rfb.conn /\ rfb'.init = rfb.init /\ rfb'.ard = rfb.ard /\ rfb'.resumes = rfb.resumes
        /\ rfb'.vencrypt = rfb.vencrypt /\ rfb'.tight = rfb.tight /\ rfb'.scheme = rfb.scheme
        /\ rfb'.creds = rfb.creds
        /\ \A p \in Still : rfb'[p] = rfb[p]
    BY <1>0, <1>8 DEF UpdateViewOnly, Parts, Still, Course
  <2>3. Ahead' = Ahead /\ RQlen(buf)' = RQlen(buf)
    BY <2>1, <2>2 DEF Ahead, RQlen, Live
  <2>4. Resuming => Resuming'
    <3>1. (Asking(rfb') <=> Asking(rfb)) /\ (Auth(rfb', "ard") <=> Auth(rfb, "ard"))
      BY <2>2 DEF Asking, Auth
    <3> QED
      BY <2>1, <2>2, <2>3, <3>1 DEF Resuming
  <2> QED
    BY <1>1, <2>1, <2>2, <2>3, <2>4, HandKept DEF Late
<1> QED
  BY <1>2, <1>3, <1>4, <1>5, <1>6, <1>7, <1>8 DEF Page

-----------------------------------------------------------------------------
(* The socket and the timers.                                              *)

\* A channel that opens: the server says its version.
LEMMA OpensHand ==
    ASSUME Base, Base', Hand, SocketOpens
    PROVE  Hand'
<1>0. /\ ui \in Pages /\ ws \in Channels /\ Parts \subseteq DOMAIN rfb /\ rfb.conn \in States
      /\ Sound(buf) /\ wire \in Seq(Units0) /\ RQlen(buf) \in Nat
  BY BaseIs
<1>1. /\ turn = "idle" /\ turn' = turn /\ ws.ready = "connecting" /\ ws' = [ws EXCEPT !.ready = "open"]
      /\ rfb' = [rfb EXCEPT !.init = "ProtocolVersion"] /\ wire' = <<U("version", 1, <<>>)>>
      /\ ui' = ui /\ buf' = buf /\ disp' = disp /\ up' = up /\ srv' = srv
  BY DEF SocketOpens
<1>2. rfb.init = "" /\ up = <<>> /\ Ahead = <<>> /\ Live(rfb)
  BY <1>1 DEF Hand, Linked
<1>3. rfb.conn = "connecting" /\ Fresh /\ Resuming /\ Talk
  BY <1>2 DEF Hand, Late, Live
<1>4. /\ rfb'.conn = rfb.conn /\ rfb'.init = "ProtocolVersion" /\ rfb'.ard = rfb.ard /\ rfb'.resumes = rfb.resumes
      /\ rfb'.vencrypt = rfb.vencrypt /\ rfb'.tight = rfb.tight
      /\ \A p \in {"rects", "encoding", "update", "flushing", "synced"} : rfb'[p] = rfb[p]
  BY <1>0, <1>1 DEF Parts
<1>5. Live(rfb)' /\ rfb'.conn = "connecting"
  BY <1>3, <1>4 DEF Live
<1>6. ws'.ready = "open" /\ ws'.message = ws.message /\ ws'.close = ws.close
  BY <1>0, <1>1 DEF Channels
<1>7. Linked'
  BY <1>1, <1>2, <1>3, <1>4, <1>5, <1>6 DEF Hand, Linked
<1>8. Fresh'
  BY <1>1, <1>3, <1>4, FreshSame
<1>9. ~ Asking(rfb) /\ ~ Auth(rfb, "ard") /\ ~ Auth(rfb', "ard") /\ ~ Auth(rfb, "vencrypt") /\ ~ Auth(rfb', "vencrypt")
  BY <1>2, <1>4 DEF Asking, Auth
<1>10. ~ ui.dialog /\ rfb.ard = "idle" /\ ~ (rfb.resumes > 0) /\ rfb.vencrypt = 0 /\ ~ rfb.tight
  BY <1>2, <1>3, <1>9 DEF Resuming
<1>11. Resuming'
  BY <1>1, <1>4, <1>10 DEF Resuming
<1>12. Ahead' = <<U("version", 1, <<>>)>>
  <2> DEFINE W == <<U("version", 1, <<>>)>>
  <2>1. Unread(buf) = <<>>
    <3>1. Beginning(Unread(buf), Ahead) /\ Unread(buf) \in Seq(Units0)
      BY <1>0, AheadIs, UnreadIs
    <3>2. Len(Unread(buf)) = 0
      <4>1. Len(Unread(buf)) <= Len(Ahead)
        BY <3>1 DEF Beginning
      <4>2. Len(Unread(buf)) \in Nat
        BY <3>1
      <4>3. Len(Ahead) = 0
        BY <1>2
      <4> QED
        BY <4>1, <4>2, <4>3
    <3> QED
      BY <3>1, <3>2, EmptySeq
  <2>2. W \in Seq(Units0)
    <3>1. W = wire'
      BY <1>1
    <3> QED
      BY <3>1, BaseNext
  <2>3. Ahead' = <<>> \o W
    BY <1>1, <1>5, <2>1 DEF Ahead
  <2> HIDE DEF W
  <2>4. <<>> \o W = W
    BY <2>2, ConcatEmptySeq
  <2> QED
    BY <2>3, <2>4 DEF W
<1>13. Talk'
  <2>1. ~ Waiting
    BY <1>2 DEF Waiting, Asks, Auth
  <2>2. srv.wants = {} /\ up \in Seq(Silent) /\ srv.stage \notin {"shown", "normal", "vencrypt"}
    BY <1>2, <1>3, <2>1 DEF Talk, Quiet
  <2>3. Says(rfb', Ahead')
    BY <1>4, <1>12 DEF Says, Auth
  <2> QED
    BY <1>1, <1>4, <1>9, <2>2, <2>3 DEF Talk, Quiet
<1> QED
  BY <1>5, <1>7, <1>8, <1>11, <1>13 DEF Hand

\* The parts of a session r that is over.
Over(d, r) ==
    /\ d.rfb.conn = "disconnected" /\ \A p \in Parts \ {"conn", "timer"} : d.rfb[p] = r[p]
    /\ d.ui.rfb = FALSE /\ d.ui.dialog = FALSE /\ DOMAIN d = {"ui", "rfb", "ws"}

\* The end of a session,
LEMMA DisconnectedIs ==
    ASSUME NEW u \in Pages, NEW r, Parts \subseteq DOMAIN r, r.conn = "disconnecting", NEW w \in Channels
    PROVE  /\ Over(ToDisconnected([ui |-> u, rfb |-> r, ws |-> w]), r)
           /\ ToDisconnected([ui |-> u, rfb |-> r, ws |-> w]).ws = [w EXCEPT !.close = FALSE]
<1> DEFINE r2 == [r EXCEPT !.conn = "disconnected", !.timer = FALSE]
           u2 == DisconnectFinished(u)
           w2 == [w EXCEPT !.close = FALSE]
           d == ToDisconnected([ui |-> u, rfb |-> r, ws |-> w])
<1>1. d = [ui |-> u2, rfb |-> r2, ws |-> w2]
  BY DEF ToDisconnected
<1>2. r2.conn = "disconnected" /\ \A p \in Parts \ {"conn", "timer"} : r2[p] = r[p]
  BY DEF Parts
<1>3. u2.rfb = FALSE /\ u2.dialog = FALSE
  BY DEF DisconnectFinished, Pages
<1> HIDE DEF r2, d
<1>4. d.rfb = r2 /\ d.ui = u2 /\ d.ws = w2 /\ DOMAIN d = {"ui", "rfb", "ws"}
  BY <1>1
<1>5. Over(d, r) /\ d.ws = w2
  BY <1>2, <1>3, <1>4 DEF Over
<1> QED
  BY <1>5 DEF d

\* also when it fails.
LEMMA FailedIs ==
    ASSUME NEW u \in Pages, NEW r, Parts \subseteq DOMAIN r, r.conn \in {"connecting", "connected"}, NEW w \in Channels
    PROVE  /\ Over(Failed([ui |-> u, rfb |-> r, ws |-> w]), r)
           /\ Failed([ui |-> u, rfb |-> r, ws |-> w]).ws = [CloseSocket(w) EXCEPT !.close = FALSE]
<1> DEFINE r1 == [[r EXCEPT !.conn = "disconnecting"] EXCEPT !.timer = TRUE]
           w1 == CloseSocket(w)
<1>1. ToDisconnecting([ui |-> u, rfb |-> r, ws |-> w]) = [ui |-> u, rfb |-> r1, ws |-> w1]
  BY DEF ToDisconnecting
<1>2. r1.conn = "disconnecting" /\ Parts \subseteq DOMAIN r1 /\ \A p \in Parts \ {"conn", "timer"} : r1[p] = r[p]
  BY DEF Parts
<1>3. w1 \in Channels
  BY DEF CloseSocket, Channels
<1> HIDE DEF r1
<1>4. Failed([ui |-> u, rfb |-> r, ws |-> w]) = ToDisconnected([ui |-> u, rfb |-> r1, ws |-> w1])
  BY <1>1 DEF Failed
<1> HIDE DEF w1
<1>5. /\ Over(ToDisconnected([ui |-> u, rfb |-> r1, ws |-> w1]), r1)
      /\ ToDisconnected([ui |-> u, rfb |-> r1, ws |-> w1]).ws = [w1 EXCEPT !.close = FALSE]
  BY <1>2, <1>3, DisconnectedIs
<1>6. \A d : Over(d, r1) => Over(d, r)
  BY <1>2 DEF Over
<1> QED
  BY <1>4, <1>5, <1>6 DEF w1

\* A channel that closes keeps the invariant,
LEMMA ClosesHand ==
    ASSUME Base, Base', Hand, SocketCloses
    PROVE  Hand'
<1>0. ui \in Pages /\ ws \in Channels /\ Parts \subseteq DOMAIN rfb /\ rfb.conn \in States
  BY BaseIs
<1>1. turn = "idle" /\ turn' = turn /\ buf' = buf /\ disp' = disp /\ wire' = <<>> /\ up' = <<>>
  BY DEF SocketCloses
<1> DEFINE w == [ws EXCEPT !.ready = "closed"]
           c == [ui |-> ui, rfb |-> rfb, ws |-> w]
           after == CASE rfb.conn = "disconnecting" -> ToDisconnected(c)
                      [] rfb.conn \in {"connecting", "connected"} -> Failed(c)
                      [] OTHER -> c
<1>2. [Conn EXCEPT !.ws.ready = "closed"] = c
  BY DEF Conn
<1>3. Becomes(IF ws.close THEN [after EXCEPT !.ws.close = FALSE] ELSE c)
  BY <1>2 DEF SocketCloses
<1>4. w \in Channels /\ w.ready = "closed" /\ w.message = ws.message /\ w.close = ws.close
  BY <1>0 DEF Channels
<1> HIDE DEF w
<1>5. CASE rfb.conn # "disconnected"
  <2>1. ws.close
    BY <1>5 DEF Hand, Linked
  <2>2. Over(after, rfb) /\ after.ws.ready = "closed" /\ after.ws.message = FALSE /\ "close" \in DOMAIN after.ws
    <3>1. CASE rfb.conn = "disconnecting"
      <4>1. after = ToDisconnected(c)
        BY <3>1
      <4> HIDE DEF after
      <4>2. Over(after, rfb) /\ after.ws = [w EXCEPT !.close = FALSE]
        BY <1>0, <1>4, <3>1, <4>1, DisconnectedIs
      <4>3. w.message = FALSE
        <5>1. ~ ws.message /\ ws.message \in BOOLEAN
          BY <1>0, <3>1 DEF Hand, Linked, Live, Channels
        <5> QED
          BY <1>4, <5>1
      <4>4. after.ws.ready = "closed" /\ after.ws.message = FALSE /\ "close" \in DOMAIN after.ws
        BY <1>4, <4>2, <4>3 DEF Channels
      <4> QED
        BY <4>2, <4>4
    <3>2. CASE rfb.conn \in {"connecting", "connected"}
      <4>1. after = Failed(c)
        BY <3>2
      <4> HIDE DEF after
      <4>2. Over(after, rfb) /\ after.ws = [CloseSocket(w) EXCEPT !.close = FALSE]
        BY <1>0, <1>4, <3>2, <4>1, FailedIs
      <4>3. CloseSocket(w) \in Channels /\ CloseSocket(w).ready = "closed" /\ CloseSocket(w).message = FALSE
        BY <1>4 DEF CloseSocket, Channels
      <4>4. after.ws.ready = "closed" /\ after.ws.message = FALSE /\ "close" \in DOMAIN after.ws
        BY <4>2, <4>3 DEF Channels
      <4> QED
        BY <4>2, <4>4
    <3> QED
      BY <1>0, <1>5, <3>1, <3>2 DEF States
  <2> HIDE DEF after
  <2>3. ui' = after.ui /\ rfb' = after.rfb /\ ws' = [after.ws EXCEPT !.close = FALSE]
    BY <1>3, <2>1, <2>2 DEF Becomes, Over
  <2>4. ws'.close = FALSE /\ ws'.message = FALSE /\ ws'.ready = "closed"
    BY <2>2, <2>3 DEF Over
  <2>5. rfb'.conn = "disconnected" /\ ui'.rfb = FALSE /\ ~ ui'.dialog
    BY <2>2, <2>3 DEF Over
  <2>6. ~ Live(rfb')
    BY <2>5 DEF Live
  <2>7. Linked'
    BY <2>4, <2>5, <2>6 DEF Linked
  <2>8. \A p \in Parts \ {"conn", "timer"} : rfb'[p] = rfb[p]
    BY <2>2, <2>3 DEF Over
  <2> QED
    BY <1>1, <2>5, <2>6, <2>7, <2>8, GoesDown
<1>6. CASE rfb.conn = "disconnected"
  <2>1. ~ ws.close
    BY <1>6 DEF Hand, Linked
  <2>2. ui' = ui /\ rfb' = rfb /\ ws' = w
    BY <1>3, <2>1 DEF Becomes
  <2>3. ~ Live(rfb')
    BY <1>6, <2>2 DEF Live
  <2>4. Linked'
    BY <1>4, <1>6, <2>2, <2>3 DEF Hand, Linked
  <2> QED
    BY <1>1, <2>2, <2>3, <2>4, GoesDown
<1> QED
  BY <1>5, <1>6

\* what is received does,
LEMMA ReceiveHand ==
    ASSUME Base, Base', Hand, ReceiveMessage
    PROVE  Hand'
<1>0. /\ Parts \subseteq DOMAIN rfb /\ rfb.conn \in States /\ Sound(buf) /\ wire \in Seq(Units0)
  BY BaseIs
<1>1. /\ turn = "idle" /\ ws.ready # "connecting" /\ ui' = ui /\ rfb' = rfb /\ ws' = ws /\ disp' = disp
      /\ up' = up /\ srv' = srv
  BY DEF ReceiveMessage
<1>2. ws.message <=> Live(rfb)
  BY DEF Hand, Linked
<1>3. CASE Live(rfb)
  <2>1. Ahead' = Ahead
    BY <1>0, <1>2, <1>3, ReceivedAhead
  <2>2. turn' = CASE rfb.conn = "connecting" -> "init" [] rfb.conn = "connected" -> "normal" [] OTHER -> "end"
    BY <1>2, <1>3 DEF ReceiveMessage
  <2>3. turn' # "once" /\ (rfb.conn = "connecting" => turn' = "init") /\ (rfb.conn = "connected" => turn' = "normal")
    BY <1>3, <2>2 DEF Live
  <2>4. Resuming => Resuming'
    BY <1>1, <2>1, <2>3 DEF Resuming
  <2>5. rfb.conn # "connected" => turn' = "init"
    BY <1>3, <2>3 DEF Live
  <2>6. rfb.conn # "connecting" => turn' = "normal"
    BY <1>3, <2>3 DEF Live
  <2> QED
    BY <1>1, <2>1, <2>4, <2>5, <2>6, HandKept DEF Late
<1>4. CASE ~ Live(rfb)
  <2>1. buf' = buf /\ turn' = turn
    BY <1>2, <1>4 DEF ReceiveMessage
  <2> QED
    <3>1. Linked'
      BY <1>1, <2>1 DEF Hand, Linked
    <3> QED
      BY <1>1, <1>4, <2>1, <3>1, GoesDown
<1> QED
  BY <1>3, <1>4

\* the end of a handler,
LEMMA EndsHand ==
    ASSUME Base, Base', Hand, ReceiveEnds
    PROVE  Hand'
<1>1. /\ turn = "end" /\ turn' = "idle" /\ buf' = ResetIfRead(buf) /\ ui' = ui /\ rfb' = rfb /\ ws' = ws /\ disp' = disp
      /\ wire' = wire /\ up' = up /\ srv' = srv
  BY DEF ReceiveEnds
<1>2. Ahead' = Ahead
  <2>1. Unread(buf') = Unread(buf)
    BY <1>1, BaseIs, ResetUnread
  <2> QED
    BY <1>1, <2>1 DEF Ahead
<1>3. Resuming => Resuming'
  BY <1>1, <1>2 DEF Resuming
<1> QED
  BY <1>1, <1>2, <1>3, HandKept DEF Late

\* the end of the wait for a disconnection,
LEMMA TimesOutHand ==
    ASSUME Base, Base', Hand, DisconnectTimesOut
    PROVE  Hand'
<1>0. ui \in Pages /\ ws \in Channels /\ Parts \subseteq DOMAIN rfb /\ rfb.conn \in States
  BY BaseIs
<1>1. /\ turn = "idle" /\ turn' = turn /\ buf' = buf /\ disp' = disp /\ wire' = wire /\ up' = up /\ srv' = srv
      /\ Becomes(ToDisconnected(Conn))
  BY DEF DisconnectTimesOut
<1>2. CASE rfb.conn = "disconnecting"
  <2> DEFINE d == ToDisconnected([ui |-> ui, rfb |-> rfb, ws |-> ws])
  <2>1. Over(d, rfb) /\ d.ws = [ws EXCEPT !.close = FALSE]
    BY <1>0, <1>2, DisconnectedIs
  <2> HIDE DEF d
  <2>2. ui' = d.ui /\ rfb' = d.rfb /\ ws' = d.ws
    BY <1>1 DEF Becomes, Conn, d
  <2>3. ws'.close = FALSE /\ ws'.message = ws.message /\ ws'.ready = ws.ready
    BY <1>0, <2>1, <2>2 DEF Channels
  <2>4. rfb'.conn = "disconnected" /\ ui'.rfb = FALSE /\ ~ ui'.dialog /\ \A p \in Parts \ {"conn", "timer"} : rfb'[p] = rfb[p]
    BY <2>1, <2>2 DEF Over
  <2>5. ~ Live(rfb') /\ ~ Live(rfb)
    BY <1>2, <2>4 DEF Live
  <2>6. Linked'
    BY <2>3, <2>4, <2>5 DEF Hand, Linked
  <2> QED
    BY <1>1, <2>4, <2>5, <2>6, GoesDown
<1>3. CASE rfb.conn # "disconnecting"
  <2>1. ui' = ui /\ rfb' = rfb /\ ws' = ws
    BY <1>1, <1>3 DEF Becomes, ToDisconnected, Conn
  <2>2. Ahead' = Ahead /\ RQlen(buf)' = RQlen(buf)
    BY <1>1, <2>1 DEF Ahead, RQlen
  <2>3. Resuming => Resuming'
    BY <1>1, <2>1, <2>2 DEF Resuming
  <2> QED
    BY <1>1, <2>1, <2>2, <2>3, HandKept DEF Late
<1> QED
  BY <1>2, <1>3

\* a resumed handshake
LEMMA ResumesHand ==
    ASSUME Base, Base', Hand, ResumeAuthentication
    PROVE  Hand'
<1>0. Parts \subseteq DOMAIN rfb /\ rfb.resumes \in Nat /\ Sound(buf) /\ wire \in Seq(Units0) /\ RQlen(buf) \in Nat
  BY BaseIs
<1>1. /\ turn = "idle" /\ turn' = "once" /\ rfb.resumes > 0 /\ ui' = ui /\ ws' = ws /\ disp' = disp /\ buf' = buf
      /\ wire' = wire /\ up' = up /\ srv' = srv
  BY DEF ResumeAuthentication
<1>2. /\ rfb'.conn = rfb.conn /\ rfb'.init = rfb.init /\ rfb'.ard = rfb.ard
      /\ rfb'.vencrypt = rfb.vencrypt /\ rfb'.tight = rfb.tight /\ rfb'.scheme = rfb.scheme /\ rfb'.creds = rfb.creds
      /\ \A p \in Still : rfb'[p] = rfb[p]
  BY <1>0 DEF ResumeAuthentication, Parts, Still, Course
<1>3. Ahead' = Ahead /\ RQlen(buf)' = RQlen(buf)
  BY <1>1, <1>2 DEF Ahead, RQlen, Live
<1>4. ~ Late
  <2>1. rfb.resumes # 0
    BY <1>0, <1>1
  <2> QED
    BY <2>1 DEF Late
<1>5. (Asking(rfb') <=> Asking(rfb)) /\ (Auth(rfb', "ard") <=> Auth(rfb, "ard"))
  BY <1>2 DEF Asking, Auth
<1>6. Ahead = <<>> => RQlen(buf) = 0
  <2>1. RQlen(buf) <= Len(Ahead)
    BY <1>0, AheadIs
  <2>2. Ahead = <<>> => Len(Ahead) = 0
    OBVIOUS
  <2> QED
    BY <1>0, <2>1, <2>2
<1>7. Resuming => Resuming' /\ (Asking(rfb) \/ rfb.init = "SecurityResult")
  BY <1>1, <1>2, <1>3, <1>5, <1>6 DEF Resuming
<1>8. ws.ready # "connecting"
  <2>1. Resuming
    BY <1>4 DEF Hand, Live
  <2> QED
    BY <1>7, <2>1 DEF Hand, Linked, Asking
<1> QED
  BY <1>1, <1>2, <1>3, <1>4, <1>7, <1>8, HandKept

\* and the end of the key exchange.
LEMMA ArdComputedHand ==
    ASSUME Base, Base', Hand, ArdComputed
    PROVE  Hand'
<1>0. Parts \subseteq DOMAIN rfb
  BY BaseIs
<1>1. /\ turn = "idle" /\ turn' = turn /\ rfb.ard = "computing" /\ ui' = ui /\ ws' = ws /\ disp' = disp /\ buf' = buf
      /\ wire' = wire /\ up' = up /\ srv' = srv
  BY DEF ArdComputed
<1>2. /\ rfb'.conn = rfb.conn /\ rfb'.init = rfb.init /\ rfb'.ard = "ready"
      /\ rfb'.vencrypt = rfb.vencrypt /\ rfb'.tight = rfb.tight /\ rfb'.scheme = rfb.scheme /\ rfb'.creds = rfb.creds
      /\ \A p \in Still : rfb'[p] = rfb[p]
  BY <1>0 DEF ArdComputed, Parts, Still, Course
<1>3. Ahead' = Ahead /\ RQlen(buf)' = RQlen(buf)
  BY <1>1, <1>2 DEF Ahead, RQlen, Live
<1>4. ~ Late
  BY <1>1 DEF Late
<1>5. (Asking(rfb') <=> Asking(rfb)) /\ (Auth(rfb', "ard") <=> Auth(rfb, "ard"))
  BY <1>2 DEF Asking, Auth
<1>6. Resuming => Auth(rfb, "ard") /\ Asking(rfb)
  BY <1>1 DEF Resuming, Auth, Asking, Dialogs
<1>7. Resuming => Resuming'
  BY <1>1, <1>2, <1>3, <1>5, <1>6 DEF Resuming
<1> QED
  BY <1>1, <1>2, <1>3, <1>4, <1>7, HandKept

-----------------------------------------------------------------------------
(* The server.                                                             *)

\* What a client asks that is still making its connection.
Questions == {"version", "none", "vnc", "target", "subauth", "vencrypt", "tight", "tunnel", "ard", "response", "init"}

\* A step of the server keeps the invariant if the sides still stand as they should.
LEMMA ServerTalks ==
    ASSUME Base, Hand, ui' = ui, rfb' = rfb, ws' = ws, buf' = buf, disp' = disp, turn' = turn,
           rfb.conn = "connecting" => ws.ready # "connecting" /\ Talk' /\ ~ (rfb.resumes > 0)
    PROVE  Hand'
<1>1. Sound(buf) /\ wire \in Seq(Units0) /\ rfb.conn \in States /\ RQlen(buf)' = RQlen(buf)
  BY BaseIs DEF RQlen
<1>2. ~ Live(rfb) => Ahead' = Ahead
  BY DEF Ahead
<1>3. CASE rfb.conn = "connecting"
  <2>1. Live(rfb)' /\ Linked'
    BY <1>3 DEF Live, Hand, Linked
  <2>2. Fresh /\ Resuming
    BY <1>3 DEF Hand
  <2>3. Fresh'
    BY <2>2 DEF Fresh
  <2>4. Resuming'
    BY <1>1, <1>3, <2>2 DEF Resuming
  <2> QED
    BY <1>3, <2>1, <2>3, <2>4 DEF Hand
<1>4. CASE rfb.conn = "connected"
  <2>1. Late /\ ws.ready # "connecting"
    BY <1>4 DEF Hand, Linked, Late
  <2>2. Live(rfb)' /\ Linked'
    BY <1>4, <2>1 DEF Live, Hand, Linked
  <2>3. Late'
    BY <2>1 DEF Late, Drawing
  <2> QED
    BY <1>4, <2>2, <2>3 DEF Hand
<1>5. CASE ~ Live(rfb)
  <2>1. rfb.conn # "connecting" /\ rfb.conn # "connected"
    BY <1>5 DEF Live
  <2>2. Linked'
    BY <1>5 DEF Live, Hand, Linked
  <2>3. Fresh /\ Resuming /\ Begun(rfb, Ahead) => Fresh' /\ Resuming' /\ Begun(rfb, Ahead)'
    BY <1>1, <1>2, <1>5 DEF Fresh, Resuming
  <2>4. ASSUME Late PROVE Late'
    <3>1. Drawing' = Drawing
      BY DEF Drawing
    <3> QED
      BY <2>4, <3>1 DEF Late
  <2> QED
    BY <1>5, <2>1, <2>2, <2>3, <2>4 DEF Hand
<1> QED
  BY <1>1, <1>3, <1>4, <1>5 DEF Live

\* What the client has asked is read behind what needs no answer.
LEMMA NextAsked ==
    ASSUME Talk, up # <<>>
    PROVE  \/ Quiet /\ Head(up) \in Silent /\ Tail(up) \in Seq(Silent)
           \/ Waiting /\ Head(up) \in Silent /\ \E m : Asked(Tail(up), m) /\ Asks(rfb, m, srv.stage)
           \/ /\ Waiting /\ Head(up) \in Questions /\ Asks(rfb, Head(up), srv.stage) /\ Tail(up) = <<>>
<1>1. CASE Quiet
  <2>1. up \in Seq(Silent)
    BY <1>1 DEF Quiet
  <2> QED
    BY <1>1, <2>1, HeadTailProperties
<1>2. CASE Waiting
  <2>1. PICK m : Asked(up, m) /\ Asks(rfb, m, srv.stage)
    BY <1>2 DEF Waiting
  <2>2. PICK p \in Seq(Silent) : up = Append(p, m)
    BY <2>1 DEF Asked
  <2>3. /\ Head(up) = IF p = <<>> THEN m ELSE Head(p)
        /\ Tail(up) = IF p = <<>> THEN <<>> ELSE Append(Tail(p), m)
    BY <2>2, HeadTailAppend
  <2>4. CASE p = <<>>
    <3>1. m \in Questions
      BY <2>1 DEF Asks, Questions
    <3> QED
      BY <1>2, <2>1, <2>3, <2>4, <3>1
  <2>5. CASE p # <<>>
    <3>1. Head(p) \in Silent /\ Tail(p) \in Seq(Silent)
      BY <2>5, HeadTailProperties
    <3>2. Asked(Tail(up), m)
      BY <2>3, <2>5, <3>1 DEF Asked
    <3> QED
      BY <1>2, <2>1, <2>3, <2>5, <3>1, <3>2
  <2> QED
    BY <2>4, <2>5
<1> QED
  BY <1>1, <1>2 DEF Talk

\* An answer to a client with nothing ahead is all there is ahead.
LEMMA AnswerIs ==
    ASSUME Base, Live(rfb), Ahead = <<>>, NEW units \in Seq(Units0), wire' = wire \o units, buf' = buf, rfb' = rfb
    PROVE  Ahead' = units
<1>1. Sound(buf) /\ wire \in Seq(Units0)
  BY BaseIs
<1>2. Ahead' = <<>> \o units
  BY <1>1, SentAhead
<1> QED
  BY <1>2, ConcatEmptySeq

\* An answer that is what the client needs next.
LEMMA AnswerTalks ==
    ASSUME Base, Live(rfb), Ahead = <<>>, NEW units \in Seq(Units0), NEW stage, srv.wants = {},
           Answers(units, stage), up' = <<>>, buf' = buf, rfb' = rfb, Says(rfb, units),
           stage \in {"shown", "normal"} => rfb.init = "ServerInitialisation",
           Auth(rfb, "vencrypt") /\ rfb.vencrypt = 0 => stage = "vencrypt",
           rfb.init \in {"", "ProtocolVersion", "Security"} => stage # "vencrypt"
    PROVE  Talk'
<1>1. Ahead' = units
  BY AnswerIs DEF Answers
<1>2. srv'.stage = stage /\ srv'.wants = {}
  <2>1. {"stage", "wants"} \subseteq DOMAIN srv
    BY BaseIs DEF Serving
  <2>2. srv' = [srv EXCEPT !.stage = stage]
    BY DEF Answers
  <2> QED
    BY <2>1, <2>2
<1>3. up' \in Seq(Silent)
  BY EmptySeq
<1> QED
  BY <1>1, <1>2, <1>3 DEF Talk, Quiet

\* The result of an authentication.
LEMMA ResultTalks ==
    ASSUME Base, Live(rfb), Ahead = <<>>, srv.wants = {}, Result, up' = <<>>, buf' = buf, rfb' = rfb,
           Auth(rfb, "none") \/ rfb.init = "SecurityResult"
    PROVE  Talk'
<1> DEFINE ok == <<U("result", 1, <<"ok">>)>>
<1>0. ~ Auth(rfb, "vencrypt") /\ rfb.init \notin {"", "ProtocolVersion", "Security"}
  BY DEF Auth
<1>1. ok \in Seq(Units0) /\ Refusal \in Seq(Units0)
  BY HandshakeUnits, AnswersTyped DEF Refusal
<1>2. Says(rfb, ok) /\ Says(rfb, Refusal)
  BY DEF Says, Auth
<1>3. CASE Answers(ok, "client")
  <2> HIDE DEF ok
  <2> QED
    BY <1>0, <1>1, <1>2, <1>3, AnswerTalks
<1>4. CASE wire' = wire \o Refusal /\ srv' = [srv EXCEPT !.stage = "refused", !.refusals = @ + 1]
  <2>1. Ahead' = Refusal
    BY <1>1, <1>4, AnswerIs
  <2>2. srv'.stage = "refused" /\ srv'.wants = {}
    <3>1. "stage" \in DOMAIN srv /\ "wants" \in DOMAIN srv
      BY BaseIs DEF Serving
    <3> QED
      BY <1>4, <3>1
  <2>3. up' \in Seq(Silent)
    BY EmptySeq
  <2> QED
    BY <1>0, <1>2, <2>1, <2>2, <2>3 DEF Talk, Quiet
<1> QED
  BY <1>3, <1>4 DEF Result, Refusal

\* Every answer of the server's side of the handshake is what the client needs next.
LEMMA AnswersTalk ==
    ASSUME Base, Live(rfb), ServerHandshake, Talk, Waiting, Head(up) \in Questions,
           Asks(rfb, Head(up), srv.stage), Tail(up) = <<>>
    PROVE  Talk'
<1> DEFINE m == Head(up)
<1>0. /\ Ahead = <<>> /\ srv.wants = {} /\ up' = <<>> /\ buf' = buf /\ rfb' = rfb /\ m \in Questions
      /\ Asks(rfb, m, srv.stage) /\ scope \in Scopes
  BY DEF Waiting, Talk, ServerHandshake, Base
<1>1. CASE m = "version"
  <2>1. PICK offer \in scope.offers : Answers(Offer(offer), "security")
    BY <1>1 DEF ServerHandshake, Offer
  <2>2. offer \in Seq(Schemes \cup {"other"})
    BY <1>0, OfferAssumption
  <2>3. Offer(offer) \in Seq(Units0)
    <3>1. offer \in Seq(Details)
      BY <2>2, SeqMonotonic DEF Details
    <3>2. U("types", 1, offer) \in Units0 /\ U("types", 2, offer) \in Units0
      BY <3>1, HandshakeUnits
    <3> QED
      BY <3>2, HandshakeUnits, AnswersTyped DEF Offer
  <2>4. rfb.init = "Security"
    BY <1>0, <1>1 DEF Asks
  <2>5. Says(rfb, Offer(offer))
    BY <2>2, <2>4 DEF Says, Auth
  <2> QED
    BY <1>0, <2>1, <2>3, <2>4, <2>5, AnswerTalks DEF Auth
<1>2. CASE m \in {"none", "response"}
  <2>1. Result
    BY <1>2 DEF ServerHandshake
  <2>2. Auth(rfb, "none") \/ rfb.init = "SecurityResult"
    BY <1>0, <1>2 DEF Asks
  <2> QED
    BY <1>0, <2>1, <2>2, ResultTalks
<1>3. CASE m \in {"vnc", "target", "subauth"}
  <2> DEFINE T == <<U("challenge", 1, <<>>)>>
  <2>1. Answers(T, "security")
    BY <1>3 DEF ServerHandshake
  <2>2. Auth(rfb, "vnc")
    BY <1>0, <1>3 DEF Asks
  <2>3. T \in Seq(Units0)
    BY HandshakeUnits, AnswersTyped
  <2>4. Says(rfb, T)
    BY <2>2 DEF Says, Auth
  <2> HIDE DEF T
  <2> QED
    BY <1>0, <2>1, <2>2, <2>3, <2>4, AnswerTalks DEF Auth
<1>4. CASE m = "vencrypt"
  <2> DEFINE S == <<U("vencrypt", 1, <<>>)>>
             T == <<U("ack", 1, <<>>), U("count", 1, <<>>), U("subtypes", 1, <<>>)>>
  <2>1. Answers(IF srv.stage = "vencrypt" THEN T ELSE S, "vencrypt")
    BY <1>4 DEF ServerHandshake
  <2>2. /\ Auth(rfb, "vencrypt")
        /\ \/ rfb.vencrypt = 0 /\ srv.stage # "vencrypt"
           \/ rfb.vencrypt = 1 /\ srv.stage = "vencrypt"
    BY <1>0, <1>4 DEF Asks
  <2>3. S \in Seq(Units0) /\ T \in Seq(Units0)
    BY HandshakeUnits, AnswersTyped
  <2>4. (rfb.vencrypt = 0 => Says(rfb, S)) /\ (rfb.vencrypt = 1 => Says(rfb, T))
    BY <2>2 DEF Says, Auth
  <2> HIDE DEF S, T
  <2>5. rfb.init = "Authentication"
    BY <2>2 DEF Auth
  <2>6. CASE rfb.vencrypt = 0 /\ srv.stage # "vencrypt"
    BY <1>0, <2>1, <2>3, <2>4, <2>5, <2>6, AnswerTalks
  <2>7. CASE rfb.vencrypt = 1 /\ srv.stage = "vencrypt"
    BY <1>0, <2>1, <2>3, <2>4, <2>5, <2>7, AnswerTalks
  <2> QED
    BY <2>2, <2>6, <2>7
<1>5. CASE m \in {"tight", "tunnel", "ard"}
  <2> DEFINE R == <<U("tunnels", 1, <<>>), U("tunnels", 2, <<>>)>>
             S == <<U("subauths", 1, <<>>), U("subauths", 2, <<>>)>>
             T == <<U("dh", 1, <<>>), U("dh", 2, <<>>)>>
  <2>1. /\ m = "tight" => Answers(R, "security")
        /\ m = "tunnel" => Answers(S, "security")
        /\ m = "ard" => Answers(T, "security")
    BY DEF ServerHandshake
  <2>2. /\ m = "tight" => Auth(rfb, "tight") /\ ~ rfb.tight
        /\ m = "tunnel" => Auth(rfb, "tight") /\ rfb.tight
        /\ m = "ard" => Auth(rfb, "ard") /\ rfb.ard = "idle"
    BY <1>0 DEF Asks
  <2>3. R \in Seq(Units0) /\ S \in Seq(Units0) /\ T \in Seq(Units0)
    BY HandshakeUnits, AnswersTyped
  <2>4. /\ Auth(rfb, "tight") /\ ~ rfb.tight => Says(rfb, R)
        /\ Auth(rfb, "tight") /\ rfb.tight => Says(rfb, S)
        /\ Auth(rfb, "ard") /\ rfb.ard = "idle" => Says(rfb, T)
    BY DEF Says, Auth
  <2> HIDE DEF R, S, T
  <2>5. rfb.init = "Authentication" /\ ~ Auth(rfb, "vencrypt")
    BY <1>5, <2>2 DEF Auth
  <2>6. CASE m = "tight"
    BY <1>0, <2>1, <2>2, <2>3, <2>4, <2>5, <2>6, AnswerTalks
  <2>7. CASE m = "tunnel"
    BY <1>0, <2>1, <2>2, <2>3, <2>4, <2>5, <2>7, AnswerTalks
  <2>8. CASE m = "ard"
    BY <1>0, <2>1, <2>2, <2>3, <2>4, <2>5, <2>8, AnswerTalks
  <2> QED
    BY <1>5, <2>6, <2>7, <2>8
<1>6. CASE m = "init"
  <2> DEFINE T == [i \in 1 .. ServerInitUnits |-> U("serverinit", i, <<>>)]
  <2>1. Answers(T, "shown")
    BY <1>6 DEF ServerHandshake
  <2>2. rfb.init = "ServerInitialisation"
    BY <1>0, <1>6 DEF Asks
  <2>3. T \in Seq(Units0)
    <3>1. ServerInitUnits \in Nat
      BY DEF ServerInitUnits
    <3>2. \A i \in 1 .. ServerInitUnits : U("serverinit", i, <<>>) \in Units0
      BY <3>1, HandshakeUnits
    <3> QED
      BY <3>1, <3>2
  <2> HIDE DEF T
  <2>4. Says(rfb, T)
    BY <2>2 DEF Says, Auth
  <2> QED
    BY <1>0, <2>1, <2>2, <2>3, <2>4, AnswerTalks DEF Auth
<1> QED
  BY <1>0, <1>1, <1>2, <1>3, <1>4, <1>5, <1>6 DEF Questions

\* The server's steps keep the invariant.
LEMMA ServerHand ==
    ASSUME Base, Base', Hand, Server
    PROVE  Hand'
<1>0. /\ ui' = ui /\ rfb' = rfb /\ ws' = ws /\ buf' = buf /\ disp' = disp /\ turn' = turn
      /\ rfb.resumes \in Nat /\ Sound(buf) /\ wire \in Seq(Units0)
  BY BaseIs DEF Server, ServerHandshake, ServerReads, ServerUpdates, ServerChatters, Sends
<1>1. CASE rfb.conn # "connecting"
  BY <1>0, <1>1, ServerTalks
<1>2. CASE rfb.conn = "connecting"
  <2>1. Talk /\ Resuming /\ Live(rfb) /\ srv.wants = {}
    BY <1>2 DEF Hand, Talk, Live
  <2>2. CASE ServerHandshake
    <3>1. up # <<>> /\ ws.ready = "open" /\ ~ (rfb.resumes > 0) /\ up' = Tail(up)
      <4>1. up # <<>> /\ ws.ready = "open" /\ rfb.resumes = 0 /\ up' = Tail(up)
        BY <2>2 DEF ServerHandshake, Reached
      <4> QED
        BY <4>1, NoneMore, Zenon
    <3>2. Talk'
      <4>1. Head(up) \in Silent => wire' = wire /\ srv' = srv
        BY <2>2 DEF ServerHandshake, Silent
      <4>2. Head(up) \in Silent => Ahead' = Ahead
        BY <1>0, <4>1 DEF Ahead
      <4>3. CASE Quiet /\ Head(up) \in Silent /\ Tail(up) \in Seq(Silent)
        BY <1>0, <2>1, <3>1, <4>1, <4>2, <4>3 DEF Talk, Quiet
      <4>4. CASE Waiting /\ Head(up) \in Silent /\ \E m : Asked(Tail(up), m) /\ Asks(rfb, m, srv.stage)
        BY <1>0, <2>1, <3>1, <4>1, <4>2, <4>4 DEF Talk, Waiting
      <4>5. CASE /\ Waiting /\ Head(up) \in Questions /\ Asks(rfb, Head(up), srv.stage) /\ Tail(up) = <<>>
        BY <2>1, <2>2, <4>5, AnswersTalk
      <4> QED
        BY <2>1, <3>1, <4>3, <4>4, <4>5, NextAsked
    <3> QED
      BY <1>0, <3>1, <3>2, ServerTalks
  <2>3. CASE ServerReads
    <3>1. up # <<>> /\ Head(up) \notin Silent \cup Questions
      BY <2>3 DEF ServerReads, Reached, Silent, Questions
    <3> QED
      BY <2>1, <3>1, NextAsked
  <2>4. CASE ServerUpdates \/ ServerChatters
    <3>1. /\ ws.ready = "open" /\ srv.stage \in {"shown", "normal"} /\ up' = up
          /\ \E s : /\ srv' = [s EXCEPT !.sent = @ + 1]
                    /\ s = srv \/ s = [srv EXCEPT !.asked = FALSE] \/ s = [srv EXCEPT !.continuous = "offered"]
      BY <2>1, <2>4 DEF ServerUpdates, ServerChatters, Sends
    <3>2. srv'.stage = srv.stage /\ srv'.wants = srv.wants
      <4>1. Serving \subseteq DOMAIN srv
        BY BaseIs
      <4> QED
        BY <3>1, <4>1 DEF Serving
    <3>3. Quiet /\ rfb.init = "ServerInitialisation"
      BY <2>1, <3>1 DEF Talk, Waiting, Quiet
    <3>4. ~ (rfb.resumes > 0)
      BY <2>1, <3>3 DEF Resuming, Asking
    <3>5. Says(rfb', Ahead')
      BY <1>0, <3>3 DEF Says, Auth
    <3>6. Talk'
      BY <1>0, <2>1, <3>1, <3>2, <3>3, <3>5 DEF Talk, Quiet, Auth
    <3> QED
      BY <1>0, <3>1, <3>4, <3>6, ServerTalks
  <2> QED
    BY <2>2, <2>3, <2>4 DEF Server
<1> QED
  BY <1>1, <1>2

-----------------------------------------------------------------------------
(* One frame at a time.                                                    *)

\* The invariant holds of a page that starts,
LEMMA HandStarts ==
    ASSUME Init
    PROVE  Hand
<1>1. PICK viewOnly \in BOOLEAN : rfb = [NewRfb(FALSE, viewOnly) EXCEPT !.conn = "disconnected"]
  BY DEF Init
<1>2. /\ rfb.conn = "disconnected" /\ rfb.rects = 0 /\ rfb.encoding = "" /\ rfb.update = 0 /\ ~ rfb.flushing
      /\ rfb.synced /\ rfb.ard = "idle" /\ rfb.resumes = 0 /\ rfb.init = "" /\ rfb.vencrypt = 0 /\ ~ rfb.tight
  BY <1>1 DEF NewRfb
<1>3. /\ ~ ui.rfb /\ ~ ui.dialog /\ ws.ready = "closed" /\ ~ ws.close /\ ~ ws.message /\ turn = "idle"
      /\ disp.q = <<>>
  BY DEF Init, Blank
<1>4. ~ Live(rfb)
  BY <1>2 DEF Live
<1>5. Linked
  BY <1>2, <1>3, <1>4 DEF Linked
<1>6. Fresh
  BY <1>2, <1>3 DEF Fresh
<1>7. Resuming
  <2>0. rfb.resumes = 0
    BY <1>2
  <2>1. ~ (rfb.resumes > 0)
    BY <2>0
  <2> QED
    BY <1>2, <1>3, <2>1 DEF Resuming
<1>8. Begun(rfb, Ahead)
  BY <1>2 DEF Begun, Auth
<1> QED
  BY <1>2, <1>4, <1>5, <1>6, <1>7, <1>8 DEF Hand

\* every step keeps it,
LEMMA HandNext ==
    ASSUME Base, Base', Hand, [Next]_vars
    PROVE  Hand'
<1>1. CASE Page
  BY <1>1, PageHand
<1>2. CASE Client
  BY <1>2, EndsHand, HandshakeHand, NormalHand DEF Client
<1>3. CASE Channel
  BY <1>3, OpensHand, ClosesHand, ReceiveHand DEF Channel
<1>4. CASE Timers
  BY <1>4, TimesOutHand, ResumesHand, ArdComputedHand, ImageLoadsHand DEF Timers
<1>5. CASE Server
  BY <1>5, ServerHand
<1>6. CASE UNCHANGED vars
  <2>1. /\ ui' = ui /\ rfb' = rfb /\ ws' = ws /\ buf' = buf /\ disp' = disp /\ turn' = turn /\ wire' = wire
        /\ up' = up /\ srv' = srv
    BY <1>6 DEF vars
  <2>2. Ahead' = Ahead
    BY <2>1 DEF Ahead
  <2>3. /\ Resuming => Resuming'
        /\ Fresh => turn' \notin {"normal", "flushed"}
        /\ Late => turn' \notin {"once", "init"} /\ ~ ui'.dialog /\ rfb'.resumes = 0
    BY <2>1, <2>2 DEF Resuming, Fresh, Late, Asking, Auth, RQlen
  <2>4. ws.ready = "connecting" => turn' = "idle"
    BY <2>1 DEF Hand, Linked
  <2>5. ui'.rfb = ui.rfb /\ (\A p \in Still : rfb'[p] = rfb[p]) /\ rfb'.ard = rfb.ard
    BY <2>1
  <2> QED
    BY <2>1, <2>2, <2>3, <2>4, <2>5, HandKept
<1> QED
  BY <1>1, <1>2, <1>3, <1>4, <1>5, <1>6 DEF Next

\* and what waits to be drawn is then of one update.
LEMMA HandWaits ==
    ASSUME Base, Hand
    PROVE  OneFrameWaits
<1>1. CASE Late
  <2>1. \A i \in 1 .. Len(disp.q) : disp.q[i].update \in Drawing
    BY DEF Drawing
  <2>2. \A a, b \in Drawing : a = b
    BY <1>1 DEF Late
  <2> QED
    BY <2>1, <2>2 DEF OneFrameWaits
<1>2. CASE Fresh
  <2>1. disp.q = <<>>
    BY <1>2 DEF Fresh
  <2>2. Len(disp.q) = 0
    BY <2>1
  <2>3. 1 .. Len(disp.q) = {}
    BY <2>2
  <2> QED
    BY <2>3 DEF OneFrameWaits
<1>3. rfb.conn = "connecting" \/ rfb.conn = "connected" \/ ~ Live(rfb)
  BY DEF Live
<1> QED
  BY <1>1, <1>2, <1>3 DEF Hand

\* What waits to be drawn is always of one update (rfb.js, _framebufferUpdate
\* and the display's flush): a resize, which is done at once, never meets
\* drawing of an earlier update.
THEOREM OneFrameAtATime == Spec => []OneFrameWaits
<1>1. Init /\ Base => Hand
  BY HandStarts
<1>2. Base /\ Base' /\ Hand /\ [Next]_vars => Hand'
  BY HandNext
<1>3. Base /\ Hand => OneFrameWaits
  BY HandWaits
<1> QED
  BY <1>1, <1>2, <1>3, BaseHolds, PTL DEF Spec

-----------------------------------------------------------------------------
(* What follows a unit of the stream.                                      *)

\* The encoding of a rectangle whose header has not been read.
NoHead == ""

Proper(list) == \A i \in 1 .. Len(list) - 1 : list[i] # "last"

\* The rectangles that are still to come, the first one from its body when its
\* header has been read, and messages after them.
InFrame(rects, encoding, S, whole) ==
    \E list \in Seq(Encodings) :
        /\ Proper(list) /\ Len(list) = rects
        /\ \/ encoding = NoHead /\ Follows(S, Rects(list)) /\ Flow(S, Len(Rects(list)), whole)
           \/ /\ list # <<>> /\ encoding = list[1]
              /\ Follows(S, Drop(Rects(list), 1)) /\ Flow(S, Len(Rects(list)) - 1, whole)

\* Nothing that a provide carries is ahead.
NoProvide(S) == \A i \in 1 .. Len(S) : S[i].k # "provide"

\* No encoding stands for a header that has not been read.
LEMMA NoHeadIs == NoHead \notin Encodings
BY DEF NoHead, Encodings, Pseudo

\* The units of an update's rectangles.
LEMMA RectsLong ==
    ASSUME NEW list \in Seq(Encodings)
    PROVE  /\ Rects(list) \in Seq(Units0)
           /\ Len(Rects(list)) = 2 * Len(list) - (IF list # <<>> /\ list[Len(list)] = "last" THEN 1 ELSE 0)
           /\ \A i \in 1 .. Len(Rects(list)) :
                Rects(list)[i] = U("rect", 1 + ((i + 1) % 2), <<list[(i + 1) \div 2]>>)
           /\ Len(list) \in Nat /\ (list # <<>> <=> Len(list) >= 1)
<1> DEFINE cut == IF list # <<>> /\ list[Len(list)] = "last" THEN 1 ELSE 0
           n == 2 * Len(list) - cut
<1>1. Len(list) \in Nat /\ (list # <<>> <=> Len(list) >= 1)
  BY EmptySeq
<1>2. n \in Nat
  BY <1>1
<1>3. Rects(list) = [i \in 1 .. n |-> U("rect", 1 + ((i + 1) % 2), <<list[(i + 1) \div 2]>>)]
  BY DEF Rects
<1>4. Rects(list) \in Seq(Units0)
  BY RectsTyped
<1> HIDE DEF n
<1>5. DOMAIN Rects(list) = 1 .. n
  BY <1>3
<1>6. Len(Rects(list)) = n
  BY <1>2, <1>4, <1>5
<1>7. \A i \in 1 .. n : Rects(list)[i] = U("rect", 1 + ((i + 1) % 2), <<list[(i + 1) \div 2]>>)
  BY <1>3
<1> QED
  BY <1>1, <1>4, <1>6, <1>7 DEF n

\* An update without rectangles has no more units.
LEMMA RectsNone == Rects(<<>>) = <<>> /\ <<>> \in Seq(Encodings)
<1>1. <<>> \in Seq(Encodings) /\ Len(<<>>) = 0
  BY EmptySeq
<1> DEFINE none == <<>>
           cut == IF none # <<>> /\ none[Len(none)] = "last" THEN 1 ELSE 0
<1>2. none \in Seq(Encodings) /\ Len(none) = 0 /\ cut = 0
  BY <1>1
<1>3. Rects(none) \in Seq(Units0) /\ Len(Rects(none)) = 2 * Len(none) - cut
  BY <1>2, RectsLong
<1> HIDE DEF none, cut
<1>4. Len(Rects(none)) = 0
  BY <1>2, <1>3
<1>5. Rects(none) = <<>>
  BY <1>3, <1>4, EmptySeq
<1> QED
  BY <1>1, <1>5 DEF none

\* A rectangle is a header and, unless it is the last one, a body.
LEMMA RectsFirst ==
    ASSUME NEW list \in Seq(Encodings), list # <<>>, Proper(list)
    PROVE  /\ list[1] \in Encodings /\ Tail(list) \in Seq(Encodings) /\ Len(Tail(list)) = Len(list) - 1
           /\ Proper(Tail(list)) /\ Len(list) \in Nat
           /\ Len(Rects(list)) >= 1 /\ Rects(list)[1] = U("rect", 1, <<list[1]>>)
           /\ list[1] = "last" => Len(list) = 1 /\ Len(Rects(list)) = 1
           /\ list[1] # "last" => Len(Rects(list)) >= 2 /\ Rects(Tail(list)) = Drop(Rects(list), 2)
<1>1. Len(list) \in Nat /\ Len(list) >= 1
  BY RectsLong
<1>2. /\ list[1] \in Encodings /\ Tail(list) \in Seq(Encodings) /\ Len(Tail(list)) = Len(list) - 1
      /\ \A i \in 1 .. Len(list) - 1 : Tail(list)[i] = list[i + 1]
  BY <1>1
<1>3. Proper(Tail(list))
  <2>1. ASSUME NEW i \in 1 .. Len(Tail(list)) - 1 PROVE Tail(list)[i] # "last"
    <3>1. i \in 1 .. Len(list) - 1 /\ i + 1 \in 1 .. Len(list) - 1
      BY <1>1, <1>2
    <3> QED
      BY <1>2, <3>1 DEF Proper
  <2> QED
    BY <2>1 DEF Proper
<1> DEFINE R == Rects(list)
           cut == IF list # <<>> /\ list[Len(list)] = "last" THEN 1 ELSE 0
<1>4. /\ R \in Seq(Units0) /\ Len(R) = 2 * Len(list) - cut
      /\ \A i \in 1 .. Len(R) : R[i] = U("rect", 1 + ((i + 1) % 2), <<list[(i + 1) \div 2]>>)
  BY RectsLong
<1>5. cut \in {0, 1} /\ (cut = 1 <=> list[Len(list)] = "last")
  OBVIOUS
<1> HIDE DEF cut, R
<1>6. Len(R) >= 1 /\ R[1] = U("rect", 1, <<list[1]>>)
  <2>1. Len(R) >= 1 /\ 1 \in 1 .. Len(R)
    BY <1>1, <1>4, <1>5
  <2>2. 1 + ((1 + 1) % 2) = 1 /\ (1 + 1) \div 2 = 1
    OBVIOUS
  <2> QED
    BY <1>4, <2>1, <2>2
<1>7. ASSUME list[1] = "last" PROVE Len(list) = 1 /\ Len(R) = 1
  <2>1. ~ (1 \in 1 .. Len(list) - 1)
    BY <1>7 DEF Proper
  <2>2. Len(list) = 1
    <3>1. PICK n \in Nat : n = Len(list)
      BY <1>1
    <3>2. n >= 1 /\ ~ (1 \in 1 .. n - 1)
      BY <1>1, <2>1, <3>1
    <3>3. n = 1
      BY <3>2
    <3> QED
      BY <3>1, <3>3
  <2>3. cut = 1
    BY <1>5, <1>7, <2>2
  <2> QED
    BY <1>4, <2>2, <2>3
<1>8. ASSUME list[1] # "last" PROVE Len(R) >= 2 /\ Rects(Tail(list)) = Drop(R, 2)
  <2>1. ASSUME ~ (Len(list) > 1) PROVE cut = 0 /\ Len(list) = 1
    <3>1. PICK n \in Nat : n = Len(list)
      BY <1>1
    <3>2. n >= 1 /\ ~ (n > 1)
      BY <1>1, <2>1, <3>1
    <3>3. n = 1
      BY <3>2
    <3>4. Len(list) = 1
      BY <3>1, <3>3
    <3> QED
      BY <1>5, <1>8, <3>4
  <2>2. Len(R) >= 2 /\ Len(R) \in Nat
    <3>1. CASE Len(list) > 1
      BY <1>1, <1>4, <1>5, <3>1
    <3>2. CASE ~ (Len(list) > 1)
      BY <1>4, <2>1, <3>2
    <3> QED
      BY <3>1, <3>2
  <2> DEFINE T == Rects(Tail(list))
             end == IF Tail(list) # <<>> /\ Tail(list)[Len(Tail(list))] = "last" THEN 1 ELSE 0
  <2>3. /\ T \in Seq(Units0) /\ Len(T) = 2 * (Len(list) - 1) - end
        /\ \A i \in 1 .. Len(T) : T[i] = U("rect", 1 + ((i + 1) % 2), <<Tail(list)[(i + 1) \div 2]>>)
    BY <1>2, RectsLong
  <2>4. end = cut
    <3>1. CASE ~ (Len(list) > 1)
      <4>0. Len(list) = 1 /\ Len(Tail(list)) = 0 /\ cut = 0
        BY <1>1, <1>2, <2>1, <3>1
      <4>1. Tail(list) = <<>>
        BY <1>2, <4>0, EmptySeq
      <4> QED
        BY <4>0, <4>1
    <3>2. CASE Len(list) > 1
      <4>1. Len(list) - 1 \in 1 .. Len(list) - 1 /\ (Len(list) - 1) + 1 = Len(list)
        BY <1>1, <3>2
      <4>2. Tail(list)[Len(Tail(list))] = list[Len(list)]
        BY <1>2, <4>1
      <4>3. Tail(list) # <<>>
        <5>1. Len(Tail(list)) >= 1
          BY <1>1, <1>2, <3>2
        <5> QED
          BY <1>2, <5>1, RectsLong
      <4> QED
        BY <4>2, <4>3 DEF cut
    <3> QED
      BY <3>1, <3>2
  <2> HIDE DEF T, end
  <2>5. Len(T) = Len(R) - 2
    BY <1>1, <1>4, <1>5, <2>3, <2>4
  <2>6. /\ Drop(R, 2) \in Seq(Units0) /\ Len(Drop(R, 2)) = Len(R) - 2
        /\ \A i \in 1 .. Len(R) - 2 : Drop(R, 2)[i] = R[2 + i]
    <3>1. 2 \in Nat /\ R \in Seq(Units0) /\ 2 <= Len(R)
      BY <1>4, <2>2
    <3> HIDE DEF R
    <3> QED
      BY <3>1, DropIs
  <2>7. ASSUME NEW i \in 1 .. Len(R) - 2 PROVE T[i] = Drop(R, 2)[i]
    <3>1. i \in Nat /\ i >= 1 /\ 2 + i \in 1 .. Len(R) /\ i \in 1 .. Len(T)
      BY <2>2, <2>5
    <3>2. R[2 + i] = U("rect", 1 + ((2 + i + 1) % 2), <<list[(2 + i + 1) \div 2]>>)
      BY <1>4, <3>1
    <3>3. T[i] = U("rect", 1 + ((i + 1) % 2), <<Tail(list)[(i + 1) \div 2]>>)
      BY <2>3, <3>1
    <3>4. (2 + i + 1) % 2 = (i + 1) % 2 /\ (2 + i + 1) \div 2 = ((i + 1) \div 2) + 1
      BY <3>1
    <3>5. (i + 1) \div 2 \in 1 .. Len(list) - 1
      <4>1. i + 1 >= 2 /\ i + 1 <= 2 * (Len(list) - 1) + 1
        BY <1>1, <1>4, <1>5, <3>1
      <4> QED
        BY <1>1, <3>1, <4>1
    <3> QED
      BY <1>2, <2>6, <3>2, <3>3, <3>4, <3>5
  <2> QED
    BY SMTT(30), <2>2, <2>3, <2>5, <2>6, <2>7 DEF T
<1> QED
  BY <1>1, <1>2, <1>3, <1>6, <1>7, <1>8 DEF R

-----------------------------------------------------------------------------
(* Reading an update.                                                      *)

\* Behind the last rectangle come messages,
LEMMA FrameEnded ==
    ASSUME NEW S, NEW e, NEW whole, InFrame(0, e, S, whole)
    PROVE  e = NoHead /\ Flow(S, 0, whole)
<1>1. PICK list \in Seq(Encodings) :
          /\ Len(list) = 0
          /\ \/ e = NoHead /\ Flow(S, Len(Rects(list)), whole)
             \/ list # <<>>
  BY DEF InFrame
<1>2. list = <<>>
  BY <1>1, EmptySeq
<1>3. Len(Rects(list)) = 0
  BY <1>2, RectsNone
<1> QED
  BY <1>1, <1>2, <1>3

\* and where messages come, an update has ended.
LEMMA FrameEnds ==
    ASSUME NEW S \in Seq(Units0), NEW whole, Flow(S, 0, whole)
    PROVE  InFrame(0, NoHead, S, whole)
<1>1. Rects(<<>>) = <<>> /\ <<>> \in Seq(Encodings) /\ Len(<<>>) = 0
  BY RectsNone
<1>2. Follows(S, <<>>) /\ Proper(<<>>)
  BY DEF Follows, Proper
<1> QED
  BY <1>1, <1>2 DEF InFrame

\* A rectangle that has not begun begins with its header,
LEMMA FrameHead ==
    ASSUME NEW S \in Seq(Units0), NEW rects \in Nat, rects > 0, NEW whole, InFrame(rects, NoHead, S, whole), Len(S) > 0
    PROVE  \E enc \in Encodings : S[1] = U("rect", 1, <<enc>>) /\ InFrame(rects, enc, Drop(S, 1), whole)
<1>1. PICK list \in Seq(Encodings) :
          /\ Proper(list) /\ Len(list) = rects
          /\ \/ Follows(S, Rects(list)) /\ Flow(S, Len(Rects(list)), whole)
             \/ list # <<>> /\ NoHead = list[1]
  BY DEF InFrame
<1>2. list # <<>>
  BY <1>1, EmptySeq
<1>3. list[1] \in Encodings /\ Len(Rects(list)) >= 1 /\ Rects(list)[1] = U("rect", 1, <<list[1]>>)
  BY <1>1, <1>2, RectsFirst
<1>4. Follows(S, Rects(list)) /\ Flow(S, Len(Rects(list)), whole)
  <2>1. NoHead \notin Encodings
    BY NoHeadIs
  <2> QED
    BY <1>1, <1>3, <2>1
<1>5. Rects(list) \in Seq(Units0) /\ Len(Rects(list)) \in Nat /\ Len(S) \in Nat
  BY RectsTyped
<1>6. S[1] = U("rect", 1, <<list[1]>>)
  BY <1>3, <1>4, <1>5 DEF Follows
<1>7. Follows(Drop(S, 1), Drop(Rects(list), 1))
  BY <1>3, <1>4, <1>5, FollowsDrop
<1>8. Flow(Drop(S, 1), Len(Rects(list)) - 1, whole)
  BY <1>3, <1>4, <1>5, FlowDrop
<1>9. InFrame(rects, list[1], Drop(S, 1), whole)
  BY <1>1, <1>2, <1>7, <1>8 DEF InFrame
<1> QED
  BY <1>3, <1>6, <1>9

\* and its body ends where the next one begins.
LEMMA FrameBody ==
    ASSUME NEW S \in Seq(Units0), NEW rects \in Nat, NEW enc, enc \in Encodings, NEW whole, InFrame(rects, enc, S, whole),
           RectUnits(enc) <= Len(S)
    PROVE  InFrame(IF enc = "last" THEN 0 ELSE rects - 1, NoHead, Drop(S, RectUnits(enc)), whole)
<1>1. PICK list \in Seq(Encodings) :
          /\ Proper(list) /\ Len(list) = rects /\ list # <<>> /\ enc = list[1]
          /\ Follows(S, Drop(Rects(list), 1)) /\ Flow(S, Len(Rects(list)) - 1, whole)
  BY NoHeadIs DEF InFrame
<1>2. /\ Tail(list) \in Seq(Encodings) /\ Len(Tail(list)) = rects - 1 /\ Proper(Tail(list))
      /\ Len(Rects(list)) >= 1
      /\ enc = "last" => Len(list) = 1 /\ Len(Rects(list)) = 1
      /\ enc # "last" => Len(Rects(list)) >= 2 /\ Rects(Tail(list)) = Drop(Rects(list), 2)
  BY <1>1, RectsFirst
<1>3. Rects(list) \in Seq(Units0) /\ Len(Rects(list)) \in Nat /\ Len(S) \in Nat
  BY RectsTyped
<1>4. CASE enc = "last"
  <2>1. RectUnits(enc) = 0 /\ Len(Rects(list)) - 1 = 0
    BY <1>2, <1>4 DEF RectUnits
  <2>2. Drop(S, 0) = S
    BY <1>3 DEF Drop
  <2>3. Flow(Drop(S, 0), 0, whole) /\ Drop(S, 0) \in Seq(Units0)
    BY <1>1, <2>1, <2>2
  <2>4. InFrame(0, NoHead, Drop(S, 0), whole)
    BY <2>3, FrameEnds
  <2> QED
    BY <1>4, <2>1, <2>4
<1>5. CASE enc # "last"
  <2>1. RectUnits(enc) = 1 /\ 1 <= Len(S)
    BY <1>5 DEF RectUnits
  <2> DEFINE R == Rects(list)
             R1 == Drop(R, 1)
  <2>2. R1 \in Seq(Units0) /\ Len(R1) = Len(R) - 1 /\ \A i \in 1 .. Len(R) - 1 : R1[i] = R[1 + i]
    BY <1>2, <1>3, DropIs
  <2>3. Drop(R1, 1) = Drop(R, 2)
    <3>1. /\ Drop(R1, 1) \in Seq(Units0) /\ Len(Drop(R1, 1)) = (Len(R) - 1) - 1
          /\ \A i \in 1 .. (Len(R) - 1) - 1 : Drop(R1, 1)[i] = R1[1 + i]
      BY SMTT(30), <1>2, <1>3, <1>5, <2>2, DropIs
    <3>2. /\ Drop(R, 2) \in Seq(Units0) /\ Len(Drop(R, 2)) = Len(R) - 2
          /\ \A i \in 1 .. Len(R) - 2 : Drop(R, 2)[i] = R[2 + i]
      BY <1>2, <1>3, <1>5, DropIs
    <3>3. ASSUME NEW i \in 1 .. Len(R) - 2 PROVE Drop(R1, 1)[i] = Drop(R, 2)[i]
      <4>1. i \in 1 .. (Len(R) - 1) - 1 /\ 1 + i \in 1 .. Len(R) - 1 /\ 1 + (1 + i) = 2 + i
        BY <1>3
      <4> QED
        BY <2>2, <3>1, <3>2, <4>1
    <3>4. (Len(R) - 1) - 1 = Len(R) - 2
      BY <1>3
    <3> DEFINE A == Drop(R1, 1)
               B == Drop(R, 2)
    <3> HIDE DEF A, B
    <3>5. A \in Seq(Units0) /\ B \in Seq(Units0) /\ Len(A) = Len(B) /\ \A i \in 1 .. Len(B) : A[i] = B[i]
      BY <3>1, <3>2, <3>3, <3>4 DEF A, B
    <3>6. A = B
      BY <3>5
    <3> QED
      BY <3>6 DEF A, B
  <2>4. Follows(Drop(S, 1), Drop(R1, 1))
    BY <1>1, <1>2, <1>3, <1>5, <2>1, <2>2, FollowsDrop
  <2>5. Flow(Drop(S, 1), (Len(R) - 1) - 1, whole)
    <3>1. Len(R) - 1 \in Nat /\ 1 <= Len(R) - 1
      BY <1>2, <1>3, <1>5
    <3> QED
      BY <1>1, <2>1, <3>1, FlowDrop
  <2>6. Len(Rects(Tail(list))) = (Len(R) - 1) - 1
    <3>1. Len(Drop(R, 2)) = Len(R) - 2
      BY <1>2, <1>3, <1>5, DropIs
    <3> QED
      BY <1>2, <1>3, <1>5, <3>1
  <2> HIDE DEF R, R1
  <2>7. Follows(Drop(S, 1), Rects(Tail(list))) /\ Flow(Drop(S, 1), Len(Rects(Tail(list))), whole)
    BY <1>2, <1>5, <2>3, <2>4, <2>5, <2>6 DEF R
  <2>8. InFrame(rects - 1, NoHead, Drop(S, 1), whole)
    BY <1>2, <2>7 DEF InFrame
  <2> QED
    BY <1>5, <2>1, <2>8
<1> QED
  BY <1>4, <1>5

\* The beginning of an update is one.
LEMMA FrameCut ==
    ASSUME NEW S \in Seq(Units0), NEW T \in Seq(Units0), NEW rects, NEW e, NEW whole,
           InFrame(rects, e, T, whole), Beginning(S, T)
    PROVE  InFrame(rects, e, S, FALSE)
<1>1. PICK list \in Seq(Encodings) :
          /\ Proper(list) /\ Len(list) = rects
          /\ \/ e = NoHead /\ Follows(T, Rects(list)) /\ Flow(T, Len(Rects(list)), whole)
             \/ /\ list # <<>> /\ e = list[1]
                /\ Follows(T, Drop(Rects(list), 1)) /\ Flow(T, Len(Rects(list)) - 1, whole)
  BY DEF InFrame
<1>2. Rects(list) \in Seq(Units0) /\ Len(Rects(list)) \in Nat
  BY RectsTyped
<1>3. CASE e = NoHead /\ Follows(T, Rects(list)) /\ Flow(T, Len(Rects(list)), whole)
  <2>1. Follows(S, Rects(list))
    BY <1>2, <1>3, FollowsBeginning
  <2>2. Flow(S, Len(Rects(list)), FALSE)
    BY <1>2, <1>3, FlowCut
  <2> QED
    BY <1>1, <1>3, <2>1, <2>2 DEF InFrame
<1>4. CASE /\ list # <<>> /\ e = list[1]
           /\ Follows(T, Drop(Rects(list), 1)) /\ Flow(T, Len(Rects(list)) - 1, whole)
  <2>1. Len(Rects(list)) >= 1
    BY <1>1, <1>4, RectsFirst
  <2>2. Drop(Rects(list), 1) \in Seq(Units0) /\ Len(Rects(list)) - 1 \in Nat
    BY <1>2, <2>1, DropIs
  <2>3. Follows(S, Drop(Rects(list), 1))
    BY <1>4, <2>2, FollowsBeginning
  <2>4. Flow(S, Len(Rects(list)) - 1, FALSE)
    BY <1>4, <2>2, FlowCut
  <2> QED
    BY <1>1, <1>4, <2>3, <2>4 DEF InFrame
<1> QED
  BY <1>1, <1>3, <1>4

\* A message that the server adds comes behind the update.
LEMMA FrameGrow ==
    ASSUME NEW S \in Seq(Units0), NEW rects, NEW e, InFrame(rects, e, S, TRUE), NEW m \in Messages
    PROVE  InFrame(rects, e, S \o m, TRUE)
<1>1. PICK list \in Seq(Encodings) :
          /\ Proper(list) /\ Len(list) = rects
          /\ \/ e = NoHead /\ Follows(S, Rects(list)) /\ Flow(S, Len(Rects(list)), TRUE)
             \/ /\ list # <<>> /\ e = list[1]
                /\ Follows(S, Drop(Rects(list), 1)) /\ Flow(S, Len(Rects(list)) - 1, TRUE)
  BY DEF InFrame
<1>2. Rects(list) \in Seq(Units0) /\ Len(Rects(list)) \in Nat /\ m \in Seq(Units0)
  BY RectsTyped, MessageIs
<1>3. CASE e = NoHead /\ Follows(S, Rects(list)) /\ Flow(S, Len(Rects(list)), TRUE)
  <2>1. Flow(S \o m, Len(Rects(list)), TRUE) /\ Len(Rects(list)) <= Len(S)
    BY <1>2, <1>3, FlowGrow
  <2>2. Follows(S \o m, Rects(list))
    BY <1>2, <1>3, <2>1, FollowsConcat
  <2> QED
    BY <1>1, <1>3, <2>1, <2>2 DEF InFrame
<1>4. CASE /\ list # <<>> /\ e = list[1]
           /\ Follows(S, Drop(Rects(list), 1)) /\ Flow(S, Len(Rects(list)) - 1, TRUE)
  <2>1. Len(Rects(list)) >= 1
    BY <1>1, <1>4, RectsFirst
  <2>2. Drop(Rects(list), 1) \in Seq(Units0) /\ Len(Rects(list)) - 1 \in Nat
        /\ Len(Drop(Rects(list), 1)) = Len(Rects(list)) - 1
    BY <1>2, <2>1, DropIs
  <2>3. Flow(S \o m, Len(Rects(list)) - 1, TRUE) /\ Len(Rects(list)) - 1 <= Len(S)
    BY <1>4, <2>2, FlowGrow
  <2>4. Follows(S \o m, Drop(Rects(list), 1))
    BY <1>2, <1>4, <2>2, <2>3, FollowsConcat
  <2> QED
    BY <1>1, <1>4, <2>3, <2>4 DEF InFrame
<1> QED
  BY <1>1, <1>3, <1>4

\* What begins between two messages is one.
LEMMA NextMessage ==
    ASSUME \A s \in Scopes : Conforms(s), NEW S \in Seq(Units0), NEW whole, Flow(S, 0, whole), Len(S) > 0
    PROVE  \/ \E k \in DOMAIN Body :
                /\ S[1] = U(k, 1, <<>>)
                /\ 1 + Body[k] <= Len(S) => Flow(Drop(S, 1 + Body[k]), 0, whole)
           \/ \E list \in Lists :
                /\ S[1] = U("update", 1, <<>>)
                /\ 2 <= Len(S) => S[2] = U("update", 2, list) /\ InFrame(Len(list), NoHead, Drop(S, 2), whole)
<1>1. PICK m \in Messages : Follows(S, m) /\ Flow(S, Len(m), whole)
  BY FlowNext
<1>2. m \in Seq(Units0) /\ Len(m) \in Nat \ {0} /\ Len(S) \in Nat
  BY MessageIs
<1>3. CASE \E k \in DOMAIN Body : m = Units(k)
  <2>1. PICK k \in DOMAIN Body : m = Units(k)
    BY <1>3
  <2>2. Len(m) = 1 + Body[k] /\ 1 + Body[k] \in Nat \ {0} /\ m[1] = U(k, 1, <<>>)
    BY <2>1, UnitsAre
  <2>3. S[1] = U(k, 1, <<>>)
    BY <1>1, <1>2, <2>2 DEF Follows
  <2>4. ASSUME 1 + Body[k] <= Len(S) PROVE Flow(Drop(S, 1 + Body[k]), 0, whole)
    <3>1. Flow(Drop(S, Len(m)), Len(m) - Len(m), whole)
      BY <1>1, <1>2, <2>2, <2>4, FlowDrop
    <3>2. Len(m) - Len(m) = 0
      BY <1>2
    <3> QED
      BY <2>2, <3>1, <3>2
  <2> QED
    BY <2>3, <2>4
<1>4. CASE \E list \in Lists : m = Update(list)
  <2>1. PICK list \in Lists : m = Update(list)
    BY <1>4
  <2>2. /\ Len(m) = 2 + Len(Rects(list)) /\ Rects(list) \in Seq(Units0)
        /\ m[1] = U("update", 1, <<>>) /\ m[2] = U("update", 2, list)
        /\ \A i \in 1 .. Len(Rects(list)) : m[2 + i] = Rects(list)[i]
    BY <2>1, UpdateIs
  <2>3. list \in Seq(Encodings) /\ Proper(list)
    BY ListsTyped DEF Lists, Conforms, Proper
  <2>4. Len(Rects(list)) \in Nat
    BY <2>2
  <2>5. S[1] = U("update", 1, <<>>)
    BY <1>1, <1>2, <2>2 DEF Follows
  <2>6. ASSUME 2 <= Len(S) PROVE S[2] = U("update", 2, list) /\ InFrame(Len(list), NoHead, Drop(S, 2), whole)
    <3>1. S[2] = U("update", 2, list)
      BY <1>1, <1>2, <2>2, <2>4, <2>6 DEF Follows
    <3>2. Flow(Drop(S, 2), Len(m) - 2, whole)
      BY <1>1, <1>2, <2>2, <2>4, <2>6, FlowDrop
    <3>3. Len(m) - 2 = Len(Rects(list))
      BY <2>2, <2>4
    <3>4. /\ Len(Drop(S, 2)) = Len(S) - 2
          /\ \A i \in 1 .. Len(S) - 2 : Drop(S, 2)[i] = S[2 + i]
      BY <2>6, DropIs
    <3>5. Follows(Drop(S, 2), Rects(list))
      <4>1. ASSUME NEW i \in 1 .. Len(Rects(list)), i <= Len(Drop(S, 2)) PROVE Drop(S, 2)[i] = Rects(list)[i]
        <5>1. i \in 1 .. Len(S) - 2 /\ 2 + i \in 1 .. Len(m) /\ 2 + i <= Len(S)
          BY <1>2, <2>2, <2>4, <3>4, <4>1
        <5> QED
          BY <1>1, <2>2, <3>4, <5>1 DEF Follows
      <4> QED
        BY <4>1 DEF Follows
    <3> QED
      BY <2>3, <3>1, <3>2, <3>3, <3>5 DEF InFrame
  <2> QED
    BY <2>5, <2>6
<1> QED
  BY <1>3, <1>4 DEF Messages

-----------------------------------------------------------------------------
(* What the extended clipboard carries.                                    *)

\* What carries no provide carries none when some of it has been read,
LEMMA ProvideDrop ==
    ASSUME NEW S \in Seq(Units0), NoProvide(S), NEW n \in Nat, n <= Len(S)
    PROVE  NoProvide(Drop(S, n))
<1>1. /\ Len(Drop(S, n)) = Len(S) - n /\ Len(S) \in Nat
      /\ \A i \in 1 .. Len(S) - n : Drop(S, n)[i] = S[n + i] /\ n + i \in 1 .. Len(S)
  BY DropIs
<1> QED
  BY <1>1 DEF NoProvide

\* nor does its beginning,
LEMMA ProvideCut ==
    ASSUME NEW S \in Seq(Units0), NEW T \in Seq(Units0), NoProvide(T), Beginning(S, T)
    PROVE  NoProvide(S)
<1>1. Len(S) \in Nat /\ Len(T) \in Nat /\ Len(S) <= Len(T) /\ \A i \in 1 .. Len(S) : S[i] = T[i]
  BY DEF Beginning
<1> QED
  BY <1>1 DEF NoProvide

\* nor does it with a message added that carries none:
LEMMA ProvideGrow ==
    ASSUME NEW S \in Seq(Units0), NoProvide(S), NEW m \in Seq(Units0), NoProvide(m)
    PROVE  NoProvide(S \o m)
<1>1. /\ Len(S \o m) = Len(S) + Len(m) /\ Len(S) \in Nat /\ Len(m) \in Nat
      /\ \A i \in 1 .. Len(S) : (S \o m)[i] = S[i]
      /\ \A i \in 1 .. Len(m) : (S \o m)[Len(S) + i] = m[i]
  BY ConcatIs
<1>2. ASSUME NEW i \in 1 .. Len(S) + Len(m) PROVE (S \o m)[i].k # "provide"
  <2>1. CASE i \in 1 .. Len(S)
    BY <1>1, <2>1 DEF NoProvide
  <2>2. CASE i \notin 1 .. Len(S)
    <3>1. i - Len(S) \in 1 .. Len(m) /\ Len(S) + (i - Len(S)) = i
      BY <1>1, <2>2
    <3> QED
      BY <1>1, <3>1 DEF NoProvide
  <2> QED
    BY <2>1, <2>2
<1> QED
  BY <1>1, <1>2 DEF NoProvide

\* any but a provide itself,
LEMMA UnitsProvide ==
    ASSUME NEW k \in DOMAIN Body, k # "provide"
    PROVE  NoProvide(Units(k))
<1>1. Len(Units(k)) = 1 + Body[k] /\ \A i \in 1 .. 1 + Body[k] : Units(k)[i] = U(k, i, <<>>)
  BY UnitsAre
<1> QED
  BY <1>1 DEF NoProvide, U

\* and an update.
LEMMA UpdateProvide ==
    ASSUME NEW list \in Lists
    PROVE  NoProvide(Update(list))
<1>1. /\ Len(Update(list)) = 2 + Len(Rects(list))
      /\ Update(list)[1] = U("update", 1, <<>>) /\ Update(list)[2] = U("update", 2, list)
      /\ \A i \in 1 .. Len(Rects(list)) : Update(list)[2 + i] = Rects(list)[i]
  BY UpdateIs
<1>2. list \in Seq(Encodings)
  BY ListsTyped
<1>3. /\ Len(Rects(list)) \in Nat
      /\ \A i \in 1 .. Len(Rects(list)) : Rects(list)[i].k = "rect"
  <2>1. \A i \in 1 .. Len(Rects(list)) :
                Rects(list)[i] = U("rect", 1 + ((i + 1) % 2), <<list[(i + 1) \div 2]>>)
    BY <1>2, RectsLong
  <2>2. Rects(list) \in Seq(Units0)
    BY <1>2, RectsLong
  <2>3. \A i, x : U("rect", i, x).k = "rect"
    BY DEF U
  <2>4. Len(Rects(list)) \in Nat
    BY <2>2
  <2> QED
    BY <2>1, <2>3, <2>4
<1>4. ASSUME NEW i \in 1 .. 2 + Len(Rects(list)) PROVE Update(list)[i].k # "provide"
  <2>1. CASE i = 1
    BY <1>1, <2>1 DEF U
  <2>2. CASE i = 2
    BY <1>1, <2>2 DEF U
  <2>3. CASE i > 2
    <3>1. i - 2 \in 1 .. Len(Rects(list)) /\ 2 + (i - 2) = i
      BY <1>3, <2>3
    <3>2. Update(list)[i] = Rects(list)[i - 2]
      BY <1>1, <3>1
    <3> QED
      BY <1>3, <3>1, <3>2
  <2> QED
    BY <2>1, <2>2, <2>3
<1> QED
  BY <1>1, <1>4 DEF NoProvide

-----------------------------------------------------------------------------
(* Being in step.                                                          *)

\* The fields of the properties, as facts of their own.
Toggled(u) == u.toggled

Insync(r) == r.synced

Watches(r) == r.viewOnly

\* What a connected client sends, and what a server then hears.
Polite == {"encodings", "request", "enable", "resize", "fence", "caps", "clip provide", "clip notify", "cut text"}

Requests == Polite \cup {"clip request"}

Heard == Requests \cup Silent

\* What is ahead of a client begins where it reads on.
Stands(r, S, whole) == InFrame(r.rects, r.encoding, S, whole) /\ (Watches(r) => NoProvide(S))

\* What the client has sent, and the server still wants to send for it.
Heeds(r, s, q) ==
    /\ q \in Seq(Heard)
    /\ Watches(r) => "provide" \notin s.wants /\ q \in Seq(Polite \cup Silent)

\* The desktop's description is ahead, and whole messages after it.
Greeted(S, n) == Len(S) > 0 /\ S[1] = U("serverinit", 1, <<>>) /\ Flow(S, n, TRUE) /\ NoProvide(S)

Greeting(r, S, s) ==
    r.init = "ServerInitialisation" /\ (S # <<>> \/ s.stage \in {"shown", "normal"})
        => Greeted(S, IF r.tight THEN 4 ELSE 2)

\* The inductive invariant.
InStep ==
    /\ Insync(rfb)
    /\ rfb.conn = "connecting" => Greeting(rfb, Ahead, srv)
    /\ rfb.conn = "connected" => Stands(rfb, Ahead, TRUE) /\ Heeds(rfb, srv, up)
    /\ ~ Live(rfb) /\ turn \in {"normal", "flushed"} => Stands(rfb, Ahead, FALSE)

\* The parts of the invariant after a step.
LEMMA StepNext ==
    ASSUME Insync(rfb'), rfb'.conn = "connecting" => Greeting(rfb', Ahead', srv'),
           rfb'.conn = "connected" => Stands(rfb', Ahead', TRUE) /\ Heeds(rfb', srv', up'),
           ~ Live(rfb') /\ turn' \in {"normal", "flushed"} => Stands(rfb', Ahead', FALSE)
    PROVE  InStep'
BY DEF InStep

\* What matters of a session.
Marks == {"conn", "init", "tight", "rects", "encoding", "viewOnly", "synced"}

\* Sessions that agree in what matters stand in the same place.
LEMMA SameMarks ==
    ASSUME NEW r, NEW s, \A p \in Marks : s[p] = r[p]
    PROVE  /\ Insync(s) <=> Insync(r)
           /\ s.conn = r.conn /\ (Live(s) <=> Live(r))
           /\ \A S, w : Stands(s, S, w) <=> Stands(r, S, w)
           /\ \A v, q : Heeds(s, v, q) <=> Heeds(r, v, q)
           /\ \A S, v : Greeting(s, S, v) <=> Greeting(r, S, v)
<1>1. s.conn = r.conn /\ s.init = r.init /\ s.tight = r.tight /\ s.rects = r.rects /\ s.encoding = r.encoding
      /\ s.viewOnly = r.viewOnly /\ s.synced = r.synced
  BY DEF Marks
<1>2. Watches(s) <=> Watches(r)
  BY <1>1, Zenon DEF Watches
<1>3. Insync(s) <=> Insync(r)
  BY <1>1, Zenon DEF Insync
<1>4. \A S, w : Stands(s, S, w) <=> Stands(r, S, w)
  BY <1>1, <1>2, Zenon DEF Stands
<1>5. \A v, q : Heeds(s, v, q) <=> Heeds(r, v, q)
  BY <1>2, Zenon DEF Heeds
<1>6. \A S, v : Greeting(s, S, v) <=> Greeting(r, S, v)
  BY <1>1, Zenon DEF Greeting
<1>7. Live(s) <=> Live(r)
  BY <1>1, Zenon DEF Live
<1> QED
  BY <1>1, <1>3, <1>4, <1>5, <1>6, <1>7

\* A step that changes nothing of it.
LEMMA StepSame ==
    ASSUME InStep, Ahead' = Ahead, up' = up, srv' = srv, \A p \in Marks : rfb'[p] = rfb[p],
           ~ Live(rfb) /\ turn' \in {"normal", "flushed"} => turn \in {"normal", "flushed"}
    PROVE  InStep'
<1> DEFINE r == rfb
           s == rfb'
<1>1. /\ Insync(s) <=> Insync(r)
      /\ s.conn = r.conn /\ (Live(s) <=> Live(r))
      /\ \A S, w : Stands(s, S, w) <=> Stands(r, S, w)
      /\ \A v, q : Heeds(s, v, q) <=> Heeds(r, v, q)
      /\ \A S, v : Greeting(s, S, v) <=> Greeting(r, S, v)
  BY SameMarks
<1>2. Insync(rfb')
  BY <1>1 DEF InStep
<1>3. rfb'.conn = "connecting" => Greeting(rfb', Ahead', srv')
  BY <1>1 DEF InStep
<1>4. rfb'.conn = "connected" => Stands(rfb', Ahead', TRUE) /\ Heeds(rfb', srv', up')
  BY <1>1 DEF InStep
<1>5. ~ Live(rfb') /\ turn' \in {"normal", "flushed"} => Stands(rfb', Ahead', FALSE)
  BY <1>1 DEF InStep
<1> QED
  BY <1>2, <1>3, <1>4, <1>5, StepNext

\* A step after which the session is over, and no handler reads.
LEMMA StepDown ==
    ASSUME ~ Live(rfb'), Insync(rfb'), turn' \notin {"normal", "flushed"}
    PROVE  InStep'
<1>1. rfb'.conn # "connecting" /\ rfb'.conn # "connected"
  BY DEF Live
<1> QED
  BY <1>1, StepNext

\* Being in sync is a matter of one field.
LEMMA InsyncSame ==
    ASSUME NEW r, NEW s, Insync(r), s.synced = r.synced
    PROVE  Insync(s)
BY Zenon DEF Insync

\* What is sent is added to what the server has still to hear.
LEMMA HeardMore ==
    ASSUME NEW X, NEW q \in Seq(X), NEW m \in Seq(X), Send(m), up = q
    PROVE  up' \in Seq(X)
<1>1. q \o m \in Seq(X)
  BY ConcatIs
<1> QED
  BY <1>1 DEF Send

\* A sequence of a smaller set is one of a larger set.
LEMMA SequencesOf ==
    ASSUME NEW X, NEW Y, X \subseteq Y, NEW q \in Seq(X)
    PROVE  q \in Seq(Y)
OBVIOUS

\* What a client sends is heeded.
LEMMA SendHeeds ==
    ASSUME NEW r, NEW s, Heeds(r, srv, up), Watches(s) => Watches(r), srv' = srv,
           NEW m, m \in Seq(Requests), Watches(r) => m \in Seq(Polite), Send(m)
    PROVE  Heeds(s, srv', up')
<1>1. up' \in Seq(Heard)
  <2>1. m \in Seq(Heard)
    BY SequencesOf DEF Heard
  <2> QED
    BY <2>1, HeardMore DEF Heeds
<1>2. ASSUME Watches(s) PROVE "provide" \notin srv.wants /\ up' \in Seq(Polite \cup Silent)
  <2>1. "provide" \notin srv.wants /\ up \in Seq(Polite \cup Silent) /\ m \in Seq(Polite)
    BY <1>2 DEF Heeds
  <2>2. m \in Seq(Polite \cup Silent)
    BY <2>1, SequencesOf
  <2> QED
    BY <2>1, <2>2, HeardMore
<1> QED
  BY <1>1, <1>2 DEF Heeds

\* A client that reads stands where the rest begins.
LEMMA StandsDrop ==
    ASSUME NEW r, NEW s, NEW S \in Seq(Units0), NEW w, Stands(r, S, w), NEW n \in Nat, n <= Len(S),
           Watches(s) => Watches(r), InFrame(s.rects, s.encoding, Drop(S, n), w)
    PROVE  Stands(s, Drop(S, n), w)
BY ProvideDrop DEF Stands

-----------------------------------------------------------------------------
(* A handler reads.                                                        *)

\* What a handler knows: where the client stands, and that what it looks at is
\* what is ahead.
LEMMA ReadingIs ==
    ASSUME Base, Hand, InStep, turn \in {"normal", "flushed"}
    PROVE  /\ Stands(rfb, Ahead, rfb.conn = "connected")
           /\ rfb.conn = "connected" => Heeds(rfb, srv, up)
           /\ Ahead \in Seq(Units0) /\ Len(Ahead) \in Nat /\ RQlen(buf) \in Nat /\ RQlen(buf) <= Len(Ahead)
           /\ \A i \in 1 .. RQlen(buf) : Ahead[i] = Peek(i)
           /\ rfb.conn # "connecting" /\ (Live(rfb) <=> rfb.conn = "connected")
           /\ Insync(rfb) /\ Parts \subseteq DOMAIN rfb /\ rfb.rects \in Nat
<1>1. rfb.conn # "connecting"
  BY Reading
<1>2. Live(rfb) <=> rfb.conn = "connected"
  BY <1>1 DEF Live
<1>3. Stands(rfb, Ahead, rfb.conn = "connected")
  <2>1. CASE rfb.conn = "connected"
    <3>1. (rfb.conn = "connected") = TRUE
      BY <2>1
    <3> QED
      BY <2>1, <3>1 DEF InStep
  <2>2. CASE rfb.conn # "connected"
    <3>1. (rfb.conn = "connected") = FALSE
      BY <2>2
    <3> QED
      BY <1>2, <2>2, <3>1 DEF InStep
  <2> QED
    BY <2>1, <2>2
<1>4. Sound(buf) /\ wire \in Seq(Units0) /\ Parts \subseteq DOMAIN rfb /\ rfb.rects \in Nat
  BY BaseIs
<1>5. /\ Ahead \in Seq(Units0) /\ Len(Ahead) \in Nat /\ RQlen(buf) \in Nat /\ RQlen(buf) <= Len(Ahead)
      /\ \A i \in 1 .. RQlen(buf) : Ahead[i] = Peek(i)
  BY <1>4, AheadIs
<1> QED
  BY <1>1, <1>2, <1>3, <1>4, <1>5 DEF InStep

\* It reads up to where the client then stands.
LEMMA ReadsStep ==
    ASSUME Base, Hand, InStep, turn \in {"normal", "flushed"}, NEW n \in Nat, Reads(n), wire' = wire, srv' = srv,
           rfb'.conn = rfb.conn, rfb'.viewOnly = rfb.viewOnly, Insync(rfb'),
           InFrame(rfb'.rects, rfb'.encoding, Drop(Ahead, n), rfb.conn = "connected"),
           NEW m, Send(m), m \in Seq(Requests), Watches(rfb) => m \in Seq(Polite)
    PROVE  InStep'
<1> DEFINE w == rfb.conn = "connected"
<1>1. /\ Stands(rfb, Ahead, w) /\ (w => Heeds(rfb, srv, up))
      /\ Ahead \in Seq(Units0) /\ Len(Ahead) \in Nat /\ RQlen(buf) \in Nat /\ RQlen(buf) <= Len(Ahead)
      /\ rfb.conn # "connecting" /\ (Live(rfb) <=> w)
  BY ReadingIs
<1>2. Sound(buf) /\ wire \in Seq(Units0)
  BY BaseIs
<1>3. Live(rfb') <=> Live(rfb)
  BY DEF Live
<1>4. Ahead' = Drop(Ahead, n) /\ n <= RQlen(buf)
  BY <1>2, <1>3, ReadsDrops
<1>5. n <= Len(Ahead)
  BY <1>1, <1>4
<1>6. Watches(rfb') <=> Watches(rfb)
  BY Zenon DEF Watches
<1>7. Stands(rfb', Ahead', w)
  <2> DEFINE r == rfb
             s == rfb'
  <2>1. Stands(s, Drop(Ahead, n), w)
    BY <1>1, <1>5, <1>6, StandsDrop
  <2> QED
    BY <1>4, <2>1
<1>8. w => Heeds(rfb', srv', up')
  BY <1>1, <1>6, SendHeeds
<1>9. rfb'.conn = "connected" => Stands(rfb', Ahead', TRUE) /\ Heeds(rfb', srv', up')
  <2>1. ASSUME rfb.conn = "connected" PROVE Stands(rfb', Ahead', TRUE) /\ Heeds(rfb', srv', up')
    <3>1. w = TRUE
      BY <2>1
    <3> QED
      BY <1>7, <1>8, <3>1
  <2> QED
    BY <2>1
<1>10. ~ Live(rfb') => Stands(rfb', Ahead', FALSE)
  <2>1. ASSUME ~ Live(rfb') PROVE Stands(rfb', Ahead', FALSE)
    <3>1. w = FALSE
      BY <1>1, <1>3, <2>1
    <3> QED
      BY <1>7, <3>1
  <2> QED
    BY <2>1
<1> QED
  BY <1>1, <1>9, <1>10, StepNext

-----------------------------------------------------------------------------
(* The handshake.                                                          *)

\* A session that has not drawn is between messages.
LEMMA FreshIs ==
    ASSUME Fresh
    PROVE  rfb.rects = 0 /\ rfb.encoding = NoHead /\ turn \notin {"normal", "flushed"}
BY Zenon DEF Fresh, NoHead

\* A session that begins, or is still connecting, is in sync.
LEMMA FreshStep ==
    ASSUME Fresh'
    PROVE  Insync(rfb') /\ turn' \notin {"normal", "flushed"}
BY Zenon DEF Fresh, Insync

\* A handler of the handshake runs in one of its turns.
LEMMA HandshakeRuns ==
    ASSUME Base, Hand, Handshake
    PROVE  Runs
BY DEF Runs, Handshake, InitTurn, Scheme, NegotiateProtocolVersion, NegotiateSecurity, NoAuth,
     NegotiateStdVNCAuth, NegotiatePlainAuth, NegotiateXvpAuth, NegotiateVeNCryptAuth, NegotiateTightAuth,
     NegotiateARDAuth, HandleSecurityResult, HandleSecurityReason, ClientInitialisation, NegotiateServerInit

\* A session that has still to read before the desktop's description.
Early(r) == r.init # "ServerInitialisation" /\ r.conn = rfb.conn /\ Parts \subseteq DOMAIN r

\* It is early still when another field is written,
LEMMA EarlyWritten ==
    ASSUME NEW r, Early(r), NEW f \in Parts \ {"conn", "init"}, NEW v
    PROVE  Early([r EXCEPT ![f] = v])
<1>1. "init" \in Parts /\ "conn" \in Parts /\ f # "init" /\ f # "conn"
  BY DEF Parts
<1> QED
  BY <1>1, Written DEF Early

\* or the state becomes any but the last.
LEMMA EarlyTurns ==
    ASSUME NEW r, Early(r), NEW i, i # "ServerInitialisation"
    PROVE  Early([r EXCEPT !.init = i])
<1>1. "init" \in Parts /\ "conn" \in Parts /\ "init" # "conn"
  BY DEF Parts
<1> QED
  BY <1>1, Written DEF Early

\* The states before the last two do not lead past the next to last.
LEMMA EarlySteps ==
    ASSUME Runs, Handshake, rfb.init \notin {"ClientInitialisation", "ServerInitialisation"}
    PROVE  rfb'.init # "ServerInitialisation" /\ rfb'.conn \in {rfb.conn, "disconnected"}
<1>1. Early(rfb)
  BY BaseIs DEF Runs, Early
<1>2. ASSUME NEW k PROVE Early(At(k))
  BY <1>1, AtIs DEF Early, Parts
<1>3. ASSUME Early(rfb') PROVE rfb'.init # "ServerInitialisation" /\ rfb'.conn \in {rfb.conn, "disconnected"}
  BY <1>3 DEF Early
<1>4. ASSUME NEW n, NEW m, NEW g, WaitsFor(n, m, g) PROVE Early(rfb')
  BY <1>1, <1>4 DEF WaitsFor, Early
<1>5. ASSUME AskCredentials PROVE Early(rfb')
  BY <1>1, <1>5 DEF AskCredentials, Early
<1>6. ASSUME NEW k, Becomes(Failed([Conn EXCEPT !.rfb = At(k)])), rfb.init # "Authentication"
      PROVE  rfb'.init # "ServerInitialisation" /\ rfb'.conn \in {rfb.conn, "disconnected"}
  <2> DEFINE r == At(k)
  <2>1. [Conn EXCEPT !.rfb = r] = [ui |-> ui, rfb |-> r, ws |-> ws]
    BY DEF Conn
  <2>2. Early(r)
    BY <1>2
  <2> HIDE DEF r
  <2>3. Becomes(Failed([ui |-> ui, rfb |-> r, ws |-> ws])) /\ Base /\ Linked
    BY <1>6, <2>1 DEF r, Runs, Hand
  <2>4. rfb'.conn = "disconnected" /\ rfb'.init = r.init
    <3>1. "init" \in Parts \ {"conn", "timer"}
      BY DEF Parts
    <3> QED
      BY <2>2, <2>3, <3>1, FailsDown DEF Early
  <2> QED
    BY <2>2, <2>4 DEF Early
<1>7. CASE NegotiateProtocolVersion
  <2>1. ASSUME rfb' = [At("version") EXCEPT !.init = "Security"] PROVE Early(rfb')
    BY <1>2, <2>1, EarlyWritten, EarlyTurns DEF Parts
  <2> QED
    BY <1>3, <1>4, <1>7, <2>1 DEF NegotiateProtocolVersion
<1>8. CASE NegotiateSecurity
  <2>1. ASSUME rfb' = [At("types") EXCEPT !.init = "SecurityReason"] PROVE Early(rfb')
    BY <1>2, <2>1, EarlyWritten, EarlyTurns DEF Parts
  <2>2. ASSUME NEW s, rfb' = [At("types") EXCEPT !.scheme = s, !.init = "Authentication"] PROVE Early(rfb')
    <3> DEFINE r == [At("types") EXCEPT !.scheme = s]
    <3>1. Early(r)
      BY <1>2, EarlyWritten, EarlyTurns DEF Parts
    <3>2. rfb' = [r EXCEPT !.init = "Authentication"]
      BY <2>2
    <3> HIDE DEF r
    <3> QED
      BY <3>1, <3>2, EarlyWritten, EarlyTurns DEF Parts
  <2>3. rfb.init # "Authentication"
    BY <1>8 DEF NegotiateSecurity, InitTurn
  <2> QED
    BY <1>3, <1>4, <1>6, <1>8, <2>1, <2>2, <2>3 DEF NegotiateSecurity
<1>9. ASSUME NEW r, Early(r), rfb' = [r EXCEPT !.init = "SecurityResult"] PROVE Early(rfb')
  BY <1>9, EarlyWritten, EarlyTurns DEF Parts
<1>10. CASE NoAuth
  BY <1>1, <1>3, <1>9, <1>10 DEF NoAuth, Authenticated
<1>11. CASE NegotiateStdVNCAuth
  BY <1>2, <1>3, <1>4, <1>5, <1>9, <1>11 DEF NegotiateStdVNCAuth, Authenticated
<1>12. CASE NegotiatePlainAuth
  BY <1>1, <1>3, <1>5, <1>9, <1>12 DEF NegotiatePlainAuth, Authenticated
<1>13. CASE NegotiateXvpAuth
  <2>1. ASSUME rfb' = [rfb EXCEPT !.scheme = "vnc"] PROVE Early(rfb')
    BY <1>1, <2>1, EarlyWritten, EarlyTurns DEF Parts
  <2> QED
    BY <1>3, <1>5, <1>13, <2>1 DEF NegotiateXvpAuth
<1>14. CASE NegotiateVeNCryptAuth
  <2> DEFINE r == At(VeNCryptUnit[rfb.vencrypt + 1])
  <2>1. WaitsFor(0, 1, 0) \/ rfb' = [r EXCEPT !.vencrypt = @ + 1] \/ rfb' = [r EXCEPT !.scheme = "plain"]
    BY <1>14 DEF NegotiateVeNCryptAuth
  <2>2. Early(r)
    BY <1>2
  <2> HIDE DEF r
  <2>3. Early([r EXCEPT !.vencrypt = @ + 1]) /\ Early([r EXCEPT !.scheme = "plain"])
    BY <2>2, EarlyWritten, EarlyTurns DEF Parts
  <2> QED
    BY <1>3, <1>4, <2>1, <2>3
<1>15. CASE NegotiateTightAuth
  <2>1. Early([At("subauths") EXCEPT !.scheme = "vnc"]) /\ Early([At("tunnels") EXCEPT !.tight = TRUE])
    BY <1>2, EarlyWritten, EarlyTurns DEF Parts
  <2> QED
    BY <1>3, <1>4, <1>15, <2>1 DEF NegotiateTightAuth
<1>16. CASE NegotiateARDAuth
  <2>1. Early([rfb EXCEPT !.ard = "idle"]) /\ Early([At("dh") EXCEPT !.ard = "computing"])
    BY <1>1, <1>2, EarlyWritten, EarlyTurns DEF Parts
  <2> QED
    BY <1>3, <1>4, <1>5, <1>9, <1>16, <2>1 DEF NegotiateARDAuth, Authenticated
<1>17. CASE HandleSecurityResult
  <2>1. ASSUME NEW i, i # "ServerInitialisation", rfb' = [At("result") EXCEPT !.init = i] PROVE Early(rfb')
    BY <1>2, <2>1, EarlyWritten, EarlyTurns DEF Parts
  <2>2. WaitsFor(0, 1, 0) \/ \E i : i # "ServerInitialisation" /\ rfb' = [At("result") EXCEPT !.init = i]
    BY <1>17 DEF HandleSecurityResult
  <2> QED
    BY <1>3, <1>4, <2>1, <2>2
<1>18. CASE HandleSecurityReason
  <2>1. rfb.init # "Authentication"
    BY <1>18 DEF HandleSecurityReason, InitTurn
  <2> QED
    BY <1>3, <1>4, <1>6, <1>18, <2>1 DEF HandleSecurityReason
<1>19. CASE ClientInitialisation \/ NegotiateServerInit
  BY <1>19 DEF ClientInitialisation, NegotiateServerInit, InitTurn
<1> QED
  BY <1>7, <1>8, <1>10, <1>11, <1>12, <1>13, <1>14, <1>15, <1>16, <1>17, <1>18, <1>19 DEF Handshake

\* Before the client's initialisation nothing is promised of the stream.
LEMMA EarlyStep ==
    ASSUME Runs, Hand', Handshake, rfb.init \notin {"ClientInitialisation", "ServerInitialisation"}
    PROVE  InStep'
<1>1. rfb'.init # "ServerInitialisation" /\ rfb'.conn \in {rfb.conn, "disconnected"} /\ rfb.conn # "connected"
  BY EarlySteps, Turned
<1>2. rfb'.conn # "connected"
  BY <1>1
<1>3. Fresh'
  <2>1. ~ Late'
    BY <1>1 DEF Late
  <2> QED
    BY <1>2, <2>1 DEF Hand, Live
<1>4. Insync(rfb') /\ turn' \notin {"normal", "flushed"}
  BY <1>3, FreshStep
<1>5. Greeting(rfb', Ahead', srv')
  BY <1>1, Zenon DEF Greeting
<1> QED
  BY <1>2, <1>4, <1>5, StepNext

\* The client's initialisation is asked for the description: nothing is ahead yet.
LEMMA ClientInitStep ==
    ASSUME Runs, InStep, ClientInitialisation
    PROVE  InStep'
<1>0. /\ rfb.init = "ClientInitialisation" /\ ~ Asking(rfb) /\ rfb' = [rfb EXCEPT !.init = "ServerInitialisation"]
      /\ GoesOn /\ buf' = buf /\ wire' = wire /\ srv' = srv
  BY DEF ClientInitialisation, InitTurn, Asking
<1>1. turn = "init" /\ rfb.conn = "connecting" /\ Talk /\ Fresh /\ Parts \subseteq DOMAIN rfb
  BY <1>0, Settled
<1>2. \A p \in Parts \ {"init"} : rfb'[p] = rfb[p]
  BY <1>0, <1>1 DEF Parts
<1>3. rfb'.conn = "connecting" /\ rfb'.synced = rfb.synced
  BY <1>1, <1>2 DEF Parts
<1>4. Ahead' = Ahead
  BY <1>0, <1>1, <1>3, HandPlain DEF Live
<1>5. Ahead = <<>> /\ srv.stage \notin {"shown", "normal"}
  BY <1>0, <1>1 DEF Talk, Quiet, Says, Waiting
<1>6. Greeting(rfb', Ahead', srv')
  BY <1>0, <1>4, <1>5, Zenon DEF Greeting
<1>7. Insync(rfb')
  BY <1>3, InsyncSame DEF InStep
<1>8. turn' \notin {"normal", "flushed"}
  BY <1>0, <1>1 DEF GoesOn
<1>9. rfb'.conn # "connected"
  BY <1>3
<1> QED
  BY <1>6, <1>7, <1>8, <1>9, StepNext

\* The desktop's description has been read: what follows is whole messages.
LEMMA ServerInitStep ==
    ASSUME Runs, InStep, NegotiateServerInit
    PROVE  InStep'
<1>0. rfb.init = "ServerInitialisation" /\ ~ Asking(rfb)
  BY DEF NegotiateServerInit, InitTurn, Asking
<1>1. /\ turn = "init" /\ rfb.conn = "connecting" /\ ws.ready = "open" /\ Live(rfb) /\ Fresh /\ Parts \subseteq DOMAIN rfb
  BY <1>0, Settled
<1>2. Sound(buf) /\ ui \in Pages
  BY BaseIs DEF Runs
<1>3. ASSUME NEW read \in 0 .. ServerInitUnits - 1, WaitsFor(read, 1, read) PROVE InStep'
  <2>1. read \in Nat
    BY DEF ServerInitUnits
  <2>2. /\ buf' = Goback(Shift(buf, read), read) /\ rfb' = rfb /\ wire' = wire /\ up' = up /\ srv' = srv
        /\ turn' = "end"
    BY <1>1, <1>3 DEF WaitsFor, Ends
  <2>3. buf' = buf
    BY <1>2, <2>1, <2>2, GivenBack
  <2>4. Ahead' = Ahead
    BY <2>2, <2>3 DEF Ahead
  <2> QED
    BY <2>2, <2>4, StepSame
<1>4. CASE /\ Reads(ServerInitUnits) /\ Ends /\ Becomes(ToConnected([Conn EXCEPT !.rfb = At("serverinit")]))
           /\ Send(<<"encodings", "request">>) /\ wire' = wire /\ srv' = srv
  <2> DEFINE n == ServerInitUnits
             r == At("serverinit")
  <2>0. n = IF rfb.tight THEN 4 ELSE 2
    BY DEF ServerInitUnits
  <2>1. n \in Nat \ {0} /\ n <= n
    BY DEF ServerInitUnits
  <2> HIDE DEF n
  <2>2. Parts \subseteq DOMAIN r /\ r.conn = "connecting" /\ r.rects = rfb.rects /\ r.encoding = rfb.encoding
        /\ r.viewOnly = rfb.viewOnly
    BY <1>1, AtIs DEF Parts
  <2>3. Becomes(ToConnected([ui |-> ui, rfb |-> r, ws |-> ws]))
    BY <1>4 DEF Conn
  <2>4. rfb'.conn = "connected" /\ rfb'.rects = r.rects /\ rfb'.encoding = r.encoding /\ rfb'.viewOnly = r.viewOnly
        /\ rfb'.synced = r.synced
    <3> HIDE DEF r
    <3> QED
      BY ZenonT(60), <1>2, <2>2, <2>3, ConnectedIs DEF Parts
  <2>5. Live(rfb') <=> Live(rfb)
    BY <1>1, <2>4 DEF Live
  <2>6. Reads(n)
    BY <1>4 DEF n
  <2>7. /\ Ahead' = Drop(Ahead, n) /\ n <= Len(Ahead) /\ Peek(1) = Ahead[1] /\ Ahead # <<>> /\ Ahead \in Seq(Units0)
        /\ Quiet /\ srv.wants = {}
    BY <1>1, <1>4, <2>1, <2>5, <2>6, HandReads
  <2>8. Greeted(Ahead, n)
    <3>1. Greeting(rfb, Ahead, srv)
      BY <1>1 DEF InStep
    <3> QED
      BY <1>0, <2>0, <2>7, <3>1, Zenon DEF Greeting
  <2>9. Insync(rfb')
    <3>1. Peek(1) = U("serverinit", 1, <<>>)
      BY <2>7, <2>8 DEF Greeted
    <3>2. r.synced
      BY <1>1, <3>1, Begins
    <3> QED
      BY <2>4, <3>2, Zenon DEF Insync
  <2>10. InFrame(rfb'.rects, rfb'.encoding, Ahead', TRUE)
    <3>0. Flow(Ahead, n, TRUE) /\ n \in Nat /\ n <= n /\ n <= Len(Ahead) /\ Ahead \in Seq(Units0)
      BY <2>1, <2>7, <2>8 DEF Greeted
    <3>1. Flow(Drop(Ahead, n), n - n, TRUE)
      BY <3>0, FlowDrop
    <3>2. n - n = 0
      BY <2>1
    <3>3. Drop(Ahead, n) \in Seq(Units0)
      BY <2>1, <2>7, UnitsDrop
    <3>4. InFrame(0, NoHead, Drop(Ahead, n), TRUE)
      BY <3>1, <3>2, <3>3, FrameEnds
    <3>5. rfb'.rects = 0 /\ rfb'.encoding = NoHead
      BY <1>1, <2>2, <2>4, FreshIs, Zenon
    <3> QED
      BY <2>7, <3>4, <3>5
  <2>11. NoProvide(Ahead')
    BY <2>1, <2>7, <2>8, ProvideDrop DEF Greeted
  <2>12. Heeds(rfb', srv', up')
    <3>1. up \in Seq(Silent)
      BY <2>7 DEF Quiet
    <3> DEFINE m == <<"encodings", "request">>
    <3>2. m \in Seq(Polite)
      BY DEF Polite
    <3> HIDE DEF m
    <3>3. up \in Seq(Polite \cup Silent) /\ m \in Seq(Polite \cup Silent)
      BY <3>1, <3>2, SequencesOf
    <3>4. Send(m)
      BY <1>4 DEF m
    <3>5. up' \in Seq(Polite \cup Silent)
      BY <3>3, <3>4, HeardMore
    <3>6. up' \in Seq(Heard)
      BY <3>5, SequencesOf DEF Heard, Requests
    <3>7. "provide" \notin srv'.wants
      BY <1>4, <2>7
    <3> QED
      BY <3>5, <3>6, <3>7 DEF Heeds
  <2>13. rfb'.conn # "connecting" /\ Live(rfb')
    BY <1>1, <2>4, <2>5
  <2> QED
    BY <2>9, <2>10, <2>11, <2>12, <2>13, StepNext DEF Stands
<1> QED
  BY <1>3, <1>4 DEF NegotiateServerInit

\* The handshake keeps the client in step.
LEMMA HandshakeStep ==
    ASSUME Base, Hand, Hand', InStep, Handshake
    PROVE  InStep'
<1>1. Runs
  BY HandshakeRuns
<1>2. CASE rfb.init \notin {"ClientInitialisation", "ServerInitialisation"}
  BY <1>1, <1>2, EarlyStep
<1>3. CASE rfb.init \in {"ClientInitialisation", "ServerInitialisation"}
  <2>1. ClientInitialisation \/ NegotiateServerInit
    BY <1>3 DEF Handshake, InitTurn, Scheme, NegotiateProtocolVersion, NegotiateSecurity, NoAuth,
     NegotiateStdVNCAuth, NegotiatePlainAuth, NegotiateXvpAuth, NegotiateVeNCryptAuth, NegotiateTightAuth,
     NegotiateARDAuth, HandleSecurityResult, HandleSecurityReason
  <2> QED
    BY <1>1, <2>1, ClientInitStep, ServerInitStep
<1> QED
  BY <1>2, <1>3

-----------------------------------------------------------------------------
(* The messages of a connected desktop.                                    *)

\* A handler that reads nothing keeps the client in step.
LEMMA LookingStep ==
    ASSUME InStep, rfb' = rfb, buf' = buf, wire' = wire, up' = up, srv' = srv, turn \in {"normal", "flushed"}
    PROVE  InStep'
<1>1. Ahead' = Ahead
  BY DEF Ahead
<1> QED
  BY <1>1, StepSame

\* Between two messages a message begins, and nothing else.
LEMMA MessageBegins ==
    ASSUME \A s \in Scopes : Conforms(s), Base, Hand, InStep, NormalTurn, rfb.rects = 0
    PROVE  /\ rfb.encoding = NoHead /\ Peek(1) = Ahead[1] /\ 1 \in 1 .. RQlen(buf)
           /\ \/ \E k \in DOMAIN Body :
                   /\ Peek(1) = U(k, 1, <<>>)
                   /\ 1 + Body[k] <= RQlen(buf) =>
                        Flow(Drop(Ahead, 1 + Body[k]), 0, rfb.conn = "connected")
              \/ \E list \in Lists :
                   /\ Peek(1) = U("update", 1, <<>>)
                   /\ 2 <= RQlen(buf) =>
                        /\ Peek(2) = U("update", 2, list)
                        /\ InFrame(Len(list), NoHead, Drop(Ahead, 2), rfb.conn = "connected")
<1> DEFINE w == rfb.conn = "connected"
<1>1. turn \in {"normal", "flushed"} /\ RQlen(buf) > 0
  BY DEF NormalTurn
<1>2. /\ Stands(rfb, Ahead, w)
      /\ Ahead \in Seq(Units0) /\ Len(Ahead) \in Nat /\ RQlen(buf) \in Nat /\ RQlen(buf) <= Len(Ahead)
      /\ \A i \in 1 .. RQlen(buf) : Ahead[i] = Peek(i)
  BY <1>1, ReadingIs
<1> HIDE DEF w
<1>3. rfb.encoding = NoHead /\ Flow(Ahead, 0, w)
  BY <1>2, FrameEnded DEF Stands
<1>4. Len(Ahead) > 0 /\ 1 \in 1 .. RQlen(buf)
  BY <1>1, <1>2
<1>5. Peek(1) = Ahead[1]
  BY <1>2, <1>4
<1>6. \/ \E k \in DOMAIN Body :
           /\ Ahead[1] = U(k, 1, <<>>)
           /\ 1 + Body[k] <= Len(Ahead) => Flow(Drop(Ahead, 1 + Body[k]), 0, w)
      \/ \E list \in Lists :
           /\ Ahead[1] = U("update", 1, <<>>)
           /\ 2 <= Len(Ahead) => Ahead[2] = U("update", 2, list) /\ InFrame(Len(list), NoHead, Drop(Ahead, 2), w)
  BY <1>2, <1>3, <1>4, NextMessage
<1>7. ASSUME NEW k \in DOMAIN Body, 1 + Body[k] <= RQlen(buf) PROVE 1 + Body[k] <= Len(Ahead)
  BY <1>2, <1>7, BodyIs
<1>8. ASSUME 2 <= RQlen(buf) PROVE 2 <= Len(Ahead) /\ Peek(2) = Ahead[2]
  BY <1>2, <1>8
<1> QED
  BY <1>3, <1>4, <1>5, <1>6, <1>7, <1>8 DEF w

\* The fields of a unit.
LEMMA UnitFields ==
    ASSUME NEW k, NEW i, NEW x
    PROVE  U(k, i, x).k = k /\ U(k, i, x).i = i /\ U(k, i, x).x = x
BY DEF U

\* A message that is read to its end.
LEMMA HandledStep ==
    ASSUME \A s \in Scopes : Conforms(s), Base, Hand, InStep, NEW k \in DOMAIN Body, Message(k),
           NEW r, NEW m, Handled(k, 1 + Body[k], r, m),
           \A p \in Marks : r[p] = rfb[p],
           m \in Seq(Requests), Watches(rfb) => m \in Seq(Polite)
    PROVE  InStep'
<1>1. /\ NormalTurn /\ turn \in {"normal", "flushed"} /\ rfb.rects = 0 /\ Peek(1).k = k
      /\ Reads(1 + Body[k]) /\ rfb' = r /\ Send(m) /\ wire' = wire /\ srv' = srv
  BY DEF Message, NormalTurn, Handled
<1>2. 1 + Body[k] \in Nat /\ 1 + Body[k] <= RQlen(buf)
  <2>1. Body[k] \in Nat
    BY BodyIs
  <2> QED
    BY <1>1, <2>1 DEF Reads
<1>3. rfb.encoding = NoHead /\ Flow(Drop(Ahead, 1 + Body[k]), 0, rfb.conn = "connected")
  <2>1. k # "update"
    BY DEF Body
  <2> QED
    BY <1>1, <1>2, <2>1, MessageBegins, UnitFields
<1>4. /\ rfb'.conn = rfb.conn /\ rfb'.viewOnly = rfb.viewOnly /\ rfb'.synced = rfb.synced
      /\ rfb'.rects = rfb.rects /\ rfb'.encoding = rfb.encoding
  BY <1>1 DEF Marks
<1>5. Insync(rfb')
  BY <1>4, InsyncSame DEF InStep
<1>6. InFrame(rfb'.rects, rfb'.encoding, Drop(Ahead, 1 + Body[k]), rfb.conn = "connected")
  <2>1. Drop(Ahead, 1 + Body[k]) \in Seq(Units0)
    <3>1. Ahead \in Seq(Units0) /\ Len(Ahead) \in Nat /\ RQlen(buf) \in Nat /\ RQlen(buf) <= Len(Ahead)
      BY <1>1, ReadingIs
    <3>2. 1 + Body[k] <= Len(Ahead)
      BY <1>2, <3>1
    <3> QED
      BY <1>2, <3>1, <3>2, UnitsDrop
  <2> DEFINE w == rfb.conn = "connected"
  <2> HIDE DEF w
  <2>2. InFrame(0, NoHead, Drop(Ahead, 1 + Body[k]), w)
    BY <1>3, <2>1, FrameEnds DEF w
  <2> QED
    BY <1>1, <1>3, <1>4, <2>2 DEF w
<1> QED
  BY <1>1, <1>2, <1>4, <1>5, <1>6, ReadsStep

\* One message of those that are sent, as a sequence.
LEMMA PolitelySent ==
    /\ <<>> \in Seq(Polite) /\ <<>> \in Seq(Requests)
    /\ \A m \in Requests : <<m>> \in Seq(Requests)
    /\ \A m \in Polite : <<m>> \in Seq(Polite) /\ <<m>> \in Seq(Requests)
<1>1. Polite \subseteq Requests
  BY DEF Requests
<1> QED
  BY <1>1

\* The messages and how many units each has.
LEMMA BodiesAre ==
    /\ "bell" \in DOMAIN Body /\ Body["bell"] = 0 /\ 1 = 1 + Body["bell"]
    /\ "xvp" \in DOMAIN Body /\ Body["xvp"] = 1 /\ 2 = 1 + Body["xvp"]
    /\ "fence" \in DOMAIN Body /\ Body["fence"] = 2 /\ 3 = 1 + Body["fence"]
    /\ "endcu" \in DOMAIN Body /\ Body["endcu"] = 0 /\ 1 = 1 + Body["endcu"]
    /\ "cut" \in DOMAIN Body /\ Body["cut"] = 2 /\ 3 = 1 + Body["cut"]
    /\ "caps" \in DOMAIN Body /\ Body["caps"] = 3 /\ 4 = 1 + Body["caps"]
    /\ "notify" \in DOMAIN Body /\ Body["notify"] = 2 /\ 3 = 1 + Body["notify"]
    /\ "request" \in DOMAIN Body /\ Body["request"] = 2 /\ 3 = 1 + Body["request"]
    /\ "peek" \in DOMAIN Body /\ Body["peek"] = 2 /\ 3 = 1 + Body["peek"]
    /\ "provide" \in DOMAIN Body /\ Body["provide"] = 3 /\ 4 = 1 + Body["provide"]
    /\ "other" \in DOMAIN Body /\ Body["other"] = 0 /\ 1 = 1 + Body["other"]
    /\ "colourmap" \in DOMAIN Body
BY DEF Body

\* Nothing that a provide carries comes to one who only watches.
LEMMA NoneProvided ==
    ASSUME Base, Hand, InStep, Message("provide")
    PROVE  ~ Watches(rfb)
<1>1. turn \in {"normal", "flushed"} /\ RQlen(buf) > 0 /\ Peek(1).k = "provide"
  BY DEF Message, NormalTurn
<1>2. /\ Stands(rfb, Ahead, rfb.conn = "connected")
      /\ Ahead \in Seq(Units0) /\ Len(Ahead) \in Nat /\ RQlen(buf) \in Nat /\ RQlen(buf) <= Len(Ahead)
      /\ \A i \in 1 .. RQlen(buf) : Ahead[i] = Peek(i)
  BY <1>1, ReadingIs
<1>3. 1 \in 1 .. RQlen(buf) /\ 1 \in 1 .. Len(Ahead)
  BY <1>1, <1>2
<1>4. Ahead[1].k = "provide"
  BY <1>1, <1>2, <1>3
<1>5. ~ NoProvide(Ahead)
  BY <1>3, <1>4 DEF NoProvide
<1> QED
  BY <1>2, <1>5, Zenon DEF Stands

\* The clipboard's answers, as they are sent.
LEMMA ClipboardReads ==
    ASSUME ExtendedClipboard
    PROVE  \/ \E m \in {<<>>, <<"clip request">>} :
                /\ Message("notify") /\ Handled("notify", 3, rfb, m) /\ (Watches(rfb) => m = <<>>)
           \/ \E m \in {<<>>, <<"clip provide">>} : Message("request") /\ Handled("request", 3, rfb, m)
           \/ \E m \in {<<>>, <<"clip notify">>} : Message("peek") /\ Handled("peek", 3, rfb, m)
           \/ Message("provide") /\ Watches(rfb)
           \/ Message("provide") /\ Handled("provide", 4, [rfb EXCEPT !.clipText = FALSE], <<>>)
<1>1. CASE Message("notify")
  BY <1>1, Zenon DEF ExtendedClipboard, Watches
<1> QED
  BY <1>1, Zenon DEF ExtendedClipboard, Watches

\* The messages that are read to their end keep the client in step.
LEMMA TalkingStep ==
    ASSUME \A s \in Scopes : Conforms(s), Base, Hand, InStep,
           Bell \/ Xvp \/ ServerFence \/ EndOfContinuousUpdates \/ ServerCutText \/ ExtendedClipboard
    PROVE  InStep'
<1> DEFINE Unmarked(r) == \A p \in Marks : r[p] = rfb[p]
<1>0. Parts \subseteq DOMAIN rfb
  BY BaseIs
<1>1. \A m \in Polite : <<m>> \in Seq(Polite) /\ <<m>> \in Seq(Requests)
  BY PolitelySent
<1>2. <<>> \in Seq(Polite) /\ <<>> \in Seq(Requests) /\ <<"fence">> \in Seq(Polite) /\ <<"fence">> \in Seq(Requests)
      /\ <<"enable">> \in Seq(Polite) /\ <<"enable">> \in Seq(Requests)
      /\ <<"caps">> \in Seq(Polite) /\ <<"caps">> \in Seq(Requests)
      /\ <<"clip provide">> \in Seq(Polite) /\ <<"clip provide">> \in Seq(Requests)
      /\ <<"clip notify">> \in Seq(Polite) /\ <<"clip notify">> \in Seq(Requests)
  BY <1>1, PolitelySent DEF Polite
<1>3. <<"clip request">> \in Seq(Requests)
  BY PolitelySent DEF Requests
<1>4. ASSUME NEW k \in DOMAIN Body, NEW n, n = 1 + Body[k], Message(k), NEW r, NEW m, Handled(k, n, r, m),
             Unmarked(r), m \in Seq(Requests), Watches(rfb) => m \in Seq(Polite)
      PROVE  InStep'
  BY <1>4, HandledStep
<1>5. Unmarked(rfb)
  OBVIOUS
<1>6. ASSUME NEW f \in {"continuous", "clipCaps", "clipText"}, NEW v
      PROVE  Unmarked([rfb EXCEPT ![f] = v])
  <2>1. f \notin Marks /\ f \in Parts /\ Marks \subseteq Parts
    BY DEF Marks, Parts
  <2> QED
    BY <1>0, <2>1, Written
<1> HIDE DEF Unmarked
<1>7. CASE Bell
  BY <1>2, <1>4, <1>5, <1>7, BodiesAre, Zenon DEF Bell
<1>8. CASE Xvp
  BY <1>2, <1>4, <1>5, <1>8, BodiesAre, Zenon DEF Xvp
<1>9. CASE ServerFence
  BY <1>2, <1>4, <1>5, <1>9, BodiesAre, Zenon DEF ServerFence
<1>10. CASE EndOfContinuousUpdates
  <2> DEFINE v == IF rfb.continuous = "unknown" THEN "enabled" ELSE "disabled"
             after == [rfb EXCEPT !.continuous = v]
  <2>1. Unmarked(after)
    <3> HIDE DEF v
    <3> QED
      BY <1>6
  <2>2. Message("endcu") /\ \E m \in {<<>>, <<"enable">>} : Handled("endcu", 1, after, m)
    BY <1>10 DEF EndOfContinuousUpdates
  <2> HIDE DEF after
  <2>3. PICK m \in {<<>>, <<"enable">>} : Handled("endcu", 1, after, m)
    BY <2>2
  <2>4. m \in Seq(Requests) /\ m \in Seq(Polite)
    BY <1>2, <2>3
  <2>5. PICK r : Handled("endcu", 1, r, m) /\ Unmarked(r)
    BY <2>1, <2>3
  <2> QED
    BY <1>4, <2>2, <2>4, <2>5, BodiesAre, Zenon
<1>11. CASE ServerCutText
  <2> DEFINE after == [rfb EXCEPT !.clipCaps = TRUE]
  <2>1. Unmarked(after)
    BY <1>6
  <2>2. (Message("cut") /\ Handled("cut", 3, rfb, <<>>)) \/ (Message("caps") /\ Handled("caps", 4, after, <<"caps">>))
    BY <1>11 DEF ServerCutText
  <2> HIDE DEF after
  <2>3. CASE Message("cut") /\ Handled("cut", 3, rfb, <<>>)
    BY <1>2, <1>4, <1>5, <2>3, BodiesAre, Zenon
  <2>4. CASE Message("caps") /\ Handled("caps", 4, after, <<"caps">>)
    <3>1. PICK r : Handled("caps", 4, r, <<"caps">>) /\ Unmarked(r)
      BY <2>1, <2>4
    <3> QED
      BY <1>2, <1>4, <2>4, <3>1, BodiesAre, Zenon
  <2> QED
    BY <2>2, <2>3, <2>4
<1>12. CASE ExtendedClipboard
  <2> DEFINE after == [rfb EXCEPT !.clipText = FALSE]
  <2>1. Unmarked(after)
    BY <1>6
  <2>2. \/ \E m \in {<<>>, <<"clip request">>} :
             /\ Message("notify") /\ Handled("notify", 3, rfb, m) /\ (Watches(rfb) => m = <<>>)
        \/ \E m \in {<<>>, <<"clip provide">>} : Message("request") /\ Handled("request", 3, rfb, m)
        \/ \E m \in {<<>>, <<"clip notify">>} : Message("peek") /\ Handled("peek", 3, rfb, m)
        \/ Message("provide") /\ Watches(rfb)
        \/ Message("provide") /\ Handled("provide", 4, after, <<>>)
    BY <1>12, ClipboardReads
  <2> HIDE DEF after
  <2>3. ASSUME NEW m \in {<<>>, <<"clip request">>}, Message("notify"), Handled("notify", 3, rfb, m),
               Watches(rfb) => m = <<>>
        PROVE  InStep'
    <3>1. m \in Seq(Requests) /\ (Watches(rfb) => m \in Seq(Polite))
      BY <1>2, <1>3, <2>3
    <3> QED
      BY <1>4, <1>5, <2>3, <3>1, BodiesAre, Zenon
  <2>4. ASSUME NEW m \in {<<>>, <<"clip provide">>}, Message("request"), Handled("request", 3, rfb, m)
        PROVE  InStep'
    BY <1>2, <1>4, <1>5, <2>4, BodiesAre, Zenon
  <2>5. ASSUME NEW m \in {<<>>, <<"clip notify">>}, Message("peek"), Handled("peek", 3, rfb, m)
        PROVE  InStep'
    BY <1>2, <1>4, <1>5, <2>5, BodiesAre, Zenon
  <2>6. ASSUME Message("provide"), Watches(rfb) PROVE FALSE
    BY <2>6, NoneProvided
  <2>7. ASSUME Message("provide"), Handled("provide", 4, after, <<>>) PROVE InStep'
    <3>1. PICK r : Handled("provide", 4, r, <<>>) /\ Unmarked(r)
      BY <2>1, <2>7
    <3> QED
      BY <1>2, <1>4, <2>7, <3>1, BodiesAre, Zenon
  <2> QED
    BY <2>2, <2>3, <2>4, <2>5, <2>6, <2>7
<1> QED
  BY <1>7, <1>8, <1>9, <1>10, <1>11, <1>12

-----------------------------------------------------------------------------
(* The framebuffer updates.                                                *)

\* The header as it is read.
LEMMA HeaderReads ==
    ASSUME Base, UpdateHeader
    PROVE  /\ NormalTurn /\ rfb.rects = 0 /\ Peek(1).k = "update" /\ Peek(1).i = 1
           /\ wire' = wire /\ srv' = srv
           /\ \/ buf' = Goback(Shift(buf, 1), 1) /\ rfb' = rfb /\ up' = up
              \/ /\ Reads(2)
                 /\ \E m \in {<<>>, <<"request">>} : Send(m) \/ (m = <<>> /\ up' = up)
                 /\ rfb'.conn = rfb.conn /\ rfb'.viewOnly = rfb.viewOnly /\ rfb'.encoding = rfb.encoding
                 /\ rfb'.rects = Len(Peek(2).x) /\ rfb'.synced = At("update").synced
<1>1. /\ NormalTurn /\ rfb.rects = 0 /\ Peek(1).k = "update" /\ Peek(1).i = 1
      /\ wire' = wire /\ srv' = srv
  BY DEF UpdateHeader
<1> DEFINE n == Len(Peek(2).x)
           r == [At("update") EXCEPT !.rects = n, !.update = @ + 1]
<1>2. Parts \subseteq DOMAIN rfb
  BY BaseIs
<1>3. /\ Parts \subseteq DOMAIN At("update")
      /\ \A p \in Parts \ {"synced"} : At("update")[p] = rfb[p]
  BY <1>2, AtIs
<1>4. \/ buf' = Goback(Shift(buf, 1), 1) /\ rfb' = rfb /\ up' = up
      \/ /\ Reads(2)
         /\ rfb' = r \/ rfb' = [r EXCEPT !.flushing = TRUE]
         /\ up' = up \/ \E s : Send(AskUpdate(s))
  BY DEF UpdateHeader
<1> HIDE DEF n
<1>5. /\ r.conn = rfb.conn /\ r.viewOnly = rfb.viewOnly /\ r.encoding = rfb.encoding
      /\ r.rects = n /\ r.synced = At("update").synced /\ Parts \subseteq DOMAIN r
  <2> DEFINE a == At("update")
  <2>1. Parts \subseteq DOMAIN a /\ a.conn = rfb.conn /\ a.viewOnly = rfb.viewOnly /\ a.encoding = rfb.encoding
    BY <1>3 DEF Parts
  <2> HIDE DEF a
  <2>2. LET b == [a EXCEPT !.rects = n, !.update = @ + 1]
        IN  /\ b.conn = a.conn /\ b.viewOnly = a.viewOnly /\ b.encoding = a.encoding
            /\ b.rects = n /\ b.synced = a.synced /\ Parts \subseteq DOMAIN b
    BY <2>1 DEF Parts
  <2> QED
    BY <2>1, <2>2 DEF a
<1> HIDE DEF r
<1>6. ASSUME rfb' = r \/ rfb' = [r EXCEPT !.flushing = TRUE]
      PROVE  /\ rfb'.conn = rfb.conn /\ rfb'.viewOnly = rfb.viewOnly /\ rfb'.encoding = rfb.encoding
             /\ rfb'.rects = n /\ rfb'.synced = At("update").synced
  BY <1>5, <1>6 DEF Parts
<1>7. \A s : AskUpdate(s) \in {<<>>, <<"request">>}
  BY DEF AskUpdate
<1>8. up' = up \/ (\E s : Send(AskUpdate(s))) =>
        \E m \in {<<>>, <<"request">>} : Send(m) \/ (m = <<>> /\ up' = up)
  BY <1>7
<1> QED
  BY <1>1, <1>4, <1>6, <1>8 DEF n

\* Nothing sent is like sending nothing.
LEMMA SendsNothing ==
    ASSUME up' = up, up \in Seq(Heard)
    PROVE  Send(<<>>)
<1>1. up \o <<>> = up
  BY ConcatEmptySeq
<1> QED
  BY <1>1 DEF Send

\* The header of an update keeps the client in step.
LEMMA HeaderStep ==
    ASSUME \A s \in Scopes : Conforms(s), Base, Hand, InStep, UpdateHeader
    PROVE  InStep'
<1>1. /\ NormalTurn /\ rfb.rects = 0 /\ Peek(1).k = "update" /\ Peek(1).i = 1
      /\ wire' = wire /\ srv' = srv /\ turn \in {"normal", "flushed"}
  BY HeaderReads DEF NormalTurn
<1>2. CASE buf' = Goback(Shift(buf, 1), 1) /\ rfb' = rfb /\ up' = up
  <2>1. buf' = buf
    BY <1>2, GivenBack, BaseIs
  <2> QED
    BY <1>1, <1>2, <2>1, LookingStep
<1>3. CASE /\ Reads(2)
           /\ \E m \in {<<>>, <<"request">>} : Send(m) \/ (m = <<>> /\ up' = up)
           /\ rfb'.conn = rfb.conn /\ rfb'.viewOnly = rfb.viewOnly /\ rfb'.encoding = rfb.encoding
           /\ rfb'.rects = Len(Peek(2).x) /\ rfb'.synced = At("update").synced
  <2>1. 2 <= RQlen(buf)
    <3>1. RQlen(buf) \in Nat
      BY BaseIs
    <3> QED
      BY <1>3, <3>1 DEF Reads
  <2>2. PICK list \in Lists :
            Peek(2) = U("update", 2, list) /\ InFrame(Len(list), NoHead, Drop(Ahead, 2), rfb.conn = "connected")
    <3>1. "update" \notin DOMAIN Body
      BY DEF Body
    <3> QED
      BY <1>1, <2>1, <3>1, MessageBegins, UnitFields
  <2>3. rfb.encoding = NoHead
    BY <1>1, MessageBegins
  <2>4. Peek(2).x = list
    BY <2>2, UnitFields
  <2>5. InFrame(rfb'.rects, rfb'.encoding, Drop(Ahead, 2), rfb.conn = "connected")
    BY <1>3, <2>2, <2>3, <2>4
  <2>6. Insync(rfb')
    <3>1. rfb.synced /\ Parts \subseteq DOMAIN rfb
      BY BaseIs DEF InStep, Insync
    <3>2. At("update").synced
      BY <1>1, <3>1, AtIs
    <3> QED
      BY <1>3, <3>2, Zenon DEF Insync
  <2>7. PICK m \in {<<>>, <<"request">>} : Send(m) \/ (m = <<>> /\ up' = up)
    BY <1>3
  <2>8. m \in Seq(Requests) /\ m \in Seq(Polite)
    <3>1. "request" \in Polite
      BY DEF Polite
    <3> QED
      BY <3>1, PolitelySent
  <2>9. CASE Send(m)
    BY <1>1, <1>3, <2>5, <2>6, <2>8, <2>9, ReadsStep
  <2>10. CASE m = <<>> /\ up' = up
    <3>1. CASE up \in Seq(Heard)
      <4>1. Send(<<>>)
        BY <2>10, <3>1, SendsNothing
      <4> QED
        BY <1>1, <1>3, <2>5, <2>6, <2>8, <2>10, <4>1, ReadsStep
    <3>2. CASE up \notin Seq(Heard)
      <4>1. rfb.conn # "connected"
        BY <1>1, <3>2, ReadingIs DEF Heeds
      <4>2. ws.ready # "open"
        BY <1>1, <4>1, ReadingIs DEF Hand, Linked
      <4>3. Send(<<>>)
        BY <2>10, <4>2 DEF Send
      <4> QED
        BY <1>1, <1>3, <2>5, <2>6, <2>8, <2>10, <4>3, ReadsStep
    <3> QED
      BY <3>1, <3>2
  <2> QED
    BY <2>7, <2>9, <2>10
<1> QED
  BY <1>2, <1>3, HeaderReads

\* A rectangle as it is read.
LEMMA RectReads ==
    ASSUME UpdateRect
    PROVE  /\ NormalTurn /\ rfb.rects > 0 /\ wire' = wire /\ srv' = srv
           /\ LET head == IF rfb.encoding = NoHead THEN 1 ELSE 0
                  enc == IF head = 1 THEN Peek(1).x[1] ELSE rfb.encoding
                  r == IF head = 1 THEN At("rect") ELSE rfb
                  left == IF enc = "last" THEN 0 ELSE r.rects - 1
                  setup == IF enc # "size" THEN <<>>
                           ELSE (IF r.resizable \/ r.viewOnly THEN <<>> ELSE <<"resize">>)
                                \o (IF r.continuous = "enabled" THEN <<"enable">> ELSE <<>>)
              IN  \/ buf' = Shift(buf, head) /\ rfb' = [r EXCEPT !.encoding = enc] /\ up' = up
                     /\ RQlen(buf) < head + RectUnits(enc)
                  \/ /\ Reads(head + RectUnits(enc))
                     /\ rfb' = [r EXCEPT !.rects = left, !.encoding = NoHead, !.resizable = @ \/ enc = "size"]
                     /\ Send(setup \o (IF left = 0 THEN AskUpdate(r) ELSE <<>>))
BY Zenon DEF UpdateRect, RectDone, NoHead

\* What a client sends after a rectangle.
LEMMA PoliteSetup ==
    ASSUME NEW a \in {<<>>, <<"resize">>}, NEW b \in {<<>>, <<"enable">>}, NEW c \in {<<>>, <<"request">>}
    PROVE  (a \o b) \o c \in Seq(Polite) /\ <<>> \o c \in Seq(Polite)
<1>1. "resize" \in Polite /\ "enable" \in Polite /\ "request" \in Polite
  BY DEF Polite
<1>2. a \in Seq(Polite) /\ b \in Seq(Polite) /\ c \in Seq(Polite) /\ <<>> \in Seq(Polite)
  BY <1>1, PolitelySent
<1>3. a \o b \in Seq(Polite)
  BY <1>2, ConcatIs
<1> QED
  BY <1>2, <1>3, ConcatIs

\* The session after a rectangle's header or the whole rectangle.
LEMMA RectFields ==
    ASSUME NEW r, Parts \subseteq DOMAIN r, NEW e, NEW n, NEW b
    PROVE  /\ LET s == [r EXCEPT !.encoding = e]
              IN  s.conn = r.conn /\ s.viewOnly = r.viewOnly /\ s.rects = r.rects /\ s.encoding = e
                  /\ s.synced = r.synced
           /\ LET s == [r EXCEPT !.rects = n, !.encoding = e, !.resizable = b]
              IN  s.conn = r.conn /\ s.viewOnly = r.viewOnly /\ s.rects = n /\ s.encoding = e
                  /\ s.synced = r.synced
BY DEF Parts

\* Reading one unit and then n is reading n + 1.
LEMMA DropTwice ==
    ASSUME NEW S \in Seq(Units0), NEW n \in Nat, n + 1 <= Len(S)
    PROVE  /\ Drop(S, 1) \in Seq(Units0) /\ Len(Drop(S, 1)) = Len(S) - 1
           /\ Drop(Drop(S, 1), n) = Drop(S, 1 + n)
<1>1. Len(S) \in Nat /\ 1 <= Len(S) /\ 1 + n \in Nat /\ 1 + n <= Len(S)
  OBVIOUS
<1>2. /\ Drop(S, 1) \in Seq(Units0) /\ Len(Drop(S, 1)) = Len(S) - 1
      /\ \A i \in 1 .. Len(S) - 1 : Drop(S, 1)[i] = S[1 + i]
  BY <1>1, UnitsDrop
<1> DEFINE A == Drop(Drop(S, 1), n)
           B == Drop(S, 1 + n)
<1>3. n <= Len(Drop(S, 1))
  BY <1>1, <1>2
<1>4. /\ A \in Seq(Units0) /\ Len(A) = Len(Drop(S, 1)) - n
      /\ \A i \in 1 .. Len(Drop(S, 1)) - n : A[i] = Drop(S, 1)[n + i]
  BY <1>2, <1>3, UnitsDrop
<1>5. /\ B \in Seq(Units0) /\ Len(B) = Len(S) - (1 + n)
      /\ \A i \in 1 .. Len(S) - (1 + n) : B[i] = S[(1 + n) + i]
  BY <1>1, UnitsDrop
<1>6. Len(Drop(S, 1)) - n = Len(S) - (1 + n)
  BY <1>1, <1>2
<1>7. ASSUME NEW i \in 1 .. Len(S) - (1 + n) PROVE A[i] = B[i]
  <2>1. n + i \in 1 .. Len(S) - 1 /\ 1 + (n + i) = (1 + n) + i
    BY <1>1
  <2> QED
    BY <1>2, <1>4, <1>5, <1>6, <2>1
<1> HIDE DEF A, B
<1>8. Len(A) = Len(B)
  BY <1>4, <1>5, <1>6
<1>9. A = B
  <2>1. A \in Seq(Units0) /\ B \in Seq(Units0) /\ \A i \in 1 .. Len(A) : A[i] = B[i]
    BY <1>4, <1>5, <1>6, <1>7
  <2> QED
    BY <1>8, <2>1
<1> QED
  BY <1>2, <1>9 DEF A, B

\* A rectangle keeps the client in step.
LEMMA RectStep ==
    ASSUME Base, Hand, InStep, UpdateRect
    PROVE  InStep'
<1> DEFINE w == rfb.conn = "connected"
           head == IF rfb.encoding = NoHead THEN 1 ELSE 0
           enc == IF head = 1 THEN Peek(1).x[1] ELSE rfb.encoding
           r == IF head = 1 THEN At("rect") ELSE rfb
           left == IF enc = "last" THEN 0 ELSE r.rects - 1
           ask == IF left = 0 THEN AskUpdate(r) ELSE <<>>
           setup == IF enc # "size" THEN <<>>
                    ELSE (IF r.resizable \/ r.viewOnly THEN <<>> ELSE <<"resize">>)
                         \o (IF r.continuous = "enabled" THEN <<"enable">> ELSE <<>>)
<1>1. /\ NormalTurn /\ rfb.rects > 0 /\ wire' = wire /\ srv' = srv
      /\ \/ buf' = Shift(buf, head) /\ rfb' = [r EXCEPT !.encoding = enc] /\ up' = up
            /\ RQlen(buf) < head + RectUnits(enc)
         \/ /\ Reads(head + RectUnits(enc))
            /\ \E b : rfb' = [r EXCEPT !.rects = left, !.encoding = NoHead, !.resizable = b]
            /\ Send(setup \o ask)
  BY RectReads
<1>2. turn \in {"normal", "flushed"} /\ RQlen(buf) > 0
  BY <1>1 DEF NormalTurn
<1>3. /\ Stands(rfb, Ahead, w) /\ Insync(rfb) /\ Parts \subseteq DOMAIN rfb /\ rfb.rects \in Nat
      /\ Ahead \in Seq(Units0) /\ Len(Ahead) \in Nat /\ RQlen(buf) \in Nat /\ RQlen(buf) <= Len(Ahead)
      /\ \A i \in 1 .. RQlen(buf) : Ahead[i] = Peek(i)
  BY <1>2, ReadingIs
<1>4. InFrame(rfb.rects, rfb.encoding, Ahead, w)
  BY <1>3, Zenon DEF Stands
<1>5. setup \o ask \in Seq(Polite) /\ setup \o ask \in Seq(Requests)
  <2>1. ask \in {<<>>, <<"request">>}
    BY DEF AskUpdate
  <2>2. \/ setup = <<>>
        \/ \E a \in {<<>>, <<"resize">>}, b \in {<<>>, <<"enable">>} : setup = a \o b
    OBVIOUS
  <2> HIDE DEF setup, ask
  <2>3. setup \o ask \in Seq(Polite)
    BY <2>1, <2>2, PoliteSetup
  <2>4. Polite \subseteq Requests
    BY DEF Requests
  <2> QED
    BY <2>3, <2>4, SequencesOf
<1> HIDE DEF w, setup, ask
<1>6. head \in {0, 1} /\ (head = 1 <=> rfb.encoding = NoHead)
  OBVIOUS
<1>7. head <= Len(Ahead) /\ head <= RQlen(buf)
  BY <1>2, <1>3, <1>6
<1>8. enc \in Encodings /\ InFrame(rfb.rects, enc, Drop(Ahead, head), w)
      /\ Parts \subseteq DOMAIN r /\ r.conn = rfb.conn /\ r.viewOnly = rfb.viewOnly /\ r.rects = rfb.rects
      /\ Insync(r)
  <2>1. CASE head = 1
    <3>1. rfb.encoding = NoHead /\ Len(Ahead) > 0 /\ 1 \in 1 .. RQlen(buf)
      BY <1>2, <1>3, <1>6, <2>1
    <3>2. PICK e \in Encodings : Ahead[1] = U("rect", 1, <<e>>) /\ InFrame(rfb.rects, e, Drop(Ahead, 1), w)
      BY <1>1, <1>3, <1>4, <3>1, FrameHead
    <3>3. Peek(1) = U("rect", 1, <<e>>)
      BY <1>3, <3>1, <3>2
    <3>4. Peek(1).x[1] = e /\ Peek(1).k = "rect" /\ Peek(1).i = 1
      BY <3>3, UnitFields
    <3>5. enc = e /\ r = At("rect")
      BY <2>1, <3>4
    <3>6. Parts \subseteq DOMAIN At("rect") /\ \A p \in Parts \ {"synced"} : At("rect")[p] = rfb[p]
      BY <1>3, AtIs
    <3>7. At("rect").conn = rfb.conn /\ At("rect").viewOnly = rfb.viewOnly /\ At("rect").rects = rfb.rects
      BY <3>6 DEF Parts
    <3>8. Insync(At("rect"))
      <4>1. rfb.synced
        BY <1>3 DEF Insync
      <4>2. At("rect").synced
        BY <1>3, <3>4, <4>1, AtIs
      <4> QED
        BY <4>2, Zenon DEF Insync
    <3> HIDE DEF enc, r
    <3> QED
      BY <2>1, <3>2, <3>5, <3>6, <3>7, <3>8
  <2>2. CASE head = 0
    <3>1. enc = rfb.encoding /\ r = rfb /\ rfb.encoding # NoHead
      BY <1>6, <2>2
    <3>2. Drop(Ahead, 0) = Ahead
      BY <1>3 DEF Drop
    <3>3. rfb.encoding \in Encodings
      BY <1>4, <3>1 DEF InFrame
    <3> HIDE DEF enc, r
    <3> QED
      BY <1>3, <1>4, <2>2, <3>1, <3>2, <3>3
  <2> QED
    BY <1>6, <2>1, <2>2
<1>9. RectUnits(enc) \in {0, 1}
  BY DEF RectUnits
<1> HIDE DEF enc, r, head
<1>10. CASE buf' = Shift(buf, head) /\ rfb' = [r EXCEPT !.encoding = enc] /\ up' = up
  <2>1. rfb'.conn = rfb.conn /\ rfb'.viewOnly = rfb.viewOnly /\ rfb'.rects = rfb.rects /\ rfb'.encoding = enc
        /\ rfb'.synced = r.synced
    BY <1>8, <1>10, RectFields
  <2>2. Insync(rfb')
    BY <1>8, <2>1, InsyncSame
  <2>3. Reads(head)
    BY <1>3, <1>6, <1>7, <1>10 DEF Reads
  <2>4. head \in Nat
    BY <1>6
  <2>5. InFrame(rfb'.rects, rfb'.encoding, Drop(Ahead, head), rfb.conn = "connected")
    BY <1>8, <2>1 DEF w
  <2>6. <<>> \in Seq(Requests) /\ <<>> \in Seq(Polite)
    BY PolitelySent
  <2>7. Send(<<>>)
    <3>1. CASE up \in Seq(Heard)
      BY <1>10, <3>1, SendsNothing
    <3>2. CASE up \notin Seq(Heard)
      <4>1. rfb.conn # "connected"
        BY <1>2, <3>2, ReadingIs DEF Heeds
      <4>2. ws.ready # "open"
        BY <1>2, <4>1, ReadingIs DEF Hand, Linked
      <4> QED
        BY <1>10, <4>2 DEF Send
    <3> QED
      BY <3>1, <3>2
  <2> QED
    BY <1>1, <1>2, <2>1, <2>2, <2>3, <2>4, <2>5, <2>6, <2>7, ReadsStep
<1>11. CASE /\ Reads(head + RectUnits(enc))
            /\ \E b : rfb' = [r EXCEPT !.rects = left, !.encoding = NoHead, !.resizable = b]
            /\ Send(setup \o ask)
  <2> DEFINE n == RectUnits(enc)
  <2>1. head + n \in Nat /\ head + n <= RQlen(buf) /\ n \in Nat
    BY <1>3, <1>6, <1>9, <1>11 DEF Reads
  <2>2. rfb'.conn = rfb.conn /\ rfb'.viewOnly = rfb.viewOnly /\ rfb'.rects = left /\ rfb'.encoding = NoHead
        /\ rfb'.synced = r.synced
    <3> HIDE DEF left
    <3> QED
      BY <1>8, <1>11, RectFields
  <2>3. Insync(rfb')
    BY <1>8, <2>2, InsyncSame
  <2>4. Drop(Drop(Ahead, head), n) = Drop(Ahead, head + n) /\ n <= Len(Drop(Ahead, head))
        /\ Drop(Ahead, head) \in Seq(Units0)
    <3>1. head + n <= Len(Ahead)
      BY <1>3, <1>6, <2>1
    <3>2. CASE head = 1
      <4>1. n + 1 <= Len(Ahead)
        BY <1>3, <2>1, <3>1, <3>2
      <4>2. /\ Drop(Ahead, 1) \in Seq(Units0) /\ Len(Drop(Ahead, 1)) = Len(Ahead) - 1
            /\ Drop(Drop(Ahead, 1), n) = Drop(Ahead, 1 + n)
        BY <1>3, <2>1, <4>1, DropTwice
      <4>3. n <= Len(Drop(Ahead, 1))
        BY <1>3, <2>1, <4>1, <4>2
      <4> QED
        BY <3>2, <4>2, <4>3
    <3>3. CASE head = 0
      <4>1. Drop(Ahead, 0) = Ahead
        BY <1>3 DEF Drop
      <4>2. 0 + n = n /\ n <= Len(Ahead)
        BY <2>1, <3>1, <3>3
      <4> QED
        BY <1>3, <3>3, <4>1, <4>2
    <3> QED
      BY <1>6, <3>2, <3>3
  <2>5. InFrame(left, NoHead, Drop(Ahead, head + n), w)
    <3> DEFINE T == Drop(Ahead, head)
    <3> HIDE DEF T
    <3>1. T \in Seq(Units0) /\ InFrame(rfb.rects, enc, T, w) /\ RectUnits(enc) <= Len(T)
      BY <1>8, <2>4 DEF T
    <3>2. InFrame(IF enc = "last" THEN 0 ELSE rfb.rects - 1, NoHead, Drop(T, RectUnits(enc)), w)
      BY <1>3, <1>8, <3>1, FrameBody
    <3> QED
      BY <1>8, <2>4, <3>2 DEF T
  <2>6. InFrame(rfb'.rects, rfb'.encoding, Drop(Ahead, head + n), rfb.conn = "connected")
    BY <2>2, <2>5 DEF w
  <2> DEFINE m == setup \o ask
  <2>7. Send(m) /\ m \in Seq(Requests) /\ m \in Seq(Polite) /\ Reads(head + n)
    BY <1>5, <1>11
  <2> HIDE DEF m, n, left
  <2> QED
    BY <1>1, <1>2, <2>1, <2>2, <2>3, <2>6, <2>7, ReadsStep
<1> QED
  BY <1>1, <1>10, <1>11

-----------------------------------------------------------------------------
(* Messages that end the session, and messages that are not all there.     *)

\* What is still read of a session that an unknown message has ended.
LEMMA UnknownStep ==
    ASSUME \A s \in Scopes : Conforms(s), Base, Hand, InStep, UnexpectedMessage
    PROVE  InStep'
<1> DEFINE w == rfb.conn = "connected"
           r == At("other")
<1>1. /\ NormalTurn /\ turn \in {"normal", "flushed"} /\ rfb.rects = 0 /\ Reads(1)
      /\ Peek(1).i # 1 \/ Peek(1).k \notin (DOMAIN Body \ {"other"}) \cup {"update"}
      /\ Becomes(Failed([ui |-> ui, rfb |-> r, ws |-> ws]))
      /\ wire' = wire /\ srv' = srv /\ up' = up
  BY DEF UnexpectedMessage, NormalTurn, Conn
<1>2. /\ Stands(rfb, Ahead, w) /\ Insync(rfb) /\ Parts \subseteq DOMAIN rfb /\ rfb.conn # "connecting"
      /\ (Live(rfb) <=> w)
      /\ Ahead \in Seq(Units0) /\ Len(Ahead) \in Nat /\ RQlen(buf) \in Nat /\ RQlen(buf) <= Len(Ahead)
  BY <1>1, ReadingIs
<1>3. RQlen(buf) > 0 /\ 1 <= RQlen(buf) /\ 1 <= Len(Ahead)
  BY <1>1, <1>2 DEF NormalTurn
<1>4. rfb.encoding = NoHead /\ Peek(1) = U("other", 1, <<>>) /\ Flow(Drop(Ahead, 1), 0, w)
  <2>1. /\ rfb.encoding = NoHead
        /\ \/ \E k \in DOMAIN Body :
                /\ Peek(1) = U(k, 1, <<>>)
                /\ 1 + Body[k] <= RQlen(buf) => Flow(Drop(Ahead, 1 + Body[k]), 0, w)
           \/ \E list \in Lists : Peek(1) = U("update", 1, <<>>)
    BY <1>1, MessageBegins
  <2> HIDE DEF w
  <2>2. ~ \E list \in Lists : Peek(1) = U("update", 1, <<>>)
    BY <1>1, UnitFields
  <2>3. PICK k \in DOMAIN Body :
            /\ Peek(1) = U(k, 1, <<>>)
            /\ 1 + Body[k] <= RQlen(buf) => Flow(Drop(Ahead, 1 + Body[k]), 0, w)
    BY <2>1, <2>2
  <2>4. k = "other"
    BY <1>1, <2>3, UnitFields
  <2>5. 1 + Body[k] = 1
    BY <2>4, BodiesAre
  <2> QED
    BY <1>3, <2>1, <2>3, <2>4, <2>5
<1>5. r.synced /\ \A p \in Parts \ {"synced"} : r[p] = rfb[p]
  <2>1. rfb.synced
    BY <1>2 DEF Insync
  <2> QED
    BY <1>2, <1>4, <2>1, AtIs, UnitFields
<1>6. Parts \subseteq DOMAIN r /\ r.conn = rfb.conn /\ r.rects = 0 /\ r.encoding = NoHead /\ r.viewOnly = rfb.viewOnly
  <2>1. r.conn = rfb.conn /\ r.rects = rfb.rects /\ r.encoding = rfb.encoding /\ r.viewOnly = rfb.viewOnly
    BY <1>5 DEF Parts
  <2>2. Parts \subseteq DOMAIN r
    BY <1>2, AtIs
  <2> HIDE DEF r
  <2> QED
    BY <1>1, <1>4, <2>1, <2>2
<1> HIDE DEF r
<1>7. ~ Live(rfb') /\ rfb'.rects = 0 /\ rfb'.encoding = NoHead /\ rfb'.viewOnly = rfb.viewOnly /\ rfb'.synced = r.synced
  <2>1. CASE w
    <3>1. /\ rfb'.conn = "disconnected" /\ ~ Live(rfb)' /\ \A p \in Parts \ {"conn", "timer"} : rfb'[p] = r[p]
      BY <1>1, <1>6, FailsDown DEF Hand
    <3>2. ~ Live(rfb')
      BY <3>1, Zenon DEF Live
    <3>3. rfb'.rects = r.rects /\ rfb'.encoding = r.encoding /\ rfb'.viewOnly = r.viewOnly /\ rfb'.synced = r.synced
      BY <3>1 DEF Parts
    <3> QED
      BY <1>6, <3>2, <3>3
  <2>2. CASE ~ w
    <3>1. /\ \A p \in Parts \ {"conn", "timer"} : rfb'[p] = r[p]
      BY <1>1, <1>6, FailsDown DEF Hand
    <3>2. rfb'.conn = "disconnected" \/ rfb'.conn = rfb.conn
      BY <1>1, <1>6, FailsDown DEF Hand
    <3>3. ~ Live(rfb')
      BY <1>2, <2>2, <3>2 DEF Live
    <3>4. rfb'.rects = r.rects /\ rfb'.encoding = r.encoding /\ rfb'.viewOnly = r.viewOnly /\ rfb'.synced = r.synced
      BY <3>1 DEF Parts
    <3> QED
      BY <1>6, <3>3, <3>4
  <2> QED
    BY <2>1, <2>2
<1>8. Insync(rfb')
  BY <1>5, <1>7, Zenon DEF Insync
<1>9. Stands(rfb', Ahead', FALSE)
  <2>1. Ahead' = Drop(Unread(buf), 1)
    <3>1. Sound(buf) /\ wire \in Seq(Units0)
      BY BaseIs
    <3>2. ~ Live(rfb')
      BY <1>7
    <3> QED
      BY <1>1, <3>1, <3>2, ReadsDropsDown
  <2>2. /\ Unread(buf) \in Seq(Units0) /\ Len(Unread(buf)) = RQlen(buf) /\ Beginning(Unread(buf), Ahead)
    <3>1. Sound(buf) /\ wire \in Seq(Units0)
      BY BaseIs
    <3> QED
      BY <3>1, UnreadIs, AheadIs
  <2>3. Beginning(Drop(Unread(buf), 1), Drop(Ahead, 1))
    BY <1>2, <1>3, <2>2, BeginningDrop
  <2>4. Drop(Unread(buf), 1) \in Seq(Units0) /\ Drop(Ahead, 1) \in Seq(Units0)
    BY <1>2, <1>3, <2>2, UnitsDrop
  <2>5. InFrame(0, NoHead, Drop(Ahead, 1), w)
    BY <1>4, <2>4, FrameEnds
  <2>6. InFrame(0, NoHead, Drop(Unread(buf), 1), FALSE)
    BY <2>3, <2>4, <2>5, FrameCut
  <2>7. ASSUME Watches(rfb) PROVE NoProvide(Drop(Unread(buf), 1))
    <3>1. NoProvide(Ahead)
      BY <1>2, <2>7 DEF Stands
    <3>2. NoProvide(Drop(Ahead, 1))
      BY <1>2, <1>3, <3>1, ProvideDrop
    <3> QED
      BY <2>3, <2>4, <3>2, ProvideCut
  <2>8. Watches(rfb') <=> Watches(rfb)
    BY <1>7, Zenon DEF Watches
  <2> QED
    BY <1>7, <2>1, <2>6, <2>7, <2>8 DEF Stands
<1>10. rfb'.conn # "connecting" /\ rfb'.conn # "connected"
  BY <1>7 DEF Live
<1> QED
  BY <1>8, <1>9, <1>10, StepNext

\* A colour map ends the session.
LEMMA ColourMapStep ==
    ASSUME Base, Hand, InStep, SetColourMap
    PROVE  InStep'
<1>1. /\ turn' \notin {"normal", "flushed"} /\ Becomes(Failed([ui |-> ui, rfb |-> rfb, ws |-> ws]))
      /\ turn \in {"normal", "flushed"}
  BY DEF SetColourMap, Stops, Conn, Message, NormalTurn
<1>2. Parts \subseteq DOMAIN rfb /\ rfb.conn \in States /\ Insync(rfb)
  BY BaseIs DEF InStep
<1>3. rfb'.conn = "disconnected" /\ rfb'.synced = rfb.synced
  BY <1>1, <1>2, FailsDown DEF Hand, Parts
<1>4. ~ Live(rfb')
  BY <1>3 DEF Live
<1> QED
  BY <1>1, <1>2, <1>3, <1>4, InsyncSame, StepDown

\* The messages of a connected desktop keep the client in step.
LEMMA NormalStep ==
    ASSUME \A s \in Scopes : Conforms(s), Base, Hand, InStep, NormalMsg
    PROVE  InStep'
<1>1. CASE NormalTurnEnds
  BY <1>1, LookingStep DEF NormalTurnEnds
<1>2. CASE MessageIncomplete
  <2>1. \E n \in {1, 2} : buf' = Goback(Shift(buf, n), n)
    BY <1>2 DEF MessageIncomplete
  <2>2. buf' = buf
    BY <2>1, GivenBack, BaseIs
  <2> QED
    BY <1>2, <2>2, LookingStep DEF MessageIncomplete, NormalTurn
<1> QED
  BY <1>1, <1>2, HeaderStep, RectStep, TalkingStep, ColourMapStep, UnknownStep DEF NormalMsg

-----------------------------------------------------------------------------
(* The page, the socket and the timers.                                    *)

\* A new session has nothing ahead.
LEMMA OpenStep ==
    ASSUME Hand', NEW u, NEW c, Open(u, c)
    PROVE  InStep'
<1>1. rfb' = NewRfb(c, rfb.viewOnly)
  BY DEF Open
<1>2. rfb'.conn = "connecting" /\ rfb'.init # "ServerInitialisation"
  <2>1. NewRfb(c, rfb.viewOnly).conn = "connecting"
    BY DEF NewRfb
  <2>2. NewRfb(c, rfb.viewOnly).init = ""
    BY DEF NewRfb
  <2>3. "" # "ServerInitialisation"
    BY Zenon
  <2> QED
    BY <1>1, <2>1, <2>2, <2>3, Zenon
<1>3. Fresh'
  BY <1>2 DEF Hand
<1>4. Greeting(rfb', Ahead', srv')
  BY <1>2, Zenon DEF Greeting
<1>5. rfb'.conn # "connected"
  BY <1>2
<1> QED
  BY <1>3, <1>4, <1>5, FreshStep, StepNext

\* The fields of a session that are neither of Marks nor written here.
LEMMA MarksKept ==
    ASSUME Parts \subseteq DOMAIN rfb, NEW f \in Parts \ Marks, NEW v
    PROVE  \A p \in Marks : [rfb EXCEPT ![f] = v][p] = rfb[p]
<1>1. f \notin Marks /\ Marks \subseteq Parts
  BY DEF Marks, Parts
<1> QED
  BY <1>1, Written

\* A step outside the handlers that writes none of what matters.
LEMMA IdleSame ==
    ASSUME Base, InStep, turn \notin {"normal", "flushed"},
           buf' = buf, wire' = wire, up' = up, srv' = srv, \A p \in Marks : rfb'[p] = rfb[p],
           turn' \notin {"normal", "flushed"} \/ rfb.conn = "connected"
    PROVE  InStep'
<1>1. rfb'.conn = rfb.conn
  BY DEF Marks
<1>2. Ahead' = Ahead
  BY <1>1, Zenon DEF Ahead, Live
<1>3. ~ Live(rfb) => turn' \notin {"normal", "flushed"}
  BY DEF Live
<1> QED
  BY <1>2, <1>3, StepSame

\* The user's clipboard is sent as a notification or as text.
LEMMA PasteStep ==
    ASSUME Base, InStep, ClipboardPasteFrom
    PROVE  InStep'
<1>1. /\ turn = "idle" /\ turn' = turn /\ rfb.conn = "connected" /\ buf' = buf /\ wire' = wire /\ srv' = srv
      /\ \E v : rfb' = [rfb EXCEPT !.clipText = v]
      /\ Send(<<"clip notify">>) \/ Send(<<"cut text">>)
  BY DEF ClipboardPasteFrom, UserOp
<1>2. Parts \subseteq DOMAIN rfb /\ "clipText" \in Parts \ Marks
  BY BaseIs DEF Parts, Marks
<1>3. \A p \in Marks : rfb'[p] = rfb[p]
  <2>1. PICK v : rfb' = [rfb EXCEPT !["clipText"] = v]
    BY <1>1
  <2>2. \A p \in Marks : [rfb EXCEPT !["clipText"] = v][p] = rfb[p]
    BY <1>2, MarksKept
  <2> QED
    BY <2>1, <2>2
<1> DEFINE r == rfb
           s == rfb'
<1>4. /\ Insync(s) <=> Insync(r)
      /\ s.conn = r.conn /\ (Live(s) <=> Live(r))
      /\ \A S, w : Stands(s, S, w) <=> Stands(r, S, w)
      /\ \A v, q : Heeds(s, v, q) <=> Heeds(r, v, q)
  BY <1>3, SameMarks
<1>5. Ahead' = Ahead
  BY <1>1, <1>4, Zenon DEF Ahead
<1>6. Heeds(rfb, srv', up')
  <2>1. PICK m \in {<<"clip notify">>, <<"cut text">>} : Send(m)
    BY <1>1
  <2>2. "clip notify" \in Polite /\ "cut text" \in Polite
    BY DEF Polite
  <2>3. m \in Seq(Requests) /\ m \in Seq(Polite)
    BY <2>2, PolitelySent
  <2> QED
    BY <1>1, <2>1, <2>3, SendHeeds DEF InStep
<1>7. Stands(rfb', Ahead', TRUE) /\ Heeds(rfb', srv', up')
  BY <1>1, <1>4, <1>5, <1>6 DEF InStep
<1>8. rfb'.conn # "connecting" /\ Live(rfb') /\ Insync(rfb')
  BY <1>1, <1>4 DEF Live, InStep
<1> QED
  BY <1>7, <1>8, StepNext

\* The page's operations keep the client in step, but for a change of view only.
LEMMA PageStep ==
    ASSUME Base, Hand, Hand', InStep, Page, ~ Toggled(ui')
    PROVE  InStep'
<1>0. ui \in Pages /\ Parts \subseteq DOMAIN rfb
  BY BaseIs
<1>1. CASE UIConnect \/ UIReconnect
  BY <1>1, OpenStep DEF UIConnect, UIReconnect
<1>2. CASE UICancelReconnect
  BY <1>2, IdleSame DEF UICancelReconnect
<1>3. CASE UIDisconnect
  <2>1. /\ rfb'.conn = "disconnecting" /\ \A p \in Parts \ {"conn", "timer"} : rfb'[p] = rfb[p]
    BY <1>3, LeaveIs
  <2>2. ~ Live(rfb') /\ rfb'.synced = rfb.synced /\ turn' \notin {"normal", "flushed"}
    BY <1>3, <2>1 DEF Live, Parts, UIDisconnect
  <2> QED
    BY <2>2, InsyncSame, StepDown DEF InStep
<1>4. CASE UISetCredentials
  <2>1. \A p \in Marks : rfb'[p] = rfb[p]
    BY <1>0, <1>4 DEF UISetCredentials, Parts, Marks
  <2> QED
    BY <1>4, <2>1, IdleSame DEF UISetCredentials
<1>5. CASE ClipboardPasteFrom
  BY <1>5, PasteStep
<1>6. CASE UpdateViewOnly
  <2>1. ui'.toggled
    BY <1>0, <1>6 DEF UpdateViewOnly, Pages
  <2> QED
    BY <2>1, Zenon DEF Toggled
<1> QED
  BY <1>1, <1>2, <1>3, <1>4, <1>5, <1>6 DEF Page

\* The channel opens: the handshake begins.
LEMMA OpensStep ==
    ASSUME Hand', Base, Hand, SocketOpens
    PROVE  InStep'
<1>1. rfb' = [rfb EXCEPT !.init = "ProtocolVersion"] /\ ws.ready = "connecting"
  BY DEF SocketOpens
<1>2. Parts \subseteq DOMAIN rfb
  BY BaseIs
<1>3. rfb'.init = "ProtocolVersion" /\ rfb'.conn = rfb.conn
  BY <1>1, <1>2 DEF Parts
<1>4. Live(rfb) /\ rfb.init # "ServerInitialisation"
  <2>1. rfb.init = "" /\ Live(rfb)
    BY <1>1, Zenon DEF Hand, Linked
  <2>2. "" # "ServerInitialisation"
    BY Zenon
  <2> QED
    BY <2>1, <2>2, Zenon
<1>5. rfb.conn = "connecting"
  BY <1>4 DEF Hand, Live, Late
<1>6. Fresh'
  BY <1>3, <1>5 DEF Hand
<1>7. Greeting(rfb', Ahead', srv')
  BY <1>3, Zenon DEF Greeting
<1>8. rfb'.conn # "connected"
  BY <1>3, <1>5
<1> QED
  BY <1>6, <1>7, <1>8, FreshStep, StepNext

\* The channel closes: the session is over.
LEMMA ClosesStep ==
    ASSUME Base, Hand, InStep, SocketCloses
    PROVE  InStep'
<1>0. ui \in Pages /\ ws \in Channels /\ Parts \subseteq DOMAIN rfb /\ rfb.conn \in States
  BY BaseIs
<1>1. turn = "idle" /\ turn' = turn
  BY DEF SocketCloses
<1> DEFINE w == [ws EXCEPT !.ready = "closed"]
           c == [ui |-> ui, rfb |-> rfb, ws |-> w]
           after == CASE rfb.conn = "disconnecting" -> ToDisconnected(c)
                      [] rfb.conn \in {"connecting", "connected"} -> Failed(c)
                      [] OTHER -> c
<1>2. [Conn EXCEPT !.ws.ready = "closed"] = c
  BY DEF Conn
<1>3. Becomes(IF ws.close THEN [after EXCEPT !.ws.close = FALSE] ELSE c)
  BY <1>2 DEF SocketCloses
<1>4. w \in Channels
  BY <1>0 DEF Channels
<1> HIDE DEF w
<1>5. CASE rfb.conn # "disconnected"
  <2>1. ws.close
    BY <1>5 DEF Hand, Linked
  <2>2. Over(after, rfb)
    <3>1. CASE rfb.conn = "disconnecting"
      <4>1. after = ToDisconnected(c)
        BY <3>1
      <4> HIDE DEF after
      <4> QED
        BY <1>0, <1>4, <3>1, <4>1, DisconnectedIs
    <3>2. CASE rfb.conn \in {"connecting", "connected"}
      <4>1. after = Failed(c)
        BY <3>2
      <4> HIDE DEF after
      <4> QED
        BY <1>0, <1>4, <3>2, <4>1, FailedIs
    <3> QED
      BY <1>0, <1>5, <3>1, <3>2 DEF States
  <2> HIDE DEF after
  <2>3. rfb' = after.rfb
    BY <1>3, <2>1, <2>2 DEF Becomes, Over
  <2>4. rfb'.conn = "disconnected" /\ rfb'.synced = rfb.synced
    BY <2>2, <2>3 DEF Over, Parts
  <2>5. ~ Live(rfb')
    BY <2>4 DEF Live
  <2> QED
    BY <1>1, <2>4, <2>5, InsyncSame, StepDown DEF InStep
<1>6. CASE rfb.conn = "disconnected"
  <2>1. ~ ws.close
    BY <1>6 DEF Hand, Linked
  <2>2. rfb' = rfb
    BY <1>3, <2>1 DEF Becomes
  <2>3. ~ Live(rfb')
    BY <1>6, <2>2 DEF Live
  <2> QED
    BY <1>1, <2>2, <2>3, StepDown DEF InStep
<1> QED
  BY <1>5, <1>6

\* What is received was ahead already.
LEMMA ReceiveStep ==
    ASSUME Base, Hand, InStep, ReceiveMessage
    PROVE  InStep'
<1>0. Sound(buf) /\ wire \in Seq(Units0)
  BY BaseIs
<1>1. /\ turn = "idle" /\ rfb' = rfb /\ up' = up /\ srv' = srv
  BY DEF ReceiveMessage
<1>2. ws.message <=> Live(rfb)
  BY DEF Hand, Linked
<1>3. CASE Live(rfb)
  <2>1. Ahead' = Ahead
    BY <1>0, <1>2, <1>3, ReceivedAhead
  <2> QED
    BY <1>1, <1>3, <2>1, StepSame
<1>4. CASE ~ Live(rfb)
  <2>1. buf' = buf /\ turn' = turn
    BY <1>2, <1>4 DEF ReceiveMessage
  <2>2. Ahead' = Ahead
    BY <1>1, <1>4, <2>1 DEF Ahead
  <2> QED
    BY <1>1, <2>1, <2>2, StepSame
<1> QED
  BY <1>3, <1>4

\* The end of a handler leaves what is ahead.
LEMMA EndsStep ==
    ASSUME Base, InStep, ReceiveEnds
    PROVE  InStep'
<1>1. turn' = "idle" /\ buf' = ResetIfRead(buf) /\ rfb' = rfb /\ wire' = wire /\ up' = up /\ srv' = srv
  BY DEF ReceiveEnds
<1>2. Ahead' = Ahead
  <2>1. Unread(buf') = Unread(buf)
    BY <1>1, BaseIs, ResetUnread
  <2> QED
    BY <1>1, <2>1 DEF Ahead
<1> QED
  BY <1>1, <1>2, StepSame

\* The timers, and the images that load, leave what is ahead.
LEMMA TimersStep ==
    ASSUME Base, Hand, InStep, Timers
    PROVE  InStep'
<1>0. ui \in Pages /\ ws \in Channels /\ Parts \subseteq DOMAIN rfb
  BY BaseIs
<1>1. CASE DisconnectTimesOut
  <2>1. /\ turn = "idle" /\ turn' = turn /\ buf' = buf /\ wire' = wire /\ up' = up /\ srv' = srv
        /\ Becomes(ToDisconnected(Conn))
    BY <1>1 DEF DisconnectTimesOut
  <2>2. CASE rfb.conn = "disconnecting"
    <3> DEFINE d == ToDisconnected([ui |-> ui, rfb |-> rfb, ws |-> ws])
    <3>1. Over(d, rfb)
      BY <1>0, <2>2, DisconnectedIs
    <3> HIDE DEF d
    <3>2. rfb' = d.rfb
      BY <2>1 DEF Becomes, Conn, d
    <3>3. rfb'.conn = "disconnected" /\ rfb'.synced = rfb.synced
      BY <3>1, <3>2 DEF Over, Parts
    <3>4. ~ Live(rfb')
      BY <3>3 DEF Live
    <3> QED
      BY <2>1, <3>3, <3>4, InsyncSame, StepDown DEF InStep
  <2>3. CASE rfb.conn # "disconnecting"
    <3>1. rfb' = rfb
      BY <2>1, <2>3 DEF Becomes, ToDisconnected, Conn
    <3> QED
      BY <2>1, <3>1, IdleSame
  <2> QED
    BY <2>2, <2>3
<1>2. CASE ResumeAuthentication
  <2>1. \A p \in Marks : rfb'[p] = rfb[p]
    BY <1>0, <1>2 DEF ResumeAuthentication, Parts, Marks
  <2> QED
    BY <1>2, <2>1, IdleSame DEF ResumeAuthentication
<1>3. CASE ArdComputed
  <2>1. \A p \in Marks : rfb'[p] = rfb[p]
    BY <1>0, <1>3 DEF ArdComputed, Parts, Marks
  <2> QED
    BY <1>3, <2>1, IdleSame DEF ArdComputed
<1>4. CASE ImageLoads
  <2>1. /\ turn = "idle" /\ buf' = buf /\ wire' = wire /\ up' = up /\ srv' = srv
        /\ \E d : AfterFlush(d, rfb)
    BY <1>4 DEF ImageLoads
  <2>2. /\ rfb' = rfb \/ rfb' = [rfb EXCEPT !.flushing = FALSE]
        /\ turn' = turn \/ rfb.conn = "connected"
    BY <2>1 DEF AfterFlush
  <2>3. \A p \in Marks : rfb'[p] = rfb[p]
    BY <1>0, <2>2 DEF Parts, Marks
  <2> QED
    BY <2>1, <2>2, <2>3, IdleSame
<1> QED
  BY <1>1, <1>2, <1>3, <1>4 DEF Timers

-----------------------------------------------------------------------------
(* The server.                                                             *)

\* Whole messages are added to what is ahead.
LEMMA GrowStep ==
    ASSUME Base, Hand, InStep, NEW m \in Messages, NoProvide(m) \/ ~ Watches(rfb),
           rfb.conn = "connecting" => NoProvide(m),
           wire' = wire \o m, buf' = buf, rfb' = rfb, turn' = turn, up' = up, ws.ready = "open",
           rfb.conn = "connecting" => srv.stage \in {"shown", "normal"},
           srv'.wants \subseteq srv.wants
    PROVE  InStep'
<1>1. Live(rfb) /\ Live(rfb')
  BY DEF Hand, Linked
<1>2. Sound(buf) /\ wire \in Seq(Units0) /\ m \in Seq(Units0)
  BY BaseIs, MessageIs
<1>3. Ahead' = Ahead \o m
  BY <1>1, <1>2, SentAhead
<1>4. Ahead \in Seq(Units0) /\ Len(Ahead) \in Nat
  BY <1>2, AheadIs
<1>5. CASE rfb.conn = "connecting"
  <2>1. Greeting(rfb', Ahead', srv')
    <3> DEFINE n == IF rfb.tight THEN 4 ELSE 2
    <3>1. CASE rfb.init = "ServerInitialisation"
      <4>1. Greeted(Ahead, n)
        BY <1>5, <3>1 DEF InStep, Greeting
      <4>2. n \in Nat
        OBVIOUS
      <4> HIDE DEF n
      <4>3. Flow(Ahead \o m, n, TRUE)
        BY <1>4, <4>1, <4>2, FlowGrow DEF Greeted
      <4>4. NoProvide(Ahead \o m)
        BY <1>2, <1>4, <1>5, <4>1, ProvideGrow DEF Greeted
      <4>5. Len(Ahead \o m) > 0 /\ (Ahead \o m)[1] = U("serverinit", 1, <<>>)
        <5>1. Len(Ahead) > 0 /\ Ahead[1] = U("serverinit", 1, <<>>)
          BY <4>1 DEF Greeted
        <5>2. /\ Len(Ahead \o m) = Len(Ahead) + Len(m) /\ Len(m) \in Nat
              /\ \A i \in 1 .. Len(Ahead) : (Ahead \o m)[i] = Ahead[i]
          BY <1>2, <1>4, ConcatIs
        <5>3. 1 \in 1 .. Len(Ahead) /\ Len(Ahead) + Len(m) > 0
          BY <1>4, <5>1, <5>2
        <5> QED
          BY <5>1, <5>2, <5>3
      <4>6. Greeted(Ahead \o m, n)
        BY <4>3, <4>4, <4>5 DEF Greeted
      <4> QED
        BY <1>3, <4>6 DEF Greeting, n
    <3>2. CASE rfb.init # "ServerInitialisation"
      BY <3>2, Zenon DEF Greeting
    <3> QED
      BY <3>1, <3>2
  <2>2. Insync(rfb')
    BY DEF InStep
  <2>3. rfb'.conn # "connected"
    BY <1>5
  <2> QED
    BY <1>1, <2>1, <2>2, <2>3, StepNext
<1>6. CASE rfb.conn = "connected"
  <2>1. Stands(rfb, Ahead, TRUE) /\ Heeds(rfb, srv, up) /\ Insync(rfb)
    BY <1>6 DEF InStep
  <2>2. InFrame(rfb.rects, rfb.encoding, Ahead \o m, TRUE)
    BY <1>4, <2>1, FrameGrow DEF Stands
  <2>3. ASSUME Watches(rfb) PROVE NoProvide(Ahead \o m)
    BY <1>2, <1>4, <2>1, <2>3, ProvideGrow DEF Stands
  <2>4. Stands(rfb, Ahead \o m, TRUE)
    BY <2>2, <2>3 DEF Stands
  <2>5. Heeds(rfb, srv', up')
    BY <2>1 DEF Heeds
  <2>6. Insync(rfb') /\ Stands(rfb', Ahead', TRUE) /\ Heeds(rfb', srv', up') /\ rfb'.conn # "connecting"
    BY <1>3, <1>6, <2>1, <2>4, <2>5
  <2> QED
    BY <1>1, <2>6, StepNext
<1> QED
  BY <1>1, <1>5, <1>6 DEF Live

\* An update is added to what is ahead.
LEMMA UpdatesStep ==
    ASSUME Base, Hand, InStep, ServerUpdates
    PROVE  InStep'
<1>1. PICK list \in scope.updates : Sends(Update(list), [srv EXCEPT !.asked = FALSE])
  BY DEF ServerUpdates, Update
<1>2. /\ ws.ready = "open" /\ srv.stage \in {"shown", "normal"} /\ wire' = wire \o Update(list)
      /\ buf' = buf /\ rfb' = rfb /\ turn' = turn /\ up' = up
      /\ srv' = [[srv EXCEPT !.asked = FALSE] EXCEPT !.sent = @ + 1]
  BY <1>1 DEF Sends
<1>3. srv'.wants = srv.wants
  <2>1. Serving \subseteq DOMAIN srv
    BY BaseIs
  <2> QED
    BY <1>2, <2>1 DEF Serving
<1>4. list \in Lists
  BY DEF Lists, Base
<1>5. Update(list) \in Messages /\ NoProvide(Update(list))
  BY <1>4, UpdateProvide DEF Messages
<1> QED
  BY <1>2, <1>3, <1>5, GrowStep

\* So is any other message, a provide only to one who has asked for it.
LEMMA ChattersStep ==
    ASSUME \A s \in Scopes : Conforms(s), Base, Hand, InStep, ServerChatters
    PROVE  InStep'
<1>0. Serving \subseteq DOMAIN srv /\ scope \in Scopes /\ srv.wants \subseteq DOMAIN Body
  BY BaseIs DEF Base, Streams
<1>1. ASSUME NEW k \in scope.chatter, NEW s, s = srv \/ s = [srv EXCEPT !.continuous = "offered"], Sends(Units(k), s)
      PROVE  InStep'
  <2>1. k \in DOMAIN Body /\ k # "provide"
    BY <1>0, ScopeAssumption DEF Conforms
  <2>2. Units(k) \in Messages /\ NoProvide(Units(k))
    BY <2>1, UnitsProvide DEF Messages
  <2>3. /\ ws.ready = "open" /\ srv.stage \in {"shown", "normal"} /\ wire' = wire \o Units(k)
        /\ buf' = buf /\ rfb' = rfb /\ turn' = turn /\ up' = up
        /\ srv' = [s EXCEPT !.sent = @ + 1]
    BY <1>1 DEF Sends
  <2>4. srv'.wants = srv.wants
    BY <1>0, <1>1, <2>3 DEF Serving
  <2> QED
    BY <2>2, <2>3, <2>4, GrowStep
<1>2. ASSUME NEW k \in srv.wants, ws.ready = "open", wire' = wire \o Units(k), srv' = [srv EXCEPT !.wants = @ \ {k}],
             UNCHANGED <<ui, rfb, ws, buf, disp, turn, up>>
      PROVE  InStep'
  <2>1. k \in DOMAIN Body
    BY <1>0
  <2>2. Units(k) \in Messages
    BY <2>1 DEF Messages
  <2>3. srv'.wants \subseteq srv.wants
    BY <1>0, <1>2 DEF Serving
  <2>4. rfb.conn # "connecting"
    BY DEF Hand, Talk
  <2>5. Live(rfb)
    BY <1>2 DEF Hand, Linked
  <2>6. rfb.conn = "connected"
    BY <2>4, <2>5 DEF Live
  <2>7. Heeds(rfb, srv, up)
    BY <2>6 DEF InStep
  <2>8. NoProvide(Units(k)) \/ ~ Watches(rfb)
    <3>1. ASSUME Watches(rfb) PROVE k # "provide"
      BY <2>7, <3>1 DEF Heeds
    <3> QED
      BY <2>1, <3>1, UnitsProvide
  <2> QED
    BY <1>2, <2>2, <2>3, <2>4, <2>8, GrowStep
<1> QED
  BY <1>1, <1>2 DEF ServerChatters

\* The server takes what the client has sent.
LEMMA TakesStep ==
    ASSUME Base, Hand, InStep, rfb.conn = "connected", up # <<>>, up' = Tail(up), wire' = wire,
           buf' = buf, rfb' = rfb, turn' = turn,
           Watches(rfb) /\ Head(up) # "clip request" => srv'.wants \subseteq srv.wants \cup {"request"}
    PROVE  InStep'
<1>1. Stands(rfb, Ahead, TRUE) /\ Heeds(rfb, srv, up) /\ Insync(rfb)
  BY DEF InStep
<1>2. Ahead' = Ahead
  BY DEF Ahead, Live
<1>3. up' \in Seq(Heard)
  BY <1>1, HeadTailProperties DEF Heeds
<1>4. ASSUME Watches(rfb) PROVE "provide" \notin srv'.wants /\ up' \in Seq(Polite \cup Silent)
  <2>1. up \in Seq(Polite \cup Silent) /\ "provide" \notin srv.wants
    BY <1>1, <1>4 DEF Heeds
  <2>2. Head(up) \in Polite \cup Silent /\ up' \in Seq(Polite \cup Silent)
    BY <2>1, HeadTailProperties
  <2>3. "clip request" \notin Polite \cup Silent
    BY DEF Polite, Silent
  <2> QED
    BY <1>4, <2>1, <2>2, <2>3
<1>5. Heeds(rfb', srv', up')
  BY <1>3, <1>4 DEF Heeds
<1>6. Insync(rfb') /\ Stands(rfb', Ahead', TRUE) /\ rfb'.conn # "connecting" /\ Live(rfb')
  BY <1>1, <1>2 DEF Live
<1> QED
  BY <1>5, <1>6, StepNext

\* The answer to the client's initialisation is the desktop's description,
\* exactly as long as the client takes it to be.
LEMMA AnsweredStep ==
    ASSUME Base, Hand, InStep, Live(rfb), ServerHandshake, Waiting, Head(up) \in Questions,
           Asks(rfb, Head(up), srv.stage), Tail(up) = <<>>, rfb.conn = "connecting"
    PROVE  InStep'
<1> DEFINE n == IF rfb.tight THEN 4 ELSE 2
           T == [i \in 1 .. n |-> U("serverinit", i, <<>>)]
<1>0. rfb' = rfb /\ buf' = buf /\ turn' = turn /\ Insync(rfb)
  BY DEF ServerHandshake, InStep
<1>1. ASSUME rfb.init = "ServerInitialisation" PROVE Greeting(rfb', Ahead', srv')
  <2>1. Head(up) = "init"
    <3>1. ~ Auth(rfb, "none") /\ ~ Auth(rfb, "vnc") /\ ~ Auth(rfb, "vencrypt") /\ ~ Auth(rfb, "tight") /\ ~ Auth(rfb, "ard")
      BY <1>1 DEF Auth
    <3> QED
      BY <1>1, <3>1 DEF Asks
  <2>2. wire' = wire \o T
    <3>1. T = [i \in 1 .. ServerInitUnits |-> U("serverinit", i, <<>>)]
      BY DEF ServerInitUnits
    <3> HIDE DEF T, n
    <3>2. Answers([i \in 1 .. ServerInitUnits |-> U("serverinit", i, <<>>)], "shown")
      BY <2>1 DEF ServerHandshake
    <3> QED
      BY <3>1, <3>2 DEF Answers
  <2>3. n \in Nat /\ n > 0 /\ \A i \in 1 .. n : T[i] = U("serverinit", i, <<>>)
    OBVIOUS
  <2>4. T \in Seq(Units0) /\ Len(T) \in Nat /\ n = Len(T)
    <3>1. \A i \in 1 .. n : U("serverinit", i, <<>>) \in Units0
      BY <2>3, HandshakeUnits
    <3> QED
      BY <2>3, <3>1
  <2> HIDE DEF n, T
  <2>5. Ahead' = T
    <3>1. Ahead = <<>>
      BY DEF Waiting
    <3> QED
      BY <1>0, <2>2, <2>4, <3>1, AnswerIs
  <2>6. Flow(T, n, TRUE)
    <3> DEFINE B == {n + 1}
    <3>1. B \in SUBSET Nat /\ n + 1 \in B
      BY <2>3
    <3>2. Starts(T, B)
      <4>1. ASSUME NEW p \in B, p <= Len(T) PROVE FALSE
        BY <2>3, <2>4, <4>1
      <4> QED
        BY <4>1 DEF Starts
    <3>3. Len(T) + 1 \in B /\ \A p \in B : p <= Len(T) + 1
      BY <2>3, <2>4
    <3> QED
      BY <3>1, <3>2, <3>3 DEF Flow
  <2>7. NoProvide(T)
    <3>1. \A i : U("serverinit", i, <<>>).k # "provide"
      BY DEF U
    <3> QED
      BY <2>3, <2>4, <3>1 DEF NoProvide
  <2>8. Greeted(T, n)
    <3>1. Len(T) > 0 /\ 1 \in 1 .. n
      BY <2>3, <2>4
    <3> QED
      BY <2>3, <2>6, <2>7, <3>1 DEF Greeted
  <2>9. Greeted(Ahead', IF rfb'.tight THEN 4 ELSE 2)
    BY <1>0, <2>5, <2>8, Zenon DEF n
  <2> QED
    BY <2>9, Zenon DEF Greeting
<1>2. ASSUME rfb.init # "ServerInitialisation" PROVE Greeting(rfb', Ahead', srv')
  <2>1. rfb'.init # "ServerInitialisation"
    BY <1>0, <1>2
  <2> QED
    BY <2>1, Zenon DEF Greeting
<1>3. Greeting(rfb', Ahead', srv')
  BY <1>1, <1>2
<1>4. rfb'.conn # "connected" /\ Live(rfb') /\ Insync(rfb')
  BY <1>0
<1> QED
  BY <1>3, <1>4, StepNext

\* The server's answers in the handshake keep the client in step.
LEMMA AnswersStep ==
    ASSUME Base, Hand, InStep, ServerHandshake
    PROVE  InStep'
<1>1. /\ up # <<>> /\ ws.ready = "open" /\ up' = Tail(up) /\ rfb' = rfb /\ buf' = buf /\ turn' = turn
      /\ Head(up) \in Silent \cup Questions
      /\ Head(up) \in Silent => wire' = wire /\ srv' = srv
  BY DEF ServerHandshake, Reached, Silent, Questions
<1>2. Live(rfb)
  BY <1>1 DEF Hand, Linked
<1>3. CASE rfb.conn = "connecting"
  <2>1. Talk
    BY <1>3 DEF Hand
  <2>2. CASE Head(up) \in Silent
    <3>1. Ahead' = Ahead /\ srv' = srv
      BY <1>1, <2>2 DEF Ahead
    <3>2. Greeting(rfb', Ahead', srv')
      BY <1>1, <1>3, <3>1 DEF InStep
    <3>3. rfb'.conn # "connected" /\ Live(rfb') /\ Insync(rfb')
      BY <1>1, <1>2, <1>3 DEF InStep
    <3> QED
      BY <3>2, <3>3, StepNext
  <2>3. CASE Waiting /\ Head(up) \in Questions /\ Asks(rfb, Head(up), srv.stage) /\ Tail(up) = <<>>
    BY <1>2, <1>3, <2>3, AnsweredStep
  <2> QED
    BY <1>1, <2>1, <2>2, <2>3, NextAsked
<1>4. CASE rfb.conn = "connected"
  <2>1. Head(up) \in Heard
    <3>1. up \in Seq(Heard)
      BY <1>4 DEF InStep, Heeds
    <3> QED
      BY <1>1, <3>1, HeadTailProperties
  <2>2. Heard \cap Questions = {}
    BY DEF Heard, Requests, Polite, Questions, Silent
  <2>3. wire' = wire /\ srv' = srv
    BY <1>1, <2>1, <2>2
  <2> QED
    BY <1>1, <1>4, <2>3, TakesStep
<1> QED
  BY <1>2, <1>3, <1>4 DEF Live

\* What the server reads of a connected client makes it owe, not send.
LEMMA ReadStep ==
    ASSUME Base, Hand, InStep, ServerReads
    PROVE  InStep'
<1>1. /\ up # <<>> /\ ws.ready = "open" /\ up' = Tail(up) /\ rfb' = rfb /\ buf' = buf /\ turn' = turn /\ wire' = wire
      /\ Head(up) \notin Silent \cup Questions
  BY DEF ServerReads, Reached, Silent, Questions
<1>2. Live(rfb)
  BY <1>1 DEF Hand, Linked
<1>3. rfb.conn # "connecting"
  <2>1. ASSUME rfb.conn = "connecting" PROVE FALSE
    <3>1. Talk
      BY <2>1 DEF Hand
    <3> QED
      BY <1>1, <3>1, NextAsked
  <2> QED
    BY <2>1
<1>4. rfb.conn = "connected"
  BY <1>2, <1>3 DEF Live
<1>5. Head(up) # "clip request" => srv'.wants \subseteq srv.wants \cup {"request"}
  <2>1. Serving \subseteq DOMAIN srv
    BY BaseIs
  <2>2. \/ Head(up) = "request" /\ srv' = [srv EXCEPT !.asked = TRUE]
        \/ Head(up) = "enable" /\ srv' = [srv EXCEPT !.continuous = "on"]
        \/ Head(up) = "clip request"
        \/ Head(up) = "clip notify" /\ srv' = [srv EXCEPT !.wants = @ \cup {"request"}]
        \/ Head(up) = "encodings" /\ srv' = [srv EXCEPT !.stage = "normal"]
        \/ srv' = srv
    BY DEF ServerReads
  <2> QED
    BY <2>1, <2>2 DEF Serving
<1> QED
  BY <1>1, <1>4, <1>5, TakesStep

-----------------------------------------------------------------------------
(* Once the user has changed view only.                                    *)

\* The changes of the connection's state keep it that view only was changed.
LEMMA ChangesToggled ==
    ASSUME NEW u \in Pages, Toggled(u), NEW r, NEW w
    PROVE  /\ Toggled(ToDisconnected([ui |-> u, rfb |-> r, ws |-> w]).ui)
           /\ Toggled(ToConnected([ui |-> u, rfb |-> r, ws |-> w]).ui)
<1>1. Toggled(DisconnectFinished(u)) /\ Toggled(ConnectFinished(u))
  BY DEF Toggled, DisconnectFinished, ConnectFinished, Pages
<1> DEFINE c == [ui |-> u, rfb |-> r, ws |-> w]
<1>2. ToDisconnected(c).ui = DisconnectFinished(u) \/ ToDisconnected(c).ui = u
  BY DEF ToDisconnected
<1>3. ToConnected(c).ui = ConnectFinished(u) \/ ToConnected(c).ui = u
  BY DEF ToConnected
<1> QED
  BY <1>1, <1>2, <1>3

\* A failure keeps it.
LEMMA FailedToggled ==
    ASSUME NEW u \in Pages, Toggled(u), NEW r, Session(r), NEW w \in Channels
    PROVE  Toggled(Failed([ui |-> u, rfb |-> r, ws |-> w]).ui)
<1>1. PICK r1, w1 : ToDisconnecting([ui |-> u, rfb |-> r, ws |-> w]) = [ui |-> u, rfb |-> r1, ws |-> w1]
  <2> DEFINE c == [ui |-> u, rfb |-> r, ws |-> w]
             A == [r EXCEPT !.conn = "disconnecting", !.timer = TRUE]
             B == CloseSocket(w)
  <2>1. ToDisconnecting(c) = [ui |-> u, rfb |-> A, ws |-> B] \/ ToDisconnecting(c) = c
    BY DEF ToDisconnecting
  <2> QED
    BY <2>1
<1>2. Failed([ui |-> u, rfb |-> r, ws |-> w]) = ToDisconnected([ui |-> u, rfb |-> r1, ws |-> w1])
  BY <1>1 DEF Failed
<1> QED
  BY <1>2, ChangesToggled

\* A step that fails the session keeps it.
LEMMA FailsToggled ==
    ASSUME ui \in Pages, Toggled(ui), NEW r, Session(r), NEW w \in Channels,
           Becomes(Failed([ui |-> ui, rfb |-> r, ws |-> w]))
    PROVE  Toggled(ui')
<1>1. Toggled(Failed([ui |-> ui, rfb |-> r, ws |-> w]).ui)
  BY FailedToggled
<1> QED
  BY <1>1 DEF Becomes

\* The page's operations keep it.
LEMMA PageToggled ==
    ASSUME ui \in Pages, Toggled(ui), Page
    PROVE  Toggled(ui')
<1>1. CASE UIConnect \/ UIReconnect
  BY <1>1 DEF UIConnect, UIReconnect, Open, Toggled, Pages
<1>2. CASE UICancelReconnect \/ UISetCredentials \/ ClipboardPasteFrom \/ UpdateViewOnly
  BY <1>2 DEF UICancelReconnect, UISetCredentials, ClipboardPasteFrom, UpdateViewOnly, UserOp, Toggled, Pages
<1>3. CASE UIDisconnect
  <2>1. ToDisconnecting(Conn) = [Conn EXCEPT !.rfb.conn = "disconnecting", !.rfb.timer = TRUE, !.ws = CloseSocket(@)]
    BY <1>3 DEF UIDisconnect, ToDisconnecting, Conn
  <2>2. ui' = [ui EXCEPT !.connected = FALSE, !.inhibit = TRUE, !.dialog = FALSE, !.ops = @ + 1, !.left = TRUE]
    BY <1>3, <2>1 DEF UIDisconnect, Becomes, Conn
  <2> QED
    BY <2>2 DEF Toggled, Pages
<1> QED
  BY <1>1, <1>2, <1>3 DEF Page

\* The handlers of the handshake keep it.
LEMMA HandshakeToggled ==
    ASSUME Session(rfb), ws \in Channels, turn \in Turns, ui \in Pages, Toggled(ui), Handshake
    PROVE  Toggled(ui')
<1>1. CASE Plain
  BY <1>1 DEF Plain, Toggled, Pages
<1>2. ASSUME NEW k, Becomes(Failed([Conn EXCEPT !.rfb = At(k)])) PROVE Toggled(ui')
  <2>1. [Conn EXCEPT !.rfb = At(k)] = [ui |-> ui, rfb |-> At(k), ws |-> ws]
    BY DEF Conn
  <2> QED
    BY <1>2, <2>1, AtTyped, FailsToggled
<1>3. CASE Becomes(ToConnected([Conn EXCEPT !.rfb = At("serverinit")]))
  <2>1. [Conn EXCEPT !.rfb = At("serverinit")] = [ui |-> ui, rfb |-> At("serverinit"), ws |-> ws]
    BY DEF Conn
  <2>2. Toggled(ToConnected([Conn EXCEPT !.rfb = At("serverinit")]).ui)
    BY <2>1, ChangesToggled
  <2> QED
    BY <1>3, <2>2 DEF Becomes
<1> QED
  BY <1>1, <1>2, <1>3, HandshakeWrites

\* The handlers of the messages keep it.
LEMMA MessagesToggled ==
    ASSUME Session(rfb), ws \in Channels, ui \in Pages, Toggled(ui), NormalMsg
    PROVE  Toggled(ui')
<1>1. CASE SetColourMap
  BY <1>1, FailsToggled DEF SetColourMap, Conn
<1>2. CASE UnexpectedMessage
  <2>1. [Conn EXCEPT !.rfb = At("other")] = [ui |-> ui, rfb |-> At("other"), ws |-> ws]
    BY DEF Conn
  <2> QED
    BY <1>2, <2>1, AtTyped, FailsToggled DEF UnexpectedMessage
<1>3. CASE ~ SetColourMap /\ ~ UnexpectedMessage
  <2>1. ui' = ui
    BY <1>3 DEF NormalMsg, NormalTurnEnds, UpdateHeader, UpdateRect, MessageIncomplete, Handled, Bell, Xvp,
       ServerFence, EndOfContinuousUpdates, ServerCutText, ExtendedClipboard
  <2> QED
    BY <2>1
<1> QED
  BY <1>1, <1>2, <1>3

\* The end of the channel keeps it.
LEMMA ClosesToggled ==
    ASSUME Session(rfb), ws \in Channels, ui \in Pages, Toggled(ui), SocketCloses
    PROVE  Toggled(ui')
<1> DEFINE w == [ws EXCEPT !.ready = "closed"]
           c == [ui |-> ui, rfb |-> rfb, ws |-> w]
           after == CASE rfb.conn = "disconnecting" -> ToDisconnected(c)
                      [] rfb.conn \in {"connecting", "connected"} -> Failed(c)
                      [] OTHER -> c
<1>1. [Conn EXCEPT !.ws.ready = "closed"] = c
  BY DEF Conn
<1>2. Becomes(IF ws.close THEN [after EXCEPT !.ws.close = FALSE] ELSE c)
  BY <1>1 DEF SocketCloses
<1>6. w \in Channels
  BY DEF Channels
<1> HIDE DEF w
<1>3. Toggled(after.ui)
  <2>1. Toggled(ToDisconnected(c).ui) /\ Toggled(Failed(c).ui) /\ Toggled(c.ui)
    BY <1>6, ChangesToggled, FailedToggled
  <2>2. after = ToDisconnected(c) \/ after = Failed(c) \/ after = c
    OBVIOUS
  <2> HIDE DEF after, c
  <2> QED
    BY <2>1, <2>2
<1> HIDE DEF after
<1>4. ws.close => ui' = [after EXCEPT !.ws.close = FALSE].ui
  BY <1>2 DEF Becomes
<1>5. ~ ws.close => ui' = ui
  BY <1>2 DEF Becomes
<1>7. [after EXCEPT !.ws.close = FALSE].ui = after.ui
  OBVIOUS
<1> QED
  BY <1>3, <1>4, <1>5, <1>7

\* Every step keeps it.
LEMMA NextToggled ==
    ASSUME Base, Toggled(ui), [Next]_vars
    PROVE  Toggled(ui')
<1>1. ui \in Pages /\ turn \in Turns /\ ws \in Channels /\ Session(rfb)
  BY BaseIs
<1>2. CASE ReceiveEnds \/ Server \/ SocketOpens \/ ReceiveMessage \/ ResumeAuthentication \/ ArdComputed
           \/ ImageLoads \/ UNCHANGED vars
  <2>1. ui' = ui
    BY <1>2 DEF ReceiveEnds, Server, ServerHandshake, ServerReads, ServerUpdates, ServerChatters, Sends, SocketOpens,
       ReceiveMessage, ResumeAuthentication, ArdComputed, ImageLoads, vars
  <2> QED
    BY <2>1
<1>3. CASE DisconnectTimesOut
  <2>1. Toggled(ToDisconnected(Conn).ui)
    BY <1>1, ChangesToggled DEF Conn
  <2> QED
    BY <1>3, <2>1 DEF DisconnectTimesOut, Becomes
<1> QED
  BY <1>1, <1>2, <1>3, PageToggled, HandshakeToggled, MessagesToggled, ClosesToggled DEF Next, Client, Channel, Timers

-----------------------------------------------------------------------------
(* The handlers stay in step with the server.                              *)

\* A page that starts is in step,
LEMMA StepStarts ==
    ASSUME Init
    PROVE  InStep
<1>1. PICK viewOnly \in BOOLEAN : rfb = [NewRfb(FALSE, viewOnly) EXCEPT !.conn = "disconnected"]
  BY DEF Init
<1>2. rfb.conn = "disconnected" /\ rfb.synced
  BY <1>1 DEF NewRfb
<1>3. turn = "idle"
  BY DEF Init
<1>4. Insync(rfb)
  BY <1>2, Zenon DEF Insync
<1> QED
  BY <1>2, <1>3, <1>4 DEF InStep

\* and so it is after every step, as long as view only is not changed.
LEMMA StepAll ==
    ASSUME \A s \in Scopes : Conforms(s), Base, Hand, Hand', InStep, [Next]_vars, ~ Toggled(ui')
    PROVE  InStep'
<1>1. CASE Page
  BY <1>1, PageStep
<1>2. CASE Client
  BY <1>2, EndsStep, HandshakeStep, NormalStep DEF Client
<1>3. CASE Channel
  BY <1>3, OpensStep, ClosesStep, ReceiveStep DEF Channel
<1>4. CASE Timers
  BY <1>4, TimersStep
<1>5. CASE Server
  BY <1>5, UpdatesStep, ChattersStep, AnswersStep, ReadStep DEF Server
<1>6. CASE UNCHANGED vars
  <2>1. /\ rfb' = rfb /\ buf' = buf /\ turn' = turn /\ wire' = wire /\ up' = up /\ srv' = srv
    BY <1>6 DEF vars
  <2>2. Ahead' = Ahead
    BY <2>1 DEF Ahead
  <2> QED
    BY <2>1, <2>2, StepSame
<1> QED
  BY <1>1, <1>2, <1>3, <1>4, <1>5, <1>6 DEF Next

\* What a handler takes for the start of a message or of a rectangle is one
\* (rfb.js, _normalMsg, _framebufferUpdate and every rQwait), however the network
\* cuts the stream and whatever a wait gave back, as long as the user does not
\* change view only; for servers that put nothing behind a last rectangle and
\* send the clipboard only when asked.
THEOREM HandlersStayInSync == (\A s \in Scopes : Conforms(s)) => (Spec => []InSyncUntilToggled)
<1> DEFINE I == Hand /\ (Toggled(ui) \/ InStep)
<1> SUFFICES ASSUME \A s \in Scopes : Conforms(s) PROVE Spec => []InSyncUntilToggled
  OBVIOUS
<1>1. Init /\ Base => I
  BY HandStarts, StepStarts
<1>2. Base /\ Base' /\ I /\ [Next]_vars => I'
  BY HandNext, NextToggled, StepAll
<1>3. I => InSyncUntilToggled
  BY Zenon DEF InSyncUntilToggled, Toggled, InStep, Insync
<1> QED
  BY <1>1, <1>2, <1>3, BaseHolds, PTL DEF Spec
=============================================================================
